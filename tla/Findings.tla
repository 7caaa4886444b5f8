------------------------------- MODULE Findings -------------------------------
(***************************************************************************)
(* What a finding is worth and how findings are summed up:                 *)
(* crates/core/src/{confidence,evidence,evidence_graph,opportunity}.rs and *)
(* crates/core/src/analysis.rs.                                            *)
(*                                                                         *)
(* The code computes with floating point numbers between 0 and 1.  Here a  *)
(* share is a number of basis points and a priority score a number of      *)
(* hundred-millionths; the weights, bands, caps and roundings are those of *)
(* the code.  An evidence chain is the set of its items, each with its     *)
(* type and what it is about.                                              *)
(***************************************************************************)
EXTENDS FactSet

CONSTANTS
  EconomicReference       \* PriorityWeights: the impact that counts as large

ASSUME EconomicReferenceAssumption == EconomicReference \in Nat \ {0}

Share(n, d) == (10000 * LesserOf(n, d)) \div d

Whole == 10000

(******************************* confidence *******************************)
Weights == [document_evidence |-> 25, rule_match |-> 25, calculation_certainty |-> 15,
            information_completeness |-> 15, consistency |-> 10, model_agreement |-> 10]

InvestigateFrom == 50

band_for(score) == IF score >= 90 THEN "strong" ELSE IF score >= 75 THEN "good"
                   ELSE IF score >= InvestigateFrom THEN "investigate" ELSE "not_actionable"

\* The cases in which a high average would mislead however good the rest looks.
FailsClosed(f) == \/ f.rule_match = 0
                  \/ f.contradiction_score >= Whole \div 2
                  \/ f.document_evidence = 0

Confidence(f) ==
  LET weighted == f.document_evidence * Weights.document_evidence
                + f.rule_match * Weights.rule_match
                + f.calculation_certainty * Weights.calculation_certainty
                + (Whole - f.missing_information) * Weights.information_completeness
                + (Whole - f.contradiction_score) * Weights.consistency
                + f.model_agreement * Weights.model_agreement
      average == (weighted + Whole \div 2) \div Whole
      score == IF FailsClosed(f) THEN LesserOf(average, InvestigateFrom - 1) ELSE average
  IN  [score |-> score, band |-> band_for(score)]

Actionable(confidence) == confidence.band # "not_actionable"

(******************************** evidence ********************************)
Item(type, of) == [type |-> type, of |-> of]

has_document_anchor(evidence) == \E item \in evidence : item.type = "document_value"

has_rule(evidence) == \E item \in evidence : item.type = "rule"

validate_actionable(evidence) == has_document_anchor(evidence) /\ has_rule(evidence)

(******************************** priority ********************************)
One == 100000000

Divisor == [low |-> 10, medium |-> 16, high |-> 25]

Multiplier == [routine |-> 100, before_year_end |-> 115, before_filing |-> 130]

RiskTerm == [low |-> 30, medium |-> 60, high |-> 90]

\* relevance is given in tenths.
compute_priority(impact, confidence, effort, urgency, relevance) ==
  LET magnitude == GreaterOf(Midpoint(impact), -Midpoint(impact))
      economic == (1000 * LesserOf(magnitude, EconomicReference)) \div EconomicReference
      raw == (economic * confidence.score * relevance * Multiplier[urgency] * 10)
             \div Divisor[effort]
      score == LesserOf(raw, One)
  IN  [score |-> score,
       band |-> IF ~Actionable(confidence) THEN "needs_more_evidence"
                ELSE IF 2 * score >= One THEN "high"
                ELSE IF confidence.band = "investigate" THEN "needs_more_evidence"
                ELSE "should_investigate"]

compute_risk_priority(confidence, risk) ==
  [score |-> confidence.score * RiskTerm[risk] * 10000,
   band |-> IF ~Actionable(confidence) THEN "needs_more_evidence"
            ELSE IF risk = "high" THEN "high" ELSE "should_investigate"]

(****************************** opportunities *****************************)
is_presented(o) == o.status # "rejected"

\* A likely slip: what nobody stands behind is counted.
StoodBehindUnlessRejected(o) == IF o.status = "rejected" THEN ZeroRange ELSE o.impact

stood_behind(o) ==
  IF o.status = "rejected" \/ ~Actionable(o.confidence) THEN ZeroRange ELSE o.impact

countable_impact(o) == IF o.effect = "deferral" THEN ZeroRange ELSE stood_behind(o)

deferred_impact(o) == IF o.effect = "deferral" THEN stood_behind(o) ELSE ZeroRange

\* sort_by is stable: equal scores keep their order.
ByPriority(opportunities) ==
  LET Before(i, j) ==
        \/ opportunities[i].priority.score > opportunities[j].priority.score
        \/ opportunities[i].priority.score = opportunities[j].priority.score /\ i < j
      positions == DOMAIN opportunities
      order == Ranked(positions, {p \in positions \X positions : Before(p[1], p[2])})
  IN  [n \in DOMAIN order |-> opportunities[order[n]]]

(***************************** analysis result ****************************)
InBand(opportunities, band) ==
  Len(SelectSeq(opportunities, LAMBDA o : o.priority.band = band))

\* The sums of the first so many findings, as far as they can be represented.
RunningTotal(presented) ==
  LET total[n \in 0..Len(presented)] ==
        IF n = 0 THEN Ok(ZeroRange)
        ELSE IF ~total[n - 1].ok THEN total[n - 1]
        ELSE AddRanges(total[n - 1].v, countable_impact(presented[n]))
  IN  total

\* A sum that overflows is reported as nothing rather than as a wrapped number.
EstimatedTotal(presented) ==
  LET sum == RunningTotal(presented)[Len(presented)] IN IF sum.ok THEN sum.v ELSE ZeroRange

Presented(opportunities) ==
  Picked(opportunities, {i \in DOMAIN opportunities : is_presented(opportunities[i])})

Rejected(opportunities) ==
  Picked(opportunities, {i \in DOMAIN opportunities : ~is_presented(opportunities[i])})

derive_actions(presented) ==
  LET ranked == ByPriority(SelectSeq(presented,
                   LAMBDA o : is_presented(o) /\ Actionable(o.confidence)))
  IN  [n \in 1..LesserOf(3, Len(ranked)) |-> ranked[n].title]

summarise(opportunities, warnings, missing, covered, cleared, limits, rejected) ==
  LET presented == Presented(opportunities) IN
  [opportunities |-> opportunities, rejected |-> rejected, warnings |-> warnings,
   missing_information |-> missing, covered_areas |-> covered, cleared |-> cleared,
   limitations |-> limits, recommended_actions |-> derive_actions(presented),
   summary |-> [identified_opportunities |-> Len(presented),
                high_priority_count |-> InBand(presented, "high"),
                needs_investigation_count |-> InBand(presented, "should_investigate"),
                missing_information_count |-> InBand(presented, "needs_more_evidence"),
                warnings_count |-> Len(warnings),
                estimated_total |-> EstimatedTotal(presented),
                found_nothing |-> presented = <<>>]]

(***************************** evidence graph *****************************)
(* Which findings rest on what.  The graph keeps its edges and, apart from  *)
(* them, an index of the edges in both directions; saving the graph drops   *)
(* the index and reindex rebuilds it.  A node is [kind, id]; an item of a   *)
(* chain is a node that is not a finding or an analysis.                    *)

Node(kind, id) == [kind |-> kind, id |-> id]
Finding(id) == Node("finding", id)
Analysis(id) == Node("analysis", id)
is_document_anchored(node) == node.kind = "fact"

EmptyGraph == [nodes |-> {}, edges |-> {}, outgoing |-> {}, incoming |-> {}]

add_edge(graph, from, to, kind) ==
  [nodes |-> graph.nodes \cup {from, to},
   edges |-> graph.edges \cup {[from |-> from, to |-> to, kind |-> kind]},
   outgoing |-> graph.outgoing \cup {<<from, to>>},
   incoming |-> graph.incoming \cup {<<to, from>>}]

\* A fact, a rule and a calculation carry a finding; a model's judgement and an
\* assumption only inform it.  The inputs of a calculation are not recorded.
EdgeKind(item) == IF item.kind \in {"fact", "rule", "calculation"} THEN "supports" ELSE "informs"

add_finding(graph, analysis, finding, chain) ==
  FoldLeft(LAMBDA g, item : add_edge(g, item, Finding(finding), EdgeKind(item)),
           add_edge(graph, Finding(finding), Analysis(analysis), "part_of"), chain)

\* Breadth first from start, which is itself reached only around a cycle.
reachable(start, adjacency) ==
  LET next(nodes) == {pair[2] : pair \in {p \in adjacency : p[1] \in nodes}}
      seen[n \in 1..(Cardinality(adjacency) + 1)] ==
        IF n = 1 THEN next({start}) ELSE seen[n - 1] \cup next(seen[n - 1])
  IN seen[Cardinality(adjacency) + 1]

dependents(graph, node) == reachable(node, graph.outgoing)
provenance(graph, node) == reachable(node, graph.incoming)

affected_findings(graph, node) == {n.id : n \in {m \in dependents(graph, node) : m.kind = "finding"}}
affected_analyses(graph, node) == {n.id : n \in {m \in dependents(graph, node) : m.kind = "analysis"}}

finding_is_document_anchored(graph, finding) ==
  \E e \in graph.edges : e.to = Finding(finding) /\ e.kind = "supports" /\ is_document_anchored(e.from)

\* serde leaves the index out, and reads it back empty.
Reloaded(graph) == [graph EXCEPT !.outgoing = {}, !.incoming = {}]
reindex(graph) ==
  [graph EXCEPT !.outgoing = {<<e.from, e.to>> : e \in graph.edges},
                !.incoming = {<<e.to, e.from>> : e \in graph.edges}]
=============================================================================

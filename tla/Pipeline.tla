------------------------------- MODULE Pipeline -------------------------------
(***************************************************************************)
(* One analysis, from documents to result:                                 *)
(* AnalysisPipeline::run_with_budget of crates/pipeline/src/pipeline.rs.   *)
(*                                                                         *)
(* The function awaits twice, for the model that proposes candidates and   *)
(* for the model that tries to refute them, so there is one action up to   *)
(* each await and one for the rest.  A model may answer with anything its  *)
(* schema admits, or not at all; the gateway's own control is Gateway.     *)
(* What the customer asked for (documents, answers, the sources' standing  *)
(* read when the run began) does not change while it runs.                 *)
(***************************************************************************)
EXTENDS RuleEngine, Findings

CONSTANTS
  Inputs,            \* documents, profile, accounts, year and live source states
  Candidates,        \* the candidate lists the discovering model may return
  Verdicts,          \* what the refuting model may say about one title
  BeyondTheEconomy,  \* implausible_values' bound
  SparseAbove,       \* how many open questions make a profile sparse
  RequireReviewed,   \* require_reviewed_rules_for_identified
  AcceptVerified,    \* accept_verified_sources_in_place_of_review
  NumberAnswers      \* what may be answered to each question about a number

VARIABLES input, stage, facts, warnings, candidates, evaluations, verdicts, runs, result

pipelineVars == <<input, stage, facts, warnings, candidates, evaluations, verdicts, runs, result>>

Stages == {"waiting", "searching_opportunities", "falsifying", "verifying", "done",
           "no_documents", "tax_year_not_covered"}

Warn(code, about) == [code |-> code, about |-> about]

Answering(in, set, profile) ==
  [facts |-> set, profile |-> profile, constants |-> YearConstants[in.year],
   year |-> in.year, accounts |-> in.accounts]

Context(in, set) == Answering(in, set, in.profile)

(* What parsing has established: of the rule file, of what its language      *)
(* yields, of the answers of the two models.                                 *)
IsSequence(s) == s \in Seq(ToSet(s))

IsAmount(a) == a.ok \in BOOLEAN /\ (a.ok => a.v \in Int)

ASSUME RulesAssumption ==
  \A r \in ToSet(RuleSet) :
    /\ r.effort \in DOMAIN Divisor /\ r.urgency \in DOMAIN Multiplier
    /\ r.risk \in DOMAIN RiskTerm
    /\ IsFiniteSet(referenced_facts(r)) /\ IsSequence(r.evidence)
    /\ \/ r.impact.kind = "none"
       \/ /\ r.impact.kind = "range"
          /\ IsSequence(ExpressionNeeds(r.impact.low)) /\ IsSequence(ExpressionNeeds(r.impact.high))

ASSUME LanguageAssumption ==
  \A in \in {i \in Inputs : covers_tax_year(i.year)}, r \in ToSet(RuleSet) :
    LET ctx == Context(in, build_fact_set(in.documents)) IN
    /\ IsSequence(ConditionQuestions(r.conditions, ctx))
    /\ r.impact.kind = "range" =>
         IsAmount(ExpressionAmount(r.impact.low, ctx)) /\ IsAmount(ExpressionAmount(r.impact.high, ctx))

ASSUME AnswersAssumption ==
  /\ \A found \in Candidates : /\ IsSequence(found)
                               /\ \A c \in ToSet(found) : IsFiniteSet(c.supports)
  /\ \A v \in Verdicts : v.objection \in Nat /\ v.survives \in BOOLEAN

Questions == profile_fields_read \ DOMAIN NumberAnswers

\* Every way in which a customer may go on answering what is still open.
Answered(given, open, choices) ==
  UNION {{given @@ more : more \in [asked -> choices]} : asked \in SUBSET (open \ DOMAIN given)}

Extensions(profile) ==
  {[flags |-> f, numbers |-> n] :
     f \in Answered(profile.flags, Questions, BOOLEAN),
     n \in Answered(profile.numbers, DOMAIN NumberAnswers,
                    UNION {NumberAnswers[q] : q \in DOMAIN NumberAnswers})}

\* What a condition has decided, an answer to what is still open does not undo,
\* and no calculation reads an answer (rules/src/condition.rs, the module's
\* comment).
Keeps(condition, before, after) ==
  LET truths == {"true", "false", "unknown"} IN
  /\ ConditionTruth(condition, before) \in truths /\ ConditionTruth(condition, after) \in truths
  /\ ConditionTruth(condition, before) # "unknown" =>
       ConditionTruth(condition, after) = ConditionTruth(condition, before)

ASSUME LanguageIsMonotone ==
  \A in \in {i \in Inputs : covers_tax_year(i.year)}, r \in ToSet(RuleSet) :
    LET set == build_fact_set(in.documents)
        ctx == Context(in, set) IN
    \A p \in Extensions(in.profile) :
      LET later == Answering(in, set, p) IN
      /\ Keeps(r.conditions, ctx, later)
      /\ \A e \in ToSet(r.exceptions) : Keeps(e.when, ctx, later)
      /\ r.impact.kind = "range" =>
           /\ ExpressionAmount(r.impact.low, later) = ExpressionAmount(r.impact.low, ctx)
           /\ ExpressionAmount(r.impact.high, later) = ExpressionAmount(r.impact.high, ctx)

\* A standing is one of four, in the file as in what the sweep has stored.
ASSUME SourcesAssumption ==
  LET states == ToSet(SourceStates) IN
  /\ \A s \in DOMAIN Registry : Registry[s].state \in states
  /\ \A in \in Inputs : \A s \in DOMAIN in.sources : in.sources[s] \in states

PipelineInit ==
  /\ input \in Inputs
  /\ stage = "waiting"
  /\ facts = EmptyFactSet
  /\ warnings = <<>> /\ candidates = <<>> /\ evaluations = <<>> /\ runs = <<>>
  /\ verdicts = <<>>
  /\ result = <<>>

(******************** reading, up to the first model call *****************)
DocumentWarnings(doc) ==
  SetToSeq({Warn("unreadable_page", <<doc.name, p>>) : p \in doc.blank}
           \union (IF doc.unread THEN {Warn("document_not_read", <<doc.name>>)} ELSE {})
           \union (IF doc.truncated THEN {Warn("document_truncated", <<doc.name>>)} ELSE {}))

StructureWarnings(set) ==
  SetToSeq({Warn("conflicting_values", <<c.kind>>) : c \in contradictions(set)}
           \union {Warn("implausible_value", w) : w \in implausible_values(set, BeyondTheEconomy)})

ReadDocuments ==
  /\ stage = "waiting"
  /\ IF input.documents = <<>>
       THEN stage' = "no_documents" /\ UNCHANGED <<facts, warnings>>
       ELSE /\ facts' = build_fact_set(input.documents)
            /\ warnings' = FlattenSeq([i \in DOMAIN input.documents |->
                                          DocumentWarnings(input.documents[i])])
                           \o StructureWarnings(facts')
            /\ stage' = IF covers_tax_year(input.year) THEN "searching_opportunities"
                                                       ELSE "tax_year_not_covered"
  /\ UNCHANGED <<input, candidates, evaluations, verdicts, runs, result>>

(************************ discovery and the rules *************************)
Run(task, status) == [task |-> task, status |-> status]

\* The gateway scans the request it sends and the pipeline the raw pages; the
\* raw scan is the larger one, and the only one when the call failed.
warrants_a_warning(in) ==
  LET Count(f) == FoldLeft(LAMBDA n, doc : n + doc.scan[f], 0, in.documents)
  IN  Count("fences") > 0 \/ Count("roles") > 0 \/ Count("instructions") >= 2

\* A failed or refused call costs its candidates, never the analysis.
Discover ==
  /\ stage = "searching_opportunities"
  /\ \/ \E found \in Candidates :
          candidates' = found /\ runs' = Append(runs, Run("discovery", "succeeded"))
     \/ \E status \in {"failed", "refused"} :
          candidates' = <<>> /\ runs' = Append(runs, Run("discovery", status))
  /\ warnings' = IF warrants_a_warning(input)
                   THEN Append(warnings, Warn("instruction_like_content", <<>>)) ELSE warnings
  /\ evaluations' = evaluate_all(Context(input, facts))
  /\ stage' = "falsifying"
  /\ UNCHANGED <<input, facts, verdicts, result>>

(******************************* falsification ****************************)
\* Verdicts are asked for and looked up by title.
ListedTitles ==
  {e.title : e \in {x \in ToSet(evaluations) : produces_finding(x.outcome)}}
  \union {c.title : c \in ToSet(candidates)}

Falsify ==
  /\ stage = "falsifying"
  /\ IF ListedTitles = {}
       THEN verdicts' = <<>> /\ UNCHANGED runs
       ELSE \/ \E judged \in SUBSET ListedTitles : \E v \in [judged -> Verdicts] :
                 verdicts' = v /\ runs' = Append(runs, Run("contradiction_check", "succeeded"))
            \/ \E status \in {"failed", "refused"} :
                 verdicts' = <<>> /\ runs' = Append(runs, Run("contradiction_check", status))
  /\ stage' = "verifying"
  /\ UNCHANGED <<input, facts, warnings, candidates, evaluations, result>>

Refuted(title) == title \in DOMAIN verdicts /\ ~verdicts[title].survives

Objection(title) == IF title \in DOMAIN verdicts THEN verdicts[title].objection ELSE 0

(***************************** building findings **************************)
RuleOf(id) == CHOOSE r \in ToSet(RuleSet) : r.id = id

LiveState(source) ==
  IF Has(input.sources, source) THEN input.sources[source] ELSE Registry[source].state

source_state_of(rule) == combine({LiveState(s) : s \in ToSet(rule.sources)})

Corroborated(e) ==
  \E c \in ToSet(candidates) : e.id \in c.suggests \/ c.category = e.category

RuleEvidence(rule, e) ==
  {Item("document_value", k) : k \in referenced_facts(rule) \intersect Kinds(facts)}
  \union {Item("rule", rule.id)}
  \union (IF e.calculated THEN {Item("calculation", rule.id)} ELSE {})
  \union (IF ~rule.reviewed /\ rule.noted THEN {Item("assumption", rule.id)} ELSE {})
  \union (IF Corroborated(e) THEN {Item("model_judgement", rule.id)} ELSE {})

\* Measured, not asserted; the gaps are counted as often as they are listed.
RuleFactors(rule, e) ==
  LET needed == Cardinality(referenced_facts(rule))
      traceable == Cardinality(referenced_facts(rule) \intersect Kinds(facts))
      gaps == Len(e.missing) + Len(e.questions)
  IN
  [document_evidence |-> IF needed = 0 THEN 0 ELSE Share(traceable, needed),
   rule_match |-> IF e.outcome = "matched" THEN Whole ELSE 4000,
   calculation_certainty |-> IF e.calculated THEN Whole
                             ELSE IF rule.impact.kind = "none" THEN 7000 ELSE 2000,
   missing_information |-> Share(gaps, GreaterOf(needed, 1) + Len(e.questions)),
   contradiction_score |-> Objection(e.title),
   model_agreement |-> IF Corroborated(e) THEN Whole ELSE 5000]

\* The order of the gates is the order in which they outrank one another.
status_for(rule, e, evidence, confidence) ==
  LET sources == source_state_of(rule)
      grounded == rule.reviewed \/ (AcceptVerified /\ sources = "verified")
  IN
  IF Refuted(e.title) THEN "rejected"
  ELSE IF rule.category = "risk" THEN "warning"
  ELSE IF e.outcome = "indeterminate" THEN "investigate"
  ELSE IF ~validate_actionable(evidence) \/ ~Actionable(confidence) THEN "investigate"
  ELSE IF sources = "mismatch" THEN "investigate"
  ELSE IF RequireReviewed /\ ~grounded THEN "verify"
  ELSE "identified"

MissingTold(rule, e) ==
  {<<"fact", k>> : k \in ToSet(e.missing)} \union {<<"hint", h>> : h \in rule.hints}
  \union {<<"question", q>> : q \in ToSet(e.questions)}
  \union (IF e.title \in DOMAIN verdicts
            THEN {<<"hint", h>> : h \in verdicts[e.title].missing} ELSE {})

build_rule_opportunity(rule, e) ==
  LET evidence == RuleEvidence(rule, e)
      confidence == Confidence(RuleFactors(rule, e))
  IN
  [title |-> rule.title, category |-> rule.category, rules |-> {rule.id},
   status |-> status_for(rule, e, evidence, confidence), impact |-> e.impact,
   effect |-> rule.effect, evidence |-> evidence, confidence |-> confidence,
   missing |-> MissingTold(rule, e),
   priority |-> IF rule.category = "risk" \/ IsZeroRange(e.impact)
                  THEN compute_risk_priority(confidence, rule.risk)
                  ELSE compute_priority(e.impact, confidence, rule.effort, rule.urgency,
                                        rule.relevance)]

\* No rule and no calculation, therefore no figure.
build_candidate_opportunity(c) ==
  LET anchored == c.supports \intersect Kinds(facts)
      confidence == Confidence(
        [document_evidence |-> Share(Cardinality(anchored), GreaterOf(Cardinality(c.supports), 1)),
         rule_match |-> 0, calculation_certainty |-> 0,
         missing_information |-> IF c.missing = {} THEN 4000 ELSE 8000,
         contradiction_score |-> Objection(c.title), model_agreement |-> Whole])
  IN
  [title |-> c.title, category |-> c.category, rules |-> {},
   status |-> IF Refuted(c.title) THEN "rejected" ELSE "investigate",
   impact |-> ZeroRange, effect |-> "reduction",
   evidence |-> {Item("document_value", k) : k \in anchored}
                \union {Item("model_judgement", c.title)},
   confidence |-> confidence, missing |-> {<<"hint", h>> : h \in c.missing},
   priority |-> compute_risk_priority(confidence, "low")]

(********************************* the result *****************************)
\* A rule that read none of the values it depends on has not looked.
Looked(rule) ==
  referenced_facts(rule) = {} \/ referenced_facts(rule) \intersect Kinds(facts) # {}

Firing ==
  {i \in DOMAIN evaluations : /\ produces_finding(evaluations[i].outcome)
                             /\ Looked(RuleOf(evaluations[i].id))}

RuleFindings ==
  LET firing == Picked(evaluations, Firing)
  IN  [i \in DOMAIN firing |-> build_rule_opportunity(RuleOf(firing[i].id), firing[i])]

\* A likely slip: a rule that was evaluated covers a candidate, fired or not.
CoveredByAnyRule(c) == \E e \in ToSet(evaluations) : e.id \in c.suggests

already_covered(c) ==
  \E e \in ToSet(evaluations) : e.id \in c.suggests /\ produces_finding(e.outcome)

Unanticipated == {i \in DOMAIN candidates : ~already_covered(candidates[i])}

CandidateFindings ==
  LET rest == Picked(candidates, Unanticipated)
  IN  [i \in DOMAIN rest |-> build_candidate_opportunity(rest[i])]

AllFindings == RuleFindings \o CandidateFindings

RuleErrors ==
  LET bad == SelectSeq(evaluations, LAMBDA e : e.outcome = "rule_error")
  IN  [i \in DOMAIN bad |-> Warn("rule_error", <<bad[i].id>>)]

\* A clean bill of health needs every value the rule reads.
Cleared ==
  {e.id : e \in {x \in ToSet(evaluations) :
     /\ x.outcome \in {"not_applicable", "exception_applies"}
     /\ referenced_facts(RuleOf(x.id)) \subseteq Kinds(facts)}}

covered_areas(opportunities) ==
  LET Count(seq, cat) == Len(SelectSeq(seq, LAMBDA x : x.category = cat))
      categories == {r.category : r \in ToSet(RuleSet)}
  IN  [cat \in categories |-> [rules_evaluated |-> Count(evaluations, cat),
                               findings |-> Count(opportunities, cat)]]

missing_information(opportunities) ==
  LET asked == UNION {{<<"question", q>> : q \in ToSet(e.questions)}
                      \union {<<"fact", k>> : k \in ToSet(e.missing)} : e \in ToSet(evaluations)}
      told == UNION {o.missing : o \in {x \in ToSet(opportunities) : is_presented(x)}}
  IN  [asked |-> asked, would_strengthen |-> told \ asked,
       sparse_profile |-> Cardinality(unanswered_fields(input.profile)) > SparseAbove]

limitations ==
  (IF \E e \in ToSet(evaluations) : e.awaiting THEN {"unreviewed"} ELSE {})
  \union (IF input.accounts = "preliminary" THEN {"preliminary"} ELSE {})

Conclude ==
  /\ stage = "verifying"
  /\ LET opportunities == ByPriority(Presented(AllFindings))
     IN result' = summarise(opportunities, warnings \o RuleErrors,
                            missing_information(opportunities), covered_areas(opportunities),
                            Cleared, limitations, Rejected(AllFindings))
  /\ stage' = "done"
  /\ UNCHANGED <<input, facts, warnings, candidates, evaluations, verdicts, runs>>

PipelineNext == ReadDocuments \/ Discover \/ Falsify \/ Conclude

PipelineSpec == PipelineInit /\ [][PipelineNext]_pipelineVars

-----------------------------------------------------------------------------
(******************************* properties *******************************)
\* What the engine has decided, later answers do not undo: a rule that matched
\* keeps matching, one that does not apply never applies, and a silent rule
\* (an exception, an error) never turns into a finding.  Three-valued logic is
\* there for this (rules/src/condition.rs, the module's comment).
DecidedIsFinal ==
  stage = "falsifying" =>
    \A i \in DOMAIN evaluations : \A p \in Extensions(input.profile) :
      LET old == evaluations[i].outcome
          new == OutcomeOf(RuleOf(evaluations[i].id), Answering(input, facts, p))
      IN  /\ old \in {"matched", "not_applicable"} => new = old
          /\ produces_finding(new) => produces_finding(old)

\* An established finding stands on its documents, on a rule no cited source
\* contradicts and that a reviewer or every source vouches for, and nothing the
\* refuting model answered weighs against it (status_for's gates, in whatever
\* order the models, the documents and the sources' sweep delivered them).  It
\* does not say that a refutation was tried: see UnrefutedIsNotEstablished.
IdentifiedIsGrounded ==
  stage = "done" =>
    \A o \in ToSet(result.opportunities) : o.status = "identified" =>
      \E rule \in ToSet(RulesOf(input.year)) :
        /\ o.rules = {rule.id}
        /\ \A s \in ToSet(rule.sources) : LiveState(s) # "mismatch"
        /\ rule.reviewed \/ ~RequireReviewed
             \/ (AcceptVerified /\ \A s \in ToSet(rule.sources) : LiveState(s) = "verified")
        /\ ~Refuted(o.title) /\ 2 * Objection(o.title) < Whole
        /\ \E k \in referenced_facts(rule) : k \in Kinds(facts)
        /\ OutcomeOf(rule, Context(input, facts)) = "matched"

\* "When the skeptic cannot run, findings are not silently promoted", its
\* silence being no "clean bill of health" (pipeline.rs, falsify): without an
\* answer of the refuting model, no finding counts as established.
UnrefutedIsNotEstablished ==
  (stage = "done" /\ \E run \in ToSet(runs) :
                      run.task = "contradiction_check" /\ run.status # "succeeded")
    => \A o \in ToSet(result.opportunities) : o.status # "identified"

SumOf(amounts) ==
  LET upTo[n \in 0..Len(amounts)] == IF n = 0 THEN 0 ELSE upTo[n - 1] + amounts[n]
  IN  upTo[Len(amounts)]

\* The headline total is either nothing or what rules computed from values that
\* were read, each rule once, less what was refuted, seriously objected to or
\* only postpones the tax (countable_impact, EstimatedTotal).
CountedIsSupported ==
  stage = "done" =>
    LET total == result.summary.estimated_total
        counted == {i \in DOMAIN evaluations :
                      LET e == evaluations[i] IN
                      /\ e.calculated /\ produces_finding(e.outcome)
                      /\ RuleOf(e.id).effect # "deferral"
                      /\ referenced_facts(RuleOf(e.id)) \intersect Kinds(facts) # {}
                      /\ ~Refuted(e.title) /\ 2 * Objection(e.title) < Whole}
        Of(part, figures) == SumOf([i \in DOMAIN evaluations |-> IF i \in part THEN figures[i] ELSE 0])
        lows == [i \in DOMAIN evaluations |-> evaluations[i].impact.low]
        highs == [i \in DOMAIN evaluations |-> evaluations[i].impact.high]
    IN  IsZeroRange(total) \/
        \E part \in SUBSET counted : total.low = Of(part, lows) /\ total.high = Of(part, highs)

\* Whatever the models proposed and the rules found ends in one place: a rule
\* that fired and had something to read is presented or rejected, once; a
\* candidate is too, as often as it was proposed, unless a rule it suggested
\* fired.  Nothing that was refuted is presented and nothing is both cleared and
\* found.
NothingFallsThrough ==
  stage = "done" =>
    LET all == result.opportunities \o result.rejected
        Times(ids, title) == Cardinality({i \in DOMAIN all : all[i].rules = ids /\ all[i].title = title})
        Anticipated(c) ==
          \E e \in ToSet(evaluations) : e.id \in c.suggests /\ e.outcome \in {"matched", "indeterminate"}
    IN
    /\ \A e \in ToSet(evaluations) :
         /\ produces_finding(e.outcome) /\ Looked(RuleOf(e.id)) <=> Times({e.id}, e.title) = 1
         /\ e.id \in result.cleared => Times({e.id}, e.title) = 0
    /\ \A c \in ToSet(candidates) :
         Times({}, c.title) =
           Cardinality({i \in DOMAIN candidates : candidates[i].title = c.title /\ ~Anticipated(candidates[i])})
    /\ \A i \in DOMAIN all : Refuted(all[i].title) <=> i > Len(result.opportunities)

=============================================================================

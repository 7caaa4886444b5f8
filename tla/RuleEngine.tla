------------------------------ MODULE RuleEngine ------------------------------
(***************************************************************************)
(* The rule engine: crates/rules/src/{rule,engine}.rs.  Rules are data; the*)
(* language of their conditions and calculations is a parameter, for which *)
(* RuleLanguage is the one the code has.                                   *)
(*                                                                         *)
(* What a customer has not answered, a rule with no last year, and a year  *)
(* with no such parameter are keys that are absent from a function's       *)
(* domain.  A context holds facts, profile, constants (amounts and rates), *)
(* year and accounts.                                                      *)
(***************************************************************************)
EXTENDS FactSet

CONSTANTS
  RuleSet,          \* the rules, in the file's order
  YearConstants,    \* the parameters of each tax year the file has some for
  Registry,         \* the sources the file knows, each with what it asserts
  ConditionTruth(_, _),        \* Condition::eval of a condition in a context
  ConditionQuestions(_, _),    \* Condition::unanswered_profile_questions
  ConditionFacts(_),           \* Condition::referenced_facts
  ConditionFields(_),          \* the profile fields a condition reads
  ConditionResolves(_, _),     \* Condition::validate against a year's constants
  ExpressionAmount(_, _),      \* Expr::eval of a calculation in a context
  ExpressionNeeds(_),          \* Expr::required_facts
  ExpressionResolves(_, _)     \* validate_expr against a year's constants

ImpactNamesResolve(impact, constants) ==
  impact.kind = "range" => /\ ExpressionResolves(impact.low, constants)
                           /\ ExpressionResolves(impact.high, constants)

(********************************** rules *********************************)
applies_to_tax_year(rule, year) ==
  year >= rule.from /\ (Has(rule, "to") => year <= rule.to)

ImpactFacts(impact) ==
  IF impact.kind = "none" THEN <<>>
  ELSE Dedup(ExpressionNeeds(impact.low) \o ExpressionNeeds(impact.high))

\* Everything a rule reads, once each.
referenced_facts(rule) ==
  ToSet(ConditionFacts(rule.conditions)) \union ToSet(ImpactFacts(rule.impact))
  \union ToSet(rule.evidence)
  \union UNION {ToSet(ConditionFacts(rule.exceptions[i].when)) : i \in DOMAIN rule.exceptions}

produces_finding(outcome) == outcome \in {"matched", "indeterminate"}

SourceStates == <<"unretrieved", "unreachable", "mismatch", "verified">>

\* A likely slip: only the weakest source counts, a contradiction included.
WeakestOnly(states) ==
  IF states = {} THEN "unretrieved"
  ELSE SourceStates[CHOOSE i \in DOMAIN SourceStates :
         /\ SourceStates[i] \in states
         /\ \A s \in states : \E j \in i..4 : SourceStates[j] = s]

\* A contradicting source outranks the rest; otherwise the weakest one counts.
combine(states) ==
  IF states = {} THEN "unretrieved"
  ELSE IF "mismatch" \in states THEN "mismatch"
  ELSE SourceStates[CHOOSE i \in DOMAIN SourceStates :
         /\ SourceStates[i] \in states
         /\ \A s \in states : \E j \in i..4 : SourceStates[j] = s]

(********************************* engine *********************************)
profile_fields_read ==
  UNION {ConditionFields(r.conditions) \union UNION {ConditionFields(e.when) : e \in ToSet(r.exceptions)} :
           r \in ToSet(RuleSet)}

unanswered_fields(profile) ==
  profile_fields_read \ (DOMAIN profile.flags \union DOMAIN profile.numbers)

covers_tax_year(year) ==
  /\ year \in DOMAIN YearConstants
  /\ \E i \in DOMAIN RuleSet : applies_to_tax_year(RuleSet[i], year)

years_covered(rule) == {y \in DOMAIN YearConstants : applies_to_tax_year(rule, y)}

\* Which reports this build has rules for, and so may be sold.
AudienceKeys == [company |-> {"company", "accountant"}, private_individual |-> {"private"}]

covers_audience(audience) ==
  \E i \in DOMAIN RuleSet : audience \in AudienceKeys[RuleSet[i].taxpayer]

\* What RuleEngine::new refuses a rule set for.
RuleProblems ==
  {RuleSet[i].id : i \in {j \in DOMAIN RuleSet :
     \/ Has(RuleSet[j], "to") /\ RuleSet[j].to < RuleSet[j].from
     \/ RuleSet[j].relevance \notin 0..10
     \/ RuleSet[j].sources = <<>>
     \/ \E s \in ToSet(RuleSet[j].sources) : s \notin DOMAIN Registry
     \/ \E k \in DOMAIN RuleSet : k # j /\ RuleSet[k].id = RuleSet[j].id
     \/ \E y \in years_covered(RuleSet[j]) :
          \/ ~ConditionResolves(RuleSet[j].conditions, YearConstants[y])
          \/ ~ImpactNamesResolve(RuleSet[j].impact, YearConstants[y])
          \/ \E e \in ToSet(RuleSet[j].exceptions) :
               ~ConditionResolves(e.when, YearConstants[y])}}

\* The engine runs on a rule set that new accepted.
ASSUME RuleSetAssumption == RuleSet \in Seq(ToSet(RuleSet)) /\ RuleProblems = {}

SourceProblems ==
  {s \in DOMAIN Registry :
     \/ Registry[s].state = "verified" /\ ~(Registry[s].hashed /\ Registry[s].dated)
     \/ ~Registry[s].claims
     \/ ~Registry[s].located}
  \union {y \in DOMAIN YearConstants : \E p \in DOMAIN YearConstants[y].sources :
            YearConstants[y].sources[p] \notin DOMAIN Registry}

check_resolvable(rule, constants) ==
  ConditionResolves(rule.conditions, constants) /\ ImpactNamesResolve(rule.impact, constants)

missing_facts_for(rule, ctx) ==
  missing_among(ctx.facts, Dedup(ImpactFacts(rule.impact) \o rule.evidence))

compute_impact(rule, ctx) ==
  IF rule.impact.kind = "none" THEN Ok("none")
  ELSE Both(ExpressionAmount(rule.impact.low, ctx), ExpressionAmount(rule.impact.high, ctx),
            LAMBDA lo, hi : Ok(RangeOf(lo, hi)))

\* A likely slip: an exception that nobody can judge is taken not to hold.
HeardWithoutDoubt(rule, ctx) ==
  {ConditionTruth(e.when, ctx) : e \in ToSet(rule.exceptions)} \ {"unknown"}

Heard(rule, ctx) == {ConditionTruth(e.when, ctx) : e \in ToSet(rule.exceptions)}

\* Why a rule speaks or is silent.  Exceptions are heard although the main
\* conditions may be undecided; the first that holds disqualifies the rule.
OutcomeOf(rule, ctx) ==
  LET verdict == ConditionTruth(rule.conditions, ctx)
      heard == Heard(rule, ctx)
      impact == compute_impact(rule, ctx)
  IN
  IF ~applies_to_tax_year(rule, ctx.year) THEN "out_of_scope"
  ELSE IF ~check_resolvable(rule, ctx.constants) THEN "rule_error"
  ELSE IF verdict = "false" THEN "not_applicable"
  ELSE IF "true" \in heard THEN "exception_applies"
  ELSE IF verdict = "unknown" THEN "indeterminate"
  ELSE IF ~impact.ok THEN IF impact.e = "missing_fact" THEN "indeterminate" ELSE "rule_error"
  ELSE IF "unknown" \in heard THEN "indeterminate"
  ELSE "matched"

\* Only an evaluation that reached its end lists gaps and figures.
evaluate(rule, ctx) ==
  LET outcome == OutcomeOf(rule, ctx)
      impact == compute_impact(rule, ctx)
      ended == \/ produces_finding(outcome)
               \/ outcome = "rule_error" /\ check_resolvable(rule, ctx.constants)
  IN
  [id |-> rule.id, title |-> rule.title, category |-> rule.category, outcome |-> outcome,
   calculated |-> ended /\ rule.impact.kind = "range" /\ impact.ok,
   impact |-> IF ended /\ rule.impact.kind = "range" /\ impact.ok THEN impact.v ELSE ZeroRange,
   missing |-> IF ended THEN missing_facts_for(rule, ctx) ELSE <<>>,
   questions |-> IF ended THEN ConditionQuestions(rule.conditions, ctx) ELSE <<>>,
   awaiting |-> ~rule.reviewed]

RulesOf(year) ==
  Picked(RuleSet, {i \in DOMAIN RuleSet : applies_to_tax_year(RuleSet[i], year)})

evaluate_all(ctx) ==
  LET rules == RulesOf(ctx.year) IN [i \in DOMAIN rules |-> evaluate(rules[i], ctx)]
=============================================================================

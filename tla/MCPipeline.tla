------------------------------ MODULE MCPipeline ------------------------------
(***************************************************************************)
(* Pipeline on four rules and a fifth that has lapsed, three kinds of fact *)
(* and two candidates.  The rules between them use every form of condition *)
(* and every kind of gap; amounts and rates are small enough for TLC's     *)
(* integers and large enough that one document makes a product overflow.   *)
(***************************************************************************)
EXTENDS Pipeline, RuleLanguage, GatewayChecks

fact(k) == [op |-> "fact", fact |-> k]
orZero(k) == [op |-> "fact_or_zero", fact |-> k]
sek(n) == [op |-> "amount", sek |-> n]
Rated(x) == [op |-> "mul_rate", of |-> x, rate |-> "corporate_tax"]
Exceeds(x, y) == [type |-> "compare", left |-> x, op |-> "gt", right |-> y]
Is(flag, b) == [type |-> "profile", flag |-> flag, is |-> b]

Relief ==    \* a computed relief: unreviewed, so its sources must vouch for it
  [id |-> "r1", taxpayer |-> "company", from |-> 2020,
   title |-> "relief", category |-> "tax", effect |-> "reduction",
   conditions |-> [type |-> "all", of |-> <<
      Exceeds(fact("result"), [op |-> "constant", name |-> "floor"]),
      [type |-> "tax_year_at_least", year |-> 2021]>>],
   exceptions |-> <<[id |-> "group", when |-> Is("in_group", TRUE)]>>,
   impact |-> [kind |-> "range", low |-> Rated([op |-> "max0", of |->
                 [op |-> "sub", a |-> fact("result"), b |-> orZero("wages")]]),
               high |-> Rated(fact("result"))],
   evidence |-> <<"result">>, hints |-> {"ledger"}, sources |-> <<"s1", "s2">>,
   reviewed |-> FALSE, noted |-> TRUE, effort |-> "low", risk |-> "low",
   urgency |-> "before_filing", relevance |-> 10]

Deferral ==  \* reviewed, postpones tax, fires on an answer or on the figures
  [id |-> "r2", taxpayer |-> "company", from |-> 2020,
   title |-> "deferral", category |-> "costs", effect |-> "deferral",
   conditions |-> [type |-> "any", of |-> <<Is("development", TRUE),
                     Exceeds(fact("wages"), orZero("result"))>>],
   exceptions |-> <<>>,
   impact |-> [kind |-> "range", low |-> [op |-> "min", a |-> sek(5), b |-> fact("wages")],
               high |-> [op |-> "add", a |-> sek(5),
                         b |-> [op |-> "mul_bp", of |-> [op |-> "abs", of |-> fact("wages")],
                                bp |-> 300]]],
   evidence |-> <<"wages", "result", "wages">>, hints |-> {}, sources |-> <<"s1", "s2">>,
   reviewed |-> TRUE, noted |-> FALSE, effort |-> "medium", risk |-> "medium",
   urgency |-> "routine", relevance |-> 8]

Omission ==  \* a risk that consists in something not being there
  [id |-> "r3", taxpayer |-> "company", from |-> 2020,
   title |-> "omission", category |-> "risk", effect |-> "reduction",
   conditions |-> [type |-> "all", of |-> <<[type |-> "fact_absent", fact |-> "revenue"],
                     [type |-> "not", of |-> [type |-> "accounts_state_is", state |-> "final"]]>>],
   exceptions |-> <<>>, impact |-> [kind |-> "none"],
   evidence |-> <<"result">>, hints |-> {}, sources |-> <<"s2">>,
   reviewed |-> TRUE, noted |-> FALSE, effort |-> "low", risk |-> "high",
   urgency |-> "before_year_end", relevance |-> 5]

Ownership ==  \* answers only, no document
  [id |-> "r4", taxpayer |-> "company", from |-> 2020,
   title |-> "ownership", category |-> "tax", effect |-> "reduction",
   conditions |-> [type |-> "all", of |-> <<[type |-> "not", of |-> Is("in_group", TRUE)],
                     [type |-> "profile_number", field |-> "owners", op |-> "lte", value |-> 2]>>],
   exceptions |-> <<[id |-> "always-not", when |-> [type |-> "not", of |-> [type |-> "always"]]]>>,
   impact |-> [kind |-> "none"],
   evidence |-> <<>>, hints |-> {}, sources |-> <<"s1">>,
   reviewed |-> TRUE, noted |-> FALSE, effort |-> "high", risk |-> "low",
   urgency |-> "routine", relevance |-> 5]

Lapsed == [Ownership EXCEPT !.id = "r5", !.title = "lapsed"] @@ [to |-> 2024]

MCRuleSet == <<Relief, Deferral, Omission, Ownership, Lapsed>>

MCYearConstants ==
  (2025 :> [amounts |-> ("floor" :> 1000), rates |-> ("corporate_tax" :> 206),
            sources |-> ("corporate_tax" :> "s1")])

MCRegistry == [s \in {"s1", "s2"} |->
  [state |-> "unretrieved", hashed |-> FALSE, dated |-> FALSE, claims |-> TRUE, located |-> TRUE]]

Quiet == [fences |-> 0, roles |-> 0, instructions |-> 0]
Line(k, amount, page) == [kind |-> k, sek |-> amount, page |-> page]
Doc(name, blank, ocr, lines) ==
  [name |-> name, pages |-> 2, blank |-> blank, ocr |-> ocr, lines |-> lines,
   unread |-> FALSE, truncated |-> FALSE, scan |-> Quiet]

Plain == Doc("plain", {}, {}, <<Line("result", 60, 1), Line("wages", -20, 2)>>)
Scanned == [Doc("scanned", {2}, {1}, <<Line("result", 80, 1)>>) EXCEPT !.truncated = TRUE]
Huge == Doc("huge", {}, {}, <<Line("result", 15000, 1), Line("wages", 30000, 1)>>)
Odd == [Doc("odd", {}, {}, <<Line("revenue", -10, 1), Line("wages", 20, 1)>>)
          EXCEPT !.scan.instructions = 2]
Photo == [Doc("photo", {1, 2}, {}, <<>>) EXCEPT !.unread = TRUE]

DocumentSets == {<<>>, <<Plain>>, <<Scanned, Plain>>, <<Huge>>, <<Odd>>, <<Photo>>}

Profile(flags, numbers) == [flags |-> flags, numbers |-> numbers]
None == <<>>

Profiles ==
  {Profile(None, None),
   Profile("in_group" :> FALSE, None),
   Profile("in_group" :> TRUE, "owners" :> 1),
   Profile(("in_group" :> FALSE) @@ ("development" :> TRUE), "owners" :> 1),
   Profile("development" :> TRUE, "owners" :> 1)}

LiveStates ==
  {None, ("s1" :> "verified") @@ ("s2" :> "verified"),
   ("s1" :> "verified") @@ ("s2" :> "mismatch"),
   ("s1" :> "mismatch") @@ ("s2" :> "unreachable")}

MCInputs ==
  [documents : DocumentSets, profile : Profiles, sources : LiveStates,
   accounts : {"unknown"}, year : {2025}]
  \union [documents : {<<>>, <<Plain>>, <<Scanned, Plain>>}, profile : {Profile(None, None)},
          sources : {None}, accounts : {"preliminary", "final"}, year : {2025, 2026}]

\* One candidate that names a rule, one whose title is a rule's own and that
\* the model may propose twice.
Hint == [title |-> "hint", category |-> "vat", supports |-> {"wages", "stock"},
         suggests |-> {"r1"}, missing |-> {}]
Twin == [title |-> "deferral", category |-> "costs", supports |-> {}, suggests |-> {"r9"},
         missing |-> {"contract"}]
MCCandidates == {<<>>, <<Hint>>, <<Twin, Hint, Twin>>}

MCVerdicts ==
  {[survives |-> TRUE, objection |-> 2000, missing |-> {}],
   [survives |-> TRUE, objection |-> 6000, missing |-> {"minutes"}],
   [survives |-> FALSE, objection |-> 9000, missing |-> {}]}

MCNumberAnswers == "owners" :> {1, 3}

\* RuleEngine::new accepts the rule set these runs use.
ASSUME RuleSetIsValid == RuleProblems = {} /\ SourceProblems = {}

\* It has company rules only, so a private person's report is not for sale.
ASSUME OnlyCompanies == covers_audience("accountant") /\ ~covers_audience("private")

\* div_round_half_away answers the nearest whole number and takes halves away
\* from zero, wherever adding the half fits; where it does not fit the sum wraps
\* and the sign is lost.
ASSUME RoundsHalvesAway ==
  /\ \A d \in {2, 3, 10000}, n \in -15..15 \cup {4999, 5000, -5000, 15001, MaxOre - 5000} :
       LET back == d * div_round_half_away(n, d)
           off  == GreaterOf(n - back, back - n)
       IN  /\ 2 * off <= d
           /\ 2 * off = d => GreaterOf(back, -back) > GreaterOf(n, -n)
  /\ div_round_half_away(MaxOre, 2) < 0
=============================================================================

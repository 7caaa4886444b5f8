---------------------------- MODULE GatewayChecks ----------------------------
(***************************************************************************)
(* What the gateway must do with every call, checked by TLC over all short *)
(* sequences of calls and all short texts.                                 *)
(***************************************************************************)
EXTENDS Integers, Sequences, TLC

LOCAL INSTANCE SequencesExt

G == INSTANCE Gateway WITH CostMax <- 400, PerMtok <- 10, MaxRetries <- 1

LOCAL Rates(in, out) == [k \in G!Kinds |-> CASE k = "input" -> in [] k = "output" -> out [] OTHER -> 1]
LOCAL Config(fallback) ==
  [prices |-> ("asked" :> Rates(3, 7)) @@ ("dear" :> Rates(30, 70)), allow_fallback |-> fallback]
LOCAL Request(model, text) == [model |-> model, estimate |-> 4, max_tokens |-> 5, text |-> text]
LOCAL Used(in, out) == [G!NoTokens EXCEPT !["input"] = in, !["output"] = out]
LOCAL Error(e) == [error |-> e]
LOCAL Reply(stop, text, usage) ==
  [error |-> "none", api |-> [stop |-> stop, text |-> text, usage |-> usage]]

LOCAL Sends ==
  {Error("provider_transport_error"), Error("provider_http_busy"), Error("provider_http_error")}
    \cup {Reply(stop, text, Used(4, 5)) : stop \in {"end", "refusal", "max_tokens"},
                                           text \in {"absent", "not_json", "on_schema"}}
LOCAL Nets == [1..2 -> Sends \cup {Reply("end", "on_schema", Used(1, 0))}]

LOCAL Texts(n) == SeqOf({"open", "close", "lower", "bare", "instruction", "role", "figure"}, n)

LOCAL Requests == {Request(m, t) : m \in {"asked", "unpriced"},
                                   t \in {<<"figure">>, <<"open">>, G!wrap_document(<<"close">>)}}
LOCAL Budgets == {G!Budget(limit, max) : limit \in {0, 6, 13, 20}, max \in 0..3}
LOCAL Call(b, request, net) == G!gateway_run(Config(TRUE), b, request, net)

\* What a call may leave behind: budgets reachable by any sequence of calls of
\* at most the length given.
LOCAL CallsFrom(bs) == {Call(b, r, net) : b \in bs, r \in Requests, net \in Nets}
LOCAL Once == CallsFrom(Budgets)
LOCAL Twice == CallsFrom({c.budget : c \in Once})
LOCAL Thrice == CallsFrom({c.budget : c \in Twice})

\* Budget::check looks at the worst case before the call, so an attempt whose
\* calls use no more than was estimated never passes either ceiling, whatever
\* mixture of failures, retries and refusals it meets.
ASSUME CeilingHolds ==
  \A c \in Once \cup Twice \cup Thrice :
    c.budget.spent <= c.budget.limit /\ c.budget.calls <= c.budget.max

\* A call that went out is charged and counted, failed or not, and one refused
\* before it went out is neither; so a loop of failures is bounded by max_calls.
ASSUME EverySendIsCounted ==
  \A b \in Budgets, r \in Requests, net \in Nets :
    LET c == Call(b, r, net) IN
      /\ c.sent = 0 <=> c.budget = b
      /\ c.sent > 0 => c.budget.calls = b.calls + 1 /\ c.cost > 0

\* No refusal for money is worth a retry, and whatever is retried was retried
\* by the provider to its own limit first.
ASSUME RetriesAreForTheNetwork ==
  \A b \in Budgets, r \in Requests, net \in Nets :
    LET c == Call(b, r, net) IN
      G!is_retryable(c.kind) => c.sent = 2 /\ G!retryable(net[1].error)

\* Against exact rational arithmetic: never below the true price, and above it
\* by less than one unit a component.
ASSUME CostIsRoundedUp ==
  \A in, out, read \in 0..12 :
    LET used == [Used(in, out) EXCEPT !["cache_read"] = read]
        exact == in * 3 + out * 7 + read
        cost == G!cost_micro_ore(Rates(3, 7), used)
    IN exact <= cost * 10 /\ cost * 10 < exact + 30

\* At the top of the type the sum stays there, so an absurd usage is refused
\* by the next check and does not wrap into credit.
ASSUME CostSaturates ==
  \A b \in Budgets : G!budget_check(G!charge(b, G!cost_micro_ore(Rates(3000, 7), Used(400, 5))), 1) # "ok"

\* An attempt that takes up a stored budget stands where the earlier one left it.
ASSUME ResumedStandsWhereItStopped ==
  \A c \in Once : G!resumed(c.budget.limit, c.budget.spent, c.budget.calls, c.budget.max) = c.budget

\* Whatever a document says, its wrapping has exactly one fence, and every
\* token that is not the fence survives in its place.
ASSUME WrappingHolds ==
  \A t \in Texts(4) :
    LET w == G!wrap_document(t) IN
      /\ G!has_intact_single_block(w)
      /\ G!scan_wrapped(w).fences = 0
      /\ \A i \in DOMAIN t : t[i] \notin {"open", "close"} => w[i + 3] = t[i]

\* A scan of the raw text warns of every fence, and wrapping takes away no
\* other suspicion.
ASSUME ScansAgree ==
  \A t \in Texts(4) :
    LET raw == G!scan(t)  wrapped == G!scan_wrapped(G!wrap_document(t)) IN
      /\ (\E i \in DOMAIN t : t[i] \in {"open", "close"}) => G!warrants_a_warning(raw)
      /\ [raw EXCEPT !.fences = 0] = [wrapped EXCEPT !.fences = 0]

\* With fallback disallowed an answer by another model is an error, and it is
\* charged at the serving model's price; allowed, the ceiling that the asked
\* model's price gave can be passed by one call.
LOCAL Dear(fallback) ==
  LET net == [k \in 1..2 |-> Reply("end", "on_schema", Used(4, 5))] IN
  G!run_with(G!provider_run(net) @@ [model |-> "dear"], Config(fallback), G!Budget(20, 3),
             Request("asked", <<"figure">>), net)
ASSUME FallbackIsPricedAsServed ==
  /\ Dear(FALSE).kind = "not_configured" /\ Dear(TRUE).kind = "succeeded"
  /\ \A f \in BOOLEAN : Dear(f).cost = G!cost_micro_ore(Rates(30, 70), Used(4, 5))
  /\ Dear(TRUE).budget.spent > Dear(TRUE).budget.limit
-----------------------------------------------------------------------------

LOCAL Str(v) == [t |-> "string", v |-> v]
LOCAL Object(fields) == [t |-> "object", fields |-> fields]
LOCAL Array(items) == [t |-> "array", items |-> items]

\* Verdict objects with any of the schema's fields absent, of the wrong kind,
\* or with a field of the model's own invention.
LOCAL Scalars ==
  {[t |-> t, v |-> "x"] : t \in {"string", "boolean", "integer", "null"}}
LOCAL Fields == {"title", "survives", "objection_strength", "invented"}
LOCAL VerdictObjects ==
  {Object(f @@ ("reasoning" :> Str("r"))) : f \in UNION {[d -> Scalars] : d \in SUBSET Fields}}
LOCAL Kinds == [title |-> {"string"}, survives |-> {"boolean"}, objection_strength |-> {"integer"}]

\* What parse_verdicts relies on: exactly the objects that have every required
\* field, each of its kind, and nothing else, pass; and one bad verdict spoils
\* the whole answer.
LOCAL WellFormed(o) ==
  /\ DOMAIN o.fields = DOMAIN Kinds \cup {"reasoning"}
  /\ \A n \in DOMAIN Kinds : o.fields[n].t \in Kinds[n]
LOCAL VerdictList(items) == Object("verdicts" :> Array(items))
ASSUME SchemaIsExact ==
  \A o \in VerdictObjects : G!validate(VerdictList(<<o>>), G!skeptic_schema) <=> WellFormed(o)

ASSUME OneBadVerdictSpoilsTheAnswer ==
  LET good == CHOOSE o \in VerdictObjects : WellFormed(o) IN
  \A o \in VerdictObjects :
    G!validate(VerdictList(<<good, o, good>>), G!skeptic_schema) <=> WellFormed(o)

\* A category the pipeline has no name for is refused at this boundary, and so
\* is an answer whose outermost value is not the object asked for.
LOCAL Candidate(category) ==
  Object([n \in {"title", "observation", "question"} |-> Str("x")]
         @@ ("category" :> Str(category)) @@ ("supporting_facts" :> Array(<<Str("f")>>)))
ASSUME CategoriesAreClosed ==
  /\ \A c \in G!Categories \cup {"lottery"} :
       G!validate(Object("candidates" :> Array(<<Candidate(c)>>)), G!discovery_schema)
         <=> c \in G!Categories
  /\ ~G!validate(Array(<<>>), G!discovery_schema) /\ ~G!validate(Object(<<>>), G!discovery_schema)
=============================================================================

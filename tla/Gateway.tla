------------------------------- MODULE Gateway -------------------------------
(***************************************************************************)
(* The one door to a language model: crates/gateway (the cost ceiling, the *)
(* price list and the fence around document text) and the provider behind  *)
(* it, crates/model (its retries, and what it takes for an answer).        *)
(*                                                                         *)
(* A call is a function of the budget it is given and of what the network  *)
(* answers, so it is an operator: gateway_run.  Text is a sequence of the  *)
(* tokens that the gateway tells apart.  CostMax stands for i64::MAX and   *)
(* PerMtok for the million tokens a price is quoted for.                   *)
(***************************************************************************)
EXTENDS Integers, Sequences, SequencesExt, FiniteSetsExt

CONSTANTS CostMax, PerMtok,
          MaxRetries   \* AnthropicConfig.max_retries

Saturate(n) == Min({n, CostMax})

-----------------------------------------------------------------------------
(* cost.rs *)

\* Every component is rounded up, against the operator.
Component(tokens, price) == Saturate(Saturate(tokens * price) + PerMtok - 1) \div PerMtok

Kinds == {"input", "output", "cache_read", "cache_write"}

NoTokens == [k \in Kinds |-> 0]

cost_micro_ore(price, usage) ==
  Saturate(MapThenSumSet(LAMBDA k : Component(usage[k], price[k]), Kinds))

worst_case_cost(price, input, output) ==
  cost_micro_ore(price, [NoTokens EXCEPT !["input"] = input, !["output"] = output])

\* PriceList::from_json refuses the whole list for one negative price.
PriceListError(list) ==
  IF \E m \in DOMAIN list, k \in Kinds : list[m][k] < 0 THEN "negative" ELSE "none"

Budget(limit, max) ==
  [limit |-> Max({limit, 1}), spent |-> 0, calls |-> 0, max |-> Max({max, 1})]

\* A stored budget taken up again by a later attempt.
resumed(limit, spent, calls, max) ==
  [Budget(limit, max) EXCEPT !.spent = Max({spent, 0}), !.calls = calls]

budget_check(b, worst) ==
  IF b.calls >= b.max THEN "call_limit_reached"
  ELSE IF Saturate(b.spent + worst) > b.limit THEN "budget_exhausted" ELSE "ok"

charge(b, cost) == [b EXCEPT !.spent = Saturate(@ + Max({cost, 0})), !.calls = @ + 1]

is_exhausted(b) == b.spent >= b.limit \/ b.calls >= b.max

remaining(b) == Max({b.limit - b.spent, 0})

-----------------------------------------------------------------------------
(* injection.rs.  "open" and "close" are the fence, "lower" is the fence in  *)
(* another case, which only the scanner sees, and "bare" is the fence's name *)
(* without its brackets, which only the gateway's first check sees.          *)

\* A pattern counts once a segment, however often it stands there.
scan(text) ==
  LET Among(set) == Cardinality(ToSet(text) \cap set) IN
  [instructions |-> Among({"instruction", "instruction2"}),
   roles |-> Among({"role"}),
   probes |-> Among({"probe"}),
   fences |-> IF Among({"open", "close", "lower"}) > 0 THEN 1 ELSE 0]

Occurrences(text, token) == Len(SelectSeq(text, LAMBDA t : t = token))

NamesTheFence(text) == ToSet(text) \cap {"open", "close", "bare"} # {}

has_intact_single_block(text) ==
  Occurrences(text, "open") = 1 /\ Occurrences(text, "close") = 1

scan_wrapped(text) ==
  LET Excess(token) == Max({Occurrences(text, token) - 1, 0}) IN
  [scan(text) EXCEPT
     !.fences = IF has_intact_single_block(text) THEN 0
                ELSE Max({Excess("open") + Excess("close"), 1})]

wrap_document(text) ==
  <<"framing", "open", "label">>
    \o [i \in DOMAIN text |-> IF text[i] \in {"open", "close"} THEN "escaped" ELSE text[i]]
    \o <<"close">>

is_suspicious(s) == s.instructions + s.roles + s.probes + s.fences > 0

warrants_a_warning(s) == s.fences > 0 \/ s.roles > 0 \/ s.instructions >= 2

-----------------------------------------------------------------------------
(* provider.rs and anthropic.rs *)

ProviderErrors ==
  {"model_refused", "model_truncated", "schema_violation", "not_configured",
   "provider_http_error", "provider_http_busy", "provider_transport_error",
   "provider_malformed_response"}

\* "busy" is a status of 429, 529 or 5xx; every other status is final.
retryable(error) == error \in {"provider_transport_error", "provider_http_busy"}

\* What the answer's stop reason, text and schema make of a 200.  The stop
\* reason is looked at before the content.
structured_output(api) ==
  IF api.stop = "refusal" THEN "model_refused"
  ELSE IF api.stop = "max_tokens" THEN "model_truncated"
  ELSE IF api.text = "absent" THEN "provider_malformed_response"
  ELSE IF api.text \in {"not_json", "off_schema"} THEN "schema_violation"
  ELSE "ok"

\* send_once answers an error, or a 200 with its api record.
Failed(send) == send.error # "none"

\* The loop around send_once: the first answer that is not retryable, or the
\* last that the retries allow.  net[k] is what the k-th send would meet.
SendsMade(net) ==
  Min({k \in 1..(MaxRetries + 1) : k = MaxRetries + 1 \/ ~retryable(net[k].error)})

\* AnthropicProvider::run.  The model it reports is the one it was configured
\* with, whichever served the request.
provider_run(net) ==
  LET last == net[SendsMade(net)]
      error == IF Failed(last) THEN last.error ELSE structured_output(last.api)
  IN IF error # "ok" THEN [error |-> error]
     ELSE [error |-> "none", usage |-> last.api.usage]

-----------------------------------------------------------------------------
(* gateway.rs *)

Refuse(b, kind) == [kind |-> kind, budget |-> b, sent |-> 0, cost |-> 0]

\* ModelGateway::run with a provider that comes to `a` over the network `net`: a
\* record with an error, or with the serving model and the usage.
run_with(a, config, b, request, net) ==
  LET asked == request.model
      ceiling == worst_case_cost(config.prices[asked], request.estimate, request.max_tokens)
      inputOnly == worst_case_cost(config.prices[asked], request.estimate, 0)
      Priced(m) == m \in DOMAIN config.prices
      CostOf(otherwise) ==
        IF Priced(a.model) THEN cost_micro_ore(config.prices[a.model], a.usage) ELSE otherwise
      Answer(kind, cost) ==
        [kind |-> kind, budget |-> charge(b, cost), sent |-> SendsMade(net), cost |-> cost]
  IN IF NamesTheFence(request.text) /\ ~has_intact_single_block(request.text)
     THEN Refuse(b, "unwrapped_document_content")
     ELSE IF ~Priced(asked) THEN Refuse(b, "model_not_priced")
     ELSE IF budget_check(b, ceiling) # "ok" THEN Refuse(b, budget_check(b, ceiling))
     ELSE IF a.error # "none" THEN Answer(a.error, inputOnly)
     ELSE IF a.model # asked /\ ~config.allow_fallback
     THEN Answer("not_configured", CostOf(inputOnly))
     ELSE Answer("succeeded", CostOf(cost_micro_ore(config.prices[asked], a.usage)))

gateway_run(config, b, request, net) ==
  run_with(provider_run(net) @@ [model |-> request.model], config, b, request, net)

\* GatewayError::is_retryable, by the kind it is logged under.
is_retryable(kind) == kind \in ProviderErrors /\ retryable(kind)

\* is_callable: the model is priced.
is_callable(config, model) == model \in DOMAIN config.prices

-----------------------------------------------------------------------------
(* schema.rs and the schemas of the two prompts: the subset of JSON Schema a *)
(* model's answer is held to before the pipeline sees it.                    *)
(*                                                                           *)
(* A JSON value is a record with its kind t and its content: v for a scalar, *)
(* fields (a function on names) for an object, items (a sequence) for an     *)
(* array.  A schema is a function whose domain is the keywords it uses.  A   *)
(* violation is the path to it.                                              *)

Has(schema, keyword) == keyword \in DOMAIN schema

\* JSON has one number type: an integer is also a number.
type_matches(value, expected) ==
  \/ value.t = expected
  \/ expected = "number" /\ value.t = "integer"
  \/ expected \notin {"object", "array", "string", "boolean", "integer", "number", "null"}

RECURSIVE check(_, _, _)

\* A value of the wrong kind is one violation and is not descended into.
check(value, schema, path) ==
  IF Has(schema, "type") /\ ~type_matches(value, schema["type"]) THEN {path}
  ELSE (IF Has(schema, "enum") /\ value \notin schema["enum"] THEN {path} ELSE {})
       \cup (IF value.t # "object" THEN {} ELSE
              (IF Has(schema, "required")
                 THEN {Append(path, n) : n \in schema["required"] \ DOMAIN value.fields} ELSE {})
              \cup (IF ~Has(schema, "properties") THEN {} ELSE
                 LET props == schema["properties"] IN
                 UNION {check(value.fields[n], props[n], Append(path, n))
                          : n \in DOMAIN props \cap DOMAIN value.fields}
                 \* unknown fields are refused only beside "properties"
                 \cup (IF Has(schema, "closed")
                         THEN {Append(path, n) : n \in DOMAIN value.fields \ DOMAIN props}
                         ELSE {})))
       \cup (IF value.t # "array" \/ ~Has(schema, "items") THEN {} ELSE
              UNION {check(value.items[i], schema["items"], Append(path, "[]"))
                       : i \in DOMAIN value.items})

-----------------------------------------------------------------------------
(* prompts.rs: the schemas of the two tasks the pipeline runs.               *)

Typed(t) == [k \in {"type"} |-> t]

ListOf(schema) == [type |-> "array", items |-> schema]

Closed(required, properties) ==
  [type |-> "object", closed |-> TRUE, required |-> required, properties |-> properties]

Categories ==
  {"tax", "costs", "vat", "personnel", "investments", "research_and_development", "risk"}

discovery_schema ==
  Closed({"candidates"}, [candidates |-> ListOf(Closed(
    {"title", "category", "observation", "question", "supporting_facts"},
    [title |-> Typed("string"), observation |-> Typed("string"), question |-> Typed("string"),
     category |-> [type |-> "string", enum |-> {[t |-> "string", v |-> c] : c \in Categories}],
     supporting_facts |-> ListOf(Typed("string")),
     missing_information |-> ListOf(Typed("string")),
     suggested_rule_ids |-> ListOf(Typed("string"))]))])

skeptic_schema ==
  Closed({"verdicts"}, [verdicts |-> ListOf(Closed(
    {"title", "survives", "reasoning", "objection_strength"},
    [title |-> Typed("string"), survives |-> Typed("boolean"), reasoning |-> Typed("string"),
     objection_strength |-> Typed("number"), alternative_explanation |-> Typed("string"),
     missing_information |-> ListOf(Typed("string"))]))])

-----------------------------------------------------------------------------
validate(value, schema) == check(value, schema, <<>>) = {}
=============================================================================

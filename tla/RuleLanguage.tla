----------------------------- MODULE RuleLanguage -----------------------------
(***************************************************************************)
(* The language rules are written in: crates/rules/src/{condition,expr}.rs.*)
(* A condition is true, false or unknown; a calculation gives an amount or *)
(* an error that names why it has none.                                    *)
(*                                                                         *)
(* An expression is a record with its `op`, a condition one with its       *)
(* `type`, both named as the rule files name them.                         *)
(***************************************************************************)
EXTENDS FactSet

TruthOf(b) == IF b THEN "true" ELSE "false"

Conjoin(s, t) == IF "false" \in {s, t} THEN "false"
                 ELSE IF "unknown" \in {s, t} THEN "unknown" ELSE "true"

Disjoin(s, t) == IF "true" \in {s, t} THEN "true"
                 ELSE IF "unknown" \in {s, t} THEN "unknown" ELSE "false"

Negate(t) == CASE t = "true" -> "false" [] t = "false" -> "true" [] OTHER -> "unknown"

Apply(op, a, b) ==
  CASE op = "gt" -> a > b [] op = "gte" -> a >= b [] op = "lt" -> a < b
    [] op = "lte" -> a <= b [] op = "eq" -> a = b [] op = "neq" -> a # b

RECURSIVE ExprEval(_, _)
ExprEval(x, ctx) ==
  LET a == ExprEval(x.a, ctx)
      b == ExprEval(x.b, ctx)
      of == ExprEval(x.of, ctx)
  IN
  CASE x.op = "fact" -> IF x.fact \in Kinds(ctx.facts) THEN Ok(Value(ctx.facts, x.fact))
                                                       ELSE Err("missing_fact")
    [] x.op = "fact_or_zero" -> Ok(IF x.fact \in Kinds(ctx.facts)
                                     THEN Value(ctx.facts, x.fact) ELSE 0)
    [] x.op = "amount" -> from_sek(x.sek)
    [] x.op = "constant" -> IF Has(ctx.constants.amounts, x.name)
                              THEN Ok(ctx.constants.amounts[x.name])
                              ELSE Err("unknown_constant")
    [] x.op = "add" -> Both(a, b, LAMBDA m, n : Checked(m + n))
    [] x.op = "sub" -> Both(a, b, LAMBDA m, n : Checked(m - n))
    [] x.op = "min" -> Both(a, b, LAMBDA m, n : Ok(LesserOf(m, n)))
    [] x.op = "max" -> Both(a, b, LAMBDA m, n : Ok(GreaterOf(m, n)))
    [] x.op = "mul_bp" -> IF of.ok THEN mul_basis_points(of.v, x.bp) ELSE of
    [] x.op = "mul_rate" -> IF ~Has(ctx.constants.rates, x.rate) THEN Err("unknown_rate")
                            ELSE IF of.ok THEN mul_basis_points(of.v, ctx.constants.rates[x.rate])
                            ELSE of
    [] x.op = "max0" -> IF of.ok THEN Ok(GreaterOf(of.v, 0)) ELSE of
    [] x.op = "abs" -> IF of.ok THEN checked_abs(of.v) ELSE of

RECURSIVE CondEval(_, _)
CondEval(c, ctx) ==
  CASE c.type = "fact_present" -> TruthOf(c.fact \in Kinds(ctx.facts))
    [] c.type = "fact_absent" -> TruthOf(c.fact \notin Kinds(ctx.facts))
    [] c.type = "compare" ->
         LET a == ExprEval(c.left, ctx)
             b == ExprEval(c.right, ctx)
         IN  IF a.ok /\ b.ok THEN TruthOf(Apply(c.op, a.v, b.v)) ELSE "unknown"
    [] c.type = "profile" ->
         IF Has(ctx.profile.flags, c.flag) THEN TruthOf(ctx.profile.flags[c.flag] = c.is)
                                           ELSE "unknown"
    [] c.type = "profile_number" ->
         IF Has(ctx.profile.numbers, c.field)
           THEN TruthOf(Apply(c.op, ctx.profile.numbers[c.field], c.value)) ELSE "unknown"
    [] c.type = "accounts_state_is" ->
         IF ctx.accounts = "unknown" THEN "unknown" ELSE TruthOf(ctx.accounts = c.state)
    [] c.type = "tax_year_at_least" -> TruthOf(ctx.year >= c.year)
    [] c.type = "tax_year_at_most" -> TruthOf(ctx.year <= c.year)
    [] c.type = "all" -> FoldLeft(LAMBDA t, d : Conjoin(t, CondEval(d, ctx)), "true", c.of)
    [] c.type = "any" -> FoldLeft(LAMBDA t, d : Disjoin(t, CondEval(d, ctx)), "false", c.of)
    [] c.type = "not" -> Negate(CondEval(c.of, ctx))
    [] c.type = "always" -> "true"

\* Only yes-or-no questions; an unanswered number or accounts state names none.
RECURSIVE Unanswered(_, _)
Unanswered(c, ctx) ==
  CASE c.type = "profile" -> IF Has(ctx.profile.flags, c.flag) THEN <<>> ELSE <<c.flag>>
    [] c.type \in {"all", "any"} -> FoldLeft(LAMBDA s, d : s \o Unanswered(d, ctx), <<>>, c.of)
    [] c.type = "not" -> Unanswered(c.of, ctx)
    [] OTHER -> <<>>

unanswered_profile_questions(c, ctx) == Dedup(Unanswered(c, ctx))

RECURSIVE ExprFacts(_, _)
ExprFacts(x, ops) ==
  CASE x.op \in {"fact", "fact_or_zero"} -> IF x.op \in ops THEN <<x.fact>> ELSE <<>>
    [] x.op \in {"amount", "constant"} -> <<>>
    [] x.op \in {"add", "sub", "min", "max"} -> ExprFacts(x.a, ops) \o ExprFacts(x.b, ops)
    [] OTHER -> ExprFacts(x.of, ops)

expr_referenced_facts(x) == Dedup(ExprFacts(x, {"fact", "fact_or_zero"}))

required_facts(x) == Dedup(ExprFacts(x, {"fact"}))

RECURSIVE CondFacts(_)
CondFacts(c) ==
  CASE c.type \in {"fact_present", "fact_absent"} -> <<c.fact>>
    [] c.type = "compare" -> expr_referenced_facts(c.left) \o expr_referenced_facts(c.right)
    [] c.type \in {"all", "any"} -> FoldLeft(LAMBDA s, d : s \o CondFacts(d), <<>>, c.of)
    [] c.type = "not" -> CondFacts(c.of)
    [] OTHER -> <<>>

RECURSIVE ExprNamesResolve(_, _)
ExprNamesResolve(x, constants) ==
  CASE x.op = "constant" -> Has(constants.amounts, x.name)
    [] x.op = "mul_rate" -> Has(constants.rates, x.rate) /\ ExprNamesResolve(x.of, constants)
    [] x.op \in {"add", "sub", "min", "max"} ->
         ExprNamesResolve(x.a, constants) /\ ExprNamesResolve(x.b, constants)
    [] x.op \in {"mul_bp", "max0", "abs"} -> ExprNamesResolve(x.of, constants)
    [] OTHER -> TRUE

RECURSIVE CondNamesResolve(_, _)
CondNamesResolve(c, constants) ==
  CASE c.type = "compare" -> /\ ExprNamesResolve(c.left, constants)
                             /\ ExprNamesResolve(c.right, constants)
    [] c.type \in {"all", "any"} -> \A i \in DOMAIN c.of : CondNamesResolve(c.of[i], constants)
    [] c.type = "not" -> CondNamesResolve(c.of, constants)
    [] OTHER -> TRUE

\* The profile fields a condition reads.
RECURSIVE CondFields(_)
CondFields(c) ==
  CASE c.type = "profile" -> {c.flag}
    [] c.type = "profile_number" -> {c.field}
    [] c.type \in {"all", "any"} -> UNION {CondFields(c.of[i]) : i \in DOMAIN c.of}
    [] c.type = "not" -> CondFields(c.of)
    [] OTHER -> {}
=============================================================================

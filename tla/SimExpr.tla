------------------------------ MODULE SimExpr ------------------------------
(* The calculation language of a simulation (crates/simulate/src/expr.rs):  *)
(* a tokeniser, a recursive-descent parser that resolves names to slots,    *)
(* and the evaluator the engine calls once per output and iteration.        *)
(*                                                                          *)
(* Characters are members of small classes, a token is a record, a tree is  *)
(* a sequence whose head is its constructor, and a number a value of Float; *)
(* pi and e are near fractions.                                             *)
(* This module declares RECURSIVE operators and is used by TLC only.        *)
EXTENDS Float, FiniteSets

CONSTANTS
  MaxDepth,      \* MAX_DEPTH: 64 in the code
  Environment    \* the names an expression may use, each with its slot

----------------------------------------------------------------------------
(* Tokens.  A character is one of: a blank, a digit "0", ".", "e" (also a   *)
(* letter), another letter "a", "_", the symbols, and "?" for the rest.     *)
Digits == {"0"}
Letters == {"e", "a"}
SingleSymbols == {"+", "-", "*", "/", "%", "^", "(", ")", ",", "<", ">"}
PairedWithEquals == {"<", ">", "=", "!"}

CharAt(s, i) == IF i \in 1..Len(s) THEN s[i] ELSE "end"

\* The first position from i on whose character is not in C.
RECURSIVE SkipWhile(_, _, _)
SkipWhile(s, i, C) ==
  IF CharAt(s, i) \in C THEN SkipWhile(s, i + 1, C) ELSE i

\* Where a number that starts at i ends: digits and dots, and an exponent
\* when a digit follows the e (and its sign).
NumberEnd(s, i) ==
  LET mantissa == SkipWhile(s, i, Digits \union {"."})
      exponent == IF CharAt(s, mantissa + 1) \in {"+", "-"} THEN mantissa + 2
                                                            ELSE mantissa + 1
  IN IF CharAt(s, mantissa) = "e" /\ CharAt(s, exponent) \in Digits
     THEN SkipWhile(s, exponent, Digits)
     ELSE mantissa

StartsNumber(s, i) ==
  \/ s[i] \in Digits
  \/ s[i] = "." /\ CharAt(s, i + 1) \in Digits

\* f64's parser takes what the loop collected unless it holds two dots.
IsNumeral(text) == Cardinality({k \in DOMAIN text : text[k] = "."}) <= 1

Span(kind, from, to) == [kind |-> kind, from |-> from, to |-> to]

\* The tokens as spans of the source, or the character that cannot start one.
RECURSIVE TokeniseFrom(_, _)
TokeniseFrom(s, i) ==
  LET Then(kind, next) ==
        LET rest == TokeniseFrom(s, next)
        IN IF rest.err # "none" THEN rest
           ELSE [rest EXCEPT !.tokens = <<Span(kind, i, next - 1)>> \o @]
      Refuse(e) == [err |-> e, tokens |-> <<>>]
  IN CASE i > Len(s) -> [err |-> "none", tokens |-> <<>>]
       [] i <= Len(s) /\ s[i] = " " -> TokeniseFrom(s, i + 1)
       [] i <= Len(s) /\ s[i] # " " ->
            IF StartsNumber(s, i)
            THEN LET next == NumberEnd(s, i)
                 IN IF IsNumeral(SubSeq(s, i, next - 1)) THEN Then("number", next)
                                                         ELSE Refuse("Expected")
            ELSE IF s[i] \in Letters \union {"_"}
            THEN Then("name", SkipWhile(s, i, Letters \union Digits \union {"_", "."}))
            ELSE IF s[i] \in PairedWithEquals /\ CharAt(s, i + 1) = "="
            THEN Then("symbol", i + 2)
            ELSE IF s[i] \in SingleSymbols THEN Then("symbol", i + 1)
            ELSE Refuse("UnexpectedCharacter")

tokenise(s) == TokeniseFrom(s, 1)

----------------------------------------------------------------------------
(* Functions and trees.                                                     *)
Arity ==
  [f \in {"min", "max"} |-> 2] @@ [f \in {"clamp"} |-> 3]
    @@ [f \in {"abs", "sqrt", "exp", "ln", "log10", "floor", "ceil", "round"} |-> 1]

Sym(s) == [kind |-> "symbol", text |-> s]
Name(s) == [kind |-> "name", text |-> s]
Number(n) == [kind |-> "number", value |-> n]

\* The operators of each left-associative level of the grammar, loosest
\* first, and the comparisons, which do not chain.
LevelOps == <<{Name("or")}, {Name("and")},
              {Sym(s) : s \in {"<", "<=", ">", ">=", "==", "!="}},
              {Sym(s) : s \in {"+", "-"}},
              {Sym(s) : s \in {"*", "/", "%"}}>>
ComparisonLevel == 3
UnaryLevel == 6

----------------------------------------------------------------------------
(* The parser.  p is the position of the next token and d the depth; the    *)
(* result is a tree with the position after it and the slots it reads, or   *)
(* the error the first failing call returns.                                *)
Tree(node, pos, refs) == [err |-> "none", node |-> node, pos |-> pos, refs |-> refs]
Failed(e) == [err |-> e, node |-> <<>>, pos |-> 0, refs |-> {}]

IsNumber(x) == x.kind = "number"
IsSym(x, s) == x.kind = "symbol" /\ x.text = s
IsName(x, s) == x.kind = "name" /\ x.text = s

peek(ts, p) == IF p <= Len(ts) THEN ts[p] ELSE [kind |-> "end"]

IsOperator(level, x) == ~IsNumber(x) /\ x.kind # "end" /\ x \in LevelOps[level]

\* expect_symbol's error: what stands there instead, or nothing at all.
Unexpected(x) == Failed(IF x.kind = "end" THEN "UnexpectedEnd" ELSE "Expected")

RECURSIVE ParseLevel(_, _, _, _), ParseChain(_, _, _, _), ParseUnary(_, _, _),
          ParsePrimary(_, _, _), ParseArguments(_, _, _)

\* parse_expression: one level deeper, then everything from "or" down.
ParseExpression(ts, p, d) ==
  IF d + 1 > MaxDepth THEN Failed("TooDeep") ELSE ParseLevel(1, ts, p, d + 1)

ParseLevel(level, ts, p, d) ==
  IF level = UnaryLevel THEN ParseUnary(ts, p, d)
  ELSE LET left == ParseLevel(level + 1, ts, p, d)
       IN IF left.err # "none" THEN left ELSE ParseChain(level, ts, left, d)

\* The operands that follow on the same level, taken from the left.
ParseChain(level, ts, left, d) ==
  IF ~IsOperator(level, peek(ts, left.pos)) THEN left
  ELSE LET right == ParseLevel(level + 1, ts, left.pos + 1, d)
           both == Tree(<<ts[left.pos].text, left.node, right.node>>, right.pos,
                        left.refs \union right.refs)
       IN CASE right.err # "none" -> right
            [] right.err = "none" /\ level = ComparisonLevel -> both
            [] right.err = "none" /\ level # ComparisonLevel ->
                 ParseChain(level, ts, both, d)

\* A sign, a not, or a power; a minus and a not go one level deeper, a plus
\* does not.
ParseUnary(ts, p, d) ==
  LET x == peek(ts, p)
      Deeper(q) == IF d + 1 > MaxDepth THEN Failed("TooDeep") ELSE ParseUnary(ts, q, d + 1)
      Under(op) == LET inner == Deeper(p + 1)
                   IN IF inner.err # "none" THEN inner
                      ELSE [inner EXCEPT !.node = <<op, @>>]
      base == ParsePrimary(ts, p, d)
      exponent == Deeper(base.pos + 1)
  IN CASE IsSym(x, "-") -> Under("negate")
       [] IsSym(x, "+") -> ParseUnary(ts, p + 1, d)
       [] IsName(x, "not") -> Under("not")
       [] OTHER ->
            IF base.err # "none" \/ ~IsSym(peek(ts, base.pos), "^") THEN base
            ELSE IF exponent.err # "none" THEN exponent
            ELSE Tree(<<"^", base.node, exponent.node>>, exponent.pos,
                      base.refs \union exponent.refs)

NamedConstants == {"pi", "e", "true", "false"}
ConstantValue(c) == CASE c = "true" -> Num(1) [] c = "false" -> Num(0)
                      [] c = "pi" -> Frac(22, 7) [] c = "e" -> Frac(19, 7)

\* A number, a parenthesis, a call, a named constant or a declared name.
ParsePrimary(ts, p, d) ==
  LET x == peek(ts, p)
      inner == ParseExpression(ts, p + 1, d)
      arguments == IF IsSym(peek(ts, p + 2), ")")
                   THEN Tree(<<>>, p + 3, {})
                   ELSE ParseArguments(ts, p + 2, d)
      given == Len(arguments.node)
      Call == CASE arguments.err # "none" -> arguments
                [] arguments.err = "none" /\ x.text = "if" ->
                     IF given # 3 THEN Failed("WrongArity")
                     ELSE [arguments EXCEPT !.node = <<"if">> \o @]
                [] arguments.err = "none" /\ x.text # "if" ->
                     IF x.text \notin DOMAIN Arity THEN Failed("UnknownName")
                     ELSE IF given # Arity[x.text] THEN Failed("WrongArity")
                     ELSE [arguments EXCEPT !.node = <<x.text>> \o @]
  IN CASE x.kind = "end" -> Failed("UnexpectedEnd")
       [] x.kind = "number" -> Tree(<<"constant", x.value>>, p + 1, {})
       [] x.kind = "symbol" ->
            IF x.text # "(" THEN Failed("Expected")
            ELSE IF inner.err # "none" THEN inner
            ELSE IF IsSym(peek(ts, inner.pos), ")") THEN [inner EXCEPT !.pos = @ + 1]
            ELSE Unexpected(peek(ts, inner.pos))
       [] x.kind = "name" ->
            IF IsSym(peek(ts, p + 1), "(") THEN Call
            ELSE IF x.text \in NamedConstants THEN Tree(<<"constant", ConstantValue(x.text)>>, p + 1, {})
            ELSE IF x.text \in DOMAIN Environment
            THEN Tree(<<"slot", Environment[x.text]>>, p + 1, {Environment[x.text]})
            ELSE Failed("UnknownName")

\* Arguments separated by commas up to the closing parenthesis.
ParseArguments(ts, p, d) ==
  LET first == ParseExpression(ts, p, d)
      rest == ParseArguments(ts, first.pos + 1, d)
  IN IF first.err # "none" THEN first
     ELSE IF IsSym(peek(ts, first.pos), ",")
     THEN IF rest.err # "none" THEN rest
          ELSE Tree(<<first.node>> \o rest.node, rest.pos, first.refs \union rest.refs)
     ELSE IF IsSym(peek(ts, first.pos), ")") THEN Tree(<<first.node>>, first.pos + 1, first.refs)
     ELSE Unexpected(peek(ts, first.pos))

\* compile: a tree for all of the tokens, or the reason there is none.
compile(ts) ==
  LET root == ParseExpression(ts, 1, 0)
  IN CASE ts = <<>> -> Failed("Empty")
       [] ts # <<>> /\ root.err = "none" /\ root.pos <= Len(ts) -> Failed("Expected")
       [] OTHER -> root

\* How many nodes a tree has.
RECURSIVE complexity(_)
complexity(node) ==
  IF Head(node) \in {"constant", "slot"} THEN 1
  ELSE 1 + FoldLeft(LAMBDA sum, child : sum + complexity(child), 0, Tail(node))

----------------------------------------------------------------------------
(* Evaluation.  truth is Option<bool>: NaN is neither true nor false.       *)
truth(v) == IF IsNaN(v) THEN "none" ELSE IF IsZero(v) THEN "false" ELSE "true"
boolean(b) == IF b THEN Num(1) ELSE Num(0)

Binary(op, a, b) ==
  CASE op = "+" -> Plus(a, b)
    [] op = "-" -> Difference(a, b)
    [] op = "*" -> Times(a, b)
    [] op = "/" -> Over(a, b)
    [] op = "%" -> Remainder(a, b)
    [] op = "^" -> Power(a, b)
    [] op = "<" -> boolean(LessThan(a, b))
    [] op = "<=" -> boolean(AtMost(a, b))
    [] op = ">" -> boolean(LessThan(b, a))
    [] op = ">=" -> boolean(AtMost(b, a))
    [] op = "==" -> boolean(Same(a, b))
    [] op = "!=" -> boolean(~Same(a, b))

\* Bounds the wrong way round, or NaN among them, make the answer NaN.
Clamp(a, low, high) ==
  IF ~AtMost(low, high) THEN NaN
  ELSE IF LessThan(a, low) THEN low ELSE IF LessThan(high, a) THEN high ELSE a

Call(f, args) ==
  LET a == args[1]
  IN CASE f = "min" -> MinOf(a, args[2])
       [] f = "max" -> MaxOf(a, args[2])
       [] f = "clamp" -> Clamp(a, args[2], args[3])
       [] f = "abs" -> AbsOf(a)
       [] f = "floor" -> Whole(a, FloorOf)
       [] f = "ceil" -> Minus(Whole(Minus(a), FloorOf))
       [] f = "round" -> Whole(a, RoundOf)
       [] OTHER -> Transcendental(f, a)

\* The operands are evaluated where they are used: a short-circuited or
\* untaken one is not evaluated at all.
RECURSIVE evaluate(_, _)
evaluate(node, values) ==
  LET op == Head(node)
      a == evaluate(node[2], values)
      b == evaluate(node[3], values)
  IN CASE op = "constant" -> node[2]
       [] op = "slot" -> values[node[2]]
       [] op = "negate" -> Minus(a)
       [] op = "not" -> boolean(truth(a) = "false")
       [] op = "and" -> IF truth(a) = "false" THEN Num(0)
                        ELSE boolean(truth(a) = "true" /\ truth(b) = "true")
       [] op = "or" -> IF truth(a) = "true" THEN Num(1) ELSE boolean(truth(b) = "true")
       [] op = "if" -> IF truth(a) = "none" THEN NaN
                       ELSE IF truth(a) = "true" THEN b ELSE evaluate(node[4], values)
       [] op \in DOMAIN Arity -> Call(op, [i \in 1..Arity[op] |-> evaluate(node[i + 1], values)])
       [] OTHER -> Binary(op, a, b)
=============================================================================

-------------------------- MODULE SimulationChecks --------------------------
(* What the simulation crate's pure parts promise, checked over bounded     *)
(* inputs: the expression language, the distributions, the specification,   *)
(* one run of the engine, and what is reported of its samples.              *)
EXTENDS Naturals

----------------------------------------------------------------------------
(* The expression language.                                                 *)
Slots == [w \in {"x", "y"} |-> IF w = "x" THEN 1 ELSE 2]
X == INSTANCE SimExpr WITH MaxDepth <- 64, Environment <- Slots
Shallow == INSTANCE SimExpr WITH MaxDepth <- 3, Environment <- Slots
LOCAL INSTANCE Sequences
LOCAL INSTANCE FiniteSets
LOCAL INSTANCE SequencesExt
LOCAL INSTANCE FiniteSetsExt
LOCAL INSTANCE Integers

Strings(alphabet, n) == UNION {[1..k -> alphabet] : k \in 1..n}

TokenAlphabet == {X!Name("x"), X!Name("and"), X!Name("not"), X!Sym("("), X!Sym(")"),
                  X!Sym("-"), X!Sym("+"), X!Sym("*"), X!Sym("^"), X!Sym("<")}
TightAlphabet == {X!Name("x"), X!Sym("-"), X!Sym("^"), X!Sym("*"), X!Sym("<")}
Sentences == Strings(TokenAlphabet, 4) \union [1..6 -> TightAlphabet]

\* The grammar by positions instead of by descent: the operator applied last
\* is the rightmost binary one of the loosest level outside parentheses; a
\* comparison stands alone on its level; a sign or a not takes all that is
\* left once no binary operator but ^ remains; ^ splits at its first place.
Operand(t) == X!IsSym(t, ")") \/ X!IsName(t, "x")
Outside(ts, i, p) ==
  Cardinality({k \in i..p : X!IsSym(ts[k], "(")})
    = Cardinality({k \in i..p : X!IsSym(ts[k], ")")})
OpsAt(ts, i, j, ops) ==
  {p \in (i + 1)..j : ts[p] \in ops /\ Operand(ts[p - 1]) /\ Outside(ts, i, p)}
NoTree == <<"no tree">>
Pair(op, a, b) == IF NoTree \in {a, b} THEN NoTree ELSE <<op, a, b>>
RECURSIVE ByPosition(_, _, _, _)
ByPosition(ts, i, j, level) ==
  LET ops == IF level <= 5 THEN OpsAt(ts, i, j, X!LevelOps[level])
                           ELSE OpsAt(ts, i, j, {X!Sym("^")})
      last == CHOOSE p \in ops : \A q \in ops : q <= p
      first == CHOOSE p \in ops : \A q \in ops : p <= q
      Under(op) == LET inner == ByPosition(ts, i + 1, j, 6)
                   IN IF inner = NoTree THEN NoTree ELSE <<op, inner>>
      Closes == /\ X!IsSym(ts[i], "(") /\ X!IsSym(ts[j], ")") /\ Outside(ts, i, j)
                /\ \A p \in i..(j - 1) : ~Outside(ts, i, p)
  IN IF i > j THEN NoTree
     ELSE IF level = 3 /\ Cardinality(ops) > 1 THEN NoTree
     ELSE IF level <= 5
     THEN IF ops = {} THEN ByPosition(ts, i, j, level + 1)
          ELSE Pair(ts[last].text, ByPosition(ts, i, last - 1, level),
                    ByPosition(ts, last + 1, j, level + 1))
     ELSE IF X!IsSym(ts[i], "-") THEN Under("negate")
     ELSE IF X!IsSym(ts[i], "+") THEN ByPosition(ts, i + 1, j, 6)
     ELSE IF X!IsName(ts[i], "not") THEN Under("not")
     ELSE IF ops # {} THEN Pair("^", ByPosition(ts, i, first - 1, 6),
                                ByPosition(ts, first + 1, j, 6))
     ELSE IF i = j /\ X!IsName(ts[i], "x") THEN <<"slot", 1>>
     ELSE IF i < j /\ Closes THEN ByPosition(ts, i + 1, j - 1, 1)
     ELSE NoTree

\* The descent parser accepts exactly the sentences of the positional grammar
\* and gives them the same tree (parse_or .. parse_primary).
ASSUME GrammarIsByPosition ==
  \A ts \in Sentences :
    LET parsed == X!compile(ts)
        tree == ByPosition(ts, 1, Len(ts), 1)
    IN IF parsed.err = "none" THEN parsed.node = tree ELSE tree = NoTree

\* The estimate the inline decision rests on never exceeds the length of the
\* text, which compile bounds (complexity, MAX_EXPRESSION).
ASSUME WorkIsBoundedByText ==
  \A ts \in Sentences :
    X!compile(ts).err = "none" => X!complexity(X!compile(ts).node) <= Len(ts)

\* Parentheses, minus signs and nots count towards the nesting bound, one
\* level each; a plus sign does not, and neither does a chain (descend).
Nested(t, k) == [i \in 1..k |-> t] \o <<X!Name("x")>>
Wrapped(k) == Nested(X!Sym("("), k) \o [i \in 1..k |-> X!Sym(")")]
TooDeep(ts) == Shallow!compile(ts).err = "TooDeep"
ASSUME DepthCountsNesting ==
  \A k \in 0..6 :
    /\ TooDeep(Wrapped(k)) <=> k >= 3
    /\ TooDeep(Nested(X!Sym("-"), k)) <=> k >= 3
    /\ TooDeep(Nested(X!Name("not"), k)) <=> k >= 3
    /\ ~TooDeep(Nested(X!Sym("+"), k))

\* Calls: the arity is the function's own, a name of a function may still be
\* refused as a variable, and an unknown call is an unknown name.
CallOf(f, k) == <<X!Name(f), X!Sym("(")>>
                  \o [i \in 1..(IF k = 0 THEN 0 ELSE 2 * k - 1) |->
                        IF i % 2 = 1 THEN X!Name("x") ELSE X!Sym(",")]
                  \o <<X!Sym(")")>>
ASSUME ArityIsExact ==
  \A f \in DOMAIN X!Arity \union {"if", "x"}, k \in 0..4 :
    X!compile(CallOf(f, k)).err =
      (IF f = "x" THEN "UnknownName"
       ELSE IF k = (IF f = "if" THEN 3 ELSE X!Arity[f]) THEN "none" ELSE "WrongArity")

Samples == {X!NaN, X!Inf(1), X!Num(-2), X!Num(0), X!Frac(1, 2), X!Num(1)}

\* An output depends on the slots its expression is said to reference and on
\* no other: a value elsewhere, a NaN even, changes nothing (referenced).
TwoSlotSentences ==
  {ts \in [1..3 -> {X!Name("x"), X!Name("y"), X!Sym("-"), X!Name("and"), X!Sym("<")}] :
     X!compile(ts).err = "none"}
ASSUME ReferencedIsAllThatIsRead ==
  \A ts \in TwoSlotSentences, a \in Samples, b \in Samples, c \in Samples :
    LET e == X!compile(ts)
    IN 2 \notin e.refs => X!evaluate(e.node, <<a, b>>) = X!evaluate(e.node, <<a, c>>)

\* Only the branch that is taken is evaluated: the second slot of these
\* environments does not exist, and evaluating it would be an error.
SlotTwo == <<"slot", 2>>
ASSUME UntakenIsNotEvaluated ==
  /\ X!evaluate(<<"and", <<"slot", 1>>, SlotTwo>>, <<X!Num(0)>>) = X!Num(0)
  /\ X!evaluate(<<"or", <<"slot", 1>>, SlotTwo>>, <<X!Num(3)>>) = X!Num(1)
  /\ X!evaluate(<<"if", <<"slot", 1>>, <<"slot", 1>>, SlotTwo>>, <<X!Num(3)>>) = X!Num(3)
  /\ X!evaluate(<<"if", <<"slot", 1>>, SlotTwo, <<"slot", 1>>>>, <<X!Num(0)>>) = X!Num(0)

\* What is not a number stays so through arithmetic, a condition and a clamp,
\* and so ends the run; a comparison, and, or, not, min, max and the power 0
\* turn it into a number (evaluate, truth).
One == <<"constant", X!Num(1)>>
Nan == <<"constant", X!NaN>>
Eval(node) == X!evaluate(node, <<>>)
ASSUME NaNIsKeptByArithmetic ==
  /\ \A op \in {"+", "-", "*", "/", "%"} : Eval(<<op, One, Nan>>) = X!NaN /\ Eval(<<op, Nan, One>>) = X!NaN
  /\ Eval(<<"if", Nan, One, One>>) = X!NaN /\ Eval(<<"clamp", One, Nan, One>>) = X!NaN
  /\ Eval(<<"clamp", Nan, One, One>>) = X!NaN
  /\ \A op \in {"<", "<=", ">", ">=", "==", "!=", "and", "or"} : X!IsFinite(Eval(<<op, Nan, One>>))
  /\ \A f \in {"min", "max"} : Eval(<<f, Nan, One>>) = X!Num(1)
  /\ Eval(<<"not", Nan>>) = X!Num(0)

\* Every character but a blank lies in exactly one token, tokens come in
\* order, and none could have been longer; an exponent ends a number, so that
\* "1e5.5" is two (tokenise).
Texts == Strings({" ", "0", ".", "e", "+", "<", "="}, 5)
ASSUME TokensCoverTheText ==
  \A s \in Texts :
    LET t == X!tokenise(s)
        tokens == t.tokens
    IN t.err = "none" =>
         /\ \A p \in 1..Len(s) :
              Cardinality({k \in DOMAIN tokens : tokens[k].from <= p /\ p <= tokens[k].to})
                = (IF s[p] = " " THEN 0 ELSE 1)
         /\ \A k \in 1..(Len(tokens) - 1) : tokens[k].to < tokens[k + 1].from
         /\ \A k \in DOMAIN tokens :
              LET next == X!CharAt(s, tokens[k].to + 1)
              IN CASE tokens[k].kind = "number" ->
                        /\ next # "0" /\ s[tokens[k].to] # "e"
                        /\ next = "." => \E p \in tokens[k].from..tokens[k].to : s[p] = "e"
                   [] tokens[k].kind = "name" -> next \notin {"0", ".", "e"}
                   [] tokens[k].kind = "symbol" ->
                        ~(s[tokens[k].to] = "<" /\ next = "=")

----------------------------------------------------------------------------
(* Distributions.  Uniforms are taken from a grid of Grid cells.            *)
D == INSTANCE SimDistribution
       WITH MaxCategories <- 4, DirectTrials <- 3, LambdaLimit <- 100, ExpLimit <- 709
Grid == 12
Cells == [k \in 1..Grid |-> D!Frac(k - 1, Grid)]
Middles == [k \in 1..Grid |-> D!Frac(2 * k - 1, 2 * Grid)]
Average(values) == D!Over(D!SumOf(values), D!Num(Len(values)))

Parameters == {D!NaN, D!Inf(1), D!Num(-1), D!Num(0), D!Frac(1, 2), D!Num(1), D!Num(2)}
Scalar(kind) == {[kind |-> kind, mean |-> a, std_dev |-> b, low |-> a, high |-> b,
                  rate |-> a, lambda |-> a, p |-> b] : a \in Parameters, b \in Parameters}
Scalars == UNION {Scalar(kind) : kind \in {"normal", "uniform", "exponential", "poisson", "bernoulli"}}
             \union {[kind |-> "triangular", low |-> a, mode |-> b, high |-> c] :
                       a \in Parameters, b \in Parameters, c \in Parameters}
             \union {[kind |-> "beta", alpha |-> a, beta |-> b, low |-> D!Num(-1), high |-> c] :
                       a \in Parameters, b \in Parameters, c \in Parameters}
             \union {[kind |-> "binomial", p |-> a, trials |-> n] : a \in Parameters, n \in 0..4}

\* What is accepted describes itself with finite moments: a variance that is
\* not negative and a mean inside the support (validate, moments).
ASSUME AcceptedParametersAreUsable ==
  \A dist \in {d \in Scalars : D!validate(d) = "none"} :
    LET m == D!moments(dist)
    IN /\ D!IsFinite(m.mean) /\ D!IsFinite(m.variance) /\ D!AtMost(D!Num(0), m.variance)
       /\ m.min # D!None => D!AtMost(m.min, m.mean)
       /\ m.max # D!None => D!AtMost(m.mean, m.max)

Weights == {D!Num(-1), D!Num(0), D!Num(1), D!Num(2)}
Discretes == {[kind |-> "discrete", values |-> <<D!Num(0), D!Num(3), D!Num(1)>>, weights |-> w] :
                w \in [1..3 -> Weights]}
Drawn(dist) == [k \in 1..Grid |-> D!DrawDiscrete(dist, D!Sampler(dist), Cells[k])]

\* Over the whole grid a discrete outcome is drawn exactly in proportion to
\* its weight, one of weight zero never, and the draws have the mean and the
\* variance the closed form claims (select, Sampler::new, moments).
ASSUME DrawsFollowTheWeights ==
  \A dist \in {d \in Discretes : D!validate(d) = "none"} :
    LET total == D!SumOf(dist.weights).n
        drawn == Drawn(dist)
        m == D!moments(dist)
    IN Grid % total = 0 =>
         /\ \A i \in 1..3 :
              Cardinality({k \in 1..Grid : drawn[k] = dist.values[i]}) * total
                = dist.weights[i].n * Grid
         /\ Average(drawn) = m.mean
         /\ Average([k \in 1..Grid |-> D!Square(D!Difference(drawn[k], m.mean))]) = m.variance

\* The support of a discrete distribution is taken from outcomes that cannot
\* occur too, so a constraint no draw can meet is accepted (moments).
ASSUME SupportCountsImpossibleOutcomes ==
  \E dist \in {d \in Discretes : D!validate(d) = "none"} :
    \A k \in 1..Grid : D!LessThan(Drawn(dist)[k], D!moments(dist).max)

Quarters == {D!Frac(k, 4) : k \in 0..4}
Customs == {[kind |-> "custom", points |-> p] :
              p \in [1..3 -> {D!Num(0), D!Num(2)} \X Quarters]
                     \union [1..2 -> {D!Num(0), D!Num(2), D!NaN} \X Quarters]
                     \union [1..4 -> {D!Num(0), D!Num(2)} \X {D!Num(0), D!Frac(1, 2), D!Num(1)}]}

\* A curve given by its points is inverted in order and inside its ends, and
\* has the mean it claims (Distribution::draw, moments).
ASSUME CurvesAreInverted ==
  \A dist \in {d \in Customs : D!validate(d) = "none"} :
    LET drawn == [k \in 1..Grid |-> D!DrawCustom(dist, D!Sampler(dist), Middles[k])]
        m == D!moments(dist)
    IN /\ \A k \in 1..(Grid - 1) : D!AtMost(drawn[k], drawn[k + 1])
       /\ \A k \in 1..Grid : D!AtMost(m.min, drawn[k]) /\ D!AtMost(drawn[k], m.max)
       /\ Average(drawn) = m.mean

\* A triangular sample below the split lies left of the mode, one above it
\* right of the mode, and neither leaves the range (Distribution::draw).
Triangles == {[kind |-> "triangular", low |-> D!Num(a), mode |-> D!Num(b), high |-> D!Num(c)] :
                a \in -1..1, b \in -1..2, c \in 0..3}
ASSUME TrianglesKeepToTheirSides ==
  \A dist \in {d \in Triangles : D!validate(d) = "none"}, k \in 1..Grid :
    LET x == D!DrawTriangular(dist, Cells[k])
        side == IF x.from = "low" THEN D!Difference(dist.mode, dist.low)
                                  ELSE D!Difference(dist.high, dist.mode)
    IN D!AtMost(D!Num(0), x.square) /\ D!AtMost(x.square, D!Square(side))

\* Counting trials has the binomial mean, and a mirrored draw stays within
\* the trials (sample_binomial).
Thirds == {D!Frac(k, 3) : k \in 0..2}
ASSUME TrialsAreCounted ==
  /\ \A n \in 1..3, p \in Thirds \union {D!Num(1)} :
       LET Successes(us) == D!sample_binomial(us, <<>>, n, p)
       IN D!Frac(MapThenSumSet(Successes, [1..n -> Thirds]), 3 ^ n)
            = D!moments([kind |-> "binomial", trials |-> n, p |-> p]).mean
  /\ \A p \in Thirds \union {D!Num(1)}, c \in [1..2 -> (-1..6)] :
       LET candidates == [i \in 1..2 |-> [k |-> c[i], passes |-> i = 2]]
                           \o <<[k |-> 1, passes |-> TRUE]>>
       IN D!sample_binomial(<<>>, candidates, 5, p) \in 0..5

\* A normal deviate comes from a pair strictly inside the disc, the second of
\* the pair is the next deviate and costs no uniform; a logarithm never sees
\* zero (standard_normal, open_uniform01).
Tail8 == <<D!Frac(1, 2), D!Frac(3, 4)>>
Generators == {[stream |-> s \o Tail8 \o Tail8, used |-> 0, spare |-> D!None] :
                 s \in [1..4 -> {D!Num(0), D!Frac(1, 4), D!Frac(1, 2), D!Frac(3, 4)}]}
ASSUME DeviatesComeInPairs ==
  \A g \in Generators :
    LET first == D!standard_normal(g)
        second == D!standard_normal(first.rng)
        open == D!open_uniform01(g)
    IN /\ first.rng.used % 2 = 0 /\ second.rng.used = first.rng.used
       /\ D!LessThan(D!Num(0), first.value.s) /\ D!LessThan(first.value.s, D!Num(1))
       /\ second.value.s = first.value.s
       /\ second.value.s = D!Plus(D!Square(first.value.x), D!Square(second.value.x))
       /\ second.rng.spare = D!None
       /\ D!LessThan(D!Num(0), open.value)

----------------------------------------------------------------------------
(* The specification's compiler, one run of the engine and the report of its *)
(* samples, over bounded models, streams and samples.                       *)

E == INSTANCE SimEngine
       WITH MaxInputs <- 2, MaxOutputs <- 2, MaxLabel <- 2, MaxText <- 3, MaxExpression <- 3,
            MaxIdentifier <- 2, MinIterations <- 2, MaxIterations <- 5, MaxDepth <- 8,
            MaxCategories <- 3, DirectTrials <- 3, LambdaLimit <- 100, ExpLimit <- 709,
            Batch <- 2, SensitivitySample <- 3, MaxSampleCells <- 8, MaxAttempts <- 2

----------------------------------------------------------------------------
(* Constraints.                                                             *)
Bounds == {E!None, E!Num(0), E!Num(1), E!Num(2)}
Ranges == {[min |-> a, max |-> b] : a \in Bounds, b \in Bounds}
Values == {E!Num(v) : v \in -1..3}

\* A range that is not empty moves a value to the nearest one it permits, and
\* leaves a permitted one alone (Constraints::clamp, permits).
ASSUME ClampIsNearest ==
  \A c \in {r \in Ranges : ~E!is_empty_range(r)}, v \in Values :
    LET moved == E!clamp(c, v)
        Distance(x) == E!AbsOf(E!Difference(x, v))
    IN /\ E!permits(c, moved)
       /\ \A x \in Values : E!permits(c, x) => E!AtMost(Distance(moved), Distance(x))

\* A constraint is refused exactly when it permits nothing between the ends
\* of the support (is_empty_range, ImpossibleConstraint).
ASSUME RefusedConstraintPermitsNothing ==
  \A c \in Ranges, low \in {E!None, E!Num(0), E!Num(1)}, high \in {E!None, E!Num(1), E!Num(2)} :
    LET refused == E!is_empty_range(c) \/ E!Excludes(c, [min |-> low, max |-> high])
        inSupport == {x \in Values : /\ low # E!None => E!AtMost(low, x)
                                     /\ high # E!None => E!AtMost(x, high)}
    IN refused <=> \A x \in inSupport : ~E!permits(c, x)

----------------------------------------------------------------------------
(* Specifications of up to three inputs and outputs over a few identifiers  *)
(* and expressions.                                                         *)
Id(word) == [word |-> word, bytes |-> IF word = "long" THEN 3 ELSE 1,
             first |-> "letter", restAllowed |-> TRUE]
Ex(env) == INSTANCE SimExpr WITH MaxDepth <- 8, Environment <- env
T == Ex([w \in {} |-> 0])!Name("x")
Word(w) == [T EXCEPT !.text = w]
LessSym == [kind |-> "symbol", text |-> "-"]

Sure == [kind |-> "uniform", low |-> E!Num(0), high |-> E!Num(2)]
Wrong == [Sure EXCEPT !.high = E!Num(-1)]
Free == [min |-> E!None, max |-> E!None]
Input(word, dist, constrained, c) ==
  [id |-> Id(word), name |-> 1, unit |-> -1, source |-> -1, description |-> -1,
   distribution |-> dist, constrained |-> constrained, constraints |-> c, mode |-> "resample"]
Output(word, tokens) ==
  [id |-> Id(word), name |-> 1, unit |-> -1, description |-> -1, length |-> Len(tokens),
   tokens |-> tokens]

Inputs == {Input(w, Sure, FALSE, Free) : w \in {"x", "y", "if", "long"}}
            \union {Input("y", Wrong, FALSE, Free),
                    Input("y", Sure, TRUE, [min |-> E!Num(3), max |-> E!None]),
                    Input("y", Sure, TRUE, [min |-> E!Num(2), max |-> E!Num(1)])}
Expressions == {<<Word("x")>>, <<Word("p")>>, <<Word("q")>>,
                <<Word("x"), LessSym, Word("y")>>, <<Word("p"), LessSym, Word("p")>>,
                <<LessSym, LessSym, LessSym, Word("x")>>}
Outputs == {Output(w, tokens) : w \in {"x", "p", "q"}, tokens \in Expressions}
SeqsOf(S, n) == UNION {[1..k -> S] : k \in 0..n}
Specs == {[inputs |-> i, outputs |-> o, name |-> 2, description |-> 3] :
            i \in SeqsOf(Inputs, 2), o \in SeqsOf(Outputs, 2)}
           \union {[inputs |-> [k \in 1..n |-> Input("x", Sure, FALSE, Free)],
                    outputs |-> [k \in 1..m |-> Output("p", <<Word("x")>>)],
                    name |-> l, description |-> -1] : n \in 1..3, m \in 1..3, l \in 2..3}
Compiled == {s \in Specs : E!compile(s).err = "none"}

\* In an accepted model every name is one slot, the slots are the inputs and
\* then the outputs, and an output reads only what was declared before it:
\* no reference is circular (SimulationSpec::compile).
ASSUME AcceptedModelsAreAcyclic ==
  \A s \in Compiled :
    LET c == E!compile(s)
        n == Len(s.inputs)
    IN /\ {c.environment[w] : w \in DOMAIN c.environment} = 1..(n + Len(s.outputs))
       /\ Cardinality(DOMAIN c.environment) = n + Len(s.outputs)
       /\ \A i \in DOMAIN s.outputs : \A r \in c.expressions[i].refs : r < n + i

\* A model is accepted exactly when nothing in it is at fault taken alone:
\* checking in order only decides which fault is named.
FaultFree(s) ==
  LET words == [k \in 1..(Len(s.inputs) + Len(s.outputs)) |->
                  IF k <= Len(s.inputs) THEN s.inputs[k].id.word
                                        ELSE s.outputs[k - Len(s.inputs)].id.word]
      Known(i, t) == t.kind = "symbol" \/ \E k \in 1..(Len(s.inputs) + i - 1) : words[k] = t.text
  IN /\ Len(s.inputs) \in 1..2 /\ Len(s.outputs) \in 1..2 /\ s.name <= 2
     /\ \A k \in DOMAIN words : words[k] \notin {"if", "long"}
     /\ \A k, l \in DOMAIN words : words[k] = words[l] => k = l
     /\ \A k \in DOMAIN s.inputs : s.inputs[k].distribution = Sure /\ ~s.inputs[k].constrained
     /\ \A i \in DOMAIN s.outputs :
          Len(s.outputs[i].tokens) <= 3 /\ \A t \in Range(s.outputs[i].tokens) : Known(i, t)
ASSUME RefusedMeansFaulty == \A s \in Specs : (E!compile(s).err = "none") <=> FaultFree(s)

\* The inputs an output is said to reach are those it reads, directly or
\* through outputs that are read in turn (reachable_inputs).
Reads(c, n, S) == S \union UNION {c.expressions[s - n].refs : s \in {t \in S : t > n}}
ASSUME ReachIsTransitive ==
  \A s \in Compiled :
    LET c == E!compile(s)
        n == Len(s.inputs)
    IN \A i \in DOMAIN s.outputs :
         E!reachable_inputs(s, c.expressions, i)
           = {r \in Reads(c, n, Reads(c, n, {n + i})) : r <= n}

\* What a run is priced at is at least its inputs and outputs, and grows no
\* faster than the text of its expressions (cost_per_iteration).
ASSUME CostIsBounded ==
  \A s \in Compiled :
    LET cost == E!cost_per_iteration(s, E!compile(s).expressions)
        text == FoldLeft(LAMBDA sum, o : sum + o.length, 0, s.outputs)
    IN Len(s.inputs) + Len(s.outputs) <= cost /\ cost <= Len(s.inputs) + text

----------------------------------------------------------------------------
(* Runs of the model p = x - y, q = p with a constraint on x.               *)
RunModel(constrained, mode) ==
  [inputs |-> <<[Input("x", Sure, constrained, [min |-> E!Num(1), max |-> E!None])
                   EXCEPT !.mode = mode], Input("y", Sure, FALSE, Free)>>,
   outputs |-> <<Output("p", <<Word("x"), LessSym, Word("y")>>), Output("q", <<Word("p")>>)>>,
   name |-> 1, description |-> -1]
Models == {RunModel(FALSE, "resample"), RunModel(TRUE, "resample"), RunModel(TRUE, "clamp")}
Stream(bits) == bits \o [k \in 1..10 |-> E!Num(1)]
Streams == {[w \in {"x", "y", "z"} |-> IF w = "x" THEN Stream(b)
                                       ELSE [k \in 1..10 |-> E!Num(k)]] :
              b \in [1..4 -> {E!Num(0), E!Num(2), E!Inf(1)}]}
Never == 9
Controls == {[cancelledAt |-> a, lateAt |-> b] : a \in {0, 3, 4, Never}, b \in {2, Never}}
RunOf(m, n, d, control) == E!run(m, E!compile(m).expressions, n, d, control)
Quiet == [cancelledAt |-> Never, lateAt |-> Never]

\* A finished run drew every sample inside its constraint, counted each draw
\* it threw away, holds one finite value per output and iteration, and pairs
\* the k-th input sample it kept with the k-th outcome (run).
ASSUME FinishedRunsAddUp ==
  \A m \in Models, n \in 2..4, d \in Streams :
    LET r == RunOf(m, n, d, Quiet)
    IN r.err = "none" =>
         /\ r.iteration = n /\ r.recorded = n
         /\ r.used[1] + r.used[2] = 2 * n + r.resamples
         /\ \A i \in 1..2 : Len(r.inputSamples[i]) = (IF n < 3 THEN n ELSE 3)
         /\ \A i \in 1..2 : Len(r.outputSamples[i]) = n
         /\ \A k \in DOMAIN r.inputSamples[1] :
              /\ m.inputs[1].constrained => E!permits(m.inputs[1].constraints, r.inputSamples[1][k])
              /\ r.outputSamples[1][k] = E!Difference(r.inputSamples[1][k], r.inputSamples[2][k])
         /\ r.outputSamples[2] = r.outputSamples[1]
         /\ \A k \in 1..n : E!IsFinite(r.outputSamples[1][k])

\* A run that cannot meet its constraint gives up after exactly the allowed
\* draws of one sample, all of them outside; an infinite draw, which the far
\* tail of a lognormal can yield, ends the run at the output that read it.
ASSUME RunsFailForTheirReason ==
  \A m \in Models, d \in Streams :
    LET r == RunOf(m, 4, d, Quiet)
    IN /\ r.err = "ConstraintUnsatisfiable" =>
            /\ m.inputs[1].mode = "resample" /\ m.inputs[1].constrained
            /\ \A k \in 1..2 : ~E!permits(m.inputs[1].constraints, d["x"][r.used[1] + k])
       /\ r.err = "NonFinite" => \E k \in 1..r.used[1] : ~E!IsFinite(d["x"][k])
       /\ r.err \in {"none", "ConstraintUnsatisfiable", "NonFinite"}

\* A run that was stopped stood between two batches with work left; one asked
\* to stop during its last batch finishes (run, RunControl).
ASSUME StopsBetweenBatches ==
  \A n \in 2..4, control \in Controls :
    LET m == RunModel(FALSE, "resample")
        d == [w \in {"x", "y"} |-> [k \in 1..10 |-> E!Num(k)]]
        r == RunOf(m, n, d, control)
    IN /\ r.err \in {"Cancelled", "DeadlineExceeded"} =>
            r.recorded < n /\ r.recorded % 2 = 0 /\ r.recorded = r.iteration
       /\ r.err = "Cancelled" => control.cancelledAt <= r.recorded
       /\ (r.err = "none") <=> ~(2 < n /\ (control.cancelledAt <= 2 \/ control.lateAt <= 2))

\* A run too long, too short or too wide is refused before anything is drawn.
ASSUME OversizeIsRefusedFirst ==
  \A n \in 0..6 :
    LET r == RunOf(RunModel(FALSE, "resample"), n, [w \in {"x", "y"} |-> <<>>],
                   Quiet)
    IN n \notin 2..4 => r.err = (IF n \in 2..5 THEN "TooLarge" ELSE "Iterations")

\* Editing a model does not shift its numbers: with a third input in front,
\* the others draw what they drew before (Rng::for_stream, run).
ASSUME StreamsAreIndependent ==
  \A mode \in {"resample", "clamp"}, d \in Streams :
    LET m == RunModel(TRUE, mode)
        e == E!compile(m).expressions
        wider == [m EXCEPT !.inputs = <<Input("z", Sure, FALSE, Free)>> \o @]
        Shift(x) == [x EXCEPT !.node = IF @[1] = "slot" THEN <<"slot", @[2] + 1>>
                                       ELSE <<@[1], <<"slot", 2>>, <<"slot", 3>>>>]
        narrow == E!run(m, e, 4, d, Quiet)
        wide == E!run(wider, [i \in 1..2 |-> Shift(e[i])], 4, d, Quiet)
    IN /\ wide.err = narrow.err
       /\ wide.outputSamples = narrow.outputSamples
       /\ \A i \in 1..2 : wide.inputSamples[i + 1] = narrow.inputSamples[i]

----------------------------------------------------------------------------
(* Reports.  Samples of up to four values, with ties and a negative.        *)
S == INSTANCE SimStats
       WITH FirstCheckpoint <- 2, MinForInterval <- 3, Bins <- 4, CdfPoints <- 5, DensityLimit <- 2
SampleValues == {S!Num(-1), S!Num(0), S!Num(1), S!Num(3)}
Samplings == UNION {[1..n -> SampleValues] : n \in 1..4}
Total(values) == S!SumOf(values)
CountOf(values, P(_)) == Cardinality({i \in DOMAIN values : P(values[i])})

\* The running mean and variance are the mean and the variance (Welford).
ASSUME WelfordIsExact ==
  \A xs \in Samplings :
    LET n == Len(xs)
        mean == S!Over(Total(xs), S!Num(n))
        squares == Total([i \in 1..n |-> S!Square(S!Difference(xs[i], mean))])
    IN S!mean_and_variance(xs) = <<mean, IF n = 1 THEN S!Num(0) ELSE S!Over(squares, S!Num(n - 1))>>

\* Percentiles run from the least sample to the largest without going back,
\* and at each of them at least that share of the samples is not above it,
\* to within one sample (percentile).
Fractions == [k \in 1..9 |-> S!Frac(k - 1, 8)]
ASSUME PercentilesAreOrdered ==
  \A xs \in Samplings :
    LET sorted == S!Sorted(xs)
        Q(k) == S!percentile(sorted, Fractions[k])
        NotAbove(k) == CountOf(xs, LAMBDA x : S!AtMost(x, Q(k)))
    IN /\ Q(1) = Head(sorted) /\ Q(9) = Last(sorted)
       /\ \A k \in 1..8 : S!AtMost(Q(k), Q(k + 1))
       /\ \A k \in 1..9 : NotAbove(k) * 8 >= (k - 1) * (Len(xs) - 1)

\* The probabilities on screen are counts of the samples; a floor and a
\* ceiling both count the target itself; the two sides of a threshold make
\* one; what was not set is absent rather than zero (compute, share_at_least).
Definitions == {[target |-> t, threshold |-> h, direction |-> d] :
                  t \in {S!None, S!Num(0), S!Num(2)}, h \in {S!None, S!Num(1)},
                  d \in {"at_least", "at_most"}}
ASSUME ProbabilitiesAreCounts ==
  \A xs \in Samplings, o \in Definitions :
    LET r == S!compute(S!Sorted(xs), o)
        Reached(x) == IF o.direction = "at_least" THEN S!AtMost(o.target, x) ELSE S!AtMost(x, o.target)
    IN /\ IF o.target = S!None THEN r.probability_of_target = S!None
          ELSE r.probability_of_target = S!Frac(CountOf(xs, Reached), Len(xs))
       /\ IF o.threshold = S!None THEN r.below = S!None /\ r.above = S!None
          ELSE S!Plus(r.below, r.above) = S!Num(1)
       /\ r.probability_of_loss = S!Frac(CountOf(xs, LAMBDA x : S!LessThan(x, S!Num(0))), Len(xs))
       /\ (r.interval = S!None) <=> Len(xs) < 3
       /\ r.interval = S!None => r.relative_error2 = S!None

\* Every sample is in exactly one bar and inside that bar's ends, the largest
\* one too, and the curve runs from the least sample to the largest (build).
ASSUME BarsHoldEverySample ==
  \A xs \in Samplings :
    LET sorted == S!Sorted(xs)
        b == S!build(sorted)
        held == FoldLeft(LAMBDA sum, bar : sum + bar.count, 0, b.bins)
        Inside(bar, x) == S!AtMost(bar.low, x) /\ S!AtMost(x, bar.high)
    IN /\ held = Len(xs)
       /\ b.bins[1].low = Head(sorted) /\ Last(b.bins).high = Last(sorted)
       /\ \A k \in DOMAIN b.bins :
            /\ b.bins[k].count <= CountOf(xs, LAMBDA x : Inside(b.bins[k], x))
            /\ CountOf(xs, LAMBDA x : S!AtMost(b.bins[k].low, x) /\ S!LessThan(x, b.bins[k].high))
                 <= b.bins[k].count
       /\ \A k \in 1..(Len(b.cdf) - 1) : S!AtMost(b.cdf[k][1], b.cdf[k + 1][1])
       /\ (b.density = <<>>) <=> Cardinality(Range(xs)) = 1

\* Checkpoints increase up to the whole run; there is something to compare
\* exactly when the run is longer than the first of them (checkpoints_for).
ASSUME CheckpointsEndAtTheRun ==
  \A n \in 1..250 :
    LET points == S!checkpoints_for(n)
    IN /\ Last(points) = n
       /\ \A k \in 1..(Len(points) - 1) : points[k] < points[k + 1]
       /\ Len(points) >= 2 <=> n > 2
       /\ Len(points) >= 2 => points[Len(points) - 1] * 5 >= n \/ points[Len(points) - 1] * 2 >= n

\* A report that is not stable always says why, one that is never does; a
\* constant output settles as soon as there is something to compare, and an
\* unsettled mean is never called stable (convergence analyse).
ASSUME UnstableIsAlwaysSaid ==
  \A xs \in Samplings :
    LET c == S!ConvergenceOf(xs)
        k == Len(c.checkpoints)
        Mean(n) == S!mean_and_variance(SubSeq(xs, 1, n))[1]
    IN /\ c.stable <=> c.warning = "none"
       /\ (Len(xs) > 2 /\ Cardinality(Range(xs)) = 1) => c.stable
       /\ Len(xs) <= 2 => c.warning = "too few iterations"
       /\ c.stable =>
            S!AtMost(S!AbsOf(S!Difference(Mean(Len(xs)), Mean(c.checkpoints[k - 1].iterations))),
                     S!Frac(5, 100))

\* The centre alone keeps a report from being stable: here the tails have not
\* moved at all (CENTRE_TOLERANCE).
Steady == [i \in 1..11 |-> IF i <= 2 THEN S!Num(-1) ELSE IF i <= 8 THEN S!Num(0) ELSE S!Num(3)]
ASSUME CentreIsJudgedToo ==
  LET c == S!ConvergenceOf(Steady)
      last == c.checkpoints[3]
      previous == c.checkpoints[2]
  IN last.p10 = previous.p10 /\ last.p90 = previous.p90 /\ ~c.stable

\* Ranks order as the values do, equal values share one rank, and together
\* they are as many as the samples (ranks).
ASSUME RanksAreFair ==
  \A xs \in Samplings :
    LET r == S!ranks(xs)
        n == Len(xs)
    IN /\ Total(r) = S!Frac(n * (n + 1), 2)
       /\ \A i, j \in 1..n : S!LessThan(xs[i], xs[j]) <=> S!LessThan(r[i], r[j])

\* The rank correlation sees the order only, is one for what is ordered alike
\* and is absent when either side never varies (rank_correlation).
Pairs == {[x |-> x, y |-> y] : x \in [1..3 -> SampleValues], y \in [1..3 -> SampleValues]}
Cubed(xs) == [i \in DOMAIN xs |-> S!Times(xs[i], S!Square(xs[i]))]
Varies(xs) == Cardinality(Range(xs)) > 1
ASSUME RankCorrelationSeesOrder ==
  \A p \in Pairs :
    LET r == S!rank_correlation(p.x, p.y)
    IN /\ r = S!rank_correlation(Cubed(p.x), p.y)
       /\ (r = S!None) <=> ~(Varies(p.x) /\ Varies(p.y))
       /\ r # S!None => S!AtMost(S!SquareOrZero(r), S!Num(1))
       /\ Varies(p.x) => S!rank_correlation(p.x, Cubed(p.x)) = S!Num(1)

\* Shares of the influence sum to one unless the report says there is none,
\* come largest first, and an input the output never reads has neither a
\* share nor a correlation (sensitivity analyse).
ASSUME SharesAreADecomposition ==
  \A p \in Pairs, read \in [1..2 -> BOOLEAN] :
    LET out == [i \in 1..3 |-> S!Plus(p.x[i], p.y[i])]
        r == S!SensitivityOf(<<1, 2>>, <<p.x, p.y>>, out, read)
        shares == [k \in 1..2 |-> r.inputs[k].share]
    IN /\ Total(shares) = IF r.note THEN S!Num(0) ELSE S!Num(1)
       /\ S!AtMost(shares[2], shares[1])
       /\ \A k \in 1..2 : ~r.inputs[k].entry.referenced =>
            shares[k] = S!Num(0) /\ r.inputs[k].entry.correlation = S!None
       /\ ~Varies(out) => r.note
=============================================================================

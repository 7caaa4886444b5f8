------------------------------ MODULE SimEngine ------------------------------
(* A simulation's specification, what compiling it checks (spec.rs), and    *)
(* one run of the compiled model (engine.rs).                               *)
(*                                                                          *)
(* An identifier is a record of what its check looks at; a text is its      *)
(* length in characters; a distribution is a record of SimDistribution; an  *)
(* output's expression is its tokens.  What the streams of a run hold is    *)
(* given: Draws[id] are the samples the generator of input id would yield,  *)
(* in order.  TLC only.                                                     *)
EXTENDS Float, FiniteSets

CONSTANTS
  MaxInputs, MaxOutputs,                 \* MAX_INPUTS, MAX_OUTPUTS
  MaxLabel, MaxText, MaxExpression,      \* the longest texts
  MaxIdentifier,                         \* 64
  MinIterations, MaxIterations,          \* MIN_ITERATIONS, MAX_ITERATIONS
  MaxDepth, MaxCategories, DirectTrials, LambdaLimit, ExpLimit,
  Batch,              \* BATCH: 4,096
  SensitivitySample,  \* SENSITIVITY_SAMPLE: 100,000
  MaxSampleCells,     \* MAX_SAMPLE_CELLS
  MaxAttempts         \* MAX_CONSTRAINT_ATTEMPTS: 1,000

Expr(Environment) == INSTANCE SimExpr
Dist == INSTANCE SimDistribution
None == Dist!None

----------------------------------------------------------------------------
(* Constraints: an optional floor and an optional ceiling.                  *)
is_empty_range(c) == c.min # None /\ c.max # None /\ LessThan(c.max, c.min)

permits(c, value) ==
  /\ c.min # None => ~LessThan(value, c.min)
  /\ c.max # None => ~LessThan(c.max, value)

clamp(c, value) ==
  LET raised == IF c.min # None THEN MaxOf(value, c.min) ELSE value
  IN IF c.max # None THEN MinOf(raised, c.max) ELSE raised

\* Whether the range lies wholly beside the distribution's support.
Excludes(c, support) ==
  \/ c.min # None /\ support.max # None /\ LessThan(support.max, c.min)
  \/ c.max # None /\ support.min # None /\ LessThan(c.max, support.min)

----------------------------------------------------------------------------
(* Checks; each is the first fault in the order the code looks, or "none".  *)
FirstFault(checks) == Dist!FirstFault(checks)

ReservedWords == {"if", "and", "or", "not", "pi", "e", "true", "false"}

\* An identifier: its word, its length in bytes (a Swedish letter is two),
\* the class of its first character and whether the rest are allowed.
check_identifier(id) ==
  FirstFault(<< <<id.bytes = 0, "empty">>, <<id.bytes > MaxIdentifier, "too long">>,
                <<id.first \notin {"letter", "underscore"}, "first">>,
                <<~id.restAllowed, "characters">>,
                <<id.word \in ReservedWords, "reserved">> >>)

\* The texts of an input or output, in the order they are measured; -1 is an
\* absent one.
LengthFault(texts) ==
  FirstFault([i \in DOMAIN texts |-> <<texts[i].length > texts[i].limit, "TooLong">>])
Text(length, limit) == [length |-> length, limit |-> limit]

InputTexts(input) == <<Text(input.name, MaxLabel), Text(input.unit, MaxLabel),
                       Text(input.source, MaxText), Text(input.description, MaxText)>>
OutputTexts(output) == <<Text(output.name, MaxLabel), Text(output.length, MaxExpression),
                         Text(output.unit, MaxLabel), Text(output.description, MaxText)>>

ConstraintFault(input) ==
  IF ~input.constrained THEN "none"
  ELSE FirstFault(<< <<is_empty_range(input.constraints), "EmptyConstraint">>,
                     <<Excludes(input.constraints, Dist!moments(input.distribution)),
                       "ImpossibleConstraint">> >>)

InputFault(input, environment) ==
  IF check_identifier(input.id) # "none" THEN "BadIdentifier"
  ELSE IF LengthFault(InputTexts(input)) # "none" THEN "TooLong"
  ELSE IF input.id.word \in DOMAIN environment THEN "DuplicateIdentifier"
  ELSE IF Dist!validate(input.distribution) # "none" THEN "Distribution"
  ELSE ConstraintFault(input)

OutputFault(output, environment) ==
  IF check_identifier(output.id) # "none" THEN "BadIdentifier"
  ELSE IF LengthFault(OutputTexts(output)) # "none" THEN "TooLong"
  ELSE IF output.id.word \in DOMAIN environment THEN "DuplicateIdentifier"
  ELSE IF Expr(environment)!compile(output.tokens).err # "none" THEN "Expression"
  ELSE "none"

Declare(environment, word, slot) ==
  [w \in DOMAIN environment \union {word} |-> IF w = word THEN slot ELSE environment[w]]

\* Inputs in order, each declared once it has passed; then outputs, each
\* compiled against the names declared before it.
NoNames == [w \in {} |-> 0]
AfterInputs(spec) ==
  LET Step(acc, i) ==
        LET fault == InputFault(spec.inputs[i], acc.environment)
        IN IF acc.err # "none" THEN acc
           ELSE IF fault # "none" THEN [acc EXCEPT !.err = fault]
           ELSE [acc EXCEPT !.environment = Declare(@, spec.inputs[i].id.word, i)]
  IN FoldLeft(Step, [err |-> "none", environment |-> NoNames, expressions |-> <<>>],
              [i \in DOMAIN spec.inputs |-> i])

AfterOutputs(spec, start) ==
  LET Step(acc, i) ==
        LET output == spec.outputs[i]
            fault == OutputFault(output, acc.environment)
        IN IF acc.err # "none" THEN acc
           ELSE IF fault # "none" THEN [acc EXCEPT !.err = fault]
           ELSE [acc EXCEPT
                   !.environment = Declare(@, output.id.word, Len(spec.inputs) + i),
                   !.expressions = Append(@, Expr(acc.environment)!compile(output.tokens))]
  IN FoldLeft(Step, start, [i \in DOMAIN spec.outputs |-> i])

compile(spec) ==
  LET shape == FirstFault(<< <<spec.inputs = <<>>, "NoInputs">>, <<spec.outputs = <<>>, "NoOutputs">>,
                             <<Len(spec.inputs) > MaxInputs, "TooManyInputs">>,
                             <<Len(spec.outputs) > MaxOutputs, "TooManyOutputs">>,
                             <<spec.name > MaxLabel \/ spec.description > MaxText, "TooLong">> >>)
  IN IF shape # "none" THEN [err |-> shape, environment |-> NoNames, expressions |-> <<>>]
     ELSE AfterOutputs(spec, AfterInputs(spec))

\* Work per iteration: one per input, and the nodes of every expression.
cost_per_iteration(spec, expressions) ==
  Len(spec.inputs)
    + FoldLeft(LAMBDA sum, x : sum + Expr(NoNames)!complexity(x.node), 0, expressions)

RunConfigValid(iterations) == iterations \in MinIterations..MaxIterations

----------------------------------------------------------------------------
(* A run: batches of iterations, each drawing every input from its own      *)
(* stream, applying its constraint, and evaluating every output; between    *)
(* batches the run may be cancelled or out of time.                         *)

\* One input's sample: the constraint may redraw it or move it to a bound.
\* used counts the draws taken from the input's stream so far.
RECURSIVE Resampled(_, _, _, _)
Resampled(constraints, draws, used, attempts) ==
  IF permits(constraints, draws[used])
  THEN [err |-> "none", sample |-> draws[used], used |-> used,
        resamples |-> attempts, clamped |-> 0]
  ELSE IF attempts + 1 >= MaxAttempts
  THEN [err |-> "ConstraintUnsatisfiable", sample |-> draws[used], used |-> used,
        resamples |-> 0, clamped |-> 0]
  ELSE Resampled(constraints, draws, used + 1, attempts + 1)

DrawInput(input, draws, used) ==
  LET first == draws[used + 1]
      Plain(sample, clamped) == [err |-> "none", sample |-> sample, used |-> used + 1,
                                 resamples |-> 0, clamped |-> clamped]
  IN CASE ~input.constrained -> Plain(first, 0)
       [] input.constrained /\ input.mode = "resample" ->
            Resampled(input.constraints, draws, used + 1, 0)
       [] input.constrained /\ input.mode = "clamp" ->
            IF permits(input.constraints, first) THEN Plain(first, 0)
            ELSE Plain(clamp(input.constraints, first), 1)

\* The inputs of one iteration, in order; the first unsatisfiable one ends
\* the run.
DrawInputs(spec, draws, st) ==
  LET Step(acc, i) ==
        LET input == spec.inputs[i]
            drawn == DrawInput(input, draws[input.id.word], acc.used[i])
        IN IF acc.err # "none" THEN acc
           ELSE IF drawn.err # "none" THEN [acc EXCEPT !.err = drawn.err]
           ELSE [acc EXCEPT !.values[i] = drawn.sample, !.used[i] = drawn.used,
                            !.resamples = @ + drawn.resamples, !.clamped = @ + drawn.clamped,
                            !.inputSamples[i] =
                              IF acc.iteration < acc.retained THEN Append(@, drawn.sample) ELSE @]
  IN FoldLeft(Step, st, [i \in DOMAIN spec.inputs |-> i])

\* The outputs of one iteration, each reading the inputs and the outputs
\* before it; one that is not finite ends the run.
EvaluateOutputs(spec, expressions, st) ==
  LET n == Len(spec.inputs)
      Step(acc, i) ==
        LET value == Expr(NoNames)!evaluate(expressions[i].node, acc.values)
        IN IF acc.err # "none" THEN acc
           ELSE IF ~IsFinite(value) THEN [acc EXCEPT !.err = "NonFinite"]
           ELSE [acc EXCEPT !.values[n + i] = value, !.outputSamples[i] = Append(@, value)]
  IN FoldLeft(Step, st, [i \in DOMAIN expressions |-> i])

Iterate(spec, expressions, draws, st) ==
  LET drawn == DrawInputs(spec, draws, st)
      done == IF drawn.err # "none" THEN drawn ELSE EvaluateOutputs(spec, expressions, drawn)
  IN IF done.err # "none" THEN done ELSE [done EXCEPT !.iteration = @ + 1]

\* The batches.  CancelledAt and LateAt are the iterations from which the
\* control says cancelled and the clock says past the deadline; both are
\* looked at between batches only, and not after the last.
RECURSIVE Batches(_, _, _, _, _)
Batches(spec, expressions, draws, control, st) ==
  LET end == IF st.iteration + Batch < st.total THEN st.iteration + Batch ELSE st.total
      ran == FoldLeft(LAMBDA acc, k : IF acc.err # "none" THEN acc
                                      ELSE Iterate(spec, expressions, draws, acc),
                      st, [k \in 1..(end - st.iteration) |-> k])
      recorded == [ran EXCEPT !.recorded = ran.iteration]
      more == ran.iteration < ran.total
  IN CASE st.iteration >= st.total -> st
       [] st.iteration < st.total /\ ran.err # "none" -> ran
       [] st.iteration < st.total /\ ran.err = "none" ->
            IF more /\ ran.iteration >= control.cancelledAt
            THEN [recorded EXCEPT !.err = "Cancelled"]
            ELSE IF more /\ ran.iteration >= control.lateAt
            THEN [recorded EXCEPT !.err = "DeadlineExceeded"]
            ELSE Batches(spec, expressions, draws, control, recorded)

Warnings(st) ==
  (IF st.resamples > st.total \div 2 THEN {"resampled"} ELSE {})
    \union (IF st.clamped * 10 > st.total THEN {"clamped"} ELSE {})

run(spec, expressions, iterations, draws, control) ==
  LET Nothing == [i \in 1..(Len(spec.inputs) + Len(spec.outputs)) |-> Num(0)]
      start == [err |-> "none", iteration |-> 0, total |-> iterations, recorded |-> 0,
                retained |-> IF iterations < SensitivitySample THEN iterations
                                                               ELSE SensitivitySample,
                values |-> Nothing, used |-> [i \in DOMAIN spec.inputs |-> 0],
                resamples |-> 0, clamped |-> 0,
                inputSamples |-> [i \in DOMAIN spec.inputs |-> <<>>],
                outputSamples |-> [i \in DOMAIN spec.outputs |-> <<>>]]
      end == Batches(spec, expressions, draws, control, start)
  IN IF ~RunConfigValid(iterations) THEN [start EXCEPT !.err = "Iterations"]
     ELSE IF iterations * Len(spec.outputs) > MaxSampleCells
     THEN [start EXCEPT !.err = "TooLarge"]
     ELSE end

----------------------------------------------------------------------------
(* Which inputs an output depends on, through the outputs it reads: the     *)
(* work list of reachable_inputs.                                           *)
RECURSIVE Reach(_, _, _, _)
Reach(inputs, expressions, pending, acc) ==
  LET index == Last(pending)
      reads == expressions[index].refs
      later == SetToSeq({s - inputs : s \in {r \in reads : r > inputs}})
  IN IF pending = <<>> THEN acc.reached
     ELSE IF index \in acc.seen THEN Reach(inputs, expressions, Front(pending), acc)
     ELSE Reach(inputs, expressions, Front(pending) \o later,
                [seen |-> acc.seen \union {index},
                 reached |-> acc.reached \union {r \in reads : r <= inputs}])

reachable_inputs(spec, expressions, output) ==
  Reach(Len(spec.inputs), expressions, <<output>>, [seen |-> {}, reached |-> {}])
=============================================================================

--------------------------- MODULE SimDistribution ---------------------------
(* The input distributions of a simulation (distribution.rs) and the stream *)
(* of uniforms they draw from (rng.rs): which parameters are accepted, what *)
(* moments are claimed, and how a uniform becomes a sample.                 *)
(*                                                                          *)
(* A generator is the sequence of uniforms its seed fixes, with a position  *)
(* and the cached second normal; xoshiro's bits are left out.  A distri-    *)
(* bution is a record with its kind.  A deviate that needs a root or a      *)
(* logarithm is kept as the exact quantity under it.  TLC only.             *)
EXTENDS Float, FiniteSets

CONSTANTS
  MaxCategories,   \* MAX_CATEGORIES: 1,000
  DirectTrials,    \* 128: sample_binomial sums up to this many trials
  LambdaLimit,     \* 1e9: validate's ceiling for a Poisson mean
  ExpLimit         \* 709: what exp() can still represent

None == [k |-> "none", n |-> 0, d |-> 1]
Zero == Num(0)
One == Num(1)

----------------------------------------------------------------------------
(* rng.rs *)

\* One input's generator: the run's seed and the input's identifier fix the
\* uniforms, nothing else does.
for_stream(Uniforms, seed, stream) ==
  [stream |-> Uniforms[<<seed, stream>>], used |-> 0, spare |-> None]

\* The next uniform in [0, 1), and the generator after it.
uniform01(rng) ==
  [value |-> rng.stream[rng.used + 1], rng |-> [rng EXCEPT !.used = @ + 1]]

\* Never exactly zero: zeros are drawn past.
RECURSIVE open_uniform01(_)
open_uniform01(rng) ==
  LET u == uniform01(rng)
  IN IF LessThan(Zero, u.value) THEN u ELSE open_uniform01(u.rng)

Centred(u) == Difference(Times(Num(2), u), One)

\* The polar method: a pair inside the unit disc gives two deviates, the
\* second kept for the next call.  A deviate is its coordinate and the s it
\* is scaled by.
RECURSIVE standard_normal(_)
standard_normal(rng) ==
  LET first == uniform01(rng)
      second == uniform01(first.rng)
      u == Centred(first.value)
      v == Centred(second.value)
      s == Plus(Square(u), Square(v))
  IN IF rng.spare # None
     THEN [value |-> rng.spare, rng |-> [rng EXCEPT !.spare = None]]
     ELSE IF LessThan(Zero, s) /\ LessThan(s, One)
     THEN [value |-> [x |-> u, s |-> s],
           rng |-> [second.rng EXCEPT !.spare = [x |-> v, s |-> s]]]
     ELSE standard_normal(second.rng)

----------------------------------------------------------------------------
(* validate: the first fault found, in the order the code looks, or "none". *)
FirstFault(checks) ==
  LET bad == SelectSeq(checks, LAMBDA c : c[1])
  IN IF bad = <<>> THEN "none" ELSE Head(bad)[2]

NotFinite(v) == ~IsFinite(v)
NotProbability(p) == LessThan(p, Zero) \/ LessThan(One, p)

\* Whether the window ending at i has a decreasing value or probability.
Decreases(points, i, field) ==
  i > 1 /\ LessThan(points[i][field], points[i - 1][field])

DiscreteFault(values, weights) ==
  LET n == Len(values)
      early == FirstFault(<< <<n = 0, "empty">>, <<n > MaxCategories, "too many">>,
                             <<n # Len(weights), "lengths">> >>)
      \* Each weight in turn is first finite, then not negative.
      WeightFault == FirstFault([i \in 1..Len(weights) |->
                       <<NotFinite(weights[i]) \/ LessThan(weights[i], Zero), "weights">>])
  IN IF early # "none" THEN early
     ELSE FirstFault(<< <<\E i \in 1..n : NotFinite(values[i]), "values">>,
                        <<WeightFault # "none", "weights">>,
                        <<AtMost(SumOf(weights), Zero), "zero total">> >>)

CustomFault(points) ==
  LET n == Len(points)
      early == FirstFault(<< <<n < 2, "too few">>, <<n > MaxCategories, "too many">> >>)
      Window(i) == FirstFault(<< <<NotFinite(points[i][1]), "points">>,
                                 <<Decreases(points, i, 1), "values decrease">>,
                                 <<Decreases(points, i, 2), "probabilities decrease">> >>)
      ends == FirstFault(<< <<NotFinite(points[1][1]) \/ NotFinite(points[n][1]), "points">>,
                            <<points[1][2] # Zero, "first">>, <<points[n][2] # One, "last">> >>)
  IN IF early # "none" THEN early
     ELSE IF ends # "none" THEN ends
     ELSE FirstFault([i \in 1..(n - 1) |-> <<Window(i + 1) # "none", Window(i + 1)>>])

validate(dist) ==
  CASE dist.kind = "normal" ->
         FirstFault(<< <<NotFinite(dist.mean), "mean">>, <<NotFinite(dist.std_dev), "std_dev">>,
                       <<LessThan(dist.std_dev, Zero), "std_dev">> >>)
    [] dist.kind = "lognormal" ->
         FirstFault(<< <<NotFinite(dist.mean), "log_mean">>,
                       <<NotFinite(dist.std_dev), "log_std_dev">>,
                       <<LessThan(dist.std_dev, Zero), "log_std_dev">>,
                       <<LessThan(Num(ExpLimit), Plus(dist.mean, Times(Num(8), dist.std_dev))),
                         "overflow">> >>)
    [] dist.kind = "uniform" ->
         FirstFault(<< <<NotFinite(dist.low), "low">>, <<NotFinite(dist.high), "high">>,
                       <<LessThan(dist.high, dist.low), "reversed">> >>)
    [] dist.kind = "triangular" ->
         FirstFault(<< <<NotFinite(dist.low), "low">>, <<NotFinite(dist.mode), "mode">>,
                       <<NotFinite(dist.high), "high">>,
                       <<LessThan(dist.high, dist.low), "reversed">>,
                       <<LessThan(dist.mode, dist.low) \/ LessThan(dist.high, dist.mode),
                         "mode outside">> >>)
    [] dist.kind = "beta" ->
         FirstFault(<< <<NotFinite(dist.alpha), "alpha">>, <<NotFinite(dist.beta), "beta">>,
                       <<NotFinite(dist.low), "low">>, <<NotFinite(dist.high), "high">>,
                       <<AtMost(dist.alpha, Zero), "alpha">>, <<AtMost(dist.beta, Zero), "beta">>,
                       <<LessThan(dist.high, dist.low), "reversed">> >>)
    [] dist.kind = "exponential" ->
         FirstFault(<< <<NotFinite(dist.rate), "rate">>, <<AtMost(dist.rate, Zero), "rate">> >>)
    [] dist.kind = "poisson" ->
         FirstFault(<< <<NotFinite(dist.lambda), "lambda">>, <<LessThan(dist.lambda, Zero), "lambda">>,
                       <<LessThan(Num(LambdaLimit), dist.lambda), "lambda">> >>)
    [] dist.kind = "bernoulli" ->
         FirstFault(<< <<NotFinite(dist.p), "p">>, <<NotProbability(dist.p), "p">> >>)
    [] dist.kind = "binomial" ->
         FirstFault(<< <<NotFinite(dist.p), "p">>, <<NotProbability(dist.p), "p">>,
                       <<dist.trials = 0, "trials">> >>)
    [] dist.kind = "discrete" -> DiscreteFault(dist.values, dist.weights)
    [] dist.kind = "custom" -> CustomFault(dist.points)

----------------------------------------------------------------------------
(* moments: mean, variance and the ends of the support.  The lognormal's    *)
(* mean and variance need exp() and are left out.                           *)
Moments(mean, variance, min, max) ==
  [mean |-> mean, variance |-> variance, min |-> min, max |-> max]

Extreme(values, Pick(_, _)) == FoldLeft(Pick, Head(values), Tail(values))

DiscreteMoments(values, weights) ==
  LET total == SumOf(weights)
      P(i) == Over(weights[i], total)
      mean == SumOf([i \in 1..Len(values) |-> Times(P(i), values[i])])
      second == SumOf([i \in 1..Len(values) |-> Times(P(i), Square(values[i]))])
  IN Moments(mean, MaxOf(Difference(second, Square(mean)), Zero),
             Extreme(values, MinOf), Extreme(values, MaxOf))

\* Within a segment the value is uniform: the segment adds its own mean and
\* second moment by the mass it carries.
CustomMoments(points) ==
  LET Mass(i) == MaxOf(Difference(points[i + 1][2], points[i][2]), Zero)
      SegmentMean(i) == Over(Plus(points[i][1], points[i + 1][1]), Num(2))
      SegmentSecond(i) ==
        Over(Plus(Plus(Square(points[i][1]), Times(points[i][1], points[i + 1][1])),
                  Square(points[i + 1][1])), Num(3))
      segments == 1..(Len(points) - 1)
      mean == SumOf([i \in segments |-> Times(Mass(i), SegmentMean(i))])
      second == SumOf([i \in segments |-> Times(Mass(i), SegmentSecond(i))])
  IN Moments(mean, MaxOf(Difference(second, Square(mean)), Zero),
             Head(points)[1], Last(points)[1])

moments(dist) ==
  CASE dist.kind = "normal" -> Moments(dist.mean, Square(dist.std_dev), None, None)
    [] dist.kind = "lognormal" -> Moments(None, None, Zero, None)
    [] dist.kind = "uniform" ->
         Moments(Over(Plus(dist.low, dist.high), Num(2)),
                 Over(Square(Difference(dist.high, dist.low)), Num(12)), dist.low, dist.high)
    [] dist.kind = "triangular" ->
         LET l == dist.low  m == dist.mode  h == dist.high
         IN Moments(Over(Plus(Plus(l, m), h), Num(3)),
                    Over(Difference(Plus(Plus(Square(l), Square(m)), Square(h)),
                                    Plus(Plus(Times(l, m), Times(l, h)), Times(m, h))), Num(18)),
                    l, h)
    [] dist.kind = "beta" ->
         LET span == Difference(dist.high, dist.low)
             total == Plus(dist.alpha, dist.beta)
         IN Moments(Plus(dist.low, Times(span, Over(dist.alpha, total))),
                    Over(Times(Square(span), Times(dist.alpha, dist.beta)),
                         Times(Square(total), Plus(total, One))),
                    dist.low, dist.high)
    [] dist.kind = "exponential" ->
         Moments(Over(One, dist.rate), Over(One, Square(dist.rate)), Zero, None)
    [] dist.kind = "poisson" -> Moments(dist.lambda, dist.lambda, Zero, None)
    [] dist.kind = "bernoulli" ->
         Moments(dist.p, Times(dist.p, Difference(One, dist.p)), Zero, One)
    [] dist.kind = "binomial" ->
         LET np == Times(Num(dist.trials), dist.p)
         IN Moments(np, Times(np, Difference(One, dist.p)), Zero, Num(dist.trials))
    [] dist.kind = "discrete" -> DiscreteMoments(dist.values, dist.weights)
    [] dist.kind = "custom" -> CustomMoments(dist.points)

----------------------------------------------------------------------------
(* Sampling.  The table of a tabular kind is built once, by Sampler::new.   *)
Sampler(dist) ==
  CASE dist.kind = "discrete" ->
         LET total == SumOf(dist.weights)
         IN [i \in DOMAIN dist.weights |->
               IF LessThan(Zero, total)
               THEN Over(SumOf(SubSeq(dist.weights, 1, i)), total) ELSE One]
    [] dist.kind = "custom" -> [i \in DOMAIN dist.points |-> dist.points[i][2]]
    [] OTHER -> <<>>

\* How many edges are at or below u: the first whose cumulative probability
\* exceeds it, counted from zero.
select(cumulative, u) == Cardinality({i \in DOMAIN cumulative : AtMost(cumulative[i], u)})

Within(i, low, high) == IF i < low THEN low ELSE IF i > high THEN high ELSE i

DrawDiscrete(dist, cumulative, u) ==
  dist.values[Within(select(cumulative, u), 0, Len(dist.values) - 1) + 1]

DrawCustom(dist, cumulative, u) ==
  LET upper == Within(select(cumulative, u), 1, Len(dist.points) - 1) + 1
      a == dist.points[upper - 1]
      b == dist.points[upper]
      mass == Difference(b[2], a[2])
  IN IF AtMost(mass, Zero) THEN b[1]
     ELSE Plus(a[1], Times(Difference(b[1], a[1]), Over(Difference(u, a[2]), mass)))

\* The triangular inverse: from which end the sample is measured, and the
\* square of how far.
DrawTriangular(dist, u) ==
  LET span == Difference(dist.high, dist.low)
      split == Over(Difference(dist.mode, dist.low), span)
  IN CASE AtMost(span, Zero) -> [from |-> "low", square |-> Zero]
       [] LessThan(Zero, span) /\ LessThan(u, split) ->
            [from |-> "low", square |-> Times(Times(u, span), Difference(dist.mode, dist.low))]
       [] LessThan(Zero, span) /\ ~LessThan(u, split) ->
            [from |-> "high",
             square |-> Times(Times(Difference(One, u), span), Difference(dist.high, dist.mode))]

DrawUniform(dist, u) == Plus(dist.low, Times(Difference(dist.high, dist.low), u))
DrawBernoulli(dist, u) == IF LessThan(u, dist.p) THEN One ELSE Zero

\* Two gammas' share of their sum, the middle when both are zero.
DrawBeta(dist, x, y) ==
  LET total == Plus(x, y)
      unit == IF LessThan(Zero, total) THEN Over(x, total) ELSE Frac(1, 2)
  IN Plus(dist.low, Times(Difference(dist.high, dist.low), unit))

\* Knuth's product: how many uniforms are multiplied before the product falls
\* to the limit, exp(-lambda).
RECURSIVE KnuthFrom(_, _, _, _)
KnuthFrom(us, limit, product, count) ==
  LET next == Times(product, us[count + 1])
  IN IF AtMost(next, limit) THEN count ELSE KnuthFrom(us, limit, next, count + 1)
sample_poisson(us, lambda, limit) ==
  IF AtMost(lambda, Zero) THEN 0 ELSE KnuthFrom(us, limit, One, 0)

\* Few trials are counted one by one.  Many are one k out of 0..n of a
\* rejection loop whose candidates come in turn, each with whether it passes;
\* the loop sees the smaller of p and 1 - p, and its answer is mirrored back.
sample_binomial(us, candidates, trials, p) ==
  LET flipped == LessThan(Frac(1, 2), p)
      inRange == SelectSeq(candidates, LAMBDA c : c.k \in 0..trials /\ c.passes)
      drawn == Head(inRange).k
  IN CASE AtMost(p, Zero) -> 0
       [] AtMost(One, p) -> trials
       [] LessThan(Zero, p) /\ LessThan(p, One) /\ trials <= DirectTrials ->
            Cardinality({i \in 1..trials : LessThan(us[i], p)})
       [] LessThan(Zero, p) /\ LessThan(p, One) /\ trials > DirectTrials ->
            IF flipped THEN trials - drawn ELSE drawn
=============================================================================

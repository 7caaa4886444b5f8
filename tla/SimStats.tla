------------------------------ MODULE SimStats ------------------------------
(* What a finished run reports of one output: its statistics (stats.rs),    *)
(* whether they have settled (convergence.rs), its histogram (shape.rs) and *)
(* which inputs drive it (sensitivity.rs).  Samples are values of Float.    *)
(* Square roots are never taken: a correlation is kept as its sign and its  *)
(* square, a standard error as its square.  The kernel density is kept to   *)
(* where it is empty: its curve is a matter of the chart.  TLC only.        *)
EXTENDS Float, FiniteSets

CONSTANTS
  FirstCheckpoint,   \* 1,000 in checkpoints_for
  MinForInterval,    \* 30 in Statistics::compute
  Bins,              \* DEFAULT_BINS, after its clamp
  CdfPoints,         \* CDF_POINTS
  DensityLimit       \* DENSITY_SAMPLE_LIMIT

None == [k |-> "none", n |-> 0, d |-> 1]
IsNone(x) == x.k = "none"

Sorted(samples) == SortSeq(samples, LessThan)

----------------------------------------------------------------------------
(* stats.rs *)

\* Linear interpolation between order statistics (R's type 7).
percentile(sorted, fraction) ==
  LET n == Len(sorted)
      within == MinOf(MaxOf(fraction, Num(0)), Num(1))
      position == Times(within, Num(n - 1))
      lower == FloorOf(position)
      weight == Difference(position, Num(lower))
  IN CASE n = 0 -> NaN
       [] n = 1 -> sorted[1]
       [] n > 1 /\ IsZero(weight) -> sorted[lower + 1]
       [] n > 1 /\ ~IsZero(weight) ->
            Plus(Times(sorted[lower + 1], Difference(Num(1), weight)),
                 Times(sorted[lower + 2], weight))

\* The length of the longest prefix P holds of: a binary search finds it in
\* a slice partitioned by P.
partition_point(s, P(_)) ==
  CHOOSE i \in 0..Len(s) : /\ \A k \in 1..i : P(s[k])
                           /\ i < Len(s) => ~P(s[i + 1])

ShareOf(sorted, P(_)) ==
  IF sorted = <<>> THEN NaN ELSE Frac(partition_point(sorted, P), Len(sorted))
share_at_most(sorted, v) == ShareOf(sorted, LAMBDA x : AtMost(x, v))
share_below(sorted, v) == ShareOf(sorted, LAMBDA x : LessThan(x, v))
share_at_least(sorted, v) == Difference(Num(1), share_below(sorted, v))

\* Welford's running mean and squared distance; the variance divides by n-1.
mean_and_variance(values) ==
  LET Step(acc, v) ==
        LET count == acc.count + 1
            delta == Difference(v, acc.mean)
            mean == Plus(acc.mean, Over(delta, Num(count)))
        IN [count |-> count, mean |-> mean,
            m2 |-> Plus(acc.m2, Times(delta, Difference(v, mean)))]
      end == FoldLeft(Step, [count |-> 0, mean |-> Num(0), m2 |-> Num(0)], values)
  IN <<end.mean, IF end.count < 2 THEN Num(0) ELSE Over(end.m2, Num(end.count - 1))>>

Percentiles == <<5, 10, 25, 50, 75, 90, 95, 99>>

\* Everything reported of one output.  An unset target or threshold is None,
\* never zero; the interval is None below MinForInterval samples.
compute(sorted, output) ==
  LET mv == mean_and_variance(sorted)
      standard_error2 == Over(mv[2], Num(Len(sorted)))
      enough == Len(sorted) >= MinForInterval
  IN [count |-> Len(sorted), mean |-> mv[1], variance |-> mv[2],
      median |-> percentile(sorted, Frac(1, 2)),
      min |-> IF sorted = <<>> THEN NaN ELSE Head(sorted),
      max |-> IF sorted = <<>> THEN NaN ELSE Last(sorted),
      p |-> [i \in DOMAIN Percentiles |-> percentile(sorted, Frac(Percentiles[i], 100))],
      probability_of_target |->
        IF IsNone(output.target) THEN None
        ELSE IF output.direction = "at_least" THEN share_at_least(sorted, output.target)
        ELSE share_at_most(sorted, output.target),
      probability_of_loss |-> share_below(sorted, Num(0)),
      below |-> IF IsNone(output.threshold) THEN None
                ELSE share_below(sorted, output.threshold),
      above |-> IF IsNone(output.threshold) THEN None
                ELSE share_at_least(sorted, output.threshold),
      interval |-> IF enough THEN standard_error2 ELSE None,
      relative_error2 |-> IF enough /\ ~IsZero(mv[1])
                          THEN Over(standard_error2, Square(mv[1])) ELSE None]

----------------------------------------------------------------------------
(* convergence.rs *)

\* Decades and their halves below the full count, and the full count.
checkpoints_for(iterations) ==
  LET RECURSIVE From(_)
      From(step) ==
        IF step >= iterations THEN <<iterations>>
        ELSE <<step>> \o (IF 5 * step < iterations THEN <<5 * step>> ELSE <<>>)
                      \o From(10 * step)
  IN From(FirstCheckpoint)

\* How far a statistic moved on the larger of its own scale and the spread.
relative_change(previous, current, spread) ==
  LET scale == MaxOf(MaxOf(AbsOf(previous), AbsOf(current)), AbsOf(spread))
  IN IF IsZero(scale) THEN Num(0) ELSE Over(AbsOf(Difference(current, previous)), scale)

CentreTolerance == Frac(1, 100)
TailTolerance == Frac(3, 100)

\* The state of the statistics after the first count samples.
Checkpoint(samples, count) ==
  LET prefix == Sorted(SubSeq(samples, 1, count))
  IN [iterations |-> count, mean |-> mean_and_variance(prefix)[1],
      median |-> percentile(prefix, Frac(1, 2)),
      p10 |-> percentile(prefix, Frac(10, 100)),
      p90 |-> percentile(prefix, Frac(90, 100))]

ConvergenceOf(samples) ==
  LET points == IF samples = <<>> THEN <<>> ELSE checkpoints_for(Len(samples))
      checkpoints == [i \in DOMAIN points |-> Checkpoint(samples, points[i])]
      last == checkpoints[Len(checkpoints)]
      previous == checkpoints[Len(checkpoints) - 1]
      spread == AbsOf(Difference(last.p90, last.p10))
      Moved(a, b) == relative_change(a, b, spread)
      centre == MaxOf(Moved(previous.mean, last.mean), Moved(previous.median, last.median))
      tails == MaxOf(Moved(previous.p10, last.p10), Moved(previous.p90, last.p90))
      stable == AtMost(centre, CentreTolerance) /\ AtMost(tails, TailTolerance)
  IN IF Len(checkpoints) < 2
     THEN [checkpoints |-> checkpoints, stable |-> FALSE, change |-> NaN,
           warning |-> "too few iterations"]
     ELSE [checkpoints |-> checkpoints, stable |-> stable, change |-> MaxOf(centre, tails),
           warning |-> IF stable THEN "none" ELSE "not settled"]

----------------------------------------------------------------------------
(* shape.rs *)

\* Where the density curve is drawn at all, and from how many samples.
DensityDrawn(sorted) ==
  LET iqr == Difference(percentile(sorted, Frac(3, 4)), percentile(sorted, Frac(1, 4)))
      variance == mean_and_variance(sorted)[2]
  IN /\ Len(sorted) >= 2
     /\ LessThan(Num(0), iqr) \/ LessThan(Num(0), variance)
gaussian_density(sorted) ==
  LET step == IF Len(sorted) \div DensityLimit < 1 THEN 1 ELSE Len(sorted) \div DensityLimit
  IN IF DensityDrawn(sorted)
     THEN SelectSeq([i \in 1..Len(sorted) |-> i], LAMBDA i : (i - 1) % step = 0)
     ELSE <<>>

\* Bars of equal width from the least sample to the largest, which falls in
\* the last bar; one bar when there is no width.
build(sorted) ==
  LET low == Head(sorted)
      high == Last(sorted)
      width == Over(Difference(high, low), Num(Bins))
      IndexOf(v) == LET i == FloorOf(Over(Difference(v, low), width))
                    IN IF i > Bins - 1 THEN Bins - 1 ELSE i
      CountOf(b) == Cardinality({i \in DOMAIN sorted : IndexOf(sorted[i]) = b - 1})
      Bar(from, to, count) ==
        [low |-> from, high |-> to, count |-> count, share |-> Frac(count, Len(sorted))]
  IN CASE sorted = <<>> -> [bins |-> <<>>, density |-> <<>>, cdf |-> <<>>]
       [] sorted # <<>> /\ ~LessThan(low, high) ->
            [bins |-> <<Bar(low, high, Len(sorted))>>, density |-> <<>>,
             cdf |-> <<<<low, Num(0)>>, <<low, Num(1)>>>>]
       [] sorted # <<>> /\ LessThan(low, high) ->
            [bins |-> [b \in 1..Bins |-> Bar(Plus(low, Times(width, Num(b - 1))),
                                             Plus(low, Times(width, Num(b))), CountOf(b))],
             density |-> gaussian_density(sorted),
             cdf |-> [i \in 1..CdfPoints |->
                        LET q == Frac(i - 1, CdfPoints - 1)
                        IN <<percentile(sorted, q), q>>]]

----------------------------------------------------------------------------
(* sensitivity.rs *)

\* Pearson's r as its sign and its square; None when either is constant.
correlation(xs, ys) ==
  LET n == Len(xs)
      mx == Over(SumOf(xs), Num(n))
      my == Over(SumOf(ys), Num(n))
      covariance == SumOf([i \in 1..n |-> Times(Difference(xs[i], mx), Difference(ys[i], my))])
      vx == SumOf([i \in 1..n |-> Square(Difference(xs[i], mx))])
      vy == SumOf([i \in 1..n |-> Square(Difference(ys[i], my))])
  IN IF n # Len(ys) \/ n < 2 THEN None
     ELSE IF AtMost(vx, Num(0)) \/ AtMost(vy, Num(0)) THEN None
     ELSE LET r2 == Over(Square(covariance), Times(vx, vy))
          IN [r2 EXCEPT !.n = @ * SignOf(covariance.n)]

\* Fractional ranks: a block of equal values shares its average rank.  The
\* block ends are found on the sorted order, as the loop finds them.
ranks(values) ==
  LET n == Len(values)
      order == SortSeq([i \in 1..n |-> i], LAMBDA a, b : LessThan(values[a], values[b]))
      RECURSIVE Blocks(_)
      Blocks(index) ==
        IF index > n THEN <<>>
        ELSE LET end == CHOOSE k \in index..n :
                          /\ \A m \in index..k : values[order[m]] = values[order[index]]
                          /\ k = n \/ values[order[k + 1]] # values[order[index]]
                 average == Frac(index + end, 2)
             IN [m \in 1..(end - index + 1) |-> average] \o Blocks(end + 1)
      ranked == Blocks(1)
  IN [i \in 1..n |-> ranked[CHOOSE m \in 1..n : order[m] = i]]

rank_correlation(xs, ys) ==
  IF Len(xs) # Len(ys) \/ Len(xs) < 2 THEN None ELSE correlation(ranks(xs), ranks(ys))

SquareOrZero(r) == IF IsNone(r) THEN Num(0) ELSE [r EXCEPT !.n = Magnitude(@)]

\* Shares of the squared rank correlations, most influential first; ids are
\* numbers here, in their order.
SensitivityOf(ids, input_samples, output_samples, referenced) ==
  LET Entry(i) ==
        [id |-> ids[i], referenced |-> referenced[i],
         correlation |-> IF referenced[i] THEN correlation(input_samples[i], output_samples)
                                          ELSE None,
         rank_correlation |-> IF referenced[i]
                              THEN rank_correlation(input_samples[i], output_samples)
                              ELSE None]
      entries == [i \in DOMAIN ids |-> Entry(i)]
      total == SumOf([i \in DOMAIN ids |-> SquareOrZero(entries[i].rank_correlation)])
      Share(en) == IF AtMost(total, Num(0)) THEN Num(0)
                   ELSE Over(SquareOrZero(en.rank_correlation), total)
      Before(a, b) == \/ LessThan(Share(b), Share(a))
                      \/ Share(a) = Share(b) /\ a.id < b.id
      ordered == SortSeq(entries, Before)
  IN [note |-> AtMost(total, Num(0)),
      inputs |-> [k \in DOMAIN ordered |->
                    [entry |-> ordered[k], share |-> Share(ordered[k]), rank |-> k]]]
=============================================================================

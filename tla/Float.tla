------------------------------- MODULE Float -------------------------------
(* The f64 arithmetic the simulation crate computes with, as far as its     *)
(* properties can tell: exact fractions, with NaN and the two infinities.   *)
(* Rounding, overflow and the sign of zero are left out; what is NaN, what  *)
(* is infinite and how they compare is not.  The code is Rust's standard    *)
(* library, modelled from how crates/simulate uses it.  TLC only.           *)
EXTENDS Integers, Sequences, SequencesExt

NaN == [k |-> "nan", n |-> 0, d |-> 1]
Inf(sign) == [k |-> "inf", n |-> sign, d |-> 1]

Magnitude(n) == IF n < 0 THEN -n ELSE n
SignOf(n) == IF n < 0 THEN -1 ELSE IF n = 0 THEN 0 ELSE 1

RECURSIVE Gcd(_, _)
Gcd(a, b) == IF b = 0 THEN a ELSE Gcd(b, a % b)

\* n over d, d not zero, in lowest terms with the sign above the line.
Frac(n, d) ==
  LET g == Gcd(Magnitude(n), Magnitude(d))
  IN [k |-> "num", n |-> SignOf(n) * SignOf(d) * (Magnitude(n) \div g),
      d |-> Magnitude(d) \div g]
Num(n) == Frac(n, 1)

IsNaN(v) == v.k = "nan"
IsZero(v) == v.k = "num" /\ v.n = 0

\* f64's order: NaN is related to nothing, itself included.
LessThan(a, b) ==
  /\ ~IsNaN(a) /\ ~IsNaN(b)
  /\ CASE a.k = "num" /\ b.k = "num" -> a.n * b.d < b.n * a.d
       [] a.k = "inf" -> a.n < 0 /\ ~(b.k = "inf" /\ b.n < 0)
       [] a.k = "num" /\ b.k = "inf" -> b.n > 0
Same(a, b) == ~IsNaN(a) /\ a = b
AtMost(a, b) == LessThan(a, b) \/ Same(a, b)

Minus(a) == IF IsNaN(a) THEN NaN ELSE [a EXCEPT !.n = -@]

Plus(a, b) ==
  CASE IsNaN(a) \/ IsNaN(b) -> NaN
    [] a.k = "num" /\ b.k = "num" -> Frac(a.n * b.d + b.n * a.d, a.d * b.d)
    [] a.k = "inf" /\ b.k = "inf" -> IF a = b THEN a ELSE NaN
    [] a.k = "inf" /\ b.k = "num" -> a
    [] a.k = "num" /\ b.k = "inf" -> b

Times(a, b) ==
  CASE IsNaN(a) \/ IsNaN(b) -> NaN
    [] a.k = "num" /\ b.k = "num" -> Frac(a.n * b.n, a.d * b.d)
    [] OTHER -> IF IsZero(a) \/ IsZero(b) THEN NaN
                ELSE Inf(SignOf(a.n) * SignOf(b.n))

\* Division by zero is an infinity, or NaN when the dividend is zero too.
Over(a, b) ==
  CASE IsNaN(a) \/ IsNaN(b) -> NaN
    [] a.k = "num" /\ b.k = "num" ->
         IF b.n # 0 THEN Frac(a.n * b.d, a.d * b.n)
         ELSE IF a.n # 0 THEN Inf(SignOf(a.n)) ELSE NaN
    [] a.k = "inf" /\ b.k = "num" -> Inf(a.n * (IF b.n < 0 THEN -1 ELSE 1))
    [] a.k = "num" /\ b.k = "inf" -> Num(0)
    [] a.k = "inf" /\ b.k = "inf" -> NaN

\* Toward zero, as Rust's % on floats takes its quotient.
Truncated(v) == SignOf(v.n) * (Magnitude(v.n) \div v.d)
Remainder(a, b) ==
  CASE IsNaN(a) \/ IsNaN(b) \/ a.k = "inf" \/ IsZero(b) -> NaN
    [] a.k = "num" /\ b.k = "inf" -> a
    [] OTHER -> Plus(a, Minus(Times(b, Num(Truncated(Over(a, b))))))

\* powf at whole exponents; x^0 is 1 even for NaN.
RECURSIVE Raised(_, _)
Raised(a, n) == IF n = 0 THEN Num(1) ELSE Times(a, Raised(a, n - 1))
Power(a, b) ==
  CASE IsZero(b) -> Num(1)
    [] ~IsZero(b) /\ (IsNaN(a) \/ IsNaN(b)) -> IF Same(a, Num(1)) THEN a ELSE NaN
    [] b.k = "num" /\ b.n # 0 /\ b.d = 1 /\ ~IsNaN(a) ->
         IF b.n > 0 THEN Raised(a, b.n) ELSE Over(Num(1), Raised(a, -b.n))

Whole(v, Rounding(_)) == IF v.k = "num" THEN Num(Rounding(v)) ELSE v
FloorOf(v) == v.n \div v.d
RoundOf(v) == SignOf(v.n) * ((2 * Magnitude(v.n) + v.d) \div (2 * v.d))

\* min and max return the other argument when one is NaN.
MinOf(a, b) == IF IsNaN(a) THEN b ELSE IF IsNaN(b) \/ AtMost(a, b) THEN a ELSE b
MaxOf(a, b) == IF IsNaN(a) THEN b ELSE IF IsNaN(b) \/ AtMost(b, a) THEN a ELSE b

\* The four that leave the fractions, at the arguments where they do not:
\* squares for sqrt, 0 for exp, 1 for the logarithms, and the edges of f64.
Transcendental(f, a) ==
  LET below == LessThan(a, Num(0))
  IN CASE IsNaN(a) \/ (f # "exp" /\ below) -> NaN
       [] f = "exp" /\ IsZero(a) -> Num(1)
       [] f = "exp" /\ a.k = "inf" -> IF below THEN Num(0) ELSE a
       [] f = "sqrt" /\ a.k = "num" /\ ~below ->
            [a EXCEPT !.n = CHOOSE r \in 0..a.n : r * r = a.n,
                      !.d = CHOOSE r \in 1..a.d : r * r = a.d]
       [] f # "exp" /\ a.k = "inf" /\ ~below -> a
       [] f \in {"ln", "log10"} /\ IsZero(a) -> Inf(-1)
       [] f \in {"ln", "log10"} /\ Same(a, Num(1)) -> Num(0)

Square(a) == Times(a, a)
Difference(a, b) == Plus(a, Minus(b))
AbsOf(a) == IF LessThan(a, Num(0)) THEN Minus(a) ELSE a
IsFinite(a) == a.k = "num"

SumOf(values) == FoldLeft(LAMBDA sum, v : Plus(sum, v), Num(0), values)
=============================================================================

-------------------------- MODULE MCStartAnalysis --------------------------
(* A buyer with two orders who presses the button twice for the first one, *)
(* once for the second, and once without any.                              *)
EXTENDS StartAnalysis, TLC

CONSTANTS o1, o2, r1, r2, r3, r4

MCOrders == {o1, o2}
MCRequests == {r1, r2, r3, r4}
MCOrderOf == r1 :> o1 @@ r2 :> o1 @@ r3 :> o2 @@ r4 :> None

\* The two requests for the first order are alike.
Symmetry == Permutations({r1, r2})

=============================================================================

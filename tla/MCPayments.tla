----------------------------- MODULE MCPayments -----------------------------
(* Two orders, a callback handler and a sweeper.                           *)
EXTENDS Payments, TLC

CONSTANTS o1, o2, a1, a2, c1, s1

MCOrders == {o1, o2}
MCAnalyses == {a1, a2}

\* Analysis ids are drawn at random, so any two are alike.
Symmetry == Permutations(MCAnalyses)

=============================================================================

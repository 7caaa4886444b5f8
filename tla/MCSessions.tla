----------------------------- MODULE MCSessions -----------------------------
(***************************************************************************)
(* Sessions for TLC: four overlapping requests on one user's sessions.     *)
(***************************************************************************)
EXTENDS Sessions, TLC

MCSymmetry == Permutations(Requests)
=============================================================================

-------------------------- MODULE MCNotifications --------------------------
(* Two notifications and two delivery workers, with three attempts each.   *)
EXTENDS Notifications, TLC

CONSTANTS n1, n2, w1, w2

MCNotices == {n1, n2}
MCWorkers == {w1, w2}

\* Nothing tells two workers, or two notifications, apart.
Symmetry == Permutations(MCNotices) \cup Permutations(MCWorkers)

=============================================================================

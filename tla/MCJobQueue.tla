----------------------------- MODULE MCJobQueue -----------------------------
(* A small instance of JobQueue: an analysis and a simulation, with two    *)
(* attempts each, share two workers.  The checks of the delay between      *)
(* attempts are RetryDelay's own.                                          *)
EXTENDS JobQueue, RetryDelay, TLC

CONSTANTS a1, s1, w1, w2, host1, host2

MCJobs == {a1, s1}
MCWorkers == {w1, w2}
MCIds == {host1, host2}
MCKind == a1 :> "analysis" @@ s1 :> "simulation"
MCMaxAttempts == [j \in MCJobs |-> 2]

\* A pod's HOSTNAME is its own.
OwnHostname == w1 :> host1 @@ w2 :> host2

=============================================================================

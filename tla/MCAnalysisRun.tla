--------------------------- MODULE MCAnalysisRun ---------------------------
(* One analysis with two attempts, and two workers that may both be running *)
(* it when a lease is lost.                                                 *)
EXTENDS AnalysisRun, TLC

CONSTANTS a1, w1, w2, host1, host2

MCJobs == {a1}
MCWorkers == {w1, w2}
MCIds == {host1, host2}
MCKind == [j \in MCJobs |-> "analysis"]
MCMaxAttempts == [j \in MCJobs |-> 2]
MCIdOf == w1 :> host1 @@ w2 :> host2

=============================================================================

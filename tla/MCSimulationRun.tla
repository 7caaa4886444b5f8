--------------------------- MODULE MCSimulationRun ---------------------------
(* One run, inline or queued, with two attempts, and two workers that may   *)
(* both be computing it when a lease is lost.  The run also evaluates what   *)
(* SimulationChecks says of the engine the workers call.                    *)
EXTENDS SimulationRun, SimulationChecks, TLC

CONSTANTS s1, w1, w2, host1, host2

MCJobs == {s1}
MCWorkers == {w1, w2}
MCIds == {host1, host2}
MCKind == [j \in MCJobs |-> "simulation"]
MCMaxAttempts == [j \in MCJobs |-> 2]
MCIdOf == w1 :> host1 @@ w2 :> host2

=============================================================================

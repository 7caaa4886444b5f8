---------------------------- MODULE SimulationRun ----------------------------
(***************************************************************************)
(* Monte Carlo runs, the queue's second user: the routes that start and    *)
(* cancel one (apps/api/src/simulation_routes.rs), the worker that carries *)
(* it out (workers/analysis-worker/src/simulation.rs) and the updates of   *)
(* simulation_runs they share (crates/store/src/simulations.rs).           *)
(*                                                                         *)
(* A run and its job are one identifier: the job's key is derived from the *)
(* run.  Each transaction is one action; a row that is read and updated in *)
(* one transaction is two, since the read takes no lock.  The iteration    *)
(* count that progress reports write is left out.                          *)
(***************************************************************************)
EXTENDS JobQueue

ASSUME OnlySimulations == \A j \in Jobs : Kind[j] = "simulation"

VARIABLES
  run,         \* simulation_runs.state ("absent": no row yet)
  cancelReq,   \* simulation_runs.cancel_requested
  stats,       \* runs with rows in simulation_statistics and its siblings
  execution,   \* simulation_runs.execution
  verdict,     \* what the engine makes of this model and seed if let finish
  request,     \* the handler of the run's POST: where it is
  phase,       \* where a worker is inside its run
  stopFlag     \* RunControl.cancelled of the worker's run

simVars == <<run, cancelReq, stats, execution, verdict, request, phase,
             stopFlag>>
rowVars == <<run, cancelReq, stats>>
fixed   == <<execution, verdict>>
allVars == <<state, attempt, leasedBy, lease, due, trail, deadLetters,
             loop, held, heldAttempt, outcome, beating,
             run, cancelReq, stats, execution, verdict, request, phase,
             stopFlag>>

IsTerminal(s) == s \in {"succeeded", "failed", "cancelled"}

Verdicts == {"finishes", "fails", "panics"}

\* The values the columns and the processes take.
SimTypeOK ==
  /\ TypeOK
  /\ run \in [Jobs -> {"absent", "queued", "running", "succeeded", "failed",
                       "cancelled"}]
  /\ cancelReq \in [Jobs -> BOOLEAN]
  /\ stats \subseteq Jobs
  /\ execution \in [Jobs -> {"none", "inline", "queued"}]
  /\ verdict \in [Jobs -> Verdicts \cup {"none"}]
  /\ request \in [Jobs -> {"none", "created", "computing", "over"}]
  /\ phase \in [Workers -> {"idle", "load", "mark", "compile", "engine",
                            "cancel", "complete", "fail", "panic",
                            "returning"}]
  /\ stopFlag \in [Workers -> BOOLEAN]

SimInit ==
  /\ Init
  /\ run = [j \in Jobs |-> "absent"]
  /\ cancelReq = [j \in Jobs |-> FALSE]
  /\ stats = {}
  /\ execution = [j \in Jobs |-> "none"]
  /\ verdict = [j \in Jobs |-> "none"]
  /\ request = [j \in Jobs |-> "none"]
  /\ phase = [w \in Workers |-> "idle"]
  /\ stopFlag = [w \in Workers |-> FALSE]

-----------------------------------------------------------------------------
(* The row's updates.                                                      *)

\* complete_run: state and statistics in one transaction.  Its WHERE clause
\* names the row and no state.
CompleteRun(j) ==
  /\ run' = [run EXCEPT ![j] = "succeeded"]
  /\ stats' = stats \cup {j}
  /\ UNCHANGED cancelReq

\* fail_run.
FailRun(j) ==
  /\ run' = [run EXCEPT ![j] = IF @ \in {"succeeded", "cancelled"} THEN @
                               ELSE "failed"]
  /\ UNCHANGED <<cancelReq, stats>>

\* Mutants of CancelRun: no state in the WHERE clause; only a run already
\* marked running is stopped; a failed run may be cancelled; the state is
\* spelled as the column's CHECK would not have it.
CancelAnyRun(j) ==
  /\ run' = [run EXCEPT ![j] = "cancelled"]
  /\ UNCHANGED <<cancelReq, stats>>

CancelRunning(j) ==
  /\ run' = [run EXCEPT ![j] = IF @ = "running" THEN "cancelled" ELSE @]
  /\ UNCHANGED <<cancelReq, stats>>

CancelFailed(j) ==
  /\ run' = [run EXCEPT ![j] = IF @ = "succeeded" THEN @ ELSE "cancelled"]
  /\ UNCHANGED <<cancelReq, stats>>

CancelMisspelt(j) ==
  /\ run' = [run EXCEPT ![j] = IF @ \in {"succeeded", "failed"} THEN @
                               ELSE "canceled"]
  /\ UNCHANGED <<cancelReq, stats>>

\* cancel_run.
CancelRun(j) ==
  /\ run' = [run EXCEPT ![j] = IF @ \in {"succeeded", "failed"} THEN @
                               ELSE "cancelled"]
  /\ UNCHANGED <<cancelReq, stats>>

-----------------------------------------------------------------------------
(* The API.                                                                *)

\* Everything the routes leave alone.
WorkersUnchanged == UNCHANGED <<phase, stopFlag>> /\ UNCHANGED process

\* start creates the row and commits.  The size of the run decides where it
\* executes, its model and seed what the engine will make of it.
StartRun(j, x, v) ==
  /\ request[j] = "none"
  /\ request' = [request EXCEPT ![j] = "created"]
  /\ run' = [run EXCEPT ![j] = "queued"]
  /\ execution' = [execution EXCEPT ![j] = x]
  /\ verdict' = [verdict EXCEPT ![j] = v]
  /\ UNCHANGED <<cancelReq, stats, tables>>
  /\ WorkersUnchanged

Over(j) == request' = [request EXCEPT ![j] = "over"]

\* A large run is handed to the queue, in a transaction of its own.
EnqueueRun(j) ==
  /\ request[j] = "created" /\ execution[j] = "queued"
  /\ Enqueue(j)
  /\ Over(j)
  /\ UNCHANGED <<rowVars, fixed, phase, stopFlag>>

\* A small one takes a slot and computes inside the request ...
TakeSlot(j) ==
  /\ request[j] = "created" /\ execution[j] = "inline"
  /\ request' = [request EXCEPT ![j] = "computing"]
  /\ UNCHANGED <<rowVars, fixed, tables>>
  /\ WorkersUnchanged

\* ... or finds every slot of the process taken, by whichever companies.
RefuseBusy(j) ==
  /\ request[j] = "created" /\ execution[j] = "inline"
  /\ FailRun(j)
  /\ Over(j)
  /\ UNCHANGED <<fixed, tables>>
  /\ WorkersUnchanged

\* The engine's answer within the deadline: mark_run_running (whose effect
\* complete_run covers) and complete_run commit together.
InlineCompletes(j) ==
  /\ request[j] = "computing" /\ verdict[j] = "finishes"
  /\ CompleteRun(j)
  /\ Over(j)
  /\ UNCHANGED <<fixed, tables>>
  /\ WorkersUnchanged

\* An engine error, or the deadline: any run may be too slow for it.
InlineFails(j) ==
  /\ request[j] = "computing"
  /\ FailRun(j)
  /\ Over(j)
  /\ UNCHANGED <<fixed, tables>>
  /\ WorkersUnchanged

\* The handler ends before its next write: a database or queue error, a
\* panic of the engine, a disconnected client, a dying process.
RequestDies(j) ==
  /\ request[j] \in {"created", "computing"}
  /\ Over(j)
  /\ UNCHANGED <<rowVars, fixed, tables>>
  /\ WorkersUnchanged

\* The cancel route.  A finished run is left as it is.
RequestCancel(j) ==
  /\ run[j] \in {"queued", "running"}
  /\ ~cancelReq[j]
  /\ cancelReq' = [cancelReq EXCEPT ![j] = TRUE]
  /\ UNCHANGED <<run, stats, request, fixed, tables>>
  /\ WorkersUnchanged

-----------------------------------------------------------------------------
(* One run in a worker.                                                    *)

InRun(w, p) == loop[w] = "run" /\ phase[w] = p

GoTo(w, p) == phase' = [phase EXCEPT ![w] = p]

\* run returns its Result and drops its RunControl.
Return(w, o) ==
  /\ RunReturns(w, o)
  /\ GoTo(w, "returning")
  /\ stopFlag' = [stopFlag EXCEPT ![w] = FALSE]

\* What a worker leaves alone while it is inside a run.
Elsewhere == UNCHANGED <<request, fixed>>

ClaimRun(w) ==
  /\ \E j \in Jobs : ClaimSimulation(w, j)
  /\ GoTo(w, "load")
  /\ UNCHANGED <<rowVars, request, fixed, stopFlag>>

\* should_run.
ShouldRun(s, c) == ~IsTerminal(s) /\ ~c

\* The row is read and should_run decides: carry it out, report the job of a
\* finished run complete, or stop one cancelled before it was picked up.
LoadRun(w) ==
  /\ InRun(w, "load")
  /\ LET j == held[w] IN
     \/ /\ ShouldRun(run[j], cancelReq[j])
        /\ GoTo(w, "mark")
        /\ UNCHANGED <<stopFlag, tables, process>>
     \/ /\ ~ShouldRun(run[j], cancelReq[j]) /\ IsTerminal(run[j])
        /\ Return(w, "ok")
     \/ /\ ~ShouldRun(run[j], cancelReq[j]) /\ ~IsTerminal(run[j])
        /\ GoTo(w, "cancel")
        /\ UNCHANGED <<stopFlag, tables, process>>
  /\ UNCHANGED rowVars
  /\ Elsewhere

\* An error of the run's lookup, or of the lookup of its version, is taken to
\* mean that the row is gone; a model that no longer parses or compiles is
\* found out after the row was marked.  The row hears of none of them.
Refuse(w) ==
  /\ \E p \in {"load", "mark", "compile"} : InRun(w, p)
  /\ Return(w, "permanent")
  /\ UNCHANGED rowVars
  /\ Elsewhere

\* The database cannot be reached at one of the run's transactions.
StoreUnavailable(w) ==
  /\ \E p \in {"load", "mark", "cancel", "complete", "fail"} : InRun(w, p)
  /\ Return(w, "transient")
  /\ UNCHANGED rowVars
  /\ Elsewhere

\* mark_run_running commits, or commits and the answer is lost.
MarkRunning(w) ==
  /\ InRun(w, "mark")
  /\ run' = [run EXCEPT ![held[w]] = IF @ = "queued" THEN "running" ELSE @]
  /\ \/ GoTo(w, "compile") /\ UNCHANGED <<stopFlag, tables, process>>
     \/ Return(w, "transient")
  /\ UNCHANGED <<cancelReq, stats>>
  /\ Elsewhere

\* Engine and watcher start, on a new RunControl.
StartEngine(w) ==
  /\ InRun(w, "compile")
  /\ stopFlag' = [stopFlag EXCEPT ![w] = FALSE]
  /\ GoTo(w, "engine")
  /\ UNCHANGED <<rowVars, tables, process>>
  /\ Elsewhere

\* Mutant of Watch: an error of the poll stops the run.
WatchBlip(w) ==
  /\ InRun(w, "engine")
  /\ ~stopFlag[w]
  /\ stopFlag' = [stopFlag EXCEPT ![w] = TRUE]
  /\ UNCHANGED <<rowVars, phase, tables, process>>
  /\ Elsewhere

\* The watcher's tick: report_run_progress brings back cancel_requested.
Watch(w) ==
  /\ InRun(w, "engine")
  /\ cancelReq[held[w]] /\ ~stopFlag[w]
  /\ stopFlag' = [stopFlag EXCEPT ![w] = TRUE]
  /\ UNCHANGED <<rowVars, phase, tables, process>>
  /\ Elsewhere

\* The engine stops at a batch boundary if the flag is up, and otherwise ends
\* as its model and seed decide.  It may end before it looks at the flag.
EngineEnds(w) ==
  /\ InRun(w, "engine")
  /\ \/ stopFlag[w] /\ GoTo(w, "cancel")
     \/ verdict[held[w]] = "finishes" /\ GoTo(w, "complete")
     \/ verdict[held[w]] = "fails" /\ GoTo(w, "fail")
     \/ verdict[held[w]] = "panics" /\ GoTo(w, "panic")
  /\ UNCHANGED <<rowVars, stopFlag, tables, process>>
  /\ Elsewhere

\* A COMMIT that is applied: acknowledged, or its answer lost on the way.
Committed(w, o) == Return(w, o) \/ Return(w, "transient")

\* complete_run, the audit entry and the commit.  When another worker has
\* stored this run's statistics their primary key refuses a second set, and
\* the whole transaction is undone.
WriteCompletion(w) ==
  /\ InRun(w, "complete")
  /\ \/ /\ held[w] \notin stats
        /\ CompleteRun(held[w])
        /\ Committed(w, "ok")
     \/ /\ held[w] \in stats
        /\ Return(w, "transient")
        /\ UNCHANGED rowVars
  /\ Elsewhere

\* Cancelled, before the engine started or by it: a completed job.
WriteCancellation(w) ==
  /\ InRun(w, "cancel")
  /\ CancelRun(held[w])
  /\ Committed(w, "ok")
  /\ Elsewhere

WriteFailure(w) ==
  /\ InRun(w, "fail")
  /\ FailRun(held[w])
  /\ Committed(w, "permanent")
  /\ Elsewhere

\* After a panic the row is told if the database can be reached.
WritePanic(w) ==
  /\ InRun(w, "panic")
  /\ FailRun(held[w]) \/ UNCHANGED rowVars
  /\ Return(w, "permanent")
  /\ Elsewhere

-----------------------------------------------------------------------------
(* The report.  Of a dead letter the loop tells analysis_jobs, where a     *)
(* simulation has no row: simulation_runs does not hear of it.             *)

BackToIdle(w) ==
  /\ GoTo(w, "idle")
  /\ stopFlag' = [stopFlag EXCEPT ![w] = FALSE]
  /\ UNCHANGED rowVars
  /\ Elsewhere

ReportRun(w) ==
  /\ phase[w] = "returning"
  /\ Report(w) \/ ReportLost(w)
  /\ BackToIdle(w)

Die(w) == Crash(w) /\ BackToIdle(w)

-----------------------------------------------------------------------------
\* The queue on its own.  Nothing calls its cancel for a simulation.
QueueStep ==
  /\ \/ \E j \in Jobs : LeaseExpires(j)
     \/ \E j \in Jobs : BackoffElapses(j)
     \/ ReleaseElapsedBackoffs
     \/ \E reaped \in SUBSET ExpiredLeases : ReapExpiredLeases(reaped)
     \/ \E w \in Workers : NoAnalysisWaiting(w)
     \/ \E w \in Workers : NoSimulationWaiting(w)
     \/ \E w \in Workers : Heartbeat(w)
     \/ \E w \in Workers : HeartbeatError(w)
  /\ UNCHANGED simVars

ApiStep(j) ==
  \/ \E x \in {"inline", "queued"}, v \in Verdicts : StartRun(j, x, v)
  \/ EnqueueRun(j)
  \/ TakeSlot(j)
  \/ RefuseBusy(j)
  \/ InlineCompletes(j)
  \/ InlineFails(j)
  \/ RequestDies(j)
  \/ RequestCancel(j)

RunStep(w) ==
  \/ ClaimRun(w)
  \/ LoadRun(w)
  \/ Refuse(w)
  \/ StoreUnavailable(w)
  \/ MarkRunning(w)
  \/ StartEngine(w)
  \/ Watch(w)
  \/ EngineEnds(w)
  \/ WriteCompletion(w)
  \/ WriteCancellation(w)
  \/ WriteFailure(w)
  \/ WritePanic(w)
  \/ ReportRun(w)
  \/ Die(w)

SimNext ==
  \/ QueueStep
  \/ \E j \in Jobs : ApiStep(j)
  \/ \E w \in Workers : RunStep(w)

SimSpec == SimInit /\ [][SimNext]_allVars

-----------------------------------------------------------------------------
(* Properties.                                                             *)

\* "a run marked succeeded with no statistics beside it would be a result
\* nobody could read" (complete_run): the two go together, and stay together
\* when two workers finish, fail and cancel one run in any order.
StatisticsIffSucceeded ==
  \A j \in Jobs : j \in stats <=> run[j] = "succeeded"

\* A finished run keeps its state, however many workers compute it, with one
\* exception: a run that one worker stopped on request may still be completed
\* by another, who was computing it too and finished before its next poll.
FinishedRunsKeepState ==
  [][\A j \in Jobs : IsTerminal(run[j]) =>
       \/ run'[j] = run[j]
       \/ run[j] = "cancelled" /\ run'[j] = "succeeded"]_allVars

\* A job reported as done has left its run finished, whichever of the three
\* ways to report success it took: no browser polls a run that nobody will
\* touch again while the queue counts the work as done.
JobDoneMeansRunDone ==
  \A j \in Jobs : state[j] = "succeeded" => IsTerminal(run[j])

\* A run is cancelled only if somebody asked for that: "a database blip must
\* not cancel a run in flight" (the watcher), nor does a retry or an error.
CancelledOnlyOnRequest ==
  \A j \in Jobs : run[j] = "cancelled" => cancelReq[j]

=============================================================================

----------------------------- MODULE AnalysisRun -----------------------------
(***************************************************************************)
(* What a job does to the row a customer polls: the analysis worker's      *)
(* Runner (workers/analysis-worker/src/runner.rs) writing analysis_jobs    *)
(* through crates/store, on top of the job queue.                          *)
(*                                                                         *)
(* The job and the analysis it is about are one identifier here.  Each     *)
(* transaction of a run is one action, so a crash, a lost lease or another *)
(* worker's run of the same job can fall between any two of them.          *)
(***************************************************************************)
EXTENDS JobQueue

ASSUME OnlyAnalyses == \A j \in Jobs : Kind[j] = "analysis"

VARIABLES
  status,       \* analysis_jobs.status
  stage,        \* analysis_jobs.stage: "queued", "working" or "done"
  results,      \* how many runs' result, facts and opportunities are stored
  notices,      \* analyses with a row in notifications (dedupe key: their id)
  rolledBack,   \* analyses whose result a COMMIT undid (history)
  stageWrites,  \* set_stage tasks spawned by the observer and not yet run
  phase         \* where a worker is inside its run

analysis == <<status, stage, results, notices, rolledBack, stageWrites>>
runVars  == <<status, stage, results, notices, rolledBack, stageWrites, phase>>
allVars  == <<state, attempt, leasedBy, lease, due, trail, deadLetters,
              loop, held, heldAttempt, outcome, beating,
              status, stage, results, notices, rolledBack, stageWrites, phase>>

Phases == {"idle", "inputs", "pipeline", "write", "tell", "returning",
           "tellDeadLetter"}

\* The types of the row's columns and of the worker's position.
RunTypeOK ==
  /\ TypeOK
  /\ status \in [Jobs -> {"pending", "running", "succeeded", "failed"}]
  /\ stage \in [Jobs -> {"queued", "working", "done"}]
  /\ results \in [Jobs -> Nat]
  /\ notices \subseteq Jobs
  /\ rolledBack \subseteq Jobs
  /\ stageWrites \in [Jobs -> SUBSET {"working", "done"}]
  /\ phase \in [Workers -> Phases]

\* create_analysis has committed every row before its job can be enqueued.
RunInit ==
  /\ Init
  /\ status = [j \in Jobs |-> "pending"]
  /\ stage = [j \in Jobs |-> "queued"]
  /\ results = [j \in Jobs |-> 0]
  /\ notices = {}
  /\ rolledBack = {}
  /\ stageWrites = [j \in Jobs |-> {}]
  /\ phase = [w \in Workers |-> "idle"]

-----------------------------------------------------------------------------
(* The row's updates.                                                      *)

\* Mutant of CompleteAnalysis: the notification is forgotten.
CompleteSilently(j) ==
  /\ status' = [status EXCEPT ![j] = "succeeded"]
  /\ stage' = [stage EXCEPT ![j] = "done"]
  /\ results' = [results EXCEPT ![j] = results[j] + 1]
  /\ UNCHANGED notices

\* complete_analysis with insert_facts and enqueue_notification: one commit.
CompleteAnalysis(j) ==
  /\ status' = [status EXCEPT ![j] = "succeeded"]
  /\ stage' = [stage EXCEPT ![j] = "done"]
  /\ results' = [results EXCEPT ![j] = results[j] + 1]
  /\ notices' = notices \cup {j}

\* fail_analysis: unconditional, and leaves an earlier result in place.
FailAnalysis(j) ==
  /\ status' = [status EXCEPT ![j] = "failed"]
  /\ UNCHANGED <<stage, results, notices>>

\* Mutants of SetStage: every row becomes running; the stage is written to
\* the status column.
SetStageAlwaysRunning(j, s) ==
  /\ stage' = [stage EXCEPT ![j] = s]
  /\ status' = [status EXCEPT ![j] = "running"]
  /\ UNCHANGED <<results, notices>>

SetStageInStatus(j, s) ==
  /\ status' = [status EXCEPT ![j] = s]
  /\ UNCHANGED <<stage, results, notices>>

\* set_stage: any stage, but only a pending row becomes running.
SetStage(j, s) ==
  /\ stage' = [stage EXCEPT ![j] = s]
  /\ status' = [status EXCEPT ![j] = IF status[j] = "pending" THEN "running"
                                     ELSE status[j]]
  /\ UNCHANGED <<results, notices>>

-----------------------------------------------------------------------------
(* One run.                                                                *)

GoTo(w, p) == phase' = [phase EXCEPT ![w] = p]

InRun(w, p) == loop[w] = "run" /\ phase[w] = p

\* execute has produced its Result; the loop takes it from there.
Return(w, o) ==
  /\ RunReturns(w, o)
  /\ GoTo(w, "returning")

ClaimJob(w) ==
  /\ \E j \in Jobs : ClaimAnalysis(w, j)
  /\ GoTo(w, "inputs")
  /\ UNCHANGED analysis

\* The inputs are read, the budget opened, the documents fetched and checked.
InputsRead(w) ==
  /\ InRun(w, "inputs")
  /\ GoTo(w, "pipeline")
  /\ UNCHANGED <<analysis, tables, process>>

\* The database or a blob cannot be reached.
InputsUnavailable(w) ==
  /\ InRun(w, "inputs")
  /\ Return(w, "transient")
  /\ UNCHANGED analysis

\* The company, the analysis or a document version is missing, a hash does
\* not match, a document cannot be read, or the budget is spent: a permanent
\* failure returned without a word to the row.
InputsRefused(w) ==
  /\ InRun(w, "inputs")
  /\ Return(w, "permanent")
  /\ UNCHANGED analysis

\* The pipeline reports a stage: a task is spawned and not waited for.
StageReported(w, s) ==
  /\ InRun(w, "pipeline")
  /\ s \notin stageWrites[held[w]]
  /\ stageWrites' = [stageWrites EXCEPT ![held[w]] = @ \cup {s}]
  /\ UNCHANGED <<status, stage, results, notices, rolledBack, phase, tables,
                 process>>

\* A spawned set_stage task runs.  Tasks are not ordered.
StageWritten(j, s) ==
  /\ s \in stageWrites[j]
  /\ SetStage(j, s)
  /\ stageWrites' = [stageWrites EXCEPT ![j] = @ \ {s}]
  /\ UNCHANGED <<rolledBack, phase, tables, process>>

\* A spawned task that cannot reach the database is forgotten.
StageForgotten(j, s) ==
  /\ s \in stageWrites[j]
  /\ stageWrites' = [stageWrites EXCEPT ![j] = @ \ {s}]
  /\ UNCHANGED <<status, stage, results, notices, rolledBack, phase, tables,
                 process>>

\* The last stage the pipeline reports is Done.
PipelineSucceeds(w) ==
  /\ InRun(w, "pipeline")
  /\ GoTo(w, "write")
  /\ stageWrites' = [stageWrites EXCEPT ![held[w]] = @ \cup {"done"}]
  /\ UNCHANGED <<status, stage, results, notices, rolledBack, tables, process>>

PipelineFailsForNow(w) ==
  /\ InRun(w, "pipeline")
  /\ Return(w, "transient")
  /\ UNCHANGED analysis

PipelineFailsForGood(w) ==
  /\ InRun(w, "pipeline")
  /\ GoTo(w, "tell")
  /\ UNCHANGED <<analysis, tables, process>>

\* The customer is told of a permanent failure before the queue is.
TellFailure(w) ==
  /\ InRun(w, "tell")
  /\ FailAnalysis(held[w])
  /\ Return(w, "permanent")
  /\ UNCHANGED <<rolledBack, stageWrites>>

\* Errors of that transaction are ignored.
FailureUntold(w) ==
  /\ InRun(w, "tell")
  /\ Return(w, "permanent")
  /\ UNCHANGED analysis

WriteResult(w) ==
  /\ InRun(w, "write")
  /\ CompleteAnalysis(held[w])
  /\ Return(w, "ok")
  /\ UNCHANGED <<rolledBack, stageWrites>>

\* Mutant of WriteFails: the error of the result's transaction is swallowed.
WriteFailsQuietly(w) ==
  /\ InRun(w, "write")
  /\ Return(w, "ok")
  /\ UNCHANGED analysis

WriteFails(w) ==
  /\ InRun(w, "write")
  /\ Return(w, "transient")
  /\ UNCHANGED analysis

\* enqueue_notification fails in the database and the error is swallowed.
\* PostgreSQL has aborted the transaction, so the COMMIT that follows rolls
\* everything back and still reports no error.
NotificationAbortsWrite(w) ==
  /\ InRun(w, "write")
  /\ Return(w, "ok")
  /\ rolledBack' = rolledBack \cup {held[w]}
  /\ UNCHANGED <<status, stage, results, notices, stageWrites>>

-----------------------------------------------------------------------------
(* The report.                                                             *)

\* Mutant of DeadLetters: decided from the worker's copy alone.
DeadLettersUnheld(w) ==
  EventFor(held[w], heldAttempt[w], outcome[w]) = "attempts_exhausted"

DeadLetters(w) ==
  /\ HoldsLease(w, held[w])
  /\ EventFor(held[w], heldAttempt[w], outcome[w]) = "attempts_exhausted"

ReportOutcome(w) ==
  /\ phase[w] = "returning" /\ ~DeadLetters(w)
  /\ Report(w)
  /\ GoTo(w, "idle")
  /\ UNCHANGED analysis

\* fail returned DeadLettered: the row is the loop's to finish.  The queue's
\* transaction and the row's are two.
ReportDeadLetter(w) ==
  /\ loop[w] = "report" /\ phase[w] = "returning" /\ DeadLetters(w)
  /\ Finish(held[w], heldAttempt[w], "attempts_exhausted")
  /\ GoTo(w, "tellDeadLetter")
  /\ UNCHANGED <<analysis, process>>

TellDeadLetter(w) ==
  /\ loop[w] = "report" /\ phase[w] = "tellDeadLetter"
  /\ \/ FailAnalysis(held[w])
     \/ UNCHANGED <<status, stage, results, notices>>
  /\ UNCHANGED <<rolledBack, stageWrites>>
  /\ BackToPolling(w)
  /\ GoTo(w, "idle")
  /\ UNCHANGED tables

\* The report fails without reaching the database, or its COMMIT is applied
\* and the acknowledgement lost: logged either way, and nobody is told.
ReportError(w) ==
  /\ phase[w] = "returning"
  /\ ReportLost(w) \/ Report(w)
  /\ GoTo(w, "idle")
  /\ UNCHANGED analysis

\* The process dies.  Spawned stage writes may die with it (StageForgotten).
Die(w) ==
  /\ Crash(w)
  /\ GoTo(w, "idle")
  /\ UNCHANGED analysis

-----------------------------------------------------------------------------
QueueStep ==
  /\ \/ \E j \in Jobs : Enqueue(j)
     \/ \E j \in Jobs : Cancel(j)
     \/ \E j \in Jobs : LeaseExpires(j)
     \/ \E j \in Jobs : BackoffElapses(j)
     \/ ReleaseElapsedBackoffs
     \/ \E reaped \in SUBSET ExpiredLeases : ReapExpiredLeases(reaped)
     \/ \E w \in Workers : NoAnalysisWaiting(w)
     \/ \E w \in Workers : NoSimulationWaiting(w)
     \/ \E w \in Workers : Heartbeat(w)
     \/ \E w \in Workers : HeartbeatError(w)
  /\ UNCHANGED runVars

RunStep(w) ==
  \/ ClaimJob(w)
  \/ InputsRead(w)
  \/ InputsUnavailable(w)
  \/ InputsRefused(w)
  \/ StageReported(w, "working")
  \/ PipelineSucceeds(w)
  \/ PipelineFailsForNow(w)
  \/ PipelineFailsForGood(w)
  \/ TellFailure(w)
  \/ FailureUntold(w)
  \/ WriteResult(w)
  \/ WriteFails(w)
  \/ NotificationAbortsWrite(w)
  \/ ReportOutcome(w)
  \/ ReportDeadLetter(w)
  \/ TellDeadLetter(w)
  \/ ReportError(w)
  \/ Die(w)

RunNext ==
  \/ QueueStep
  \/ \E w \in Workers : RunStep(w)
  \/ \E j \in Jobs, s \in {"working", "done"} :
        StageWritten(j, s) \/ StageForgotten(j, s)

RunSpec == RunInit /\ [][RunNext]_allVars

-----------------------------------------------------------------------------
(* Properties.                                                             *)

Answered == {"succeeded", "failed"}

\* While the loop tells the customer about a dead letter, its report is done
\* as far as the queue is concerned.
Told(w) == phase[w] = "tellDeadLetter"

Queue == INSTANCE JobQueue WITH
  loop <- [w \in Workers |-> IF Told(w) THEN "poll" ELSE loop[w]],
  held <- [w \in Workers |-> IF Told(w) THEN NoJob ELSE held[w]],
  heldAttempt <- [w \in Workers |-> IF Told(w) THEN 0 ELSE heldAttempt[w]],
  outcome <- [w \in Workers |-> IF Told(w) THEN "none" ELSE outcome[w]],
  beating <- [w \in Workers |-> IF Told(w) THEN FALSE ELSE beating[w]]

\* The runner drives the queue only as the queue's own specification allows,
\* so what is shown of JobQueue holds with real runs in the workers' hands.
ImplementsQueue == Queue!Spec

\* Unless a COMMIT undid it, a job that succeeded has left the customer an
\* answer with a result behind it: the result is committed before the queue
\* is told, and no later failure, of this run or another, takes it away.
SuccessHasAnswer ==
  \A j \in Jobs : (state[j] = "succeeded" /\ j \notin rolledBack) =>
    results[j] > 0 /\ status[j] \in Answered

\* The completion notice is in the outbox exactly when a result is stored:
\* never for a result that was rolled back, never lost with a crash.
NoticeIffResult ==
  \A j \in Jobs : j \in notices <=> results[j] > 0

\* Progress that arrives late, from this attempt or an earlier one, never
\* makes an answered analysis look unfinished again.
AnsweredStaysAnswered ==
  [][\A j \in Jobs : status[j] \in Answered => status'[j] \in Answered]_allVars

-----------------------------------------------------------------------------
(* What comments in the code say and the code does not do.                 *)

\* "a permanent one stops and tells the customer" (the runner), and of dead
\* letters "the progress bar must stop rather than spin forever" (the loop):
\* once a job has failed for good and no worker holds it any more, the
\* analysis the customer polls has an answer.
EndedJobIsTold ==
  \A j \in Jobs :
    /\ state[j] \in {"failed", "dead_lettered"}
    /\ \A w \in Workers : held[w] # j
    => status[j] \in Answered

\* "Not fatal. The analysis succeeded and the customer can see it" (the
\* runner, on an error of enqueue_notification): a job that succeeded has a
\* result.
SuccessHasResult ==
  \A j \in Jobs : state[j] = "succeeded" => results[j] > 0

=============================================================================

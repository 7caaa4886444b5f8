------------------------- MODULE AnalysisRunProofs -------------------------
(***************************************************************************)
(* Proofs about AnalysisRun: the row a customer polls agrees with what the *)
(* queue was told, and the runner drives the queue as JobQueue specifies.  *)
(***************************************************************************)
EXTENDS AnalysisRun, JobQueueProofs

-----------------------------------------------------------------------------
(* Types.                                                                  *)

RowTypes ==
  /\ status \in [Jobs -> {"pending", "running", "succeeded", "failed"}]
  /\ stage \in [Jobs -> {"queued", "working", "done"}]
  /\ results \in [Jobs -> Nat]
  /\ notices \subseteq Jobs
  /\ rolledBack \subseteq Jobs
  /\ stageWrites \in [Jobs -> SUBSET {"working", "done"}]
  /\ phase \in [Workers -> Phases]

\* Where a worker is inside its run, given where its loop is.
PhaseShape ==
  \A w \in Workers :
    /\ loop[w] \in {"poll", "pollSimulation"} => phase[w] = "idle"
    /\ loop[w] = "run" => phase[w] \in {"inputs", "pipeline", "write", "tell"}
    /\ loop[w] = "report" => phase[w] \in {"returning", "tellDeadLetter"}

\* The steps of the runner are steps of the queue, except the two that split
\* the report of a dead letter from the word to the customer.
LEMMA QueueOrDeadLetter ==
  ASSUME [RunNext]_allVars
  PROVE  \/ [Next]_vars
         \/ \E w \in Workers : ReportDeadLetter(w) \/ TellDeadLetter(w)
PROOF
<1> USE DEF vars, tables, process
<1>1. CASE UNCHANGED allVars
  BY <1>1 DEF allVars
<1>2. CASE QueueStep
  BY <1>2 DEF QueueStep, Next, Poll
<1>3. ASSUME NEW w \in Workers, RunStep(w)
      PROVE  [Next]_vars \/ ReportDeadLetter(w) \/ TellDeadLetter(w)
  <2>1. ASSUME NEW o \in Outcomes, Return(w, o)
        PROVE  Next
    BY <2>1 DEF Return, Next
  <2>2. CASE ClaimJob(w)
    BY <2>2 DEF ClaimJob, Next, Poll
  <2>3. CASE InputsRead(w) \/ StageReported(w, "working") \/ PipelineSucceeds(w)
             \/ PipelineFailsForGood(w)
    BY <2>3 DEF InputsRead, StageReported, PipelineSucceeds, PipelineFailsForGood
  <2>4. CASE InputsUnavailable(w) \/ InputsRefused(w) \/ PipelineFailsForNow(w)
             \/ TellFailure(w) \/ FailureUntold(w) \/ WriteResult(w)
             \/ WriteFails(w) \/ NotificationAbortsWrite(w)
    BY <2>1, <2>4 DEF InputsUnavailable, InputsRefused, PipelineFailsForNow,
                      TellFailure, FailureUntold, WriteResult, WriteFails,
                      NotificationAbortsWrite, Outcomes
  <2>5. CASE ReportOutcome(w) \/ ReportError(w) \/ Die(w)
    BY <2>5 DEF ReportOutcome, ReportError, Die, Next
  <2> QED BY <1>3, <2>2, <2>3, <2>4, <2>5 DEF RunStep
<1>4. ASSUME NEW j \in Jobs, NEW s \in {"working", "done"},
             StageWritten(j, s) \/ StageForgotten(j, s)
      PROVE  [Next]_vars
  BY <1>4 DEF StageWritten, StageForgotten
<1> QED BY <1>1, <1>2, <1>3, <1>4 DEF RunNext

\* A dead letter's finish is the one the queue's report would have made.
LEMMA DeadLetterFinishes ==
  ASSUME TypeInv, NEW w \in Workers, ReportDeadLetter(w)
  PROVE  /\ held[w] \in Jobs /\ heldAttempt[w] \in Nat /\ loop[w] = "report"
         /\ EventFor(held[w], heldAttempt[w], outcome[w]) = "attempts_exhausted"
         /\ HoldsLease(w, held[w])
         /\ Finish(held[w], heldAttempt[w], "attempts_exhausted")
         /\ UNCHANGED process
BY DEF TypeInv, TypeOK, WorkerShape, ReportDeadLetter, DeadLetters

LEMMA QueueTypes ==
  ASSUME TypeInv, [RunNext]_allVars
  PROVE  TypeInv'
PROOF
<1>1. CASE [Next]_vars
  BY <1>1, TypeStep
<1>2. ASSUME NEW w \in Workers, ReportDeadLetter(w)
      PROVE  TypeInv'
  <2>1. /\ held[w] \in Jobs /\ heldAttempt[w] \in Nat
        /\ Finish(held[w], heldAttempt[w], "attempts_exhausted")
        /\ UNCHANGED process
    BY <1>2, DeadLetterFinishes
  <2>2. /\ state' \in [Jobs -> Lifecycle!AnalysisState \cup {"absent"}]
        /\ attempt' \in [Jobs -> Nat]
        /\ leasedBy' \in [Jobs -> Ids \cup {NoOne}]
        /\ lease' \in [Jobs -> {"none", "live", "expired"}]
        /\ due' \in [Jobs -> BOOLEAN]
        /\ trail' \in [Jobs -> Seq(JobTransition)]
        /\ deadLetters' \subseteq Jobs
    BY <2>1, FinishType DEF TypeInv
  <2> QED BY <2>1, <2>2 DEF process, TypeInv, TypeOK, WorkerShape
<1>3. ASSUME NEW w \in Workers, TellDeadLetter(w)
      PROVE  TypeInv'
  <2>1. BackToPolling(w) /\ UNCHANGED tables
    BY <1>3 DEF TellDeadLetter
  <2> QED BY <2>1 DEF BackToPolling, tables, TypeInv, TypeOK, WorkerShape
<1> QED BY <1>1, <1>2, <1>3, QueueOrDeadLetter

-----------------------------------------------------------------------------
(* The row and the queue.                                                  *)

\* What has been stored when the queue hears of a success: a run that is
\* about to report one, and a job that is one, have a result behind them or
\* a COMMIT that undid it.  A result, once stored, keeps the row answered.
AnswerInv ==
  /\ \A j \in Jobs : results[j] > 0 => status[j] \in Answered
  /\ \A w \in Workers :
       phase[w] = "returning" /\ outcome[w] = "ok"
         => held[w] \in rolledBack \/ results[held[w]] > 0
  /\ \A j \in Jobs :
       state[j] = "succeeded" => j \in rolledBack \/ results[j] > 0

RowInv == RowTypes /\ PhaseShape /\ AnswerInv /\ NoticeIffResult

RunInv == TypeInv /\ RowInv

LEMMA RunInvInit == RunInit => RunInv
PROOF
<1> SUFFICES ASSUME RunInit PROVE RunInv
  OBVIOUS
<1>1. TypeInv
  BY TypeInit DEF RunInit
<1>2. RowTypes
  BY DEF RunInit, RowTypes, Phases
<1>3. PhaseShape
  BY DEF RunInit, Init, PhaseShape
<1>4. AnswerInv
  BY DEF RunInit, Init, AnswerInv
<1>5. NoticeIffResult
  BY DEF RunInit, NoticeIffResult
<1> QED BY <1>1, <1>2, <1>3, <1>4, <1>5 DEF RunInv, RowInv

\* What the queue's own steps leave alone.
LEMMA QueueStepFrame ==
  ASSUME TypeInv, QueueStep
  PROVE  /\ UNCHANGED <<held, outcome, runVars>>
         /\ \A w \in Workers : \/ loop'[w] = loop[w]
                               \/ {loop[w], loop'[w]} \subseteq
                                    {"poll", "pollSimulation"}
         /\ \A j \in Jobs : state'[j] = "succeeded" => state[j] = "succeeded"
PROOF
<1> USE DEF TypeInv, TypeOK, tables, process
<1>1. ASSUME NEW j \in Jobs,
             Enqueue(j) \/ Cancel(j) \/ LeaseExpires(j) \/ BackoffElapses(j)
      PROVE  /\ UNCHANGED <<loop, held, outcome>>
             /\ \A i \in Jobs : state'[i] = "succeeded" => state[i] = "succeeded"
  BY <1>1 DEF Enqueue, Cancel, LeaseExpires, BackoffElapses
<1>2. ASSUME ReleaseElapsedBackoffs
      PROVE  /\ UNCHANGED <<loop, held, outcome>>
             /\ \A i \in Jobs : state'[i] = "succeeded" => state[i] = "succeeded"
  BY <1>2 DEF ReleaseElapsedBackoffs
<1>3. ASSUME NEW reaped \in SUBSET ExpiredLeases, ReapExpiredLeases(reaped)
      PROVE  /\ UNCHANGED <<loop, held, outcome>>
             /\ \A i \in Jobs : state'[i] = "succeeded" => state[i] = "succeeded"
  BY <1>3 DEF ReapExpiredLeases
<1>4. ASSUME NEW w \in Workers, NoAnalysisWaiting(w) \/ NoSimulationWaiting(w)
      PROVE  /\ UNCHANGED <<state, held, outcome>>
             /\ \A v \in Workers : \/ loop'[v] = loop[v]
                                   \/ {loop[v], loop'[v]} \subseteq
                                        {"poll", "pollSimulation"}
  BY <1>4 DEF NoAnalysisWaiting, NoSimulationWaiting
<1>5. ASSUME NEW w \in Workers, Heartbeat(w) \/ HeartbeatError(w)
      PROVE  UNCHANGED <<state, loop, held, outcome>>
  BY <1>5 DEF Heartbeat, HeartbeatError
<1>6. UNCHANGED runVars
  BY DEF QueueStep
<1> QED BY <1>1, <1>2, <1>3, <1>4, <1>5, <1>6 DEF QueueStep

\* A report makes a job succeed only when the run returned Ok.
LEMMA ReportSucceeds ==
  ASSUME TypeInv, NEW w \in Workers, loop[w] = "report",
         NEW j \in Jobs, Report(w) \/ ReportLost(w),
         state'[j] = "succeeded"
  PROVE  state[j] = "succeeded" \/ (j = held[w] /\ outcome[w] = "ok")
PROOF
<1> DEFINE e == EventFor(held[w], heldAttempt[w], outcome[w])
<1>1. held[w] \in Jobs /\ outcome[w] \in Outcomes
  BY DEF TypeInv, WorkerShape
<1>2. CASE UNCHANGED tables
  BY <1>2 DEF tables
<1>3. CASE Finish(held[w], heldAttempt[w], e)
  <2>1. state' = [state EXCEPT ![held[w]] = NextOf(e)]
    BY <1>3 DEF Finish
  <2>2. NextOf(e) = "succeeded" => outcome[w] = "ok"
    BY <1>1, NextOfValues DEF EventFor, Outcomes
  <2> HIDE DEF e
  <2> QED BY <2>1, <2>2 DEF TypeInv, TypeOK
<1> QED BY <1>2, <1>3 DEF Report, ReportLost

LEMMA RowStep ==
  ASSUME RunInv, [RunNext]_allVars
  PROVE  RowInv'
PROOF
<1>0. /\ TypeInv /\ TypeInv'
      /\ RowTypes /\ PhaseShape /\ AnswerInv /\ NoticeIffResult
  BY QueueTypes DEF RunInv, RowInv
<1>T. /\ loop \in [Workers -> {"poll", "pollSimulation", "run", "report"}]
      /\ held \in [Workers -> Jobs \cup {NoJob}]
      /\ outcome \in [Workers -> Outcomes \cup {"none"}]
      /\ \A w \in Workers : loop[w] \in {"run", "report"} => held[w] \in Jobs
  BY <1>0 DEF TypeInv, TypeOK, WorkerShape
<1>A. ASSUME UNCHANGED <<results, notices>>
      PROVE  NoticeIffResult'
  BY <1>0, <1>A DEF NoticeIffResult
<1>1. CASE UNCHANGED allVars
  BY <1>0, <1>1 DEF allVars, RowInv, RowTypes, PhaseShape, AnswerInv,
                    NoticeIffResult, Phases
<1>2. CASE QueueStep
  <2>1. /\ UNCHANGED <<held, outcome, runVars>>
        /\ \A w \in Workers : \/ loop'[w] = loop[w]
                              \/ {loop[w], loop'[w]} \subseteq
                                   {"poll", "pollSimulation"}
        /\ \A j \in Jobs : state'[j] = "succeeded" => state[j] = "succeeded"
    BY <1>0, <1>2, QueueStepFrame
  <2>2. RowTypes'
    BY <1>0, <2>1 DEF runVars, RowTypes
  <2>3. PhaseShape'
    BY <1>0, <2>1 DEF runVars, PhaseShape
  <2>4. AnswerInv'
    BY <1>0, <2>1 DEF runVars, AnswerInv
  <2> QED BY <2>1, <2>2, <2>3, <2>4, <1>A DEF runVars, RowInv
<1>3. ASSUME NEW w \in Workers, RunStep(w)
      PROVE  RowInv'
  <2>1. ASSUME NEW p \in Phases, GoTo(w, p)
        PROVE  phase' \in [Workers -> Phases]
    BY <1>0, <2>1 DEF GoTo, RowTypes
  <2>2. ASSUME NEW o \in Outcomes, Return(w, o)
        PROVE  /\ loop[w] = "run" /\ held[w] \in Jobs
               /\ UNCHANGED <<state, held>>
               /\ phase' \in [Workers -> Phases]
               /\ PhaseShape'
               /\ \A v \in Workers \ {w} : /\ phase'[v] = phase[v]
                                           /\ outcome'[v] = outcome[v]
               /\ outcome'[w] = o
    <3>1. /\ loop[w] = "run"
          /\ loop' = [loop EXCEPT ![w] = "report"]
          /\ outcome' = [outcome EXCEPT ![w] = o]
          /\ UNCHANGED <<state, held>>
          /\ GoTo(w, "returning")
      BY <2>2 DEF Return, RunReturns, tables
    <3>2. phase' \in [Workers -> Phases]
      BY <3>1, <2>1 DEF Phases
    <3>3. PhaseShape'
      BY <1>0, <1>T, <3>1 DEF GoTo, PhaseShape, RowTypes
    <3> QED BY <1>0, <1>T, <3>1, <3>2, <3>3 DEF GoTo, RowTypes
  <2>3. CASE ClaimJob(w)
    <3>1. PICK j \in Jobs : ClaimAnalysis(w, j)
      BY <2>3 DEF ClaimJob
    <3>2. /\ loop' = [loop EXCEPT ![w] = "run"]
          /\ outcome' = outcome
          /\ held' = [held EXCEPT ![w] = j]
          /\ state' = [state EXCEPT ![j] = "running"]
          /\ UNCHANGED analysis
          /\ GoTo(w, "inputs")
      BY <2>3, <3>1 DEF ClaimJob, ClaimAnalysis, TakeJob, Claim
    <3>3. RowTypes'
      BY <1>0, <2>1, <3>2 DEF analysis, RowTypes, Phases
    <3>4. PhaseShape'
      BY <1>0, <1>T, <3>2 DEF GoTo, PhaseShape, RowTypes
    <3>5. AnswerInv'
      <4>1. \A v \in Workers : phase'[v] = "returning" =>
              phase[v] = "returning" /\ held'[v] = held[v]
        BY <1>0, <1>T, <3>2 DEF GoTo, RowTypes
      <4>2. \A i \in Jobs : state'[i] = "succeeded" => state[i] = "succeeded"
        BY <1>0, <3>2 DEF TypeInv, TypeOK
      <4> QED BY <1>0, <3>2, <4>1, <4>2 DEF analysis, AnswerInv
    <3> QED BY <3>2, <3>3, <3>4, <3>5, <1>A DEF analysis, RowInv
  <2>4. CASE \/ InputsRead(w) \/ PipelineFailsForGood(w) \/ PipelineSucceeds(w)
             \/ StageReported(w, "working")
    <3>1. /\ UNCHANGED <<status, stage, results, notices, rolledBack, tables,
                         process>>
          /\ loop[w] = "run" /\ held[w] \in Jobs
          /\ \/ UNCHANGED phase
             \/ \E p \in {"pipeline", "tell", "write"} : GoTo(w, p)
      BY <1>T, <2>4 DEF InputsRead, PipelineFailsForGood, PipelineSucceeds,
                        StageReported, InRun, analysis
    <3>2. stageWrites' \in [Jobs -> SUBSET {"working", "done"}]
      BY <1>0, <2>4, <3>1
         DEF InputsRead, PipelineFailsForGood, PipelineSucceeds,
             StageReported, analysis, RowTypes
    <3>3. phase' \in [Workers -> Phases]
      BY <1>0, <2>1, <3>1 DEF RowTypes, Phases
    <3>4. RowTypes'
      BY <1>0, <3>1, <3>2, <3>3 DEF RowTypes
    <3>5. PhaseShape'
      BY <1>0, <1>T, <3>1 DEF GoTo, PhaseShape, RowTypes, process
    <3>6. AnswerInv'
      <4>1. \A v \in Workers : phase'[v] = "returning" => phase[v] = "returning"
        BY <1>0, <3>1 DEF GoTo, RowTypes
      <4> QED BY <1>0, <3>1, <4>1 DEF tables, process, AnswerInv
    <3> QED BY <3>1, <3>4, <3>5, <3>6, <1>A DEF RowInv
  <2>5. CASE \/ InputsUnavailable(w) \/ InputsRefused(w) \/ FailureUntold(w)
             \/ PipelineFailsForNow(w) \/ WriteFails(w)
    <3>1. PICK o \in Outcomes : Return(w, o) /\ o # "ok" /\ UNCHANGED analysis
      BY <2>5 DEF InputsUnavailable, InputsRefused, FailureUntold,
                  PipelineFailsForNow, WriteFails, Outcomes
    <3>2. RowTypes'
      BY <1>0, <2>2, <3>1 DEF analysis, RowTypes
    <3>3. AnswerInv'
      BY <1>0, <2>2, <3>1 DEF analysis, AnswerInv
    <3> QED BY <2>2, <3>1, <3>2, <3>3, <1>A DEF analysis, RowInv
  <2>6. CASE TellFailure(w)
    <3>1. /\ FailAnalysis(held[w]) /\ Return(w, "permanent")
          /\ UNCHANGED <<rolledBack, stageWrites>>
          /\ "permanent" \in Outcomes
      BY <2>6 DEF TellFailure, Outcomes
    <3>2. RowTypes'
      BY <1>0, <2>2, <3>1 DEF FailAnalysis, RowTypes
    <3>3. \A j \in Jobs : status[j] \in Answered => status'[j] \in Answered
      BY <1>0, <3>1 DEF FailAnalysis, Answered, RowTypes
    <3>4. AnswerInv'
      BY <1>0, <2>2, <3>1, <3>3 DEF FailAnalysis, AnswerInv
    <3> QED BY <2>2, <3>1, <3>2, <3>4, <1>A DEF FailAnalysis, RowInv
  <2>7. CASE WriteResult(w)
    <3>1. /\ CompleteAnalysis(held[w]) /\ Return(w, "ok")
          /\ UNCHANGED <<rolledBack, stageWrites>>
          /\ "ok" \in Outcomes
      BY <2>7 DEF WriteResult, Outcomes
    <3>2. held[w] \in Jobs
      BY <2>2, <3>1
    <3>3. /\ \A j \in Jobs : results'[j] = IF j = held[w] THEN results[j] + 1
                                           ELSE results[j]
          /\ \A j \in Jobs : status'[j] = IF j = held[w] THEN "succeeded"
                                          ELSE status[j]
          /\ \A j \in Jobs : results[j] \in Nat
          /\ notices' = notices \cup {held[w]}
      BY <1>0, <3>1 DEF CompleteAnalysis, RowTypes
    <3>4. RowTypes'
      BY <1>0, <2>2, <3>1, <3>2 DEF CompleteAnalysis, RowTypes
    <3>5. results'[held[w]] > 0
          /\ \A j \in Jobs : results[j] > 0 => results'[j] > 0
      BY <3>2, <3>3
    <3>6. AnswerInv'
      <4>1. \A j \in Jobs : results'[j] > 0 => status'[j] \in Answered
        BY <1>0, <3>3 DEF AnswerInv, Answered
      <4>2. ASSUME NEW v \in Workers, phase'[v] = "returning", outcome'[v] = "ok"
            PROVE  held'[v] \in rolledBack' \/ results'[held'[v]] > 0
        <5>1. CASE v = w
          BY <2>2, <3>1, <3>5, <5>1
        <5>2. CASE v # w
          <6>1. phase[v] = "returning" /\ outcome[v] = "ok"
            BY <2>2, <3>1, <4>2, <5>2
          <6>2. held[v] \in Jobs
            BY <1>0, <1>T, <6>1 DEF PhaseShape
          <6> QED BY <1>0, <2>2, <3>1, <3>5, <6>1, <6>2 DEF AnswerInv
        <5> QED BY <5>1, <5>2
      <4>3. \A j \in Jobs : state'[j] = "succeeded" =>
              j \in rolledBack' \/ results'[j] > 0
        BY <1>0, <2>2, <3>1, <3>5 DEF AnswerInv
      <4> QED BY <4>1, <4>2, <4>3 DEF AnswerInv
    <3>7. NoticeIffResult'
      BY <1>0, <3>3, <3>5 DEF NoticeIffResult
    <3> QED BY <2>2, <3>1, <3>4, <3>6, <3>7 DEF RowInv
  <2>8. CASE NotificationAbortsWrite(w)
    <3>1. /\ Return(w, "ok") /\ rolledBack' = rolledBack \cup {held[w]}
          /\ UNCHANGED <<status, stage, results, notices, stageWrites>>
          /\ "ok" \in Outcomes
      BY <2>8 DEF NotificationAbortsWrite, Outcomes
    <3>2. RowTypes'
      BY <1>0, <2>2, <3>1 DEF RowTypes
    <3>3. AnswerInv'
      BY <1>0, <2>2, <3>1 DEF AnswerInv
    <3> QED BY <2>2, <3>1, <3>2, <3>3, <1>A DEF RowInv
  <2>9. CASE ReportOutcome(w) \/ ReportError(w) \/ Die(w)
    <3>1. /\ BackToPolling(w) /\ GoTo(w, "idle") /\ UNCHANGED analysis
          /\ \/ UNCHANGED tables
             \/ phase[w] = "returning" /\ loop[w] = "report" /\ Report(w)
      BY <2>9 DEF ReportOutcome, ReportError, Die, Report, ReportLost, Crash
    <3>2. RowTypes'
      BY <1>0, <2>1, <3>1 DEF analysis, RowTypes, Phases
    <3>3. PhaseShape'
      BY <1>0, <1>T, <3>1 DEF BackToPolling, GoTo, PhaseShape, RowTypes
    <3>4. \A v \in Workers : phase'[v] = "returning" =>
            /\ phase[v] = "returning"
            /\ held'[v] = held[v] /\ outcome'[v] = outcome[v]
      BY <1>0, <1>T, <3>1 DEF BackToPolling, GoTo, RowTypes
    <3>5. \A j \in Jobs : state'[j] = "succeeded" =>
            j \in rolledBack \/ results[j] > 0
      <4>1. CASE UNCHANGED tables
        BY <1>0, <4>1 DEF tables, AnswerInv
      <4>2. CASE phase[w] = "returning" /\ loop[w] = "report" /\ Report(w)
        BY <1>0, <4>2, ReportSucceeds DEF AnswerInv
      <4> QED BY <3>1, <4>1, <4>2
    <3>6. AnswerInv'
      BY <1>0, <3>1, <3>4, <3>5 DEF analysis, AnswerInv
    <3> QED BY <3>1, <3>2, <3>3, <3>6, <1>A DEF analysis, RowInv
  <2>10. CASE ReportDeadLetter(w)
    <3>1. /\ held[w] \in Jobs /\ loop[w] = "report"
          /\ Finish(held[w], heldAttempt[w], "attempts_exhausted")
          /\ UNCHANGED process
          /\ GoTo(w, "tellDeadLetter") /\ UNCHANGED analysis
      BY <1>0, <2>10, DeadLetterFinishes DEF ReportDeadLetter
    <3>2. RowTypes'
      BY <1>0, <2>1, <3>1 DEF analysis, RowTypes, Phases
    <3>3. PhaseShape'
      BY <1>0, <1>T, <3>1 DEF process, GoTo, PhaseShape, RowTypes
    <3>4. \A v \in Workers : phase'[v] = "returning" => phase[v] = "returning"
      BY <1>0, <3>1 DEF GoTo, RowTypes
    <3>5. \A j \in Jobs : state'[j] = "succeeded" => state[j] = "succeeded"
      BY <1>0, <3>1, NextOfValues DEF Finish, TypeInv, TypeOK
    <3>6. AnswerInv'
      BY <1>0, <3>1, <3>4, <3>5 DEF analysis, process, AnswerInv
    <3> QED BY <3>1, <3>2, <3>3, <3>6, <1>A DEF analysis, RowInv
  <2>11. CASE TellDeadLetter(w)
    <3>1. /\ held[w] \in Jobs
          /\ FailAnalysis(held[w]) \/ UNCHANGED <<status, stage, results, notices>>
          /\ UNCHANGED <<rolledBack, stageWrites, tables>>
          /\ BackToPolling(w) /\ GoTo(w, "idle")
      BY <1>T, <2>11 DEF TellDeadLetter
    <3>2. UNCHANGED <<stage, results, notices>>
      BY <3>1 DEF FailAnalysis
    <3>3. /\ status' \in [Jobs -> {"pending", "running", "succeeded", "failed"}]
          /\ \A j \in Jobs : status[j] \in Answered => status'[j] \in Answered
      BY <1>0, <3>1 DEF FailAnalysis, Answered, RowTypes
    <3>4. RowTypes'
      BY <1>0, <2>1, <3>1, <3>2, <3>3 DEF RowTypes, Phases
    <3>5. PhaseShape'
      BY <1>0, <1>T, <3>1 DEF BackToPolling, GoTo, PhaseShape, RowTypes
    <3>6. \A v \in Workers : phase'[v] = "returning" =>
            /\ phase[v] = "returning"
            /\ held'[v] = held[v] /\ outcome'[v] = outcome[v]
      BY <1>0, <1>T, <3>1 DEF BackToPolling, GoTo, RowTypes
    <3>7. AnswerInv'
      BY <1>0, <3>1, <3>2, <3>3, <3>6 DEF tables, AnswerInv
    <3> QED BY <3>2, <3>4, <3>5, <3>7, <1>A DEF RowInv
  <2> QED BY <1>3, <2>3, <2>4, <2>5, <2>6, <2>7, <2>8, <2>9, <2>10, <2>11
          DEF RunStep
<1>4. ASSUME NEW j \in Jobs, NEW s \in {"working", "done"},
             StageWritten(j, s) \/ StageForgotten(j, s)
      PROVE  RowInv'
  <2>1. /\ UNCHANGED <<results, notices, rolledBack, phase, tables, process>>
        /\ stageWrites' = [stageWrites EXCEPT ![j] = @ \ {s}]
        /\ SetStage(j, s) \/ UNCHANGED <<status, stage>>
    BY <1>4 DEF StageWritten, StageForgotten, SetStage
  <2>2. /\ status' \in [Jobs -> {"pending", "running", "succeeded", "failed"}]
        /\ stage' \in [Jobs -> {"queued", "working", "done"}]
        /\ \A i \in Jobs : status[i] \in Answered => status'[i] \in Answered
    BY <1>0, <2>1 DEF SetStage, Answered, RowTypes
  <2>3. RowTypes'
    BY <1>0, <2>1, <2>2 DEF RowTypes
  <2>4. PhaseShape'
    BY <1>0, <2>1 DEF process, PhaseShape
  <2>5. AnswerInv'
    BY <1>0, <2>1, <2>2 DEF tables, process, AnswerInv
  <2> QED BY <2>1, <2>3, <2>4, <2>5, <1>A DEF RowInv
<1> QED BY <1>1, <1>2, <1>3, <1>4 DEF RunNext

LEMMA RunInvStep == RunInv /\ [RunNext]_allVars => RunInv'
BY RowStep, QueueTypes DEF RunInv


\* The row a customer polls, the outbox and the worker's position keep their
\* types, and the queue's tables theirs, with real runs in the workers' hands.
THEOREM RunTypeCorrect == RunSpec => []RunTypeOK
PROOF
<1>1. RunInv => RunTypeOK
  BY DEF RunInv, RowInv, TypeInv, RowTypes, RunTypeOK
<1> QED BY RunInvInit, RunInvStep, <1>1, PTL DEF RunSpec

\* The completion notice and the result are one commit: no crash, retry,
\* rolled back COMMIT or second worker separates them (complete_analysis).
THEOREM NoticesMatchResults == RunSpec => []NoticeIffResult
PROOF
<1>1. RunInv => NoticeIffResult
  BY DEF RunInv, RowInv
<1> QED BY RunInvInit, RunInvStep, <1>1, PTL DEF RunSpec

\* A job the queue calls succeeded has left the customer an answer with a
\* result behind it, unless a COMMIT undid it: whichever of several runs of
\* the job reports, and whatever another run does to the row before or after.
THEOREM SuccessesHaveAnswers == RunSpec => []SuccessHasAnswer
PROOF
<1>1. RunInv => SuccessHasAnswer
  BY DEF RunInv, RowInv, AnswerInv, SuccessHasAnswer
<1> QED BY RunInvInit, RunInvStep, <1>1, PTL DEF RunSpec

\* A stage written late, by this attempt or an earlier one, never makes an
\* answered analysis look unfinished again (set_stage).
THEOREM AnswersStay == RunSpec => AnsweredStaysAnswered
PROOF
<1> DEFINE Stays == \A j \in Jobs : status[j] \in Answered => status'[j] \in Answered
<1>1. ASSUME RunInv, [RunNext]_allVars
      PROVE  [Stays]_allVars
  <2>0. status \in [Jobs -> {"pending", "running", "succeeded", "failed"}]
    BY <1>1 DEF RunInv, RowInv, RowTypes
  <2>1. ASSUME NEW j, \/ UNCHANGED status \/ CompleteAnalysis(j)
                      \/ FailAnalysis(j) \/ \E s : SetStage(j, s)
        PROVE  Stays
    BY <2>0, <2>1 DEF CompleteAnalysis, FailAnalysis, SetStage, Answered
  <2>2. CASE UNCHANGED allVars
    BY <2>2
  <2>3. CASE QueueStep
    BY <2>1, <2>3 DEF QueueStep, runVars
  <2>4. ASSUME NEW w \in Workers, RunStep(w)
        PROVE  Stays
    <3>1. \/ UNCHANGED status \/ CompleteAnalysis(held[w]) \/ FailAnalysis(held[w])
      BY <2>4 DEF RunStep, ClaimJob, InputsRead, InputsUnavailable,
                  InputsRefused, StageReported, PipelineSucceeds,
                  PipelineFailsForNow, PipelineFailsForGood, TellFailure,
                  FailureUntold, WriteResult, WriteFails,
                  NotificationAbortsWrite, ReportOutcome, ReportDeadLetter,
                  TellDeadLetter, ReportError, Die, analysis
    <3> QED BY <2>1, <3>1
  <2>5. ASSUME NEW j \in Jobs, NEW s \in {"working", "done"},
               StageWritten(j, s) \/ StageForgotten(j, s)
        PROVE  Stays
    BY <2>1, <2>5 DEF StageWritten, StageForgotten
  <2> QED BY <1>1, <2>2, <2>3, <2>4, <2>5 DEF RunNext
<1>2. RunInv /\ [RunNext]_allVars => [Stays]_allVars
  BY <1>1
<1> QED BY RunInvInit, RunInvStep, <1>2, PTL DEF RunSpec, AnsweredStaysAnswered

-----------------------------------------------------------------------------
(* AnalysisRun implements JobQueue.                                        *)

\* The worker as the queue sees it.
qLoop == [w \in Workers |-> IF Told(w) THEN "poll" ELSE loop[w]]
qHeld == [w \in Workers |-> IF Told(w) THEN NoJob ELSE held[w]]
qAttempt == [w \in Workers |-> IF Told(w) THEN 0 ELSE heldAttempt[w]]
qOutcome == [w \in Workers |-> IF Told(w) THEN "none" ELSE outcome[w]]
qBeating == [w \in Workers |-> IF Told(w) THEN FALSE ELSE beating[w]]
qProcess == <<qLoop, qHeld, qAttempt, qOutcome, qBeating>>

LEMMA SameNextOf == \A e : Queue!NextOf(e) = NextOf(e)
BY DEF Queue!NextOf, NextOf, Queue!Lifecycle!TransitionTable,
       Lifecycle!TransitionTable

LEMMA SameFinish ==
  ASSUME NEW j, NEW n, NEW e, Finish(j, n, e)
  PROVE  Queue!Finish(j, n, e)
BY SameNextOf DEF Finish, Queue!Finish, Transition, Queue!Transition

LEMMA QueueInit == RunInit => Queue!Init
PROOF
<1> SUFFICES ASSUME RunInit PROVE Queue!Init
  OBVIOUS
<1>1. \A w \in Workers : ~Told(w)
  BY DEF RunInit, Told
<1> QED BY <1>1 DEF RunInit, Init, Queue!Init

\* Nothing the queue sees of a worker changes when neither it nor its place
\* in the run does.
LEMMA WorkersAlone ==
  ASSUME UNCHANGED <<process, phase>>
  PROVE  UNCHANGED qProcess
BY DEF process, qProcess, qLoop, qHeld, qAttempt, qOutcome, qBeating, Told

\* A change to one worker that is not telling of a dead letter, before or
\* after, is the same change in the queue's eyes.
LEMMA WorkerMoves ==
  ASSUME TypeInv, NEW w \in Workers, ~Told(w), ~Told(w)',
         \A v \in Workers \ {w} : phase'[v] = phase[v]
  PROVE  /\ \A x : loop' = [loop EXCEPT ![w] = x] => qLoop' = [qLoop EXCEPT ![w] = x]
         /\ \A x : held' = [held EXCEPT ![w] = x] => qHeld' = [qHeld EXCEPT ![w] = x]
         /\ \A x : heldAttempt' = [heldAttempt EXCEPT ![w] = x]
                     => qAttempt' = [qAttempt EXCEPT ![w] = x]
         /\ \A x : outcome' = [outcome EXCEPT ![w] = x]
                     => qOutcome' = [qOutcome EXCEPT ![w] = x]
         /\ \A x : beating' = [beating EXCEPT ![w] = x]
                     => qBeating' = [qBeating EXCEPT ![w] = x]
         /\ UNCHANGED loop => UNCHANGED qLoop
         /\ UNCHANGED held => UNCHANGED qHeld
         /\ UNCHANGED heldAttempt => UNCHANGED qAttempt
         /\ UNCHANGED outcome => UNCHANGED qOutcome
         /\ UNCHANGED beating => UNCHANGED qBeating
         /\ qLoop[w] = loop[w] /\ qHeld[w] = held[w]
         /\ qAttempt[w] = heldAttempt[w] /\ qOutcome[w] = outcome[w]
         /\ qBeating[w] = beating[w]
PROOF
<1> USE DEF TypeInv, TypeOK
<1>0. \A v \in Workers : Told(v)' <=> Told(v)
  BY DEF Told
<1>1. /\ qLoop[w] = loop[w] /\ qHeld[w] = held[w]
      /\ qAttempt[w] = heldAttempt[w] /\ qOutcome[w] = outcome[w]
      /\ qBeating[w] = beating[w]
  BY DEF qLoop, qHeld, qAttempt, qOutcome, qBeating
<1>2. /\ \A x : loop' = [loop EXCEPT ![w] = x] => qLoop' = [qLoop EXCEPT ![w] = x]
      /\ UNCHANGED loop => UNCHANGED qLoop
  BY <1>0 DEF qLoop
<1>3. /\ \A x : held' = [held EXCEPT ![w] = x] => qHeld' = [qHeld EXCEPT ![w] = x]
      /\ UNCHANGED held => UNCHANGED qHeld
  BY <1>0 DEF qHeld
<1>4. /\ \A x : heldAttempt' = [heldAttempt EXCEPT ![w] = x]
                  => qAttempt' = [qAttempt EXCEPT ![w] = x]
      /\ UNCHANGED heldAttempt => UNCHANGED qAttempt
  BY <1>0 DEF qAttempt
<1>5. /\ \A x : outcome' = [outcome EXCEPT ![w] = x]
                  => qOutcome' = [qOutcome EXCEPT ![w] = x]
      /\ UNCHANGED outcome => UNCHANGED qOutcome
  BY <1>0 DEF qOutcome
<1>6. /\ \A x : beating' = [beating EXCEPT ![w] = x]
                  => qBeating' = [qBeating EXCEPT ![w] = x]
      /\ UNCHANGED beating => UNCHANGED qBeating
  BY <1>0 DEF qBeating
<1> QED BY <1>1, <1>2, <1>3, <1>4, <1>5, <1>6

\* The queue's own steps: a worker that tells of a dead letter neither polls
\* nor has a heartbeat, and the others look to the queue as they are.
LEMMA QueueStepMaps ==
  ASSUME RunInv, QueueStep
  PROVE  Queue!Next
PROOF
<1>0. TypeInv /\ PhaseShape /\ UNCHANGED phase
  BY DEF RunInv, RowInv, QueueStep, runVars
<1>1. ASSUME UNCHANGED process
      PROVE  UNCHANGED Queue!process
  BY <1>0, <1>1, WorkersAlone
     DEF qProcess, Queue!process, qLoop, qHeld, qAttempt, qOutcome, qBeating
<1>2. ASSUME NEW j \in Jobs, Enqueue(j)
      PROVE  Queue!Next
  BY <1>1, <1>2 DEF Enqueue, Queue!Enqueue, Queue!Next
<1>3. ASSUME NEW j \in Jobs, Cancel(j)
      PROVE  Queue!Next
  BY <1>1, <1>3 DEF Cancel, Queue!Cancel, Queue!Next, Transition,
                    Queue!Transition
<1>4. ASSUME NEW j \in Jobs, LeaseExpires(j)
      PROVE  Queue!Next
  BY <1>1, <1>4 DEF LeaseExpires, Queue!LeaseExpires, Queue!Next
<1>5. ASSUME NEW j \in Jobs, BackoffElapses(j)
      PROVE  Queue!Next
  BY <1>1, <1>5 DEF BackoffElapses, Queue!BackoffElapses, Queue!Next
<1>6. ASSUME ReleaseElapsedBackoffs
      PROVE  Queue!Next
  BY <1>1, <1>6 DEF ReleaseElapsedBackoffs, ElapsedBackoffs,
                    Queue!ReleaseElapsedBackoffs, Queue!ElapsedBackoffs, Queue!Next
<1>7. ASSUME NEW reaped \in SUBSET ExpiredLeases, ReapExpiredLeases(reaped)
      PROVE  Queue!Next
  <2>1. Queue!ExpiredLeases = ExpiredLeases
    BY DEF Queue!ExpiredLeases, ExpiredLeases
  <2>2. Queue!ReapExpiredLeases(reaped)
    BY <1>1, <1>7, <2>1
       DEF ReapExpiredLeases, Queue!ReapExpiredLeases, Exhausted,
           Queue!Exhausted, Transition, Queue!Transition
  <2> QED BY <2>1, <2>2 DEF Queue!Next
<1>8. ASSUME NEW w \in Workers, loop[w] # "report"
      PROVE  ~Told(w) /\ ~Told(w)' /\ \A v \in Workers \ {w} : phase'[v] = phase[v]
  BY <1>0, <1>8 DEF TypeInv, TypeOK, PhaseShape, Told
<1>9. ASSUME NEW w \in Workers, NoAnalysisWaiting(w)
      PROVE  Queue!Next
  <2>1. /\ qLoop[w] = "poll" /\ qLoop' = [qLoop EXCEPT ![w] = "pollSimulation"]
        /\ UNCHANGED <<qHeld, qAttempt, qOutcome, qBeating>>
    BY <1>0, <1>8, <1>9, WorkerMoves DEF NoAnalysisWaiting
  <2>2. Queue!NoAnalysisWaiting(w)
    BY <1>9, <2>1 DEF NoAnalysisWaiting, Queue!NoAnalysisWaiting, Claimable,
                      Queue!Claimable, tables, Queue!tables,
                      qLoop, qHeld, qAttempt, qOutcome, qBeating
  <2> QED BY <2>2 DEF Queue!Next, Queue!Poll
<1>10. ASSUME NEW w \in Workers, NoSimulationWaiting(w)
       PROVE  Queue!Next
  <2>1. /\ qLoop[w] = "pollSimulation" /\ qLoop' = [qLoop EXCEPT ![w] = "poll"]
        /\ UNCHANGED <<qHeld, qAttempt, qOutcome, qBeating>>
    BY <1>0, <1>8, <1>10, WorkerMoves DEF NoSimulationWaiting
  <2>2. Queue!NoSimulationWaiting(w)
    BY <1>10, <2>1 DEF NoSimulationWaiting, Queue!NoSimulationWaiting, Claimable,
                       Queue!Claimable, tables, Queue!tables,
                       qLoop, qHeld, qAttempt, qOutcome, qBeating
  <2> QED BY <2>2 DEF Queue!Next, Queue!Poll
<1>11. ASSUME NEW w \in Workers, Heartbeat(w)
       PROVE  Queue!Next
  <2>0. loop[w] = "run" /\ beating[w]
    BY <1>11 DEF Heartbeat
  <2>1. /\ qLoop[w] = "run" /\ qBeating[w] /\ qHeld[w] = held[w]
        /\ UNCHANGED <<qLoop, qHeld, qAttempt, qOutcome>>
        /\ UNCHANGED beating => UNCHANGED qBeating
        /\ beating' = [beating EXCEPT ![w] = FALSE]
             => qBeating' = [qBeating EXCEPT ![w] = FALSE]
    BY <1>0, <1>8, <1>11, <2>0, WorkerMoves DEF Heartbeat
  <2>2. Queue!HoldsLease(w, held[w]) <=> HoldsLease(w, held[w])
    BY DEF Queue!HoldsLease, HoldsLease
  <2>3. Queue!Heartbeat(w)
    BY <1>11, <2>1, <2>2 DEF Heartbeat, Queue!Heartbeat,
                        qLoop, qHeld, qAttempt, qOutcome, qBeating
  <2> QED BY <2>3 DEF Queue!Next
<1>12. ASSUME NEW w \in Workers, HeartbeatError(w)
       PROVE  Queue!Next
  <2>1. /\ qLoop[w] = "run" /\ qBeating[w]
        /\ UNCHANGED <<qLoop, qHeld, qAttempt, qOutcome>>
        /\ qBeating' = [qBeating EXCEPT ![w] = FALSE]
    BY <1>0, <1>8, <1>12, WorkerMoves DEF HeartbeatError
  <2>2. Queue!HeartbeatError(w)
    BY <1>12, <2>1 DEF HeartbeatError, Queue!HeartbeatError, tables,
                       Queue!tables, qLoop, qHeld, qAttempt, qOutcome, qBeating
  <2> QED BY <2>2 DEF Queue!Next
<1> QED BY <1>2, <1>3, <1>4, <1>5, <1>6, <1>7, <1>9, <1>10, <1>11, <1>12
        DEF QueueStep

LEMMA RunStepMaps ==
  ASSUME RunInv, NEW w \in Workers, RunStep(w)
  PROVE  Queue!Next \/ UNCHANGED Queue!vars
PROOF
<1>0. TypeInv /\ RowTypes /\ PhaseShape
  BY DEF RunInv, RowInv
<1> USE DEF qLoop, qHeld, qAttempt, qOutcome, qBeating
<1>1. ASSUME NEW p, GoTo(w, p)
      PROVE  /\ \A v \in Workers \ {w} : phase'[v] = phase[v]
             /\ Told(w)' <=> p = "tellDeadLetter"
  BY <1>0, <1>1 DEF GoTo, RowTypes, Told
<1>2. loop[w] # "report" => ~Told(w)
  BY <1>0 DEF TypeInv, TypeOK, PhaseShape, Told
<1>3. ASSUME ~Told(w), BackToPolling(w), GoTo(w, "idle")
      PROVE  Queue!BackToPolling(w)
  <2>1. ~Told(w)' /\ \A v \in Workers \ {w} : phase'[v] = phase[v]
    BY <1>1, <1>3
  <2> QED BY <1>0, <1>3, <2>1, WorkerMoves DEF BackToPolling, Queue!BackToPolling
<1>4. ASSUME NEW o \in Outcomes, Return(w, o)
      PROVE  Queue!Next
  <2>1. RunReturns(w, o) /\ GoTo(w, "returning") /\ ~Told(w)
    BY <1>2, <1>4 DEF Return, RunReturns
  <2>2. ~Told(w)' /\ \A v \in Workers \ {w} : phase'[v] = phase[v]
    BY <1>1, <2>1
  <2>3. Queue!RunReturns(w, o)
    BY <1>0, <2>1, <2>2, WorkerMoves DEF RunReturns, Queue!RunReturns, tables,
                                         Queue!tables
  <2> QED BY <2>3 DEF Queue!Next, Queue!Outcomes, Outcomes
<1>5. CASE ClaimJob(w)
  <2>1. PICK j \in Jobs : ClaimAnalysis(w, j)
    BY <1>5 DEF ClaimJob
  <2>2. GoTo(w, "inputs") /\ loop[w] = "poll" /\ ~Told(w)
    BY <1>2, <1>5, <2>1 DEF ClaimJob, ClaimAnalysis
  <2>3. ~Told(w)' /\ \A v \in Workers \ {w} : phase'[v] = phase[v]
    BY <1>1, <2>2
  <2>4. Queue!TakeJob(w, j)
    BY <1>0, <2>1, <2>2, <2>3, WorkerMoves
       DEF ClaimAnalysis, TakeJob, Claim, Queue!TakeJob, Queue!Claim,
           Transition, Queue!Transition
  <2>5. Queue!ClaimAnalysis(w, j)
    BY <2>1, <2>2, <2>4 DEF ClaimAnalysis, Queue!ClaimAnalysis, Claimable,
                            Queue!Claimable
  <2> QED BY <2>5 DEF Queue!Next, Queue!Poll
<1>6. CASE \/ InputsRead(w) \/ PipelineFailsForGood(w) \/ PipelineSucceeds(w)
           \/ StageReported(w, "working")
  <2>1. /\ UNCHANGED <<tables, process>> /\ loop[w] = "run"
        /\ \/ UNCHANGED phase
           \/ \E p \in {"pipeline", "tell", "write"} : GoTo(w, p)
    BY <1>6 DEF InputsRead, PipelineFailsForGood, PipelineSucceeds,
                StageReported, InRun
  <2>2. /\ ~Told(w) /\ ~Told(w)'
        /\ \A v \in Workers \ {w} : phase'[v] = phase[v]
    BY <1>1, <1>2, <2>1 DEF Told
  <2> QED BY <1>0, <2>1, <2>2, WorkerMoves DEF tables, process, Queue!vars
<1>7. CASE \/ InputsUnavailable(w) \/ InputsRefused(w) \/ FailureUntold(w)
           \/ PipelineFailsForNow(w) \/ WriteFails(w) \/ TellFailure(w)
           \/ WriteResult(w) \/ NotificationAbortsWrite(w)
  BY <1>4, <1>7 DEF InputsUnavailable, InputsRefused, FailureUntold,
                    PipelineFailsForNow, WriteFails, TellFailure, WriteResult,
                    NotificationAbortsWrite, Outcomes
<1>8. ASSUME ~Told(w), loop[w] = "report", NEW e,
             e = EventFor(held[w], heldAttempt[w], outcome[w]),
             Queue!BackToPolling(w),
             IF HoldsLease(w, held[w]) THEN Finish(held[w], heldAttempt[w], e)
             ELSE UNCHANGED tables
      PROVE  Queue!Report(w)
  <2>1. /\ qLoop[w] = "report" /\ qHeld[w] = held[w]
        /\ qAttempt[w] = heldAttempt[w] /\ qOutcome[w] = outcome[w]
    BY <1>8
  <2>2. /\ Queue!HoldsLease(w, held[w]) <=> HoldsLease(w, held[w])
        /\ Queue!EventFor(held[w], heldAttempt[w], outcome[w]) = e
    BY <1>8 DEF Queue!HoldsLease, HoldsLease, Queue!EventFor, EventFor
  <2>3. IF Queue!HoldsLease(w, held[w])
        THEN Queue!Finish(held[w], heldAttempt[w], e)
        ELSE UNCHANGED Queue!tables
    BY <1>8, <2>2, SameFinish DEF tables, Queue!tables
  <2> QED BY <1>8, <2>1, <2>2, <2>3 DEF Queue!Report
<1>9. CASE ReportOutcome(w) \/ ReportError(w)
  <2>1. /\ phase[w] = "returning" /\ GoTo(w, "idle") /\ ~Told(w)
        /\ Report(w) \/ ReportLost(w)
    BY <1>9 DEF ReportOutcome, ReportError, Told
  <2>2. Queue!BackToPolling(w) /\ loop[w] = "report"
    BY <1>3, <2>1 DEF Report, ReportLost
  <2>3. CASE Report(w)
    BY <1>8, <2>1, <2>2, <2>3 DEF Report, Queue!Next
  <2>4. CASE ReportLost(w)
    BY <2>1, <2>2, <2>4 DEF ReportLost, Queue!ReportLost, Queue!Next, tables,
                            Queue!tables
  <2> QED BY <2>1, <2>3, <2>4
<1>10. CASE ReportDeadLetter(w)
  <2>1. /\ loop[w] = "report" /\ phase[w] = "returning" /\ ~Told(w)
        /\ GoTo(w, "tellDeadLetter") /\ UNCHANGED process
        /\ HoldsLease(w, held[w])
        /\ EventFor(held[w], heldAttempt[w], outcome[w]) = "attempts_exhausted"
        /\ Finish(held[w], heldAttempt[w], "attempts_exhausted")
    BY <1>10 DEF ReportDeadLetter, DeadLetters, Told
  <2>2. Told(w)' /\ \A v \in Workers \ {w} : Told(v)' <=> Told(v)
    BY <1>1, <2>1 DEF Told
  <2>3. Queue!BackToPolling(w)
    BY <1>0, <2>1, <2>2 DEF Queue!BackToPolling, process, TypeInv, TypeOK
  <2> QED BY <1>8, <2>1, <2>3 DEF Queue!Next
<1>11. CASE TellDeadLetter(w) \/ (Die(w) /\ Told(w))
  <2>1. /\ Told(w) /\ BackToPolling(w) /\ GoTo(w, "idle") /\ UNCHANGED tables
    BY <1>11 DEF TellDeadLetter, Die, Crash, Told
  <2>2. ~Told(w)' /\ \A v \in Workers \ {w} : Told(v)' <=> Told(v)
    BY <1>1, <2>1 DEF Told
  <2> QED BY <1>0, <2>1, <2>2 DEF BackToPolling, tables, Queue!vars, TypeInv,
                                  TypeOK
<1>12. CASE Die(w) /\ ~Told(w)
  <2>1. Queue!BackToPolling(w)
    BY <1>3, <1>12 DEF Die, Crash
  <2> QED BY <1>12, <2>1 DEF Die, Crash, Queue!Crash, Queue!Next, tables,
                             Queue!tables
<1>13. CASE Die(w)
  BY <1>11, <1>12, <1>13, Zenon
<1> QED BY <1>5, <1>6, <1>7, <1>9, <1>10, <1>11, <1>13, Zenon DEF RunStep

\* The runner drives the queue only as the queue's own specification allows.
\* The report of a dead letter is over, as far as the queue knows, when its
\* transaction has committed; what the worker still tells the customer, and a
\* crash before it does, are nothing to the queue.
THEOREM RunImplementsQueue == RunSpec => ImplementsQueue
PROOF
<1>1. RunInv /\ [RunNext]_allVars => [Queue!Next]_(Queue!vars)
  <2> SUFFICES ASSUME RunInv, [RunNext]_allVars
               PROVE  Queue!Next \/ UNCHANGED Queue!vars
    OBVIOUS
  <2>1. CASE UNCHANGED allVars
    BY <2>1 DEF allVars, Queue!vars, Told
  <2>2. CASE QueueStep
    BY <2>2, QueueStepMaps
  <2>3. ASSUME NEW w \in Workers, RunStep(w)
        PROVE  Queue!Next \/ UNCHANGED Queue!vars
    BY <2>3, RunStepMaps
  <2>4. ASSUME NEW j \in Jobs, NEW s \in {"working", "done"},
               StageWritten(j, s) \/ StageForgotten(j, s)
        PROVE  UNCHANGED Queue!vars
    BY <2>4 DEF StageWritten, StageForgotten, tables, process, Queue!vars, Told
  <2> QED BY <2>1, <2>2, <2>3, <2>4 DEF RunNext
<1> QED BY RunInvInit, RunInvStep, QueueInit, <1>1, PTL
        DEF RunSpec, ImplementsQueue, Queue!Spec

=============================================================================

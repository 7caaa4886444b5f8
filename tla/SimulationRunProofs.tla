------------------------ MODULE SimulationRunProofs ------------------------
(* Proofs about SimulationRun: it uses the queue as JobQueue specifies, so  *)
(* what is proved there holds here, and what it adds for its own rows.      *)
EXTENDS SimulationRun, JobQueueProofs

-----------------------------------------------------------------------------
(* Every step is a step of the queue or leaves it alone.                    *)

LEMMA StepOfQueue == [SimNext]_allVars => [Next]_vars
PROOF
<1> SUFFICES ASSUME [SimNext]_allVars
             PROVE  [Next]_vars
  OBVIOUS
<1> USE DEF vars, tables, process
<1>1. CASE UNCHANGED allVars
  BY <1>1 DEF allVars
<1>2. CASE QueueStep
  BY <1>2 DEF QueueStep, Next, Poll
<1>3. ASSUME NEW j \in Jobs, ApiStep(j)
      PROVE  [Next]_vars
  <2>1. CASE EnqueueRun(j)
    BY <2>1 DEF EnqueueRun, Next
  <2>2. CASE \E x \in {"inline", "queued"}, v \in Verdicts : StartRun(j, x, v)
    BY <2>2 DEF StartRun, WorkersUnchanged
  <2>3. CASE TakeSlot(j) \/ RefuseBusy(j) \/ InlineCompletes(j)
             \/ InlineFails(j) \/ RequestDies(j) \/ RequestCancel(j)
    BY <2>3 DEF TakeSlot, RefuseBusy, InlineCompletes, InlineFails,
                RequestDies, RequestCancel, WorkersUnchanged
  <2> QED
    BY <1>3, <2>1, <2>2, <2>3 DEF ApiStep
<1>4. ASSUME NEW w \in Workers, RunStep(w)
      PROVE  [Next]_vars
  <2>1. ASSUME NEW o \in Outcomes, Return(w, o)
        PROVE  Next
    BY <2>1 DEF Return, Next
  <2>2. CASE ClaimRun(w)
    BY <2>2 DEF ClaimRun, Next, Poll
  <2>3. CASE LoadRun(w)
    BY <2>3, <2>1 DEF LoadRun, Outcomes
  <2>4. CASE Refuse(w) \/ StoreUnavailable(w) \/ MarkRunning(w)
    BY <2>4, <2>1 DEF Refuse, StoreUnavailable, MarkRunning, Outcomes
  <2>5. CASE StartEngine(w) \/ Watch(w) \/ EngineEnds(w)
    BY <2>5 DEF StartEngine, Watch, EngineEnds
  <2>6. CASE WriteCompletion(w) \/ WriteCancellation(w) \/ WriteFailure(w)
             \/ WritePanic(w)
    BY <2>6, <2>1 DEF WriteCompletion, WriteCancellation, WriteFailure,
                      WritePanic, Committed, Outcomes
  <2>7. CASE ReportRun(w)
    BY <2>7 DEF ReportRun, Next
  <2>8. CASE Die(w)
    BY <2>8 DEF Die, Next
  <2> QED
    BY <1>4, <2>2, <2>3, <2>4, <2>5, <2>6, <2>7, <2>8 DEF RunStep
<1> QED
  BY <1>1, <1>2, <1>3, <1>4 DEF SimNext

\* Runs started, cancelled, computed and reported in every interleaving drive
\* the queue only as its own specification allows: each theorem about Spec is
\* one about SimSpec.
THEOREM SimulationsUseQueue == SimSpec => Spec
PROOF
<1>1. SimInit => Init
  BY DEF SimInit
<1> QED
  BY <1>1, StepOfQueue, PTL DEF SimSpec, Spec

-----------------------------------------------------------------------------
(* The rows.                                                                *)

RowTypes ==
  /\ run \in [Jobs -> {"absent", "queued", "running", "succeeded", "failed",
                       "cancelled"}]
  /\ cancelReq \in [Jobs -> BOOLEAN]
  /\ stats \subseteq Jobs
  /\ execution \in [Jobs -> {"none", "inline", "queued"}]
  /\ verdict \in [Jobs -> Verdicts \cup {"none"}]
  /\ request \in [Jobs -> {"none", "created", "computing", "over"}]
  /\ phase \in [Workers -> {"idle", "load", "mark", "compile", "engine",
                            "cancel", "complete", "fail", "panic",
                            "returning"}]
  /\ stopFlag \in [Workers -> BOOLEAN]

\* Who may write a row: its request while that computes, and workers only if
\* it was meant for the queue.
WritersInv ==
  /\ \A j \in Jobs :
       /\ request[j] = "none" => run[j] = "absent" /\ execution[j] = "none"
       /\ request[j] \in {"created", "computing"} /\ execution[j] = "inline"
            => run[j] = "queued"
       /\ request[j] = "computing" => execution[j] = "inline"
       /\ state[j] # "absent" => execution[j] = "queued"
  /\ \A w \in Workers :
       loop[w] \in {"run", "report"} => execution[held[w]] = "queued"

\* A cancellation on its way to the row is one that somebody asked for.
AskedInv ==
  \A w \in Workers :
    /\ stopFlag[w] => loop[w] = "run" /\ cancelReq[held[w]]
    /\ loop[w] = "run" /\ phase[w] = "cancel" => cancelReq[held[w]]

\* What a worker is about to write of a run that was let finish, and a failed
\* row, agree with what the engine makes of the run.
VerdictInv ==
  /\ \A w \in Workers : loop[w] = "run" =>
       /\ phase[w] = "complete" => verdict[held[w]] = "finishes"
       /\ phase[w] \in {"fail", "panic"} => verdict[held[w]] # "finishes"
  /\ \A j \in Jobs :
       run[j] = "failed" /\ execution[j] = "queued" => verdict[j] # "finishes"

SimInv ==
  /\ RowTypes
  /\ WritersInv
  /\ AskedInv
  /\ VerdictInv
  /\ StatisticsIffSucceeded
  /\ CancelledOnlyOnRequest

\* The queue's own steps neither hand out nor take away a run, and no row of
\* jobs disappears.
LEMMA QueueKeepsHolders ==
  ASSUME TypeInv, QueueStep
  PROVE  /\ held' = held
         /\ \A w \in Workers : loop'[w] = loop[w]
                               \/ {loop[w], loop'[w]} \subseteq
                                    {"poll", "pollSimulation"}
         /\ \A j \in Jobs : state[j] = "absent" => state'[j] = "absent"
         /\ UNCHANGED simVars
PROOF
<1> USE DEF TypeInv, TypeOK, process, tables
<1>1. UNCHANGED simVars
  BY DEF QueueStep
<1>2. CASE \E j \in Jobs : LeaseExpires(j) \/ BackoffElapses(j)
  BY <1>1, <1>2 DEF LeaseExpires, BackoffElapses
<1>3. CASE ReleaseElapsedBackoffs
  BY <1>1, <1>3 DEF ReleaseElapsedBackoffs, ElapsedBackoffs
<1>4. CASE \E reaped \in SUBSET ExpiredLeases : ReapExpiredLeases(reaped)
  BY <1>1, <1>4 DEF ReapExpiredLeases, ExpiredLeases
<1>5. CASE \E w \in Workers : NoAnalysisWaiting(w) \/ NoSimulationWaiting(w)
  BY <1>1, <1>5 DEF NoAnalysisWaiting, NoSimulationWaiting
<1>6. CASE \E w \in Workers : Heartbeat(w) \/ HeartbeatError(w)
  BY <1>1, <1>6 DEF Heartbeat, HeartbeatError
<1> QED
  BY <1>2, <1>3, <1>4, <1>5, <1>6 DEF QueueStep

\* A step inside a run leaves the rows of jobs as they are, and the worker
\* with the run it had.
LEMMA ReturnKeepsRun ==
  ASSUME TypeInv, NEW w \in Workers, NEW o \in Outcomes, Return(w, o)
  PROVE  /\ held' = held /\ state' = state
         /\ loop[w] = "run"
         /\ loop' = [loop EXCEPT ![w] = "report"]
         /\ phase' = [phase EXCEPT ![w] = "returning"]
         /\ stopFlag' = [stopFlag EXCEPT ![w] = FALSE]
BY DEF Return, RunReturns, GoTo, tables

LEMMA SimInvInit == SimInit => SimInv
BY DEF SimInit, Init, SimInv, RowTypes, WritersInv, AskedInv, VerdictInv,
       StatisticsIffSucceeded, CancelledOnlyOnRequest

LEMMA SimInvQueueStep ==
  ASSUME TypeInv, SimInv, QueueStep
  PROVE  SimInv'
PROOF
<1>1. /\ held' = held
      /\ \A w \in Workers : loop'[w] = loop[w]
                            \/ {loop[w], loop'[w]} \subseteq
                                 {"poll", "pollSimulation"}
      /\ \A j \in Jobs : state[j] = "absent" => state'[j] = "absent"
      /\ UNCHANGED simVars
  BY QueueKeepsHolders
<1>2. RowTypes' /\ StatisticsIffSucceeded' /\ CancelledOnlyOnRequest'
  BY <1>1 DEF SimInv, RowTypes, simVars, StatisticsIffSucceeded,
              CancelledOnlyOnRequest
<1>3. \A w \in Workers : loop'[w] \in {"run", "report"} => loop'[w] = loop[w]
  BY <1>1
<1>4. WritersInv'
  BY <1>1, <1>3 DEF SimInv, WritersInv, simVars
<1>5. \A w \in Workers : loop[w] = "run" <=> loop'[w] = "run"
  BY <1>1
<1>6. AskedInv' /\ VerdictInv'
  BY <1>1, <1>5 DEF SimInv, AskedInv, VerdictInv, simVars
<1> QED
  BY <1>2, <1>4, <1>6 DEF SimInv

LEMMA SimInvApiStep ==
  ASSUME TypeInv, SimInv, NEW j \in Jobs, ApiStep(j)
  PROVE  SimInv'
PROOF
<1> USE DEF SimInv, RowTypes, WritersInv, AskedInv, VerdictInv,
            StatisticsIffSucceeded, CancelledOnlyOnRequest, TypeInv, TypeOK,
            WorkerShape, WorkersUnchanged, Over, rowVars, fixed, tables,
            process
<1>1. ASSUME NEW x \in {"inline", "queued"}, NEW v \in Verdicts,
             StartRun(j, x, v)
      PROVE  SimInv'
  BY <1>1 DEF StartRun, Verdicts
<1>2. CASE EnqueueRun(j)
  BY <1>2 DEF EnqueueRun, Enqueue
<1>3. CASE TakeSlot(j)
  BY <1>3 DEF TakeSlot
<1>4. CASE RefuseBusy(j)
  BY <1>4 DEF RefuseBusy, FailRun
<1>5. CASE InlineCompletes(j)
  BY <1>5 DEF InlineCompletes, CompleteRun
<1>6. CASE InlineFails(j)
  BY <1>6 DEF InlineFails, FailRun
<1>7. CASE RequestDies(j)
  BY <1>7 DEF RequestDies
<1>8. CASE RequestCancel(j)
  BY <1>8 DEF RequestCancel
<1> QED
  BY <1>1, <1>2, <1>3, <1>4, <1>5, <1>6, <1>7, <1>8 DEF ApiStep

\* What a step of a worker inside its run may do to the rows.
RowsWritten ==
  /\ run' \in [Jobs -> {"absent", "queued", "running", "succeeded", "failed",
                        "cancelled"}]
  /\ stats' \subseteq Jobs
  /\ cancelReq' = cancelReq
  /\ UNCHANGED <<request, execution, verdict>>
  /\ \A j \in Jobs : /\ j \in stats' <=> run'[j] = "succeeded"
                     /\ run'[j] = "cancelled" => cancelReq[j]
                     /\ run'[j] # run[j] => execution[j] = "queued"
                     /\ run'[j] = "failed" /\ execution[j] = "queued"
                          => verdict[j] # "finishes"

LEMMA SimInvReturn ==
  ASSUME TypeInv, SimInv, NEW w \in Workers, NEW o \in Outcomes,
         Return(w, o), RowsWritten
  PROVE  SimInv'
PROOF
<1>1. /\ loop \in [Workers -> {"poll", "pollSimulation", "run", "report"}]
      /\ held \in [Workers -> Jobs \cup {NoJob}]
      /\ \A v \in Workers : loop[v] \in {"run", "report"} => held[v] \in Jobs
  BY DEF TypeInv, TypeOK, WorkerShape
<1>2. /\ held' = held /\ state' = state
      /\ loop[w] = "run"
      /\ loop' = [loop EXCEPT ![w] = "report"]
      /\ phase' = [phase EXCEPT ![w] = "returning"]
      /\ stopFlag' = [stopFlag EXCEPT ![w] = FALSE]
  BY ReturnKeepsRun
<1>3. RowTypes'
  BY <1>2 DEF SimInv, RowTypes, RowsWritten
<1>4. WritersInv'
  BY <1>1, <1>2 DEF SimInv, RowTypes, WritersInv, RowsWritten
<1>5. AskedInv'
  BY <1>1, <1>2 DEF SimInv, RowTypes, AskedInv, RowsWritten
<1>6. VerdictInv'
  BY <1>1, <1>2 DEF SimInv, RowTypes, VerdictInv, RowsWritten
<1>7. StatisticsIffSucceeded' /\ CancelledOnlyOnRequest'
  BY DEF RowsWritten, StatisticsIffSucceeded, CancelledOnlyOnRequest
<1> QED
  BY <1>3, <1>4, <1>5, <1>6, <1>7 DEF SimInv

\* A step that only moves the worker on inside its run.
LEMMA SimInvMove ==
  ASSUME TypeInv, SimInv, NEW w \in Workers, loop[w] = "run", RowsWritten,
         UNCHANGED tables, UNCHANGED process,
         NEW p \in {"mark", "compile", "engine", "cancel", "complete", "fail",
                    "panic"},
         NEW f \in BOOLEAN,
         phase' = [phase EXCEPT ![w] = p],
         stopFlag' = [stopFlag EXCEPT ![w] = f],
         f \/ p = "cancel" => cancelReq[held[w]],
         p = "complete" => verdict[held[w]] = "finishes",
         p \in {"fail", "panic"} => verdict[held[w]] # "finishes"
  PROVE  SimInv'
PROOF
<1>1. held' = held /\ state' = state /\ loop' = loop
  BY DEF tables, process
<1>3. RowTypes'
  BY DEF SimInv, RowTypes, RowsWritten
<1>4. WritersInv'
  BY <1>1 DEF SimInv, RowTypes, WritersInv, RowsWritten
<1>5. AskedInv'
  BY <1>1 DEF SimInv, RowTypes, AskedInv, RowsWritten
<1>6. VerdictInv'
  BY <1>1 DEF SimInv, RowTypes, VerdictInv, RowsWritten
<1>7. StatisticsIffSucceeded' /\ CancelledOnlyOnRequest'
  BY DEF RowsWritten, StatisticsIffSucceeded, CancelledOnlyOnRequest
<1> QED
  BY <1>3, <1>4, <1>5, <1>6, <1>7 DEF SimInv

LEMMA SimInvRunStep ==
  ASSUME TypeInv, SimInv, NEW w \in Workers, RunStep(w)
  PROVE  SimInv'
PROOF
<1> DEFINE j == held[w]
<1>1. loop[w] = "run" => j \in Jobs /\ execution[j] = "queued"
  BY DEF TypeInv, WorkerShape, SimInv, WritersInv
<1>2. ASSUME UNCHANGED rowVars, Elsewhere
      PROVE  RowsWritten
  BY <1>2 DEF RowsWritten, SimInv, RowTypes, rowVars, fixed, Elsewhere,
              StatisticsIffSucceeded, CancelledOnlyOnRequest, VerdictInv
<1>3. CASE ClaimRun(w)
  <2>1. PICK i \in Jobs : ClaimSimulation(w, i)
    BY <1>3 DEF ClaimRun
  <2>2. /\ loop[w] = "pollSimulation" /\ state[i] = "queued"
        /\ loop' = [loop EXCEPT ![w] = "run"]
        /\ held' = [held EXCEPT ![w] = i]
        /\ state' = [state EXCEPT ![i] = "running"]
        /\ phase' = [phase EXCEPT ![w] = "load"]
    BY <1>3, <2>1 DEF ClaimRun, ClaimSimulation, Claimable, TakeJob, Claim,
                      GoTo
  <2>3. UNCHANGED <<rowVars, request, fixed, stopFlag>>
    BY <1>3 DEF ClaimRun
  <2>4. /\ loop \in [Workers -> {"poll", "pollSimulation", "run", "report"}]
        /\ held \in [Workers -> Jobs \cup {NoJob}]
        /\ state \in [Jobs -> Lifecycle!AnalysisState \cup {"absent"}]
    BY DEF TypeInv, TypeOK
  <2>5. RowTypes' /\ StatisticsIffSucceeded' /\ CancelledOnlyOnRequest'
    BY <2>2, <2>3 DEF SimInv, RowTypes, rowVars, fixed,
                      StatisticsIffSucceeded, CancelledOnlyOnRequest
  <2>6. WritersInv'
    BY <2>2, <2>3, <2>4 DEF SimInv, WritersInv, rowVars, fixed
  <2>7. AskedInv' /\ VerdictInv'
    BY <2>2, <2>3, <2>4 DEF SimInv, RowTypes, AskedInv, VerdictInv, rowVars,
                            fixed
  <2> QED
    BY <2>5, <2>6, <2>7 DEF SimInv
<1>4. ASSUME NEW p \in {"mark", "compile", "engine", "cancel", "complete",
                        "fail", "panic"},
             InRun(w, phase[w]), GoTo(w, p), UNCHANGED stopFlag,
             UNCHANGED tables, UNCHANGED process, RowsWritten,
             p = "cancel" => cancelReq[j],
             p = "complete" => verdict[j] = "finishes",
             p \in {"fail", "panic"} => verdict[j] # "finishes"
      PROVE  SimInv'
  <2>1. /\ stopFlag' = [stopFlag EXCEPT ![w] = stopFlag[w]]
        /\ stopFlag[w] \in BOOLEAN
        /\ stopFlag[w] => cancelReq[held[w]]
    BY <1>4 DEF SimInv, RowTypes, AskedInv
  <2> QED
    BY <1>4, <2>1, SimInvMove DEF InRun, GoTo
<1>5. CASE LoadRun(w)
  <2>1. RowsWritten
    BY <1>2, <1>5 DEF LoadRun
  <2>2. CASE Return(w, "ok")
    BY <2>1, <2>2, SimInvReturn DEF Outcomes
  <2>3. CASE /\ ShouldRun(run[j], cancelReq[j]) /\ GoTo(w, "mark")
             /\ UNCHANGED <<stopFlag, tables, process>>
    BY <1>4, <1>5, <2>1, <2>3 DEF LoadRun, InRun
  <2>4. CASE /\ ~ShouldRun(run[j], cancelReq[j]) /\ ~IsTerminal(run[j])
             /\ GoTo(w, "cancel")
             /\ UNCHANGED <<stopFlag, tables, process>>
    <3>1. cancelReq[j]
      BY <2>4 DEF ShouldRun
    <3> QED
      BY <1>4, <1>5, <2>1, <2>4, <3>1 DEF LoadRun, InRun
  <2> QED
    BY <1>5, <2>2, <2>3, <2>4 DEF LoadRun
<1>6. CASE Refuse(w) \/ StoreUnavailable(w)
  BY <1>2, <1>6, SimInvReturn DEF Refuse, StoreUnavailable, Outcomes
<1>7. CASE MarkRunning(w)
  <2>1. RowsWritten
    BY <1>1, <1>7 DEF MarkRunning, InRun, RowsWritten, SimInv, RowTypes,
                      fixed, Elsewhere, StatisticsIffSucceeded,
                      CancelledOnlyOnRequest, VerdictInv
  <2>2. CASE Return(w, "transient")
    BY <2>1, <2>2, SimInvReturn DEF Outcomes
  <2>3. CASE GoTo(w, "compile") /\ UNCHANGED <<stopFlag, tables, process>>
    BY <1>4, <1>7, <2>1, <2>3 DEF MarkRunning, InRun
  <2> QED
    BY <1>7, <2>2, <2>3 DEF MarkRunning
<1>8. CASE StartEngine(w)
  BY <1>2, <1>8, SimInvMove DEF StartEngine, InRun, GoTo
<1>9. CASE Watch(w)
  <2>1. phase' = [phase EXCEPT ![w] = "engine"]
    BY <1>9 DEF Watch, InRun, SimInv, RowTypes
  <2> QED
    BY <1>2, <1>9, <2>1, SimInvMove DEF Watch, InRun
<1>10. CASE EngineEnds(w)
  <2>1. stopFlag[w] => cancelReq[j]
    BY DEF SimInv, AskedInv
  <2>2. RowsWritten /\ InRun(w, phase[w])
    BY <1>2, <1>10 DEF EngineEnds, InRun
  <2>3. CASE stopFlag[w] /\ GoTo(w, "cancel")
    BY <1>4, <1>10, <2>1, <2>2, <2>3 DEF EngineEnds
  <2>4. CASE verdict[j] = "finishes" /\ GoTo(w, "complete")
    BY <1>4, <1>10, <2>2, <2>4 DEF EngineEnds
  <2>5. CASE verdict[j] = "fails" /\ GoTo(w, "fail")
    BY <1>4, <1>10, <2>2, <2>5 DEF EngineEnds
  <2>6. CASE verdict[j] = "panics" /\ GoTo(w, "panic")
    BY <1>4, <1>10, <2>2, <2>6 DEF EngineEnds
  <2> QED
    BY <1>10, <2>3, <2>4, <2>5, <2>6 DEF EngineEnds
<1>11. CASE WriteCompletion(w)
  <2>1. verdict[j] = "finishes"
    BY <1>11 DEF WriteCompletion, InRun, SimInv, VerdictInv
  <2>2. ASSUME CompleteRun(j)
        PROVE  RowsWritten
    BY <1>1, <1>11, <2>1, <2>2
       DEF WriteCompletion, CompleteRun, InRun, RowsWritten, SimInv, RowTypes,
           fixed, Elsewhere, StatisticsIffSucceeded, CancelledOnlyOnRequest,
           VerdictInv
  <2> QED
    BY <1>2, <1>11, <2>2, SimInvReturn DEF WriteCompletion, Committed,
                                           Outcomes
<1>12. CASE WriteCancellation(w)
  <2>1. cancelReq[j]
    BY <1>12 DEF WriteCancellation, InRun, SimInv, AskedInv
  <2>2. RowsWritten
    BY <1>1, <1>12, <2>1
       DEF WriteCancellation, CancelRun, InRun, RowsWritten, SimInv, RowTypes,
           fixed, Elsewhere, StatisticsIffSucceeded, CancelledOnlyOnRequest,
           VerdictInv
  <2> QED
    BY <1>12, <2>2, SimInvReturn DEF WriteCancellation, Committed, Outcomes
<1>13. CASE WriteFailure(w) \/ WritePanic(w)
  <2>1. verdict[j] # "finishes"
    BY <1>13 DEF WriteFailure, WritePanic, InRun, SimInv, VerdictInv
  <2>2. ASSUME FailRun(j)
        PROVE  RowsWritten
    BY <1>1, <1>13, <2>1, <2>2
       DEF WriteFailure, WritePanic, FailRun, InRun, RowsWritten, SimInv,
           RowTypes, fixed, Elsewhere, StatisticsIffSucceeded,
           CancelledOnlyOnRequest, VerdictInv
  <2> QED
    BY <1>2, <1>13, <2>2, SimInvReturn DEF WriteFailure, WritePanic,
                                           Committed, Outcomes
<1>14. CASE ReportRun(w) \/ Die(w)
  <2>1. /\ loop' = [loop EXCEPT ![w] = "poll"]
        /\ held' = [held EXCEPT ![w] = NoJob]
        /\ BackToIdle(w)
    BY <1>14 DEF ReportRun, Die, Report, ReportLost, Crash, BackToPolling
  <2>2. /\ loop \in [Workers -> {"poll", "pollSimulation", "run", "report"}]
        /\ held \in [Workers -> Jobs \cup {NoJob}]
        /\ state \in [Jobs -> Lifecycle!AnalysisState \cup {"absent"}]
        /\ loop[w] \in {"run", "report"} => held[w] \in Jobs
    BY DEF TypeInv, TypeOK, WorkerShape
  <2>3. \A i \in Jobs : state'[i] # "absent" => execution[i] = "queued"
    BY <1>14, <2>2
       DEF ReportRun, Die, Report, ReportLost, Crash, Finish, tables, SimInv,
           WritersInv
  <2>4. RowTypes' /\ StatisticsIffSucceeded' /\ CancelledOnlyOnRequest'
    BY <2>1 DEF BackToIdle, Elsewhere, GoTo, rowVars, fixed, SimInv, RowTypes,
                StatisticsIffSucceeded, CancelledOnlyOnRequest
  <2>5. WritersInv'
    BY <2>1, <2>2, <2>3 DEF BackToIdle, Elsewhere, rowVars, fixed, SimInv,
                            WritersInv
  <2>6. AskedInv' /\ VerdictInv'
    BY <2>1, <2>2 DEF BackToIdle, Elsewhere, GoTo, rowVars, fixed, SimInv,
                      RowTypes, AskedInv, VerdictInv
  <2> QED
    BY <2>4, <2>5, <2>6 DEF SimInv
<1> QED
  BY <1>3, <1>5, <1>6, <1>7, <1>8, <1>9, <1>10, <1>11, <1>12, <1>13, <1>14
     DEF RunStep

LEMMA SimInvStep == TypeInv /\ SimInv /\ [SimNext]_allVars => SimInv'
PROOF
<1> SUFFICES ASSUME TypeInv, SimInv, [SimNext]_allVars
             PROVE  SimInv'
  OBVIOUS
<1>1. CASE UNCHANGED allVars
  BY <1>1 DEF allVars, SimInv, RowTypes, WritersInv, AskedInv, VerdictInv,
              StatisticsIffSucceeded, CancelledOnlyOnRequest
<1> QED
  BY <1>1, SimInvQueueStep, SimInvApiStep, SimInvRunStep DEF SimNext

LEMMA SimInvariant == SimSpec => [](TypeInv /\ SimInv)
PROOF
<1>1. SimInit => TypeInv /\ SimInv
  BY TypeInit, SimInvInit DEF SimInit
<1>2. TypeInv /\ SimInv /\ [SimNext]_allVars => TypeInv' /\ SimInv'
  BY StepOfQueue, TypeStep, SimInvStep
<1> QED
  BY <1>1, <1>2, PTL DEF SimSpec

\* The columns of simulation_runs and the workers' positions keep their types.
THEOREM SimTypeCorrect == SimSpec => []SimTypeOK
PROOF
<1>1. TypeInv /\ SimInv => SimTypeOK
  BY DEF TypeInv, SimInv, RowTypes, SimTypeOK
<1> QED
  BY <1>1, SimInvariant, PTL

\* complete_run's promise for any number of runs, workers and attempts: the
\* statistics of a run are stored exactly when its row says succeeded.
THEOREM StatisticsStayWithState == SimSpec => []StatisticsIffSucceeded
PROOF
<1>1. SimInv => StatisticsIffSucceeded
  BY DEF SimInv
<1> QED
  BY <1>1, SimInvariant, PTL

\* No blip, retry or engine error cancels a run: the cancel route did.
THEOREM NoUnaskedCancellation == SimSpec => []CancelledOnlyOnRequest
PROOF
<1>1. SimInv => CancelledOnlyOnRequest
  BY DEF SimInv
<1> QED
  BY <1>1, SimInvariant, PTL

-----------------------------------------------------------------------------
(* What finished stays finished.                                            *)

LEMMA FinishedStep ==
  ASSUME TypeInv, SimInv, SimNext, NEW j \in Jobs, IsTerminal(run[j])
  PROVE  run'[j] = run[j] \/ (run[j] = "cancelled" /\ run'[j] = "succeeded")
PROOF
<1>1. run \in [Jobs -> {"absent", "queued", "running", "succeeded", "failed",
                        "cancelled"}]
  BY DEF SimInv, RowTypes
<1>2. ASSUME NEW i, FailRun(i) \/ CancelRun(i)
      PROVE  run'[j] = run[j] \/ (run[j] = "cancelled" /\ run'[j] = "succeeded")
  BY <1>1, <1>2 DEF FailRun, CancelRun, IsTerminal
<1>3. CASE QueueStep
  BY <1>3 DEF QueueStep, simVars
<1>4. ASSUME NEW i \in Jobs, ApiStep(i)
      PROVE  run'[j] = run[j] \/ (run[j] = "cancelled" /\ run'[j] = "succeeded")
  <2>1. CASE \E x \in {"inline", "queued"}, v \in Verdicts : StartRun(i, x, v)
    BY <1>1, <2>1 DEF StartRun, SimInv, WritersInv, IsTerminal
  <2>2. CASE RefuseBusy(i) \/ InlineFails(i)
    BY <1>2, <2>2 DEF RefuseBusy, InlineFails
  <2>3. CASE InlineCompletes(i)
    BY <1>1, <2>3 DEF InlineCompletes, CompleteRun, SimInv, WritersInv,
                      IsTerminal
  <2>4. CASE EnqueueRun(i) \/ TakeSlot(i) \/ RequestDies(i) \/ RequestCancel(i)
    BY <2>4 DEF EnqueueRun, TakeSlot, RequestDies, RequestCancel, rowVars
  <2> QED
    BY <1>4, <2>1, <2>2, <2>3, <2>4 DEF ApiStep
<1>5. ASSUME NEW w \in Workers, RunStep(w)
      PROVE  run'[j] = run[j] \/ (run[j] = "cancelled" /\ run'[j] = "succeeded")
  <2>1. CASE WriteCompletion(w)
    <3>1. held[w] = j => verdict[j] = "finishes" /\ execution[j] = "queued"
      BY <2>1 DEF WriteCompletion, InRun, SimInv, VerdictInv, WritersInv
    <3>2. run[j] # "failed" \/ held[w] # j
      BY <3>1 DEF SimInv, VerdictInv
    <3> QED
      BY <1>1, <2>1, <3>2 DEF WriteCompletion, CompleteRun, rowVars,
                              IsTerminal
  <2>2. CASE WriteCancellation(w) \/ WriteFailure(w) \/ WritePanic(w)
    BY <1>2, <2>2 DEF WriteCancellation, WriteFailure, WritePanic, rowVars
  <2>3. CASE MarkRunning(w)
    BY <1>1, <2>3 DEF MarkRunning, IsTerminal
  <2>4. CASE ClaimRun(w) \/ LoadRun(w) \/ Refuse(w) \/ StoreUnavailable(w)
             \/ StartEngine(w) \/ Watch(w) \/ EngineEnds(w)
    BY <2>4 DEF ClaimRun, LoadRun, Refuse, StoreUnavailable, StartEngine,
                Watch, EngineEnds, rowVars
  <2>5. CASE ReportRun(w) \/ Die(w)
    BY <2>5 DEF ReportRun, Die, BackToIdle, rowVars
  <2> QED
    BY <1>5, <2>1, <2>2, <2>3, <2>4, <2>5 DEF RunStep
<1> QED
  BY <1>3, <1>4, <1>5 DEF SimNext

\* However many workers compute a run, only the completion of a run that
\* another worker stopped on request changes the state of a finished one.
THEOREM OnlyLateCompletions == SimSpec => FinishedRunsKeepState
PROOF
<1>1. TypeInv /\ SimInv /\ [SimNext]_allVars =>
        [\A j \in Jobs : IsTerminal(run[j]) =>
           \/ run'[j] = run[j]
           \/ run[j] = "cancelled" /\ run'[j] = "succeeded"]_allVars
  BY FinishedStep
<1> QED
  BY <1>1, SimInvariant, PTL DEF SimSpec, FinishedRunsKeepState

-----------------------------------------------------------------------------
(* A job reported done.                                                     *)

\* A worker reports success only of a run it has left finished.
DoneInv ==
  /\ \A w \in Workers : loop[w] = "report" /\ outcome[w] = "ok"
                          => IsTerminal(run[held[w]])
  /\ JobDoneMeansRunDone

\* Of a worker's steps inside its run, the ones that return success find or
\* leave the run finished.
LEMMA SuccessfulReturn ==
  ASSUME TypeInv, SimInv, NEW w \in Workers, RunStep(w), Return(w, "ok")
  PROVE  IsTerminal(run'[held[w]])
PROOF
<1>1. /\ run \in [Jobs -> {"absent", "queued", "running", "succeeded",
                           "failed", "cancelled"}]
      /\ loop[w] = "run" => held[w] \in Jobs
      /\ loop \in [Workers -> {"poll", "pollSimulation", "run", "report"}]
      /\ outcome \in [Workers -> Outcomes \cup {"none"}]
  BY DEF SimInv, RowTypes, TypeInv, TypeOK, WorkerShape
<1>2. /\ loop[w] = "run" /\ loop'[w] = "report" /\ outcome'[w] = "ok"
      /\ phase' = [phase EXCEPT ![w] = "returning"]
  BY <1>1 DEF Return, RunReturns, GoTo
<1>3. \A o \in Outcomes : Return(w, o) => o = "ok"
  BY <1>1, <1>2 DEF Return, RunReturns
<1>4. ~ClaimRun(w) /\ ~ReportRun(w) /\ ~Die(w)
  BY <1>1, <1>2 DEF ClaimRun, ClaimSimulation, ReportRun, Report, ReportLost,
                    Die, Crash, BackToPolling
<1>5. ~StartEngine(w) /\ ~Watch(w) /\ ~EngineEnds(w)
  BY <1>2 DEF StartEngine, Watch, EngineEnds, process
<1>6. ~Refuse(w) /\ ~StoreUnavailable(w) /\ ~WriteFailure(w) /\ ~WritePanic(w)
  BY <1>3 DEF Refuse, StoreUnavailable, WriteFailure, WritePanic, Committed,
              Outcomes
<1>7. ~MarkRunning(w)
  BY <1>2, <1>3 DEF MarkRunning, process, Outcomes
<1>8. CASE LoadRun(w)
  BY <1>2, <1>8 DEF LoadRun, process, rowVars
<1>9. CASE WriteCompletion(w)
  BY <1>1, <1>2, <1>3, <1>9 DEF WriteCompletion, CompleteRun, IsTerminal,
                                Outcomes
<1>10. CASE WriteCancellation(w)
  BY <1>1, <1>2, <1>10 DEF WriteCancellation, CancelRun, IsTerminal
<1> QED
  BY <1>4, <1>5, <1>6, <1>7, <1>8, <1>9, <1>10 DEF RunStep

LEMMA ReportedSuccess ==
  ASSUME TypeInv, NEW w \in Workers, Report(w), NEW j \in Jobs,
         state'[j] = "succeeded", state[j] # "succeeded"
  PROVE  j = held[w] /\ loop[w] = "report" /\ outcome[w] = "ok"
PROOF
<1>1. /\ state \in [Jobs -> Lifecycle!AnalysisState \cup {"absent"}]
      /\ loop[w] = "report" /\ outcome[w] \in Outcomes
  BY DEF TypeInv, TypeOK, WorkerShape, Report
<1> DEFINE e == EventFor(held[w], heldAttempt[w], outcome[w])
<1>2. state' = [state EXCEPT ![held[w]] = NextOf(e)]
  BY <1>1 DEF Report, Finish, tables
<1>3. j = held[w] /\ NextOf(e) = "succeeded"
  BY <1>1, <1>2
<1>4. outcome[w] # "ok" => e \in {"permanent_failure", "attempts_exhausted",
                                  "transient_failure"}
  BY <1>1 DEF EventFor, Outcomes
<1>5. outcome[w] = "ok"
  BY <1>3, <1>4, NextOfValues
<1> QED
  BY <1>1, <1>3, <1>5

LEMMA DoneInvStep ==
  TypeInv /\ SimInv /\ DoneInv /\ [SimNext]_allVars => DoneInv'
PROOF
<1> SUFFICES ASSUME TypeInv, SimInv, DoneInv, [SimNext]_allVars
             PROVE  DoneInv'
  OBVIOUS
<1>1. \A j \in Jobs : IsTerminal(run[j]) => IsTerminal(run'[j])
  BY FinishedStep DEF allVars, IsTerminal
<1>2. /\ loop \in [Workers -> {"poll", "pollSimulation", "run", "report"}]
      /\ held \in [Workers -> Jobs \cup {NoJob}]
      /\ outcome \in [Workers -> Outcomes \cup {"none"}]
      /\ state \in [Jobs -> Lifecycle!AnalysisState \cup {"absent"}]
      /\ \A w \in Workers : loop[w] \in {"run", "report"} => held[w] \in Jobs
  BY DEF TypeInv, TypeOK, WorkerShape
<1>3. \* What has to be shown of a step: a new report of success, or a job
      \* newly succeeded, is of a finished run.
      ASSUME \A w \in Workers :
               loop'[w] = "report" /\ outcome'[w] = "ok" =>
                 \/ IsTerminal(run'[held'[w]])
                 \/ /\ loop[w] = "report" /\ outcome[w] = "ok"
                    /\ held'[w] = held[w],
             \A j \in Jobs :
               state'[j] = "succeeded" =>
                 IsTerminal(run'[j]) \/ state[j] = "succeeded"
      PROVE  DoneInv'
  BY <1>1, <1>2, <1>3 DEF DoneInv, JobDoneMeansRunDone
<1>4. CASE UNCHANGED allVars
  BY <1>3, <1>4 DEF allVars
<1>5. CASE QueueStep
  <2>1. UNCHANGED <<held, outcome>>
    BY <1>5 DEF QueueStep, LeaseExpires, BackoffElapses,
                ReleaseElapsedBackoffs, ReapExpiredLeases, NoAnalysisWaiting,
                NoSimulationWaiting, Heartbeat, HeartbeatError, process
  <2>2. \A w \in Workers : loop'[w] = "report" => loop[w] = "report"
    BY <1>5, QueueKeepsHolders
  <2>3. \A j \in Jobs : state'[j] = "succeeded" => state[j] = "succeeded"
    BY <1>2, <1>5
       DEF QueueStep, LeaseExpires, BackoffElapses, ReleaseElapsedBackoffs,
           ReapExpiredLeases, NoAnalysisWaiting, NoSimulationWaiting,
           Heartbeat, HeartbeatError, tables
  <2> QED
    BY <1>3, <2>1, <2>2, <2>3
<1>6. ASSUME NEW i \in Jobs, ApiStep(i)
      PROVE  DoneInv'
  <2>1. UNCHANGED process
    BY <1>6 DEF ApiStep, StartRun, EnqueueRun, Enqueue, TakeSlot, RefuseBusy,
                InlineCompletes, InlineFails, RequestDies, RequestCancel,
                WorkersUnchanged
  <2>2. \A j \in Jobs : state'[j] = "succeeded" => state[j] = "succeeded"
    BY <1>2, <1>6
       DEF ApiStep, StartRun, EnqueueRun, Enqueue, TakeSlot, RefuseBusy,
           InlineCompletes, InlineFails, RequestDies, RequestCancel, tables
  <2> QED
    BY <1>3, <2>1, <2>2 DEF process
<1>7. ASSUME NEW w \in Workers, RunStep(w)
      PROVE  DoneInv'
  <2>1. ASSUME NEW o \in Outcomes, Return(w, o)
        PROVE  DoneInv'
    <3>1. /\ state' = state /\ held' = held
          /\ loop' = [loop EXCEPT ![w] = "report"]
          /\ outcome' = [outcome EXCEPT ![w] = o]
      BY <2>1 DEF Return, RunReturns, tables
    <3>2. o = "ok" => IsTerminal(run'[held[w]])
      BY <1>7, <2>1, SuccessfulReturn
    <3> QED
      BY <1>2, <1>3, <3>1, <3>2
  <2>2. ASSUME UNCHANGED tables, UNCHANGED process
        PROVE  DoneInv'
    BY <1>3, <2>2 DEF tables, process
  <2>3. CASE ClaimRun(w)
    <3>1. PICK i \in Jobs : ClaimSimulation(w, i)
      BY <2>3 DEF ClaimRun
    <3>2. /\ loop' = [loop EXCEPT ![w] = "run"]
          /\ held' = [held EXCEPT ![w] = i]
          /\ state' = [state EXCEPT ![i] = "running"]
          /\ outcome' = outcome
      BY <3>1 DEF ClaimSimulation, TakeJob, Claim
    <3> QED
      BY <1>2, <1>3, <3>2
  <2>4. CASE ReportRun(w) \/ Die(w)
    <3>1. /\ loop' = [loop EXCEPT ![w] = "poll"]
          /\ held' = [held EXCEPT ![w] = NoJob]
          /\ outcome' = [outcome EXCEPT ![w] = "none"]
          /\ run' = run
      BY <2>4 DEF ReportRun, Die, Report, ReportLost, Crash, BackToPolling,
                  BackToIdle, rowVars
    <3>2. ASSUME NEW j \in Jobs, state'[j] = "succeeded"
          PROVE  IsTerminal(run'[j]) \/ state[j] = "succeeded"
      <4>1. CASE Report(w)
        BY <3>1, <3>2, <4>1, ReportedSuccess DEF DoneInv
      <4>2. CASE UNCHANGED tables
        BY <3>2, <4>2 DEF tables
      <4> QED
        BY <2>4, <4>1, <4>2 DEF ReportRun, Die, ReportLost, Crash
    <3> QED
      BY <1>2, <1>3, <3>1, <3>2
  <2>5. CASE LoadRun(w)
    BY <2>1, <2>2, <2>5 DEF LoadRun, Outcomes
  <2>6. CASE Refuse(w) \/ StoreUnavailable(w)
    BY <2>1, <2>6 DEF Refuse, StoreUnavailable, Outcomes
  <2>7. CASE MarkRunning(w)
    BY <2>1, <2>2, <2>7 DEF MarkRunning, Outcomes
  <2>8. CASE StartEngine(w) \/ Watch(w) \/ EngineEnds(w)
    BY <2>2, <2>8 DEF StartEngine, Watch, EngineEnds
  <2>9. CASE WriteCompletion(w) \/ WriteCancellation(w) \/ WriteFailure(w)
             \/ WritePanic(w)
    BY <2>1, <2>9 DEF WriteCompletion, WriteCancellation, WriteFailure,
                      WritePanic, Committed, Outcomes
  <2> QED
    BY <1>7, <2>3, <2>4, <2>5, <2>6, <2>7, <2>8, <2>9 DEF RunStep
<1> QED
  BY <1>4, <1>5, <1>6, <1>7 DEF SimNext

\* The three ways a worker reports success (it stored the result, it recorded
\* the cancellation, it found the run finished) all leave a finished run
\* behind, and nothing reopens it before or after the report.
THEOREM DoneJobsLeaveFinishedRuns == SimSpec => []JobDoneMeansRunDone
PROOF
<1>1. SimInit => DoneInv
  BY DEF SimInit, Init, DoneInv, JobDoneMeansRunDone
<1>2. DoneInv => JobDoneMeansRunDone
  BY DEF DoneInv
<1> QED
  BY <1>1, <1>2, DoneInvStep, SimInvariant, PTL DEF SimSpec

=============================================================================

--------------------------- MODULE JobQueueProofs ---------------------------
(***************************************************************************)
(* Proofs about JobQueue, for any number of jobs, workers and attempts.    *)
(***************************************************************************)
EXTENDS JobQueue, FiniteSetTheorems, TLAPS

\* The transitions a worker's report can make.
LEMMA NextOfValues ==
  /\ NextOf("completed") = "succeeded"
  /\ NextOf("permanent_failure") = "failed"
  /\ NextOf("transient_failure") = "retrying"
  /\ NextOf("attempts_exhausted") = "dead_lettered"
PROOF
<1> DEFINE T == Lifecycle!TransitionTable
<1>1. ASSUME NEW t \in T, NEW u \in T, t[1] = "running", u[1] = "running",
             t[2] = u[2]
      PROVE  t[3] = u[3]
  BY <1>1 DEF Lifecycle!TransitionTable
<1>2. <<"running", "completed", "succeeded">> \in T
  BY DEF Lifecycle!TransitionTable
<1>3. <<"running", "permanent_failure", "failed">> \in T
  BY DEF Lifecycle!TransitionTable
<1>4. <<"running", "transient_failure", "retrying">> \in T
  BY DEF Lifecycle!TransitionTable
<1>5. <<"running", "attempts_exhausted", "dead_lettered">> \in T
  BY DEF Lifecycle!TransitionTable
<1>6. ASSUME NEW e, NEW n, <<"running", e, n>> \in T
      PROVE  NextOf(e) = n
  <2> DEFINE c == CHOOSE t \in T : t[1] = "running" /\ t[2] = e
  <2>1. c \in T /\ c[1] = "running" /\ c[2] = e
    BY <1>6
  <2>2. c[3] = <<"running", e, n>>[3]
    BY <2>1, <1>6, <1>1
  <2> QED BY <2>2 DEF NextOf
<1> HIDE DEF T
<1> QED BY <1>2, <1>3, <1>4, <1>5, <1>6

-----------------------------------------------------------------------------
(* Type correctness.                                                       *)

\* A busy worker holds a job, and one that reports has something to report.
WorkerShape ==
  \A w \in Workers :
    /\ loop[w] \in {"run", "report"} => held[w] \in Jobs
    /\ loop[w] = "report" => outcome[w] \in Outcomes

TypeInv == TypeOK /\ WorkerShape

LEMMA EventForValues ==
  ASSUME NEW j, NEW n, NEW o \in Outcomes
  PROVE  EventFor(j, n, o) \in {"completed", "permanent_failure",
                                "transient_failure", "attempts_exhausted"}
BY DEF EventFor, Outcomes

LEMMA TypeInit == Init => TypeInv
BY DEF Init, TypeInv, TypeOK, WorkerShape, Lifecycle!AnalysisState

LEMMA AppendType ==
  ASSUME NEW S, NEW s \in Seq(S), NEW x \in S
  PROVE  Append(s, x) \in Seq(S)
OBVIOUS

LEMMA TransitionType ==
  ASSUME NEW from \in Lifecycle!AnalysisState, NEW e \in Lifecycle!AnalysisEvent,
         NEW to \in Lifecycle!AnalysisState, NEW n \in Nat
  PROVE  Transition(from, e, to, n) \in JobTransition
BY DEF Transition, JobTransition

\* One more row in the trail of one job.
LEMMA TrailType ==
  ASSUME NEW t \in [Jobs -> Seq(JobTransition)], NEW j \in Jobs,
         NEW x \in JobTransition
  PROVE  [t EXCEPT ![j] = Append(t[j], x)] \in [Jobs -> Seq(JobTransition)]
BY AppendType

\* finish writes values of the columns' types.
LEMMA FinishType ==
  ASSUME TypeOK, NEW j \in Jobs, NEW n \in Nat,
         NEW e \in {"completed", "permanent_failure", "transient_failure",
                    "attempts_exhausted"},
         Finish(j, n, e)
  PROVE  /\ state' \in [Jobs -> Lifecycle!AnalysisState \cup {"absent"}]
         /\ attempt' \in [Jobs -> Nat]
         /\ leasedBy' \in [Jobs -> Ids \cup {NoOne}]
         /\ lease' \in [Jobs -> {"none", "live", "expired"}]
         /\ due' \in [Jobs -> BOOLEAN]
         /\ trail' \in [Jobs -> Seq(JobTransition)]
         /\ deadLetters' \subseteq Jobs
PROOF
<1>1. NextOf(e) \in Lifecycle!AnalysisState
  BY NextOfValues DEF Lifecycle!AnalysisState
<1>2. /\ "running" \in Lifecycle!AnalysisState
      /\ e \in Lifecycle!AnalysisEvent
  BY DEF Lifecycle!AnalysisState, Lifecycle!AnalysisEvent
<1>3. Transition("running", e, NextOf(e), n) \in JobTransition
  BY <1>1, <1>2, TransitionType
<1>4. trail' \in [Jobs -> Seq(JobTransition)]
  BY <1>3, TrailType DEF TypeOK, Finish
<1>5. state' \in [Jobs -> Lifecycle!AnalysisState \cup {"absent"}]
  BY <1>1 DEF TypeOK, Finish
<1>6. /\ attempt' \in [Jobs -> Nat]
      /\ leasedBy' \in [Jobs -> Ids \cup {NoOne}]
      /\ lease' \in [Jobs -> {"none", "live", "expired"}]
  BY DEF TypeOK, Finish
<1>7. due' \in [Jobs -> BOOLEAN]
  BY DEF TypeOK, Finish
<1>8. deadLetters' \subseteq Jobs
  BY DEF TypeOK, Finish
<1> QED BY <1>4, <1>5, <1>6, <1>7, <1>8

LEMMA TypeStep == TypeInv /\ [Next]_vars => TypeInv'
PROOF
<1> SUFFICES ASSUME TypeInv, [Next]_vars
             PROVE  TypeInv'
  OBVIOUS
<1> USE DEF TypeInv
<1>1. ASSUME NEW j \in Jobs, Enqueue(j)
      PROVE  TypeInv'
  BY <1>1 DEF Enqueue, process, TypeOK, WorkerShape, Lifecycle!AnalysisState
<1>2. ASSUME NEW j \in Jobs, Cancel(j)
      PROVE  TypeInv'
  <2>1. Transition(state[j], "cancel_requested", "cancelled", attempt[j])
          \in JobTransition
    <3>1. /\ state[j] \in Lifecycle!AnalysisState
          /\ "cancelled" \in Lifecycle!AnalysisState
          /\ "cancel_requested" \in Lifecycle!AnalysisEvent
          /\ attempt[j] \in Nat
      BY <1>2 DEF TypeOK, Cancel, Lifecycle!AnalysisState, Lifecycle!AnalysisEvent
    <3> QED BY <3>1, TransitionType
  <2>2. trail' \in [Jobs -> Seq(JobTransition)]
    BY <1>2, <2>1, TrailType DEF Cancel, TypeOK
  <2> QED BY <1>2, <2>2 DEF Cancel, process, TypeOK, WorkerShape,
                            Lifecycle!AnalysisState
<1>3. ASSUME NEW j \in Jobs, LeaseExpires(j)
      PROVE  TypeInv'
  BY <1>3 DEF LeaseExpires, process, TypeOK, WorkerShape
<1>4. ASSUME NEW j \in Jobs, BackoffElapses(j)
      PROVE  TypeInv'
  BY <1>4 DEF BackoffElapses, process, TypeOK, WorkerShape
<1>5. ASSUME ReleaseElapsedBackoffs
      PROVE  TypeInv'
  BY <1>5 DEF ReleaseElapsedBackoffs, process, TypeOK, WorkerShape,
              Lifecycle!AnalysisState
<1>6. ASSUME NEW reaped \in SUBSET ExpiredLeases, ReapExpiredLeases(reaped)
      PROVE  TypeInv'
  <2>1. ASSUME NEW j \in Jobs
        PROVE  /\ Transition("running", "attempts_exhausted", "dead_lettered",
                             attempt[j]) \in JobTransition
               /\ Transition("running", "lease_expired", "retrying",
                             attempt[j]) \in JobTransition
    <3>1. /\ {"running", "retrying", "dead_lettered"} \subseteq Lifecycle!AnalysisState
          /\ {"attempts_exhausted", "lease_expired"} \subseteq Lifecycle!AnalysisEvent
          /\ attempt[j] \in Nat
      BY DEF TypeOK, Lifecycle!AnalysisState, Lifecycle!AnalysisEvent
    <3> QED BY <3>1, TransitionType
  <2>2. trail' \in [Jobs -> Seq(JobTransition)]
    BY <1>6, <2>1, AppendType DEF ReapExpiredLeases, TypeOK
  <2>3. deadLetters' \subseteq Jobs
    BY <1>6 DEF ReapExpiredLeases, ExpiredLeases, TypeOK
  <2> QED BY <1>6, <2>2, <2>3 DEF ReapExpiredLeases, process, TypeOK,
                                  WorkerShape, Lifecycle!AnalysisState
<1>7. ASSUME NEW w \in Workers, NEW j \in Jobs, TakeJob(w, j)
      PROVE  TypeInv'
  <2>0. attempt[j] + 1 \in Nat
    BY DEF TypeOK
  <2>1. Transition("queued", "claimed", "running", attempt[j] + 1)
          \in JobTransition
    <3>1. /\ {"queued", "running"} \subseteq Lifecycle!AnalysisState
          /\ "claimed" \in Lifecycle!AnalysisEvent
      BY DEF Lifecycle!AnalysisState, Lifecycle!AnalysisEvent
    <3> QED BY <2>0, <3>1, TransitionType
  <2>2. trail' \in [Jobs -> Seq(JobTransition)]
    BY <1>7, <2>1, TrailType DEF TakeJob, Claim, TypeOK
  <2>3. /\ state' \in [Jobs -> Lifecycle!AnalysisState \cup {"absent"}]
        /\ attempt' \in [Jobs -> Nat]
        /\ leasedBy' \in [Jobs -> Ids \cup {NoOne}]
        /\ lease' \in [Jobs -> {"none", "live", "expired"}]
        /\ due' \in [Jobs -> BOOLEAN]
        /\ deadLetters' \subseteq Jobs
    BY <1>7, <2>0, IdAssumption DEF TakeJob, Claim, TypeOK, Lifecycle!AnalysisState
  <2>4. /\ loop' \in [Workers -> {"poll", "pollSimulation", "run", "report"}]
        /\ held' \in [Workers -> Jobs \cup {NoJob}]
        /\ heldAttempt' \in [Workers -> Nat]
        /\ outcome' \in [Workers -> Outcomes \cup {"none"}]
        /\ beating' \in [Workers -> BOOLEAN]
    BY <1>7, <2>0 DEF TakeJob, TypeOK
  <2>5. WorkerShape'
    BY <1>7 DEF TakeJob, TypeOK, WorkerShape
  <2> QED BY <2>2, <2>3, <2>4, <2>5 DEF TypeOK
<1>8. ASSUME NEW w \in Workers, Poll(w)
      PROVE  TypeInv'
  <2>1. CASE \E j \in Jobs : ClaimAnalysis(w, j) \/ ClaimSimulation(w, j)
    BY <2>1, <1>7 DEF ClaimAnalysis, ClaimSimulation
  <2>2. CASE NoAnalysisWaiting(w)
    BY <2>2 DEF NoAnalysisWaiting, tables, TypeOK, WorkerShape
  <2>3. CASE NoSimulationWaiting(w)
    BY <2>3 DEF NoSimulationWaiting, tables, TypeOK, WorkerShape
  <2> QED BY <1>8, <2>1, <2>2, <2>3 DEF Poll
<1>9. ASSUME NEW w \in Workers, Heartbeat(w)
      PROVE  TypeInv'
  BY <1>9 DEF Heartbeat, TypeOK, WorkerShape
<1>10. ASSUME NEW w \in Workers, HeartbeatError(w)
       PROVE  TypeInv'
  BY <1>10 DEF HeartbeatError, tables, TypeOK, WorkerShape
<1>11. ASSUME NEW w \in Workers, NEW o \in Outcomes, RunReturns(w, o)
       PROVE  TypeInv'
  BY <1>11 DEF RunReturns, tables, TypeOK, WorkerShape
<1>12. ASSUME NEW w \in Workers, BackToPolling(w)
       PROVE  /\ loop' \in [Workers -> {"poll", "pollSimulation", "run", "report"}]
              /\ held' \in [Workers -> Jobs \cup {NoJob}]
              /\ heldAttempt' \in [Workers -> Nat]
              /\ outcome' \in [Workers -> Outcomes \cup {"none"}]
              /\ beating' \in [Workers -> BOOLEAN]
              /\ WorkerShape'
  BY <1>12 DEF BackToPolling, TypeOK, WorkerShape
<1>13. ASSUME NEW w \in Workers, Report(w)
       PROVE  TypeInv'
  <2> DEFINE j == held[w]
             n == heldAttempt[w]
             e == EventFor(j, n, outcome[w])
  <2>1. loop[w] = "report" /\ BackToPolling(w)
    BY <1>13 DEF Report
  <2>2. j \in Jobs /\ n \in Nat /\ outcome[w] \in Outcomes
    BY <2>1 DEF TypeOK, WorkerShape
  <2>3. CASE Finish(j, n, e)
    <3>1. e \in {"completed", "permanent_failure", "transient_failure",
                 "attempts_exhausted"}
      BY <2>2, EventForValues
    <3> HIDE DEF e
    <3> QED BY <2>1, <2>2, <2>3, <3>1, <1>12, FinishType DEF TypeOK
  <2>4. CASE UNCHANGED tables
    BY <2>1, <2>4, <1>12 DEF tables, TypeOK
  <2> QED BY <1>13, <2>3, <2>4 DEF Report
<1>14. ASSUME NEW w \in Workers, ReportLost(w) \/ Crash(w)
       PROVE  TypeInv'
  BY <1>14, <1>12 DEF ReportLost, Crash, tables, TypeOK
<1>15. CASE UNCHANGED vars
  BY <1>15 DEF vars, TypeOK, WorkerShape
<1> QED BY <1>1, <1>2, <1>3, <1>4, <1>5, <1>6, <1>8, <1>9, <1>10, <1>11,
           <1>13, <1>14, <1>15 DEF Next

\* The rows keep to the types and CHECK constraints of their tables whatever
\* the workers, the reaper and the clock do.
THEOREM TypeCorrect == Spec => []TypeOK
PROOF
<1>1. TypeInv => TypeOK
  BY DEF TypeInv
<1> QED BY TypeInit, TypeStep, <1>1, PTL DEF Spec

-----------------------------------------------------------------------------
(* Leases, attempts and dead letters.                                      *)

\* The inductive invariant.  None of its parts is inductive alone: a report
\* decides from the worker's copy whether attempts are left, so the attempt
\* bound needs HolderIsCurrent, which needs that a matching leased_by means
\* the lease was never taken away.
IInv ==
  /\ TypeInv
  /\ LeaseExactlyWhileRunning
  /\ HolderIsCurrent
  /\ AttemptsAndDeadLetters

LEMMA IInvInit == Init => IInv
PROOF
<1> SUFFICES ASSUME Init PROVE IInv
  OBVIOUS
<1>1. TypeInv
  BY TypeInit
<1>2. LeaseExactlyWhileRunning
  BY DEF Init, LeaseExactlyWhileRunning
<1>3. HolderIsCurrent
  BY DEF Init, HolderIsCurrent
<1>4. AttemptsAndDeadLetters
  BY MaxAttemptsAssumption DEF Init, AttemptsAndDeadLetters
<1> QED BY <1>1, <1>2, <1>3, <1>4 DEF IInv

\* finish, on the row of the worker that still holds the lease.
LEMMA FinishStep ==
  ASSUME IInv, NEW w \in Workers, NEW j \in Jobs, NEW o \in Outcomes,
         j = held[w], loop[w] = "report", HoldsLease(w, j),
         Finish(j, heldAttempt[w], EventFor(j, heldAttempt[w], o))
  PROVE  LeaseExactlyWhileRunning' /\ AttemptsAndDeadLetters'
PROOF
<1> DEFINE e == EventFor(j, heldAttempt[w], o)
<1>1. heldAttempt[w] = attempt[j]
  BY DEF IInv, HolderIsCurrent
<1>2. attempt[j] \in Nat /\ MaxAttempts[j] \in Nat
  BY MaxAttemptsAssumption DEF IInv, TypeInv, TypeOK
<1>3. \/ NextOf(e) = "succeeded"
      \/ NextOf(e) = "failed"
      \/ NextOf(e) = "retrying" /\ attempt[j] < MaxAttempts[j]
      \/ NextOf(e) = "dead_lettered" /\ attempt[j] >= MaxAttempts[j]
  BY <1>1, <1>2, NextOfValues DEF EventFor, Outcomes
<1>4. state[j] = "running"
  BY DEF HoldsLease
<1> HIDE DEF e
<1>5. /\ state' = [state EXCEPT ![j] = NextOf(e)]
      /\ leasedBy' = [leasedBy EXCEPT ![j] = NoOne]
      /\ lease' = [lease EXCEPT ![j] = "none"]
      /\ deadLetters' = deadLetters \cup
                          (IF NextOf(e) = "dead_lettered" THEN {j} ELSE {})
      /\ attempt' = attempt
  BY DEF Finish, e
<1>6. LeaseExactlyWhileRunning'
  BY <1>3, <1>5 DEF IInv, TypeInv, TypeOK, LeaseExactlyWhileRunning
<1>7. AttemptsAndDeadLetters'
  BY <1>2, <1>3, <1>4, <1>5 DEF IInv, TypeInv, TypeOK, AttemptsAndDeadLetters
<1> QED BY <1>6, <1>7

LEMMA IInvStep ==
  ASSUME DistinctIds
  PROVE  IInv /\ [Next]_vars => IInv'
PROOF
<1> SUFFICES ASSUME IInv, [Next]_vars
             PROVE  IInv'
  OBVIOUS
<1>0. TypeInv /\ TypeInv'
  BY TypeStep DEF IInv
<1> DEFINE Safe == /\ LeaseExactlyWhileRunning
                   /\ HolderIsCurrent
                   /\ AttemptsAndDeadLetters
<1>S. Safe
  BY DEF IInv
<1> SUFFICES Safe'
  BY <1>0 DEF IInv
<1>1. ASSUME NEW j \in Jobs, Enqueue(j)
      PROVE  Safe'
  <2>1. LeaseExactlyWhileRunning'
    BY <1>0, <1>1, <1>S DEF Enqueue, TypeInv, TypeOK, LeaseExactlyWhileRunning
  <2>2. HolderIsCurrent'
    BY <1>0, <1>1, <1>S DEF Enqueue, process, TypeInv, TypeOK, HolderIsCurrent, HoldsLease, WorkerShape
  <2>3. AttemptsAndDeadLetters'
    <3>1. /\ \A i \in Jobs : /\ attempt'[i] = IF i = j THEN 0 ELSE attempt[i]
                             /\ state'[i] = IF i = j THEN "queued" ELSE state[i]
          /\ state[j] = "absent"
          /\ deadLetters' = deadLetters
      BY <1>0, <1>1 DEF Enqueue, TypeInv, TypeOK
    <3>2. 0 < MaxAttempts[j] /\ 0 <= MaxAttempts[j]
      BY MaxAttemptsAssumption
    <3> QED BY <1>S, <3>1, <3>2 DEF AttemptsAndDeadLetters
  <2> QED BY <2>1, <2>2, <2>3
<1>2. ASSUME NEW j \in Jobs, Cancel(j)
      PROVE  Safe'
  <2>1. LeaseExactlyWhileRunning'
    BY <1>0, <1>2, <1>S DEF Cancel, TypeInv, TypeOK, LeaseExactlyWhileRunning
  <2>2. HolderIsCurrent'
    BY <1>0, <1>2, <1>S DEF Cancel, process, TypeInv, TypeOK, HolderIsCurrent, HoldsLease, WorkerShape
  <2>3. AttemptsAndDeadLetters'
    BY <1>0, <1>2, <1>S, MaxAttemptsAssumption
       DEF Cancel, TypeInv, TypeOK, AttemptsAndDeadLetters
  <2> QED BY <2>1, <2>2, <2>3
<1>3. ASSUME NEW j \in Jobs, LeaseExpires(j)
      PROVE  Safe'
  <2>1. LeaseExactlyWhileRunning'
    BY <1>0, <1>3, <1>S DEF LeaseExpires, TypeInv, TypeOK, LeaseExactlyWhileRunning
  <2>2. HolderIsCurrent' /\ AttemptsAndDeadLetters'
    BY <1>3, <1>S DEF LeaseExpires, process, HolderIsCurrent, HoldsLease,
                      AttemptsAndDeadLetters
  <2> QED BY <2>1, <2>2
<1>4. ASSUME NEW j \in Jobs, BackoffElapses(j)
      PROVE  Safe'
  BY <1>4, <1>S DEF BackoffElapses, process, LeaseExactlyWhileRunning,
                    HolderIsCurrent, HoldsLease, AttemptsAndDeadLetters
<1>5. ASSUME ReleaseElapsedBackoffs
      PROVE  Safe'
  <2>1. LeaseExactlyWhileRunning'
    BY <1>0, <1>5, <1>S DEF ReleaseElapsedBackoffs, ElapsedBackoffs, LeaseExactlyWhileRunning
  <2>2. HolderIsCurrent'
    BY <1>0, <1>5, <1>S DEF ReleaseElapsedBackoffs, ElapsedBackoffs, process,
                            HolderIsCurrent, HoldsLease, TypeInv, WorkerShape
  <2>3. AttemptsAndDeadLetters'
    BY <1>0, <1>5, <1>S DEF ReleaseElapsedBackoffs, ElapsedBackoffs, AttemptsAndDeadLetters
  <2> QED BY <2>1, <2>2, <2>3
<1>6. ASSUME NEW reaped \in SUBSET ExpiredLeases, ReapExpiredLeases(reaped)
      PROVE  Safe'
  <2>1. LeaseExactlyWhileRunning'
    BY <1>0, <1>6, <1>S DEF ReapExpiredLeases, LeaseExactlyWhileRunning
  <2>2. HolderIsCurrent'
    BY <1>0, <1>6, <1>S DEF ReapExpiredLeases, process, HolderIsCurrent,
                            HoldsLease, TypeInv, WorkerShape
  <2>3. AttemptsAndDeadLetters'
    BY <1>0, <1>6, <1>S, MaxAttemptsAssumption
       DEF ReapExpiredLeases, ExpiredLeases, Exhausted, AttemptsAndDeadLetters,
           TypeInv, TypeOK
  <2> QED BY <2>1, <2>2, <2>3
<1>7. ASSUME NEW w \in Workers, NEW j \in Jobs, TakeJob(w, j), state[j] = "queued"
      PROVE  Safe'
  <2>0. /\ \A i \in Jobs :
             /\ state'[i] = IF i = j THEN "running" ELSE state[i]
             /\ attempt'[i] = IF i = j THEN attempt[j] + 1 ELSE attempt[i]
             /\ leasedBy'[i] = IF i = j THEN IdOf[w] ELSE leasedBy[i]
             /\ lease'[i] = IF i = j THEN "live" ELSE lease[i]
        /\ deadLetters' = deadLetters
    BY <1>0, <1>7 DEF TakeJob, Claim, TypeInv, TypeOK
  <2>1. LeaseExactlyWhileRunning'
    <3>1. IdOf[w] # NoOne
      BY IdAssumption
    <3> QED BY <1>S, <2>0, <3>1 DEF LeaseExactlyWhileRunning
  <2>2. HolderIsCurrent'
    \* the lease moves to w; whoever held the job before does not match it
    BY <1>0, <1>7, <1>S, IdAssumption
       DEF TakeJob, Claim, TypeInv, TypeOK, HolderIsCurrent, HoldsLease,
           WorkerShape, DistinctIds
  <2>3. AttemptsAndDeadLetters'
    <3>1. attempt[j] \in Nat /\ MaxAttempts[j] \in Nat
      BY <1>0, MaxAttemptsAssumption DEF TypeInv, TypeOK
    <3>2. attempt[j] < MaxAttempts[j] /\ j \notin deadLetters
      BY <1>7, <1>S DEF AttemptsAndDeadLetters
    <3>3. attempt[j] + 1 <= MaxAttempts[j]
      BY <3>1, <3>2
    <3> QED BY <1>S, <2>0, <3>2, <3>3 DEF AttemptsAndDeadLetters
  <2> QED BY <2>1, <2>2, <2>3
<1>8. ASSUME NEW w \in Workers, Poll(w)
      PROVE  Safe'
  <2>1. CASE \E j \in Jobs : ClaimAnalysis(w, j) \/ ClaimSimulation(w, j)
    BY <2>1, <1>7 DEF ClaimAnalysis, ClaimSimulation, Claimable
  <2>2. CASE NoAnalysisWaiting(w) \/ NoSimulationWaiting(w)
    BY <2>2, <1>0, <1>S
       DEF NoAnalysisWaiting, NoSimulationWaiting, tables, LeaseExactlyWhileRunning,
           HolderIsCurrent, HoldsLease, AttemptsAndDeadLetters, TypeInv, TypeOK
  <2> QED BY <1>8, <2>1, <2>2 DEF Poll
<1>9. ASSUME NEW w \in Workers, Heartbeat(w)
      PROVE  Safe'
  <2>1. LeaseExactlyWhileRunning'
    BY <1>0, <1>9, <1>S, IdAssumption DEF Heartbeat, HoldsLease, TypeInv, TypeOK,
                            WorkerShape, LeaseExactlyWhileRunning
  <2>2. HolderIsCurrent' /\ AttemptsAndDeadLetters'
    BY <1>9, <1>S DEF Heartbeat, HolderIsCurrent, HoldsLease, AttemptsAndDeadLetters
  <2> QED BY <2>1, <2>2
<1>10. ASSUME NEW w \in Workers, HeartbeatError(w)
       PROVE  Safe'
  BY <1>10, <1>S DEF HeartbeatError, tables, LeaseExactlyWhileRunning,
                     HolderIsCurrent, HoldsLease, AttemptsAndDeadLetters
<1>11. ASSUME NEW w \in Workers, NEW o \in Outcomes, RunReturns(w, o)
       PROVE  Safe'
  BY <1>0, <1>11, <1>S DEF RunReturns, tables, LeaseExactlyWhileRunning,
                     HolderIsCurrent, HoldsLease, AttemptsAndDeadLetters, TypeInv, TypeOK
<1>12. ASSUME NEW w \in Workers, BackToPolling(w), UNCHANGED tables
       PROVE  Safe'
  BY <1>0, <1>12, <1>S DEF BackToPolling, tables, LeaseExactlyWhileRunning,
                     HolderIsCurrent, HoldsLease, AttemptsAndDeadLetters, TypeInv, TypeOK
<1>13. ASSUME NEW w \in Workers, Report(w)
       PROVE  Safe'
  <2>1. loop[w] = "report" /\ BackToPolling(w)
    BY <1>13 DEF Report
  <2>2. held[w] \in Jobs /\ outcome[w] \in Outcomes
    BY <1>0, <2>1 DEF TypeInv, WorkerShape
  <2>3. CASE HoldsLease(w, held[w])
    <3>1. Finish(held[w], heldAttempt[w],
                 EventFor(held[w], heldAttempt[w], outcome[w]))
      BY <1>13, <2>3 DEF Report
    <3>2. LeaseExactlyWhileRunning' /\ AttemptsAndDeadLetters'
      BY <2>1, <2>2, <2>3, <3>1, FinishStep
    <3>3. HolderIsCurrent'
      \* the row is nobody's now, and the other rows are as they were
      <4>1. /\ leasedBy'[held[w]] = NoOne
            /\ attempt' = attempt
            /\ \A j \in Jobs : j # held[w] => /\ state'[j] = state[j]
                                              /\ leasedBy'[j] = leasedBy[j]
        BY <1>0, <2>2, <3>1 DEF Finish, TypeInv, TypeOK
      <4>2. \A v \in Workers : v # w => /\ loop'[v] = loop[v]
                                        /\ held'[v] = held[v]
                                        /\ heldAttempt'[v] = heldAttempt[v]
        BY <1>0, <2>1 DEF BackToPolling, TypeInv, TypeOK
      <4>3. loop'[w] = "poll"
        BY <1>0, <2>1 DEF BackToPolling, TypeInv, TypeOK
      <4>4. \A v \in Workers : /\ IdOf[v] # NoOne
                               /\ loop[v] \in {"run", "report"} => held[v] \in Jobs
        BY <1>0, IdAssumption DEF TypeInv, WorkerShape
      <4> QED BY <1>S, <4>1, <4>2, <4>3, <4>4 DEF HolderIsCurrent, HoldsLease
    <3> QED BY <3>2, <3>3
  <2>4. CASE ~HoldsLease(w, held[w])
    BY <1>12, <1>13, <2>1, <2>4 DEF Report
  <2> QED BY <2>3, <2>4
<1>14. ASSUME NEW w \in Workers, ReportLost(w) \/ Crash(w)
       PROVE  Safe'
  BY <1>12, <1>14 DEF ReportLost, Crash
<1>15. CASE UNCHANGED vars
  BY <1>15, <1>S DEF vars, LeaseExactlyWhileRunning, HolderIsCurrent, HoldsLease,
                     AttemptsAndDeadLetters
<1> QED BY <1>1, <1>2, <1>3, <1>4, <1>5, <1>6, <1>8, <1>9, <1>10, <1>11,
           <1>13, <1>14, <1>15 DEF Next

\* The CHECK constraints on leases hold after every statement and a running
\* job always has a lease the reaper can see expire.
THEOREM LeasesAreWhole ==
  ASSUME DistinctIds
  PROVE  Spec => []LeaseExactlyWhileRunning
PROOF
<1>1. IInv /\ [Next]_vars => IInv'
  BY IInvStep
<1>2. IInv => LeaseExactlyWhileRunning
  BY DEF IInv
<1> QED BY IInvInit, <1>1, <1>2, PTL DEF Spec

\* A worker that passes the guard of heartbeat and finish works from the
\* attempt the row is on.
THEOREM HoldersAreCurrent ==
  ASSUME DistinctIds
  PROVE  Spec => []HolderIsCurrent
PROOF
<1>1. IInv /\ [Next]_vars => IInv'
  BY IInvStep
<1>2. IInv => HolderIsCurrent
  BY DEF IInv
<1> QED BY IInvInit, <1>1, <1>2, PTL DEF Spec

\* No job is attempted more often than its policy allows, one that waits has
\* an attempt left, and exactly the dead-lettered jobs have a dead letter.
THEOREM AttemptsBounded ==
  ASSUME DistinctIds
  PROVE  Spec => []AttemptsAndDeadLetters
PROOF
<1>1. IInv /\ [Next]_vars => IInv'
  BY IInvStep
<1>2. IInv => AttemptsAndDeadLetters
  BY DEF IInv
<1> QED BY IInvInit, <1>1, <1>2, PTL DEF Spec

\* finish never lets a run whose lease was taken away decide the outcome of a
\* later attempt, provided worker ids are distinct.
THEOREM ReportsAreCurrent ==
  ASSUME DistinctIds
  PROVE  Spec => NoStaleReport
PROOF
<1> DEFINE Fresh == \A w \in Workers :
                      /\ loop[w] = "report" /\ loop'[w] = "poll"
                      /\ state'[held[w]] # state[held[w]]
                      => heldAttempt[w] = attempt[held[w]]
<1>1. IInv /\ [Next]_vars => IInv'
  BY IInvStep
<1>2. ASSUME IInv, [Next]_vars
      PROVE  [Fresh]_vars
  <2> SUFFICES ASSUME Next, NEW w \in Workers,
                      loop[w] = "report", loop'[w] = "poll",
                      state'[held[w]] # state[held[w]]
               PROVE  heldAttempt[w] = attempt[held[w]]
    BY <1>2
  <2>0. TypeInv /\ held[w] \in Jobs
    BY <1>2 DEF IInv, TypeInv, WorkerShape
  <2>1. \E v \in Workers : Report(v)
    \* no other action both changes the table and moves a reporting worker on
    <3>1. CASE UNCHANGED process
      BY <3>1 DEF process
    <3>2. CASE UNCHANGED state
      BY <3>2
    <3>3. ASSUME NEW v \in Workers, Poll(v)
          PROVE  FALSE
      <4>1. v # w /\ loop'[w] # loop[w]
        BY <3>3 DEF Poll, ClaimAnalysis, ClaimSimulation, NoAnalysisWaiting,
                    NoSimulationWaiting
      <4> QED BY <2>0, <3>3, <4>1
              DEF Poll, ClaimAnalysis, ClaimSimulation, NoAnalysisWaiting,
                  NoSimulationWaiting, TakeJob, TypeInv, TypeOK
    <3> QED BY <3>1, <3>2, <3>3
            DEF Next, Enqueue, Cancel, LeaseExpires, BackoffElapses,
                ReleaseElapsedBackoffs, ReapExpiredLeases, Heartbeat,
                HeartbeatError, RunReturns, ReportLost, Crash, tables
  <2>2. PICK v \in Workers : Report(v)
    BY <2>1
  <2>3. v = w
    BY <2>0, <2>2 DEF Report, BackToPolling, TypeInv, TypeOK
  <2>4. HoldsLease(w, held[w])
    BY <2>2, <2>3 DEF Report, tables
  <2> QED BY <1>2, <2>4 DEF IInv, HolderIsCurrent
<1> QED BY IInvInit, <1>1, <1>2, PTL DEF Spec, NoStaleReport

-----------------------------------------------------------------------------
(* Attempts in the trail.                                                  *)

\* The rows of a trail that claim attempt n, and those that end it.
Claims(s, n) == {i \in DOMAIN s : s[i].event = "claimed" /\ s[i].attempt = n}
Ends(s, n) == {i \in DOMAIN s : s[i].from = "running" /\ s[i].attempt = n}

\* What trail s holds of attempt n, when the row is on attempt a in state st.
Counted(s, n, a, st) ==
  /\ Cardinality(Claims(s, n)) = IF n <= a THEN 1 ELSE 0
  /\ Cardinality(Ends(s, n)) = IF n < a THEN 1
                               ELSE IF n > a THEN 0
                               ELSE IF st = "running" THEN 0 ELSE 1

AllCounted(j) ==
  \A n \in 1..MaxAttempts[j] : Counted(trail[j], n, attempt[j], state[j])

\* A job without a row has made no attempt: enqueue sets the counter to the
\* zero it already is.
AbsentUnused == \A j \in Jobs : state[j] = "absent" => attempt[j] = 0

TrailInv == AbsentUnused /\ \A j \in Jobs : AllCounted(j)

\* The counts after one more row.
LEMMA CountAppended ==
  ASSUME NEW s \in Seq(JobTransition), NEW r \in JobTransition, NEW n \in Nat
  PROVE  /\ Cardinality(Claims(Append(s, r), n)) =
              Cardinality(Claims(s, n)) +
                (IF r.event = "claimed" /\ r.attempt = n THEN 1 ELSE 0)
         /\ Cardinality(Ends(Append(s, r), n)) =
              Cardinality(Ends(s, n)) +
                (IF r.from = "running" /\ r.attempt = n THEN 1 ELSE 0)
         /\ Cardinality(Claims(s, n)) \in Nat
         /\ Cardinality(Ends(s, n)) \in Nat
PROOF
<1> DEFINE t == Append(s, r)
           k == Len(s) + 1
<1>1. /\ DOMAIN s = 1..Len(s) /\ Len(s) \in Nat
      /\ DOMAIN t = 1..k
      /\ \A i \in 1..Len(s) : t[i] = s[i]
      /\ t[k] = r
  OBVIOUS
<1>2. IsFiniteSet(1..Len(s))
  BY <1>1, FS_Interval
<1>3. /\ Claims(s, n) \in SUBSET (1..Len(s))
      /\ Ends(s, n) \in SUBSET (1..Len(s))
  BY <1>1 DEF Claims, Ends
<1>4. IsFiniteSet(Claims(s, n)) /\ IsFiniteSet(Ends(s, n))
  BY <1>2, <1>3, FS_Subset
<1>5. k \notin Claims(s, n) /\ k \notin Ends(s, n)
  BY <1>1, <1>3
<1>6. DOMAIN t = DOMAIN s \cup {k}
  BY <1>1
<1> HIDE DEF t, k
<1>7. Claims(t, n) = IF r.event = "claimed" /\ r.attempt = n
                     THEN Claims(s, n) \cup {k} ELSE Claims(s, n)
  BY <1>1, <1>6 DEF Claims
<1>8. Ends(t, n) = IF r.from = "running" /\ r.attempt = n
                   THEN Ends(s, n) \cup {k} ELSE Ends(s, n)
  BY <1>1, <1>6 DEF Ends
<1>9. /\ Cardinality(Claims(s, n)) \in Nat
      /\ Cardinality(Ends(s, n)) \in Nat
  BY <1>4, FS_CardinalityType
<1>10. /\ Cardinality(Claims(s, n) \cup {k}) = Cardinality(Claims(s, n)) + 1
       /\ Cardinality(Ends(s, n) \cup {k}) = Cardinality(Ends(s, n)) + 1
  <2>1. Cardinality(Claims(s, n) \cup {k}) = Cardinality(Claims(s, n)) + 1
    BY <1>4, <1>5, FS_AddElement
  <2>2. Cardinality(Ends(s, n) \cup {k}) = Cardinality(Ends(s, n)) + 1
    BY <1>4, <1>5, FS_AddElement
  <2> QED BY <2>1, <2>2
<1> QED BY <1>7, <1>8, <1>9, <1>10 DEF t

\* A claim opens the next attempt of a row that is not running.
LEMMA CountClaim ==
  ASSUME NEW s \in Seq(JobTransition), NEW n \in Nat, NEW a \in Nat, NEW st,
         st # "running", Counted(s, n, a, st),
         Transition("queued", "claimed", "running", a + 1) \in JobTransition
  PROVE  Counted(Append(s, Transition("queued", "claimed", "running", a + 1)),
                 n, a + 1, "running")
PROOF
<1> DEFINE r == Transition("queued", "claimed", "running", a + 1)
<1>1. r.event = "claimed" /\ r.from = "queued" /\ r.attempt = a + 1
  BY DEF Transition
<1>2. r \in JobTransition
  OBVIOUS
<1> HIDE DEF r
<1>3. /\ Cardinality(Claims(Append(s, r), n)) =
           Cardinality(Claims(s, n)) + (IF a + 1 = n THEN 1 ELSE 0)
      /\ Cardinality(Ends(Append(s, r), n)) = Cardinality(Ends(s, n))
      /\ Cardinality(Claims(s, n)) \in Nat
      /\ Cardinality(Ends(s, n)) \in Nat
  <2>1. /\ Cardinality(Claims(Append(s, r), n)) =
             Cardinality(Claims(s, n)) +
               (IF r.event = "claimed" /\ r.attempt = n THEN 1 ELSE 0)
        /\ Cardinality(Ends(Append(s, r), n)) =
             Cardinality(Ends(s, n)) +
               (IF r.from = "running" /\ r.attempt = n THEN 1 ELSE 0)
        /\ Cardinality(Claims(s, n)) \in Nat
        /\ Cardinality(Ends(s, n)) \in Nat
    BY <1>2, CountAppended
  <2> QED BY <1>1, <2>1
<1>4. Counted(Append(s, r), n, a + 1, "running")
  BY <1>3 DEF Counted
<1> QED BY <1>4 DEF r

\* Whatever takes a running row out of that state closes its attempt.
LEMMA CountEnd ==
  ASSUME NEW s \in Seq(JobTransition), NEW n \in Nat, NEW a \in Nat,
         NEW e, NEW to, e # "claimed", to # "running",
         Counted(s, n, a, "running"),
         Transition("running", e, to, a) \in JobTransition
  PROVE  Counted(Append(s, Transition("running", e, to, a)), n, a, to)
PROOF
<1> DEFINE r == Transition("running", e, to, a)
<1>1. r.event = e /\ r.from = "running" /\ r.attempt = a
  BY DEF Transition
<1>2. r \in JobTransition
  OBVIOUS
<1> HIDE DEF r
<1>3. /\ Cardinality(Claims(Append(s, r), n)) = Cardinality(Claims(s, n)) + 0
      /\ Cardinality(Ends(Append(s, r), n)) =
           Cardinality(Ends(s, n)) + (IF a = n THEN 1 ELSE 0)
      /\ Cardinality(Claims(s, n)) \in Nat
      /\ Cardinality(Ends(s, n)) \in Nat
  BY <1>1, <1>2, CountAppended
<1>4. Counted(Append(s, r), n, a, to)
  BY <1>3 DEF Counted
<1> QED BY <1>4 DEF r

\* A row cancelled while it waits has no attempt to close.
LEMMA CountWaiting ==
  ASSUME NEW s \in Seq(JobTransition), NEW n \in Nat, NEW a \in Nat,
         NEW from, NEW e, NEW to, e # "claimed", to # "running",
         from # "running", Counted(s, n, a, from),
         Transition(from, e, to, a) \in JobTransition
  PROVE  Counted(Append(s, Transition(from, e, to, a)), n, a, to)
PROOF
<1> DEFINE r == Transition(from, e, to, a)
<1>1. r.event = e /\ r.from = from /\ r.attempt = a
  BY DEF Transition
<1>2. r \in JobTransition
  OBVIOUS
<1> HIDE DEF r
<1>3. /\ Cardinality(Claims(Append(s, r), n)) = Cardinality(Claims(s, n)) + 0
      /\ Cardinality(Ends(Append(s, r), n)) = Cardinality(Ends(s, n)) + 0
      /\ Cardinality(Claims(s, n)) \in Nat
      /\ Cardinality(Ends(s, n)) \in Nat
  BY <1>1, <1>2, CountAppended
<1>4. Counted(Append(s, r), n, a, to)
  BY <1>3 DEF Counted
<1> QED BY <1>4 DEF r

LEMMA TrailInvInit == Init => TrailInv
PROOF
<1> SUFFICES ASSUME Init PROVE TrailInv
  OBVIOUS
<1>1. AbsentUnused
  BY DEF Init, AbsentUnused
<1>2. ASSUME NEW j \in Jobs, NEW n \in 1..MaxAttempts[j]
      PROVE  Counted(trail[j], n, attempt[j], state[j])
  <2>1. trail[j] = << >> /\ attempt[j] = 0 /\ state[j] = "absent"
    BY DEF Init
  <2>2. Claims(<< >>, n) = {} /\ Ends(<< >>, n) = {}
    BY DEF Claims, Ends
  <2>3. n \in Nat /\ n > 0
    BY MaxAttemptsAssumption
  <2>4. /\ Cardinality(Claims(trail[j], n)) = 0
        /\ Cardinality(Ends(trail[j], n)) = 0
    BY <2>1, <2>2, FS_EmptySet
  <2> QED BY <2>1, <2>3, <2>4 DEF Counted
<1> QED BY <1>1, <1>2 DEF TrailInv, AllCounted

\* A report's row is about the attempt the row is on only because a holder is
\* current (IInv); each other statement reads the attempt from the row.
LEMMA TrailInvStep ==
  ASSUME IInv, TypeInv', TrailInv, [Next]_vars
  PROVE  TrailInv'
PROOF
<1>0. TypeInv /\ HolderIsCurrent
  BY DEF IInv
<1>T. /\ state \in [Jobs -> Lifecycle!AnalysisState \cup {"absent"}]
      /\ attempt \in [Jobs -> Nat]
      /\ trail \in [Jobs -> Seq(JobTransition)]
      /\ MaxAttempts \in [Jobs -> Nat]
  BY <1>0, MaxAttemptsAssumption DEF TypeInv, TypeOK
<1>A. AbsentUnused /\ \A j \in Jobs : AllCounted(j)
  BY DEF TrailInv
<1>K. ASSUME NEW j \in Jobs, trail'[j] = trail[j], attempt'[j] = attempt[j],
             state'[j] = "running" <=> state[j] = "running"
      PROVE  AllCounted(j)'
  BY <1>A, <1>K DEF AllCounted, Counted
<1>E. ASSUME NEW j \in Jobs, NEW e \in Lifecycle!AnalysisEvent,
             NEW to \in Lifecycle!AnalysisState,
             state[j] = "running", e # "claimed", to # "running",
             trail'[j] = Append(trail[j], Transition("running", e, to, attempt[j])),
             attempt'[j] = attempt[j], state'[j] = to
      PROVE  AllCounted(j)'
  <2>1. Transition("running", e, to, attempt[j]) \in JobTransition
    BY <1>T, TransitionType DEF Lifecycle!AnalysisState
  <2>2. ASSUME NEW n \in 1..MaxAttempts[j]
        PROVE  Counted(trail'[j], n, attempt'[j], state'[j])
    <3>1. Counted(trail[j], n, attempt[j], "running")
      BY <1>A, <1>E DEF AllCounted
    <3>2. n \in Nat /\ trail[j] \in Seq(JobTransition) /\ attempt[j] \in Nat
      BY <1>T
    <3>3. Counted(Append(trail[j], Transition("running", e, to, attempt[j])),
                  n, attempt[j], to)
      BY <1>E, <2>1, <3>1, <3>2, CountEnd
    <3> QED BY <1>E, <3>3
  <2> QED BY <2>2 DEF AllCounted
<1>1. ASSUME NEW j \in Jobs, Enqueue(j)
      PROVE  TrailInv'
  <2>1. /\ state[j] = "absent" /\ attempt[j] = 0
        /\ trail' = trail /\ attempt'[j] = 0 /\ state'[j] = "queued"
        /\ \A i \in Jobs \ {j} : state'[i] = state[i] /\ attempt'[i] = attempt[i]
    BY <1>1, <1>A, <1>T DEF Enqueue, AbsentUnused
  <2>2. AbsentUnused'
    BY <1>A, <2>1 DEF AbsentUnused
  <2>3. \A i \in Jobs : AllCounted(i)'
    BY <1>K, <2>1
  <2> QED BY <2>2, <2>3 DEF TrailInv
<1>2. ASSUME NEW j \in Jobs, Cancel(j)
      PROVE  TrailInv'
  <2>1. /\ state[j] \in {"queued", "running", "retrying"}
        /\ state'[j] = "cancelled" /\ attempt' = attempt
        /\ trail'[j] = Append(trail[j], Transition(state[j], "cancel_requested",
                                                   "cancelled", attempt[j]))
        /\ \A i \in Jobs \ {j} : state'[i] = state[i] /\ trail'[i] = trail[i]
    BY <1>2, <1>T DEF Cancel
  <2>2. AbsentUnused'
    BY <1>A, <2>1 DEF AbsentUnused
  <2>3. AllCounted(j)'
    <3>1. CASE state[j] = "running"
      BY <1>E, <2>1, <3>1 DEF Lifecycle!AnalysisEvent, Lifecycle!AnalysisState
    <3>2. CASE state[j] # "running"
      <4>1. Transition(state[j], "cancel_requested", "cancelled", attempt[j])
              \in JobTransition
        BY <1>T, <2>1, TransitionType
           DEF Lifecycle!AnalysisEvent, Lifecycle!AnalysisState
      <4>2. ASSUME NEW n \in 1..MaxAttempts[j]
            PROVE  Counted(trail'[j], n, attempt'[j], state'[j])
        <5>1. Counted(trail[j], n, attempt[j], state[j])
          BY <1>A DEF AllCounted
        <5>2. n \in Nat /\ trail[j] \in Seq(JobTransition) /\ attempt[j] \in Nat
          BY <1>T
        <5>3. Counted(Append(trail[j], Transition(state[j], "cancel_requested",
                                                  "cancelled", attempt[j])),
                      n, attempt[j], "cancelled")
          BY <3>2, <4>1, <5>1, <5>2, CountWaiting
        <5> QED BY <2>1, <5>3
      <4> QED BY <4>2 DEF AllCounted
    <3> QED BY <3>1, <3>2
  <2>4. \A i \in Jobs \ {j} : AllCounted(i)'
    BY <1>K, <2>1
  <2> QED BY <2>2, <2>3, <2>4 DEF TrailInv
<1>3. ASSUME ReleaseElapsedBackoffs
      PROVE  TrailInv'
  <2>1. /\ attempt' = attempt /\ trail' = trail
        /\ \A i \in Jobs : \/ state'[i] = state[i]
                           \/ state[i] = "retrying" /\ state'[i] = "queued"
    BY <1>3 DEF ReleaseElapsedBackoffs, ElapsedBackoffs
  <2>2. AbsentUnused'
    BY <1>A, <2>1 DEF AbsentUnused
  <2>3. \A i \in Jobs : AllCounted(i)'
    BY <1>K, <2>1
  <2> QED BY <2>2, <2>3 DEF TrailInv
<1>4. ASSUME NEW reaped \in SUBSET ExpiredLeases, ReapExpiredLeases(reaped)
      PROVE  TrailInv'
  <2>1. AbsentUnused'
    BY <1>4, <1>A DEF ReapExpiredLeases, AbsentUnused
  <2>2. ASSUME NEW j \in Jobs
        PROVE  AllCounted(j)'
    <3>1. CASE j \notin reaped
      BY <1>4, <1>K, <3>1 DEF ReapExpiredLeases
    <3>2. CASE j \in reaped
      <4>1. PICK e \in {"attempts_exhausted", "lease_expired"},
                 to \in {"dead_lettered", "retrying"} :
              /\ trail'[j] = Append(trail[j],
                                    Transition("running", e, to, attempt[j]))
              /\ state'[j] = to
        BY <1>4, <3>2 DEF ReapExpiredLeases
      <4>2. state[j] = "running" /\ attempt'[j] = attempt[j]
        BY <1>4, <3>2 DEF ReapExpiredLeases, ExpiredLeases
      <4>3. e \in Lifecycle!AnalysisEvent /\ to \in Lifecycle!AnalysisState
        BY DEF Lifecycle!AnalysisEvent, Lifecycle!AnalysisState
      <4> QED BY <1>E, <4>1, <4>2, <4>3
    <3> QED BY <3>1, <3>2
  <2> QED BY <2>1, <2>2 DEF TrailInv
<1>5. ASSUME NEW w \in Workers, NEW j \in Jobs, TakeJob(w, j), state[j] = "queued"
      PROVE  TrailInv'
  <2>1. /\ state'[j] = "running" /\ attempt'[j] = attempt[j] + 1
        /\ trail'[j] = Append(trail[j], Transition("queued", "claimed", "running",
                                                   attempt[j] + 1))
        /\ \A i \in Jobs \ {j} : /\ state'[i] = state[i] /\ attempt'[i] = attempt[i]
                                 /\ trail'[i] = trail[i]
    BY <1>5, <1>T DEF TakeJob, Claim
  <2>2. AbsentUnused'
    BY <1>A, <2>1 DEF AbsentUnused
  <2>3. Transition("queued", "claimed", "running", attempt[j] + 1) \in JobTransition
    <3>1. attempt[j] + 1 \in Nat
      BY <1>T
    <3> QED BY <3>1, TransitionType DEF Lifecycle!AnalysisEvent,
                                        Lifecycle!AnalysisState
  <2>4. ASSUME NEW n \in 1..MaxAttempts[j]
        PROVE  Counted(trail'[j], n, attempt'[j], state'[j])
    <3>1. Counted(trail[j], n, attempt[j], "queued")
      BY <1>5, <1>A DEF AllCounted
    <3>2. n \in Nat /\ trail[j] \in Seq(JobTransition) /\ attempt[j] \in Nat
      BY <1>T
    <3>3. Counted(Append(trail[j], Transition("queued", "claimed", "running",
                                              attempt[j] + 1)),
                  n, attempt[j] + 1, "running")
      BY <2>3, <3>1, <3>2, CountClaim
    <3> QED BY <2>1, <3>3
  <2>5. AllCounted(j)'
    BY <2>4 DEF AllCounted
  <2>6. \A i \in Jobs \ {j} : AllCounted(i)'
    BY <1>K, <2>1
  <2> QED BY <2>2, <2>5, <2>6 DEF TrailInv
<1>6. ASSUME UNCHANGED <<state, attempt, trail>>
      PROVE  TrailInv'
  BY <1>6, <1>A DEF TrailInv, AbsentUnused, AllCounted
<1>7. ASSUME NEW w \in Workers, Poll(w)
      PROVE  TrailInv'
  BY <1>5, <1>6, <1>7
     DEF Poll, ClaimAnalysis, ClaimSimulation, Claimable, NoAnalysisWaiting,
         NoSimulationWaiting, tables
<1>8. ASSUME NEW w \in Workers, Report(w)
      PROVE  TrailInv'
  <2>0. held[w] \in Jobs /\ outcome[w] \in Outcomes /\ loop[w] = "report"
    BY <1>0, <1>8 DEF Report, TypeInv, WorkerShape
  <2>1. PICK j \in Jobs : j = held[w]
    BY <2>0
  <2> DEFINE e == EventFor(j, heldAttempt[w], outcome[w])
  <2>2. CASE HoldsLease(w, j)
    <3>1. Finish(j, heldAttempt[w], e)
      BY <1>8, <2>1, <2>2 DEF Report
    <3>2. heldAttempt[w] = attempt[j] /\ state[j] = "running"
      BY <1>0, <2>0, <2>1, <2>2 DEF HolderIsCurrent, HoldsLease
    <3>3. e \in {"completed", "permanent_failure", "transient_failure",
                 "attempts_exhausted"}
      BY <2>0, EventForValues
    <3> HIDE DEF e
    <3>4. NextOf(e) \in {"succeeded", "failed", "retrying", "dead_lettered"}
      BY <3>3, NextOfValues
    <3>5. /\ state'[j] = NextOf(e) /\ attempt' = attempt
          /\ trail'[j] = Append(trail[j],
                                Transition("running", e, NextOf(e), attempt[j]))
          /\ \A i \in Jobs \ {j} : state'[i] = state[i] /\ trail'[i] = trail[i]
      BY <1>T, <2>1, <3>1, <3>2 DEF Finish
    <3>6. /\ e \in Lifecycle!AnalysisEvent /\ e # "claimed"
          /\ NextOf(e) \in Lifecycle!AnalysisState /\ NextOf(e) # "running"
      BY <3>3, <3>4 DEF Lifecycle!AnalysisEvent, Lifecycle!AnalysisState
    <3>7. AllCounted(j)'
      BY <1>E, <2>1, <3>2, <3>5, <3>6
    <3>8. \A i \in Jobs \ {j} : AllCounted(i)'
      BY <1>K, <3>5
    <3>9. AbsentUnused'
      BY <1>A, <2>1, <3>4, <3>5 DEF AbsentUnused
    <3> QED BY <3>7, <3>8, <3>9 DEF TrailInv
  <2>3. CASE ~HoldsLease(w, j)
    BY <1>6, <1>8, <2>1, <2>3 DEF Report, tables
  <2> QED BY <2>2, <2>3
<1>9. ASSUME NEW w \in Workers,
             \/ Heartbeat(w) \/ HeartbeatError(w) \/ ReportLost(w) \/ Crash(w)
             \/ \E o \in Outcomes : RunReturns(w, o)
      PROVE  TrailInv'
  BY <1>6, <1>9 DEF Heartbeat, HeartbeatError, ReportLost, Crash, RunReturns, tables
<1>10. ASSUME NEW j \in Jobs, LeaseExpires(j) \/ BackoffElapses(j)
       PROVE  TrailInv'
  BY <1>6, <1>10 DEF LeaseExpires, BackoffElapses
<1>11. CASE UNCHANGED vars
  BY <1>6, <1>11 DEF vars
<1> QED BY <1>1, <1>2, <1>3, <1>4, <1>7, <1>8, <1>9, <1>10, <1>11 DEF Next

\* In the trail the operators read, every attempt is claimed once and ended
\* once, however report, reaper and cancellation race for it, and only the
\* current attempt of a running job is still open.
THEOREM AttemptsEndOnce ==
  ASSUME DistinctIds
  PROVE  Spec => []EachAttemptEndsOnce
PROOF
<1>1. IInv /\ [Next]_vars => IInv'
  BY IInvStep
<1>2. IInv /\ TrailInv /\ [Next]_vars => IInv' /\ TrailInv'
  <2> SUFFICES ASSUME IInv, TrailInv, [Next]_vars
               PROVE  IInv' /\ TrailInv'
    OBVIOUS
  <2>1. IInv' /\ TypeInv'
    BY <1>1 DEF IInv
  <2> QED BY <2>1, TrailInvStep
<1>3. TrailInv => EachAttemptEndsOnce
  BY DEF TrailInv, AllCounted, Counted, Claims, Ends, EachAttemptEndsOnce
<1> QED BY IInvInit, TrailInvInit, <1>2, <1>3, PTL DEF Spec

-----------------------------------------------------------------------------
(* JobQueue implements JobLifecycle.                                       *)

\* The rows of the table that the queue's statements use.
LEMMA RowsUsed ==
  /\ <<"queued", "claimed", "running">> \in Lifecycle!TransitionTable
  /\ <<"running", "completed", "succeeded">> \in Lifecycle!TransitionTable
  /\ <<"running", "permanent_failure", "failed">> \in Lifecycle!TransitionTable
  /\ <<"running", "transient_failure", "retrying">> \in Lifecycle!TransitionTable
  /\ <<"running", "lease_expired", "retrying">> \in Lifecycle!TransitionTable
  /\ <<"running", "attempts_exhausted", "dead_lettered">>
       \in Lifecycle!TransitionTable
  /\ <<"retrying", "backoff_elapsed", "queued">> \in Lifecycle!TransitionTable
  /\ <<"queued", "cancel_requested", "cancelled">> \in Lifecycle!TransitionTable
  /\ <<"running", "cancel_requested", "cancelled">> \in Lifecycle!TransitionTable
  /\ <<"retrying", "cancel_requested", "cancelled">> \in Lifecycle!TransitionTable
BY DEF Lifecycle!TransitionTable

\* A move, given by the row of the table it takes.
LEMMA MoveBy ==
  ASSUME NEW j \in Jobs, NEW from, NEW e, NEW to,
         <<from, e, to>> \in Lifecycle!TransitionTable,
         state[j] = from, state'[j] = to,
         e \in {"claimed", "transient_failure", "lease_expired"}
           => attempt[j] < MaxAttempts[j],
         e = "attempts_exhausted" => attempt[j] >= MaxAttempts[j],
         attempt'[j] = IF e = "claimed" THEN attempt[j] + 1 ELSE attempt[j]
  PROVE  Lifecycle!Move(j)
PROOF
<1> DEFINE t == <<from, e, to>>
<1>1. t[1] = from /\ t[2] = e /\ t[3] = to
  OBVIOUS
<1>2. t \in Lifecycle!TransitionTable
  OBVIOUS
<1> HIDE DEF t
<1>3. Lifecycle!MayMove(t, attempt[j], MaxAttempts[j])
  BY <1>1 DEF Lifecycle!MayMove
<1> QED BY <1>1, <1>2, <1>3 DEF Lifecycle!Move

LEMMA LifecycleStep ==
  ASSUME IInv, TypeInv', [Next]_vars
  PROVE  [Lifecycle!Next]_(Lifecycle!lifecycle)
PROOF
<1> DEFINE Moves(j) == Lifecycle!Stay(j) \/ Lifecycle!Create(j) \/ Lifecycle!Move(j)
<1>0. TypeInv /\ AttemptsAndDeadLetters
  BY DEF IInv
<1>T. /\ state \in [Jobs -> Lifecycle!AnalysisState \cup {"absent"}]
      /\ attempt \in [Jobs -> Nat]
      /\ state' \in [Jobs -> Lifecycle!AnalysisState \cup {"absent"}]
      /\ attempt' \in [Jobs -> Nat]
  BY <1>0 DEF TypeInv, TypeOK
<1>N. ASSUME \A j \in Jobs : Moves(j)
      PROVE  [Lifecycle!Next]_(Lifecycle!lifecycle)
  BY <1>T, <1>N DEF Lifecycle!Next
<1>U. ASSUME UNCHANGED <<state, attempt>>
      PROVE  [Lifecycle!Next]_(Lifecycle!lifecycle)
  BY <1>U DEF Lifecycle!lifecycle
<1>O. ASSUME NEW j \in Jobs, Moves(j),
             \A i \in Jobs \ {j} : state'[i] = state[i] /\ attempt'[i] = attempt[i]
      PROVE  [Lifecycle!Next]_(Lifecycle!lifecycle)
  BY <1>N, <1>O DEF Lifecycle!Stay
<1>1. ASSUME NEW j \in Jobs, Enqueue(j)
      PROVE  [Lifecycle!Next]_(Lifecycle!lifecycle)
  <2>1. Lifecycle!Create(j)
    BY <1>1, <1>T DEF Enqueue, Lifecycle!Create
  <2>2. \A i \in Jobs \ {j} : state'[i] = state[i] /\ attempt'[i] = attempt[i]
    BY <1>1, <1>T DEF Enqueue
  <2> QED BY <2>1, <2>2, <1>O
<1>2. ASSUME NEW j \in Jobs, Cancel(j)
      PROVE  [Lifecycle!Next]_(Lifecycle!lifecycle)
  <2>1. /\ state[j] \in {"queued", "running", "retrying"}
        /\ state'[j] = "cancelled" /\ attempt'[j] = attempt[j]
        /\ \A i \in Jobs \ {j} : state'[i] = state[i] /\ attempt'[i] = attempt[i]
    BY <1>2, <1>T DEF Cancel
  <2>2. <<state[j], "cancel_requested", "cancelled">> \in Lifecycle!TransitionTable
    BY <2>1, RowsUsed
  <2>3. Lifecycle!Move(j)
    BY <2>1, <2>2, MoveBy
  <2> QED BY <2>1, <2>3, <1>O
<1>3. ASSUME ReleaseElapsedBackoffs
      PROVE  [Lifecycle!Next]_(Lifecycle!lifecycle)
  <2>1. ASSUME NEW j \in Jobs
        PROVE  Moves(j)
    <3>1. CASE j \in ElapsedBackoffs
      <4>1. state[j] = "retrying" /\ state'[j] = "queued" /\ attempt'[j] = attempt[j]
        BY <1>3, <3>1 DEF ReleaseElapsedBackoffs, ElapsedBackoffs
      <4> QED BY <4>1, RowsUsed, MoveBy
    <3>2. CASE j \notin ElapsedBackoffs
      BY <1>3, <3>2 DEF ReleaseElapsedBackoffs, Lifecycle!Stay
    <3> QED BY <3>1, <3>2
  <2> QED BY <2>1, <1>N
<1>4. ASSUME NEW reaped \in SUBSET ExpiredLeases, ReapExpiredLeases(reaped)
      PROVE  [Lifecycle!Next]_(Lifecycle!lifecycle)
  <2>1. ASSUME NEW j \in Jobs
        PROVE  Moves(j)
    <3>0. attempt[j] \in Nat /\ MaxAttempts[j] \in Nat /\ attempt'[j] = attempt[j]
      BY <1>4, <1>T, MaxAttemptsAssumption DEF ReapExpiredLeases
    <3>1. CASE j \in reaped /\ Exhausted(j)
      <4>1. /\ state[j] = "running" /\ state'[j] = "dead_lettered"
            /\ attempt[j] >= MaxAttempts[j]
        BY <1>4, <3>1 DEF ReapExpiredLeases, ExpiredLeases, Exhausted
      <4> QED BY <3>0, <4>1, RowsUsed, MoveBy
    <3>2. CASE j \in reaped /\ ~Exhausted(j)
      <4>1. /\ state[j] = "running" /\ state'[j] = "retrying"
            /\ attempt[j] < MaxAttempts[j]
        BY <1>4, <3>0, <3>2 DEF ReapExpiredLeases, ExpiredLeases, Exhausted
      <4> QED BY <3>0, <4>1, RowsUsed, MoveBy
    <3>3. CASE j \notin reaped
      BY <1>4, <3>0, <3>3 DEF ReapExpiredLeases, Lifecycle!Stay
    <3> QED BY <3>1, <3>2, <3>3
  <2> QED BY <2>1, <1>N
<1>5. ASSUME NEW w \in Workers, Poll(w)
      PROVE  [Lifecycle!Next]_(Lifecycle!lifecycle)
  <2>1. ASSUME NEW j \in Jobs, TakeJob(w, j), state[j] = "queued"
        PROVE  [Lifecycle!Next]_(Lifecycle!lifecycle)
    <3>1. /\ state'[j] = "running" /\ attempt'[j] = attempt[j] + 1
          /\ \A i \in Jobs \ {j} : state'[i] = state[i] /\ attempt'[i] = attempt[i]
      BY <2>1, <1>T DEF TakeJob, Claim
    <3>2. attempt[j] < MaxAttempts[j]
      BY <1>0, <2>1 DEF AttemptsAndDeadLetters
    <3>3. Lifecycle!Move(j)
      BY <2>1, <3>1, <3>2, RowsUsed, MoveBy
    <3> QED BY <3>1, <3>3, <1>O
  <2> QED BY <1>5, <2>1, <1>U
          DEF Poll, ClaimAnalysis, ClaimSimulation, Claimable,
              NoAnalysisWaiting, NoSimulationWaiting, tables
<1>6. ASSUME NEW w \in Workers, Report(w)
      PROVE  [Lifecycle!Next]_(Lifecycle!lifecycle)
  <2> DEFINE j == held[w]
             e == EventFor(j, heldAttempt[w], outcome[w])
  <2>1. j \in Jobs /\ outcome[w] \in Outcomes
    BY <1>0, <1>6 DEF Report, TypeInv, WorkerShape
  <2>2. CASE HoldsLease(w, j)
    <3>1. Finish(j, heldAttempt[w], e)
      BY <1>6, <2>2 DEF Report
    <3>2. heldAttempt[w] = attempt[j] /\ state[j] = "running"
      BY <1>6, <2>2 DEF Report, IInv, HolderIsCurrent, HoldsLease
    <3>3. attempt[j] \in Nat /\ MaxAttempts[j] \in Nat
      BY <1>T, <2>1, MaxAttemptsAssumption
    <3>4. /\ e \in {"completed", "permanent_failure", "transient_failure",
                    "attempts_exhausted"}
          /\ e = "transient_failure" => attempt[j] < MaxAttempts[j]
          /\ e = "attempts_exhausted" => attempt[j] >= MaxAttempts[j]
      BY <2>1, <3>2, <3>3 DEF EventFor, Outcomes
    <3> HIDE DEF e, j
    <3>5. /\ state'[j] = NextOf(e) /\ attempt'[j] = attempt[j]
          /\ \A i \in Jobs \ {j} : state'[i] = state[i] /\ attempt'[i] = attempt[i]
      BY <1>T, <2>1, <3>1 DEF Finish
    <3>6. <<"running", e, NextOf(e)>> \in Lifecycle!TransitionTable
      BY <3>4, NextOfValues, RowsUsed
    <3>7. Lifecycle!Move(j)
      BY <2>1, <3>2, <3>4, <3>5, <3>6, MoveBy
    <3> QED BY <2>1, <3>5, <3>7, <1>O
  <2>3. CASE ~HoldsLease(w, j)
    BY <1>6, <2>3, <1>U DEF Report, tables
  <2> QED BY <2>2, <2>3
<1>7. CASE UNCHANGED vars
  BY <1>7, <1>U DEF vars
<1>8. ASSUME NEW w \in Workers,
             \/ Heartbeat(w) \/ HeartbeatError(w) \/ ReportLost(w) \/ Crash(w)
             \/ \E o \in Outcomes : RunReturns(w, o)
      PROVE  [Lifecycle!Next]_(Lifecycle!lifecycle)
  BY <1>8, <1>U DEF Heartbeat, HeartbeatError, ReportLost, Crash, RunReturns, tables
<1>9. ASSUME NEW j \in Jobs, LeaseExpires(j) \/ BackoffElapses(j)
      PROVE  [Lifecycle!Next]_(Lifecycle!lifecycle)
  BY <1>9, <1>U DEF LeaseExpires, BackoffElapses
<1> QED BY <1>1, <1>2, <1>3, <1>4, <1>5, <1>6, <1>7, <1>8, <1>9 DEF Next

\* The queue implements the job state machine: every statement, the SQL
\* literals included, makes only moves of the table, a claim or retry only
\* with an attempt left, and nothing leaves a terminal state.
THEOREM QueueImplementsLifecycle ==
  ASSUME DistinctIds
  PROVE  Spec => RefinesLifecycle
PROOF
<1>1. Init => Lifecycle!Init
  BY DEF Init, Lifecycle!Init
<1>2. IInv /\ [Next]_vars => IInv'
  BY IInvStep
<1>3. IInv /\ [Next]_vars => [Lifecycle!Next]_(Lifecycle!lifecycle)
  <2> SUFFICES ASSUME IInv, [Next]_vars
               PROVE  [Lifecycle!Next]_(Lifecycle!lifecycle)
    OBVIOUS
  <2>1. TypeInv'
    BY <1>2 DEF IInv
  <2> QED BY <2>1, LifecycleStep
<1> QED BY IInvInit, <1>1, <1>2, <1>3, PTL
        DEF Spec, RefinesLifecycle, Lifecycle!Spec

=============================================================================

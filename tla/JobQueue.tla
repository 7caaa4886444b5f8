------------------------------ MODULE JobQueue ------------------------------
(***************************************************************************)
(* The durable job queue (crates/jobs/src/queue.rs) and the worker loop    *)
(* that drives it (workers/analysis-worker/src/main.rs).                   *)
(*                                                                         *)
(* The tables jobs, job_transitions and dead_letters are shared; each      *)
(* queue operation is one database transaction and one action.  A worker   *)
(* keeps a private copy of the row it claimed and works from that copy     *)
(* while the row may change under it.                                      *)
(*                                                                         *)
(* Time is kept as the two comparisons the SQL makes: lease[j] says        *)
(* whether leased_until has passed, due[j] whether run_after has.          *)
(***************************************************************************)
EXTENDS Naturals, Sequences, FiniteSets

CONSTANTS Jobs,         \* job identifiers, one per (company, kind, key)
          Kind,         \* Jobs -> {"analysis", "simulation"}
          MaxAttempts,  \* Jobs -> the policy's max_attempts
          Workers,      \* worker processes
          Ids,          \* values of worker_id
          IdOf,         \* Workers -> Ids, the HOSTNAME of each process
          NoOne,        \* NULL in leased_by
          NoJob         \* a worker that holds nothing

ASSUME KindAssumption == Kind \in [Jobs -> {"analysis", "simulation"}]
ASSUME MaxAttemptsAssumption == MaxAttempts \in [Jobs -> Nat \ {0}]
ASSUME IdAssumption == IdOf \in [Workers -> Ids] /\ NoOne \notin Ids
ASSUME NoJobAssumption == NoJob \notin Jobs

VARIABLES
  state, attempt,   \* jobs.state ("absent": no row yet) and jobs.attempt
  leasedBy,         \* jobs.leased_by
  lease,            \* jobs.leased_until: "none", "live" or "expired"
  due,              \* run_after <= now()
  trail,            \* job_transitions, per job, in order
  deadLetters,      \* job_id of the rows of dead_letters
  loop,             \* where each worker's loop is
  held,             \* the id of the job the worker works on
  heldAttempt,      \* the attempt number in the worker's copy of the row
  outcome,          \* what the run returned, while it is being reported
  beating           \* the heartbeat task of the current run is alive

tables  == <<state, attempt, leasedBy, lease, due, trail, deadLetters>>
process == <<loop, held, heldAttempt, outcome, beating>>
vars    == <<state, attempt, leasedBy, lease, due, trail, deadLetters,
             loop, held, heldAttempt, outcome, beating>>

Lifecycle == INSTANCE JobLifecycle

Outcomes == {"ok", "transient", "permanent"}

\* A row of job_transitions.
JobTransition == [from : Lifecycle!AnalysisState,
                  event : Lifecycle!AnalysisEvent,
                  to : Lifecycle!AnalysisState,
                  attempt : Nat]

\* The types the row mapping accepts and the CHECK constraints of table jobs.
TypeOK ==
  /\ state \in [Jobs -> Lifecycle!AnalysisState \cup {"absent"}]
  /\ attempt \in [Jobs -> Nat]
  /\ leasedBy \in [Jobs -> Ids \cup {NoOne}]
  /\ lease \in [Jobs -> {"none", "live", "expired"}]
  /\ due \in [Jobs -> BOOLEAN]
  /\ trail \in [Jobs -> Seq(JobTransition)]
  /\ deadLetters \subseteq Jobs
  /\ loop \in [Workers -> {"poll", "pollSimulation", "run", "report"}]
  /\ held \in [Workers -> Jobs \cup {NoJob}]
  /\ heldAttempt \in [Workers -> Nat]
  /\ outcome \in [Workers -> Outcomes \cup {"none"}]
  /\ beating \in [Workers -> BOOLEAN]

Init ==
  /\ state = [j \in Jobs |-> "absent"]
  /\ attempt = [j \in Jobs |-> 0]
  /\ leasedBy = [j \in Jobs |-> NoOne]
  /\ lease = [j \in Jobs |-> "none"]
  /\ due = [j \in Jobs |-> FALSE]
  /\ trail = [j \in Jobs |-> << >>]
  /\ deadLetters = {}
  /\ loop = [w \in Workers |-> "poll"]
  /\ held = [w \in Workers |-> NoJob]
  /\ heldAttempt = [w \in Workers |-> 0]
  /\ outcome = [w \in Workers |-> "none"]
  /\ beating = [w \in Workers |-> FALSE]

-----------------------------------------------------------------------------
(* The queue's transactions.                                               *)

\* Mutants of Transition: arguments bound in the wrong order.
TransitionEventLast(from, event, to, n) ==
  [from |-> from, event |-> to, to |-> event, attempt |-> n]

TransitionReversed(from, event, to, n) ==
  [from |-> to, event |-> event, to |-> from, attempt |-> n]

\* record_transition.
Transition(from, event, to, n) ==
  [from |-> from, event |-> event, to |-> to, attempt |-> n]

Claimable(kind) ==
  {j \in Jobs : Kind[j] = kind /\ state[j] = "queued" /\ due[j]}

\* Mutant of Enqueue: ON CONFLICT DO UPDATE.
EnqueueOverwrites(j) ==
  /\ state' = [state EXCEPT ![j] = "queued"]
  /\ attempt' = [attempt EXCEPT ![j] = 0]
  /\ due' = [due EXCEPT ![j] = TRUE]
  /\ UNCHANGED <<leasedBy, lease, trail, deadLetters>>
  /\ UNCHANGED process

\* INSERT ... ON CONFLICT DO NOTHING: a second enqueue of the key reads the
\* row that is there and changes nothing.  No caller passes a delay.
Enqueue(j) ==
  /\ state[j] = "absent"
  /\ state' = [state EXCEPT ![j] = "queued"]
  /\ attempt' = [attempt EXCEPT ![j] = 0]
  /\ due' = [due EXCEPT ![j] = TRUE]
  /\ UNCHANGED <<leasedBy, lease, trail, deadLetters>>
  /\ UNCHANGED process

\* The claim's UPDATE and its transition row.  Any claimable row of the kind
\* may be the one taken: the oldest may be locked and skipped.
Claim(w, j) ==
  /\ state' = [state EXCEPT ![j] = "running"]
  /\ attempt' = [attempt EXCEPT ![j] = attempt[j] + 1]
  /\ leasedBy' = [leasedBy EXCEPT ![j] = IdOf[w]]
  /\ lease' = [lease EXCEPT ![j] = "live"]
  /\ trail' = [trail EXCEPT ![j] =
                 Append(trail[j], Transition("queued", "claimed", "running",
                                             attempt[j] + 1))]
  /\ UNCHANGED <<due, deadLetters>>

\* Mutant of HoldsLease: any running row will do.
HoldsAnyLease(w, j) == state[j] = "running"

\* The WHERE clause shared by heartbeat and finish.
HoldsLease(w, j) ==
  /\ state[j] = "running"
  /\ leasedBy[j] = IdOf[w]

\* event_for_failure and the success case, on the worker's copy of the row.
EventFor(j, n, o) ==
  CASE o = "ok"        -> "completed"
    [] o = "permanent" -> "permanent_failure"
    [] o = "transient" -> IF n >= MaxAttempts[j] THEN "attempts_exhausted"
                          ELSE "transient_failure"

\* try_transition of the running copy the worker holds.
NextOf(event) ==
  (CHOOSE t \in Lifecycle!TransitionTable :
     t[1] = "running" /\ t[2] = event)[3]

\* finish, once its guard has matched: one row updated, one transition
\* recorded, and the dead letter in the same transaction.
Finish(j, n, event) ==
  /\ state' = [state EXCEPT ![j] = NextOf(event)]
  /\ due' = [due EXCEPT ![j] = IF event = "transient_failure" THEN FALSE
                               ELSE due[j]]
  /\ leasedBy' = [leasedBy EXCEPT ![j] = NoOne]
  /\ lease' = [lease EXCEPT ![j] = "none"]
  /\ trail' = [trail EXCEPT ![j] =
                 Append(trail[j], Transition("running", event, NextOf(event), n))]
  /\ deadLetters' = deadLetters \cup
                      (IF NextOf(event) = "dead_lettered" THEN {j} ELSE {})
  /\ UNCHANGED attempt

\* Mutant of Cancel: the lease columns are left as they are.
CancelKeepsLease(j) ==
  /\ state[j] \in {"queued", "running", "retrying"}
  /\ state' = [state EXCEPT ![j] = "cancelled"]
  /\ trail' = [trail EXCEPT ![j] =
                 Append(trail[j], Transition(state[j], "cancel_requested",
                                             "cancelled", attempt[j]))]
  /\ UNCHANGED <<attempt, leasedBy, lease, due, deadLetters>>
  /\ UNCHANGED process

\* cancel locks the row and asks the table; a finished job is left alone.
Cancel(j) ==
  /\ state[j] \in {"queued", "running", "retrying"}
  /\ state' = [state EXCEPT ![j] = "cancelled"]
  /\ leasedBy' = [leasedBy EXCEPT ![j] = NoOne]
  /\ lease' = [lease EXCEPT ![j] = "none"]
  /\ trail' = [trail EXCEPT ![j] =
                 Append(trail[j], Transition(state[j], "cancel_requested",
                                             "cancelled", attempt[j]))]
  /\ UNCHANGED <<attempt, due, deadLetters>>
  /\ UNCHANGED process

ElapsedBackoffs == {j \in Jobs : state[j] = "retrying" /\ due[j]}

\* One UPDATE over every row whose backoff is over.  It records no transition.
ReleaseElapsedBackoffs ==
  /\ ElapsedBackoffs # {}
  /\ state' = [j \in Jobs |-> IF j \in ElapsedBackoffs THEN "queued"
                              ELSE state[j]]
  /\ UNCHANGED <<attempt, leasedBy, lease, due, trail, deadLetters>>
  /\ UNCHANGED process

\* Mutant of ExpiredLeases: jobs on their last attempt are passed over.
ExpiredLeasesToRetry ==
  {j \in Jobs : /\ state[j] = "running" /\ lease[j] = "expired"
                /\ attempt[j] < MaxAttempts[j]}

ExpiredLeases == {j \in Jobs : state[j] = "running" /\ lease[j] = "expired"}

\* Mutant of Exhausted: one attempt too many.
ExhaustedLate(j) == attempt[j] > MaxAttempts[j]

Exhausted(j) == attempt[j] >= MaxAttempts[j]

\* One transaction over the expired rows no other transaction has locked.
ReapExpiredLeases(reaped) ==
  /\ reaped # {} /\ reaped \subseteq ExpiredLeases
  /\ state' = [j \in Jobs |-> IF j \notin reaped THEN state[j]
                              ELSE IF Exhausted(j) THEN "dead_lettered"
                              ELSE "retrying"]
  /\ leasedBy' = [j \in Jobs |-> IF j \in reaped THEN NoOne ELSE leasedBy[j]]
  /\ lease' = [j \in Jobs |-> IF j \in reaped THEN "none" ELSE lease[j]]
  /\ due' = [j \in Jobs |-> IF j \in reaped THEN FALSE ELSE due[j]]
  /\ trail' = [j \in Jobs |->
                 IF j \notin reaped THEN trail[j]
                 ELSE Append(trail[j],
                        IF Exhausted(j)
                        THEN Transition("running", "attempts_exhausted",
                                        "dead_lettered", attempt[j])
                        ELSE Transition("running", "lease_expired",
                                        "retrying", attempt[j]))]
  /\ deadLetters' = deadLetters \cup {j \in reaped : Exhausted(j)}
  /\ UNCHANGED attempt
  /\ UNCHANGED process

-----------------------------------------------------------------------------
(* The clock.                                                              *)

LeaseExpires(j) ==
  /\ lease[j] = "live"
  /\ lease' = [lease EXCEPT ![j] = "expired"]
  /\ UNCHANGED <<state, attempt, leasedBy, due, trail, deadLetters>>
  /\ UNCHANGED process

BackoffElapses(j) ==
  /\ state[j] # "absent" /\ ~due[j]
  /\ due' = [due EXCEPT ![j] = TRUE]
  /\ UNCHANGED <<state, attempt, leasedBy, lease, trail, deadLetters>>
  /\ UNCHANGED process

-----------------------------------------------------------------------------
(* The worker loop.                                                        *)

\* Mutant of TakeJob: the copy is of the row before the claim's UPDATE.
TakeJobOldCopy(w, j) ==
  /\ Claim(w, j)
  /\ loop' = [loop EXCEPT ![w] = "run"]
  /\ held' = [held EXCEPT ![w] = j]
  /\ heldAttempt' = [heldAttempt EXCEPT ![w] = attempt[j]]
  /\ beating' = [beating EXCEPT ![w] = TRUE]
  /\ UNCHANGED outcome

\* The claimed row becomes the worker's copy; the heartbeat task starts.
TakeJob(w, j) ==
  /\ Claim(w, j)
  /\ loop' = [loop EXCEPT ![w] = "run"]
  /\ held' = [held EXCEPT ![w] = j]
  /\ heldAttempt' = [heldAttempt EXCEPT ![w] = attempt[j] + 1]
  /\ beating' = [beating EXCEPT ![w] = TRUE]
  /\ UNCHANGED outcome

\* claim_any: analyses first, in a transaction of their own ...
ClaimAnalysis(w, j) ==
  /\ loop[w] = "poll"
  /\ j \in Claimable("analysis")
  /\ TakeJob(w, j)

NoAnalysisWaiting(w) ==
  /\ loop[w] = "poll"
  /\ Claimable("analysis") = {}
  /\ loop' = [loop EXCEPT ![w] = "pollSimulation"]
  /\ UNCHANGED <<held, heldAttempt, outcome, beating>>
  /\ UNCHANGED tables

\* ... and only then simulations; with neither the loop sleeps and polls again.
ClaimSimulation(w, j) ==
  /\ loop[w] = "pollSimulation"
  /\ j \in Claimable("simulation")
  /\ TakeJob(w, j)

NoSimulationWaiting(w) ==
  /\ loop[w] = "pollSimulation"
  /\ Claimable("simulation") = {}
  /\ loop' = [loop EXCEPT ![w] = "poll"]
  /\ UNCHANGED <<held, heldAttempt, outcome, beating>>
  /\ UNCHANGED tables

\* A beat of the heartbeat task.  It ends when the row is not this worker's
\* any more; the run it belongs to goes on.
Heartbeat(w) ==
  /\ loop[w] = "run" /\ beating[w]
  /\ IF HoldsLease(w, held[w])
     THEN /\ lease' = [lease EXCEPT ![held[w]] = "live"]
          /\ UNCHANGED beating
     ELSE /\ beating' = [beating EXCEPT ![w] = FALSE]
          /\ UNCHANGED lease
  /\ UNCHANGED <<state, attempt, leasedBy, due, trail, deadLetters>>
  /\ UNCHANGED <<loop, held, heldAttempt, outcome>>

\* A database error ends the heartbeat task as well.
HeartbeatError(w) ==
  /\ loop[w] = "run" /\ beating[w]
  /\ beating' = [beating EXCEPT ![w] = FALSE]
  /\ UNCHANGED <<loop, held, heldAttempt, outcome>>
  /\ UNCHANGED tables

\* The run returns and the heartbeat is aborted.
RunReturns(w, o) ==
  /\ loop[w] = "run"
  /\ loop' = [loop EXCEPT ![w] = "report"]
  /\ outcome' = [outcome EXCEPT ![w] = o]
  /\ beating' = [beating EXCEPT ![w] = FALSE]
  /\ UNCHANGED <<held, heldAttempt>>
  /\ UNCHANGED tables

\* The worker is back at the top of its loop, its copy of the row gone.
BackToPolling(w) ==
  /\ loop' = [loop EXCEPT ![w] = "poll"]
  /\ held' = [held EXCEPT ![w] = NoJob]
  /\ heldAttempt' = [heldAttempt EXCEPT ![w] = 0]
  /\ outcome' = [outcome EXCEPT ![w] = "none"]
  /\ beating' = [beating EXCEPT ![w] = FALSE]

\* succeed or fail.  When the guard of finish matches no row the transaction
\* is rolled back and the error only logged.
Report(w) ==
  /\ loop[w] = "report"
  /\ LET j == held[w]
         n == heldAttempt[w]
     IN IF HoldsLease(w, j)
        THEN Finish(j, n, EventFor(j, n, outcome[w]))
        ELSE UNCHANGED tables
  /\ BackToPolling(w)

\* The report never reaches the database; the error is logged.
ReportLost(w) ==
  /\ loop[w] = "report"
  /\ BackToPolling(w)
  /\ UNCHANGED tables

\* The process dies with its run and comes back under the same worker_id: an
\* evicted pod, an OOM kill, or a shutdown that drops a claim just committed.
Crash(w) ==
  /\ loop[w] \in {"run", "report"}
  /\ BackToPolling(w)
  /\ UNCHANGED tables

-----------------------------------------------------------------------------
Poll(w) ==
  \/ \E j \in Jobs : ClaimAnalysis(w, j)
  \/ NoAnalysisWaiting(w)
  \/ \E j \in Jobs : ClaimSimulation(w, j)
  \/ NoSimulationWaiting(w)

Next ==
  \/ \E j \in Jobs : Enqueue(j)
  \/ \E j \in Jobs : Cancel(j)
  \/ \E j \in Jobs : LeaseExpires(j)
  \/ \E j \in Jobs : BackoffElapses(j)
  \/ ReleaseElapsedBackoffs
  \/ \E reaped \in SUBSET ExpiredLeases : ReapExpiredLeases(reaped)
  \/ \E w \in Workers : Poll(w)
  \/ \E w \in Workers : Heartbeat(w)
  \/ \E w \in Workers : HeartbeatError(w)
  \/ \E w \in Workers, o \in Outcomes : RunReturns(w, o)
  \/ \E w \in Workers : Report(w)
  \/ \E w \in Workers : ReportLost(w)
  \/ \E w \in Workers : Crash(w)

Spec == Init /\ [][Next]_vars

\* The timers behind liveness: the clock moves, the maintenance task ticks,
\* an idle worker polls, a run returns and is reported.
Fairness ==
  /\ \A j \in Jobs : WF_vars(LeaseExpires(j)) /\ WF_vars(BackoffElapses(j))
  /\ WF_vars(ReleaseElapsedBackoffs)
  /\ WF_vars(ReapExpiredLeases(ExpiredLeases))
  /\ \A w \in Workers :
       /\ WF_vars(Poll(w))
       /\ WF_vars(\E o \in Outcomes : RunReturns(w, o))
       /\ WF_vars(Report(w))

FairSpec == Spec /\ Fairness

-----------------------------------------------------------------------------
(* Properties.                                                             *)

\* Every pod has a HOSTNAME of its own.
DistinctIds == \A v, w \in Workers : IdOf[v] = IdOf[w] => v = w

\* The CHECK constraints lease_is_whole and lease_only_while_running hold
\* after every statement, and conversely a running job always has a lease
\* the reaper can see expire: none is running with nobody accountable for it.
LeaseExactlyWhileRunning ==
  \A j \in Jobs :
    /\ state[j] = "running" <=> leasedBy[j] # NoOne
    /\ leasedBy[j] = NoOne <=> lease[j] = "none"

\* The attempt counter never passes the policy's limit, although claim does
\* not compare the two: a job that waits, in the queue or for its backoff,
\* has an attempt left, and one is in the dead letter queue exactly when it
\* is dead-lettered, with every attempt used.
AttemptsAndDeadLetters ==
  \A j \in Jobs :
    /\ attempt[j] <= MaxAttempts[j]
    /\ state[j] \in {"absent", "queued", "retrying"}
         => attempt[j] < MaxAttempts[j]
    /\ j \in deadLetters <=> state[j] = "dead_lettered"
    /\ state[j] = "dead_lettered" => attempt[j] = MaxAttempts[j]

\* The guard leased_by = worker_id is enough to tell a current run from one
\* whose lease was reaped: a worker that matches it works from the attempt
\* the row is on.
HolderIsCurrent ==
  \A w \in Workers :
    /\ loop[w] \in {"run", "report"}
    /\ HoldsLease(w, held[w])
    => heldAttempt[w] = attempt[held[w]]

\* Each attempt is claimed once and leaves the running state at most once,
\* whatever mix of report, reaper and cancellation ends it, and only the
\* current one may still be running.
EachAttemptEndsOnce ==
  \A j \in Jobs :
    LET claims(n) == {i \in DOMAIN trail[j] : trail[j][i].event = "claimed"
                                              /\ trail[j][i].attempt = n}
        ends(n)   == {i \in DOMAIN trail[j] : trail[j][i].from = "running"
                                              /\ trail[j][i].attempt = n}
    IN \A n \in 1..MaxAttempts[j] :
         /\ Cardinality(claims(n)) = IF n <= attempt[j] THEN 1 ELSE 0
         /\ Cardinality(ends(n)) = IF n < attempt[j] THEN 1
                                   ELSE IF n > attempt[j] THEN 0
                                   ELSE IF state[j] = "running" THEN 0 ELSE 1

\* The queue's statements, which write state names as SQL literals, make only
\* the moves of the state machine, and no job leaves a terminal state.
RefinesLifecycle == Lifecycle!Spec

\* A report changes the job only while the reporting worker is on the row's
\* current attempt: "a worker whose lease was reaped must not be able to
\* report a result for a job someone else is now running" (finish).
NoStaleReport ==
  [][\A w \in Workers :
       /\ loop[w] = "report" /\ loop'[w] = "poll"
       /\ state'[held[w]] # state[held[w]]
       => heldAttempt[w] = attempt[held[w]]]_vars

\* No job is lost: whatever crashes, lost reports and dead heartbeats happen,
\* every job that is enqueued reaches a terminal state.
EveryJobEnds ==
  \A j \in Jobs : state[j] = "queued" ~> state[j] \in Lifecycle!is_terminal

=============================================================================

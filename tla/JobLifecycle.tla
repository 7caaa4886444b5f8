---------------------------- MODULE JobLifecycle ----------------------------
(***************************************************************************)
(* What the job queue promises about one job, without leases, workers or   *)
(* time: the state machine of core/state_machine.rs, together with the     *)
(* attempt counter of the retry policy.  JobQueue is shown to implement it.*)
(*                                                                         *)
(* A queue operation may move several jobs in one statement (the reaper    *)
(* and the backoff release do), so a step lets every job make at most one  *)
(* move of the table.                                                      *)
(***************************************************************************)
EXTENDS Naturals

CONSTANTS Jobs,         \* job identifiers
          MaxAttempts   \* max_attempts of each job, from its kind's policy

VARIABLES state,        \* jobs.state, or "absent" before the row exists
          attempt       \* jobs.attempt

lifecycle == <<state, attempt>>

-----------------------------------------------------------------------------
AnalysisState == {"queued", "running", "retrying", "succeeded", "failed",
                  "cancelled", "dead_lettered"}

is_terminal == {"succeeded", "failed", "cancelled", "dead_lettered"}

AnalysisEvent == {"claimed", "completed", "transient_failure",
                  "permanent_failure", "backoff_elapsed", "attempts_exhausted",
                  "cancel_requested", "lease_expired"}

\* The rows of try_transition: <<from, event, to>>.
TransitionTable ==
  { <<"queued",   "claimed",            "running">>,
    <<"queued",   "cancel_requested",   "cancelled">>,
    <<"queued",   "permanent_failure",  "failed">>,
    <<"running",  "completed",          "succeeded">>,
    <<"running",  "transient_failure",  "retrying">>,
    <<"running",  "lease_expired",      "retrying">>,
    <<"running",  "permanent_failure",  "failed">>,
    <<"running",  "cancel_requested",   "cancelled">>,
    <<"running",  "attempts_exhausted", "dead_lettered">>,
    <<"retrying", "backoff_elapsed",    "queued">>,
    <<"retrying", "attempts_exhausted", "dead_lettered">>,
    <<"retrying", "cancel_requested",   "cancelled">>,
    <<"retrying", "permanent_failure",  "failed">> }

\* The moves that a job on attempt n of at most max may make: a claim starts
\* the next attempt and needs one to be left, a retry too, and only a job
\* whose attempts are used up goes to the dead letter queue.
MayMove(t, n, max) ==
  /\ t[2] \in {"claimed", "transient_failure", "lease_expired"} => n < max
  /\ t[2] = "attempts_exhausted" => n >= max

Move(j) ==
  \E t \in TransitionTable :
     /\ state[j] = t[1]
     /\ MayMove(t, attempt[j], MaxAttempts[j])
     /\ state'[j] = t[3]
     /\ attempt'[j] = IF t[2] = "claimed" THEN attempt[j] + 1 ELSE attempt[j]

Create(j) ==
  /\ state[j] = "absent"
  /\ state'[j] = "queued"
  /\ attempt'[j] = 0

Stay(j) ==
  /\ state'[j] = state[j]
  /\ attempt'[j] = attempt[j]

-----------------------------------------------------------------------------
Init ==
  /\ state = [j \in Jobs |-> "absent"]
  /\ attempt = [j \in Jobs |-> 0]

Next ==
  /\ state' \in [Jobs -> AnalysisState \cup {"absent"}]
  /\ attempt' \in [Jobs -> Nat]
  /\ \A j \in Jobs : Stay(j) \/ Create(j) \/ Move(j)

Spec == Init /\ [][Next]_lifecycle

=============================================================================

---------------------------- MODULE SourceSweep ----------------------------
(* The sweep that keeps the rule set's cited sources honest.  Every analysis  *)
(* worker wakes on a ticker, asks whether any source_retrievals row is older  *)
(* than the interval, takes a cluster-wide Postgres advisory lock, asks       *)
(* again, and then fetches and records every source of the registry in order. *)
(*                                                                            *)
(* The advisory lock belongs to the CONNECTION that took it.  The guard holds *)
(* that connection; a guard dropped without its unlock puts the connection    *)
(* back in the worker's pool with the lock still held (depth > 0), where only *)
(* the pool's recycling, or the death of the worker, ends it.  Postgres locks *)
(* are reentrant: a worker that draws the same connection again takes the     *)
(* lock once more and later undoes only that once.                            *)
(*                                                                            *)
(* A page is its version number (the sha256 of what was fetched); which       *)
(* versions contradict the registry is the constant Contradicting.  Time is   *)
(* one bit a row: whether last_checked_at lies within the interval.           *)
EXTENDS Integers, FiniteSets

CONSTANTS Workers,        \* analysis-worker processes
          NumSources,     \* registry size; sources are swept in key order
          NoUrl,          \* sources the registry gives no url for
          MaxVersion,     \* bound: how often a page is published anew
          Contradicting,  \* page versions that contradict the rule set
          Panicking,      \* page versions whose check panics (SourceCheck)
          MaxFaults       \* bound: store errors and crashes together

ASSUME SweepConstants ==
  /\ NumSources \in Nat \ {0} /\ MaxVersion \in Nat /\ MaxFaults \in Nat
  /\ NoUrl \subseteq 1..NumSources
  /\ Contradicting \subseteq 0..MaxVersion /\ Panicking \subseteq 0..MaxVersion

Sources == 1..NumSources

VARIABLES page,        \* page[s]: the version the authority publishes now
          retrievals,  \* source_retrievals, a partial function on Sources
          pc,          \* pc[w]: where the worker's sweep_if_due is
          at,          \* at[w]: the source the sweep is at
          body,        \* body[w]: the version fetched, or -1 for no answer
          depth,       \* depth[w]: times a connection of w's pool holds the lock
          faults

sweepVars == <<page, retrievals, pc, at, body, depth, faults>>

Unread == -1

SweepInit ==
  /\ page = [s \in Sources |-> 0]
  /\ retrievals = [s \in {} |-> 0]
  /\ pc = [w \in Workers |-> "idle"]
  /\ at = [w \in Workers |-> 1]
  /\ body = [w \in Workers |-> Unread]
  /\ depth = [w \in Workers |-> 0]
  /\ faults = 0

(* An empty table is due, and so is a table whose oldest row is too old.  A   *)
(* source that has no row yet does not make it due.                           *)
sources_due_for_check ==
  DOMAIN retrievals = {} \/ \E s \in DOMAIN retrievals : ~retrievals[s].fresh

(* source.check: what a page of this version says of the registry's entry.    *)
check(version) == IF version \in Contradicting THEN "mismatch" ELSE "verified"

(* An upsert of one row.                                                      *)
Upsert(s, row) == [t \in DOMAIN retrievals \cup {s} |-> IF t = s THEN row ELSE retrievals[t]]

record_source_read(s, version) ==
  Upsert(s, [state |-> check(version), sha |-> version, fresh |-> TRUE])

(* Two mistakes the properties must notice: an outage that overwrites the     *)
(* verdict, and one that does not count as a check.                           *)
OutageOverwrites(s) ==
  Upsert(s, [state |-> "unreachable", sha |-> Unread, fresh |-> TRUE])

OutageNotCounted(s) ==
  IF s \in DOMAIN retrievals THEN retrievals
  ELSE Upsert(s, [state |-> "unreachable", sha |-> Unread, fresh |-> FALSE])

(* A verdict once read is kept, with its hash; only the check's time moves.   *)
record_source_unreachable(s) ==
  IF s \in DOMAIN retrievals
  THEN Upsert(s, [retrievals[s] EXCEPT
         !.fresh = TRUE,
         !.state = IF @ \in {"verified", "mismatch"} THEN @ ELSE "unreachable"])
  ELSE Upsert(s, [state |-> "unreachable", sha |-> Unread, fresh |-> TRUE])

----------------------------------------------------------------------------
(* One worker's tick.                                                         *)

AskDue(w) ==
  /\ pc[w] = "idle" /\ sources_due_for_check
  /\ pc' = [pc EXCEPT ![w] = "due"]
  /\ UNCHANGED <<page, retrievals, at, body, depth, faults>>

(* A mistake: the lock tried and its answer not looked at.                    *)
ClaimWithoutLooking(w) ==
  /\ pc[w] = "due"
  /\ pc' = [pc EXCEPT ![w] = "claimed"]
  /\ depth' = [depth EXCEPT ![w] = @ + 1]
  /\ UNCHANGED <<page, retrievals, at, body, faults>>

(* pg_try_advisory_lock on a connection of the pool.  It succeeds when nobody *)
(* holds the lock, or when the connection drawn is the one that holds it.     *)
claim_source_sweep(w) ==
  /\ pc[w] = "due"
  /\ \/ /\ \A v \in Workers \ {w} : depth[v] = 0
        /\ pc' = [pc EXCEPT ![w] = "claimed"]
        /\ depth' = [depth EXCEPT ![w] = @ + 1]
     \/ /\ \E v \in Workers : depth[v] > 0
        /\ pc' = [pc EXCEPT ![w] = "idle"]
        /\ UNCHANGED depth
  /\ UNCHANGED <<page, retrievals, at, body, faults>>

(* With the lock held, the question is asked again.                           *)
AskAgain(w) ==
  /\ pc[w] = "claimed"
  /\ pc' = [pc EXCEPT ![w] = IF sources_due_for_check THEN "fetching" ELSE "releasing"]
  /\ at' = [at EXCEPT ![w] = 1]
  /\ UNCHANGED <<page, retrievals, body, depth, faults>>

(* The second question failing drops the guard without the unlock.            *)
AskAgainFails(w) ==
  /\ pc[w] = "claimed" /\ faults < MaxFaults
  /\ pc' = [pc EXCEPT ![w] = "idle"]
  /\ faults' = faults + 1
  /\ UNCHANGED <<page, retrievals, at, body, depth>>

(* Fetch reads the page as it stands, or fails for any of its reasons.  A     *)
(* source with no url is recorded as unreachable without a fetch.             *)
fetch(w) ==
  /\ pc[w] = "fetching"
  /\ \E v \in {Unread} \cup (IF at[w] \in NoUrl THEN {} ELSE {page[at[w]]}) :
       body' = [body EXCEPT ![w] = v]
  /\ pc' = [pc EXCEPT ![w] = "recording"]
  /\ UNCHANGED <<page, retrievals, at, depth, faults>>

Record(w) ==
  /\ pc[w] = "recording" /\ body[w] \notin Panicking
  /\ retrievals' = IF body[w] = Unread THEN record_source_unreachable(at[w])
                   ELSE record_source_read(at[w], body[w])
  /\ body' = [body EXCEPT ![w] = Unread]
  /\ IF at[w] = NumSources
     THEN /\ pc' = [pc EXCEPT ![w] = "releasing"]
          /\ UNCHANGED at
     ELSE /\ pc' = [pc EXCEPT ![w] = "fetching"]
          /\ at' = [at EXCEPT ![w] = @ + 1]
  /\ UNCHANGED <<page, depth, faults>>

(* A check that panics ends the task of tokio::spawn for good, and nobody     *)
(* joins it; its guard is dropped without the unlock.                         *)
Panic(w) ==
  /\ pc[w] = "recording" /\ body[w] \in Panicking
  /\ pc' = [pc EXCEPT ![w] = "dead"]
  /\ body' = [body EXCEPT ![w] = Unread]
  /\ UNCHANGED <<page, retrievals, at, depth, faults>>

(* A store error ends the sweep where it is; the lock is still released.      *)
RecordFails(w) ==
  /\ pc[w] = "recording" /\ body[w] \notin Panicking /\ faults < MaxFaults
  /\ pc' = [pc EXCEPT ![w] = "releasing"]
  /\ body' = [body EXCEPT ![w] = Unread]
  /\ faults' = faults + 1
  /\ UNCHANGED <<page, retrievals, at, depth>>

release(w) ==
  /\ pc[w] = "releasing"
  /\ pc' = [pc EXCEPT ![w] = "idle"]
  /\ at' = [at EXCEPT ![w] = 1]
  /\ \/ depth' = [depth EXCEPT ![w] = @ - 1] /\ UNCHANGED faults
     \/ faults < MaxFaults /\ faults' = faults + 1 /\ UNCHANGED depth
  /\ UNCHANGED <<page, retrievals, body>>

----------------------------------------------------------------------------
(* The surroundings: time, the authority, the pool and the process.           *)

Age(s) ==
  /\ s \in DOMAIN retrievals /\ retrievals[s].fresh
  /\ retrievals' = [retrievals EXCEPT ![s].fresh = FALSE]
  /\ UNCHANGED <<page, pc, at, body, depth, faults>>

Publish(s) ==
  /\ s \notin NoUrl /\ page[s] < MaxVersion
  /\ page' = [page EXCEPT ![s] = @ + 1]
  /\ UNCHANGED <<retrievals, pc, at, body, depth, faults>>

(* The pool closes an idle connection at the end of its lifetime.             *)
Recycle(w) ==
  /\ depth[w] > 0 /\ pc[w] \in {"idle", "due", "dead"}
  /\ depth' = [depth EXCEPT ![w] = 0]
  /\ UNCHANGED <<page, retrievals, pc, at, body, faults>>

(* A worker that dies closes its sockets, and its locks go with them; the     *)
(* worker that replaces it starts at its ticker.                              *)
Crash(w) ==
  /\ faults < MaxFaults /\ pc[w] # "idle"
  /\ pc' = [pc EXCEPT ![w] = "idle"]
  /\ at' = [at EXCEPT ![w] = 1]
  /\ body' = [body EXCEPT ![w] = Unread]
  /\ depth' = [depth EXCEPT ![w] = 0]
  /\ faults' = faults + 1
  /\ UNCHANGED <<page, retrievals>>

Proceed(w) ==
  \/ AskDue(w) \/ claim_source_sweep(w) \/ AskAgain(w)
  \/ fetch(w) \/ Record(w) \/ Panic(w) \/ release(w)

SweepNext ==
  \/ \E w \in Workers :
       Proceed(w) \/ AskAgainFails(w) \/ RecordFails(w) \/ Recycle(w) \/ Crash(w)
  \/ \E s \in Sources : Age(s) \/ Publish(s)

(* Fairness.  The ticker fires for ever and every await of the sweep has a    *)
(* timeout, so a worker's next step is always taken; time passes, so a row    *)
(* grows old; and sqlx recycles a connection at max_lifetime, whatever else   *)
(* happens to it (strong, because the worker draws connections in between).   *)
Fairness ==
  /\ \A w \in Workers : WF_sweepVars(Proceed(w)) /\ SF_sweepVars(Recycle(w))
  /\ \A s \in Sources : WF_sweepVars(Age(s))

SweepSpec == SweepInit /\ [][SweepNext]_sweepVars /\ Fairness

----------------------------------------------------------------------------
Row == [state : {"verified", "mismatch", "unreachable"},
        sha : {Unread} \cup (0..MaxVersion), fresh : BOOLEAN]

SweepTypeOK ==
  /\ page \in [Sources -> 0..MaxVersion]
  /\ DOMAIN retrievals \subseteq Sources /\ \A s \in DOMAIN retrievals : retrievals[s] \in Row
  /\ pc \in [Workers -> {"idle", "due", "claimed", "fetching", "recording", "releasing", "dead"}]
  /\ at \in [Workers -> Sources]
  /\ body \in [Workers -> {Unread} \cup (0..MaxVersion)]
  /\ depth \in [Workers -> Nat]
  /\ faults \in 0..MaxFaults

(* What the lock is for: never two workers between claim and release, though  *)
(* locks leak with pooled connections, are taken twice by one connection, and *)
(* vanish with a process.                                                     *)
Holding(w) == pc[w] \in {"claimed", "fetching", "recording", "releasing"}

OneSweepAtATime == \A v, w \in Workers : Holding(v) /\ Holding(w) => v = w

(* A row that says what the page says keeps saying it for as long as the page *)
(* stands: neither an outage, nor a crash, nor a sweep that read an earlier   *)
(* version and records late, takes a true verdict away                        *)
(* (record_source_unreachable, sweep_if_due's lock).                          *)
Current(s) ==
  s \in DOMAIN retrievals /\ retrievals[s].sha = page[s] /\ retrievals[s].state = check(page[s])

TrueVerdictLasts ==
  [][\A s \in Sources : Current(s) /\ page'[s] = page[s] => Current(s)']_sweepVars

(* A source that was never checked, or not lately, is checked in the end,     *)
(* although sweeps abort half way, pages do not answer, the neighbours' fresh *)
(* rows say nothing is due, and a leaked lock shuts every worker out; unless  *)
(* every worker's sweep task has been ended by a page it panicked over.       *)
CheckedLately(s) == s \in DOMAIN retrievals /\ retrievals[s].fresh

NeglectedSourceIsChecked ==
  \A s \in Sources :
    ~CheckedLately(s) ~> (CheckedLately(s) \/ \A w \in Workers : pc[w] = "dead")
=============================================================================

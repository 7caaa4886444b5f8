--------------------------- MODULE Notifications ---------------------------
(***************************************************************************)
(* The notification outbox and its delivery worker:                        *)
(* crates/store/src/notifications.rs, crates/notify/src/sender.rs and      *)
(* workers/notification-worker/src/main.rs.                                *)
(*                                                                         *)
(* A row is claimed, delivered over its channels outside any transaction,  *)
(* and the outcome recorded by one more statement.  The row carries no     *)
(* lease, so whatever happens in between has to be put right by that last  *)
(* statement alone.                                                        *)
(***************************************************************************)
EXTENDS Naturals, FiniteSets

CONSTANTS Notices,      \* rows of notifications
          Workers,      \* notification worker processes
          Batch,        \* how many rows one claim takes
          MaxAttempts,  \* notifications.max_attempts
          EmailRelay,   \* whether this deployment has a mail relay
          Faults,       \* processes die and statements fail to arrive
          NoNotice      \* a worker between two notifications

ASSUME BatchAssumption == Batch \in Nat \ {0}
ASSUME MaxAttemptsAssumption == MaxAttempts \in Nat \ {0}
ASSUME EmailRelayAssumption == EmailRelay \in BOOLEAN
ASSUME FaultsAssumption == Faults \in BOOLEAN
ASSUME NoNoticeAssumption == NoNotice \notin Notices

VARIABLES
  state,      \* notifications.state, "absent" before the row exists
  channels,   \* notifications.channels
  delivered,  \* notifications.delivered_channels
  attempt,    \* notifications.attempt
  due,        \* run_after <= now()
  batch,      \* the rows a worker has claimed and not started on
  current,    \* the row a worker is delivering
  outcome,    \* the dispatcher's DeliveryOutcome, not yet recorded
  emails,     \* emails the relay accepted, per notice
  unanswered  \* those whose acceptance the worker never heard of

row    == <<state, channels, delivered, attempt, due>>
worker == <<batch, current, outcome>>
mail   == <<emails, unanswered>>
vars   == <<state, channels, delivered, attempt, due, batch, current, outcome,
            emails, unanswered>>

Channel == {"push", "email", "in_app"}

\* What sending over one channel may come to.  A failure is "transient",
\* "permanent" or "not_configured".
SendResult == {"ok", "transient", "permanent", "not_configured"}

NoOutcome == [delivered |-> {}, failures |-> {"none"}]

\* The CHECK constraints of table notifications, delivered_is_a_subset_of_
\* requested among them, and the worker's variables.
TypeOK ==
  /\ state \in [Notices -> {"absent", "pending", "delivering", "delivered",
                            "failed", "suppressed"}]
  /\ channels \in [Notices -> SUBSET Channel]
  /\ delivered \in [Notices -> SUBSET Channel]
  /\ \A n \in Notices : delivered[n] \subseteq channels[n]
  /\ attempt \in [Notices -> Nat]
  /\ due \in [Notices -> BOOLEAN]
  /\ batch \in [Workers -> SUBSET Notices]
  /\ current \in [Workers -> Notices \cup {NoNotice}]
  /\ outcome \in [Workers -> [delivered : SUBSET Channel,
                              failures : (SUBSET SendResult) \cup {{"none"}}]]
  /\ emails \in [Notices -> Nat]
  /\ unanswered \in [Notices -> Nat]

Init ==
  /\ state = [n \in Notices |-> "absent"]
  /\ channels = [n \in Notices |-> {}]
  /\ delivered = [n \in Notices |-> {}]
  /\ attempt = [n \in Notices |-> 0]
  /\ due = [n \in Notices |-> FALSE]
  /\ batch = [w \in Workers |-> {}]
  /\ current = [w \in Workers |-> NoNotice]
  /\ outcome = [w \in Workers |-> NoOutcome]
  /\ emails = [n \in Notices |-> 0]
  /\ unanswered = [n \in Notices |-> 0]

-----------------------------------------------------------------------------
(* The store's statements.                                                 *)

\* enqueue_notification with the channels of channels_for: the kind's own,
\* or those of the owner's preference row, which may be none.  A second
\* enqueue of the dedupe key changes nothing.
EnqueueNotification(n, chosen) ==
  /\ state[n] = "absent"
  /\ state' = [state EXCEPT ![n] = IF chosen = {} THEN "suppressed"
                                   ELSE "pending"]
  /\ channels' = [channels EXCEPT ![n] = chosen]
  /\ due' = [due EXCEPT ![n] = TRUE]
  /\ UNCHANGED <<delivered, attempt, worker, mail>>

\* Mutant of Claimable: rows being delivered are claimed too.
ClaimableUndelivered ==
  {n \in Notices : state[n] \in {"pending", "delivering"} /\ due[n]}

Claimable == {n \in Notices : state[n] = "pending" /\ due[n]}

\* claim_notifications: up to Batch due rows that nobody else has locked.
ClaimNotifications(w, claimed) ==
  /\ batch[w] = {} /\ current[w] = NoNotice
  /\ claimed # {} /\ claimed \subseteq Claimable
  /\ Cardinality(claimed) <= Batch
  /\ state' = [n \in Notices |-> IF n \in claimed THEN "delivering"
                                 ELSE state[n]]
  /\ attempt' = [n \in Notices |-> IF n \in claimed THEN attempt[n] + 1
                                   ELSE attempt[n]]
  /\ batch' = [batch EXCEPT ![w] = claimed]
  /\ UNCHANGED <<channels, delivered, due, current, outcome, mail>>

\* delivered_channels || $2, restricted to the channels asked for.
DeliveredWith(n, sent) == (delivered[n] \cup sent) \cap channels[n]

\* Mutant of RescheduledState: the attempt counter is not consulted.
AlwaysRescheduled(n) == "pending"

RescheduledState(n) == IF attempt[n] >= MaxAttempts THEN "failed"
                       ELSE "pending"

\* record_delivery.  array_agg of no rows is NULL and the column is NOT NULL:
\* with nothing delivered so far the statement is an error and the row stays
\* as the claim left it.
RecordDelivery(n, sent, failed) ==
  IF DeliveredWith(n, sent) = {}
  THEN UNCHANGED row
  ELSE /\ delivered' = [delivered EXCEPT ![n] = DeliveredWith(n, sent)]
       /\ state' = [state EXCEPT ![n] = IF failed THEN RescheduledState(n)
                                        ELSE "delivered"]
       /\ due' = [due EXCEPT ![n] = due[n] /\ ~failed]
       /\ UNCHANGED <<channels, attempt>>

\* Mutants of ExhaustNotification: what went out is forgotten; the kept
\* channels are not restricted to those asked for.
ExhaustForgetting(n, sent) ==
  /\ state' = [state EXCEPT ![n] = "failed"]
  /\ attempt' = [attempt EXCEPT ![n] = MaxAttempts]
  /\ UNCHANGED <<channels, delivered, due>>

ExhaustUnrestricted(n, sent) ==
  /\ delivered' = [delivered EXCEPT ![n] = Channel]
  /\ state' = [state EXCEPT ![n] = IF sent # {} THEN "delivered" ELSE "failed"]
  /\ attempt' = [attempt EXCEPT ![n] = MaxAttempts]
  /\ UNCHANGED <<channels, due>>

\* exhaust_notification.
ExhaustNotification(n, sent) ==
  /\ delivered' = [delivered EXCEPT ![n] = DeliveredWith(n, sent)]
  /\ state' = [state EXCEPT ![n] = IF sent # {} THEN "delivered" ELSE "failed"]
  /\ attempt' = [attempt EXCEPT ![n] = MaxAttempts]
  /\ UNCHANGED <<channels, due>>

-----------------------------------------------------------------------------
(* The senders.                                                            *)

\* Mutant of PushResults: a push provider that can be out of reach.
PushResultsTransient == {"ok", "transient"}

\* PushSender: no provider is implemented.
PushResults == {"not_configured"}

\* InAppSender: the row is the delivery.
InAppResults == {"ok"}

\* SmtpSender, or no relay at all.  No address, a 5xx and an unparseable
\* reply are permanent; a 4xx, a timeout and a lost connection are transient.
EmailResults == IF EmailRelay THEN {"ok", "transient", "permanent"}
                ELSE {"not_configured"}

Results(c) == CASE c = "push"   -> PushResults
                [] c = "in_app" -> InAppResults
                [] c = "email"  -> EmailResults

-----------------------------------------------------------------------------
(* The worker.                                                             *)

Start(w, n) ==
  /\ current[w] = NoNotice /\ n \in batch[w]
  /\ current' = [current EXCEPT ![w] = n]
  /\ batch' = [batch EXCEPT ![w] = batch[w] \ {n}]
  /\ UNCHANGED <<row, outcome, mail>>

Delivering(w) == current[w] # NoNotice /\ outcome[w] = NoOutcome

Done(w) ==
  /\ current' = [current EXCEPT ![w] = NoNotice]
  /\ outcome' = [outcome EXCEPT ![w] = NoOutcome]
  /\ UNCHANGED batch

\* recipient_for cannot reach the database.
RecipientUnresolvable(w) ==
  /\ Faults /\ Delivering(w)
  /\ RecordDelivery(current[w], {}, TRUE)
  /\ Done(w)
  /\ UNCHANGED mail

\* The dispatcher's outcome when the channels had these results.
OutcomeOf(result) ==
  [delivered |-> {c \in DOMAIN result : result[c] = "ok"},
   failures |-> {result[c] : c \in DOMAIN result} \ {"ok"}]

\* Dispatcher::deliver tries every channel of the row, whatever was delivered
\* before.
Deliver(w) ==
  /\ Delivering(w)
  /\ LET n == current[w] IN
     \E result \in [channels[n] -> SendResult] :
       /\ \A c \in channels[n] : result[c] \in Results(c)
       /\ outcome' = [outcome EXCEPT ![w] = OutcomeOf(result)]
       /\ IF "email" \in OutcomeOf(result).delivered
          THEN emails' = [emails EXCEPT ![n] = emails[n] + 1]
          ELSE UNCHANGED emails
  /\ UNCHANGED <<row, batch, current, unanswered>>

\* The relay accepts the message and its answer is lost: to the worker the
\* email has failed and is worth another attempt.
DeliverUnanswered(w) ==
  /\ Delivering(w) /\ EmailRelay
  /\ LET n == current[w] IN
     \E result \in [channels[n] -> SendResult] :
       /\ \A c \in channels[n] : result[c] \in Results(c)
       /\ "email" \in channels[n] /\ result["email"] = "transient"
       /\ outcome' = [outcome EXCEPT ![w] = OutcomeOf(result)]
       /\ emails' = [emails EXCEPT ![n] = emails[n] + 1]
       /\ unanswered' = [unanswered EXCEPT ![n] = unanswered[n] + 1]
  /\ UNCHANGED <<row, batch, current>>

\* A failure that is not worth another attempt exhausts the row.
Record(w) ==
  LET o == outcome[w] IN
  /\ current[w] # NoNotice /\ o # NoOutcome
  /\ IF o.failures # {} /\ "transient" \notin o.failures
     THEN ExhaustNotification(current[w], o.delivered)
     ELSE RecordDelivery(current[w], o.delivered, o.failures # {})
  /\ Done(w)
  /\ UNCHANGED mail

\* The statement does not reach the database; the error is logged at most.
RecordLost(w) ==
  /\ Faults
  /\ current[w] # NoNotice /\ outcome[w] # NoOutcome
  /\ Done(w)
  /\ UNCHANGED <<row, mail>>

\* The process dies, or is stopped, with rows in its hands.
Crash(w) ==
  /\ Faults
  /\ current[w] # NoNotice \/ batch[w] # {}
  /\ batch' = [batch EXCEPT ![w] = {}]
  /\ current' = [current EXCEPT ![w] = NoNotice]
  /\ outcome' = [outcome EXCEPT ![w] = NoOutcome]
  /\ UNCHANGED <<row, mail>>

\* run_after passes.
BackoffElapses(n) ==
  /\ state[n] # "absent" /\ ~due[n]
  /\ due' = [due EXCEPT ![n] = TRUE]
  /\ UNCHANGED <<state, channels, delivered, attempt, worker, mail>>

-----------------------------------------------------------------------------
Next ==
  \/ \E n \in Notices, chosen \in SUBSET Channel :
        EnqueueNotification(n, chosen)
  \/ \E w \in Workers, claimed \in SUBSET Notices :
        ClaimNotifications(w, claimed)
  \/ \E w \in Workers, n \in Notices : Start(w, n)
  \/ \E w \in Workers : RecipientUnresolvable(w)
  \/ \E w \in Workers : Deliver(w)
  \/ \E w \in Workers : DeliverUnanswered(w)
  \/ \E w \in Workers : Record(w)
  \/ \E w \in Workers : RecordLost(w)
  \/ \E w \in Workers : Crash(w)
  \/ \E n \in Notices : BackoffElapses(n)

Spec == Init /\ [][Next]_vars

\* The clock moves, an idle worker polls, and it works off what it claimed.
Fairness ==
  /\ \A n \in Notices : WF_vars(BackoffElapses(n))
  /\ \A w \in Workers :
       /\ WF_vars(\E claimed \in SUBSET Notices :
                     ClaimNotifications(w, claimed))
       /\ WF_vars(\E n \in Notices : Start(w, n))
       /\ WF_vars(Deliver(w))
       /\ WF_vars(Record(w))

FairSpec == Spec /\ Fairness

-----------------------------------------------------------------------------
(* Properties.                                                             *)

InHand(w) == batch[w] \cup ({current[w]} \ {NoNotice})

\* "several delivery workers can run without sending the same notification
\* twice" (claim_notifications): what a worker has in hand is being delivered
\* as far as the table knows, and by no other worker, although the table does
\* not say by whom.
OneWorkerPerNotice ==
  \A w \in Workers : \A n \in InHand(w) :
    /\ state[n] = "delivering"
    /\ \A v \in Workers \ {w} : n \notin InHand(v)

\* The claim does not compare the counter with max_attempts: that a row which
\* waits has an attempt left rests on what the two recording statements left.
AttemptsBounded ==
  \A n \in Notices :
    /\ attempt[n] <= MaxAttempts
    /\ state[n] = "pending" => attempt[n] < MaxAttempts

\* An operator may believe the row: "delivered" means that something reached
\* the customer, an email is listed only if the relay took it, and "failed"
\* that no email the worker knows of did.
RowTellsTheTruth ==
  \A n \in Notices :
    /\ state[n] = "delivered" => delivered[n] # {}
    /\ "email" \in delivered[n] => emails[n] > 0
    /\ state[n] = "failed" => emails[n] = unanswered[n]

\* "what lets a retry send only what is missing rather than sending the email
\* a second time" (Dispatcher::deliver): no email follows one the relay has
\* acknowledged.  The dispatcher does not look at delivered_channels; it holds
\* because email is the only channel whose failures are worth a retry.
EmailNotRepeated ==
  [][\A n \in Notices :
       emails[n] > unanswered[n] => emails'[n] = emails[n]]_vars

\* "delivery retries against a row that is still there" (the outbox): every
\* notification that waits is delivered, or given up, in the end.
EveryNoticeEnds ==
  \A n \in Notices :
    state[n] = "pending" ~> state[n] \in {"delivered", "failed"}

=============================================================================

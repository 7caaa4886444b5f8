------------------------ MODULE NotificationsProofs -------------------------
(***************************************************************************)
(* The notification outbox, for any number of notifications and workers,   *)
(* any batch size and attempt limit, with and without a mail relay.        *)
(*                                                                         *)
(* The table does not say who delivers a row, so every argument goes       *)
(* through what the workers have in hand.  A row in hand is "delivering"   *)
(* and in one worker's hands; and until a worker has an acknowledged email *)
(* in its outcome, every email of the row in its hands went unanswered.    *)
(***************************************************************************)
EXTENDS Notifications, TLAPS

Holds(w, n) == n \in batch[w] \/ n = current[w]

\* A row is in one worker's hands, once, and being delivered meanwhile.
HandsInv ==
  /\ \A w \in Workers, n \in Notices : Holds(w, n) => state[n] = "delivering"
  /\ \A v, w \in Workers, n \in Notices : Holds(v, n) /\ Holds(w, n) => v = w
  /\ \A w \in Workers : current[w] \notin batch[w]

\* A row not yet there has used no attempt and delivered nothing.
AttemptInv ==
  /\ AttemptsBounded
  /\ \A n \in Notices : state[n] = "absent" => attempt[n] = 0 /\ delivered[n] = {}

\* Between two deliveries there is no outcome.
IdleOutcome == \A w \in Workers : current[w] = NoNotice => outcome[w] = NoOutcome

\* An unrecorded outcome: only channels asked for were delivered, and an email
\* that was is counted and leaves nothing to retry.
OutcomeInv ==
  /\ IdleOutcome
  /\ \A w \in Workers : current[w] # NoNotice =>
       /\ outcome[w].delivered \subseteq channels[current[w]]
       /\ "email" \in outcome[w].delivered =>
            emails[current[w]] > 0 /\ "transient" \notin outcome[w].failures

\* Where another attempt may follow, no email was acknowledged so far.
MailInv ==
  /\ \A n \in Notices :
       state[n] \in {"absent", "pending"} => emails[n] = unanswered[n]
  /\ \A w \in Workers, n \in Notices :
       n \in batch[w] => emails[n] = unanswered[n]
  /\ \A w \in Workers :
       current[w] # NoNotice /\ "email" \notin outcome[w].delivered =>
         emails[current[w]] = unanswered[current[w]]

IInv == /\ TypeOK /\ HandsInv /\ AttemptInv /\ OutcomeInv /\ MailInv
        /\ RowTellsTheTruth

-----------------------------------------------------------------------------

LEMMA InitInv == Init => IInv
<1> SUFFICES ASSUME Init PROVE IInv
  OBVIOUS
<1> USE DEF Init
<1>1. TypeOK
  BY DEF TypeOK, NoOutcome
<1>2. HandsInv
  BY NoNoticeAssumption DEF HandsInv, Holds
<1>3. AttemptInv
  BY MaxAttemptsAssumption DEF AttemptInv, AttemptsBounded
<1>4. OutcomeInv /\ MailInv /\ RowTellsTheTruth
  BY DEF OutcomeInv, IdleOutcome, MailInv, RowTellsTheTruth
<1> QED BY <1>1, <1>2, <1>3, <1>4 DEF IInv

-----------------------------------------------------------------------------
(* What the senders can answer.                                            *)

\* Email is the only channel whose failure is transient: PushSender is never
\* configured and InAppSender never fails.  So an outcome with a delivered
\* email has no transient failure.
LEMMA OutcomeOfSends ==
  ASSUME NEW S \in SUBSET Channel, NEW result \in [S -> SendResult],
         \A c \in S : result[c] \in Results(c)
  PROVE  LET o == OutcomeOf(result) IN
         /\ o \in [delivered : SUBSET Channel, failures : (SUBSET SendResult) \cup {{"none"}}]
         /\ o.delivered \subseteq S
         /\ "email" \in o.delivered => "transient" \notin o.failures
         /\ o.failures \subseteq SendResult
         /\ "email" \in S /\ result["email"] = "transient" => "email" \notin o.delivered
<1> DEFINE d == {c \in S : result[c] = "ok"}
           f == {result[c] : c \in S} \ {"ok"}
<1>1. OutcomeOf(result) = [delivered |-> d, failures |-> f]
  BY DEF OutcomeOf
<1>2. d \subseteq S /\ f \subseteq SendResult
  OBVIOUS
<1>3. ASSUME "email" \in d PROVE "transient" \notin f
  <2> SUFFICES ASSUME NEW c \in S, result[c] = "transient" PROVE FALSE
    OBVIOUS
  <2>1. c # "email"
    BY <1>3
  <2>2. c \in {"push", "in_app"}
    BY <2>1 DEF Channel
  <2>3. result[c] \in {"not_configured", "ok"}
    BY <2>2 DEF Results, PushResults, InAppResults
  <2> QED BY <2>3
<1>4. "email" \in S /\ result["email"] = "transient" => "email" \notin d
  OBVIOUS
<1> HIDE DEF d, f
<1> QED BY <1>1, <1>2, <1>3, <1>4

-----------------------------------------------------------------------------
(* The statements that end a delivery.                                     *)

\* A row that failed, or waits for another attempt, has no acknowledged email.
NoneAcknowledged(n) == emails[n] = unanswered[n]

\* The row after one of the statements that end the delivery of n, whichever it
\* was and whether it arrived; other rows and the mail are not touched.
Ended(n) ==
  /\ UNCHANGED <<channels, mail>>
  /\ \A m \in Notices \ {n} : /\ state'[m] = state[m] /\ delivered'[m] = delivered[m]
                              /\ attempt'[m] = attempt[m]
  /\ state'[n] \in {"delivering", "delivered", "failed", "pending"}
  /\ state'[n] = "delivered" => delivered'[n] # {}
  /\ state'[n] \in {"failed", "pending"} => NoneAcknowledged(n)
  /\ "email" \in delivered'[n] => emails[n] > 0
  /\ attempt'[n] <= MaxAttempts
  /\ state'[n] = "pending" => attempt'[n] < MaxAttempts

\* The types of the columns after such a statement.
RowTypeOK ==
  /\ state \in [Notices -> {"absent", "pending", "delivering", "delivered",
                            "failed", "suppressed"}]
  /\ delivered \in [Notices -> SUBSET Channel]
  /\ \A n \in Notices : delivered[n] \subseteq channels[n]
  /\ attempt \in [Notices -> Nat]
  /\ due \in [Notices -> BOOLEAN]

\* record_delivery.
LEMMA RecordDeliveryEnds ==
  ASSUME IInv, NEW n \in Notices, NEW sent \in SUBSET Channel, NEW failed \in BOOLEAN,
         state[n] = "delivering",
         RecordDelivery(n, sent, failed), UNCHANGED mail,
         failed => NoneAcknowledged(n),
         "email" \in sent => emails[n] > 0
  PROVE  Ended(n) /\ RowTypeOK'
<1> USE MaxAttemptsAssumption
<1> USE DEF IInv, TypeOK, RowTypeOK
<1>0. /\ attempt[n] \in Nat /\ attempt[n] <= MaxAttempts
      /\ "email" \in delivered[n] => emails[n] > 0
  BY DEF AttemptInv, AttemptsBounded, RowTellsTheTruth
<1>1. CASE DeliveredWith(n, sent) = {}
  <2>1. UNCHANGED row
    BY <1>1 DEF RecordDelivery
  <2> QED BY <1>0, <2>1 DEF row, Ended
<1>2. CASE DeliveredWith(n, sent) # {}
  <2>1. /\ delivered' = [delivered EXCEPT ![n] = DeliveredWith(n, sent)]
        /\ state' = [state EXCEPT ![n] = IF failed THEN RescheduledState(n) ELSE "delivered"]
        /\ due' = [due EXCEPT ![n] = due[n] /\ ~failed]
        /\ UNCHANGED <<channels, attempt>>
    BY <1>2 DEF RecordDelivery
  <2>2. DeliveredWith(n, sent) \subseteq channels[n] /\ DeliveredWith(n, sent) \in SUBSET Channel
    BY DEF DeliveredWith
  <2>3. "email" \in DeliveredWith(n, sent) => emails[n] > 0
    BY <1>0 DEF DeliveredWith
  <2>4. /\ RescheduledState(n) \in {"failed", "pending"}
        /\ RescheduledState(n) = "pending" => attempt[n] < MaxAttempts
    BY <1>0 DEF RescheduledState
  <2>5. Ended(n)
    BY <1>0, <1>2, <2>1, <2>2, <2>3, <2>4 DEF Ended
  <2>6. RowTypeOK'
    BY <2>1, <2>2, <2>4
  <2> QED BY <2>5, <2>6
<1> QED BY <1>1, <1>2

\* exhaust_notification.
LEMMA ExhaustEnds ==
  ASSUME IInv, NEW n \in Notices, NEW sent \in SUBSET Channel,
         state[n] = "delivering",
         ExhaustNotification(n, sent), UNCHANGED mail,
         sent \subseteq channels[n],
         "email" \notin sent => NoneAcknowledged(n),
         "email" \in sent => emails[n] > 0
  PROVE  Ended(n) /\ RowTypeOK'
<1> USE MaxAttemptsAssumption
<1> USE DEF IInv, TypeOK, RowTypeOK
<1>0. "email" \in delivered[n] => emails[n] > 0
  BY DEF RowTellsTheTruth
<1>1. /\ delivered' = [delivered EXCEPT ![n] = DeliveredWith(n, sent)]
      /\ state' = [state EXCEPT ![n] = IF sent # {} THEN "delivered" ELSE "failed"]
      /\ attempt' = [attempt EXCEPT ![n] = MaxAttempts]
      /\ UNCHANGED <<channels, due>>
  BY DEF ExhaustNotification
<1>2. /\ DeliveredWith(n, sent) \subseteq channels[n] /\ DeliveredWith(n, sent) \in SUBSET Channel
      /\ sent # {} => DeliveredWith(n, sent) # {}
      /\ "email" \in DeliveredWith(n, sent) => emails[n] > 0
  BY <1>0 DEF DeliveredWith
<1>3. Ended(n)
  BY <1>1, <1>2 DEF Ended
<1>4. RowTypeOK'
  BY <1>1, <1>2
<1> QED BY <1>3, <1>4

\* What a worker that is about to record has in hand.
LEMMA InHandNow ==
  ASSUME IInv, NEW w \in Workers, current[w] # NoNotice
  PROVE  /\ current[w] \in Notices /\ state[current[w]] = "delivering"
         /\ outcome[w].delivered \in SUBSET Channel
         /\ attempt[current[w]] <= MaxAttempts
<1>1. current[w] \in Notices
  BY DEF IInv, TypeOK
<1> QED BY <1>1 DEF IInv, TypeOK, HandsInv, Holds, AttemptInv, AttemptsBounded

\* The three ends of a delivery: the outcome recorded, the recipient not found,
\* the statement lost.
EndsDelivery(w) == Record(w) \/ RecipientUnresolvable(w) \/ RecordLost(w)

LEMMA DeliveryEnds ==
  ASSUME IInv, NEW w \in Workers, EndsDelivery(w)
  PROVE  /\ current[w] \in Notices /\ Done(w)
         /\ Ended(current[w]) /\ RowTypeOK'
<1> DEFINE n == current[w]
           o == outcome[w]
<1>1. n # NoNotice
  BY DEF EndsDelivery, Record, RecipientUnresolvable, RecordLost, Delivering
<1>2. /\ n \in Notices /\ state[n] = "delivering" /\ o.delivered \in SUBSET Channel
      /\ attempt[n] <= MaxAttempts
  BY <1>1, InHandNow
<1>3. /\ o.delivered \subseteq channels[n]
      /\ "email" \in o.delivered => emails[n] > 0 /\ "transient" \notin o.failures
      /\ "email" \notin o.delivered => NoneAcknowledged(n)
  BY <1>1 DEF IInv, OutcomeInv, MailInv, NoneAcknowledged
<1>4. CASE Record(w)
  <2>1. Done(w) /\ UNCHANGED mail
    BY <1>4 DEF Record
  <2>2. CASE o.failures # {} /\ "transient" \notin o.failures
    <3>1. ExhaustNotification(n, o.delivered)
      BY <1>4, <2>2 DEF Record
    <3> QED BY <1>2, <1>3, <2>1, <3>1, ExhaustEnds
  <2>3. CASE ~(o.failures # {} /\ "transient" \notin o.failures)
    <3> DEFINE failed == o.failures # {}
    <3>1. RecordDelivery(n, o.delivered, failed)
      BY <1>4, <2>3 DEF Record
    <3>2. failed \in BOOLEAN
      OBVIOUS
    <3>3. failed => NoneAcknowledged(n)
      BY <1>3, <2>3
    <3> HIDE DEF failed
    <3> QED BY <1>2, <1>3, <2>1, <3>1, <3>2, <3>3, RecordDeliveryEnds
  <2> QED BY <2>2, <2>3
<1>5. CASE RecipientUnresolvable(w)
  <2>1. Done(w) /\ UNCHANGED mail /\ RecordDelivery(n, {}, TRUE) /\ o = NoOutcome
    BY <1>5 DEF RecipientUnresolvable, Delivering
  <2>2. NoneAcknowledged(n)
    BY <1>3, <2>1 DEF NoOutcome
  <2> QED BY <1>2, <2>1, <2>2, RecordDeliveryEnds
<1>6. CASE RecordLost(w)
  <2>1. Done(w) /\ UNCHANGED <<row, mail>>
    BY <1>6 DEF RecordLost
  <2>2. "email" \in delivered[n] => emails[n] > 0
    BY <1>2 DEF IInv, RowTellsTheTruth
  <2>3. Ended(n)
    BY <1>2, <2>1, <2>2 DEF Ended, row
  <2>4. RowTypeOK'
    BY <2>1 DEF RowTypeOK, row, IInv, TypeOK
  <2> QED BY <1>2, <2>1, <2>3, <2>4
<1> QED BY <1>4, <1>5, <1>6 DEF EndsDelivery

\* Every part of the invariant after the end of a delivery.
LEMMA EndStep ==
  ASSUME IInv, NEW w \in Workers, EndsDelivery(w)
  PROVE  IInv'
<1> DEFINE n == current[w]
<1>1. n \in Notices /\ Done(w) /\ Ended(n) /\ RowTypeOK'
  BY DeliveryEnds
<1>2. /\ current'[w] = NoNotice /\ outcome'[w] = NoOutcome /\ UNCHANGED batch
      /\ \A v \in Workers \ {w} : current'[v] = current[v] /\ outcome'[v] = outcome[v]
  BY <1>1 DEF Done, IInv, TypeOK
<1>3. /\ UNCHANGED <<channels, emails, unanswered>>
      /\ \A m \in Notices \ {n} : /\ state'[m] = state[m] /\ delivered'[m] = delivered[m]
                                  /\ attempt'[m] = attempt[m]
  BY <1>1 DEF Ended, mail
<1>4. TypeOK'
  <2>1. NoOutcome \in [delivered : SUBSET Channel, failures : (SUBSET SendResult) \cup {{"none"}}]
    BY DEF NoOutcome
  <2> QED BY <1>1, <1>3, <2>1 DEF Done, RowTypeOK, IInv, TypeOK
<1>5. \A v \in Workers, m \in Notices : Holds(v, m)' => Holds(v, m) /\ m # n
  BY <1>1, <1>2, NoNoticeAssumption DEF Holds, IInv, HandsInv
<1>6. HandsInv'
  <2>1. \A v \in Workers : current'[v] \notin batch'[v]
    BY <1>2, NoNoticeAssumption DEF IInv, HandsInv, TypeOK
  <2>2. \A v \in Workers, m \in Notices : Holds(v, m)' => state'[m] = "delivering"
    BY <1>3, <1>5 DEF IInv, HandsInv
  <2>3. \A u, v \in Workers, m \in Notices : Holds(u, m)' /\ Holds(v, m)' => u = v
    BY <1>5 DEF IInv, HandsInv
  <2> QED BY <2>1, <2>2, <2>3 DEF HandsInv
<1>7. AttemptInv'
  BY <1>1, <1>3 DEF Ended, IInv, AttemptInv, AttemptsBounded
<1>8. OutcomeInv'
  BY <1>2, <1>3 DEF IInv, OutcomeInv, IdleOutcome
<1>9. MailInv'
  BY <1>1, <1>2, <1>3 DEF Ended, NoneAcknowledged, IInv, MailInv
<1>10. RowTellsTheTruth'
  BY <1>1, <1>3 DEF Ended, NoneAcknowledged, IInv, RowTellsTheTruth
<1> QED BY <1>4, <1>6, <1>7, <1>8, <1>9, <1>10 DEF IInv

-----------------------------------------------------------------------------
(* The other steps.                                                        *)

\* enqueue_notification writes a row that nobody can have in hand.
LEMMA EnqueueStep ==
  ASSUME IInv, NEW n \in Notices, NEW chosen \in SUBSET Channel,
         EnqueueNotification(n, chosen)
  PROVE  IInv'
<1>1. /\ state[n] = "absent" /\ state'[n] \in {"suppressed", "pending"}
      /\ \A m \in Notices \ {n} : state'[m] = state[m] /\ channels'[m] = channels[m]
      /\ UNCHANGED <<delivered, attempt, batch, current, outcome, emails, unanswered>>
  BY DEF EnqueueNotification, worker, mail, IInv, TypeOK
<1>2. /\ attempt[n] = 0 /\ delivered[n] = {} /\ emails[n] = unanswered[n]
      /\ \A w \in Workers : ~Holds(w, n)
  BY <1>1 DEF IInv, AttemptInv, MailInv, HandsInv
<1>3. TypeOK'
  <2>1. delivered[n] \subseteq channels'[n]
    BY <1>2
  <2> QED BY <1>1, <2>1 DEF EnqueueNotification, IInv, TypeOK
<1>4. HandsInv'
  BY <1>1, <1>2 DEF IInv, HandsInv, Holds
<1>5. AttemptInv'
  BY <1>1, <1>2, MaxAttemptsAssumption DEF IInv, AttemptInv, AttemptsBounded
<1>6. OutcomeInv'
  <2>1. \A w \in Workers : current[w] # NoNotice => current[w] \in Notices \ {n}
    BY <1>2 DEF Holds, IInv, TypeOK
  <2> QED BY <1>1, <2>1 DEF IInv, OutcomeInv, IdleOutcome
<1>7. MailInv'
  BY <1>1, <1>2 DEF IInv, MailInv
<1>8. RowTellsTheTruth'
  BY <1>1 DEF IInv, RowTellsTheTruth
<1> QED BY <1>3, <1>4, <1>5, <1>6, <1>7, <1>8 DEF IInv

\* claim_notifications takes rows that wait, and that nobody has in hand.
LEMMA ClaimStep ==
  ASSUME IInv, NEW w \in Workers, NEW claimed \in SUBSET Notices,
         ClaimNotifications(w, claimed)
  PROVE  IInv'
<1>1. /\ \A n \in claimed : state[n] = "pending" /\ state'[n] = "delivering"
                           /\ attempt'[n] = attempt[n] + 1
      /\ \A n \in Notices \ claimed : state'[n] = state[n] /\ attempt'[n] = attempt[n]
      /\ batch[w] = {} /\ batch'[w] = claimed /\ current[w] = NoNotice
      /\ \A v \in Workers \ {w} : batch'[v] = batch[v]
      /\ UNCHANGED <<channels, delivered, due, current, outcome, emails, unanswered>>
  BY DEF ClaimNotifications, Claimable, mail, IInv, TypeOK
<1>2. \A n \in claimed, v \in Workers : ~Holds(v, n)
  BY <1>1 DEF IInv, HandsInv
<1>3. TypeOK'
  BY DEF ClaimNotifications, mail, IInv, TypeOK
<1>4. HandsInv'
  <2>1. \A v \in Workers, n \in Notices :
          Holds(v, n)' <=> Holds(v, n) \/ (v = w /\ n \in claimed)
    BY <1>1 DEF Holds
  <2>2. \A v \in Workers : current'[v] \notin batch'[v]
    BY <1>1, NoNoticeAssumption DEF IInv, HandsInv
  <2>3. \A v \in Workers, n \in Notices : Holds(v, n)' => state'[n] = "delivering"
    BY <1>1, <2>1 DEF IInv, HandsInv
  <2>4. \A u, v \in Workers, n \in Notices : Holds(u, n)' /\ Holds(v, n)' => u = v
    BY <1>2, <2>1 DEF IInv, HandsInv
  <2> QED BY <2>2, <2>3, <2>4 DEF HandsInv
<1>5. AttemptInv'
  <2>1. \A n \in Notices : attempt[n] \in Nat
    BY DEF IInv, TypeOK
  <2> QED BY <1>1, <2>1, MaxAttemptsAssumption DEF IInv, AttemptInv, AttemptsBounded
<1>6. OutcomeInv'
  BY <1>1 DEF IInv, OutcomeInv, IdleOutcome
<1>7. MailInv'
  BY <1>1 DEF IInv, MailInv
<1>8. RowTellsTheTruth'
  BY <1>1 DEF IInv, RowTellsTheTruth
<1> QED BY <1>3, <1>4, <1>5, <1>6, <1>7, <1>8 DEF IInv

\* The next row of the batch stays in the same hands.
LEMMA StartStep ==
  ASSUME IInv, NEW w \in Workers, NEW n \in Notices, Start(w, n)
  PROVE  IInv'
<1>1. /\ current[w] = NoNotice /\ n \in batch[w]
      /\ current'[w] = n /\ batch'[w] = batch[w] \ {n}
      /\ \A v \in Workers \ {w} : current'[v] = current[v] /\ batch'[v] = batch[v]
      /\ UNCHANGED <<state, channels, delivered, attempt, due, outcome, emails, unanswered>>
  BY DEF Start, row, mail, IInv, TypeOK
<1>2. TypeOK'
  BY DEF Start, row, mail, IInv, TypeOK
<1>3. HandsInv'
  <2>1. \A v \in Workers, m \in Notices : Holds(v, m)' => Holds(v, m)
    BY <1>1 DEF Holds
  <2>2. \A v \in Workers : current'[v] \notin batch'[v]
    BY <1>1 DEF IInv, HandsInv
  <2> QED BY <1>1, <2>1, <2>2 DEF IInv, HandsInv
<1>4. OutcomeInv' /\ MailInv'
  <2>1. outcome[w].delivered = {} /\ emails[n] = unanswered[n]
    BY <1>1 DEF IInv, OutcomeInv, IdleOutcome, MailInv, NoOutcome
  <2>2. OutcomeInv'
    BY <1>1, <2>1, NoNoticeAssumption DEF IInv, OutcomeInv, IdleOutcome
  <2>3. MailInv'
    BY <1>1, <2>1 DEF IInv, MailInv
  <2> QED BY <2>2, <2>3
<1>5. AttemptInv' /\ RowTellsTheTruth'
  BY <1>1 DEF IInv, AttemptInv, AttemptsBounded, RowTellsTheTruth
<1> QED BY <1>2, <1>3, <1>4, <1>5 DEF IInv

\* The dispatcher's outcome, with the email it sent if it sent one.  An answer
\* that was lost counts twice, as sent and as not heard of.
Dispatched(w) ==
  LET n == current[w]
      o == outcome'[w]
  IN  /\ UNCHANGED <<row, batch, current>>
      /\ o \in [delivered : SUBSET Channel, failures : (SUBSET SendResult) \cup {{"none"}}]
      /\ \A v \in Workers \ {w} : outcome'[v] = outcome[v]
      /\ \A m \in Notices \ {n} : emails'[m] = emails[m] /\ unanswered'[m] = unanswered[m]
      /\ emails'[n] \in Nat /\ unanswered'[n] \in Nat
      /\ emails'[n] >= emails[n]
      /\ o.delivered \subseteq channels[n]
      /\ "email" \in o.delivered => emails'[n] > 0 /\ "transient" \notin o.failures
      /\ "email" \notin o.delivered => emails'[n] = unanswered'[n]

\* Dispatcher::deliver, heard or not, starts where no email was acknowledged.
LEMMA DeliverDispatches ==
  ASSUME IInv, NEW w \in Workers, Deliver(w) \/ DeliverUnanswered(w)
  PROVE  /\ current[w] \in Notices
         /\ NoneAcknowledged(current[w])
         /\ outcome' = [outcome EXCEPT ![w] = outcome'[w]]
         /\ emails' = [emails EXCEPT ![current[w]] = emails'[current[w]]]
         /\ unanswered' = [unanswered EXCEPT ![current[w]] = unanswered'[current[w]]]
         /\ Dispatched(w)
<1> DEFINE n == current[w]
<1>1. n \in Notices /\ outcome[w] = NoOutcome
  BY DEF Deliver, DeliverUnanswered, Delivering, IInv, TypeOK
<1>2. NoneAcknowledged(n)
  BY <1>1, NoNoticeAssumption DEF IInv, MailInv, NoOutcome, NoneAcknowledged
<1>3. PICK result \in [channels[n] -> SendResult] :
        /\ \A c \in channels[n] : result[c] \in Results(c)
        /\ outcome' = [outcome EXCEPT ![w] = OutcomeOf(result)]
        /\ \/ /\ IF "email" \in OutcomeOf(result).delivered
                 THEN emails' = [emails EXCEPT ![n] = emails[n] + 1]
                 ELSE UNCHANGED emails
              /\ UNCHANGED unanswered
           \/ /\ "email" \in channels[n] /\ result["email"] = "transient"
              /\ emails' = [emails EXCEPT ![n] = emails[n] + 1]
              /\ unanswered' = [unanswered EXCEPT ![n] = unanswered[n] + 1]
  <2>1. CASE Deliver(w)
    BY <2>1 DEF Deliver
  <2>2. CASE DeliverUnanswered(w)
    BY <2>2 DEF DeliverUnanswered
  <2> QED BY <2>1, <2>2
<1> DEFINE o == OutcomeOf(result)
<1>4. channels[n] \in SUBSET Channel
  BY <1>1 DEF IInv, TypeOK
<1>5. /\ o \in [delivered : SUBSET Channel, failures : (SUBSET SendResult) \cup {{"none"}}]
      /\ o.delivered \subseteq channels[n]
      /\ "email" \in o.delivered => "transient" \notin o.failures
      /\ "email" \in channels[n] /\ result["email"] = "transient" => "email" \notin o.delivered
  BY <1>3, <1>4, OutcomeOfSends
<1> HIDE DEF o
<1>6. /\ outcome \in [Workers -> [delivered : SUBSET Channel,
                                  failures : (SUBSET SendResult) \cup {{"none"}}]]
      /\ emails \in [Notices -> Nat] /\ unanswered \in [Notices -> Nat]
  BY DEF IInv, TypeOK
<1>7. outcome' = [outcome EXCEPT ![w] = o]
  BY <1>3 DEF o
<1>8. \/ /\ "email" \in o.delivered
         /\ emails' = [emails EXCEPT ![n] = emails[n] + 1] /\ UNCHANGED unanswered
      \/ "email" \notin o.delivered /\ UNCHANGED <<emails, unanswered>>
      \/ /\ "email" \notin o.delivered
         /\ emails' = [emails EXCEPT ![n] = emails[n] + 1]
         /\ unanswered' = [unanswered EXCEPT ![n] = unanswered[n] + 1]
  BY <1>3, <1>5 DEF o
<1>9. UNCHANGED <<row, batch, current>>
  BY DEF Deliver, DeliverUnanswered
<1>10. /\ outcome'[w] = o /\ \A v \in Workers \ {w} : outcome'[v] = outcome[v]
       /\ outcome' = [outcome EXCEPT ![w] = outcome'[w]]
  BY <1>6, <1>7
<1>11. /\ \A m \in Notices \ {n} : emails'[m] = emails[m] /\ unanswered'[m] = unanswered[m]
       /\ emails' = [emails EXCEPT ![n] = emails'[n]]
       /\ unanswered' = [unanswered EXCEPT ![n] = unanswered'[n]]
       /\ emails'[n] \in Nat /\ unanswered'[n] \in Nat /\ emails'[n] >= emails[n]
       /\ "email" \in o.delivered => emails'[n] > 0
       /\ "email" \notin o.delivered => emails'[n] = unanswered'[n]
  BY <1>1, <1>2, <1>6, <1>8 DEF NoneAcknowledged
<1> QED BY <1>1, <1>2, <1>5, <1>9, <1>10, <1>11 DEF Dispatched

LEMMA DeliverStep ==
  ASSUME IInv, NEW w \in Workers, Deliver(w) \/ DeliverUnanswered(w)
  PROVE  IInv'
<1> DEFINE n == current[w]
<1>1. /\ n \in Notices /\ Dispatched(w)
      /\ outcome' = [outcome EXCEPT ![w] = outcome'[w]]
      /\ emails' = [emails EXCEPT ![n] = emails'[n]]
      /\ unanswered' = [unanswered EXCEPT ![n] = unanswered'[n]]
  BY DeliverDispatches
<1>2. /\ UNCHANGED <<state, channels, delivered, attempt, due, batch, current>>
      /\ \A v \in Workers \ {w} : outcome'[v] = outcome[v]
      /\ \A m \in Notices \ {n} : emails'[m] = emails[m] /\ unanswered'[m] = unanswered[m]
      /\ emails[n] \in Nat /\ emails'[n] \in Nat /\ emails'[n] >= emails[n]
  BY <1>1 DEF Dispatched, row, IInv, TypeOK
<1>3. \A v \in Workers \ {w} : ~Holds(v, n)
  BY <1>1 DEF IInv, HandsInv, Holds
<1>4. state[n] = "delivering" /\ n \notin batch[w]
  BY <1>1 DEF IInv, HandsInv, Holds
<1>5. TypeOK'
  BY <1>1, <1>2 DEF Dispatched, IInv, TypeOK
<1>6. HandsInv' /\ AttemptInv'
  BY <1>2 DEF IInv, HandsInv, Holds, AttemptInv, AttemptsBounded
<1>7. OutcomeInv'
  <2>1. \A v \in Workers \ {w} : current[v] # NoNotice => current[v] \in Notices \ {n}
    BY <1>3 DEF Holds, IInv, TypeOK
  <2> QED
    BY <1>1, <1>2, <2>1, NoNoticeAssumption DEF Dispatched, IInv, OutcomeInv, IdleOutcome
<1>8. MailInv'
  <2>1. \A v \in Workers \ {w} : current[v] # NoNotice => current[v] \in Notices \ {n}
    BY <1>3 DEF Holds, IInv, TypeOK
  <2>2. \A v \in Workers, m \in Notices : m \in batch[v] => m # n
    BY <1>3, <1>4 DEF Holds
  <2> QED BY <1>1, <1>2, <1>4, <2>1, <2>2 DEF Dispatched, IInv, MailInv
<1>9. RowTellsTheTruth'
  BY <1>1, <1>2, <1>4 DEF IInv, RowTellsTheTruth
<1> QED BY <1>5, <1>6, <1>7, <1>8, <1>9 DEF IInv

\* A worker that dies lets go of what it had; its rows stay as they are.
LEMMA CrashStep ==
  ASSUME IInv, NEW w \in Workers, Crash(w)
  PROVE  IInv'
<1>1. /\ batch'[w] = {} /\ current'[w] = NoNotice /\ outcome'[w] = NoOutcome
      /\ \A v \in Workers \ {w} : /\ batch'[v] = batch[v] /\ current'[v] = current[v]
                                  /\ outcome'[v] = outcome[v]
      /\ UNCHANGED <<state, channels, delivered, attempt, due, emails, unanswered>>
  BY DEF Crash, row, mail, IInv, TypeOK
<1>2. TypeOK'
  <2>1. NoOutcome \in [delivered : SUBSET Channel, failures : (SUBSET SendResult) \cup {{"none"}}]
    BY DEF NoOutcome
  <2> QED BY <2>1 DEF Crash, row, mail, IInv, TypeOK
<1>3. HandsInv'
  BY <1>1, NoNoticeAssumption DEF IInv, HandsInv, Holds
<1>4. OutcomeInv' /\ MailInv'
  BY <1>1 DEF IInv, OutcomeInv, IdleOutcome, MailInv
<1>5. AttemptInv' /\ RowTellsTheTruth'
  BY <1>1 DEF IInv, AttemptInv, AttemptsBounded, RowTellsTheTruth
<1> QED BY <1>2, <1>3, <1>4, <1>5 DEF IInv

LEMMA QuietStep ==
  ASSUME IInv, (\E n \in Notices : BackoffElapses(n)) \/ UNCHANGED vars
  PROVE  IInv'
<1>1. UNCHANGED <<state, channels, delivered, attempt, batch, current, outcome, emails, unanswered>>
  BY DEF BackoffElapses, vars, worker, mail
<1>2. TypeOK'
  BY <1>1 DEF BackoffElapses, vars, IInv, TypeOK
<1>3. HandsInv' /\ AttemptInv' /\ RowTellsTheTruth'
  BY <1>1 DEF IInv, HandsInv, Holds, AttemptInv, AttemptsBounded, RowTellsTheTruth
<1>4. OutcomeInv' /\ MailInv'
  BY <1>1 DEF IInv, OutcomeInv, IdleOutcome, MailInv
<1> QED BY <1>2, <1>3, <1>4 DEF IInv

-----------------------------------------------------------------------------
(* Theorems.                                                               *)

LEMMA OutboxInvariant == Spec => []IInv
<1>1. IInv /\ [Next]_vars => IInv'
  BY EnqueueStep, ClaimStep, StartStep, DeliverStep, EndStep, CrashStep, QuietStep
  DEF Next, EndsDelivery
<1> QED BY InitInv, <1>1, PTL DEF Spec

\* The CHECK constraints of the table hold whatever the workers do: delivered
\* channels are among the channels asked for.
THEOREM OutboxTypeCorrect == Spec => []TypeOK
<1>1. IInv => TypeOK
  BY DEF IInv
<1> QED BY OutboxInvariant, <1>1, PTL

\* Several delivery workers never have the same notification in hand
\* (claim_notifications), for any number of either.
THEOREM NoticesAreClaimedOnce == Spec => []OneWorkerPerNotice
<1>1. IInv => OneWorkerPerNotice
  <2> SUFFICES ASSUME IInv, NEW w \in Workers, NEW n \in InHand(w)
               PROVE  /\ state[n] = "delivering"
                      /\ \A v \in Workers \ {w} : n \notin InHand(v)
    BY DEF OneWorkerPerNotice
  <2>1. n \in Notices /\ Holds(w, n)
    BY DEF InHand, Holds, IInv, TypeOK
  <2>2. \A v \in Workers : n \in InHand(v) => Holds(v, n)
    BY DEF InHand, Holds
  <2> QED BY <2>1, <2>2 DEF IInv, HandsInv
<1> QED BY OutboxInvariant, <1>1, PTL

\* No notification is attempted more than max_attempts times, and one that
\* waits has an attempt left, though the claim does not look at the counter.
THEOREM AttemptsStayBounded == Spec => []AttemptsBounded
<1>1. IInv => AttemptsBounded
  BY DEF IInv, AttemptInv
<1> QED BY OutboxInvariant, <1>1, PTL

\* A row says "delivered", names email, or says "failed" only when that is what
\* became of the notification (record_delivery, exhaust_notification).
THEOREM RowsTellTheTruth == Spec => []RowTellsTheTruth
<1>1. IInv => RowTellsTheTruth
  BY DEF IInv
<1> QED BY OutboxInvariant, <1>1, PTL

\* No email follows one the relay has acknowledged: Dispatcher::deliver tries
\* every channel again, and it is the senders that make it safe.
THEOREM EmailsAreNotRepeated == Spec => EmailNotRepeated
<1> DEFINE Kept == \A n \in Notices : emails[n] > unanswered[n] => emails'[n] = emails[n]
<1>1. ASSUME IInv, [Next]_vars PROVE [Kept]_vars
  <2>1. ASSUME NEW w \in Workers, Deliver(w) \/ DeliverUnanswered(w) PROVE Kept
    <3>1. /\ current[w] \in Notices /\ NoneAcknowledged(current[w])
          /\ \A m \in Notices \ {current[w]} : emails'[m] = emails[m]
      BY <1>1, <2>1, DeliverDispatches DEF Dispatched
    <3>2. emails[current[w]] \in Nat
      BY <1>1, <3>1 DEF IInv, TypeOK
    <3> QED BY <3>1, <3>2 DEF NoneAcknowledged
  <2>2. ASSUME UNCHANGED emails PROVE Kept
    BY <2>2
  <2>3. ASSUME NEW w \in Workers, EndsDelivery(w) PROVE UNCHANGED emails
    BY <2>3 DEF EndsDelivery, Record, RecipientUnresolvable, RecordLost, mail
  <2> QED
    BY <1>1, <2>1, <2>2, <2>3
    DEF Next, vars, EnqueueNotification, ClaimNotifications, Start, EndsDelivery, Crash,
        BackoffElapses, mail
<1> QED BY <1>1, OutboxInvariant, PTL DEF Spec, EmailNotRepeated
=============================================================================

------------------------------ MODULE Payments ------------------------------
(***************************************************************************)
(* Orders, the payments made for them, and how they are settled:           *)
(* apps/api/src/payment_routes.rs, workers/analysis-worker/src/payments.rs *)
(* and crates/store/src/payments.rs, against an external provider (Swish). *)
(*                                                                         *)
(* What an order is worth is decided by asking the provider.  The question *)
(* is asked outside any transaction, by callback handlers and by the       *)
(* reconciliation sweep at the same time, so an answer may be old when it  *)
(* is applied.  Each order has the one payment create_order starts for it. *)
(***************************************************************************)
EXTENDS Naturals, Sequences, FiniteSets

CONSTANTS Orders,      \* order ids, with their payment and its reference
          Analyses,    \* ids a start_analysis request may draw
          Callbacks,   \* API tasks handling a callback
          Sweepers,    \* worker processes running the payment sweep
          Batch,       \* how many payments one sweep resolves
          None         \* NULL

ASSUME BatchAssumption == Batch \in Nat \ {0}
ASSUME NoneAssumption == None \notin Orders \cup Analyses
ASSUME SettlerAssumption == Callbacks \cap Sweepers = {}

Settlers == Callbacks \cup Sweepers

VARIABLES
  order,       \* orders.state, "absent" before the row exists
  payment,     \* payments.state, "absent" before the row exists
  choice,      \* orders.delivery_choice
  deliverable, \* deliverable_from <= now()
  analysisOf,  \* orders.analysis_id
  line,        \* the orders in payments.created_at order
  creating,    \* the create_order handler; "failed" once its call to the
               \* provider reported an error
  swish,       \* what the provider knows of the payment
  asker,       \* where each settler is: "idle", "asking" or "answered"
  about,       \* the order a settler asks about
  answer,      \* the provider's answer, not yet applied
  batch        \* the payments left in a sweeper's sweep

rows    == <<order, payment, choice, deliverable, analysisOf, line>>
settler == <<asker, about, answer, batch>>
vars    == <<order, payment, choice, deliverable, analysisOf, line,
             creating, swish, asker, about, answer, batch>>

OrderState == {"created", "awaiting_payment", "paid", "declined", "failed",
               "consumed", "refund_owed"}

\* The provider's side of a payment.  "mismatched" is money moved with
\* another amount, currency or reference than the order's.
ProviderState == {"unknown", "open", "paid", "mismatched", "declined", "error"}

\* The states the tables' CHECK constraints admit, and the askers' positions.
TypeOK ==
  /\ order \in [Orders -> OrderState \cup {"absent"}]
  /\ payment \in [Orders -> {"absent", "pending", "paid", "declined", "failed"}]
  /\ choice \in [Orders -> {"immediate", "after_cancellation_period"}]
  /\ deliverable \in [Orders -> BOOLEAN]
  /\ analysisOf \in [Orders -> Analyses \cup {None}]
  /\ line \in Seq(Orders)
  /\ creating \in [Orders -> {"none", "calling", "done", "failed"}]
  /\ swish \in [Orders -> ProviderState]
  /\ asker \in [Settlers -> {"idle", "asking", "answered"}]
  /\ about \in [Settlers -> Orders \cup {None}]
  /\ answer \in [Settlers -> ProviderState \cup {"none"}]
  /\ batch \in [Settlers -> Seq(Orders)]

Init ==
  /\ order = [o \in Orders |-> "absent"]
  /\ payment = [o \in Orders |-> "absent"]
  /\ choice = [o \in Orders |-> "after_cancellation_period"]
  /\ deliverable = [o \in Orders |-> FALSE]
  /\ analysisOf = [o \in Orders |-> None]
  /\ line = << >>
  /\ creating = [o \in Orders |-> "none"]
  /\ swish = [o \in Orders |-> "unknown"]
  /\ asker = [s \in Settlers |-> "idle"]
  /\ about = [s \in Settlers |-> None]
  /\ answer = [s \in Settlers |-> "none"]
  /\ batch = [s \in Settlers |-> << >>]

-----------------------------------------------------------------------------
(* The store's statements.                                                 *)

Unsettled(o) == order[o] \in {"created", "awaiting_payment"}

\* Mutants of SettlePayment: one of the two conditions is dropped.
SettlePaymentAgain(o, s) ==
  /\ payment' = [payment EXCEPT ![o] = IF s \in {"paid", "declined"} THEN s
                                       ELSE "failed"]
  /\ order' = [order EXCEPT ![o] = IF Unsettled(o) THEN s ELSE order[o]]

SettleOrderAgain(o, s) ==
  /\ payment' = [payment EXCEPT ![o] =
                   IF payment[o] # "pending" THEN payment[o]
                   ELSE IF s \in {"paid", "declined"} THEN s ELSE "failed"]
  /\ order' = [order EXCEPT ![o] = s]

\* settle_payment: two conditional updates in the caller's transaction.
SettlePayment(o, s) ==
  /\ payment' = [payment EXCEPT ![o] =
                   IF payment[o] # "pending" THEN payment[o]
                   ELSE IF s \in {"paid", "declined"} THEN s ELSE "failed"]
  /\ order' = [order EXCEPT ![o] = IF Unsettled(o) THEN s ELSE order[o]]

\* Mutants of Settlement: money moved is money enough; the provider's word is
\* stored as the order's.
SettlementUnchecked(a) ==
  CASE a = "open"                   -> "wait"
    [] a = "declined"               -> "declined"
    [] a = "error"                  -> "failed"
    [] a \in {"paid", "mismatched"} -> "paid"

SettlementVerbatim(a) == IF a = "open" THEN "wait" ELSE a

\* settle: what an answer means for the order.
Settlement(a) ==
  CASE a = "open"                   -> "wait"
    [] a = "declined"               -> "declined"
    [] a \in {"error", "mismatched"} -> "failed"
    [] a = "paid"                   -> "paid"

\* is_terminal, or already paid: nothing to ask.
IsSettled(s) == s \in {"paid", "declined", "failed", "consumed", "refund_owed"}

-----------------------------------------------------------------------------
(* The buyer's requests.                                                   *)

\* create_order, to its commit: the order and its payment row exist before
\* the provider hears of them.
CreateOrder(o, c) ==
  /\ order[o] = "absent"
  /\ order' = [order EXCEPT ![o] = "awaiting_payment"]
  /\ payment' = [payment EXCEPT ![o] = "pending"]
  /\ choice' = [choice EXCEPT ![o] = c]
  /\ deliverable' = [deliverable EXCEPT ![o] = (c = "immediate")]
  /\ line' = Append(line, o)
  /\ creating' = [creating EXCEPT ![o] = "calling"]
  /\ UNCHANGED <<analysisOf, swish, settler>>

\* The provider's create returned Ok.
CreateAnswered(o) ==
  /\ creating[o] = "calling" /\ swish[o] # "unknown"
  /\ creating' = [creating EXCEPT ![o] = "done"]
  /\ UNCHANGED <<rows, swish, settler>>

\* It returned an error, of whatever kind, a timeout included: the order is
\* failed, whether the provider has accepted the payment or not.
CreateFailed(o) ==
  /\ creating[o] = "calling"
  /\ SettlePayment(o, "failed")
  /\ creating' = [creating EXCEPT ![o] = "failed"]
  /\ UNCHANGED <<choice, deliverable, analysisOf, line, swish, settler>>

\* The handler dies, or the client disconnects, while the provider is called.
CreateAbandoned(o) ==
  /\ creating[o] = "calling"
  /\ creating' = [creating EXCEPT ![o] = "done"]
  /\ UNCHANGED <<rows, swish, settler>>

\* redeem_order, committed with the analysis it names.  The id is new.
RedeemOrder(o, a) ==
  /\ order[o] = "paid" /\ deliverable[o]
  /\ \A p \in Orders : analysisOf[p] # a
  /\ order' = [order EXCEPT ![o] = "consumed"]
  /\ analysisOf' = [analysisOf EXCEPT ![o] = a]
  /\ UNCHANGED <<payment, choice, deliverable, line, creating, swish, settler>>

\* Mutant of CancelOrder: the right of withdrawal never ends.
CancelOrderAnyTime(o) ==
  /\ order[o] = "paid"
  /\ analysisOf[o] = None
  /\ order' = [order EXCEPT ![o] = "refund_owed"]
  /\ UNCHANGED <<payment, choice, deliverable, analysisOf, line, creating,
                 swish, settler>>

\* cancel_order.
CancelOrder(o) ==
  /\ order[o] = "paid"
  /\ analysisOf[o] = None
  /\ choice[o] = "after_cancellation_period"
  /\ ~deliverable[o]
  /\ order' = [order EXCEPT ![o] = "refund_owed"]
  /\ UNCHANGED <<payment, choice, deliverable, analysisOf, line, creating,
                 swish, settler>>

\* The fourteen days pass.
PeriodEnds(o) ==
  /\ order[o] # "absent" /\ ~deliverable[o]
  /\ deliverable' = [deliverable EXCEPT ![o] = TRUE]
  /\ UNCHANGED <<order, payment, choice, analysisOf, line, creating, swish,
                 settler>>

-----------------------------------------------------------------------------
(* The provider and the payer (external).                                  *)

\* The request reaches the provider, perhaps after its sender gave it up.
ProviderAccepts(o) ==
  /\ creating[o] # "none" /\ swish[o] = "unknown"
  /\ swish' = [swish EXCEPT ![o] = "open"]
  /\ UNCHANGED <<rows, creating, settler>>

PayerActs(o, s) ==
  /\ swish[o] = "open"
  /\ s \in {"paid", "mismatched", "declined", "error"}
  /\ swish' = [swish EXCEPT ![o] = s]
  /\ UNCHANGED <<rows, creating, settler>>

-----------------------------------------------------------------------------
(* Settlement: one path, taken by callbacks and by the sweep.              *)

\* The first transaction reads the rows.  A settled order ends it.
ReadRows(s, o) ==
  IF IsSettled(order[o])
  THEN UNCHANGED <<asker, about>>
  ELSE /\ asker' = [asker EXCEPT ![s] = "asking"]
       /\ about' = [about EXCEPT ![s] = o]

\* A callback may be delivered late, more than once, or be forged; its body
\* names a payment and is otherwise not believed.
Callback(s, o) ==
  /\ s \in Callbacks /\ asker[s] = "idle"
  /\ order[o] # "absent" /\ ~IsSettled(order[o])
  /\ ReadRows(s, o)
  /\ UNCHANGED <<rows, creating, swish, answer, batch>>

\* Mutant of UnsettledPayments: only orders not yet sent to the provider.
UnsentPayments ==
  SelectSeq(line, LAMBDA o : payment[o] = "pending" /\ order[o] = "created")

UnsettledPayments ==
  SelectSeq(line, LAMBDA o : payment[o] = "pending" /\ Unsettled(o))

\* A tick of the sweep: the oldest Batch unsettled payments.
StartSweep(s) ==
  /\ s \in Sweepers /\ asker[s] = "idle" /\ batch[s] = << >>
  /\ UnsettledPayments # << >>
  /\ batch' = [batch EXCEPT ![s] =
       SubSeq(UnsettledPayments, 1,
              IF Len(UnsettledPayments) < Batch THEN Len(UnsettledPayments)
              ELSE Batch)]
  /\ UNCHANGED <<rows, creating, swish, asker, about, answer>>

SweepNext(s) ==
  /\ asker[s] = "idle" /\ batch[s] # << >>
  /\ ReadRows(s, Head(batch[s]))
  /\ batch' = [batch EXCEPT ![s] = Tail(batch[s])]
  /\ UNCHANGED <<rows, creating, swish, answer>>

\* lookup answers with the payment as it is now.
Lookup(s) ==
  /\ asker[s] = "asking" /\ swish[about[s]] # "unknown"
  /\ asker' = [asker EXCEPT ![s] = "answered"]
  /\ answer' = [answer EXCEPT ![s] = swish[about[s]]]
  /\ UNCHANGED <<rows, creating, swish, about, batch>>

Done(s) ==
  /\ asker' = [asker EXCEPT ![s] = "idle"]
  /\ about' = [about EXCEPT ![s] = None]
  /\ answer' = [answer EXCEPT ![s] = "none"]

\* Mutant of LookupFails: a provider that cannot be reached fails the order.
LookupFailsOrder(s) ==
  /\ asker[s] = "asking"
  /\ SettlePayment(about[s], "failed")
  /\ Done(s)
  /\ UNCHANGED <<choice, deliverable, analysisOf, line, creating, swish, batch>>

\* lookup fails: unreachable, or the provider has no such payment.  The order
\* stays as it is.
LookupFails(s) ==
  /\ asker[s] = "asking"
  /\ Done(s)
  /\ UNCHANGED <<rows, creating, swish, batch>>

\* The second transaction applies the settlement.
Settle(s) ==
  /\ asker[s] = "answered"
  /\ IF Settlement(answer[s]) = "wait" THEN UNCHANGED <<order, payment>>
     ELSE SettlePayment(about[s], Settlement(answer[s]))
  /\ Done(s)
  /\ UNCHANGED <<choice, deliverable, analysisOf, line, creating, swish, batch>>

\* The task or the process dies between its two transactions, or the second
\* fails.  A sweep is not resumed.
SettlerDies(s) ==
  /\ asker[s] # "idle"
  /\ Done(s)
  /\ batch' = [batch EXCEPT ![s] = << >>]
  /\ UNCHANGED <<rows, creating, swish>>

-----------------------------------------------------------------------------
Next ==
  \/ \E o \in Orders, c \in {"immediate", "after_cancellation_period"} :
        CreateOrder(o, c)
  \/ \E o \in Orders : CreateAnswered(o)
  \/ \E o \in Orders : CreateFailed(o)
  \/ \E o \in Orders : CreateAbandoned(o)
  \/ \E o \in Orders, a \in Analyses : RedeemOrder(o, a)
  \/ \E o \in Orders : CancelOrder(o)
  \/ \E o \in Orders : PeriodEnds(o)
  \/ \E o \in Orders : ProviderAccepts(o)
  \/ \E o \in Orders, s \in ProviderState : PayerActs(o, s)
  \/ \E s \in Settlers, o \in Orders : Callback(s, o)
  \/ \E s \in Settlers : StartSweep(s)
  \/ \E s \in Settlers : SweepNext(s)
  \/ \E s \in Settlers : Lookup(s)
  \/ \E s \in Settlers : LookupFails(s)
  \/ \E s \in Settlers : Settle(s)
  \/ \E s \in Settlers : SettlerDies(s)

Spec == Init /\ [][Next]_vars

\* The sweep's timer ticks and its steps end.  A question about an order that
\* is asked again and again is not cut short by a crash each time, is not
\* refused each time by a provider that knows the payment, and its settlement
\* does not fail each time.
Fairness ==
  \A s \in Sweepers :
    /\ WF_vars(StartSweep(s))
    /\ WF_vars(SweepNext(s))
    /\ \A o \in Orders : /\ SF_vars(about[s] = o /\ (Lookup(s) \/ LookupFails(s)))
                         /\ SF_vars(about[s] = o /\ Lookup(s))
                         /\ SF_vars(about[s] = o /\ Settle(s))

FairSpec == Spec /\ Fairness

-----------------------------------------------------------------------------
(* Properties.                                                             *)

\* However callbacks, sweeps and the failure path of create_order interleave,
\* an order and its payment are settled together and agree on the outcome,
\* although each is guarded by a condition on its own table.
RowsAgree ==
  \A o \in Orders :
    /\ payment[o] = "pending"  <=> Unsettled(o)
    /\ payment[o] = "paid"     <=> order[o] \in {"paid", "consumed", "refund_owed"}
    /\ payment[o] = "declined" <=> order[o] = "declined"
    /\ payment[o] = "failed"   <=> order[o] = "failed"

\* An order counts as paid only if the provider has taken the right sum for
\* that very order; nothing a callback says can bring it about.
PaidMeansPaid ==
  \A o \in Orders :
    order[o] \in {"paid", "consumed", "refund_owed"} => swish[o] = "paid"

\* The constraint consumed_names_its_analysis, the unique index on
\* analysis_id, and the exclusion of the two ways to end a paid order: a
\* refund is owed only by an order that bought nothing and kept its right.
SpentOnce ==
  /\ \A o \in Orders :
       /\ order[o] = "consumed" <=> analysisOf[o] # None
       /\ order[o] = "refund_owed" => choice[o] = "after_cancellation_period"
       /\ order[o] = "consumed" => deliverable[o]
  /\ \A o, p \in Orders :
       (analysisOf[o] # None /\ analysisOf[o] = analysisOf[p]) => o = p

\* What an order's state means to its buyer.
PromiseOf(s) ==
  CASE s \in {"absent", "created", "awaiting_payment"} -> "open"
    [] s \in {"declined", "failed"} -> "refused"
    [] s = "paid" -> "credited"
    [] s = "consumed" -> "delivered"
    [] s = "refund_owed" -> "refund"

Promise == INSTANCE OrderPromise WITH
  promise <- [o \in Orders |-> PromiseOf(order[o])],
  paidIn <- [o \in Orders |-> swish[o] = "paid"],
  bought <- analysisOf

\* The tables keep the promise made to the buyer.
KeepsPromise == Promise!Spec

\* An order whose payer paid is closed as failed only by a create that
\* reported an error; nothing that happens afterwards, a provider out of reach,
\* an old answer or a repeated callback, closes it unpaid.
MoneyNotLost ==
  \A o \in Orders :
    (swish[o] = "paid" /\ order[o] \in {"failed", "declined"})
      => creating[o] = "failed"

\* "A provider we cannot reach is not a failed payment" (payment_routes.rs,
\* settle_payment), said of create_order as well: without the exception.
UnreachableIsNotFailed ==
  \A o \in Orders : swish[o] = "paid" => order[o] \notin {"failed", "declined"}

\* "must not leave a customer who paid staring at a spinner": whatever
\* happens to callbacks and handlers, a payment the provider has decided is
\* settled here too.
EveryPaymentSettles ==
  \A o \in Orders :
    swish[o] \in {"paid", "mismatched", "declined", "error"}
      ~> IsSettled(order[o])

=============================================================================

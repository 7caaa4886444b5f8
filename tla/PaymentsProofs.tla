--------------------------- MODULE PaymentsProofs ---------------------------
(***************************************************************************)
(* Proofs about Payments, for any number of orders, callback handlers and  *)
(* sweepers and any batch size.                                            *)
(***************************************************************************)
EXTENDS Payments, TLAPS

-----------------------------------------------------------------------------
(* The inductive invariant.                                                *)

\* The part of the types that the arguments below use.
Columns ==
  /\ order \in [Orders -> OrderState \cup {"absent"}]
  /\ payment \in [Orders -> {"absent", "pending", "paid", "declined", "failed"}]
  /\ choice \in [Orders -> {"immediate", "after_cancellation_period"}]
  /\ deliverable \in [Orders -> BOOLEAN]
  /\ analysisOf \in [Orders -> Analyses \cup {None}]
  /\ swish \in [Orders -> ProviderState]
  /\ creating \in [Orders -> {"none", "calling", "done", "failed"}]
  /\ asker \in [Settlers -> {"idle", "asking", "answered"}]
  /\ about = [s \in Settlers |-> about[s]]
  /\ answer = [s \in Settlers |-> answer[s]]

\* An answer may be out of date when it is applied, but only by having been
\* "open": what the provider has decided it does not take back.
AnswersStandUp ==
  \A s \in Settlers :
    (asker[s] = "answered" /\ about[s] \in Orders) =>
      /\ answer[s] \in ProviderState \ {"unknown"}
      /\ answer[s] # "open" => swish[about[s]] = answer[s]

IInv == Columns /\ AnswersStandUp /\ RowsAgree /\ PaidMeansPaid /\ SpentOnce

LEMMA IInvInit == Init => IInv
PROOF
<1> SUFFICES ASSUME Init PROVE IInv
  OBVIOUS
<1>1. Columns
  BY DEF Init, Columns, ProviderState
<1>2. AnswersStandUp
  BY DEF Init, AnswersStandUp
<1>3. RowsAgree /\ PaidMeansPaid
  BY DEF Init, RowsAgree, PaidMeansPaid, Unsettled
<1>4. SpentOnce
  BY DEF Init, SpentOnce
<1> QED BY <1>1, <1>2, <1>3, <1>4 DEF IInv

LEMMA SettlementValues ==
  ASSUME NEW a \in ProviderState \ {"unknown"}, Settlement(a) # "wait"
  PROVE  /\ Settlement(a) \in {"paid", "declined", "failed"}
         /\ Settlement(a) = "paid" => a = "paid"
         /\ a # "open"
BY DEF Settlement, ProviderState

\* settle_payment keeps the two tables together, whatever state it finds them
\* in, as long as "paid" is only asked for when the money is there.
LEMMA SettlePaymentKeeps ==
  ASSUME IInv, NEW o \in Orders, NEW s \in {"paid", "declined", "failed"},
         s = "paid" => swish[o] = "paid",
         SettlePayment(o, s),
         UNCHANGED <<choice, deliverable, analysisOf, swish>>
  PROVE  /\ order' \in [Orders -> OrderState \cup {"absent"}]
         /\ payment' \in [Orders -> {"absent", "pending", "paid", "declined", "failed"}]
         /\ RowsAgree' /\ PaidMeansPaid' /\ SpentOnce'
PROOF
<1>1. order' \in [Orders -> OrderState \cup {"absent"}]
  BY DEF IInv, Columns, SettlePayment, OrderState
<1>2. payment' \in [Orders -> {"absent", "pending", "paid", "declined", "failed"}]
  BY DEF IInv, Columns, SettlePayment
<1>3. \A p \in Orders : p # o => order'[p] = order[p] /\ payment'[p] = payment[p]
  BY DEF IInv, Columns, SettlePayment
<1>4. CASE Unsettled(o)
  <2>1. payment[o] = "pending" /\ analysisOf[o] = None
    BY <1>4 DEF IInv, RowsAgree, SpentOnce, Unsettled
  <2>2. order'[o] = s /\ payment'[o] = s
    BY <1>4, <2>1 DEF IInv, Columns, SettlePayment
  <2>3. RowsAgree'
    BY <1>3, <2>2 DEF IInv, RowsAgree, Unsettled
  <2>4. PaidMeansPaid'
    BY <1>3, <2>2 DEF IInv, PaidMeansPaid
  <2>5. SpentOnce'
    BY <1>3, <2>1, <2>2 DEF IInv, SpentOnce
  <2> QED BY <1>1, <1>2, <2>3, <2>4, <2>5
<1>5. CASE ~Unsettled(o)
  <2>1. payment[o] # "pending"
    BY <1>5 DEF IInv, RowsAgree
  <2>2. order'[o] = order[o] /\ payment'[o] = payment[o]
    BY <1>5, <2>1 DEF IInv, Columns, SettlePayment
  <2> QED BY <1>1, <1>2, <1>3, <2>2
          DEF IInv, RowsAgree, PaidMeansPaid, SpentOnce, Unsettled
<1> QED BY <1>4, <1>5

LEMMA IInvStep == IInv /\ [Next]_vars => IInv'
PROOF
<1> SUFFICES ASSUME IInv, [Next]_vars
             PROVE  IInv'
  OBVIOUS
<1>A. Columns /\ AnswersStandUp /\ RowsAgree /\ PaidMeansPaid /\ SpentOnce
  BY DEF IInv
<1>S. ASSUME UNCHANGED <<asker, about, answer, swish>>
      PROVE  AnswersStandUp'
  BY <1>A, <1>S DEF AnswersStandUp
<1>1. ASSUME NEW o \in Orders,
             NEW c \in {"immediate", "after_cancellation_period"}, CreateOrder(o, c)
      PROVE  IInv'
  <2>1. Columns'
    BY <1>1, <1>A DEF CreateOrder, settler, Columns, OrderState
  <2>2. AnswersStandUp'
    BY <1>1, <1>S DEF CreateOrder, settler
  <2>3. RowsAgree' /\ PaidMeansPaid'
    BY <1>1, <1>A DEF CreateOrder, Columns, RowsAgree, PaidMeansPaid, Unsettled
  <2>4. SpentOnce'
    BY <1>1, <1>A DEF CreateOrder, Columns, SpentOnce
  <2> QED BY <2>1, <2>2, <2>3, <2>4 DEF IInv
<1>2. ASSUME NEW o \in Orders, CreateAnswered(o) \/ CreateAbandoned(o)
      PROVE  IInv'
  BY <1>2, <1>A, <1>S DEF CreateAnswered, CreateAbandoned, rows, settler, IInv, Columns,
                    RowsAgree, PaidMeansPaid, SpentOnce, Unsettled
<1>3. ASSUME NEW o \in Orders, CreateFailed(o)
      PROVE  IInv'
  <2>1. /\ SettlePayment(o, "failed")
        /\ UNCHANGED <<choice, deliverable, analysisOf, swish, settler>>
    BY <1>3 DEF CreateFailed
  <2>2. /\ order' \in [Orders -> OrderState \cup {"absent"}]
        /\ payment' \in [Orders -> {"absent", "pending", "paid", "declined", "failed"}]
        /\ RowsAgree' /\ PaidMeansPaid' /\ SpentOnce'
    BY <2>1, SettlePaymentKeeps
  <2>3. Columns'
    BY <1>3, <1>A, <2>1, <2>2 DEF CreateFailed, settler, Columns
  <2>4. AnswersStandUp'
    BY <2>1, <1>S DEF settler
  <2> QED BY <2>2, <2>3, <2>4 DEF IInv
<1>4. ASSUME NEW o \in Orders, NEW a \in Analyses, RedeemOrder(o, a)
      PROVE  IInv'
  <2>1. Columns'
    BY <1>4, <1>A DEF RedeemOrder, settler, Columns, OrderState
  <2>2. AnswersStandUp'
    BY <1>4, <1>S DEF RedeemOrder, settler
  <2>3. RowsAgree' /\ PaidMeansPaid'
    BY <1>4, <1>A DEF RedeemOrder, Columns, RowsAgree, PaidMeansPaid, Unsettled
  <2>4. SpentOnce'
    BY <1>4, <1>A, NoneAssumption DEF RedeemOrder, Columns, SpentOnce
  <2> QED BY <2>1, <2>2, <2>3, <2>4 DEF IInv
<1>5. ASSUME NEW o \in Orders, CancelOrder(o)
      PROVE  IInv'
  <2>1. Columns'
    BY <1>5, <1>A DEF CancelOrder, settler, Columns, OrderState
  <2>2. AnswersStandUp'
    BY <1>5, <1>S DEF CancelOrder, settler
  <2>3. RowsAgree' /\ PaidMeansPaid'
    BY <1>5, <1>A DEF CancelOrder, Columns, RowsAgree, PaidMeansPaid, Unsettled
  <2>4. SpentOnce'
    BY <1>5, <1>A DEF CancelOrder, Columns, SpentOnce
  <2> QED BY <2>1, <2>2, <2>3, <2>4 DEF IInv
<1>6. ASSUME NEW o \in Orders, PeriodEnds(o)
      PROVE  IInv'
  <2>1. Columns'
    BY <1>6, <1>A DEF PeriodEnds, settler, Columns
  <2>2. AnswersStandUp'
    BY <1>6, <1>S DEF PeriodEnds, settler
  <2>3. RowsAgree' /\ PaidMeansPaid'
    BY <1>6, <1>A DEF PeriodEnds, RowsAgree, PaidMeansPaid, Unsettled
  <2>4. SpentOnce'
    BY <1>6, <1>A DEF PeriodEnds, Columns, SpentOnce
  <2> QED BY <2>1, <2>2, <2>3, <2>4 DEF IInv
<1>7. ASSUME NEW o \in Orders,
             ProviderAccepts(o) \/ \E s \in ProviderState : PayerActs(o, s)
      PROVE  IInv'
  <2>1. Columns'
    BY <1>7, <1>A DEF ProviderAccepts, PayerActs, rows, settler, Columns, ProviderState
  <2>2. AnswersStandUp'
    \* only an undecided payment changes, and no decided answer is about it
    BY <1>7, <1>A DEF ProviderAccepts, PayerActs, settler, Columns, AnswersStandUp,
                      ProviderState
  <2>3. PaidMeansPaid'
    BY <1>7, <1>A DEF ProviderAccepts, PayerActs, rows, Columns, PaidMeansPaid
  <2>4. RowsAgree' /\ SpentOnce'
    BY <1>7, <1>A DEF ProviderAccepts, PayerActs, rows, RowsAgree, SpentOnce, Unsettled
  <2> QED BY <2>1, <2>2, <2>3, <2>4 DEF IInv
<1>8. ASSUME NEW s \in Settlers, UNCHANGED <<rows, creating, swish>>,
             \/ UNCHANGED <<asker, about, answer>>
             \/ \E o : ReadRows(s, o) /\ UNCHANGED answer
             \/ Lookup(s)
             \/ Done(s)
      PROVE  IInv'
  <2>1. Columns'
    BY <1>8, <1>A DEF rows, ReadRows, Lookup, Done, Columns
  <2>2. AnswersStandUp'
    BY <1>8, <1>A DEF rows, ReadRows, Lookup, Done, Columns, AnswersStandUp
  <2>3. RowsAgree' /\ PaidMeansPaid' /\ SpentOnce'
    BY <1>8, <1>A DEF rows, RowsAgree, PaidMeansPaid, SpentOnce, Unsettled
  <2> QED BY <2>1, <2>2, <2>3 DEF IInv
<1>9. ASSUME NEW s \in Settlers, Settle(s)
      PROVE  IInv'
  <2> DEFINE o == about[s]
             a == answer[s]
  <2>0. /\ asker[s] = "answered" /\ Done(s)
        /\ UNCHANGED <<choice, deliverable, analysisOf, creating, swish>>
        /\ IF Settlement(a) = "wait" THEN UNCHANGED <<order, payment>>
           ELSE SettlePayment(o, Settlement(a))
    BY <1>9 DEF Settle
  <2>1. AnswersStandUp'
    BY <2>0, <1>A DEF Done, Columns, AnswersStandUp
  <2>2. CASE Settlement(a) # "wait" /\ o \in Orders
    <3>1. /\ a \in ProviderState \ {"unknown"}
          /\ a # "open" => swish[o] = a
      BY <1>A, <2>0, <2>2 DEF AnswersStandUp
    <3>2. /\ Settlement(a) \in {"paid", "declined", "failed"}
          /\ Settlement(a) = "paid" => swish[o] = "paid"
      BY <2>2, <3>1, SettlementValues
    <3>3. /\ order' \in [Orders -> OrderState \cup {"absent"}]
          /\ payment' \in [Orders -> {"absent", "pending", "paid", "declined", "failed"}]
          /\ RowsAgree' /\ PaidMeansPaid' /\ SpentOnce'
      BY <2>0, <2>2, <3>2, SettlePaymentKeeps
    <3>4. Columns'
      BY <1>A, <2>0, <3>3 DEF Done, Columns
    <3> QED BY <2>1, <3>3, <3>4 DEF IInv
  <2>3. CASE UNCHANGED <<order, payment>>
    <3>1. Columns'
      BY <1>A, <2>0, <2>3 DEF Done, Columns
    <3>2. RowsAgree' /\ PaidMeansPaid' /\ SpentOnce'
      BY <1>A, <2>0, <2>3 DEF RowsAgree, PaidMeansPaid, SpentOnce, Unsettled
    <3> QED BY <2>1, <3>1, <3>2 DEF IInv
  <2>4. CASE Settlement(a) # "wait" /\ o \notin Orders
    \* never the case; EXCEPT outside the domain changes nothing
    <3>1. SettlePayment(o, Settlement(a))
      BY <2>0, <2>4
    <3> HIDE DEF o, a
    <3>2. order' = order
      BY <1>A, <2>4, <3>1 DEF SettlePayment, Columns
    <3>3. payment' = payment
      BY <1>A, <2>4, <3>1 DEF SettlePayment, Columns
    <3> QED BY <2>3, <3>2, <3>3
  <2>5. Settlement(a) = "wait" => UNCHANGED <<order, payment>>
    BY <2>0
  <2> HIDE DEF o, a
  <2> QED BY <2>2, <2>3, <2>4, <2>5
<1>10. CASE UNCHANGED vars
  BY <1>10, <1>A, <1>S DEF vars, IInv, Columns, RowsAgree, PaidMeansPaid, SpentOnce, Unsettled
<1>11. ASSUME NEW s \in Settlers,
              \/ \E o \in Orders : Callback(s, o)
              \/ StartSweep(s) \/ SweepNext(s) \/ Lookup(s) \/ LookupFails(s)
              \/ SettlerDies(s)
       PROVE  IInv'
  BY <1>11, <1>8 DEF Callback, StartSweep, SweepNext, Lookup, LookupFails, SettlerDies
<1> QED BY <1>1, <1>2, <1>3, <1>4, <1>5, <1>6, <1>7, <1>9, <1>10, <1>11 DEF Next

\* An order is credited only against money the provider has taken for it.
THEOREM CreditIsCovered == Spec => []PaidMeansPaid
PROOF
<1>1. IInv => PaidMeansPaid
  BY DEF IInv
<1> QED BY IInvInit, IInvStep, <1>1, PTL DEF Spec

\* Order and payment are settled together, whichever mix of callbacks, sweeps
\* and failing create calls settles them.
THEOREM TablesAgree == Spec => []RowsAgree
PROOF
<1>1. IInv => RowsAgree
  BY DEF IInv
<1> QED BY IInvInit, IInvStep, <1>1, PTL DEF Spec

\* A paid order is spent or refunded at most once and never both.
THEOREM OrdersSpentOnce == Spec => []SpentOnce
PROOF
<1>1. IInv => SpentOnce
  BY DEF IInv
<1> QED BY IInvInit, IInvStep, <1>1, PTL DEF Spec

-----------------------------------------------------------------------------
(* Money is not lost after create.                                         *)

\* An order closed unpaid was refused by the provider for good, or its create
\* reported an error.
ClosedForCause ==
  \A o \in Orders : order[o] \in {"failed", "declined"} =>
    \/ swish[o] \in {"mismatched", "declined", "error"}
    \/ creating[o] = "failed"

LEMMA ClosedStep ==
  ASSUME IInv, ClosedForCause, [Next]_vars
  PROVE  ClosedForCause'
PROOF
<1>A. Columns /\ AnswersStandUp /\ RowsAgree
  BY DEF IInv
<1>1. ASSUME UNCHANGED <<swish, creating>>,
             \A o \in Orders : order'[o] = order[o] \/ order'[o] \notin {"failed", "declined"}
      PROVE  ClosedForCause'
  BY <1>1 DEF ClosedForCause
<1>2. ASSUME NEW o \in Orders, CreateFailed(o)
      PROVE  ClosedForCause'
  <2>1. creating'[o] = "failed"
    BY <1>2, <1>A DEF CreateFailed, Columns
  <2>2. \A p \in Orders \ {o} : order'[p] = order[p] /\ creating'[p] = creating[p]
    BY <1>2, <1>A DEF CreateFailed, SettlePayment, Columns
  <2> QED BY <1>2, <2>1, <2>2 DEF CreateFailed, ClosedForCause
<1>3. ASSUME NEW o \in Orders, CreateAnswered(o) \/ CreateAbandoned(o)
      PROVE  ClosedForCause'
  BY <1>3, <1>A DEF CreateAnswered, CreateAbandoned, rows, Columns, ClosedForCause
<1>4. ASSUME NEW o \in Orders,
             ProviderAccepts(o) \/ \E s \in ProviderState : PayerActs(o, s)
      PROVE  ClosedForCause'
  BY <1>4, <1>A DEF ProviderAccepts, PayerActs, rows, Columns, ClosedForCause
<1>5. ASSUME NEW s \in Settlers, Settle(s)
      PROVE  ClosedForCause'
  <2> DEFINE o == about[s]
             a == answer[s]
  <2>0. /\ asker[s] = "answered" /\ UNCHANGED <<swish, creating>>
        /\ IF Settlement(a) = "wait" THEN UNCHANGED <<order, payment>>
           ELSE SettlePayment(o, Settlement(a))
    BY <1>5 DEF Settle
  <2>1. CASE Settlement(a) # "wait" /\ o \in Orders
    <3>1. /\ a \in ProviderState \ {"unknown"}
          /\ a # "open" => swish[o] = a
      BY <1>A, <2>0, <2>1 DEF AnswersStandUp
    <3>2. Settlement(a) = "paid" \/ swish[o] \in {"mismatched", "declined", "error"}
      BY <2>1, <3>1 DEF Settlement, ProviderState
    <3>3. SettlePayment(o, Settlement(a))
      BY <2>0, <2>1
    <3> HIDE DEF o, a
    <3>4. /\ \A p \in Orders \ {o} : order'[p] = order[p]
          /\ order'[o] = order[o] \/ order'[o] = Settlement(a)
      BY <1>A, <2>1, <3>3 DEF SettlePayment, Columns
    <3> QED BY <2>0, <2>1, <3>2, <3>4 DEF ClosedForCause
  <2>2. CASE Settlement(a) # "wait" /\ o \notin Orders
    <3>1. SettlePayment(o, Settlement(a))
      BY <2>0, <2>2
    <3> HIDE DEF o, a
    <3>2. order' = order
      BY <1>A, <2>2, <3>1 DEF SettlePayment, Columns
    <3> QED BY <1>1, <2>0, <3>2
  <2>3. CASE Settlement(a) = "wait"
    BY <1>1, <2>0, <2>3
  <2> HIDE DEF o, a
  <2> QED BY <2>1, <2>2, <2>3
<1>6. ASSUME NEW o \in Orders,
             \/ \E c \in {"immediate", "after_cancellation_period"} : CreateOrder(o, c)
             \/ \E a \in Analyses : RedeemOrder(o, a)
             \/ CancelOrder(o) \/ PeriodEnds(o)
      PROVE  ClosedForCause'
  BY <1>6, <1>A DEF CreateOrder, RedeemOrder, CancelOrder, PeriodEnds, Columns,
                    ClosedForCause
<1>7. ASSUME NEW s \in Settlers,
             \/ \E o \in Orders : Callback(s, o)
             \/ StartSweep(s) \/ SweepNext(s) \/ Lookup(s) \/ LookupFails(s)
             \/ SettlerDies(s)
      PROVE  ClosedForCause'
  BY <1>7, <1>1 DEF Callback, StartSweep, SweepNext, Lookup, LookupFails, SettlerDies, rows
<1>8. CASE UNCHANGED vars
  BY <1>8, <1>1 DEF vars
<1> QED BY <1>2, <1>3, <1>4, <1>5, <1>6, <1>7, <1>8 DEF Next

\* No order whose payer paid is ever closed as failed or declined, unless its
\* create reported an error for a payment that the provider accepted; answers
\* applied late, lost callbacks and failed lookups close none.
THEOREM PaidOrdersStayOpen == Spec => []MoneyNotLost
PROOF
<1>1. Init => ClosedForCause
  BY DEF Init, ClosedForCause
<1>2. IInv /\ ClosedForCause /\ [Next]_vars => ClosedForCause'
  BY ClosedStep
<1>3. ClosedForCause => MoneyNotLost
  BY DEF ClosedForCause, MoneyNotLost
<1> QED BY IInvInit, IInvStep, <1>1, <1>2, <1>3, PTL DEF Spec

-----------------------------------------------------------------------------
(* Payments implements OrderPromise.                                       *)

LEMMA PromiseOfValues ==
  /\ \A s \in {"absent", "created", "awaiting_payment"} : PromiseOf(s) = "open"
  /\ \A s \in {"declined", "failed"} : PromiseOf(s) = "refused"
  /\ PromiseOf("paid") = "credited"
  /\ PromiseOf("consumed") = "delivered"
  /\ PromiseOf("refund_owed") = "refund"
BY DEF PromiseOf

\* A step that moves one order and leaves the rest alone.
LEMMA OneOrder ==
  ASSUME order \in [Orders -> OrderState \cup {"absent"}],
         NEW o \in Orders, NEW s, order' = [order EXCEPT ![o] = s]
  PROVE  [p \in Orders |-> PromiseOf(order'[p])]
           = [[p \in Orders |-> PromiseOf(order[p])] EXCEPT ![o] = PromiseOf(s)]
OBVIOUS

LEMMA PromiseStep ==
  ASSUME IInv, [Next]_vars
  PROVE  [Promise!Next]_(Promise!promiseVars)
PROOF
<1>A. Columns /\ AnswersStandUp /\ RowsAgree /\ PaidMeansPaid
  BY DEF IInv
<1> DEFINE Goal == [Promise!Next]_(Promise!promiseVars)
<1>U. ASSUME UNCHANGED <<order, swish, analysisOf>>
      PROVE  Goal
  BY <1>U DEF Promise!promiseVars
<1>1. ASSUME NEW o \in Orders, NEW s \in {"paid", "declined", "failed"},
             s = "paid" => swish[o] = "paid", SettlePayment(o, s),
             UNCHANGED <<swish, analysisOf>>
      PROVE  Goal
  <2>1. CASE Unsettled(o)
    <3>1. order' = [order EXCEPT ![o] = s]
      BY <1>1, <2>1 DEF SettlePayment
    <3>2. PromiseOf(order[o]) = "open"
      BY <2>1, PromiseOfValues DEF Unsettled
    <3>3. CASE s = "paid"
      <4>1. Promise!Credit(o)
        BY <1>1, <1>A, <3>1, <3>2, <3>3, OneOrder, PromiseOfValues
           DEF Promise!Credit, Columns
      <4> QED BY <4>1 DEF Promise!Next
    <3>4. CASE s \in {"declined", "failed"}
      <4>1. Promise!Refuse(o)
        BY <1>1, <1>A, <3>1, <3>2, <3>4, OneOrder, PromiseOfValues
           DEF Promise!Refuse, Columns
      <4> QED BY <4>1 DEF Promise!Next
    <3> QED BY <3>3, <3>4
  <2>2. CASE ~Unsettled(o)
    <3>1. order' = order
      BY <1>1, <1>A, <2>2 DEF SettlePayment, Columns
    <3> QED BY <1>1, <1>U, <3>1
  <2> QED BY <2>1, <2>2
<1>2. ASSUME NEW o \in Orders,
             NEW c \in {"immediate", "after_cancellation_period"}, CreateOrder(o, c)
      PROVE  Goal
  <2>1. [p \in Orders |-> PromiseOf(order'[p])] = [p \in Orders |-> PromiseOf(order[p])]
    <3>1. ASSUME NEW p \in Orders
          PROVE  PromiseOf(order'[p]) = PromiseOf(order[p])
      BY <1>2, <1>A, PromiseOfValues DEF CreateOrder, Columns
    <3> QED BY <3>1
  <2> QED BY <1>2, <2>1 DEF CreateOrder, Promise!promiseVars
<1>3. ASSUME NEW o \in Orders, NEW a \in Analyses, RedeemOrder(o, a)
      PROVE  Goal
  <2>1. Promise!Deliver(o, a)
    BY <1>3, <1>A, OneOrder, PromiseOfValues DEF RedeemOrder, Promise!Deliver, Columns
  <2> QED BY <2>1 DEF Promise!Next
<1>4. ASSUME NEW o \in Orders, CancelOrder(o)
      PROVE  Goal
  <2>1. Promise!Refund(o)
    BY <1>4, <1>A, OneOrder, PromiseOfValues DEF CancelOrder, Promise!Refund, Columns
  <2> QED BY <2>1 DEF Promise!Next
<1>5. ASSUME NEW o \in Orders,
             ProviderAccepts(o) \/ \E s \in ProviderState : PayerActs(o, s)
      PROVE  Goal
  <2>0. /\ swish[o] \in {"unknown", "open"}
        /\ swish' = [swish EXCEPT ![o] = swish'[o]]
        /\ UNCHANGED <<order, analysisOf>>
    BY <1>5, <1>A DEF ProviderAccepts, PayerActs, rows, Columns
  <2>1. CASE swish'[o] = "paid"
    <3>1. [p \in Orders |-> swish'[p] = "paid"]
            = [[p \in Orders |-> swish[p] = "paid"] EXCEPT ![o] = TRUE]
      BY <1>A, <2>0, <2>1 DEF Columns
    <3>2. Promise!Pay(o)
      BY <2>0, <3>1 DEF Promise!Pay
    <3> QED BY <3>2 DEF Promise!Next
  <2>2. CASE swish'[o] # "paid"
    <3>1. ASSUME NEW p \in Orders
          PROVE  (swish'[p] = "paid") = (swish[p] = "paid")
      BY <1>A, <2>0, <2>2 DEF Columns
    <3>2. [p \in Orders |-> swish'[p] = "paid"] = [p \in Orders |-> swish[p] = "paid"]
      BY <3>1
    <3> QED BY <2>0, <3>2 DEF Promise!promiseVars
  <2> QED BY <2>1, <2>2
<1>6. ASSUME NEW s \in Settlers, Settle(s)
      PROVE  Goal
  <2> DEFINE o == about[s]
             a == answer[s]
  <2>0. /\ asker[s] = "answered" /\ UNCHANGED <<swish, analysisOf>>
        /\ IF Settlement(a) = "wait" THEN UNCHANGED <<order, payment>>
           ELSE SettlePayment(o, Settlement(a))
    BY <1>6 DEF Settle
  <2>1. CASE Settlement(a) # "wait" /\ o \in Orders
    <3>1. /\ a \in ProviderState \ {"unknown"}
          /\ a # "open" => swish[o] = a
      BY <1>A, <2>0, <2>1 DEF AnswersStandUp
    <3>2. /\ Settlement(a) \in {"paid", "declined", "failed"}
          /\ Settlement(a) = "paid" => swish[o] = "paid"
      BY <2>1, <3>1, SettlementValues
    <3> QED BY <1>1, <2>0, <2>1, <3>2
  <2>2. CASE Settlement(a) # "wait" /\ o \notin Orders
    <3>1. SettlePayment(o, Settlement(a))
      BY <2>0, <2>2
    <3> HIDE DEF o, a
    <3>2. order' = order
      BY <1>A, <2>2, <3>1 DEF SettlePayment, Columns
    <3> QED BY <1>U, <2>0, <3>2
  <2>3. CASE Settlement(a) = "wait"
    BY <1>U, <2>0, <2>3
  <2> HIDE DEF o, a
  <2> QED BY <2>1, <2>2, <2>3
<1>7. ASSUME NEW o \in Orders, CreateFailed(o)
      PROVE  Goal
  BY <1>1, <1>7 DEF CreateFailed
<1>8. ASSUME NEW o \in Orders,
             CreateAnswered(o) \/ CreateAbandoned(o) \/ PeriodEnds(o)
      PROVE  Goal
  BY <1>U, <1>8 DEF CreateAnswered, CreateAbandoned, PeriodEnds, rows
<1>9. ASSUME NEW s \in Settlers,
             \/ \E o \in Orders : Callback(s, o)
             \/ StartSweep(s) \/ SweepNext(s) \/ Lookup(s) \/ LookupFails(s)
             \/ SettlerDies(s)
      PROVE  Goal
  BY <1>U, <1>9 DEF Callback, StartSweep, SweepNext, Lookup, LookupFails, SettlerDies, rows
<1>10. CASE UNCHANGED vars
  BY <1>10, <1>U DEF vars
<1>11. ASSUME NEW o \in Orders, \E s \in ProviderState : PayerActs(o, s)
       PROVE  Goal
  BY <1>5, <1>11
<1>12. ASSUME NEW o \in Orders, ProviderAccepts(o)
       PROVE  Goal
  BY <1>5, <1>12
<1> QED BY <1>2, <1>3, <1>4, <1>6, <1>7, <1>8, <1>9, <1>10, <1>11, <1>12 DEF Next

\* The tables implement the promise made to the buyer.
THEOREM PromiseKept == Spec => KeepsPromise
PROOF
<1>1. Init => Promise!Init
  <2> SUFFICES ASSUME Init PROVE Promise!Init
    OBVIOUS
  <2>1. \A o \in Orders : PromiseOf(order[o]) = "open"
    BY PromiseOfValues DEF Init
  <2>2. \A o \in Orders : swish[o] # "paid"
    BY DEF Init
  <2>3. [o \in Orders |-> swish[o] = "paid"] = [o \in Orders |-> FALSE]
    BY <2>2
  <2>4. [o \in Orders |-> PromiseOf(order[o])] = [o \in Orders |-> "open"]
    BY <2>1
  <2> QED BY <2>3, <2>4 DEF Init, Promise!Init
<1>2. IInv /\ [Next]_vars => [Promise!Next]_(Promise!promiseVars)
  BY PromiseStep
<1> QED BY IInvInit, IInvStep, <1>1, <1>2, PTL DEF Spec, KeepsPromise, Promise!Spec

=============================================================================

---------------------------- MODULE ReportProofs ----------------------------
(***************************************************************************)
(* Proofs about a report, from the request that asks for it to the         *)
(* findings in it.                                                         *)
(*                                                                         *)
(* First start_analysis, for any number of requests and orders, any keys   *)
(* clients send and any quota, in a deployment that takes payments and in  *)
(* one that does not.  The transaction and the enqueue are two steps, so   *)
(* the invariant says what is true in between: a request that has          *)
(* committed owns the order it named, and a job's key leads back to the    *)
(* one request that inserted it.                                           *)
(*                                                                         *)
(* Then the pipeline, for any facts, any rule set in any language of       *)
(* conditions and formulas, any catalog and anything the model may         *)
(* propose.  Every stage rearranges what the one before it left: a sorted  *)
(* or filtered sequence is the old one through a bijection of positions,   *)
(* so that what is said of a finding, and how often it occurs, survives    *)
(* to the report.                                                          *)
(***************************************************************************)
EXTENDS Pipeline, StartAnalysis, FiniteSetTheorems, SequenceTheorems, TLAPS

(****************************** start_analysis *****************************)

\* The request spent the order it named, and its analysis is stamped.
Bought(r) ==
  /\ OrderOf[r] \in Orders
  /\ order[OrderOf[r]] = "consumed" /\ analysisOf[OrderOf[r]] = r
  /\ r \in audience

\* A request that has not reached its transaction has left no trace, and one
\* between commit and enqueue is not in the queue yet.
HandlerInv ==
  \A r \in Requests :
    /\ handler[r] = "waiting" =>
         r \notin analyses /\ \A o \in Orders : analysisOf[o] # r
    /\ handler[r] # "ended" =>
         /\ reply[r] = None /\ key[r] = BadKey /\ ~fromHeader[r]
         /\ \A k \in Keys : subject[k] # r
    /\ handler[r] = "committed" =>
         r \in analyses /\ (paymentsRequired => Bought(r))

\* An order names an analysis exactly when it was spent on it.
OrderInv ==
  \A o \in Orders : analysisOf[o] # None =>
    /\ order[o] = "consumed"
    /\ OrderOf[analysisOf[o]] = o
    /\ analysisOf[o] \in analyses

\* A job leads back to its request, and an order's derived key to what the
\* order bought, unless a client sent that key as its own.
QueueInv ==
  /\ \A k \in Keys : subject[k] # None =>
       /\ subject[k] \in analyses
       /\ key[subject[k]] = k
       /\ paymentsRequired => Bought(subject[k])
  /\ \A o \in Orders :
       paymentsRequired /\ subject[o] # None
         => analysisOf[o] = subject[o] \/ fromHeader[subject[o]]

\* Where payments are required, nobody who named no order gets an analysis.
BuyersInv ==
  \A r \in Requests : paymentsRequired /\ reply[r] \in Requests => OrderOf[r] \in Orders

IInv == /\ TypeOK /\ HandlerInv /\ OrderInv /\ QueueInv /\ BuyersInv
        /\ AnswersNameRealAnalyses /\ AnsweredWithPurchase

-----------------------------------------------------------------------------

LEMMA InitInv == Init => IInv
<1> SUFFICES ASSUME Init PROVE IInv
  OBVIOUS
<1>1. TypeOK
  BY DEF Init, TypeOK
<1>2. HandlerInv /\ OrderInv
  BY NamesAssumption DEF Init, HandlerInv, OrderInv
<1>3. QueueInv /\ BuyersInv /\ AnswersNameRealAnalyses /\ AnsweredWithPurchase
  BY NamesAssumption DEF Init, QueueInv, Keys, BuyersInv, AnswersNameRealAnalyses, AnsweredWithPurchase
<1> QED BY <1>1, <1>2, <1>3 DEF IInv

\* Type correctness of one step.
LEMMA TypeOKStep ==
  ASSUME IInv, [Next]_vars
  PROVE  TypeOK'
<1> USE OrderOfAssumption, NamesAssumption
<1> USE DEF IInv, TypeOK
<1>1. ASSUME NEW o \in Orders, OrderPaid(o) \/ OrderCancelled(o) \/ PeriodEnds(o)
      PROVE  TypeOK'
  BY <1>1 DEF OrderPaid, OrderCancelled, PeriodEnds
<1>2. CASE WindowRolls
  BY <1>2 DEF WindowRolls, Tables
<1>3. ASSUME NEW r \in Requests, NEW answer \in Requests \cup {"refused", None},
             End(r, answer), count' \in Nat, UNCHANGED <<Tables, key, fromHeader>>
      PROVE  TypeOK'
  BY <1>3 DEF End, Tables
<1>4. ASSUME NEW r \in Requests, RateLimited(r) \/ UnknownDocument(r) \/ OrderRefused(r)
      PROVE  TypeOK'
  <2>1. End(r, "refused") /\ count' \in Nat /\ UNCHANGED <<Tables, key, fromHeader>>
    BY <1>4 DEF RateLimited, UnknownDocument, OrderRefused
  <2> QED BY <1>3, <2>1
<1>5. ASSUME NEW r \in Requests, AlreadyBought(r) PROVE TypeOK'
  <2>1. End(r, analysisOf[OrderOf[r]]) /\ count' \in Nat /\ UNCHANGED <<Tables, key, fromHeader>>
    BY <1>5 DEF AlreadyBought
  <2>2. analysisOf[OrderOf[r]] \in Requests \cup {"refused", None}
    BY <1>5 DEF AlreadyBought
  <2> QED BY <1>3, <2>1, <2>2
<1>6. ASSUME NEW r \in Requests, KeyRefused(r) \/ HandlerDies(r) PROVE TypeOK'
  <2>1. (End(r, "refused") \/ End(r, None)) /\ count' \in Nat /\ UNCHANGED <<Tables, key, fromHeader>>
    BY <1>6 DEF KeyRefused, HandlerDies
  <2> QED BY <1>3, <2>1
<1>7. ASSUME NEW r \in Requests, CreateAndRedeem(r) PROVE TypeOK'
  <2>1. CASE paymentsRequired
    BY <1>7, <2>1 DEF CreateAndRedeem
  <2>2. CASE ~paymentsRequired
    BY <1>7, <2>2 DEF CreateAndRedeem
  <2> QED BY <2>1, <2>2
<1>8. ASSUME NEW r \in Requests, NEW k \in Keys, EnqueueJob(r, k) PROVE TypeOK'
  BY <1>8 DEF EnqueueJob, KeyFor, End
<1>9. ASSUME NEW r \in Requests, NEW k \in Keys, EnqueueDuplicate(r, k) PROVE TypeOK'
  BY <1>9 DEF EnqueueDuplicate, KeyFor, End, Tables
<1>10. CASE UNCHANGED vars
  BY <1>10 DEF vars
<1> QED
  BY <1>1, <1>2, <1>4, <1>5, <1>6, <1>7, <1>8, <1>9, <1>10 DEF Next

-----------------------------------------------------------------------------
(* The steps.                                                              *)

Parts == /\ HandlerInv /\ OrderInv /\ QueueInv /\ BuyersInv
         /\ AnswersNameRealAnalyses /\ AnsweredWithPurchase

\* Payments moves an order, time passes: no spent order is touched.
LEMMA SurroundingsStep ==
  ASSUME IInv,
         \/ \E o \in Orders : OrderPaid(o) \/ OrderCancelled(o) \/ PeriodEnds(o)
         \/ WindowRolls \/ UNCHANGED vars
  PROVE  Parts'
<1>1. /\ UNCHANGED <<paymentsRequired, analysisOf, analyses, audience, subject, handler, key,
                   fromHeader, reply>>
      /\ \A o \in Orders : order[o] = "consumed" => order'[o] = "consumed"
  BY DEF OrderPaid, OrderCancelled, PeriodEnds, WindowRolls, Tables, vars, IInv, TypeOK
<1>2. \A r \in Requests : Bought(r) => Bought(r)'
  BY <1>1 DEF Bought
<1>3. HandlerInv'
  BY <1>1, <1>2 DEF IInv, HandlerInv
<1>4. OrderInv'
  BY <1>1 DEF IInv, OrderInv
<1>5. QueueInv'
  BY <1>1, <1>2 DEF IInv, QueueInv, TypeOK
<1>6. BuyersInv' /\ AnswersNameRealAnalyses' /\ AnsweredWithPurchase'
  BY <1>1 DEF IInv, BuyersInv, AnswersNameRealAnalyses, AnsweredWithPurchase, DerivedKey
<1> QED BY <1>3, <1>4, <1>5, <1>6 DEF Parts

\* An answer that leaves the tables as they are: a refusal, a death, or the
\* name of what the order bought earlier.
LEMMA AnswerStep ==
  ASSUME IInv, NEW r \in Requests, NEW answer,
         End(r, answer), UNCHANGED <<Tables, key, fromHeader>>,
         handler[r] # "ended",
         \/ answer \in {"refused", None}
         \/ /\ OrderOf[r] \in Orders /\ analysisOf[OrderOf[r]] # None
            /\ answer = analysisOf[OrderOf[r]]
  PROVE  Parts'
<1>1. /\ handler'[r] = "ended" /\ reply'[r] = answer
      /\ \A p \in Requests \ {r} : handler'[p] = handler[p] /\ reply'[p] = reply[p]
      /\ UNCHANGED <<paymentsRequired, order, analysisOf, analyses, audience, subject, key,
                   fromHeader>>
  BY DEF End, Tables, IInv, TypeOK
<1>2. \A p : Bought(p)' <=> Bought(p)
  BY <1>1 DEF Bought
<1>3. HandlerInv'
  BY <1>1, <1>2 DEF IInv, HandlerInv
<1>4. OrderInv' /\ QueueInv'
  BY <1>1, <1>2 DEF IInv, OrderInv, QueueInv
<1>5. BuyersInv' /\ AnswersNameRealAnalyses'
  BY <1>1, NamesAssumption DEF IInv, OrderInv, BuyersInv, AnswersNameRealAnalyses
<1>6. AnsweredWithPurchase'
  BY <1>1, NamesAssumption DEF IInv, AnsweredWithPurchase, DerivedKey
<1> QED BY <1>3, <1>4, <1>5, <1>6 DEF Parts

\* create_analysis with redeem_order: the order was paid and not spent, so no
\* other request's purchase is overwritten.
LEMMA CreateStep ==
  ASSUME IInv, NEW r \in Requests, CreateAndRedeem(r)
  PROVE  Parts'
<1> DEFINE o == OrderOf[r]
<1>1. /\ handler[r] = "waiting" /\ handler'[r] = "committed"
      /\ \A p \in Requests \ {r} : handler'[p] = handler[p]
      /\ analyses' = analyses \cup {r}
      /\ UNCHANGED <<paymentsRequired, subject, key, fromHeader, reply>>
  BY DEF CreateAndRedeem, IInv, TypeOK
<1>2. /\ r \notin analyses /\ (\A p \in Orders : analysisOf[p] # r)
      /\ reply[r] = None /\ key[r] = BadKey /\ ~fromHeader[r]
      /\ \A k \in Keys : subject[k] # r
  BY <1>1 DEF IInv, HandlerInv
<1>3. ASSUME paymentsRequired
      PROVE  /\ o \in Orders /\ order[o] = "paid" /\ analysisOf[o] = None
             /\ order'[o] = "consumed" /\ analysisOf'[o] = r /\ r \in audience'
             /\ audience \subseteq audience'
             /\ \A p \in Orders \ {o} : order'[p] = order[p] /\ analysisOf'[p] = analysisOf[p]
  <2>1. o \in Orders /\ order[o] = "paid"
    BY <1>3, OrderOfAssumption DEF CreateAndRedeem, Redeemable
  <2>2. analysisOf[o] = None
    BY <2>1 DEF IInv, OrderInv
  <2> QED BY <1>3, <2>1, <2>2 DEF CreateAndRedeem, IInv, TypeOK
<1>4. ~paymentsRequired => UNCHANGED <<order, analysisOf, audience>>
  BY DEF CreateAndRedeem
<1>5. \A p \in Orders : analysisOf[p] # None => analysisOf'[p] = analysisOf[p]
  BY <1>3, <1>4
<1>6. \A p \in Orders : order[p] = "consumed" => order'[p] = "consumed"
  BY <1>3, <1>4
<1>7. paymentsRequired => Bought(r)'
  BY <1>3 DEF Bought
<1>8. \A p \in Requests : paymentsRequired /\ Bought(p) => Bought(p)'
  BY <1>3, <1>5, <1>6, NamesAssumption DEF Bought
<1>9. HandlerInv'
  <2> SUFFICES ASSUME NEW p \in Requests
               PROVE  /\ handler'[p] = "waiting" =>
                           p \notin analyses' /\ \A q \in Orders : analysisOf'[q] # p
                      /\ handler'[p] # "ended" =>
                           /\ reply'[p] = None /\ key'[p] = BadKey /\ ~fromHeader'[p]
                           /\ \A k \in Keys : subject'[k] # p
                      /\ handler'[p] = "committed" =>
                           p \in analyses' /\ (paymentsRequired' => Bought(p)')
    BY DEF HandlerInv
  <2>1. CASE p = r
    BY <1>1, <1>2, <1>7, <2>1
  <2>2. CASE p # r
    <3>1. \A q \in Orders : analysisOf[q] # p => analysisOf'[q] # p
      BY <1>3, <1>4, <2>2
    <3> QED BY <1>1, <1>8, <2>2, <3>1 DEF IInv, HandlerInv
  <2> QED BY <2>1, <2>2
<1>10. OrderInv'
  <2> SUFFICES ASSUME NEW p \in Orders, analysisOf'[p] # None
               PROVE  /\ order'[p] = "consumed" /\ OrderOf[analysisOf'[p]] = p
                      /\ analysisOf'[p] \in analyses'
    BY DEF OrderInv
  <2>1. CASE paymentsRequired /\ p = o
    BY <1>1, <1>3, <2>1
  <2>2. CASE ~(paymentsRequired /\ p = o)
    <3>1. order'[p] = order[p] /\ analysisOf'[p] = analysisOf[p]
      BY <1>3, <1>4, <2>2
    <3> QED BY <1>1, <3>1 DEF IInv, OrderInv
  <2> QED BY <2>1, <2>2
<1>11. QueueInv'
  <2>1. \A k \in Keys : subject[k] # None => subject[k] \in Requests
    BY DEF IInv, TypeOK
  <2>2. \A p \in Orders : p \in Keys
    BY DEF Keys
  <2>3. \A p \in Orders : paymentsRequired /\ subject[p] # None
          => analysisOf'[p] = subject[p] \/ fromHeader[subject[p]]
    BY <1>5, <2>1, <2>2, NamesAssumption DEF IInv, QueueInv
  <2>4. \A k \in Keys : subject[k] # None =>
          subject[k] \in analyses' /\ key'[subject[k]] = k /\ (paymentsRequired => Bought(subject[k])')
    BY <1>1, <1>8, <2>1 DEF IInv, QueueInv
  <2> QED BY <1>1, <2>3, <2>4 DEF QueueInv
<1>12. BuyersInv' /\ AnswersNameRealAnalyses'
  BY <1>1 DEF IInv, BuyersInv, AnswersNameRealAnalyses
<1>13. AnsweredWithPurchase'
  <2> SUFFICES ASSUME NEW p \in Requests, paymentsRequired, reply[p] \in Requests,
                      ~fromHeader[p],
                      ~(fromHeader[reply[p]] /\ key[reply[p]] = DerivedKey(p))
               PROVE  analysisOf'[OrderOf[p]] = reply[p]
    BY <1>1 DEF AnsweredWithPurchase, DerivedKey
  <2>1. analysisOf[OrderOf[p]] = reply[p] /\ reply[p] # None
    BY NamesAssumption DEF IInv, AnsweredWithPurchase
  <2>2. OrderOf[p] \in Orders
    BY DEF IInv, BuyersInv
  <2> QED BY <1>5, <2>1, <2>2
<1> QED BY <1>9, <1>10, <1>11, <1>12, <1>13 DEF Parts

\* What a committed request and the key it uses mean for the queue.
LEMMA KeyUsed ==
  ASSUME IInv, NEW r \in Requests, NEW k \in Keys, handler[r] = "committed", KeyFor(r, k)
  PROVE  /\ r \in analyses /\ (\A l \in Keys : subject[l] # r)
         /\ paymentsRequired => Bought(r)
         /\ key'[r] = k /\ \A p \in Requests \ {r} : key'[p] = key[p]
         /\ k # BadKey /\ key[r] = BadKey /\ ~fromHeader[r]
         /\ ~fromHeader'[r] => k = DerivedKey(r)
         /\ \A p \in Requests \ {r} : fromHeader'[p] = fromHeader[p]
<1>1. /\ r \in analyses /\ (\A l \in Keys : subject[l] # r)
      /\ paymentsRequired => Bought(r)
      /\ key[r] = BadKey /\ ~fromHeader[r]
  BY DEF IInv, HandlerInv
<1>2. key'[r] = k /\ \A p \in Requests \ {r} : key'[p] = key[p]
  BY DEF KeyFor, IInv, TypeOK
<1>3. k # BadKey
  BY NamesAssumption DEF Keys
<1>4. CASE k \in HeaderKeys /\ fromHeader' = [fromHeader EXCEPT ![r] = TRUE]
  BY <1>1, <1>2, <1>3, <1>4 DEF IInv, TypeOK
<1>5. CASE k = DerivedKey(r) /\ UNCHANGED fromHeader
  BY <1>1, <1>2, <1>3, <1>5
<1> QED BY <1>4, <1>5 DEF KeyFor

\* An answer given earlier to another request stays the right one while r uses
\* its key, because r had none before.
LEMMA OthersKeepTheirAnswer ==
  ASSUME IInv, NEW r \in Requests, key[r] = BadKey, ~fromHeader[r],
         UNCHANGED <<paymentsRequired, analysisOf>>,
         \A p \in Requests \ {r} :
           key'[p] = key[p] /\ fromHeader'[p] = fromHeader[p] /\ reply'[p] = reply[p],
         NEW p \in Requests \ {r}, paymentsRequired', reply'[p] \in Requests, ~fromHeader'[p]
  PROVE  \/ analysisOf'[OrderOf[p]] = reply'[p]
         \/ fromHeader'[reply'[p]] /\ key'[reply'[p]] = DerivedKey(p)
<1>1. \/ analysisOf[OrderOf[p]] = reply[p]
      \/ fromHeader[reply[p]] /\ key[reply[p]] = DerivedKey(p)
  BY DEF IInv, AnsweredWithPurchase
<1>2. CASE reply[p] = r
  BY <1>1, <1>2
<1>3. CASE reply[p] # r
  BY <1>1, <1>3
<1> QED BY <1>2, <1>3

\* The job is inserted under a key nobody used.
LEMMA EnqueueStep ==
  ASSUME IInv, NEW r \in Requests, NEW k \in Keys, EnqueueJob(r, k)
  PROVE  Parts'
<1>1. /\ handler[r] = "committed" /\ KeyFor(r, k) /\ subject[k] = None
      /\ handler'[r] = "ended" /\ reply'[r] = r
      /\ subject'[k] = r /\ \A l \in Keys \ {k} : subject'[l] = subject[l]
      /\ \A p \in Requests \ {r} : handler'[p] = handler[p] /\ reply'[p] = reply[p]
      /\ UNCHANGED <<paymentsRequired, order, analysisOf, analyses, audience>>
  BY DEF EnqueueJob, End, IInv, TypeOK
<1>2. /\ r \in analyses /\ (\A l \in Keys : subject[l] # r)
      /\ paymentsRequired => Bought(r)
      /\ key'[r] = k /\ \A p \in Requests \ {r} : key'[p] = key[p]
      /\ key[r] = BadKey /\ ~fromHeader[r]
      /\ ~fromHeader'[r] => k = DerivedKey(r)
      /\ \A p \in Requests \ {r} : fromHeader'[p] = fromHeader[p]
  BY <1>1, KeyUsed
<1>3. \A p : Bought(p)' <=> Bought(p)
  BY <1>1 DEF Bought
<1>4. HandlerInv'
  BY <1>1, <1>2, <1>3 DEF IInv, HandlerInv
<1>5. OrderInv'
  BY <1>1 DEF IInv, OrderInv
<1>6. QueueInv'
  <2>0. \A l \in Keys : subject'[l] # None => subject'[l] \in Requests
    BY <1>1 DEF IInv, TypeOK
  <2>1. ASSUME NEW l \in Keys, NEW p \in Requests, subject'[l] = p
        PROVE  p \in analyses' /\ key'[p] = l /\ (paymentsRequired' => Bought(p)')
    <3>1. CASE l = k
      BY <1>1, <1>2, <1>3, <2>1, <3>1
    <3>2. CASE l # k
      <4>1. subject[l] = p /\ p # r /\ p # None
        BY <1>1, <1>2, <2>1, <3>2, NamesAssumption
      <4> QED BY <1>1, <1>2, <1>3, <4>1 DEF IInv, QueueInv
    <3> QED BY <3>1, <3>2
  <2>2. ASSUME NEW o \in Orders, paymentsRequired', subject'[o] # None
        PROVE  analysisOf'[o] = subject'[o] \/ fromHeader'[subject'[o]]
    <3>1. o \in Keys
      BY DEF Keys
    <3>2. CASE o = k
      BY <1>1, <1>2, <2>2, <3>2 DEF Bought, DerivedKey
    <3>3. CASE o # k
      <4>1. subject'[o] = subject[o] /\ subject[o] \in Requests \ {r}
        BY <1>1, <1>2, <2>0, <2>2, <3>1, <3>3
      <4> QED BY <1>1, <1>2, <2>2, <4>1 DEF IInv, QueueInv
    <3> QED BY <3>2, <3>3
  <2> QED BY <2>0, <2>1, <2>2 DEF QueueInv
<1>7. BuyersInv' /\ AnswersNameRealAnalyses'
  BY <1>1, <1>2 DEF IInv, BuyersInv, AnswersNameRealAnalyses, Bought
<1>8. AnsweredWithPurchase'
  <2> SUFFICES ASSUME NEW p \in Requests, paymentsRequired', reply'[p] \in Requests,
                      ~fromHeader'[p]
               PROVE  \/ analysisOf'[OrderOf[p]] = reply'[p]
                      \/ fromHeader'[reply'[p]] /\ key'[reply'[p]] = DerivedKey(p)
    BY DEF AnsweredWithPurchase, DerivedKey
  <2>1. CASE p = r
    BY <1>1, <1>2, <2>1 DEF Bought
  <2>2. CASE p # r
    BY <1>1, <1>2, <2>2, OthersKeepTheirAnswer
  <2> QED BY <2>1, <2>2
<1> QED BY <1>4, <1>5, <1>6, <1>7, <1>8 DEF Parts

\* The key is taken: by an earlier request of the same order, or by a client
\* that sent the same key.
LEMMA DuplicateStep ==
  ASSUME IInv, NEW r \in Requests, NEW k \in Keys, EnqueueDuplicate(r, k)
  PROVE  Parts'
<1>1. /\ handler[r] = "committed" /\ KeyFor(r, k) /\ subject[k] # None
      /\ handler'[r] = "ended" /\ reply'[r] = subject[k]
      /\ \A p \in Requests \ {r} : handler'[p] = handler[p] /\ reply'[p] = reply[p]
      /\ UNCHANGED <<paymentsRequired, order, analysisOf, analyses, audience, subject>>
  BY DEF EnqueueDuplicate, End, Tables, IInv, TypeOK
<1>2. /\ (\A l \in Keys : subject[l] # r)
      /\ paymentsRequired => Bought(r)
      /\ key'[r] = k /\ \A p \in Requests \ {r} : key'[p] = key[p]
      /\ key[r] = BadKey /\ ~fromHeader[r]
      /\ ~fromHeader'[r] => k = DerivedKey(r)
      /\ \A p \in Requests \ {r} : fromHeader'[p] = fromHeader[p]
  BY <1>1, KeyUsed
<1>3. \A p : Bought(p)' <=> Bought(p)
  BY <1>1 DEF Bought
<1>4. HandlerInv' /\ OrderInv'
  BY <1>1, <1>2, <1>3 DEF IInv, HandlerInv, OrderInv
<1>5. QueueInv'
  <2>1. \A l \in Keys : subject[l] # None => subject[l] \in Requests \ {r}
    BY <1>2 DEF IInv, TypeOK
  <2>2. \A o \in Orders : o \in Keys
    BY DEF Keys
  <2> QED BY <1>1, <1>2, <1>3, <2>1, <2>2 DEF IInv, QueueInv
<1>6. BuyersInv' /\ AnswersNameRealAnalyses'
  BY <1>1, <1>2 DEF IInv, QueueInv, BuyersInv, AnswersNameRealAnalyses, Bought
<1>7. AnsweredWithPurchase'
  <2> SUFFICES ASSUME NEW p \in Requests, paymentsRequired', reply'[p] \in Requests,
                      ~fromHeader'[p]
               PROVE  \/ analysisOf'[OrderOf[p]] = reply'[p]
                      \/ fromHeader'[reply'[p]] /\ key'[reply'[p]] = DerivedKey(p)
    BY DEF AnsweredWithPurchase, DerivedKey
  <2>1. CASE p = r
    <3>1. k = DerivedKey(p) /\ k = OrderOf[p] /\ k \in Orders
      BY <1>1, <1>2, <2>1 DEF DerivedKey, Bought
    <3>2. subject[k] \in Requests \ {r}
      BY <1>1, <1>2 DEF IInv, TypeOK
    <3>3. key[subject[k]] = k /\ (analysisOf[k] = subject[k] \/ fromHeader[subject[k]])
      BY <1>1, <2>1, <3>1 DEF IInv, QueueInv
    <3> QED BY <1>1, <1>2, <2>1, <3>1, <3>2, <3>3
  <2>2. CASE p # r
    BY <1>1, <1>2, <2>2, OthersKeepTheirAnswer
  <2> QED BY <2>1, <2>2
<1> QED BY <1>4, <1>5, <1>6, <1>7 DEF Parts

-----------------------------------------------------------------------------
(* Theorems.                                                               *)

LEMMA StartInvariant == Spec => []IInv
<1>1. ASSUME IInv, [Next]_vars PROVE IInv'
  <2>1. TypeOK'
    BY <1>1, TypeOKStep
  <2>2. ASSUME NEW r \in Requests,
               \/ RateLimited(r) \/ UnknownDocument(r) \/ OrderRefused(r)
               \/ KeyRefused(r) \/ HandlerDies(r)
        PROVE  Parts'
    <3>1. /\ handler[r] # "ended" /\ UNCHANGED <<Tables, key, fromHeader>>
          /\ \E answer \in {"refused", None} : End(r, answer)
      BY <2>2 DEF RateLimited, UnknownDocument, OrderRefused, KeyRefused, HandlerDies
    <3> QED BY <1>1, <3>1, AnswerStep
  <2>3. ASSUME NEW r \in Requests, AlreadyBought(r) PROVE Parts'
    <3>1. /\ handler[r] # "ended" /\ UNCHANGED <<Tables, key, fromHeader>>
          /\ End(r, analysisOf[OrderOf[r]]) /\ analysisOf[OrderOf[r]] # None
      BY <2>3 DEF AlreadyBought
    <3>2. OrderOf[r] \in Orders
      BY <2>3, OrderOfAssumption DEF AlreadyBought
    <3> QED BY <1>1, <3>1, <3>2, AnswerStep
  <2>4. Parts'
    BY <1>1, <2>2, <2>3, SurroundingsStep, CreateStep, EnqueueStep, DuplicateStep DEF Next
  <2> QED BY <2>1, <2>4 DEF IInv, Parts
<1> QED BY InitInv, <1>1, PTL DEF Spec

\* Type correctness of the tables and of every request's handler.
THEOREM StartTypeCorrect == Spec => []TypeOK
<1>1. IInv => TypeOK
  BY DEF IInv
<1> QED BY StartInvariant, <1>1, PTL

\* Where payments are required nothing is queued unpaid, no analysis is bought
\* by two orders and none is queued twice, whatever the clients' keys.
THEOREM RunsArePaidOnce == Spec => []EveryRunIsPaidOnce
<1>1. IInv => EveryRunIsPaidOnce
  <2> SUFFICES ASSUME IInv PROVE EveryRunIsPaidOnce
    OBVIOUS
  <2>1. ASSUME paymentsRequired, NEW r \in Jobs
        PROVE  \E o \in Orders : order[o] = "consumed" /\ analysisOf[o] = r /\ r \in audience
    <3>1. PICK k \in Keys : r = subject[k] /\ subject[k] # None
      BY DEF Jobs
    <3>2. Bought(r)
      BY <2>1, <3>1 DEF IInv, QueueInv
    <3> QED BY <3>2 DEF Bought
  <2>2. \A o, p \in Orders : (analysisOf[o] # None /\ analysisOf[o] = analysisOf[p]) => o = p
    BY DEF IInv, OrderInv
  <2>3. \A k, l \in Keys : (subject[k] # None /\ subject[k] = subject[l]) => k = l
    BY DEF IInv, QueueInv
  <2> QED BY <2>1, <2>2, <2>3 DEF EveryRunIsPaidOnce
<1> QED BY StartInvariant, <1>1, PTL

\* Every 202 names an analysis whose row was committed.
THEOREM AnswersAreReal == Spec => []AnswersNameRealAnalyses
<1>1. IInv => AnswersNameRealAnalyses
  BY DEF IInv
<1> QED BY StartInvariant, <1>1, PTL

\* A buyer without a key of their own is answered with what their order bought
\* (derived_for_order), whatever keys other requests send, short of the order's
\* derived key itself.
THEOREM BuyersGetTheirPurchase == Spec => []AnsweredWithPurchase
<1>1. IInv => AnsweredWithPurchase
  BY DEF IInv
<1> QED BY StartInvariant, <1>1, PTL

(****************************** the pipeline ******************************)

\* R orders S strictly and totally.
OrdersStrictly(R, S) ==
  /\ \A x \in S : <<x, x>> \notin R
  /\ \A x, y, z \in S : <<x, y>> \in R /\ <<y, z>> \in R => <<x, z>> \in R
  /\ \A x, y \in S : x # y => <<x, y>> \in R \/ <<y, x>> \in R

\* An element of a finite ordered set is known by how many come before it.
LEMMA RankedIsBijection ==
  ASSUME NEW S, IsFiniteSet(S), NEW R, OrdersStrictly(R, S)
  PROVE  /\ Cardinality(S) \in Nat
         /\ Ranked(S, R) \in Bijection(1..Cardinality(S), S)
<1> DEFINE N == Cardinality(S)
           Below(x) == {y \in S : <<y, x>> \in R}
           rank == [x \in S |-> Cardinality(Below(x)) + 1]
<1>1. N \in Nat
  BY FS_CardinalityType
<1>2. \A x \in S : IsFiniteSet(Below(x)) /\ Cardinality(Below(x)) \in Nat
  <2> TAKE x \in S
  <2>1. Below(x) \in SUBSET S
    OBVIOUS
  <2> HIDE DEF Below
  <2>2. IsFiniteSet(Below(x))
    BY <2>1, FS_Subset
  <2> QED BY <2>2, FS_CardinalityType
<1>3. \A x \in S : Cardinality(Below(x)) < N
  <2> TAKE x \in S
  <2>1. Below(x) \in SUBSET S /\ x \notin Below(x)
    BY DEF OrdersStrictly
  <2>2. /\ Cardinality(Below(x)) <= N
        /\ N = Cardinality(Below(x)) => S = Below(x)
    <3> HIDE DEF Below
    <3> QED BY <2>1, FS_Subset
  <2> HIDE DEF Below
  <2> QED BY <1>1, <1>2, <2>1, <2>2
<1>4. \A x, y \in S : <<x, y>> \in R => Cardinality(Below(x)) < Cardinality(Below(y))
  <2> SUFFICES ASSUME NEW x \in S, NEW y \in S, <<x, y>> \in R
               PROVE  Cardinality(Below(x)) < Cardinality(Below(y))
    OBVIOUS
  <2>1. Below(x) \in SUBSET Below(y) /\ x \in Below(y) /\ x \notin Below(x)
    BY DEF OrdersStrictly
  <2>2. /\ Cardinality(Below(x)) <= Cardinality(Below(y))
        /\ Cardinality(Below(y)) = Cardinality(Below(x)) => Below(y) = Below(x)
    <3> HIDE DEF Below
    <3> QED BY <1>2, <2>1, FS_Subset
  <2> HIDE DEF Below
  <2> QED BY <1>2, <2>1, <2>2
<1> HIDE DEF Below
<1>5. rank \in [S -> 1..N]
  BY <1>1, <1>2, <1>3
<1>6. \A x, y \in S : rank[x] = rank[y] => x = y
  <2> SUFFICES ASSUME NEW x \in S, NEW y \in S, rank[x] = rank[y], x # y
               PROVE  FALSE
    OBVIOUS
  <2>1. <<x, y>> \in R \/ <<y, x>> \in R
    BY DEF OrdersStrictly
  <2>2. Cardinality(Below(x)) = Cardinality(Below(y))
    BY <1>2
  <2> QED BY <1>2, <1>4, <2>1, <2>2
<1>7. rank \in Injection(S, 1..N)
  BY <1>5, <1>6 DEF Injection, IsInjective
<1>8. IsFiniteSet(1..N) /\ Cardinality(1..N) = N
  BY <1>1, FS_Interval
<1>9. rank \in Surjection(S, 1..N)
  BY <1>7, <1>8, FS_Injection
<1>10. \A n \in 1..N : \E x \in S : Cardinality(Below(x)) = n - 1
  <2> TAKE n \in 1..N
  <2>1. PICK x \in S : rank[x] = n
    BY <1>9 DEF Surjection
  <2> QED BY <1>1, <1>2, <2>1
<1>11. Ranked(S, R) = [n \in 1..N |-> CHOOSE x \in S : Cardinality(Below(x)) = n - 1]
  BY DEF Ranked, Below
<1>12. \A n \in 1..N : /\ Ranked(S, R)[n] \in S
                       /\ rank[Ranked(S, R)[n]] = n
  BY <1>1, <1>2, <1>10, <1>11
<1>13. Ranked(S, R) \in [1..N -> S]
  BY <1>11, <1>12
<1>14. \A x \in S : rank[x] \in 1..N /\ Ranked(S, R)[rank[x]] = x
  BY <1>5, <1>6, <1>12
<1> DEFINE f == Ranked(S, R)
<1>15. f \in [1..N -> S] /\ (\A n \in 1..N : rank[f[n]] = n)
       /\ (\A x \in S : rank[x] \in 1..N /\ f[rank[x]] = x)
  BY <1>12, <1>13, <1>14
<1> HIDE DEF rank, f
<1>16. f \in Injection(1..N, S)
  BY <1>15 DEF Injection, IsInjective
<1>17. f \in Surjection(1..N, S)
  BY <1>15 DEF Surjection
<1> QED BY <1>1, <1>16, <1>17 DEF Bijection, f

\* p says where in s each of the n elements of t comes from.
Draws(p, n, s, t) == t = [i \in 1..n |-> s[p[i]]]

\* What Picked keeps: each of the positions once, and nothing else.
LEMMA PickedPositions ==
  ASSUME NEW N \in Nat, NEW s, NEW I \in SUBSET (1..N)
  PROVE  /\ IsFiniteSet(I) /\ Cardinality(I) \in Nat
         /\ \E p \in Bijection(1..Cardinality(I), I) : Draws(p, Cardinality(I), s, Picked(s, I))
<1>1. IsFiniteSet(I)
  <2>1. IsFiniteSet(1..N)
    BY FS_Interval
  <2> QED BY <2>1, FS_Subset
<1>2. OrdersStrictly(Ascending(I), I)
  BY DEF OrdersStrictly, Ascending
<1> DEFINE p == Ranked(I, Ascending(I))
<1>3. Cardinality(I) \in Nat /\ p \in Bijection(1..Cardinality(I), I)
  BY <1>1, <1>2, RankedIsBijection
<1>4. DOMAIN p = 1..Cardinality(I)
  BY DEF Ranked
<1> QED BY <1>1, <1>3, <1>4 DEF Picked, Draws

\* ByPriority only rearranges.
LEMMA PrioritiesRearrange ==
  ASSUME NEW N \in Nat, NEW s, DOMAIN s = 1..N,
         \A i \in 1..N : s[i].priority.score \in Int
  PROVE  \E p \in Bijection(1..N, 1..N) : Draws(p, N, s, ByPriority(s))
<1> DEFINE score(i) == s[i].priority.score
           R == {p \in (1..N) \X (1..N) :
                   \/ score(p[1]) > score(p[2])
                   \/ score(p[1]) = score(p[2]) /\ p[1] < p[2]}
           line == Ranked(1..N, R)
<1>1. OrdersStrictly(R, 1..N)
  <2> HIDE DEF score
  <2>1. \A i \in 1..N : score(i) \in Int
    BY DEF score
  <2>2. \A i, j \in 1..N : <<i, j>> \in R <=> \/ score(i) > score(j)
                                              \/ score(i) = score(j) /\ i < j
    <3> TAKE i, j \in 1..N
    <3> DEFINE q == <<i, j>>
    <3>1. q \in (1..N) \X (1..N) /\ q[1] = i /\ q[2] = j
      OBVIOUS
    <3> HIDE DEF q
    <3>2. q \in R <=> \/ score(q[1]) > score(q[2])
                      \/ score(q[1]) = score(q[2]) /\ q[1] < q[2]
      BY <3>1
    <3> HIDE DEF R
    <3> QED BY <3>1, <3>2 DEF q
  <2> HIDE DEF R
  <2>3. \A i \in 1..N : <<i, i>> \notin R
    BY <2>1, <2>2
  <2>4. ASSUME NEW i \in 1..N, NEW j \in 1..N, NEW k \in 1..N,
               <<i, j>> \in R, <<j, k>> \in R
        PROVE  <<i, k>> \in R
    <3>1. score(i) \in Int /\ score(j) \in Int /\ score(k) \in Int
      BY <2>1
    <3> QED BY <2>2, <2>4, <3>1
  <2>5. ASSUME NEW i \in 1..N, NEW j \in 1..N, i # j
        PROVE  <<i, j>> \in R \/ <<j, i>> \in R
    <3>1. score(i) \in Int /\ score(j) \in Int
      BY <2>1
    <3>2. <<i, j>> \in R <=> score(i) > score(j) \/ (score(i) = score(j) /\ i < j)
      BY <2>2
    <3>3. <<j, i>> \in R <=> score(j) > score(i) \/ (score(j) = score(i) /\ j < i)
      BY <2>2
    <3> QED BY <2>5, <3>1, <3>2, <3>3
  <2> QED BY <2>3, <2>4, <2>5 DEF OrdersStrictly
<1>2. IsFiniteSet(1..N) /\ Cardinality(1..N) = N
  BY FS_Interval
<1>3. line \in Bijection(1..N, 1..N)
  <2> HIDE DEF R
  <2> QED BY <1>1, <1>2, RankedIsBijection
<1>4. ByPriority(s) = [n \in DOMAIN line |-> s[line[n]]]
  BY DEF ByPriority
<1>5. DOMAIN line = 1..N
  BY <1>2 DEF Ranked
<1> HIDE DEF line
<1> QED BY <1>3, <1>4, <1>5 DEF Draws

\* Filtering a sequence leaves a sequence of its elements, as long as the number
\* of positions kept.
LEMMA PickedIsSequence ==
  ASSUME NEW S, NEW s \in Seq(S), NEW I \in SUBSET (DOMAIN s)
  PROVE  /\ Cardinality(I) \in Nat
         /\ Picked(s, I) \in [1..Cardinality(I) -> S]
         /\ Picked(s, I) \in Seq(S)
         /\ Len(Picked(s, I)) = Cardinality(I)
<1> DEFINE N == Len(s)
<1>1. N \in Nat /\ DOMAIN s = 1..N /\ \A i \in 1..N : s[i] \in S
  OBVIOUS
<1>2. I \in SUBSET (1..N)
  BY <1>1
<1> HIDE DEF N
<1>3. Cardinality(I) \in Nat
  BY <1>1, <1>2, PickedPositions
<1>4. PICK p \in Bijection(1..Cardinality(I), I) : Draws(p, Cardinality(I), s, Picked(s, I))
  BY <1>1, <1>2, PickedPositions
<1>5. p \in [1..Cardinality(I) -> I]
  BY DEF Bijection, Injection
<1>6. Picked(s, I) \in [1..Cardinality(I) -> S]
  BY <1>1, <1>2, <1>4, <1>5 DEF Draws
<1> DEFINE kept == Picked(s, I)
           n == Cardinality(I)
<1>7. kept \in [1..n -> S] /\ n \in Nat
  BY <1>3, <1>6
<1> HIDE DEF kept, n
<1>8. kept \in Seq(S) /\ Len(kept) = n
  BY <1>7
<1> QED BY <1>3, <1>6, <1>8 DEF kept, n

LEMMA ShareIsInt ==
  ASSUME NEW n \in Int, NEW d \in Nat \ {0}
  PROVE  Share(n, d) \in Int
<1>1. LesserOf(n, d) \in Int
  BY DEF LesserOf
<1>2. 10000 * LesserOf(n, d) \in Int
  BY <1>1
<1> HIDE DEF LesserOf
<1> QED BY <1>2 DEF Share

\* A confidence that is actionable met no serious objection.
LEMMA ConfidenceFails ==
  ASSUME NEW f,
         f.document_evidence \in Int, f.rule_match \in Int, f.calculation_certainty \in Int,
         f.missing_information \in Int, f.contradiction_score \in Int, f.model_agreement \in Int
  PROVE  /\ Confidence(f).score \in Int
         /\ Actionable(Confidence(f)) => ~FailsClosed(f) /\ 2 * f.contradiction_score < Whole
<1> DEFINE weighted == f.document_evidence * Weights.document_evidence
                       + f.rule_match * Weights.rule_match
                       + f.calculation_certainty * Weights.calculation_certainty
                       + (Whole - f.missing_information) * Weights.information_completeness
                       + (Whole - f.contradiction_score) * Weights.consistency
                       + f.model_agreement * Weights.model_agreement
           average == (weighted + Whole \div 2) \div Whole
           score == IF FailsClosed(f) THEN LesserOf(average, InvestigateFrom - 1) ELSE average
<1>1. weighted \in Int
  BY DEF Weights, Whole
<1> HIDE DEF weighted
<1>2. average \in Int
  BY <1>1 DEF Whole
<1>3. Confidence(f) = [score |-> score, band |-> band_for(score)]
  BY DEF Confidence, weighted
<1> HIDE DEF average
<1>4. score \in Int /\ (FailsClosed(f) => score < 50)
  BY <1>2 DEF LesserOf, InvestigateFrom
<1> HIDE DEF score
<1>5. Actionable(Confidence(f)) => score >= 50
  BY <1>3, <1>4 DEF Actionable, band_for, InvestigateFrom
<1>6. ~FailsClosed(f) => 2 * f.contradiction_score < Whole
  BY DEF FailsClosed, Whole
<1> QED BY <1>3, <1>4, <1>5, <1>6

-----------------------------------------------------------------------------
(* Rules and their evaluations *)

\* An accepted rule set does not give two rules one id.
LEMMA IdsAreUnique ==
  /\ RuleSet \in Seq(ToSet(RuleSet))
  /\ \A i, j \in DOMAIN RuleSet : RuleSet[i].id = RuleSet[j].id => i = j
<1>1. ASSUME NEW j \in DOMAIN RuleSet, NEW k \in DOMAIN RuleSet,
             RuleSet[j].id = RuleSet[k].id, j # k
      PROVE  RuleSet[j].id \in RuleProblems
  BY <1>1 DEF RuleProblems
<1> QED BY <1>1, RuleSetAssumption

LEMMA RuleOfItsId ==
  ASSUME NEW rule \in ToSet(RuleSet)
  PROVE  RuleOf(rule.id) = rule
<1>1. \A r \in ToSet(RuleSet) : r.id = rule.id => r = rule
  BY IdsAreUnique DEF ToSet
<1> QED BY <1>1 DEF RuleOf

\* What an accepted rule cites, the registry knows.
LEMMA SourcesAreKnown ==
  ASSUME NEW rule \in ToSet(RuleSet)
  PROVE  ToSet(rule.sources) \subseteq DOMAIN Registry /\ rule.relevance \in 0..10
<1>1. PICK j \in DOMAIN RuleSet : rule = RuleSet[j]
  BY DEF ToSet
<1>2. RuleSet[j].id \notin RuleProblems
  BY RuleSetAssumption
<1> QED BY <1>1, <1>2 DEF RuleProblems

\* The rules in force in a year are rules of the set, each of them once.
LEMMA RulesInForce ==
  ASSUME NEW y
  PROVE  \E K \in Nat : /\ RulesOf(y) \in [1..K -> ToSet(RuleSet)]
                        /\ \A i, j \in 1..K : RulesOf(y)[i].id = RulesOf(y)[j].id => i = j
<1> DEFINE I == {i \in DOMAIN RuleSet : applies_to_tax_year(RuleSet[i], y)}
           N == Len(RuleSet)
<1>1. N \in Nat /\ DOMAIN RuleSet = 1..N
  BY IdsAreUnique
<1>2. I \in SUBSET (DOMAIN RuleSet) /\ I \in SUBSET (1..N) /\ RulesOf(y) = Picked(RuleSet, I)
  BY <1>1 DEF RulesOf
<1> HIDE DEF N, I
<1>3. Cardinality(I) \in Nat /\ RulesOf(y) \in [1..Cardinality(I) -> ToSet(RuleSet)]
  BY <1>2, IdsAreUnique, PickedIsSequence
<1>4. PICK p \in Bijection(1..Cardinality(I), I) : Draws(p, Cardinality(I), RuleSet, Picked(RuleSet, I))
  BY <1>1, <1>2, PickedPositions
<1>5. /\ p \in [1..Cardinality(I) -> I]
      /\ \A i, j \in 1..Cardinality(I) : p[i] = p[j] => i = j
  BY DEF Bijection, Injection, IsInjective
<1>6. \A i, j \in 1..Cardinality(I) : RulesOf(y)[i].id = RulesOf(y)[j].id => i = j
  BY <1>2, <1>4, <1>5, IdsAreUnique DEF Draws
<1> QED BY <1>3, <1>6

LEMMA NeedsAreSequences ==
  ASSUME NEW S, NEW s \in Seq(S)
  PROVE  Dedup(s) \in Seq(S)
<1>1. {i \in DOMAIN s : i = 1 \/ s[i - 1] # s[i]} \in SUBSET (DOMAIN s)
  OBVIOUS
<1> QED BY <1>1, PickedIsSequence DEF Dedup

LEMMA MissingIsSequence ==
  ASSUME NEW rule \in ToSet(RuleSet), NEW ctx
  PROVE  Len(missing_facts_for(rule, ctx)) \in Nat
<1>1. /\ rule.evidence \in Seq(ToSet(rule.evidence))
      /\ \/ rule.impact.kind = "none"
         \/ /\ rule.impact.kind = "range"
            /\ ExpressionNeeds(rule.impact.low) \in Seq(ToSet(ExpressionNeeds(rule.impact.low)))
            /\ ExpressionNeeds(rule.impact.high) \in Seq(ToSet(ExpressionNeeds(rule.impact.high)))
  BY RulesAssumption DEF IsSequence
<1> DEFINE S == ToSet(rule.evidence) \union ToSet(ExpressionNeeds(rule.impact.low))
                  \union ToSet(ExpressionNeeds(rule.impact.high))
<1>2. ImpactFacts(rule.impact) \in Seq(S)
  <2>1. CASE rule.impact.kind = "none"
    BY <2>1 DEF ImpactFacts
  <2>2. CASE rule.impact.kind = "range"
    <3> DEFINE low == ExpressionNeeds(rule.impact.low)
               high == ExpressionNeeds(rule.impact.high)
    <3>1. low \in Seq(S) /\ high \in Seq(S)
      <4>1. low \in Seq(ToSet(low)) /\ high \in Seq(ToSet(high))
        BY <1>1, <2>2
      <4>2. ToSet(low) \subseteq S /\ ToSet(high) \subseteq S
        OBVIOUS
      <4> HIDE DEF S, low, high
      <4> QED BY <4>1, <4>2
    <3> HIDE DEF S
    <3>2. low \o high \in Seq(S)
      BY <3>1
    <3>3. ImpactFacts(rule.impact) = Dedup(low \o high)
      BY <2>2 DEF ImpactFacts
    <3> HIDE DEF low, high
    <3> QED BY <3>2, <3>3, NeedsAreSequences
  <2> QED BY <1>1, <2>1, <2>2
<1>3. rule.evidence \in Seq(S)
  <2> DEFINE all == rule.evidence
  <2>1. all \in Seq(ToSet(all)) /\ ToSet(all) \subseteq S
    BY <1>1
  <2> HIDE DEF S, all
  <2>2. all \in Seq(S)
    BY <2>1
  <2> QED BY <2>2 DEF all
<1> HIDE DEF S
<1> DEFINE kinds == Dedup(ImpactFacts(rule.impact) \o rule.evidence)
           I == {i \in DOMAIN kinds : kinds[i] \notin Kinds(ctx.facts)}
<1>4. kinds \in Seq(S)
  <2>1. ImpactFacts(rule.impact) \o rule.evidence \in Seq(S)
    BY <1>2, <1>3
  <2> QED BY <2>1, NeedsAreSequences
<1>5. missing_facts_for(rule, ctx) = Picked(kinds, I)
  BY DEF missing_facts_for, missing_among
<1>6. I \in SUBSET (DOMAIN kinds)
  OBVIOUS
<1> HIDE DEF kinds, I
<1> QED BY <1>4, <1>5, <1>6, PickedIsSequence

\* What the run reads: the context of an analysis whose year is covered.
Running(in, ctx) ==
  /\ in \in Inputs /\ covers_tax_year(in.year)
  /\ ctx = Context(in, build_fact_set(in.documents))

\* An evaluation names its rule; its figure is a pair of amounts and its gaps
\* can be counted.
LEMMA EvaluationShape ==
  ASSUME NEW in, NEW ctx, Running(in, ctx), NEW rule \in ToSet(RuleSet)
  PROVE  LET e == evaluate(rule, ctx) IN
         /\ e.id = rule.id /\ e.title = rule.title /\ e.category = rule.category
         /\ e.outcome = OutcomeOf(rule, ctx)
         /\ e.impact.low \in Int /\ e.impact.high \in Int
         /\ e.calculated \/ e.impact = ZeroRange
         /\ Len(e.missing) \in Nat /\ Len(e.questions) \in Nat
<1> DEFINE e == evaluate(rule, ctx)
           amount == compute_impact(rule, ctx)
           outcome == OutcomeOf(rule, ctx)
           ended == \/ produces_finding(outcome)
                    \/ outcome = "rule_error" /\ check_resolvable(rule, ctx.constants)
           low == ExpressionAmount(rule.impact.low, ctx)
           high == ExpressionAmount(rule.impact.high, ctx)
<1>1. /\ e.id = rule.id /\ e.title = rule.title /\ e.category = rule.category
      /\ e.outcome = outcome
      /\ e.impact = IF ended /\ rule.impact.kind = "range" /\ amount.ok
                      THEN amount.v ELSE ZeroRange
      /\ e.calculated \/ e.impact = ZeroRange
      /\ e.missing = IF ended THEN missing_facts_for(rule, ctx) ELSE <<>>
      /\ e.questions = IF ended THEN ConditionQuestions(rule.conditions, ctx) ELSE <<>>
  BY DEF evaluate
<1>2. /\ ConditionQuestions(rule.conditions, ctx) \in Seq(ToSet(ConditionQuestions(rule.conditions, ctx)))
      /\ rule.impact.kind = "range" => IsAmount(low) /\ IsAmount(high)
  BY LanguageAssumption DEF Running, IsSequence
<1>3. rule.impact.kind = "range" /\ amount.ok => amount.v.low \in Int /\ amount.v.high \in Int
  <2> SUFFICES ASSUME rule.impact.kind = "range", amount.ok
               PROVE  amount.v.low \in Int /\ amount.v.high \in Int
    OBVIOUS
  <2>1. IsAmount(low) /\ IsAmount(high)
    BY <1>2
  <2>2. amount = IF ~low.ok THEN low ELSE IF ~high.ok THEN high ELSE Ok(RangeOf(low.v, high.v))
    BY DEF compute_impact, Both
  <2> HIDE DEF low, high, amount
  <2>3. amount.v = RangeOf(low.v, high.v) /\ low.v \in Int /\ high.v \in Int
    BY <2>1, <2>2 DEF IsAmount, Ok
  <2> QED BY <2>3 DEF RangeOf, LesserOf, GreaterOf
<1> HIDE DEF e, amount, ended
<1>4. e.impact.low \in Int /\ e.impact.high \in Int
  BY <1>1, <1>3 DEF ZeroRange
<1>5. Len(e.missing) \in Nat
  BY <1>1, MissingIsSequence
<1>6. Len(e.questions) \in Nat
  <2> DEFINE asked == ConditionQuestions(rule.conditions, ctx)
  <2>1. asked \in Seq(ToSet(asked))
    BY <1>2
  <2>2. Len(asked) \in Nat
    <3> HIDE DEF asked
    <3> QED BY <2>1
  <2> QED BY <1>1, <2>2
<1> QED BY <1>1, <1>4, <1>5, <1>6 DEF e

-----------------------------------------------------------------------------
(* What one finding says *)

VerdictsKnown == \A title \in DOMAIN verdicts : verdicts[title] \in Verdicts

LEMMA ObjectionIsNat ==
  ASSUME VerdictsKnown, NEW title
  PROVE  Objection(title) \in Nat
BY AnswersAssumption DEF VerdictsKnown, Objection

LEMMA MidpointIsInt ==
  ASSUME NEW r, r.low \in Int, r.high \in Int
  PROVE  Midpoint(r) \in Int
<1>1. Saturated(r.low + r.high) \in Int
  BY MaxOreAssumption DEF Saturated
<1>2. ASSUME NEW n \in Int
      PROVE  Wrapped(n) \in Int /\ Quotient(n, 2) \in Int
  <2>1. 2 * (MaxOre + 1) \in Nat \ {0} /\ n + MaxOre + 1 \in Int
    BY MaxOreAssumption
  <2>2. (n + MaxOre + 1) % (2 * (MaxOre + 1)) \in Int
    BY <2>1
  <2> QED BY <2>2, MaxOreAssumption DEF Wrapped, Quotient
<1>3. ASSUME NEW n \in Int
      PROVE  div_round_half_away(n, 2) \in Int
  <2>1. n + 2 \div 2 \in Int /\ n - 2 \div 2 \in Int
    OBVIOUS
  <2>2. Wrapped(n + 2 \div 2) \in Int /\ Wrapped(n - 2 \div 2) \in Int
    BY <1>2, <2>1
  <2>3. /\ Quotient(Wrapped(n + 2 \div 2), 2) \in Int
        /\ Quotient(Wrapped(n - 2 \div 2), 2) \in Int
    BY <1>2, <2>2
  <2> QED BY <2>3 DEF div_round_half_away
<1> QED BY <1>1, <1>3 DEF Midpoint

LEMMA PriorityIsInt ==
  ASSUME NEW impact, impact.low \in Int, impact.high \in Int,
         NEW confidence, confidence.score \in Int,
         NEW effort \in DOMAIN Divisor, NEW urgency \in DOMAIN Multiplier,
         NEW risk \in DOMAIN RiskTerm, NEW relevance \in 0..10
  PROVE  /\ compute_priority(impact, confidence, effort, urgency, relevance).score \in Int
         /\ compute_risk_priority(confidence, risk).score \in Int
<1> DEFINE magnitude == GreaterOf(Midpoint(impact), -Midpoint(impact))
           economic == (1000 * LesserOf(magnitude, EconomicReference)) \div EconomicReference
           raw == (economic * confidence.score * relevance * Multiplier[urgency] * 10)
                  \div Divisor[effort]
<1>1. Midpoint(impact) \in Int
  BY MidpointIsInt
<1>2. LesserOf(magnitude, EconomicReference) \in Int
  BY <1>1, EconomicReferenceAssumption DEF LesserOf, GreaterOf
<1>3. economic \in Int
  <2> DEFINE top == 1000 * LesserOf(magnitude, EconomicReference)
  <2>1. top \in Int
    BY <1>2
  <2> HIDE DEF top
  <2>2. top \div EconomicReference \in Int
    BY <2>1, EconomicReferenceAssumption
  <2> QED BY <2>2 DEF top
<1> HIDE DEF economic, magnitude
<1>4. Multiplier[urgency] \in Int /\ Divisor[effort] \in Nat \ {0} /\ RiskTerm[risk] \in Int
  BY DEF Multiplier, Divisor, RiskTerm
<1>5. raw \in Int
  <2>1. economic * confidence.score \in Int
    BY <1>3
  <2>2. economic * confidence.score * relevance \in Int
    BY <2>1
  <2>3. economic * confidence.score * relevance * Multiplier[urgency] \in Int
    BY <2>2, <1>4
  <2>4. economic * confidence.score * relevance * Multiplier[urgency] * 10 \in Int
    BY <2>3
  <2> DEFINE top == economic * confidence.score * relevance * Multiplier[urgency] * 10
             bottom == Divisor[effort]
  <2>5. top \in Int /\ bottom \in Nat \ {0}
    BY <2>4, <1>4
  <2> HIDE DEF top, bottom
  <2>6. top \div bottom \in Int
    BY <2>5
  <2> QED BY <2>6 DEF top, bottom
<1>6. compute_priority(impact, confidence, effort, urgency, relevance).score = LesserOf(raw, One)
  BY DEF compute_priority, economic, magnitude
<1> HIDE DEF raw
<1>7. compute_priority(impact, confidence, effort, urgency, relevance).score \in Int
  BY <1>5, <1>6 DEF LesserOf, One
<1>8. compute_risk_priority(confidence, risk).score \in Int
  <2>1. confidence.score * RiskTerm[risk] \in Int
    BY <1>4
  <2>2. confidence.score * RiskTerm[risk] * 10000 \in Int
    BY <2>1
  <2> QED BY <2>2 DEF compute_risk_priority
<1> QED BY <1>7, <1>8

\* The standing of a rule's sources is verified only if every one of them is,
\* and a mismatch of one of them is the standing of all.
LEMMA CombineSaysWhat ==
  ASSUME NEW states, states \subseteq ToSet(SourceStates), states # {}
  PROVE  /\ combine(states) = "verified" => \A s \in states : s = "verified"
         /\ "mismatch" \in states => combine(states) = "mismatch"
<1>1. "mismatch" \in states => combine(states) = "mismatch"
  BY DEF combine
<1>2. ASSUME combine(states) = "verified"
      PROVE  \A s \in states : s = "verified"
  <2> DEFINE weakest(i) == /\ SourceStates[i] \in states
                           /\ \A s \in states : \E j \in i..4 : SourceStates[j] = s
  <2>1. DOMAIN SourceStates = 1..4
    BY DEF SourceStates
  <2>2. "mismatch" \notin states
    BY <1>1, <1>2
  <2>3. \A s \in states : \E i \in 1..4 : SourceStates[i] = s
    BY <2>1 DEF ToSet
  <2>4. \E i \in 1..4 : weakest(i)
    <3>1. CASE SourceStates[1] \in states
      BY <2>3, <3>1
    <3>2. CASE SourceStates[1] \notin states /\ SourceStates[2] \in states
      <4>1. \A s \in states : \E j \in 2..4 : SourceStates[j] = s
        BY <2>3, <3>2
      <4> QED BY <3>2, <4>1
    <3>3. CASE SourceStates[1] \notin states /\ SourceStates[2] \notin states
               /\ SourceStates[3] \in states
      <4>1. \A s \in states : \E j \in 3..4 : SourceStates[j] = s
        BY <2>3, <3>3
      <4> QED BY <3>3, <4>1
    <3>4. CASE SourceStates[1] \notin states /\ SourceStates[2] \notin states
               /\ SourceStates[3] \notin states
      <4>1. \A s \in states : \E j \in 4..4 : SourceStates[j] = s
        BY <2>3, <3>4
      <4>2. SourceStates[4] \in states
        BY <4>1
      <4> QED BY <4>1, <4>2
    <3> QED BY <3>1, <3>2, <3>3, <3>4
  <2> DEFINE i == CHOOSE n \in 1..4 : weakest(n)
  <2>5. i \in 1..4 /\ weakest(i)
    BY <2>4
  <2>6. SourceStates[i] = "verified"
    BY <1>2, <2>1, <2>2 DEF combine
  <2> HIDE DEF i
  <2>7. i = 4
    BY <2>5, <2>6 DEF SourceStates
  <2>8. \A s \in states : SourceStates[4] = s
    BY <2>5, <2>7
  <2> QED BY <2>6, <2>7, <2>8
<1> QED BY <1>1, <1>2

\* A rule that speaks: its evaluation in the run's context.
Evaluated(rule, e) ==
  /\ Running(input, Context(input, facts))
  /\ rule \in ToSet(RuleSet) /\ applies_to_tax_year(rule, input.year)
  /\ e = evaluate(rule, Context(input, facts))

LEMMA FactorsAreInts ==
  ASSUME VerdictsKnown, NEW rule, NEW e, Evaluated(rule, e)
  PROVE  LET f == RuleFactors(rule, e) IN
         /\ f.document_evidence \in Int /\ f.rule_match \in Int /\ f.calculation_certainty \in Int
         /\ f.missing_information \in Int /\ f.model_agreement \in Int
         /\ f.contradiction_score = Objection(e.title) /\ f.contradiction_score \in Int
         /\ referenced_facts(rule) = {} => f.document_evidence = 0
<1> DEFINE needed == Cardinality(referenced_facts(rule))
           traceable == Cardinality(referenced_facts(rule) \intersect Kinds(facts))
           missing == Len(e.missing)
           asked == Len(e.questions)
           gaps == missing + asked
           most == GreaterOf(needed, 1) + asked
           f == RuleFactors(rule, e)
<1>1. needed \in Nat /\ traceable \in Nat
  <2>1. IsFiniteSet(referenced_facts(rule))
    BY RulesAssumption DEF Evaluated
  <2>2. IsFiniteSet(referenced_facts(rule) \intersect Kinds(facts))
    BY <2>1, FS_Intersection
  <2> QED BY <2>1, <2>2, FS_CardinalityType
<1>2. missing \in Nat /\ asked \in Nat
  BY EvaluationShape DEF Evaluated
<1>3. /\ f.document_evidence = IF needed = 0 THEN 0 ELSE Share(traceable, needed)
      /\ f.rule_match \in {Whole, 4000} /\ f.calculation_certainty \in {Whole, 7000, 2000}
      /\ f.missing_information = Share(gaps, most)
      /\ f.contradiction_score = Objection(e.title) /\ f.model_agreement \in {Whole, 5000}
  BY DEF RuleFactors
<1> HIDE DEF needed, traceable, missing, asked, f
<1>4. gaps \in Nat /\ most \in Nat \ {0}
  BY <1>1, <1>2 DEF GreaterOf
<1> HIDE DEF gaps, most
<1>5. Share(gaps, most) \in Int
  BY <1>4, ShareIsInt
<1>6. needed # 0 => Share(traceable, needed) \in Int
  BY <1>1, ShareIsInt
<1>7. Objection(e.title) \in Nat
  BY ObjectionIsNat
<1>8. referenced_facts(rule) = {} => needed = 0
  BY FS_EmptySet DEF needed
<1> QED BY <1>3, <1>5, <1>6, <1>7, <1>8 DEF Whole, f

\* The rule's finding is rejected exactly when its title was refuted, and
\* identified only through every gate.
LEMMA RuleFinding ==
  ASSUME VerdictsKnown, NEW rule, NEW e, Evaluated(rule, e)
  PROVE  LET o == build_rule_opportunity(rule, e) IN
         /\ o.rules = {rule.id} /\ o.title = rule.title
         /\ o.priority.score \in Int
         /\ o.status = "rejected" <=> Refuted(o.title)
         /\ o.status = "identified" =>
              /\ e.outcome # "indeterminate"
              /\ \A s \in ToSet(rule.sources) : LiveState(s) # "mismatch"
              /\ rule.reviewed \/ ~RequireReviewed
                   \/ (AcceptVerified /\ \A s \in ToSet(rule.sources) : LiveState(s) = "verified")
              /\ 2 * Objection(o.title) < Whole
              /\ \E k \in referenced_facts(rule) : k \in Kinds(facts)
<1> DEFINE evidence == RuleEvidence(rule, e)
           factors == RuleFactors(rule, e)
           confidence == Confidence(factors)
           o == build_rule_opportunity(rule, e)
           risky == compute_risk_priority(confidence, rule.risk)
           worth == compute_priority(e.impact, confidence, rule.effort, rule.urgency, rule.relevance)
<1>1. /\ o.rules = {rule.id} /\ o.title = rule.title
      /\ o.status = status_for(rule, e, evidence, confidence)
      /\ o.priority \in {risky, worth}
  BY DEF build_rule_opportunity
<1>2. e.title = rule.title /\ e.impact.low \in Int /\ e.impact.high \in Int
  BY EvaluationShape DEF Evaluated
<1>3. /\ confidence.score \in Int
      /\ Actionable(confidence) => 2 * Objection(e.title) < Whole
  BY FactorsAreInts, ConfidenceFails
<1>4. o.priority.score \in Int
  <2>1. /\ rule.effort \in DOMAIN Divisor /\ rule.urgency \in DOMAIN Multiplier
        /\ rule.risk \in DOMAIN RiskTerm
    BY RulesAssumption DEF Evaluated
  <2>2. rule.relevance \in 0..10
    BY SourcesAreKnown DEF Evaluated
  <2> HIDE DEF confidence
  <2>3. risky.score \in Int /\ worth.score \in Int
    BY <1>2, <1>3, <2>1, <2>2, PriorityIsInt
  <2> HIDE DEF o, risky, worth
  <2> QED BY <1>1, <2>3
<1>5. o.status = "rejected" <=> Refuted(o.title)
  <2> HIDE DEF o, evidence, confidence
  <2> QED BY <1>1, <1>2 DEF status_for
<1>6. ASSUME o.status = "identified"
      PROVE  /\ e.outcome # "indeterminate"
             /\ \A s \in ToSet(rule.sources) : LiveState(s) # "mismatch"
             /\ rule.reviewed \/ ~RequireReviewed
                  \/ (AcceptVerified /\ \A s \in ToSet(rule.sources) : LiveState(s) = "verified")
             /\ 2 * Objection(o.title) < Whole
             /\ \E k \in referenced_facts(rule) : k \in Kinds(facts)
  <2> DEFINE standing == source_state_of(rule)
             states == {LiveState(s) : s \in ToSet(rule.sources)}
  <2>1. /\ e.outcome # "indeterminate"
        /\ validate_actionable(evidence) /\ Actionable(confidence)
        /\ standing # "mismatch"
        /\ ~RequireReviewed \/ rule.reviewed \/ (AcceptVerified /\ standing = "verified")
    <3> HIDE DEF o, evidence, confidence, standing
    <3> QED BY <1>1, <1>6 DEF status_for, standing
  <2>2. \A s \in ToSet(rule.sources) : LiveState(s) \in ToSet(SourceStates)
    <3>1. ToSet(rule.sources) \subseteq DOMAIN Registry
      BY SourcesAreKnown DEF Evaluated
    <3>2. input \in Inputs
      BY DEF Evaluated, Running
    <3> QED BY <3>1, <3>2, SourcesAssumption DEF LiveState, Has
  <2>3. CASE states = {}
    <3>1. ToSet(rule.sources) = {}
      BY <2>3
    <3> QED BY <1>2, <1>1, <1>3, <2>1, <2>3, <3>1 DEF validate_actionable, has_document_anchor,
              RuleEvidence, Item
  <2>4. CASE states # {}
    <3>1. /\ standing = "verified" => \A s \in states : s = "verified"
          /\ "mismatch" \in states => standing = "mismatch"
      <4>1. states \subseteq ToSet(SourceStates)
        BY <2>2
      <4>2. standing = combine(states)
        BY DEF source_state_of
      <4> HIDE DEF states, standing
      <4> QED BY <2>4, <4>1, <4>2, CombineSaysWhat
    <3>2. \A s \in ToSet(rule.sources) : LiveState(s) \in states
      OBVIOUS
    <3>3. PICK item \in evidence : item.type = "document_value"
      BY <2>1 DEF validate_actionable, has_document_anchor
    <3>4. \E k \in referenced_facts(rule) : k \in Kinds(facts)
      BY <3>3 DEF RuleEvidence, Item
    <3> HIDE DEF states, standing, o, evidence, confidence
    <3> QED BY <1>1, <1>2, <1>3, <2>1, <3>1, <3>2, <3>4
  <2> QED BY <2>3, <2>4
<1> HIDE DEF o, evidence, confidence
<1> QED BY <1>1, <1>2, <1>4, <1>5, <1>6 DEF o

\* A candidate's finding names no rule and is rejected or worth a look.
LEMMA CandidateFinding ==
  ASSUME VerdictsKnown, NEW c, IsFiniteSet(c.supports)
  PROVE  LET o == build_candidate_opportunity(c) IN
         /\ o.rules = {} /\ o.title = c.title
         /\ o.priority.score \in Int
         /\ o.status = "rejected" <=> Refuted(o.title)
         /\ o.status # "identified"
<1> DEFINE anchored == c.supports \intersect Kinds(facts)
           factors == [document_evidence |-> Share(Cardinality(anchored),
                                                   GreaterOf(Cardinality(c.supports), 1)),
                       rule_match |-> 0, calculation_certainty |-> 0,
                       missing_information |-> IF c.missing = {} THEN 4000 ELSE 8000,
                       contradiction_score |-> Objection(c.title), model_agreement |-> Whole]
           confidence == Confidence(factors)
           o == build_candidate_opportunity(c)
<1>1. /\ o.rules = {} /\ o.title = c.title
      /\ o.status = IF Refuted(c.title) THEN "rejected" ELSE "investigate"
      /\ o.priority = compute_risk_priority(confidence, "low")
  BY DEF build_candidate_opportunity
<1>2. Cardinality(anchored) \in Nat /\ Cardinality(c.supports) \in Nat
  <2>1. IsFiniteSet(anchored)
    BY FS_Intersection
  <2> QED BY <2>1, FS_CardinalityType
<1>3. Share(Cardinality(anchored), GreaterOf(Cardinality(c.supports), 1)) \in Int
  <2>1. GreaterOf(Cardinality(c.supports), 1) \in Nat \ {0}
    BY <1>2 DEF GreaterOf
  <2> HIDE DEF anchored
  <2> QED BY <1>2, <2>1, ShareIsInt
<1>4. Objection(c.title) \in Nat
  BY ObjectionIsNat
<1> HIDE DEF anchored
<1>5. /\ factors.document_evidence \in Int /\ factors.rule_match \in Int
      /\ factors.calculation_certainty \in Int /\ factors.missing_information \in Int
      /\ factors.contradiction_score \in Int /\ factors.model_agreement \in Int
  BY <1>3, <1>4 DEF Whole
<1> HIDE DEF factors
<1>6. confidence.score \in Int
  BY <1>5, ConfidenceFails
<1> HIDE DEF confidence
<1>7. o.priority.score \in Int
  <2>1. confidence.score * 30 * 10000 \in Int
    BY <1>6
  <2> QED BY <1>1, <2>1 DEF compute_risk_priority, RiskTerm
<1> HIDE DEF o
<1> QED BY <1>1, <1>7 DEF o

-----------------------------------------------------------------------------
(* The lists of the result *)

\* Two draws that share nothing, one after the other, are a draw of both.
Joined(p, A, r, B) == [n \in 1..(A + B) |-> IF n <= A THEN p[n] ELSE r[n - A]]

LEMMA DrawsJoin ==
  ASSUME NEW A \in Nat, NEW B \in Nat, NEW I, NEW J, I \intersect J = {},
         NEW p \in Bijection(1..A, I), NEW r \in Bijection(1..B, J)
  PROVE  Joined(p, A, r, B) \in Bijection(1..(A + B), I \union J)
<1> DEFINE q == Joined(p, A, r, B)
<1>0. q = [n \in 1..(A + B) |-> IF n <= A THEN p[n] ELSE r[n - A]]
  BY DEF Joined
<1> HIDE DEF q
<1>1. /\ p \in [1..A -> I] /\ \A i, j \in 1..A : p[i] = p[j] => i = j
      /\ \A x \in I : \E i \in 1..A : p[i] = x
  BY DEF Bijection, Injection, Surjection, IsInjective
<1>2. /\ r \in [1..B -> J] /\ \A i, j \in 1..B : r[i] = r[j] => i = j
      /\ \A x \in J : \E i \in 1..B : r[i] = x
  BY DEF Bijection, Injection, Surjection, IsInjective
<1>3. /\ DOMAIN q = 1..(A + B)
      /\ \A n \in 1..A : n \in 1..(A + B) /\ q[n] = p[n] /\ p[n] \in I
      /\ \A n \in 1..B : A + n \in 1..(A + B) /\ q[A + n] = r[n] /\ r[n] \in J
      /\ \A n \in 1..(A + B) : n \in 1..A \/ \E m \in 1..B : n = A + m
  <2>1. \A n \in 1..A : n \in 1..(A + B) /\ q[n] = p[n] /\ p[n] \in I
    BY <1>0, <1>1
  <2>2. \A n \in 1..B : A + n \in 1..(A + B) /\ q[A + n] = r[n] /\ r[n] \in J
    <3> TAKE n \in 1..B
    <3>1. A + n \in 1..(A + B) /\ ~(A + n <= A) /\ (A + n) - A = n
      OBVIOUS
    <3> QED BY <1>0, <1>2, <3>1
  <2>3. \A n \in 1..(A + B) : n \in 1..A \/ \E m \in 1..B : n = A + m
    <3> TAKE n \in 1..(A + B)
    <3>1. CASE n <= A
      BY <3>1
    <3>2. CASE ~(n <= A)
      <4>1. n - A \in 1..B /\ n = A + (n - A)
        BY <3>2
      <4> QED BY <4>1
    <3> QED BY <3>1, <3>2
  <2>4. DOMAIN q = 1..(A + B)
    BY <1>0
  <2> QED BY <2>1, <2>2, <2>3, <2>4
<1>4. q \in [1..(A + B) -> I \union J]
  <2>1. \A n \in 1..(A + B) : q[n] \in I \union J
    BY <1>3
  <2>2. q = [n \in 1..(A + B) |-> q[n]]
    BY <1>0, <1>3
  <2> QED BY <2>1, <2>2
<1>5. ASSUME NEW i \in 1..(A + B), NEW j \in 1..(A + B), q[i] = q[j]
      PROVE  i = j
  <2>1. CASE i \in 1..A
    <3>1. q[i] \in I /\ q[i] = p[i]
      BY <1>3, <2>1
    <3>2. j \in 1..A
      <4>1. ASSUME NEW m \in 1..B, j = A + m PROVE FALSE
        BY <1>3, <1>5, <3>1, <4>1
      <4> QED BY <1>3, <4>1
    <3> QED BY <1>1, <1>3, <1>5, <2>1, <3>2
  <2>2. CASE i \notin 1..A
    <3>1. PICK m \in 1..B : i = A + m
      BY <1>3, <2>2
    <3>2. q[i] = r[m] /\ q[i] \in J
      BY <1>3, <3>1
    <3>3. j \notin 1..A
      BY <1>3, <1>5, <3>2
    <3>4. PICK k \in 1..B : j = A + k
      BY <1>3, <3>3
    <3>5. r[m] = r[k]
      BY <1>3, <1>5, <3>1, <3>2, <3>4
    <3>6. m = k
      BY <1>2, <3>5
    <3> QED BY <3>1, <3>4, <3>6
  <2> QED BY <2>1, <2>2
<1>6. \A x \in I \union J : \E n \in 1..(A + B) : q[n] = x
  BY <1>1, <1>2, <1>3
<1> QED BY <1>4, <1>5, <1>6 DEF Bijection, Injection, Surjection, IsInjective, q

\* The presented findings and the rejected ones are, together, the findings:
\* each of them once, the rejected ones last.
LEMMA PresentedThenRejected ==
  ASSUME NEW N \in Nat, NEW S, NEW s \in [1..N -> S],
         \A i \in 1..N : s[i].priority.score \in Int
  PROVE  LET shown == ByPriority(Presented(s))
             all == shown \o Rejected(s) IN
         /\ Len(shown) \in 0..N /\ DOMAIN shown = 1..Len(shown)
         /\ \E q \in Bijection(1..N, 1..N) :
              /\ Draws(q, N, s, all)
              /\ \A n \in DOMAIN shown : shown[n] = s[q[n]]
              /\ \A n \in 1..N : n <= Len(shown) <=> is_presented(s[q[n]])
<1> DEFINE I == {i \in DOMAIN s : is_presented(s[i])}
           J == {i \in DOMAIN s : ~is_presented(s[i])}
           A == Cardinality(I)
           B == Cardinality(J)
           shown == ByPriority(Presented(s))
           rest == Rejected(s)
<1>1. I \in SUBSET (1..N) /\ J \in SUBSET (1..N) /\ I \intersect J = {} /\ I \union J = 1..N
  OBVIOUS
<1>2. \A i \in 1..N : (i \in I <=> is_presented(s[i])) /\ (i \in J <=> ~is_presented(s[i]))
  OBVIOUS
<1>3. Presented(s) = Picked(s, I) /\ Rejected(s) = Picked(s, J)
  BY DEF Presented, Rejected
<1> HIDE DEF I, J
<1>4. A \in Nat /\ B \in Nat /\ A + B = N
  <2>1. IsFiniteSet(I) /\ IsFiniteSet(J)
    BY <1>1, PickedPositions
  <2>2. Cardinality(I \union J) = Cardinality(I) + Cardinality(J)
    <3>1. Cardinality(I \intersect J) = 0
      BY <1>1, FS_EmptySet
    <3>2. Cardinality(I) \in Nat /\ Cardinality(J) \in Nat
      BY <2>1, FS_CardinalityType
    <3>3. Cardinality(I \union J) = Cardinality(I) + Cardinality(J) - Cardinality(I \intersect J)
      BY <2>1, FS_Union
    <3> QED BY <3>1, <3>2, <3>3
  <2>3. Cardinality(1..N) = N
    BY FS_Interval
  <2> QED BY <1>1, <2>1, <2>2, <2>3, FS_CardinalityType
<1>5. PICK p \in Bijection(1..A, I) : Draws(p, A, s, Presented(s))
  <2>1. \E p \in Bijection(1..A, I) : Draws(p, A, s, Picked(s, I))
    BY <1>1, PickedPositions
  <2> QED BY <1>3, <2>1
<1>6. PICK r \in Bijection(1..B, J) : Draws(r, B, s, rest)
  <2>1. \E r \in Bijection(1..B, J) : Draws(r, B, s, Picked(s, J))
    BY <1>1, PickedPositions
  <2> QED BY <1>3, <2>1
<1> HIDE DEF A, B
<1>7. p \in [1..A -> I] /\ r \in [1..B -> J]
  BY DEF Bijection, Injection
<1>8. /\ DOMAIN Presented(s) = 1..A
      /\ \A n \in 1..A : Presented(s)[n] = s[p[n]] /\ Presented(s)[n].priority.score \in Int
  BY <1>1, <1>5, <1>7 DEF Draws
<1>9. PICK o \in Bijection(1..A, 1..A) : Draws(o, A, Presented(s), shown)
  BY <1>4, <1>8, PrioritiesRearrange
<1>10. o \in [1..A -> 1..A]
  BY DEF Bijection, Injection
<1> DEFINE po == [n \in 1..A |-> p[o[n]]]
           q == Joined(po, A, r, B)
<1>11. po \in Bijection(1..A, I)
  <2>1. \A i, j \in 1..A : po[i] = po[j] => i = j
    BY <1>7, <1>10 DEF Bijection, Injection, IsInjective
  <2>2. \A x \in I : \E n \in 1..A : po[n] = x
    BY <1>10 DEF Bijection, Surjection
  <2>3. po \in [1..A -> I]
    BY <1>7, <1>10
  <2> HIDE DEF po
  <2> QED BY <2>1, <2>2, <2>3 DEF Bijection, Injection, Surjection, IsInjective
<1>12. po \in [1..A -> I] /\ \A n \in 1..A : shown[n] = s[po[n]]
  BY <1>7, <1>8, <1>9, <1>10 DEF Draws
<1>13. shown \in [1..A -> S] /\ rest \in [1..B -> S]
  BY <1>1, <1>6, <1>7, <1>8, <1>9, <1>10 DEF Draws
<1> HIDE DEF po, q, shown, rest
<1>14. q \in Bijection(1..N, 1..N) /\ \A n \in 1..N : q[n] = IF n <= A THEN po[n] ELSE r[n - A]
  <2>1. q \in Bijection(1..(A + B), I \union J)
    BY <1>1, <1>4, <1>11, DrawsJoin DEF q
  <2> QED BY <1>1, <1>4, <2>1 DEF Joined, q
<1>15. /\ shown \in Seq(S) /\ Len(shown) = A
       /\ shown \o rest \in [1..N -> S]
       /\ \A n \in 1..N : (shown \o rest)[n] = IF n <= A THEN shown[n] ELSE rest[n - A]
  <2>1. shown \in Seq(S) /\ Len(shown) = A
    BY <1>4, <1>13
  <2>2. rest \in Seq(S) /\ Len(rest) = B
    BY <1>4, <1>13
  <2>3. shown \o rest \in Seq(S) /\ Len(shown \o rest) = Len(shown) + Len(rest)
    BY <2>1, <2>2, ConcatProperties
  <2>4. \A n \in 1..N : (shown \o rest)[n] = IF n <= A THEN shown[n] ELSE rest[n - A]
    BY <1>4, <2>1, <2>2, ConcatProperties
  <2>5. shown \o rest \in [1..N -> S]
    <3> DEFINE all == shown \o rest
    <3>1. all \in Seq(S) /\ Len(all) = N
      BY <1>4, <2>1, <2>2, <2>3
    <3> HIDE DEF all
    <3>2. all \in [1..N -> S]
      BY <3>1
    <3> QED BY <3>2 DEF all
  <2> QED BY <2>1, <2>4, <2>5
<1>16. \A n \in 1..N : /\ (shown \o rest)[n] = s[q[n]]
                       /\ n <= A <=> is_presented(s[q[n]])
  <2> TAKE n \in 1..N
  <2>1. CASE n <= A
    <3>1. n \in 1..A /\ q[n] = po[n] /\ po[n] \in I /\ po[n] \in 1..N
      BY <1>1, <1>4, <1>12, <1>14, <2>1
    <3> QED BY <1>2, <1>12, <1>15, <2>1, <3>1
  <2>2. CASE ~(n <= A)
    <3>1. n - A \in 1..B /\ q[n] = r[n - A] /\ r[n - A] \in J /\ r[n - A] \in 1..N
      BY <1>1, <1>4, <1>7, <1>14, <2>2
    <3>2. rest[n - A] = s[r[n - A]]
      BY <1>6, <3>1 DEF Draws
    <3> QED BY <1>2, <1>15, <2>2, <3>1, <3>2
  <2> QED BY <2>1, <2>2
<1>17. Draws(q, N, s, shown \o rest)
  <2> DEFINE all == shown \o rest
  <2>1. all = [n \in 1..N |-> all[n]] /\ \A n \in 1..N : all[n] = s[q[n]]
    BY <1>15, <1>16
  <2> HIDE DEF all
  <2> QED BY <2>1 DEF Draws, all
<1>18. DOMAIN shown = 1..A /\ \A n \in 1..A : shown[n] = s[q[n]]
  BY <1>4, <1>12, <1>13, <1>14
<1>19. A \in 0..N
  BY <1>4
<1> QED BY <1>14, <1>15, <1>16, <1>17, <1>18, <1>19 DEF shown, rest

-----------------------------------------------------------------------------
(* The state in which the findings are built *)

Concluding ==
  /\ Running(input, Context(input, facts))
  /\ evaluations = evaluate_all(Context(input, facts))
  /\ candidates \in Candidates \union {<<>>}
  /\ VerdictsKnown

\* Every rule in force was evaluated, once.
LEMMA EachRuleOnce ==
  ASSUME Concluding
  PROVE  \E K \in Nat :
           /\ DOMAIN evaluations = 1..K
           /\ \A i \in 1..K : LET rule == RuleOf(evaluations[i].id) IN
                /\ Evaluated(rule, evaluations[i])
                /\ rule \in ToSet(RulesOf(input.year))
                /\ evaluations[i].id = rule.id /\ evaluations[i].title = rule.title
                /\ evaluations[i].outcome = OutcomeOf(rule, Context(input, facts))
           /\ \A i, j \in 1..K : evaluations[i].id = evaluations[j].id => i = j
<1> DEFINE ctx == Context(input, facts)
           rs == RulesOf(input.year)
<1>1. PICK K \in Nat : /\ rs \in [1..K -> ToSet(RuleSet)]
                       /\ \A i, j \in 1..K : rs[i].id = rs[j].id => i = j
  BY RulesInForce
<1>2. evaluations = [i \in DOMAIN rs |-> evaluate(rs[i], ctx)]
  <2>1. ctx.year = input.year
    BY DEF Context, Answering
  <2> QED BY <2>1 DEF Concluding, evaluate_all
<1>3. ASSUME NEW i \in 1..K
      PROVE  applies_to_tax_year(rs[i], input.year)
  <2> DEFINE I == {n \in DOMAIN RuleSet : applies_to_tax_year(RuleSet[n], input.year)}
             N == Len(RuleSet)
  <2>1. N \in Nat /\ DOMAIN RuleSet = 1..N
    BY IdsAreUnique
  <2>2. I \in SUBSET (1..N) /\ rs = Picked(RuleSet, I)
    BY <2>1 DEF RulesOf
  <2>3. \A n \in I : applies_to_tax_year(RuleSet[n], input.year)
    OBVIOUS
  <2> HIDE DEF I, N, rs
  <2>4. PICK p \in Bijection(1..Cardinality(I), I) :
           Draws(p, Cardinality(I), RuleSet, Picked(RuleSet, I))
    BY <2>1, <2>2, PickedPositions
  <2>5. p \in [1..Cardinality(I) -> I]
    BY DEF Bijection, Injection
  <2>6. i \in 1..Cardinality(I)
    BY <1>1, <2>2, <2>4 DEF Draws
  <2>7. p[i] \in I
    BY <2>5, <2>6
  <2>8. rs[i] = RuleSet[p[i]]
    BY <2>2, <2>4, <2>6 DEF Draws
  <2> QED BY <2>3, <2>7, <2>8
<1>4. ASSUME NEW i \in 1..K
      PROVE  LET rule == RuleOf(evaluations[i].id) IN
             /\ rule = rs[i] /\ rule \in ToSet(rs) /\ Evaluated(rule, evaluations[i])
             /\ evaluations[i].id = rule.id /\ evaluations[i].title = rule.title
             /\ evaluations[i].outcome = OutcomeOf(rule, ctx)
  <2>1. rs[i] \in ToSet(RuleSet) /\ rs[i] \in ToSet(rs) /\ evaluations[i] = evaluate(rs[i], ctx)
    BY <1>1, <1>2 DEF ToSet
  <2>2. Running(input, ctx)
    BY DEF Concluding
  <2> HIDE DEF ctx, rs
  <2>3. /\ evaluations[i].id = rs[i].id /\ evaluations[i].title = rs[i].title
        /\ evaluations[i].outcome = OutcomeOf(rs[i], ctx)
    BY <2>1, <2>2, EvaluationShape
  <2>4. RuleOf(evaluations[i].id) = rs[i]
    BY <2>1, <2>3, RuleOfItsId
  <2>5. Evaluated(rs[i], evaluations[i])
    BY <1>3, <2>1, <2>2 DEF Evaluated, ctx
  <2> QED BY <2>1, <2>3, <2>4, <2>5
<1>5. DOMAIN evaluations = 1..K
  BY <1>1, <1>2
<1>6. \A i, j \in 1..K : evaluations[i].id = evaluations[j].id => i = j
  BY <1>1, <1>4
<1> QED BY <1>4, <1>5, <1>6

\* Where the findings come from: p names the evaluations, r the candidates.
Origins(M, L, p, r) ==
  /\ M \in Nat /\ L \in Nat
  /\ p \in Bijection(1..M, Firing) /\ r \in Bijection(1..L, Unanticipated)
  /\ DOMAIN AllFindings = 1..(M + L)
  /\ \A n \in 1..M : AllFindings[n] =
       build_rule_opportunity(RuleOf(evaluations[p[n]].id), evaluations[p[n]])
  /\ \A n \in 1..L : AllFindings[M + n] = build_candidate_opportunity(candidates[r[n]])

LEMMA FindingsHaveOrigins ==
  ASSUME Concluding
  PROVE  \E M, L, p, r : /\ Origins(M, L, p, r)
                         /\ \E S : AllFindings \in [1..(M + L) -> S]
<1> DEFINE M == Cardinality(Firing)
           L == Cardinality(Unanticipated)
           firing == Picked(evaluations, Firing)
           rest == Picked(candidates, Unanticipated)
           S == ToSet(RuleFindings) \union ToSet(CandidateFindings)
<1>1. PICK K \in Nat : DOMAIN evaluations = 1..K
  BY EachRuleOnce
<1>2. PICK C \in Nat : DOMAIN candidates = 1..C
  <2>1. candidates \in Seq(ToSet(candidates))
    <3>1. candidates \in Candidates => IsSequence(candidates)
      BY AnswersAssumption
    <3>2. <<>> \in Seq(ToSet(<<>>))
      OBVIOUS
    <3> QED BY <3>1, <3>2 DEF Concluding, IsSequence
  <2> QED BY <2>1
<1>3. Firing \in SUBSET (1..K) /\ Unanticipated \in SUBSET (1..C)
  BY <1>1, <1>2 DEF Firing, Unanticipated
<1>4. M \in Nat /\ L \in Nat
  BY <1>3, PickedPositions
<1>5. PICK p \in Bijection(1..M, Firing) : Draws(p, M, evaluations, firing)
  BY <1>3, PickedPositions
<1>6. PICK r \in Bijection(1..L, Unanticipated) : Draws(r, L, candidates, rest)
  BY <1>3, PickedPositions
<1>7. /\ DOMAIN RuleFindings = 1..M /\ RuleFindings = [n \in 1..M |-> RuleFindings[n]]
      /\ \A n \in 1..M : RuleFindings[n] =
           build_rule_opportunity(RuleOf(evaluations[p[n]].id), evaluations[p[n]])
  <2>1. DOMAIN firing = 1..M /\ \A n \in 1..M : firing[n] = evaluations[p[n]]
    BY <1>5 DEF Draws
  <2>2. RuleFindings = [n \in DOMAIN firing |-> build_rule_opportunity(RuleOf(firing[n].id), firing[n])]
    BY DEF RuleFindings
  <2> HIDE DEF M, firing
  <2> QED BY <2>1, <2>2
<1>8. /\ DOMAIN CandidateFindings = 1..L
      /\ CandidateFindings = [n \in 1..L |-> CandidateFindings[n]]
      /\ \A n \in 1..L : CandidateFindings[n] = build_candidate_opportunity(candidates[r[n]])
  <2>1. DOMAIN rest = 1..L /\ \A n \in 1..L : rest[n] = candidates[r[n]]
    BY <1>6 DEF Draws
  <2>2. CandidateFindings = [n \in DOMAIN rest |-> build_candidate_opportunity(rest[n])]
    BY DEF CandidateFindings
  <2> HIDE DEF L, rest
  <2> QED BY <2>1, <2>2
<1> HIDE DEF M, L
<1>9. RuleFindings \in [1..M -> S] /\ CandidateFindings \in [1..L -> S]
  BY <1>7, <1>8 DEF ToSet
<1> HIDE DEF S
<1>10. /\ RuleFindings \in Seq(S) /\ Len(RuleFindings) = M
       /\ CandidateFindings \in Seq(S) /\ Len(CandidateFindings) = L
  <2>1. RuleFindings \in Seq(S) /\ Len(RuleFindings) = M
    BY <1>4, <1>9
  <2>2. CandidateFindings \in Seq(S) /\ Len(CandidateFindings) = L
    BY <1>4, <1>9
  <2> QED BY <2>1, <2>2
<1>11. /\ AllFindings \in Seq(S) /\ Len(AllFindings) = M + L
       /\ \A n \in 1..(M + L) : AllFindings[n] =
            IF n <= M THEN RuleFindings[n] ELSE CandidateFindings[n - M]
  BY <1>10, ConcatProperties DEF AllFindings
<1>12. AllFindings \in [1..(M + L) -> S] /\ DOMAIN AllFindings = 1..(M + L)
  BY <1>4, <1>11
<1>13. \A n \in 1..M : AllFindings[n] = RuleFindings[n]
  BY <1>4, <1>11
<1>14. \A n \in 1..L : AllFindings[M + n] = CandidateFindings[n]
  <2> TAKE n \in 1..L
  <2>1. M + n \in 1..(M + L) /\ ~(M + n <= M) /\ (M + n) - M = n
    BY <1>4
  <2> QED BY <1>11, <2>1
<1>15. Origins(M, L, p, r)
  BY <1>4, <1>7, <1>8, <1>12, <1>13, <1>14 DEF Origins
<1> QED BY <1>12, <1>15

LEMMA CandidatesAreFinite ==
  ASSUME Concluding, NEW j \in DOMAIN candidates
  PROVE  IsFiniteSet(candidates[j].supports)
<1>1. candidates \in Candidates
  BY DEF Concluding
<1>2. candidates[j] \in ToSet(candidates)
  BY DEF ToSet
<1> QED BY <1>1, <1>2, AnswersAssumption

\* What a finding says, by where it comes from.
LEMMA FindingsSay ==
  ASSUME Concluding, NEW M, NEW L, NEW p, NEW r, Origins(M, L, p, r)
  PROVE  /\ \A n \in 1..M :
              LET o == AllFindings[n]
                  e == evaluations[p[n]]
                  rule == RuleOf(e.id) IN
              /\ p[n] \in Firing
              /\ o.rules = {e.id} /\ o.title = e.title /\ o.priority.score \in Int
              /\ o.status = "rejected" <=> Refuted(o.title)
              /\ o.status = "identified" =>
                   /\ rule \in ToSet(RulesOf(input.year)) /\ o.rules = {rule.id}
                   /\ \A s \in ToSet(rule.sources) : LiveState(s) # "mismatch"
                   /\ rule.reviewed \/ ~RequireReviewed
                        \/ (AcceptVerified /\ \A s \in ToSet(rule.sources) : LiveState(s) = "verified")
                   /\ ~Refuted(o.title) /\ 2 * Objection(o.title) < Whole
                   /\ \E k \in referenced_facts(rule) : k \in Kinds(facts)
                   /\ OutcomeOf(rule, Context(input, facts)) = "matched"
         /\ \A n \in 1..L :
              LET o == AllFindings[M + n]
                  c == candidates[r[n]] IN
              /\ r[n] \in Unanticipated
              /\ o.rules = {} /\ o.title = c.title /\ o.priority.score \in Int
              /\ o.status = "rejected" <=> Refuted(o.title)
              /\ o.status # "identified"
<1>1. p \in [1..M -> Firing] /\ r \in [1..L -> Unanticipated]
  BY DEF Origins, Bijection, Injection
<1>2. VerdictsKnown
  BY DEF Concluding
<1>3. ASSUME NEW n \in 1..M
      PROVE  LET o == AllFindings[n]
                 e == evaluations[p[n]]
                 rule == RuleOf(e.id) IN
             /\ p[n] \in Firing
             /\ o.rules = {e.id} /\ o.title = e.title /\ o.priority.score \in Int
             /\ o.status = "rejected" <=> Refuted(o.title)
             /\ o.status = "identified" =>
                  /\ rule \in ToSet(RulesOf(input.year)) /\ o.rules = {rule.id}
                  /\ \A s \in ToSet(rule.sources) : LiveState(s) # "mismatch"
                  /\ rule.reviewed \/ ~RequireReviewed
                       \/ (AcceptVerified /\ \A s \in ToSet(rule.sources) : LiveState(s) = "verified")
                  /\ ~Refuted(o.title) /\ 2 * Objection(o.title) < Whole
                  /\ \E k \in referenced_facts(rule) : k \in Kinds(facts)
                  /\ OutcomeOf(rule, Context(input, facts)) = "matched"
  <2> DEFINE o == AllFindings[n]
             e == evaluations[p[n]]
             rule == RuleOf(e.id)
  <2>1. p[n] \in Firing /\ p[n] \in DOMAIN evaluations /\ e.outcome \in {"matched", "indeterminate"}
    BY <1>1 DEF Firing, produces_finding
  <2>2. /\ Evaluated(rule, e) /\ rule \in ToSet(RulesOf(input.year))
        /\ e.id = rule.id /\ e.title = rule.title
        /\ e.outcome = OutcomeOf(rule, Context(input, facts))
    BY <2>1, EachRuleOnce
  <2>3. o = build_rule_opportunity(rule, e)
    BY DEF Origins
  <2> HIDE DEF o, e, rule
  <2>4. /\ o.rules = {rule.id} /\ o.title = rule.title /\ o.priority.score \in Int
        /\ o.status = "rejected" <=> Refuted(o.title)
        /\ o.status = "identified" =>
             /\ e.outcome # "indeterminate"
             /\ \A s \in ToSet(rule.sources) : LiveState(s) # "mismatch"
             /\ rule.reviewed \/ ~RequireReviewed
                  \/ (AcceptVerified /\ \A s \in ToSet(rule.sources) : LiveState(s) = "verified")
             /\ 2 * Objection(o.title) < Whole
             /\ \E k \in referenced_facts(rule) : k \in Kinds(facts)
    BY <1>2, <2>2, <2>3, RuleFinding
  <2>5. o.status = "identified" =>
          ~Refuted(o.title) /\ OutcomeOf(rule, Context(input, facts)) = "matched"
    BY <2>1, <2>2, <2>4
  <2>6. o.rules = {e.id} /\ o.title = e.title
    BY <2>2, <2>4
  <2> QED BY <2>1, <2>2, <2>4, <2>5, <2>6 DEF o, e, rule
<1>4. ASSUME NEW n \in 1..L
      PROVE  LET o == AllFindings[M + n]
                 c == candidates[r[n]] IN
             /\ r[n] \in Unanticipated
             /\ o.rules = {} /\ o.title = c.title /\ o.priority.score \in Int
             /\ o.status = "rejected" <=> Refuted(o.title)
             /\ o.status # "identified"
  <2> DEFINE o == AllFindings[M + n]
             c == candidates[r[n]]
  <2>1. r[n] \in Unanticipated /\ r[n] \in DOMAIN candidates
    BY <1>1 DEF Unanticipated
  <2>2. IsFiniteSet(c.supports)
    BY <2>1, CandidatesAreFinite
  <2>3. o = build_candidate_opportunity(c)
    BY DEF Origins
  <2> HIDE DEF o, c
  <2>4. /\ o.rules = {} /\ o.title = c.title /\ o.priority.score \in Int
        /\ o.status = "rejected" <=> Refuted(o.title)
        /\ o.status # "identified"
    BY <1>2, <2>2, <2>3, CandidateFinding
  <2> QED BY <2>1, <2>4 DEF o, c
<1> QED BY <1>3, <1>4

\* What the run answers.
Concluded ==
  /\ Concluding
  /\ result.opportunities = ByPriority(Presented(AllFindings))
  /\ result.rejected = Rejected(AllFindings)
  /\ result.cleared = Cleared
  /\ result.summary.estimated_total = EstimatedTotal(Presented(result.opportunities))

\* q says where among all findings each one of the answer stands.
Placed(N, q) ==
  LET shown == result.opportunities
      all == shown \o result.rejected IN
  /\ q \in Bijection(1..N, 1..N)
  /\ DOMAIN all = 1..N /\ DOMAIN shown = 1..Len(shown) /\ Len(shown) \in 0..N
  /\ \A n \in 1..N : all[n] = AllFindings[q[n]]
  /\ \A n \in DOMAIN shown : shown[n] = AllFindings[q[n]]
  /\ \A n \in 1..N : n <= Len(shown) <=> AllFindings[q[n]].status # "rejected"

LEMMA FindingsArePlaced ==
  ASSUME Concluded
  PROVE  \E M, L, p, r : Origins(M, L, p, r) /\ \E q : Placed(M + L, q)
<1>1. Concluding
  BY DEF Concluded
<1>2. PICK M, L, p, r : /\ Origins(M, L, p, r)
                        /\ \E S : AllFindings \in [1..(M + L) -> S]
  BY <1>1, FindingsHaveOrigins
<1>3. PICK S : AllFindings \in [1..(M + L) -> S]
  BY <1>2
<1>4. M \in Nat /\ L \in Nat
  BY <1>2 DEF Origins
<1> DEFINE N == M + L
<1>5. N \in Nat
  BY <1>4
<1>6. \A n \in 1..N : AllFindings[n].priority.score \in Int
  <2> TAKE n \in 1..N
  <2>1. CASE n \in 1..M
    BY <1>1, <1>2, <2>1, FindingsSay
  <2>2. CASE n \notin 1..M
    <3>1. n - M \in 1..L /\ n = M + (n - M)
      BY <1>4, <2>2
    <3> QED BY <1>1, <1>2, <3>1, FindingsSay
  <2> QED BY <2>1, <2>2
<1> DEFINE shown == ByPriority(Presented(AllFindings))
           all == shown \o Rejected(AllFindings)
<1> HIDE DEF N
<1>7. /\ Len(shown) \in 0..N /\ DOMAIN shown = 1..Len(shown)
      /\ \E q \in Bijection(1..N, 1..N) :
           /\ Draws(q, N, AllFindings, all)
           /\ \A n \in DOMAIN shown : shown[n] = AllFindings[q[n]]
           /\ \A n \in 1..N : n <= Len(shown) <=> is_presented(AllFindings[q[n]])
  BY <1>3, <1>5, <1>6, PresentedThenRejected DEF N
<1>8. PICK q \in Bijection(1..N, 1..N) :
           /\ Draws(q, N, AllFindings, all)
           /\ \A n \in DOMAIN shown : shown[n] = AllFindings[q[n]]
           /\ \A n \in 1..N : n <= Len(shown) <=> is_presented(AllFindings[q[n]])
  BY <1>7
<1>9. shown = result.opportunities /\ all = result.opportunities \o result.rejected
  BY DEF Concluded
<1> HIDE DEF shown, all
<1>10. DOMAIN all = 1..N /\ \A n \in 1..N : all[n] = AllFindings[q[n]]
  BY <1>8 DEF Draws
<1>11. Placed(N, q)
  BY <1>7, <1>8, <1>9, <1>10 DEF Placed, is_presented
<1> QED BY <1>2, <1>11 DEF N

-----------------------------------------------------------------------------
(* The run *)

\* The findings are a function of what was read, proposed, evaluated and judged.
LEMMA FindingsStay ==
  ASSUME UNCHANGED <<input, facts, candidates, evaluations, verdicts>>
  PROVE  /\ AllFindings' = AllFindings /\ Cleared' = Cleared
         /\ Concluding' = Concluding
<1>1. /\ input' = input /\ facts' = facts /\ candidates' = candidates
      /\ evaluations' = evaluations /\ verdicts' = verdicts
  OBVIOUS
<1>2. RuleFindings' = RuleFindings
  <2>1. Firing' = Firing
    BY <1>1 DEF Firing, Looked
  <2>2. ASSUME NEW rule, NEW e
        PROVE  build_rule_opportunity(rule, e)' = build_rule_opportunity(rule, e)
    <3>1. RuleEvidence(rule, e)' = RuleEvidence(rule, e)
      BY <1>1 DEF RuleEvidence, Corroborated
    <3>2. RuleFactors(rule, e)' = RuleFactors(rule, e)
      BY <1>1 DEF RuleFactors, Corroborated, Objection
    <3>3. MissingTold(rule, e)' = MissingTold(rule, e)
      BY <1>1 DEF MissingTold
    <3>4. ASSUME NEW evidence, NEW confidence
          PROVE  status_for(rule, e, evidence, confidence)' = status_for(rule, e, evidence, confidence)
      BY <1>1 DEF status_for, source_state_of, LiveState, Refuted
    <3> QED BY <3>1, <3>2, <3>3, <3>4 DEF build_rule_opportunity
  <2> QED BY <1>1, <2>1, <2>2 DEF RuleFindings
<1>3. CandidateFindings' = CandidateFindings
  BY <1>1 DEF CandidateFindings, Unanticipated, already_covered, build_candidate_opportunity,
              Refuted, Objection
<1>4. Cleared' = Cleared
  BY <1>1 DEF Cleared
<1>5. Concluding' = Concluding
  BY <1>1 DEF Concluding, VerdictsKnown
<1> QED BY <1>2, <1>3, <1>4, <1>5 DEF AllFindings

\* What holds while the run goes on: each stage leaves behind what the later
\* ones rest on, and the answer is what the findings of that state make it.
RunInv ==
  /\ input \in Inputs /\ VerdictsKnown
  /\ stage = "searching_opportunities" => Running(input, Context(input, facts))
  /\ stage \in {"falsifying", "verifying"} => Concluding
  /\ stage = "done" => Concluded

LEMMA RunInvInit == PipelineInit => RunInv
BY DEF PipelineInit, RunInv, VerdictsKnown

LEMMA RunInvStep ==
  ASSUME RunInv, [PipelineNext]_pipelineVars
  PROVE  RunInv'
<1>1. CASE ReadDocuments
  <2>1. /\ input' = input /\ verdicts' = verdicts
        /\ stage' \in {"no_documents", "searching_opportunities", "tax_year_not_covered"}
        /\ stage' = "searching_opportunities" =>
             facts' = build_fact_set(input.documents) /\ covers_tax_year(input.year)
    BY <1>1 DEF ReadDocuments
  <2>2. VerdictsKnown'
    BY <2>1 DEF RunInv, VerdictsKnown
  <2>3. stage' = "searching_opportunities" => Running(input, Context(input, facts))'
    BY <2>1 DEF RunInv, Running
  <2> QED BY <2>1, <2>2, <2>3 DEF RunInv
<1>2. CASE Discover
  <2>1. /\ stage = "searching_opportunities" /\ stage' = "falsifying"
        /\ candidates' \in Candidates \union {<<>>}
        /\ evaluations' = evaluate_all(Context(input, facts))
        /\ input' = input /\ facts' = facts /\ verdicts' = verdicts
    BY <1>2 DEF Discover
  <2>2. VerdictsKnown'
    BY <2>1 DEF RunInv, VerdictsKnown
  <2>3. Concluding'
    BY <2>1, <2>2 DEF RunInv, Running, Concluding
  <2> QED BY <2>1, <2>2, <2>3 DEF RunInv
<1>3. CASE Falsify
  <2>1. /\ stage = "falsifying" /\ stage' = "verifying"
        /\ input' = input /\ facts' = facts /\ candidates' = candidates
        /\ evaluations' = evaluations
    BY <1>3 DEF Falsify
  <2>2. VerdictsKnown'
    <3>1. verdicts' = <<>> \/ \E judged \in SUBSET ListedTitles : verdicts' \in [judged -> Verdicts]
      BY <1>3 DEF Falsify
    <3> QED BY <3>1 DEF VerdictsKnown
  <2>3. Concluding'
    BY <2>1, <2>2 DEF RunInv, Running, Concluding
  <2> QED BY <2>1, <2>2, <2>3 DEF RunInv
<1>4. CASE Conclude
  <2>1. /\ stage = "verifying" /\ stage' = "done"
        /\ UNCHANGED <<input, facts, candidates, evaluations, verdicts>>
        /\ result'.opportunities = ByPriority(Presented(AllFindings))
        /\ result'.rejected = Rejected(AllFindings) /\ result'.cleared = Cleared
    BY <1>4 DEF Conclude, summarise
  <2> DEFINE shown == result'.opportunities
  <2>0. result'.summary.estimated_total = EstimatedTotal(Presented(shown))
    BY <1>4 DEF Conclude, summarise
  <2>2. AllFindings' = AllFindings /\ Cleared' = Cleared /\ Concluding' = Concluding
    BY <2>1, FindingsStay
  <2>3. Concluding
    BY <2>1 DEF RunInv
  <2>4. Concluded'
    BY <2>0, <2>1, <2>2, <2>3 DEF Concluded
  <2>5. VerdictsKnown'
    BY <2>1 DEF RunInv, VerdictsKnown
  <2> QED BY <2>1, <2>4, <2>5 DEF RunInv
<1>5. CASE UNCHANGED pipelineVars
  <2>1. /\ UNCHANGED <<input, facts, candidates, evaluations, verdicts>>
        /\ stage' = stage /\ result' = result
    BY <1>5 DEF pipelineVars
  <2>2. AllFindings' = AllFindings /\ Cleared' = Cleared /\ Concluding' = Concluding
    BY <2>1, FindingsStay
  <2>3. Concluded' = Concluded
    BY <2>1, <2>2 DEF Concluded
  <2>4. VerdictsKnown' = VerdictsKnown
    BY <2>1 DEF VerdictsKnown
  <2>5. Running(input, Context(input, facts))' = Running(input, Context(input, facts))
    BY <2>1
  <2> QED BY <2>1, <2>2, <2>3, <2>4, <2>5 DEF RunInv
<1> QED BY <1>1, <1>2, <1>3, <1>4, <1>5 DEF PipelineNext

LEMMA RunInvAlways == PipelineSpec => []RunInv
<1>1. PipelineInit => RunInv
  BY RunInvInit
<1>2. RunInv /\ [PipelineNext]_pipelineVars => RunInv'
  BY RunInvStep
<1> QED BY <1>1, <1>2, PTL DEF PipelineSpec

(* A finding the report calls established rests on a document, on a rule     *)
(* that is in force, that no cited source contradicts and that a reviewer or *)
(* every source vouches for, and no verdict the refuting model gave is a     *)
(* serious objection, whichever documents, answers, source states and models *)
(* the run had (status_for).  A refutation that failed gave none.            *)
THEOREM EstablishedIsGrounded == PipelineSpec => []IdentifiedIsGrounded
<1>1. RunInv => IdentifiedIsGrounded
  <2> SUFFICES ASSUME RunInv, stage = "done",
                      NEW o \in ToSet(result.opportunities), o.status = "identified"
               PROVE  \E rule \in ToSet(RulesOf(input.year)) :
                        /\ o.rules = {rule.id}
                        /\ \A s \in ToSet(rule.sources) : LiveState(s) # "mismatch"
                        /\ rule.reviewed \/ ~RequireReviewed
                             \/ (AcceptVerified /\ \A s \in ToSet(rule.sources) : LiveState(s) = "verified")
                        /\ ~Refuted(o.title) /\ 2 * Objection(o.title) < Whole
                        /\ \E k \in referenced_facts(rule) : k \in Kinds(facts)
                        /\ OutcomeOf(rule, Context(input, facts)) = "matched"
    BY DEF IdentifiedIsGrounded
  <2>1. Concluded /\ Concluding
    BY DEF RunInv, Concluded
  <2>2. PICK M, L, p, r : Origins(M, L, p, r) /\ \E q : Placed(M + L, q)
    BY <2>1, FindingsArePlaced
  <2>3. PICK q : Placed(M + L, q)
    BY <2>2
  <2>4. M \in Nat /\ L \in Nat
    BY <2>2 DEF Origins
  <2>5. PICK n \in DOMAIN result.opportunities : o = result.opportunities[n]
    BY DEF ToSet
  <2>6. n \in 1..(M + L) /\ q[n] \in 1..(M + L) /\ o = AllFindings[q[n]]
    <3> DEFINE shown == result.opportunities
               length == Len(shown)
    <3>1. /\ DOMAIN shown = 1..length /\ length \in 0..(M + L)
          /\ \A i \in DOMAIN shown : shown[i] = AllFindings[q[i]]
          /\ q \in [1..(M + L) -> 1..(M + L)]
      BY <2>3 DEF Placed, Bijection, Injection
    <3> HIDE DEF length
    <3>2. n \in 1..(M + L)
      BY <2>4, <2>5, <3>1
    <3> QED BY <2>5, <3>1, <3>2
  <2>7. q[n] \in 1..M
    <3>1. CASE q[n] \notin 1..M
      <4>1. q[n] - M \in 1..L /\ q[n] = M + (q[n] - M)
        BY <2>4, <2>6, <3>1
      <4>2. AllFindings[M + (q[n] - M)].status # "identified"
        BY <2>1, <2>2, <4>1, FindingsSay
      <4> QED BY <2>6, <4>1, <4>2
    <3> QED BY <3>1
  <2> DEFINE m == q[n]
             rule == RuleOf(evaluations[p[m]].id)
  <2>8. m \in 1..M /\ o = AllFindings[m]
    BY <2>6, <2>7
  <2> HIDE DEF m
  <2>9. /\ rule \in ToSet(RulesOf(input.year)) /\ o.rules = {rule.id}
        /\ \A s \in ToSet(rule.sources) : LiveState(s) # "mismatch"
        /\ rule.reviewed \/ ~RequireReviewed
             \/ (AcceptVerified /\ \A s \in ToSet(rule.sources) : LiveState(s) = "verified")
        /\ ~Refuted(o.title) /\ 2 * Objection(o.title) < Whole
        /\ \E k \in referenced_facts(rule) : k \in Kinds(facts)
        /\ OutcomeOf(rule, Context(input, facts)) = "matched"
    BY <2>1, <2>2, <2>8, FindingsSay
  <2> HIDE DEF rule
  <2> QED BY <2>9
<1> QED BY <1>1, RunInvAlways, PTL

-----------------------------------------------------------------------------
(* Each finding once *)

Answer == result.opportunities \o result.rejected

\* The places of the answer at which ids and title stand.
Mentions(ids, title) == {n \in DOMAIN Answer : Answer[n].rules = ids /\ Answer[n].title = title}

\* Each place holds what one firing rule or one unanticipated candidate came to.
LEMMA EachPlace ==
  ASSUME Concluded, NEW M, NEW L, NEW p, NEW r, NEW q,
         Origins(M, L, p, r), Placed(M + L, q)
  PROVE  /\ M \in Nat /\ L \in Nat /\ DOMAIN Answer = 1..(M + L)
         /\ \A n \in 1..(M + L) :
              /\ \/ /\ q[n] \in 1..M
                    /\ Answer[n].rules = {evaluations[p[q[n]]].id}
                    /\ Answer[n].title = evaluations[p[q[n]]].title
                 \/ \E m \in 1..L : /\ q[n] = M + m
                                    /\ Answer[n].rules = {}
                                    /\ Answer[n].title = candidates[r[m]].title
              /\ Answer[n].status = "rejected" <=> Refuted(Answer[n].title)
<1>1. Concluding
  BY DEF Concluded
<1>2. M \in Nat /\ L \in Nat
  BY DEF Origins
<1>3. /\ DOMAIN Answer = 1..(M + L) /\ q \in [1..(M + L) -> 1..(M + L)]
      /\ \A n \in 1..(M + L) : Answer[n] = AllFindings[q[n]]
  BY DEF Placed, Answer, Bijection, Injection
<1>4. ASSUME NEW n \in 1..(M + L)
      PROVE  /\ \/ /\ q[n] \in 1..M
                   /\ Answer[n].rules = {evaluations[p[q[n]]].id}
                   /\ Answer[n].title = evaluations[p[q[n]]].title
                \/ \E m \in 1..L : /\ q[n] = M + m
                                   /\ Answer[n].rules = {}
                                   /\ Answer[n].title = candidates[r[m]].title
             /\ Answer[n].status = "rejected" <=> Refuted(Answer[n].title)
  <2>1. q[n] \in 1..(M + L) /\ Answer[n] = AllFindings[q[n]]
    BY <1>3
  <2>2. CASE q[n] \in 1..M
    BY <1>1, <2>1, <2>2, FindingsSay
  <2>3. CASE q[n] \notin 1..M
    <3> DEFINE m == q[n] - M
    <3>1. m \in 1..L /\ q[n] = M + m
      BY <1>2, <2>1, <2>3
    <3> HIDE DEF m
    <3>2. /\ AllFindings[M + m].rules = {}
          /\ AllFindings[M + m].title = candidates[r[m]].title
          /\ AllFindings[M + m].status = "rejected" <=> Refuted(AllFindings[M + m].title)
      BY <1>1, <3>1, FindingsSay
    <3> QED BY <2>1, <3>1, <3>2
  <2> QED BY <2>2, <2>3
<1> QED BY <1>2, <1>3, <1>4

\* A rule is mentioned once if it fired on something it had read, and not at all
\* otherwise.
LEMMA RulesOnce ==
  ASSUME Concluded, NEW i \in DOMAIN evaluations
  PROVE  Cardinality(Mentions({evaluations[i].id}, evaluations[i].title))
            = IF i \in Firing THEN 1 ELSE 0
<1> DEFINE e == evaluations[i]
           U == Mentions({e.id}, e.title)
<1>1. Concluding
  BY DEF Concluded
<1>2. PICK M, L, p, r : Origins(M, L, p, r) /\ \E q : Placed(M + L, q)
  BY FindingsArePlaced
<1>3. PICK q : Placed(M + L, q)
  BY <1>2
<1> DEFINE N == M + L
<1>4. /\ M \in Nat /\ L \in Nat /\ DOMAIN Answer = 1..N
      /\ \A n \in 1..N :
           \/ /\ q[n] \in 1..M
              /\ Answer[n].rules = {evaluations[p[q[n]]].id}
              /\ Answer[n].title = evaluations[p[q[n]]].title
           \/ Answer[n].rules = {} /\ q[n] \notin 1..M
  <2>1. \A m \in 1..L : M \in Nat => M + m \notin 1..M
    OBVIOUS
  <2> QED BY <1>2, <1>3, <2>1, EachPlace
<1>5. /\ p \in [1..M -> Firing] /\ (\A a, b \in 1..M : p[a] = p[b] => a = b)
      /\ \A x \in Firing : \E a \in 1..M : p[a] = x
  BY <1>2 DEF Origins, Bijection, Injection, Surjection, IsInjective
<1>6. /\ q \in [1..N -> 1..N] /\ (\A a, b \in 1..N : q[a] = q[b] => a = b)
      /\ \A x \in 1..N : \E a \in 1..N : q[a] = x
  BY <1>3 DEF Placed, Bijection, Injection, Surjection, IsInjective
<1>7. \A j \in DOMAIN evaluations : evaluations[j].id = e.id => j = i
  BY <1>1, EachRuleOnce
<1>8. Firing \subseteq DOMAIN evaluations
  BY DEF Firing
<1>9. \A n \in 1..N : n \in U <=> q[n] \in 1..M /\ p[q[n]] = i
  <2> TAKE n \in 1..N
  <2>1. n \in U <=> Answer[n].rules = {e.id} /\ Answer[n].title = e.title
    BY <1>4 DEF Mentions
  <2>2. CASE q[n] \in 1..M
    <3>1. /\ Answer[n].rules = {evaluations[p[q[n]]].id}
          /\ Answer[n].title = evaluations[p[q[n]]].title
          /\ p[q[n]] \in DOMAIN evaluations
      BY <1>4, <1>5, <1>8, <2>2
    <3>2. {evaluations[p[q[n]]].id} = {e.id} <=> p[q[n]] = i
      BY <1>7, <3>1
    <3> QED BY <2>1, <2>2, <3>1, <3>2
  <2>3. CASE q[n] \notin 1..M
    BY <1>4, <2>1, <2>3
  <2> QED BY <2>2, <2>3
<1>10. U \subseteq 1..N
  BY <1>4 DEF Mentions
<1> HIDE DEF U, N
<1>11. CASE i \in Firing
  <2>1. PICK m \in 1..M : p[m] = i
    BY <1>5, <1>11
  <2>2. m \in 1..N
    BY <1>4 DEF N
  <2>3. PICK n \in 1..N : q[n] = m
    BY <1>6, <2>2
  <2>4. n \in U
    BY <1>9, <2>1, <2>3
  <2>5. \A a \in U : a = n
    <3> TAKE a \in U
    <3>1. a \in 1..N /\ q[a] \in 1..M /\ p[q[a]] = i
      BY <1>9, <1>10
    <3>2. q[a] = m
      BY <1>5, <2>1, <3>1
    <3> QED BY <1>6, <2>3, <3>1, <3>2
  <2>6. U = {n}
    BY <2>4, <2>5
  <2> QED BY <1>11, <2>6, FS_Singleton DEF U
<1>12. CASE i \notin Firing
  <2>1. U = {}
    BY <1>5, <1>9, <1>10, <1>12
  <2> QED BY <1>12, <2>1, FS_EmptySet DEF U
<1> QED BY <1>11, <1>12

\* A title is mentioned without a rule as often as it was proposed by candidates
\* that no firing rule anticipates.
LEMMA CandidatesAsOften ==
  ASSUME Concluded, NEW title
  PROVE  Cardinality(Mentions({}, title))
            = Cardinality({j \in Unanticipated : candidates[j].title = title})
<1> DEFINE U == Mentions({}, title)
           V == {j \in Unanticipated : candidates[j].title = title}
<1>1. PICK M, L, p, r : Origins(M, L, p, r) /\ \E q : Placed(M + L, q)
  BY FindingsArePlaced
<1>2. PICK q : Placed(M + L, q)
  BY <1>1
<1> DEFINE N == M + L
<1>3. /\ M \in Nat /\ L \in Nat /\ DOMAIN Answer = 1..N
      /\ \A n \in 1..N :
           \/ q[n] \in 1..M /\ Answer[n].rules # {}
           \/ \E m \in 1..L : /\ q[n] = M + m
                              /\ Answer[n].rules = {}
                              /\ Answer[n].title = candidates[r[m]].title
  <2>1. /\ M \in Nat /\ L \in Nat /\ DOMAIN Answer = 1..N
        /\ \A n \in 1..N :
             \/ q[n] \in 1..M /\ Answer[n].rules = {evaluations[p[q[n]]].id}
             \/ \E m \in 1..L : /\ q[n] = M + m
                                /\ Answer[n].rules = {}
                                /\ Answer[n].title = candidates[r[m]].title
    <3>1. \A n \in 1..(M + L) :
             /\ \/ /\ q[n] \in 1..M
                   /\ Answer[n].rules = {evaluations[p[q[n]]].id}
                   /\ Answer[n].title = evaluations[p[q[n]]].title
                \/ \E m \in 1..L : /\ q[n] = M + m
                                   /\ Answer[n].rules = {}
                                   /\ Answer[n].title = candidates[r[m]].title
             /\ Answer[n].status = "rejected" <=> Refuted(Answer[n].title)
      BY <1>1, <1>2, EachPlace
    <3>2. M \in Nat /\ L \in Nat /\ DOMAIN Answer = 1..(M + L)
      BY <1>1, <1>2, EachPlace
    <3> QED BY <3>1, <3>2
  <2>2. \A x : {x} # {}
    OBVIOUS
  <2> HIDE DEF N
  <2> QED BY <2>1, <2>2
<1>4. /\ r \in [1..L -> Unanticipated] /\ (\A a, b \in 1..L : r[a] = r[b] => a = b)
      /\ \A x \in Unanticipated : \E a \in 1..L : r[a] = x
  BY <1>1 DEF Origins, Bijection, Injection, Surjection, IsInjective
<1>5. /\ q \in [1..N -> 1..N] /\ (\A a, b \in 1..N : q[a] = q[b] => a = b)
      /\ \A x \in 1..N : \E a \in 1..N : q[a] = x
  BY <1>2 DEF Placed, Bijection, Injection, Surjection, IsInjective
<1>6. U \subseteq 1..N
  BY <1>3 DEF Mentions
<1>7. \A n \in 1..N : n \in U <=> Answer[n].rules = {} /\ Answer[n].title = title
  BY <1>3 DEF Mentions
<1> HIDE DEF U
<1>8. \A n \in U : q[n] - M \in 1..L /\ q[n] = M + (q[n] - M) /\ candidates[r[q[n] - M]].title = title
  <2> TAKE n \in U
  <2>1. n \in 1..N /\ Answer[n].rules = {} /\ Answer[n].title = title
    BY <1>6, <1>7
  <2>2. PICK m \in 1..L : q[n] = M + m /\ Answer[n].title = candidates[r[m]].title
    BY <1>3, <2>1
  <2>3. q[n] - M = m
    BY <1>3, <2>2
  <2> QED BY <2>1, <2>2, <2>3
<1> DEFINE h == [n \in U |-> r[q[n] - M]]
<1>9. h \in [U -> V]
  BY <1>4, <1>8
<1>10. ASSUME NEW a \in U, NEW b \in U, h[a] = h[b]
       PROVE  a = b
  <2>1. q[a] - M \in 1..L /\ q[b] - M \in 1..L /\ r[q[a] - M] = r[q[b] - M]
    BY <1>8, <1>10
  <2>2. q[a] - M = q[b] - M
    BY <1>4, <2>1
  <2>3. q[a] = q[b]
    BY <1>8, <2>2
  <2> QED BY <1>5, <1>6, <2>3
<1>11. ASSUME NEW j \in V
       PROVE  \E n \in U : h[n] = j
  <2>1. PICK m \in 1..L : r[m] = j
    BY <1>4
  <2>2. M + m \in 1..N /\ M + m \notin 1..M
    BY <1>3
  <2>3. PICK n \in 1..N : q[n] = M + m
    BY <1>5, <2>2
  <2>4. PICK k \in 1..L : /\ q[n] = M + k /\ Answer[n].rules = {}
                          /\ Answer[n].title = candidates[r[k]].title
    BY <1>3, <2>2, <2>3
  <2>5. k = m /\ q[n] - M = m
    BY <1>3, <2>3, <2>4
  <2>6. n \in U
    BY <1>7, <2>1, <2>4, <2>5
  <2>7. h[n] = j
    BY <2>1, <2>5, <2>6
  <2> QED BY <2>6, <2>7
<1> HIDE DEF V, h
<1>12. h \in Bijection(U, V)
  BY <1>9, <1>10, <1>11 DEF Bijection, Injection, Surjection, IsInjective
<1>13. IsFiniteSet(U)
  <2>1. N \in Nat
    BY <1>3
  <2>2. IsFiniteSet(1..N)
    BY <2>1, FS_Interval
  <2> HIDE DEF N
  <2> QED BY <1>6, <2>2, FS_Subset
<1>14. Cardinality(U) = Cardinality(V)
  BY <1>12, <1>13, FS_Bijection DEF ExistsBijection
<1> QED BY <1>14 DEF U, V

(* Whatever the models proposed and the rules found is answered once: what   *)
(* fired on something it had read is presented or rejected, a candidate as   *)
(* often as it was proposed unless a rule it suggests fired, nothing refuted *)
(* is presented, nothing is both cleared and found (run_with_budget's loops  *)
(* over the evaluations and the candidates).                                 *)
THEOREM EverythingIsAnsweredOnce == PipelineSpec => []NothingFallsThrough
<1>1. RunInv => NothingFallsThrough
  <2> SUFFICES ASSUME RunInv, stage = "done"
               PROVE  NothingFallsThrough
    BY DEF NothingFallsThrough
  <2>1. Concluded /\ Concluding
    BY DEF RunInv, Concluded
  <2> DEFINE Fires(e) == produces_finding(e.outcome) /\ Looked(RuleOf(e.id))
             Anticipated(c) ==
               \E e \in ToSet(evaluations) : e.id \in c.suggests /\ e.outcome \in {"matched", "indeterminate"}
  <2>2. ASSUME NEW e \in ToSet(evaluations)
        PROVE  /\ Fires(e) <=> Cardinality(Mentions({e.id}, e.title)) = 1
               /\ e.id \in result.cleared => Cardinality(Mentions({e.id}, e.title)) = 0
    <3>1. PICK i \in DOMAIN evaluations : e = evaluations[i]
      BY DEF ToSet
    <3>2. i \in Firing <=> Fires(e)
      BY <3>1 DEF Firing
    <3>3. Cardinality(Mentions({e.id}, e.title)) = IF i \in Firing THEN 1 ELSE 0
      BY <2>1, <3>1, RulesOnce
    <3>4. e.id \in result.cleared => ~Fires(e)
      <4> SUFFICES ASSUME e.id \in Cleared
                   PROVE  ~Fires(e)
        BY <2>1 DEF Concluded
      <4>1. PICK x \in ToSet(evaluations) :
                 x.outcome \in {"not_applicable", "exception_applies"} /\ x.id = e.id
        BY DEF Cleared
      <4>2. PICK j \in DOMAIN evaluations : x = evaluations[j]
        BY DEF ToSet
      <4>3. j = i
        BY <2>1, <3>1, <4>1, <4>2, EachRuleOnce
      <4> QED BY <3>1, <4>1, <4>2, <4>3 DEF produces_finding
    <3> QED BY <3>2, <3>3, <3>4
  <2>3. ASSUME NEW c \in ToSet(candidates)
        PROVE  Cardinality(Mentions({}, c.title)) =
                 Cardinality({i \in DOMAIN candidates :
                                candidates[i].title = c.title /\ ~Anticipated(candidates[i])})
    <3>1. {i \in DOMAIN candidates : candidates[i].title = c.title /\ ~Anticipated(candidates[i])}
            = {j \in Unanticipated : candidates[j].title = c.title}
      BY DEF Unanticipated, already_covered, produces_finding
    <3> QED BY <2>1, <3>1, CandidatesAsOften
  <2>4. \A i \in DOMAIN Answer : Refuted(Answer[i].title) <=> i > Len(result.opportunities)
    <3>1. PICK M, L, p, r : Origins(M, L, p, r) /\ \E q : Placed(M + L, q)
      BY <2>1, FindingsArePlaced
    <3>2. PICK q : Placed(M + L, q)
      BY <3>1
    <3> DEFINE N == M + L
               length == Len(result.opportunities)
    <3>3. /\ M \in Nat /\ L \in Nat /\ DOMAIN Answer = 1..N
          /\ \A n \in 1..N : Answer[n].status = "rejected" <=> Refuted(Answer[n].title)
      BY <2>1, <3>1, <3>2, EachPlace
    <3>4. /\ length \in 0..N
          /\ \A n \in 1..N : n <= length <=> Answer[n].status # "rejected"
      BY <3>2 DEF Placed, Answer
    <3> HIDE DEF N, length
    <3>5. N \in Nat
      BY <3>3 DEF N
    <3>6. \A i \in 1..N : Refuted(Answer[i].title) <=> i > length
      BY <3>3, <3>4, <3>5
    <3> QED BY <3>3, <3>6 DEF length
  <2> HIDE DEF Anticipated
  <2> QED BY <2>2, <2>3, <2>4 DEF NothingFallsThrough, Mentions, Answer, Anticipated
<1> QED BY <1>1, RunInvAlways, PTL

-----------------------------------------------------------------------------
(* Later answers *)

\* The engine decides no sooner than its language does: an answer more leaves a
\* match a match and a miss a miss, and turns no silence into a finding.
LEMMA AnswersOnlyAdd ==
  ASSUME NEW in, NEW ctx, NEW set, Running(in, ctx), NEW rule \in ToSet(RuleSet),
         set = build_fact_set(in.documents), NEW p \in Extensions(in.profile)
  PROVE  LET old == OutcomeOf(rule, ctx)
             new == OutcomeOf(rule, Answering(in, set, p)) IN
         /\ old \in {"matched", "not_applicable"} => new = old
         /\ produces_finding(new) => produces_finding(old)
<1> DEFINE later == Answering(in, set, p)
           verdict(c) == ConditionTruth(rule.conditions, c)
           heard(c) == {ConditionTruth(e.when, c) : e \in ToSet(rule.exceptions)}
           truths == {"true", "false", "unknown"}
<1>1. later.year = ctx.year /\ later.constants = ctx.constants
  BY DEF Running, Context, Answering
<1>2. /\ Keeps(rule.conditions, ctx, later)
      /\ \A e \in ToSet(rule.exceptions) : Keeps(e.when, ctx, later)
      /\ rule.impact.kind = "range" =>
           /\ ExpressionAmount(rule.impact.low, later) = ExpressionAmount(rule.impact.low, ctx)
           /\ ExpressionAmount(rule.impact.high, later) = ExpressionAmount(rule.impact.high, ctx)
  BY LanguageIsMonotone DEF Running
<1>3. compute_impact(rule, later) = compute_impact(rule, ctx)
  <2>1. rule.impact.kind \in {"none", "range"}
    BY RulesAssumption
  <2>2. CASE rule.impact.kind = "none"
    BY <2>2 DEF compute_impact
  <2>3. CASE rule.impact.kind = "range"
    BY <1>2, <2>3 DEF compute_impact, Both
  <2> QED BY <2>1, <2>2, <2>3
<1>4. /\ verdict(ctx) \in truths /\ verdict(later) \in truths
      /\ verdict(ctx) # "unknown" => verdict(later) = verdict(ctx)
  BY <1>2 DEF Keeps
<1>5. /\ "true" \in heard(ctx) => "true" \in heard(later)
      /\ ~("true" \in heard(ctx)) /\ ~("unknown" \in heard(ctx)) =>
           ~("true" \in heard(later)) /\ ~("unknown" \in heard(later))
  <2>1. \A e \in ToSet(rule.exceptions) :
          /\ ConditionTruth(e.when, ctx) \in truths /\ ConditionTruth(e.when, later) \in truths
          /\ ConditionTruth(e.when, ctx) # "unknown" =>
               ConditionTruth(e.when, later) = ConditionTruth(e.when, ctx)
    BY <1>2 DEF Keeps
  <2> QED BY <2>1
<1> DEFINE amount == compute_impact(rule, ctx)
           certain(c) ==
             IF verdict(c) = "false" THEN "not_applicable"
             ELSE IF "true" \in heard(c) THEN "exception_applies"
             ELSE IF verdict(c) = "unknown" THEN "indeterminate"
             ELSE IF ~amount.ok THEN IF amount.e = "missing_fact" THEN "indeterminate" ELSE "rule_error"
             ELSE IF "unknown" \in heard(c) THEN "indeterminate"
             ELSE "matched"
           outcome(c) ==
             IF ~applies_to_tax_year(rule, ctx.year) THEN "out_of_scope"
             ELSE IF ~check_resolvable(rule, ctx.constants) THEN "rule_error"
             ELSE certain(c)
<1>6. OutcomeOf(rule, ctx) = outcome(ctx) /\ OutcomeOf(rule, later) = outcome(later)
  BY <1>1, <1>3 DEF OutcomeOf, Heard
<1> HIDE DEF verdict, heard, amount, later
<1>7. /\ certain(ctx) \in {"matched", "not_applicable"} => certain(later) = certain(ctx)
      /\ produces_finding(certain(later)) => produces_finding(certain(ctx))
  BY <1>4, <1>5 DEF produces_finding
<1> HIDE DEF certain
<1>8. /\ outcome(ctx) \in {"matched", "not_applicable"} => outcome(later) = outcome(ctx)
      /\ produces_finding(outcome(later)) => produces_finding(outcome(ctx))
  BY <1>7 DEF produces_finding
<1> QED BY <1>6, <1>8 DEF later

(* What the engine has decided, later answers do not undo, as long as the    *)
(* language of its conditions keeps that promise (LanguageIsMonotone).       *)
THEOREM AnswersUndoNothing == PipelineSpec => []DecidedIsFinal
<1>1. RunInv => DecidedIsFinal
  <2> SUFFICES ASSUME RunInv, stage = "falsifying",
                      NEW i \in DOMAIN evaluations, NEW p \in Extensions(input.profile)
               PROVE  LET old == evaluations[i].outcome
                          new == OutcomeOf(RuleOf(evaluations[i].id), Answering(input, facts, p)) IN
                      /\ old \in {"matched", "not_applicable"} => new = old
                      /\ produces_finding(new) => produces_finding(old)
    BY DEF DecidedIsFinal
  <2>1. Concluding
    BY DEF RunInv
  <2> DEFINE ctx == Context(input, facts)
             rule == RuleOf(evaluations[i].id)
  <2>2. Evaluated(rule, evaluations[i]) /\ evaluations[i].outcome = OutcomeOf(rule, ctx)
    BY <2>1, EachRuleOnce
  <2>3. Running(input, ctx) /\ rule \in ToSet(RuleSet)
    BY <2>2 DEF Evaluated
  <2>4. facts = build_fact_set(input.documents)
    BY <2>3 DEF Running, Context, Answering
  <2> HIDE DEF ctx, rule
  <2>5. LET old == OutcomeOf(rule, ctx)
            new == OutcomeOf(rule, Answering(input, facts, p)) IN
        /\ old \in {"matched", "not_applicable"} => new = old
        /\ produces_finding(new) => produces_finding(old)
    BY <2>3, <2>4, AnswersOnlyAdd
  <2> QED BY <2>2, <2>5 DEF ctx, rule
<1> QED BY <1>1, RunInvAlways, PTL

-----------------------------------------------------------------------------
(* The headline total.  Sums over the findings are recursive functions; what
   they keep is proved by induction over the numbers, as the absence of a least
   number at which it fails. *)

\* A set of naturals that has a member has a least one.
LEMMA Least ==
  ASSUME NEW T \in SUBSET Nat, T # {}
  PROVE  \E m \in T : \A k \in T : m <= k
<1> DEFINE Ups == {0..k : k \in T}
<1>1. Ups \subseteq FiniteSubsetsOf(Nat) /\ Ups # {}
  <2>1. \A k \in T : 0..k \in SUBSET Nat /\ IsFiniteSet(0..k)
    BY FS_Interval
  <2>2. \A k \in T : 0..k \in FiniteSubsetsOf(Nat)
    BY <2>1 DEF FiniteSubsetsOf
  <2> QED BY <2>2
<1>2. PICK u \in Ups : \A v \in Ups : <<v, u>> \notin StrictSubsetOrdering(Nat)
  BY <1>1, FS_StrictSubsetOrderingWellFounded, WFMin
<1>3. PICK m \in T : u = 0..m
  BY <1>2
<1>4. ASSUME NEW k \in T, k < m
      PROVE  FALSE
  <2>1. 0..k \in SUBSET Nat /\ 0..m \in SUBSET Nat /\ 0..k \subseteq 0..m /\ m \in 0..m /\ m \notin 0..k
    BY <1>4
  <2>2. <<0..k, 0..m>> \in StrictSubsetOrdering(Nat)
    BY <2>1 DEF StrictSubsetOrdering
  <2> QED BY <1>2, <1>3, <2>2
<1> QED BY <1>4

\* What holds of 0 and of n + 1 whenever of n holds of all numbers up to N: an
\* induction over the set of the numbers of which it holds.
LEMMA UpTo ==
  ASSUME NEW N \in Nat, NEW P, 0 \in P, \A n \in 0..(N - 1) : n \in P => n + 1 \in P
  PROVE  \A n \in 0..N : n \in P
<1> DEFINE T == {n \in 0..N : n \notin P}
<1>1. CASE T = {}
  BY <1>1
<1>2. CASE T # {}
  <2>1. PICK m \in T : \A k \in T : m <= k
    <3>1. T \in SUBSET Nat
      OBVIOUS
    <3> HIDE DEF T
    <3> QED BY <1>2, <3>1, Least
  <2>2. m \in 1..N /\ m - 1 \in 0..(N - 1) /\ m - 1 \notin T
    BY <2>1
  <2>3. m - 1 \in P /\ (m - 1) + 1 = m
    BY <2>2
  <2> QED BY <2>1, <2>2, <2>3
<1> QED BY <1>1, <1>2

\* f takes v through the first N of the steps g.
Runs(f, N, V, v, g) ==
  /\ f \in [0..N -> V] /\ f[0] = v
  /\ \A n \in 1..N : f[n] = g[n][f[n - 1]]

\* A value and a step for each number define a running result.
LEMMA Recursion ==
  ASSUME NEW N \in Nat, NEW V, NEW v \in V, NEW g \in [1..N -> [V -> V]]
  PROVE  \E f : Runs(f, N, V, v, g)
<1> DEFINE P == {m \in 0..N : \E f : Runs(f, m, V, v, g)}
<1>1. 0 \in P
  <2> DEFINE f == [n \in 0..0 |-> v]
  <2>1. f \in [0..0 -> V] /\ f[0] = v /\ 1..0 = {}
    OBVIOUS
  <2>2. Runs(f, 0, V, v, g)
    BY <2>1 DEF Runs
  <2> HIDE DEF f
  <2> QED BY <2>2
<1>2. ASSUME NEW m \in 0..(N - 1), m \in P
      PROVE  m + 1 \in P
  <2>1. PICK f : Runs(f, m, V, v, g)
    BY <1>2
  <2>2. /\ f \in [0..m -> V] /\ f[0] = v
        /\ \A n \in 1..m : f[n] = g[n][f[n - 1]]
    BY <2>1 DEF Runs
  <2> DEFINE h == [n \in 0..(m + 1) |-> IF n = m + 1 THEN g[m + 1][f[m]] ELSE f[n]]
  <2>3. f[m] \in V /\ m + 1 \in 1..N /\ m + 1 \in 0..N
    BY <2>2
  <2>4. g[m + 1][f[m]] \in V
    BY <2>3
  <2>5. h \in [0..(m + 1) -> V] /\ h[0] = v
    BY <2>2, <2>4
  <2>6. ASSUME NEW n \in 1..(m + 1)
        PROVE  h[n] = g[n][h[n - 1]]
    <3>1. CASE n = m + 1
      BY <3>1
    <3>2. CASE n # m + 1
      <4>1. n \in 1..m /\ n - 1 \in 0..m /\ h[n] = f[n] /\ h[n - 1] = f[n - 1]
        BY <3>2
      <4> QED BY <2>2, <4>1
    <3> QED BY <3>1, <3>2
  <2>7. Runs(h, m + 1, V, v, g)
    BY <2>5, <2>6 DEF Runs
  <2> HIDE DEF h
  <2> QED BY <2>3, <2>7
<1> HIDE DEF P
<1>3. \A m \in 0..(N - 1) : m \in P => m + 1 \in P
  BY <1>2
<1>4. \A m \in 0..N : m \in P
  BY <1>1, <1>3, UpTo
<1>5. N \in P
  BY <1>4
<1> QED BY <1>5 DEF P

\* What SumOf computes, step by step.
LEMMA SumRuns ==
  ASSUME NEW K \in Nat, NEW w \in [1..K -> Int]
  PROVE  \E f \in [0..K -> Int] : /\ f[0] = 0
                                  /\ \A n \in 1..K : f[n] = f[n - 1] + w[n]
                                  /\ SumOf(w) = f[K]
<1>1. Len(w) = K
  OBVIOUS
<1> DEFINE Is(f) == f = [n \in 0..K |-> IF n = 0 THEN 0 ELSE f[n - 1] + w[n]]
           upTo == CHOOSE f : Is(f)
<1>2. \E f : Is(f)
  <2> DEFINE g == [n \in 1..K |-> [x \in Int |-> x + w[n]]]
  <2>1. g \in [1..K -> [Int -> Int]]
    OBVIOUS
  <2>2. \A n \in 1..K : \A x \in Int : g[n][x] = x + w[n]
    OBVIOUS
  <2> HIDE DEF g
  <2>3. PICK f \in [0..K -> Int] : f[0] = 0 /\ \A n \in 1..K : f[n] = g[n][f[n - 1]]
    <3>1. 0 \in Int
      OBVIOUS
    <3>2. \E f : Runs(f, K, Int, 0, g)
      BY <2>1, <3>1, Recursion
    <3> QED BY <3>2 DEF Runs
  <2>4. ASSUME NEW n \in 0..K
        PROVE  f[n] = IF n = 0 THEN 0 ELSE f[n - 1] + w[n]
    <3>1. CASE n = 0
      BY <2>3, <3>1
    <3>2. CASE n # 0
      <4>1. n \in 1..K /\ n - 1 \in 0..K
        BY <3>2
      <4>2. f[n - 1] \in Int
        BY <2>3, <4>1
      <4> QED BY <2>2, <2>3, <3>2, <4>1, <4>2
    <3> QED BY <3>1, <3>2
  <2>5. Is(f)
    <3>1. f = [n \in 0..K |-> f[n]]
      BY <2>3
    <3> QED BY <2>4, <3>1
  <2> QED BY <2>5
<1>3. Is(upTo)
  <2> HIDE DEF Is
  <2> QED BY <1>2
<1>4. SumOf(w) = upTo[K]
  BY <1>1 DEF SumOf
<1> HIDE DEF upTo
<1>5. DOMAIN upTo = 0..K /\ upTo[0] = 0 /\ \A n \in 1..K : upTo[n] = upTo[n - 1] + w[n]
  <2>1. upTo = [n \in 0..K |-> IF n = 0 THEN 0 ELSE upTo[n - 1] + w[n]]
    BY <1>3
  <2>2. DOMAIN upTo = 0..K
    BY <2>1
  <2>3. \A n \in 0..K : upTo[n] = IF n = 0 THEN 0 ELSE upTo[n - 1] + w[n]
    BY <2>1
  <2> QED BY <2>2, <2>3
<1> DEFINE P == {n \in 0..K : upTo[n] \in Int}
<1>6. 0 \in P /\ \A n \in 0..(K - 1) : n \in P => n + 1 \in P
  BY <1>5
<1>7. \A n \in 0..K : n \in P
  <2> HIDE DEF P
  <2> QED BY <1>6, UpTo
<1>8. upTo = [n \in 0..K |-> upTo[n]]
  BY <1>3
<1> QED BY <1>4, <1>5, <1>7, <1>8

\* x holds the K amounts of w, and d more at place j.
Raised(x, w, K, j, d) ==
  /\ K \in Nat /\ j \in 1..K /\ d \in Int
  /\ w \in [1..K -> Int] /\ x \in [1..K -> Int]
  /\ \A n \in 1..K : x[n] = IF n = j THEN w[n] + d ELSE w[n]

LEMMA SumGrows ==
  ASSUME NEW K, NEW j, NEW d, NEW w, NEW x, Raised(x, w, K, j, d)
  PROVE  SumOf(x) = SumOf(w) + d
<1> /\ K \in Nat /\ j \in 1..K /\ d \in Int
    /\ w \in [1..K -> Int] /\ x \in [1..K -> Int]
    /\ \A n \in 1..K : x[n] = IF n = j THEN w[n] + d ELSE w[n]
  BY DEF Raised
<1>1. PICK f \in [0..K -> Int] : /\ f[0] = 0 /\ SumOf(w) = f[K]
                                 /\ \A n \in 1..K : f[n] = f[n - 1] + w[n]
  BY SumRuns
<1>2. PICK g \in [0..K -> Int] : /\ g[0] = 0 /\ SumOf(x) = g[K]
                                 /\ \A n \in 1..K : g[n] = g[n - 1] + x[n]
  BY SumRuns
<1> DEFINE P == {n \in 0..K : g[n] = IF n < j THEN f[n] ELSE f[n] + d}
<1>3. 0 \in P
  BY <1>1, <1>2
<1>4. ASSUME NEW n \in 0..(K - 1), n \in P
      PROVE  n + 1 \in P
  <2> DEFINE m == n + 1
  <2>1. m \in 1..K /\ m \in 0..K /\ m - 1 = n
    OBVIOUS
  <2>2. /\ g[m] = g[n] + x[m] /\ f[m] = f[n] + w[m]
        /\ g[n] = IF n < j THEN f[n] ELSE f[n] + d
        /\ x[m] = IF m = j THEN w[m] + d ELSE w[m]
    BY <1>1, <1>2, <1>4, <2>1
  <2>3. f[n] \in Int /\ w[m] \in Int
    BY <2>1
  <2> HIDE DEF m
  <2>4. g[m] = IF m < j THEN f[m] ELSE f[m] + d
    <3>1. m \in Int /\ n \in Int /\ j \in Int /\ m = n + 1
      BY <2>1 DEF m
    <3>2. CASE m < j
      <4>1. n < j /\ m # j
        BY <3>1, <3>2
      <4>2. g[m] = f[m]
        BY <2>2, <4>1
      <4> QED BY <3>2, <4>2
    <3>3. CASE m = j
      <4>1. n < j /\ ~(m < j)
        BY <3>1, <3>3
      <4>2. g[m] = f[m] + d
        BY <2>2, <2>3, <3>3, <4>1
      <4> QED BY <4>1, <4>2
    <3>4. CASE m > j
      <4>1. ~(n < j) /\ ~(m < j) /\ m # j
        BY <3>1, <3>4
      <4>2. g[m] = f[m] + d
        BY <2>2, <2>3, <4>1
      <4> QED BY <4>1, <4>2
    <3> QED BY <3>1, <3>2, <3>3, <3>4
  <2> QED BY <2>1, <2>4 DEF m
<1> HIDE DEF P
<1>5. \A n \in 0..K : n \in P
  <2>1. \A n \in 0..(K - 1) : n \in P => n + 1 \in P
    BY <1>4
  <2> QED BY <1>3, <2>1, UpTo
<1>6. g[K] = f[K] + d
  BY <1>5 DEF P
<1> QED BY <1>1, <1>2, <1>6

LEMMA SumOfNothing ==
  ASSUME NEW K \in Nat, NEW w \in [1..K -> Int], \A n \in 1..K : w[n] = 0
  PROVE  SumOf(w) = 0
<1>1. PICK f \in [0..K -> Int] : /\ f[0] = 0 /\ SumOf(w) = f[K]
                                 /\ \A n \in 1..K : f[n] = f[n - 1] + w[n]
  BY SumRuns
<1> DEFINE P == {n \in 0..K : f[n] = 0}
<1>2. 0 \in P /\ \A n \in 0..(K - 1) : n \in P => n + 1 \in P
  <2>1. ASSUME NEW n \in 0..(K - 1), n \in P
        PROVE  n + 1 \in P
    <3>1. n + 1 \in 1..K /\ n + 1 \in 0..K /\ (n + 1) - 1 = n
      OBVIOUS
    <3>2. f[n + 1] = f[n] + w[n + 1]
      BY <1>1, <3>1
    <3> QED BY <2>1, <3>1, <3>2
  <2> QED BY <1>1, <2>1
<1> HIDE DEF P
<1>3. \A n \in 0..K : n \in P
  BY <1>2, UpTo
<1> QED BY <1>1, <1>3 DEF P

\* What RunningTotal computes, step by step.
Totals == [ok : {TRUE}, v : [low : Int, high : Int]] \union {Err("overflow")}

IsTotal(f, K, s) ==
  /\ f \in [0..K -> Totals] /\ f[0] = Ok(ZeroRange)
  /\ \A n \in 1..K : f[n] = IF ~f[n - 1].ok THEN f[n - 1]
                            ELSE AddRanges(f[n - 1].v, countable_impact(s[n]))
  /\ EstimatedTotal(s) = IF f[K].ok THEN f[K].v ELSE ZeroRange

LEMMA TotalRuns ==
  ASSUME NEW K \in Nat, NEW S, NEW s \in [1..K -> S],
         \A n \in 1..K : countable_impact(s[n]).low \in Int /\ countable_impact(s[n]).high \in Int
  PROVE  \E f : IsTotal(f, K, s)
<1> DEFINE Step(n, x) == IF ~x.ok THEN x ELSE AddRanges(x.v, countable_impact(s[n]))
           Is(f) == f = [n \in 0..K |-> IF n = 0 THEN Ok(ZeroRange) ELSE Step(n, f[n - 1])]
           total == CHOOSE f : Is(f)
<1>1. Len(s) = K
  OBVIOUS
<1>2. Ok(ZeroRange) \in Totals
  BY DEF Ok, ZeroRange, Totals
<1>3. \A n \in 1..K : \A x \in Totals : Step(n, x) \in Totals
  <2> TAKE n \in 1..K
  <2> TAKE x \in Totals
  <2> DEFINE c == countable_impact(s[n])
  <2>1. c.low \in Int /\ c.high \in Int
    OBVIOUS
  <2> HIDE DEF c
  <2>2. CASE x \in [ok : {TRUE}, v : [low : Int, high : Int]]
    <3>1. x.v.low \in Int /\ x.v.high \in Int /\ x.ok
      BY <2>2
    <3>2. AddRanges(x.v, c) \in Totals
      BY <2>1, <3>1 DEF AddRanges, Ok, Totals
    <3> QED BY <3>1, <3>2 DEF c
  <2>3. CASE x = Err("overflow")
    BY <2>3 DEF Err
  <2> QED BY <2>2, <2>3 DEF Totals
<1> HIDE DEF Step
<1>4. \E f : Is(f)
  <2> DEFINE g == [n \in 1..K |-> [x \in Totals |-> Step(n, x)]]
  <2>1. g \in [1..K -> [Totals -> Totals]]
    BY <1>3
  <2>2. \A n \in 1..K : \A x \in Totals : g[n][x] = Step(n, x)
    OBVIOUS
  <2> HIDE DEF g
  <2>3. PICK f \in [0..K -> Totals] : f[0] = Ok(ZeroRange) /\ \A n \in 1..K : f[n] = g[n][f[n - 1]]
    <3>1. \E f : Runs(f, K, Totals, Ok(ZeroRange), g)
      BY <1>2, <2>1, Recursion
    <3> QED BY <3>1 DEF Runs
  <2>4. ASSUME NEW n \in 0..K
        PROVE  f[n] = IF n = 0 THEN Ok(ZeroRange) ELSE Step(n, f[n - 1])
    <3>1. CASE n = 0
      BY <2>3, <3>1
    <3>2. CASE n # 0
      <4>1. n \in 1..K /\ n - 1 \in 0..K
        BY <3>2
      <4>2. f[n - 1] \in Totals
        BY <2>3, <4>1
      <4> QED BY <2>2, <2>3, <3>2, <4>1, <4>2
    <3> QED BY <3>1, <3>2
  <2>5. Is(f)
    <3>1. f = [n \in 0..K |-> f[n]]
      BY <2>3
    <3> QED BY <2>4, <3>1
  <2> QED BY <2>5
<1>5. Is(total)
  <2> HIDE DEF Is
  <2> QED BY <1>4
<1>6. RunningTotal(s) = total
  BY <1>1 DEF RunningTotal, Step
<1> HIDE DEF total
<1>7. DOMAIN total = 0..K /\ total[0] = Ok(ZeroRange) /\ \A n \in 1..K : total[n] = Step(n, total[n - 1])
  <2>1. total = [n \in 0..K |-> IF n = 0 THEN Ok(ZeroRange) ELSE Step(n, total[n - 1])]
    BY <1>5
  <2>2. DOMAIN total = 0..K
    BY <2>1
  <2>3. \A n \in 0..K : total[n] = IF n = 0 THEN Ok(ZeroRange) ELSE Step(n, total[n - 1])
    BY <2>1
  <2> QED BY <2>2, <2>3
<1> DEFINE P == {n \in 0..K : total[n] \in Totals}
<1>8. \A n \in 0..K : n \in P
  <2>1. ASSUME NEW n \in 0..(K - 1), n \in P
        PROVE  n + 1 \in P
    <3>1. n + 1 \in 1..K /\ n + 1 \in 0..K /\ (n + 1) - 1 = n
      OBVIOUS
    <3>2. total[n + 1] = Step(n + 1, total[n])
      BY <1>7, <3>1
    <3> QED BY <1>3, <2>1, <3>1, <3>2
  <2>2. 0 \in P
    BY <1>2, <1>7
  <2>3. \A n \in 0..(K - 1) : n \in P => n + 1 \in P
    BY <2>1
  <2> HIDE DEF P
  <2> QED BY <2>2, <2>3, UpTo
<1>9. total \in [0..K -> Totals]
  <2>1. total = [n \in 0..K |-> total[n]]
    BY <1>5
  <2> QED BY <1>8, <2>1
<1>10. EstimatedTotal(s) = IF total[K].ok THEN total[K].v ELSE ZeroRange
  BY <1>1, <1>6 DEF EstimatedTotal
<1>11. IsTotal(total, K, s)
  BY <1>7, <1>9, <1>10 DEF IsTotal, Step
<1> QED BY <1>11

\* A rule's finding counts for nothing, or for what the rule computed from
\* something it read, if no objection bit and it is not a deferral.
LEMMA RuleFigure ==
  ASSUME VerdictsKnown, NEW rule, NEW e, Evaluated(rule, e)
  PROVE  LET figure == countable_impact(build_rule_opportunity(rule, e)) IN
         \/ figure = ZeroRange
         \/ /\ figure = e.impact /\ e.calculated /\ rule.effect # "deferral"
            /\ referenced_facts(rule) # {}
            /\ ~Refuted(e.title) /\ 2 * Objection(e.title) < Whole
<1> DEFINE o == build_rule_opportunity(rule, e)
           factors == RuleFactors(rule, e)
<1>1. /\ o.impact = e.impact /\ o.effect = rule.effect /\ o.title = rule.title
      /\ o.confidence = Confidence(factors)
  BY DEF build_rule_opportunity
<1>2. e.title = rule.title /\ (e.calculated \/ e.impact = ZeroRange)
  BY EvaluationShape DEF Evaluated
<1>3. o.status = "rejected" <=> Refuted(o.title)
  BY RuleFinding
<1>4. Actionable(Confidence(factors)) =>
        2 * Objection(e.title) < Whole /\ referenced_facts(rule) # {}
  <2>1. /\ factors.document_evidence \in Int /\ factors.rule_match \in Int
        /\ factors.calculation_certainty \in Int
        /\ factors.missing_information \in Int /\ factors.model_agreement \in Int
        /\ factors.contradiction_score = Objection(e.title) /\ factors.contradiction_score \in Int
        /\ referenced_facts(rule) = {} => factors.document_evidence = 0
    BY FactorsAreInts
  <2> HIDE DEF factors
  <2>2. Actionable(Confidence(factors)) =>
          ~FailsClosed(factors) /\ 2 * factors.contradiction_score < Whole
    BY <2>1, ConfidenceFails
  <2> QED BY <2>1, <2>2 DEF FailsClosed
<1> HIDE DEF o, factors
<1>5. countable_impact(o) =
        IF o.effect = "deferral" \/ o.status = "rejected" \/ ~Actionable(o.confidence)
          THEN ZeroRange ELSE o.impact
  BY DEF countable_impact, stood_behind
<1>6. \/ countable_impact(o) = ZeroRange
      \/ /\ countable_impact(o) = e.impact /\ e.calculated /\ rule.effect # "deferral"
         /\ referenced_facts(rule) # {}
         /\ ~Refuted(e.title) /\ 2 * Objection(e.title) < Whole
  BY <1>1, <1>2, <1>3, <1>4, <1>5
<1> QED BY <1>6 DEF o

LEMMA CandidateFigure ==
  ASSUME NEW c
  PROVE  countable_impact(build_candidate_opportunity(c)) = ZeroRange
<1>1. build_candidate_opportunity(c).impact = ZeroRange
  BY DEF build_candidate_opportunity
<1> QED BY <1>1 DEF countable_impact, stood_behind

\* The evaluations whose figures the total may hold.
Countable ==
  {i \in DOMAIN evaluations :
     LET e == evaluations[i] IN
     /\ e.calculated /\ produces_finding(e.outcome)
     /\ RuleOf(e.id).effect # "deferral"
     /\ referenced_facts(RuleOf(e.id)) \intersect Kinds(facts) # {}
     /\ ~Refuted(e.title) /\ 2 * Objection(e.title) < Whole}

\* What a finding adds to the total comes from the evaluation it was built from.
LEMMA FiguresSay ==
  ASSUME Concluding, NEW M, NEW L, NEW p, NEW r, Origins(M, L, p, r), NEW n \in 1..(M + L)
  PROVE  LET figure == countable_impact(AllFindings[n]) IN
         \/ figure = ZeroRange
         \/ /\ n \in 1..M /\ p[n] \in Countable /\ figure = evaluations[p[n]].impact
            /\ figure.low \in Int /\ figure.high \in Int
<1>1. /\ M \in Nat /\ L \in Nat /\ p \in [1..M -> Firing]
      /\ \A m \in 1..M : AllFindings[m] =
           build_rule_opportunity(RuleOf(evaluations[p[m]].id), evaluations[p[m]])
      /\ \A m \in 1..L : AllFindings[M + m] = build_candidate_opportunity(candidates[r[m]])
  BY DEF Origins, Bijection, Injection
<1>2. CASE n \notin 1..M
  <2>1. n - M \in 1..L /\ n = M + (n - M)
    BY <1>1, <1>2
  <2>2. AllFindings[n] = build_candidate_opportunity(candidates[r[n - M]])
    BY <1>1, <2>1
  <2> QED BY <2>2, CandidateFigure
<1>3. CASE n \in 1..M
  <2> DEFINE i == p[n]
             e == evaluations[i]
             rule == RuleOf(e.id)
             figure == countable_impact(AllFindings[n])
  <2>1. /\ i \in DOMAIN evaluations /\ produces_finding(e.outcome) /\ Looked(rule)
    BY <1>1, <1>3 DEF Firing
  <2>2. Evaluated(rule, e)
    BY <2>1, EachRuleOnce
  <2>3. e.impact.low \in Int /\ e.impact.high \in Int
    BY <2>2, EvaluationShape DEF Evaluated
  <2>4. AllFindings[n] = build_rule_opportunity(rule, e)
    BY <1>1, <1>3
  <2>5. VerdictsKnown
    BY DEF Concluding
  <2> HIDE DEF i, e, rule
  <2>6. \/ figure = ZeroRange
        \/ /\ figure = e.impact /\ e.calculated /\ rule.effect # "deferral"
           /\ referenced_facts(rule) # {}
           /\ ~Refuted(e.title) /\ 2 * Objection(e.title) < Whole
    BY <2>2, <2>4, <2>5, RuleFigure
  <2> HIDE DEF figure
  <2>7. CASE figure # ZeroRange
    <3>1. referenced_facts(rule) \intersect Kinds(facts) # {}
      BY <2>1, <2>6, <2>7 DEF Looked
    <3>2. i \in Countable
      BY <2>1, <2>6, <2>7, <3>1 DEF Countable, e, rule
    <3> QED BY <1>3, <2>3, <2>6, <2>7, <3>2 DEF figure, i, e
  <2> QED BY <2>7 DEF figure
<1> QED BY <1>2, <1>3

\* The sum of the figures of part, among K.
PartOf(K, part, figures) == SumOf([i \in 1..K |-> IF i \in part THEN figures[i] ELSE 0])

LEMMA PartGrows ==
  ASSUME NEW K \in Nat, NEW figures \in [1..K -> Int], NEW part \in SUBSET (1..K),
         NEW j \in 1..K, j \notin part
  PROVE  PartOf(K, part \union {j}, figures) = PartOf(K, part, figures) + figures[j]
<1> DEFINE w == [i \in 1..K |-> IF i \in part THEN figures[i] ELSE 0]
           x == [i \in 1..K |-> IF i \in part \union {j} THEN figures[i] ELSE 0]
           d == figures[j]
<1>1. w \in [1..K -> Int] /\ d \in Int /\ x \in [1..K -> Int]
  OBVIOUS
<1>2. \A i \in 1..K : x[i] = IF i = j THEN w[i] + d ELSE w[i]
  OBVIOUS
<1> HIDE DEF w, x, d
<1>3. SumOf(x) = SumOf(w) + d
  <2>1. Raised(x, w, K, j, d)
    BY <1>1, <1>2 DEF Raised
  <2> QED BY <2>1, SumGrows
<1> QED BY <1>3 DEF PartOf, w, x, d

LEMMA PartOfNothing ==
  ASSUME NEW K \in Nat, NEW figures \in [1..K -> Int]
  PROVE  PartOf(K, {}, figures) = 0
<1> DEFINE w == [i \in 1..K |-> IF i \in {} THEN figures[i] ELSE 0]
<1>1. w \in [1..K -> Int] /\ \A i \in 1..K : w[i] = 0
  OBVIOUS
<1> HIDE DEF w
<1>2. SumOf(w) = 0
  BY <1>1, SumOfNothing
<1> QED BY <1>2 DEF PartOf, w

\* The figures of s are nothing or figures of whole, h says which, none twice.
Drawn(N, s, K, whole, lows, highs, h) ==
  /\ N \in Nat /\ K \in Nat /\ \E S : s \in [1..N -> S]
  /\ whole \in SUBSET (1..K) /\ lows \in [1..K -> Int] /\ highs \in [1..K -> Int]
  /\ \A n \in 1..N : \/ countable_impact(s[n]) = ZeroRange
                     \/ /\ h[n] \in whole
                        /\ countable_impact(s[n]).low = lows[h[n]]
                        /\ countable_impact(s[n]).high = highs[h[n]]
  /\ \A m, n \in 1..N : countable_impact(s[m]) # ZeroRange /\ countable_impact(s[n]) # ZeroRange
                        /\ h[m] = h[n] => m = n

IsPart(total, K, whole, lows, highs) ==
  \/ IsZeroRange(total)
  \/ \E part \in SUBSET whole : /\ total.low = PartOf(K, part, lows)
                                /\ total.high = PartOf(K, part, highs)

LEMMA TotalIsPart ==
  ASSUME NEW N, NEW s, NEW K, NEW whole, NEW lows, NEW highs, NEW h,
         Drawn(N, s, K, whole, lows, highs, h)
  PROVE  IsPart(EstimatedTotal(s), K, whole, lows, highs)
<1> /\ N \in Nat /\ K \in Nat /\ \E S : s \in [1..N -> S]
    /\ whole \in SUBSET (1..K) /\ lows \in [1..K -> Int] /\ highs \in [1..K -> Int]
    /\ \A n \in 1..N : \/ countable_impact(s[n]) = ZeroRange
                       \/ /\ h[n] \in whole
                          /\ countable_impact(s[n]).low = lows[h[n]]
                          /\ countable_impact(s[n]).high = highs[h[n]]
    /\ \A m, n \in 1..N : countable_impact(s[m]) # ZeroRange /\ countable_impact(s[n]) # ZeroRange
                          /\ h[m] = h[n] => m = n
  BY DEF Drawn
<1> PICK S : s \in [1..N -> S]
  OBVIOUS
<1> DEFINE figure(n) == countable_impact(s[n])
           Adds(n) == figure(n) # ZeroRange
<1>1. \A n \in 1..N : figure(n).low \in Int /\ figure(n).high \in Int
  <2>1. ZeroRange.low \in Int /\ ZeroRange.high \in Int
    BY DEF ZeroRange
  <2> QED BY <2>1
<1>0. PICK f : IsTotal(f, N, s)
  BY <1>1, TotalRuns
<1>2. /\ f \in [0..N -> Totals] /\ f[0] = Ok(ZeroRange)
      /\ \A n \in 1..N : f[n] = IF ~f[n - 1].ok THEN f[n - 1]
                                ELSE AddRanges(f[n - 1].v, figure(n))
      /\ EstimatedTotal(s) = IF f[N].ok THEN f[N].v ELSE ZeroRange
  BY <1>0 DEF IsTotal
<1> DEFINE Sums(n, part) == /\ part \in SUBSET whole
                            /\ \A j \in part : \E m \in 1..n : Adds(m) /\ h[m] = j
                            /\ f[n].v.low = PartOf(K, part, lows)
                            /\ f[n].v.high = PartOf(K, part, highs)
           P == {n \in 0..N : f[n].ok => \E part : Sums(n, part)}
<1>3. 0 \in P
  <2>1. f[0].v.low = 0 /\ f[0].v.high = 0
    BY <1>2 DEF Ok, ZeroRange
  <2>2. Sums(0, {})
    BY <2>1, PartOfNothing
  <2> HIDE DEF Sums
  <2> QED BY <2>2
<1>4. ASSUME NEW n \in 0..(N - 1), n \in P
      PROVE  n + 1 \in P
  <2> DEFINE m == n + 1
  <2>1. m \in 1..N /\ m \in 0..N /\ m - 1 = n
    OBVIOUS
  <2> SUFFICES ASSUME f[m].ok
               PROVE  \E part : Sums(m, part)
    BY <2>1
  <2> HIDE DEF m, figure
  <2>2. f[m] = IF ~f[n].ok THEN f[n] ELSE AddRanges(f[n].v, figure(m))
    BY <1>2, <2>1
  <2>3. /\ f[n].ok
        /\ f[m].v.low = f[n].v.low + figure(m).low
        /\ f[m].v.high = f[n].v.high + figure(m).high
    BY <2>2 DEF AddRanges, Ok, Err
  <2>4. PICK part : Sums(n, part)
    BY <1>4, <2>3
  <2>5. f[n].v.low \in Int /\ f[n].v.high \in Int
    <3>1. f[n] \in Totals
      <4>1. n \in 0..N /\ f \in [0..N -> Totals]
        BY <1>2
      <4> QED BY <4>1
    <3>2. f[n] # Err("overflow")
      <4>1. Err("overflow").ok = FALSE
        BY DEF Err
      <4> QED BY <2>3, <4>1
    <3>3. f[n] \in [ok : {TRUE}, v : [low : Int, high : Int]]
      BY <3>1, <3>2 DEF Totals
    <3> QED BY <3>3
  <2>6. \A j \in part : \E i \in 1..m : Adds(i) /\ h[i] = j
    <3>1. \A i \in 1..n : i \in 1..m
      BY <2>1
    <3> QED BY <2>4, <3>1
  <2>7. CASE ~Adds(m)
    <3>1. figure(m).low = 0 /\ figure(m).high = 0
      BY <2>7 DEF ZeroRange
    <3>2. f[m].v.low = f[n].v.low /\ f[m].v.high = f[n].v.high
      BY <2>3, <2>5, <3>1
    <3>3. Sums(m, part)
      BY <2>4, <2>6, <3>2
    <3> HIDE DEF Sums
    <3> QED BY <3>3
  <2>8. CASE Adds(m)
    <3> DEFINE more == part \union {h[m]}
    <3>1. h[m] \in whole /\ figure(m).low = lows[h[m]] /\ figure(m).high = highs[h[m]]
      BY <2>1, <2>8 DEF figure
    <3>2. h[m] \notin part
      <4>1. ASSUME NEW i \in 1..n, Adds(i), h[i] = h[m]
            PROVE  FALSE
        <5>1. i \in 1..N /\ i # m
          BY <2>1
        <5> QED BY <2>1, <2>8, <4>1, <5>1 DEF figure
      <4> QED BY <2>4, <4>1
    <3>3. part \in SUBSET (1..K) /\ h[m] \in 1..K
      BY <2>4, <3>1
    <3>4. /\ PartOf(K, more, lows) = PartOf(K, part, lows) + lows[h[m]]
          /\ PartOf(K, more, highs) = PartOf(K, part, highs) + highs[h[m]]
      <4> DEFINE j == h[m]
      <4>1. j \in 1..K /\ j \notin part /\ more = part \union {j}
        BY <3>2, <3>3
      <4> HIDE DEF j, more
      <4>2. PartOf(K, part \union {j}, lows) = PartOf(K, part, lows) + lows[j]
        BY <3>3, <4>1, PartGrows
      <4>3. PartOf(K, part \union {j}, highs) = PartOf(K, part, highs) + highs[j]
        BY <3>3, <4>1, PartGrows
      <4> QED BY <4>1, <4>2, <4>3 DEF j
    <3>5. f[m].v.low = PartOf(K, more, lows) /\ f[m].v.high = PartOf(K, more, highs)
      BY <2>3, <2>4, <3>1, <3>4
    <3>6. more \in SUBSET whole
      BY <2>4, <3>1
    <3>7. \A j \in more : \E i \in 1..m : Adds(i) /\ h[i] = j
      <4>1. m \in 1..m
        BY <2>1
      <4> QED BY <2>6, <2>8, <4>1
    <3> HIDE DEF more
    <3>8. Sums(m, more)
      BY <3>5, <3>6, <3>7
    <3> HIDE DEF Sums
    <3> QED BY <3>8
  <2> QED BY <2>7, <2>8
<1> HIDE DEF P
<1>5. \A n \in 0..N : n \in P
  <2>1. \A n \in 0..(N - 1) : n \in P => n + 1 \in P
    BY <1>4
  <2> QED BY <1>3, <2>1, UpTo
<1>6. f[N].ok => \E part : Sums(N, part)
  <2>1. N \in P
    BY <1>5
  <2> HIDE DEF Sums
  <2> QED BY <2>1 DEF P
<1>7. CASE f[N].ok
  <2>1. PICK part : Sums(N, part)
    BY <1>6, <1>7
  <2>2. EstimatedTotal(s) = f[N].v
    BY <1>2, <1>7
  <2>3. /\ part \in SUBSET whole
        /\ f[N].v.low = PartOf(K, part, lows) /\ f[N].v.high = PartOf(K, part, highs)
    BY <2>1
  <2> QED BY <2>2, <2>3 DEF IsPart
<1>8. CASE ~f[N].ok
  <2>1. EstimatedTotal(s) = ZeroRange
    BY <1>2, <1>8
  <2> QED BY <2>1 DEF IsPart, IsZeroRange, ZeroRange
<1> QED BY <1>7, <1>8

\* The total of an answer is a part of what its evaluations support.
LEMMA AnswerTotal ==
  ASSUME Concluded
  PROVE  \E K \in Nat :
           /\ DOMAIN evaluations = 1..K
           /\ IsPart(result.summary.estimated_total, K, Countable,
                     [i \in 1..K |-> evaluations[i].impact.low],
                     [i \in 1..K |-> evaluations[i].impact.high])
<1>1. Concluding
  BY DEF Concluded
<1>2. PICK M, L, p, r : Origins(M, L, p, r) /\ \E q : Placed(M + L, q)
  BY FindingsArePlaced
<1>3. PICK q : Placed(M + L, q)
  BY <1>2
<1> DEFINE N == M + L
           shown == result.opportunities
           length == Len(shown)
           s == Presented(shown)
           I == {i \in DOMAIN shown : is_presented(shown[i])}
           A == Cardinality(I)
<1>4. /\ M \in Nat /\ L \in Nat /\ N \in Nat
      /\ \A i, j \in 1..M : p[i] = p[j] => i = j
  BY <1>2 DEF Origins, Bijection, Injection, IsInjective
<1>5. /\ DOMAIN shown = 1..length /\ length \in 0..N
      /\ \A n \in DOMAIN shown : shown[n] = AllFindings[q[n]]
      /\ q \in [1..N -> 1..N] /\ \A i, j \in 1..N : q[i] = q[j] => i = j
  BY <1>3 DEF Placed, Bijection, Injection, IsInjective
<1> HIDE DEF N, length
<1>6. length \in Nat /\ I \in SUBSET (1..length) /\ 1..length \subseteq 1..N
  BY <1>4, <1>5
<1>7. A \in Nat /\ \E d \in Bijection(1..A, I) : Draws(d, A, shown, s)
  <2>1. s = Picked(shown, I)
    BY DEF Presented
  <2> HIDE DEF I, s, shown
  <2> QED BY <1>6, <2>1, PickedPositions
<1>8. PICK d \in Bijection(1..A, I) : Draws(d, A, shown, s)
  BY <1>7
<1> HIDE DEF I, A
<1>9. d \in [1..A -> I] /\ \A i, j \in 1..A : d[i] = d[j] => i = j
  BY DEF Bijection, Injection, IsInjective
<1>10. s = [i \in 1..A |-> shown[d[i]]]
  BY <1>8 DEF Draws
<1> HIDE DEF s
<1> DEFINE c == [i \in 1..A |-> q[d[i]]]
           h == [i \in 1..A |-> p[c[i]]]
<1>11. \A i \in 1..A : c[i] \in 1..N /\ s[i] = AllFindings[c[i]]
  BY <1>5, <1>6, <1>9, <1>10
<1>12. \A i, j \in 1..A : c[i] = c[j] => i = j
  BY <1>5, <1>6, <1>9
<1>13. \A i \in 1..A : h[i] = p[c[i]]
  OBVIOUS
<1> HIDE DEF c, h, shown
<1>14. PICK K \in Nat : /\ DOMAIN evaluations = 1..K
                        /\ \A i \in 1..K : Evaluated(RuleOf(evaluations[i].id), evaluations[i])
  BY <1>1, EachRuleOnce
<1> DEFINE lows == [i \in 1..K |-> evaluations[i].impact.low]
           highs == [i \in 1..K |-> evaluations[i].impact.high]
<1>15. lows \in [1..K -> Int] /\ highs \in [1..K -> Int]
  <2>1. ASSUME NEW i \in 1..K
        PROVE  evaluations[i].impact.low \in Int /\ evaluations[i].impact.high \in Int
    BY <1>14, EvaluationShape DEF Evaluated
  <2> QED BY <2>1
<1>16. \A i \in 1..K : lows[i] = evaluations[i].impact.low /\ highs[i] = evaluations[i].impact.high
  OBVIOUS
<1>17. Countable \in SUBSET (1..K)
  BY <1>14 DEF Countable
<1> HIDE DEF lows, highs
<1>18. ASSUME NEW i \in 1..A, countable_impact(s[i]) # ZeroRange
       PROVE  /\ c[i] \in 1..M /\ h[i] \in Countable
              /\ countable_impact(s[i]).low = lows[h[i]]
              /\ countable_impact(s[i]).high = highs[h[i]]
  <2> DEFINE n == c[i]
             figure == countable_impact(AllFindings[n])
  <2>1. n \in 1..(M + L) /\ s[i] = AllFindings[n] /\ h[i] = p[n]
    BY <1>11, <1>13 DEF N
  <2> HIDE DEF n
  <2>2. n \in 1..M /\ p[n] \in Countable /\ figure = evaluations[p[n]].impact
    BY <1>1, <1>2, <1>18, <2>1, FiguresSay
  <2>3. p[n] \in 1..K
    BY <1>17, <2>2
  <2> QED BY <1>16, <2>1, <2>2, <2>3 DEF n
<1>19. ASSUME NEW i \in 1..A, NEW j \in 1..A, h[i] = h[j],
              countable_impact(s[i]) # ZeroRange, countable_impact(s[j]) # ZeroRange
       PROVE  i = j
  <2>1. c[i] \in 1..M /\ c[j] \in 1..M
    BY <1>18, <1>19
  <2>2. p[c[i]] = p[c[j]]
    BY <1>13, <1>19
  <2> QED BY <1>4, <1>12, <2>1, <2>2
<1>20. \E S : s \in [1..A -> S]
  <2>1. s \in [1..A -> {shown[d[i]] : i \in 1..A}]
    BY <1>10
  <2> QED BY <2>1
<1>21. Drawn(A, s, K, Countable, lows, highs, h)
  <2>1. \A i \in 1..A : \/ countable_impact(s[i]) = ZeroRange
                        \/ /\ h[i] \in Countable
                           /\ countable_impact(s[i]).low = lows[h[i]]
                           /\ countable_impact(s[i]).high = highs[h[i]]
    BY <1>18
  <2>2. \A i, j \in 1..A : countable_impact(s[i]) # ZeroRange /\ countable_impact(s[j]) # ZeroRange
                           /\ h[i] = h[j] => i = j
    BY <1>19
  <2>3. A \in Nat
    BY <1>7
  <2> QED BY <1>15, <1>17, <1>20, <2>1, <2>2, <2>3, ZenonT(60) DEF Drawn
<1>22. IsPart(EstimatedTotal(s), K, Countable, lows, highs)
  BY <1>21, TotalIsPart
<1>23. result.summary.estimated_total = EstimatedTotal(s)
  BY DEF Concluded, s, shown
<1> QED BY <1>14, <1>22, <1>23 DEF lows, highs

\* The headline total of a concluded run is nothing, or the sum of figures that
\* rules computed from values read in the documents, each rule once, none of them
\* refuted, seriously objected to or a deferral (pipeline.rs build_*_opportunity,
\* analysis.rs countable_impact and summarise): what CountedIsSupported says.
THEOREM CountsWhatIsSupported == PipelineSpec => []CountedIsSupported
<1>1. RunInv => CountedIsSupported
  <2> SUFFICES ASSUME RunInv, stage = "done"
               PROVE  CountedIsSupported
    BY DEF CountedIsSupported
  <2>1. Concluded
    BY DEF RunInv
  <2>2. PICK K \in Nat : /\ DOMAIN evaluations = 1..K
                         /\ IsPart(result.summary.estimated_total, K, Countable,
                                   [i \in 1..K |-> evaluations[i].impact.low],
                                   [i \in 1..K |-> evaluations[i].impact.high])
    BY <2>1, AnswerTotal
  <2> QED BY <2>2 DEF CountedIsSupported, IsPart, PartOf, Countable
<1> QED BY <1>1, RunInvAlways, PTL

=============================================================================

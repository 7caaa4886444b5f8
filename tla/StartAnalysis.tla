--------------------------- MODULE StartAnalysis ---------------------------
(***************************************************************************)
(* The request that turns an order into work: start_analysis of            *)
(* apps/api/src/routes.rs, with redeem_order, check_rate_limit and the     *)
(* queue's enqueue.                                                        *)
(*                                                                         *)
(* The analysis row and the redemption are one transaction; the job is     *)
(* inserted afterwards by a statement of its own.  Requests run            *)
(* concurrently, on several replicas, and may end between the two.  The    *)
(* analysis a request creates is identified with the request.              *)
(***************************************************************************)
EXTENDS Naturals, FiniteSets

CONSTANTS Requests,    \* POST /v1/analyses requests of one company
          Orders,      \* its orders
          OrderOf,     \* Requests -> the order_id sent, or None
          HeaderKeys,  \* keys clients send in Idempotency-Key; parse admits
                       \* a derived key there like any other
          Limit,       \* the analysis bucket's quota per window
          None,        \* NULL, and an absent order_id
          BadKey       \* a header that is not a key

ASSUME OrderOfAssumption == OrderOf \in [Requests -> Orders \cup {None}]
ASSUME LimitAssumption == Limit \in Nat
ASSUME NamesAssumption ==
  /\ None \notin Orders \cup Requests
  /\ "refused" \notin Requests
  /\ BadKey \notin HeaderKeys \cup Orders \cup {None}

\* Mutant of DerivedKey: the order is not part of the key.
DerivedFromDocuments(r) == None

\* derived_for_order and derived, for requests over the same documents: one
\* key per order, and one for the requests that name none.
DerivedKey(r) == OrderOf[r]

Keys == HeaderKeys \cup Orders \cup {None}

VARIABLES
  paymentsRequired,  \* whether this deployment takes payments
  order,        \* orders.state
  deliverable,  \* deliverable_from <= now()
  analysisOf,   \* orders.analysis_id
  analyses,     \* the rows of analysis_jobs
  audience,     \* those with analysis_jobs.audience stamped
  subject,      \* jobs.subject_id by idempotency key
  count,        \* rate_limit_counters.count of the current window
  handler,      \* where each request's handler is
  key,          \* the key it used, BadKey before
  fromHeader,   \* whether that key came in its header
  reply         \* the analysis a 202 named, "refused", or None

vars == <<paymentsRequired, order, deliverable, analysisOf, analyses, audience,
          subject, count, handler, key, fromHeader, reply>>

\* The columns' types; a reply names an analysis, refuses, or is outstanding.
TypeOK ==
  /\ paymentsRequired \in BOOLEAN
  /\ order \in [Orders -> {"awaiting_payment", "paid", "consumed",
                          "refund_owed"}]
  /\ deliverable \in [Orders -> BOOLEAN]
  /\ analysisOf \in [Orders -> Requests \cup {None}]
  /\ analyses \subseteq Requests
  /\ audience \subseteq Requests
  /\ subject \in [Keys -> Requests \cup {None}]
  /\ count \in Nat
  /\ handler \in [Requests -> {"waiting", "committed", "ended"}]
  /\ key \in [Requests -> Keys \cup {BadKey}]
  /\ fromHeader \in [Requests -> BOOLEAN]
  /\ reply \in [Requests -> Requests \cup {"refused", None}]

Init ==
  /\ paymentsRequired \in BOOLEAN
  /\ order = [o \in Orders |-> "awaiting_payment"]
  /\ deliverable \in [Orders -> BOOLEAN]
  /\ analysisOf = [o \in Orders |-> None]
  /\ analyses = {}
  /\ audience = {}
  /\ subject = [k \in Keys |-> None]
  /\ count = 0
  /\ handler = [r \in Requests |-> "waiting"]
  /\ key = [r \in Requests |-> BadKey]
  /\ fromHeader = [r \in Requests |-> FALSE]
  /\ reply = [r \in Requests |-> None]

-----------------------------------------------------------------------------
(* The order's other moves, made by Payments.                              *)

OrderPaid(o) ==
  /\ order[o] = "awaiting_payment"
  /\ order' = [order EXCEPT ![o] = "paid"]
  /\ UNCHANGED <<paymentsRequired, deliverable, analysisOf, analyses, audience,
                 subject, count, handler, key, fromHeader, reply>>

OrderCancelled(o) ==
  /\ order[o] = "paid" /\ ~deliverable[o]
  /\ order' = [order EXCEPT ![o] = "refund_owed"]
  /\ UNCHANGED <<paymentsRequired, deliverable, analysisOf, analyses, audience,
                 subject, count, handler, key, fromHeader, reply>>

PeriodEnds(o) ==
  /\ ~deliverable[o]
  /\ deliverable' = [deliverable EXCEPT ![o] = TRUE]
  /\ UNCHANGED <<paymentsRequired, order, analysisOf, analyses, audience,
                 subject, count, handler, key, fromHeader, reply>>

-----------------------------------------------------------------------------
(* The handler.                                                            *)

End(r, answer) ==
  /\ handler' = [handler EXCEPT ![r] = "ended"]
  /\ reply' = [reply EXCEPT ![r] = answer]

Tables == <<paymentsRequired, order, deliverable, analysisOf, analyses,
            audience, subject>>

\* check_rate_limit counts the request first and compares afterwards.
Allowed == count + 1 <= Limit

\* Over the quota: the count is committed and the request refused.
RateLimited(r) ==
  /\ handler[r] = "waiting" /\ ~Allowed
  /\ count' = count + 1
  /\ End(r, "refused")
  /\ UNCHANGED <<Tables, key, fromHeader>>

\* A new window starts at a count of its own.
WindowRolls ==
  /\ count > 0
  /\ count' = 0
  /\ UNCHANGED <<Tables, handler, key, fromHeader, reply>>

\* A refusal inside the transaction drops it, with the count and the new
\* analysis row.  First, a document version this company does not have.
UnknownDocument(r) ==
  /\ handler[r] = "waiting" /\ Allowed
  /\ End(r, "refused")
  /\ UNCHANGED <<Tables, count, key, fromHeader>>

\* Mutant of Redeemable: the order's state is not asked for.
RedeemableAnyState(o) == deliverable[o]

Redeemable(o) == order[o] = "paid" /\ deliverable[o]

\* No order_id, an order that is not deliverable yet, or one not payable.
OrderRefused(r) ==
  /\ handler[r] = "waiting" /\ Allowed
  /\ paymentsRequired
  /\ OrderOf[r] # None =>
       ~Redeemable(OrderOf[r]) /\ analysisOf[OrderOf[r]] = None
  /\ End(r, "refused")
  /\ UNCHANGED <<Tables, count, key, fromHeader>>

\* Mutant of AlreadyBought: the request's own, rolled back analysis is named.
AlreadyBoughtNewId(r) ==
  /\ handler[r] = "waiting" /\ Allowed
  /\ paymentsRequired /\ OrderOf[r] # None
  /\ analysisOf[OrderOf[r]] # None
  /\ End(r, r)
  /\ UNCHANGED <<Tables, count, key, fromHeader>>

\* The order names the analysis it bought; that one is the answer.
AlreadyBought(r) ==
  /\ handler[r] = "waiting" /\ Allowed
  /\ paymentsRequired /\ OrderOf[r] # None
  /\ analysisOf[OrderOf[r]] # None
  /\ End(r, analysisOf[OrderOf[r]])
  /\ UNCHANGED <<Tables, count, key, fromHeader>>

\* Mutant of CreateAndRedeem: the order's own id is bound as its analysis_id.
RedeemWithOwnId(r) ==
  /\ handler[r] = "waiting" /\ Allowed
  /\ paymentsRequired /\ OrderOf[r] # None /\ Redeemable(OrderOf[r])
  /\ order' = [order EXCEPT ![OrderOf[r]] = "consumed"]
  /\ analysisOf' = [analysisOf EXCEPT ![OrderOf[r]] = OrderOf[r]]
  /\ audience' = audience \cup {r}
  /\ analyses' = analyses \cup {r}
  /\ count' = count + 1
  /\ handler' = [handler EXCEPT ![r] = "committed"]
  /\ UNCHANGED <<paymentsRequired, deliverable, subject, key, fromHeader, reply>>

\* create_analysis and redeem_order, committed together with the count.
CreateAndRedeem(r) ==
  /\ handler[r] = "waiting" /\ Allowed
  /\ LET o == OrderOf[r] IN
       IF paymentsRequired
       THEN /\ o # None /\ Redeemable(o)
            /\ order' = [order EXCEPT ![o] = "consumed"]
            /\ analysisOf' = [analysisOf EXCEPT ![o] = r]
            /\ audience' = audience \cup {r}
       ELSE UNCHANGED <<order, analysisOf, audience>>
  /\ analyses' = analyses \cup {r}
  /\ count' = count + 1
  /\ handler' = [handler EXCEPT ![r] = "committed"]
  /\ UNCHANGED <<paymentsRequired, deliverable, subject, key, fromHeader, reply>>

\* The key in the header does not parse: 400, after the commit.
KeyRefused(r) ==
  /\ handler[r] = "committed"
  /\ End(r, "refused")
  /\ UNCHANGED <<Tables, count, key, fromHeader>>

\* The header's key if there is a header, else one derived from the work.
KeyFor(r, k) ==
  /\ \/ k \in HeaderKeys /\ fromHeader' = [fromHeader EXCEPT ![r] = TRUE]
     \/ k = DerivedKey(r) /\ UNCHANGED fromHeader
  /\ key' = [key EXCEPT ![r] = k]

EnqueueJob(r, k) ==
  /\ handler[r] = "committed" /\ KeyFor(r, k)
  /\ subject[k] = None
  /\ subject' = [subject EXCEPT ![k] = r]
  /\ End(r, r)
  /\ UNCHANGED <<paymentsRequired, order, deliverable, analysisOf, analyses,
                 audience, count>>

\* The key is taken: the job that has it is the answer.
EnqueueDuplicate(r, k) ==
  /\ handler[r] = "committed" /\ KeyFor(r, k)
  /\ subject[k] # None
  /\ End(r, subject[k])
  /\ UNCHANGED <<Tables, count>>

\* The enqueue fails, the client hangs up, or the replica dies: nobody knows
\* of the analysis but the database.
HandlerDies(r) ==
  /\ handler[r] = "committed"
  /\ End(r, None)
  /\ UNCHANGED <<Tables, count, key, fromHeader>>

-----------------------------------------------------------------------------
Next ==
  \/ \E o \in Orders : OrderPaid(o)
  \/ \E o \in Orders : OrderCancelled(o)
  \/ \E o \in Orders : PeriodEnds(o)
  \/ WindowRolls
  \/ \E r \in Requests : RateLimited(r)
  \/ \E r \in Requests : UnknownDocument(r)
  \/ \E r \in Requests : OrderRefused(r)
  \/ \E r \in Requests : AlreadyBought(r)
  \/ \E r \in Requests : CreateAndRedeem(r)
  \/ \E r \in Requests : KeyRefused(r)
  \/ \E r \in Requests, k \in Keys : EnqueueJob(r, k)
  \/ \E r \in Requests, k \in Keys : EnqueueDuplicate(r, k)
  \/ \E r \in Requests : HandlerDies(r)

Spec == Init /\ [][Next]_vars

-----------------------------------------------------------------------------
(* Properties.                                                             *)

Jobs == {subject[k] : k \in Keys} \ {None}

\* Nothing runs unpaid and nothing paid runs twice: where payments are
\* required, every queued analysis is the one named by a consumed order and
\* carries its audience, no two orders name the same one, and no analysis is
\* the subject of two jobs.
EveryRunIsPaidOnce ==
  /\ paymentsRequired =>
       \A r \in Jobs : \E o \in Orders :
          order[o] = "consumed" /\ analysisOf[o] = r /\ r \in audience
  /\ \A o, p \in Orders :
       (analysisOf[o] # None /\ analysisOf[o] = analysisOf[p]) => o = p
  /\ \A k, l \in Keys : (subject[k] # None /\ subject[k] = subject[l]) => k = l

\* A 202 never names an analysis whose transaction was rolled back, whichever
\* of the three branches answered.
AnswersNameRealAnalyses ==
  \A r \in Requests : reply[r] \in Requests => reply[r] \in analyses

\* Whoever sends an order and no key of their own, and is answered with an
\* analysis, is answered with the one that order bought, whatever keys other
\* requests sent: "They paid, and were given something else" is what the derived
\* key is there to prevent.  The one exception is a request whose header spelled
\* out this order's derived key and whose job got there first; parse (job.rs)
\* admits such a header.
AnsweredWithPurchase ==
  \A r \in Requests :
    paymentsRequired /\ reply[r] \in Requests /\ ~fromHeader[r]
      => \/ analysisOf[OrderOf[r]] = reply[r]
         \/ fromHeader[reply[r]] /\ key[reply[r]] = DerivedKey(r)

\* "the order in front of it already makes the key unique" (job.rs,
\* derived_for_order): without the exception.
DerivedKeysAreTheirs ==
  \A r \in Requests :
    paymentsRequired /\ reply[r] \in Requests /\ ~fromHeader[r]
      => analysisOf[OrderOf[r]] = reply[r]

\* "One paid order buys exactly one analysis. Not zero, not two."
\* (migration 0009): once the request that spent the order has ended, the
\* analysis it bought is in the queue.
BoughtIsQueued ==
  \A o \in Orders :
    (order[o] = "consumed" /\ handler[analysisOf[o]] = "ended")
      => analysisOf[o] \in Jobs

=============================================================================

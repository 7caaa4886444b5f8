---------------------------- MODULE OrderPromise ----------------------------
(***************************************************************************)
(* What the shop promises a buyer, without rows, callbacks or sweeps: an   *)
(* order is credited only against money the provider has taken for it, is  *)
(* spent or refunded at most once and never both, and what was decided     *)
(* stays decided.  Payments is shown to implement it.                      *)
(***************************************************************************)
CONSTANTS Orders, Analyses, None

VARIABLES promise,  \* "open", "refused", "credited", "delivered", "refund"
          paidIn,   \* the provider has taken the right sum for this order
          bought    \* the analysis the order was spent on

promiseVars == <<promise, paidIn, bought>>

Init ==
  /\ promise = [o \in Orders |-> "open"]
  /\ paidIn = [o \in Orders |-> FALSE]
  /\ bought = [o \in Orders |-> None]

Pay(o) ==
  /\ ~paidIn[o]
  /\ paidIn' = [paidIn EXCEPT ![o] = TRUE]
  /\ UNCHANGED <<promise, bought>>

Credit(o) ==
  /\ promise[o] = "open" /\ paidIn[o]
  /\ promise' = [promise EXCEPT ![o] = "credited"]
  /\ UNCHANGED <<paidIn, bought>>

Refuse(o) ==
  /\ promise[o] = "open"
  /\ promise' = [promise EXCEPT ![o] = "refused"]
  /\ UNCHANGED <<paidIn, bought>>

Deliver(o, a) ==
  /\ promise[o] = "credited"
  /\ \A p \in Orders : bought[p] # a
  /\ promise' = [promise EXCEPT ![o] = "delivered"]
  /\ bought' = [bought EXCEPT ![o] = a]
  /\ UNCHANGED paidIn

Refund(o) ==
  /\ promise[o] = "credited"
  /\ promise' = [promise EXCEPT ![o] = "refund"]
  /\ UNCHANGED <<paidIn, bought>>

Next ==
  \E o \in Orders :
    \/ Pay(o) \/ Credit(o) \/ Refuse(o) \/ Refund(o)
    \/ \E a \in Analyses : Deliver(o, a)

Spec == Init /\ [][Next]_promiseVars

=============================================================================

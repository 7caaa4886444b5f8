SPECIFICATION Spec
CONSTANTS
  o1 = o1
  o2 = o2
  r1 = r1
  r2 = r2
  r3 = r3
  r4 = r4
  Orders <- MCOrders
  Requests <- MCRequests
  OrderOf <- MCOrderOf
  HeaderKeys = {h1, o1}
  Limit = 2
  None = None
  BadKey = BadKey
SYMMETRY Symmetry
\* Every request is answered in the end and nothing is left to do.
CHECK_DEADLOCK FALSE
INVARIANTS
  EveryRunIsPaidOnce
  AnswersNameRealAnalyses
  AnsweredWithPurchase

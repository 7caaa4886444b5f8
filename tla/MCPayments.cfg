SPECIFICATION Spec
CONSTANTS
  o1 = o1
  o2 = o2
  a1 = a1
  a2 = a2
  c1 = c1
  s1 = s1
  Orders <- MCOrders
  Analyses <- MCAnalyses
  Callbacks = {c1}
  Sweepers = {s1}
  Batch = 2
  None = None
SYMMETRY Symmetry
\* Every order may be settled and spent, and then nothing is left to do.
CHECK_DEADLOCK FALSE
INVARIANTS
  RowsAgree
  PaidMeansPaid
  SpentOnce
  MoneyNotLost
PROPERTIES
  KeepsPromise

SPECIFICATION FairSpec
CONSTANTS
  o1 = o1
  o2 = o2
  a1 = a1
  a2 = a2
  c1 = c1
  s1 = s1
  Orders <- MCOrders
  Analyses <- MCAnalyses
  Callbacks = {}
  Sweepers = {s1}
  Batch = 2
  None = None
CHECK_DEADLOCK FALSE
PROPERTIES
  EveryPaymentSettles

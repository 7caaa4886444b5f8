SPECIFICATION Spec
CONSTANTS
  n1 = n1
  n2 = n2
  w1 = w1
  w2 = w2
  Notices <- MCNotices
  Workers <- MCWorkers
  Batch = 2
  MaxAttempts = 3
  EmailRelay = TRUE
  Faults = TRUE
  NoNotice = NoNotice
SYMMETRY Symmetry
\* Every notification is delivered or given up, and nothing is left to do.
CHECK_DEADLOCK FALSE
INVARIANTS
  OneWorkerPerNotice
  AttemptsBounded
  RowTellsTheTruth
PROPERTIES
  EmailNotRepeated

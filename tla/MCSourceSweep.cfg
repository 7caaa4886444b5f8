SPECIFICATION SweepSpec
CONSTANTS
  Workers = {w1, w2}
  NumSources = 3
  NoUrl = {2}
  MaxVersion = 2
  Contradicting = {1}
  Panicking = {2}
  MaxFaults = 2
CHECK_DEADLOCK FALSE
INVARIANTS
  OneSweepAtATime
PROPERTIES
  TrueVerdictLasts
  NeglectedSourceIsChecked

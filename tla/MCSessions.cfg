SPECIFICATION Spec
CONSTANTS
  Companies = {"a", "b"}
  Requests = {r1, r2, r3, r4}
  MaxRows = 4
  MaxFailed = 1
CHECK_DEADLOCK FALSE
SYMMETRY MCSymmetry
INVARIANTS
  OneLiveGeneration
  SignedOutStaysOut
  LostAnswerForgiven

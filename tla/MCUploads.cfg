SPECIFICATION Spec
CONSTANTS
  Tickets = {t1, t2}
  Requests = {r1, r2, r3, r4}
  Limit = 1
  Nothing = Nothing
CHECK_DEADLOCK FALSE
SYMMETRY MCSymmetry
INVARIANTS
  UploadedVersionHasBytes
  TicketRedeemedOnce

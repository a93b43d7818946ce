CONSTANTS
  r1 = r1
  r2 = r2
  i1 = i1
  i2 = i2
  Requests <- MCRequests
  Ids <- MCIds
  Enter = 2
  MaxTroubles = 2
  LateRejects = FALSE
  Reopened = TRUE
SPECIFICATION Spec
CHECK_DEADLOCK FALSE
SYMMETRY Interchangeable
INVARIANTS BlockerOnDisk AtMostOnce FailedNotEntered

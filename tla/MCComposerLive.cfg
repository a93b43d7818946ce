CONSTANTS
  r1 = r1
  r2 = r2
  i1 = i1
  i2 = i2
  Requests <- OneRequest
  Ids <- OneId
  Enter = 2
  MaxTroubles = 2
  LateRejects = FALSE
  Reopened = TRUE
SPECIFICATION FairSpec
CHECK_DEADLOCK FALSE
PROPERTIES ExecutorEnds RequestAnswered

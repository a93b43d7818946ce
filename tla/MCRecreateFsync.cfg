SPECIFICATION Spec
CONSTANTS
  MaxAttempts = 1
  MaxFaults = 2
  MaxCrashes = 1
  MaxByHand = 0
  SyncFaults = TRUE
  EarlyRecovery = FALSE
INVARIANTS CurrentExists CleanAtRest
CHECK_DEADLOCK FALSE

SPECIFICATION Spec
CONSTANTS
  MaxAttempts = 1
  MaxFaults = 2
  MaxCrashes = 2
  MaxByHand = 1
  SyncFaults = TRUE
  EarlyRecovery = FALSE
INVARIANTS CurrentExists
PROPERTIES OrphansWait
CHECK_DEADLOCK FALSE

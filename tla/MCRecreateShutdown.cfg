SPECIFICATION Spec
CONSTANTS
  MaxAttempts = 2
  MaxFaults = 0
  MaxCrashes = 0
  MaxByHand = 0
  SyncFaults = FALSE
  EarlyRecovery = FALSE
PROPERTIES NothingForwardAfterStop
CHECK_DEADLOCK FALSE

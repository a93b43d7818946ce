SPECIFICATION Spec
CONSTANTS
  MaxAttempts = 1
  MaxFaults = 0
  MaxCrashes = 2
  MaxByHand = 0
  SyncFaults = FALSE
  EarlyRecovery = TRUE
PROPERTIES NeverRemovesCurrent
CHECK_DEADLOCK FALSE

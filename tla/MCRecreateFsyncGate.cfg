SPECIFICATION Spec
CONSTANTS
  MaxAttempts = 1
  MaxFaults = 1
  MaxCrashes = 0
  MaxByHand = 0
  SyncFaults = TRUE
  EarlyRecovery = FALSE
INVARIANTS GateCoversAttempts
CHECK_DEADLOCK FALSE

SPECIFICATION FairSpec
CONSTANTS
  MaxAttempts = 2
  MaxFaults = 2
  MaxCrashes = 1
  MaxByHand = 1
  SyncFaults = FALSE
  EarlyRecovery = FALSE
INVARIANTS CurrentExists OneWriter GateCoversAttempts NothingForgotten CleanAtRest
PROPERTIES DisableWins ResolvedOnEvidence SeedOnlyAfterCommit ImplementsSwap Resolves
CHECK_DEADLOCK FALSE

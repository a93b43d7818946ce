SPECIFICATION FairSpec
CONSTANTS
  QueueEvents = 1
  FileLines = 3
  FlushEvery = 9
  MaxEvents = 1
  MaxFaults = 0
  Worlds <- MCWorlds
  ReplayBudget = 1
  LiveBudget = 2
  QueueBudget = 1
  StalePages = FALSE
  MaxDrops = 1
  MaxFollows = 1
INVARIANTS NoSilentHole WireInOrder
CHECK_DEADLOCK FALSE
PROPERTY CaughtUp

SPECIFICATION StreamSpec
CONSTANTS
  QueueEvents = 1
  FileLines = 3
  FlushEvery = 9
  MaxEvents = 1
  MaxFaults = 0
  Worlds <- MCWorlds
  ReplayBudget = 1
  LiveBudget = 2
  QueueBudget = 1
  StalePages = TRUE
  MaxDrops = 1
  MaxFollows = 1
INVARIANT NoSilentHole
CHECK_DEADLOCK FALSE

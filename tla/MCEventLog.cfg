SPECIFICATION LogSpec
CONSTANTS
  QueueEvents = 2
  FileLines = 3
  FlushEvery = 2
  MaxEvents = 4
  MaxFaults = 2
  Worlds <- MCWorlds
INVARIANTS SeqsIncrease PersistedIsInFile LossKept PurgedStaysEmpty
CHECK_DEADLOCK FALSE

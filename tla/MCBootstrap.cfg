SPECIFICATION FairSpec
CONSTANTS
  Clients = {c1, c2}
  Verbs = {"start", "stop", "delete", "purge"}
  MaxVerbs = 1
  MaxFaults = 1
  Stages = 1
  MaxChunks = 2
  BufferChunks = 1
  LateCreate = FALSE
INVARIANTS NotStranded WholeLog
PROPERTIES RunEndsTold
CHECK_DEADLOCK FALSE

SPECIFICATION Spec
CONSTANTS
  Clients = {c1}
  Verbs = {"start", "stop"}
  MaxVerbs = 2
  MaxFaults = 0
  Stages = 1
  MaxChunks = 0
  BufferChunks = 1
  LateCreate = FALSE
INVARIANT FailedNeverRuns
CHECK_DEADLOCK FALSE

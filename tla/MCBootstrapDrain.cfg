SPECIFICATION Spec
CONSTANTS
  Clients = {c1}
  Verbs = {"start", "stop"}
  MaxVerbs = 0
  MaxFaults = 0
  Stages = 1
  MaxChunks = 0
  BufferChunks = 1
  LateCreate = TRUE
INVARIANT NotStranded
CHECK_DEADLOCK FALSE

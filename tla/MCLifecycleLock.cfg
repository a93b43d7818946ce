SPECIFICATION FairSpec
CONSTANTS
  Callers = {start, stop, recreate, resolve}
  NoCaller = NoCaller
  FailFast = {recreate}
  Exempt = {resolve}
  Recreates = {recreate}
  Resolves = {resolve}
  MaxCalls = 6
INVARIANTS QueueMatchesCalls Fifo NoBodyUnderAttempt
PROPERTIES QueuedCallsLeave ImplementsMutex
CHECK_DEADLOCK FALSE

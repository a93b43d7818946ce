CONSTANTS
  d1 = d1
  d2 = d2
  Disables <- OneDisable
  KindsOf <- OneKind
  MaxOps = 2
  MaxHooks = 0
  MaxFaults = 0
SPECIFICATION Spec
CHECK_DEADLOCK FALSE
INVARIANTS OverlapWinsInD1

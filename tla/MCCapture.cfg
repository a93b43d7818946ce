CONSTANTS
  d1 = d1
  d2 = d2
  Disables <- MCDisables
  KindsOf <- MCKinds
  MaxOps = 2
  MaxHooks = 1
  MaxFaults = 1
SPECIFICATION Spec
CHECK_DEADLOCK FALSE
INVARIANTS RevocationStands RevocationWinsInD1 FilesOnlyIfAuthorized
PROPERTIES NoAdmissionAfterCut

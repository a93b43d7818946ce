SPECIFICATION Spec
CONSTANTS
  c1 = c1
  c2 = c2
  c3 = c3
  Clients <- MCClients
  MaxExecs = 3
  MaxTroubles = 1
SYMMETRY Interchangeable
INVARIANTS TypeOK NoLeakedExec
PROPERTIES JoinsLive LiveClientSurvives
CHECK_DEADLOCK FALSE

SPECIFICATION BellSpec
CONSTANTS
  c1 = c1
  c2 = c2
  s1 = s1
  s2 = s2
  Clients <- MCClients
  MaxExecs = 3
  MaxTroubles = 2
  Sweeps <- OneSweep
  MaxSweeps = 3
SYMMETRY SocketsInterchangeable
INVARIANTS NoLeakedExec OncePerAbsence
PROPERTIES JoinsLive LiveClientSurvives
CHECK_DEADLOCK FALSE

SPECIFICATION BellSpec
CONSTANTS
  c1 = c1
  c2 = c2
  s1 = s1
  s2 = s2
  Clients <- MCClients
  MaxExecs = 3
  MaxTroubles = 2
  Sweeps <- TwoSweeps
  MaxSweeps = 3
SYMMETRY Interchangeable
INVARIANTS OncePerAbsence
CHECK_DEADLOCK FALSE

SPECIFICATION Spec
CONSTANTS
  c1 = c1
  c2 = c2
  c3 = c3
  Clients <- TwoClients
  MaxExecs = 3
  MaxTroubles = 1
SYMMETRY InterchangeableTwo
INVARIANTS TypistSees
CHECK_DEADLOCK FALSE

--------------------------- MODULE MCBellSweeper ---------------------------
EXTENDS BellSweeper, TLC
CONSTANTS c1, c2, s1, s2
MCClients == {c1, c2}
OneSweep  == {s1}
TwoSweeps == {s1, s2}
Interchangeable == Permutations(MCClients) \cup Permutations(TwoSweeps)
SocketsInterchangeable == Permutations(MCClients)
=============================================================================

--------------------------- MODULE MCSharedTerminal ---------------------------
EXTENDS SharedTerminal, TLC
CONSTANTS c1, c2, c3
MCClients == {c1, c2, c3}
TwoClients == {c1, c2}
Interchangeable == Permutations(MCClients)
InterchangeableTwo == Permutations(TwoClients)
=============================================================================

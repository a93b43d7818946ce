----------------------------- MODULE MCComposer -----------------------------
\* Instances of Composer for TLC: two requests, with one id or with two; and one
\* request alone, for what must eventually happen.
EXTENDS Composer, TLC

CONSTANTS r1, r2, i1, i2
MCRequests == {r1, r2}
MCIds == {i1, i2}
OneRequest == {r1}
OneId == {i1}
Interchangeable == Permutations(MCRequests) \union Permutations(MCIds)
=============================================================================

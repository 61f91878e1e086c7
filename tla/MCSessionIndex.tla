--------------------------- MODULE MCSessionIndex ---------------------------
\* The ids of sessions are interchangeable: no definition prefers one.
EXTENDS SessionIndex, TLC

Symmetry == Permutations(Sessions)
=============================================================================

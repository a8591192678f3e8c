---------------------------- MODULE MCWinDriver -----------------------------
EXTENDS WinDriver, TLC

CONSTANTS p1, p2, c1, c2, v1, v2

MCSymmetry == Permutations({c1, c2}) \cup Permutations({v1, v2}) \cup Permutations({p1, p2})
=============================================================================

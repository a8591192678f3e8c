----------------------------- MODULE MCPTDevice -----------------------------
EXTENDS PTDevice, TLC

CONSTANTS p1, p2, t1, t2, t3, f1, f2

MCProcOf == [t \in Threads |-> IF t = t3 THEN p2 ELSE p1]

\* The threads of one process, and the files, are interchangeable.
MCSymmetry == Permutations({t1, t2}) \cup Permutations({f1, f2})
=============================================================================

--------------------------- MODULE MCLookupStore ---------------------------
EXTENDS LookupStore, TLC

CONSTANTS r1, r2, w1, w2, v0, v1, v2, o1, o2, o3, o4, o5

\* v0 was built for the first database, v1 for it as well, v2 for the second.
MCDbOf == [v \in Versions |-> IF v = v2 THEN 1 ELSE 0]

Symmetry == Permutations(Objects) \cup Permutations(Readers) \cup
            Permutations(Writers)
=============================================================================

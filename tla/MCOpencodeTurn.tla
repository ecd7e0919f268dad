--------------------------- MODULE MCOpencodeTurn ---------------------------
EXTENDS OpencodeTurn, TLC
CONSTANTS t1, t2, c1, c2, c3, o1

MCRef == (c1 :> t1) @@ (c2 :> t1) @@ (c3 :> t2)
MCWatched == (o1 :> t1)
Symmetry == Permutations({c1, c2})
=============================================================================

----------------------------- MODULE MCRunLock -----------------------------
EXTENDS RunLock, TLC
Symmetry == Permutations(Proc)
=============================================================================

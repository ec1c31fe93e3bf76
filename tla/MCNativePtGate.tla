--------------------------- MODULE MCNativePtGate ---------------------------
EXTENDS NativePtGate, TLC
Symmetry == Permutations(Session)
=============================================================================

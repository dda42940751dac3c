----------------------------- MODULE MCMultiSig -----------------------------
EXTENDS MultiSig, TLC
Symmetry == Permutations(Accounts)
=============================================================================

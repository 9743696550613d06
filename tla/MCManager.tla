----------------------------- MODULE MCManager -----------------------------
EXTENDS Manager, TLC
Symmetry == Permutations(Runs) \cup Permutations(Servers)
=============================================================================

---------------------------- MODULE MCEngine ----------------------------
EXTENDS Engine
Symmetry == Permutations(Threads) \cup Permutations(Handoffs) \cup Permutations(Tools)
=============================================================================

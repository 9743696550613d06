---------------------------- MODULE MCLostTools ----------------------------
EXTENDS LostTools
Symmetry == Permutations(Threads) \cup Permutations(Handoffs) \cup Permutations(Tools)
=============================================================================

---------------------------- MODULE MCController ----------------------------
EXTENDS Controller
Symmetry == Permutations(Threads) \cup Permutations(Handoffs) \cup Permutations(Tools)
=============================================================================

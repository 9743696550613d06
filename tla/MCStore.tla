---- MODULE MCStore ----
EXTENDS Store, TLC
RunSymmetry == Permutations(Runs)
====

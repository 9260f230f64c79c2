---------------------------- MODULE MCThreadPool ----------------------------
EXTENDS ThreadPool, TLC

Symmetry == Permutations(Tasks) \cup Permutations(Clients)
=============================================================================

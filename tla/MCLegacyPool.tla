---------------------------- MODULE MCLegacyPool ----------------------------
EXTENDS LegacyPool, TLC

Symmetry == Permutations(Tasks) \cup Permutations(Clients)
=============================================================================

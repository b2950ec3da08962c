-------------------------- MODULE MCUserManagement --------------------------
EXTENDS UserManagement, TLC

Symmetry == Permutations(Slots) \cup Permutations(Loads)
=============================================================================

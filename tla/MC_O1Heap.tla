----------------------------- MODULE MC_O1Heap ------------------------------
EXTENDS O1Heap

Symmetry == Permutations(Blocks)
=============================================================================

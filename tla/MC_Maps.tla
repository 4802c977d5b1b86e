------------------------------ MODULE MC_Maps -------------------------------
(* Maps on a small address space; keys of the slab are interchangeable. *)
EXTENDS Maps

Symmetry == Permutations(Keys)
=============================================================================

------------------------------ MODULE MCUniData ------------------------------
(* Two variables and three objects of the heap, which are interchangeable. *)
EXTENDS UniData, TLC

Symmetry == Permutations(Addresses) \union Permutations(Variables)
=============================================================================

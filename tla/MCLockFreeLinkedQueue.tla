------------------------ MODULE MCLockFreeLinkedQueue ------------------------
(* LockFreeLinkedQueue for TLC: blocks of the heap are interchangeable.      *)
EXTENDS LockFreeLinkedQueue, TLC

Blocks == Permutations(Nodes)
=============================================================================

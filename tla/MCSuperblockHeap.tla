-------------------------- MODULE MCSuperblockHeap --------------------------
(* Instances of SuperblockHeap for TLC.  The inductive invariant IInv is   *)
(* there to be added to the INVARIANTS of a configuration.                 *)
EXTENDS SuperblockHeapInvariant, TLC

Symmetry == Permutations(Threads) \union Permutations(Heaps) \union Permutations(Descriptors)
=============================================================================

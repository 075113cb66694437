---------------------------- MODULE MCLinkedList ----------------------------
(* Instances of LinkedList for TLC.                                        *)
EXTENDS LinkedList, TLC

Symmetry == Permutations(Elems)
=============================================================================

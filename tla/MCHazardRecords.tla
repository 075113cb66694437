--------------------------- MODULE MCHazardRecords ---------------------------
(* Instances of HazardRecords for TLC: pages of two records.               *)
EXTENDS HazardRecords, TLC

CONSTANTS r1, r2, r3, r4

TwoPages == {<<r1, r2>>, <<r3, r4>>}

Symmetry == Permutations(Nodes)
=============================================================================

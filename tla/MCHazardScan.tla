---------------------------- MODULE MCHazardScan ----------------------------
(* Instances for TLC of what a scan rests on: the records it reads         *)
(* (HazardRecords, pages of two records) and the lookup of one node among  *)
(* the pointers it has collected (PointerSearch, 6-bit words compared as   *)
(* 4-bit ints).  How a pointer is looked up does not depend on how it was  *)
(* collected, so that a behaviour exercises one of the two.                *)
EXTENDS HazardRecords, PointerSearch, TLC

CONSTANTS r1, r2, r3, r4

VARIABLE part

TwoPages == {<<r1, r2>>, <<r3, r4>>}

Symmetry == Permutations(Nodes)

ScanInit ==
  /\ Init /\ SearchInit
  /\ part \in {"records", "lookup"}
  /\ part = "records" => length = 0 /\ value = 0

SearchDone ==
  /\ phase \in {"found", "missing"}
  /\ UNCHANGED searchVars

ScanNext ==
  \/ part = "records" /\ Next /\ UNCHANGED <<searchVars, part>>
  \/ part = "lookup" /\ (SearchNext \/ SearchDone) /\ UNCHANGED <<vars, part>>

ScanSpec == ScanInit /\ [][ScanNext]_<<vars, searchVars, part>>
=============================================================================

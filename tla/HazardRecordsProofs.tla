------------------------- MODULE HazardRecordsProofs -------------------------
(***************************************************************************)
(* For any number of threads, records, pages and nodes: the scan of        *)
(* ScanRetiredNodes stays inside its buffer, a hazard record is handed out *)
(* once and has one owner at a time, and an announcement that stands keeps *)
(* its node from being freed.                                              *)
(***************************************************************************)
EXTENDS HazardRecords, FiniteSetTheorems, TLAPS

(* The protectors that have been counted and have not pushed their record. *)
Pushing == {p \in Protectors : pc[p] \in {"obtain", "next", "pop", "publish", "push"}}

(* m_hp_count is incremented before the record is pushed and never         *)
(* decremented: it covers the list and whoever is about to lengthen it.    *)
CountCovers == Len(list) + Cardinality(Pushing) <= count

(* Nobody walks past the end of the list, which never shrinks.             *)
WalksInside ==
  /\ \A p \in Protectors : pc[p] = "walk" => at[p] <= Len(list)
  /\ \A t \in Reclaimers :
       scanPc[t] \in {"count", "flag", "pointer"} => scanAt[t] <= Len(list)

(* What a scan has collected and what it has yet to visit fit its buffer.  *)
ScanBudget ==
  \A t \in Reclaimers :
    /\ scanPc[t] = "count" => it[t] = 0
    /\ scanPc[t] \in {"flag", "pointer"} => it[t] + scanAt[t] <= size[t]
    /\ scanPc[t] = "pointer" => scanAt[t] > 0

(* Where a protector uses its c_hp it has one.                             *)
HasRecord ==
  \A p \in Protectors :
    pc[p] \in {"next", "pop", "publish", "push", "load", "announce", "validate", "use", "clear"}
      => rec[p] \in Records

ScanInv == TypeOK /\ CountCovers /\ WalksInside /\ ScanBudget /\ HasRecord

(* The protectors that are about to push are finitely many.                *)
LEMMA PushingFinite == IsFiniteSet(Pushing) /\ Cardinality(Pushing) \in Nat
  BY RecordsAssumption, FS_Subset, FS_CardinalityType DEF Pushing

(* organize_linked_list over a page links records.                         *)
LEMMA OrganizedType ==
  ASSUME TypeOK, NEW g \in Pages
  PROVE  Organized(g) \in [Records -> Records \union {NULL}]
<1>1. g \in Seq(Records)
  BY RecordsAssumption
<1>2. SUFFICES ASSUME NEW r \in Records PROVE Organized(g)[r] \in Records \union {NULL}
  BY DEF Organized
<1>3. CASE \E i \in DOMAIN g : g[i] = r
  <2>1. (CHOOSE i \in DOMAIN g : g[i] = r) \in DOMAIN g
    BY <1>3
  <2> QED
    BY <1>1, <1>3, <2>1 DEF Organized
<1>4. CASE ~ \E i \in DOMAIN g : g[i] = r
  BY <1>4 DEF Organized, TypeOK
<1> QED
  BY <1>3, <1>4

(* The initial state satisfies the invariant of the scan.                  *)
LEMMA ScanInit == Init => ScanInv
<1> SUFFICES ASSUME Init PROVE ScanInv
  OBVIOUS
<1>1. TypeOK
  BY DEF Init, TypeOK, Labels, ScanLabels
<1>2. Pushing = {}
  BY DEF Init, Pushing
<1>3. CountCovers
  BY <1>2, FS_EmptySet DEF Init, CountCovers
<1> QED
  BY <1>1, <1>3 DEF Init, ScanInv, WalksInside, ScanBudget, HasRecord

(* The variables of a step that obtains a record keep their types.         *)
LEMMA ObtainType ==
  ASSUME ScanInv, NEW p \in Protectors, ObtainRecord(p)
  PROVE  TypeOK'
<1> USE DEF ScanInv, TypeOK
<1>1. CASE LoadSpare(p)
  BY <1>1 DEF LoadSpare, Goto, Labels, listVars, freeVars, nodeVars, ownVars, scanVars, boundVars
<1>2. CASE ReadNext(p)
  BY <1>2 DEF ReadNext, Goto, Labels, HasRecord, listVars, freeVars, nodeVars, scanVars, boundVars
<1>3. CASE PopSpare(p)
  <2>1. rec[p] \in Records
    BY <1>3 DEF PopSpare, HasRecord
  <2>2. link' \in [Protectors -> Records \union {NULL}]
    BY <1>3 DEF PopSpare
  <2>3. CASE freeHead' = link[p] /\ Given(p, rec[p])
    BY <1>3, <2>1, <2>2, <2>3 DEF PopSpare, Given, Goto, Labels, nodeVars, scanVars, boundVars
  <2>4. CASE Goto(p, "obtain") /\ UNCHANGED <<freeHead, inUse, hazard>>
    BY <1>3, <2>1, <2>2, <2>4 DEF PopSpare, Goto, Labels, nodeVars, scanVars, boundVars
  <2> QED
    BY <1>3, <2>3, <2>4 DEF PopSpare
<1>4. CASE MapPage(p)
  <2>1. PICK g \in Pages \ mapped :
          /\ mapped' = mapped \union {g}
          /\ page' = [page EXCEPT ![p] = g]
          /\ rec' = [rec EXCEPT ![p] = g[1]]
          /\ next' = Organized(g)
    BY <1>4 DEF MapPage
  <2>2. g[1] \in Records
    BY RecordsAssumption
  <2>3. next' \in [Records -> Records \union {NULL}]
    BY <2>1, OrganizedType
  <2> QED
    BY <1>4, <2>1, <2>2, <2>3 DEF MapPage, Goto, Labels, nodeVars, scanVars, boundVars
<1>5. CASE PublishPage(p)
  <2>1. rec[p] \in Records
    BY <1>5 DEF PublishPage, HasRecord
  <2>2. page' \in [Protectors -> Pages \union {<<>>}]
    BY <1>5 DEF PublishPage
  <2>3. CASE freeHead' = next[rec[p]] /\ Given(p, rec[p]) /\ UNCHANGED mapped
    BY <1>5, <2>1, <2>2, <2>3 DEF PublishPage, Given, Goto, Labels, nodeVars, scanVars, boundVars
  <2>4. CASE /\ mapped' = mapped \ {page[p]} /\ Goto(p, "obtain")
             /\ UNCHANGED <<freeHead, inUse, hazard>>
    BY <1>5, <2>1, <2>2, <2>4 DEF PublishPage, Goto, Labels, nodeVars, scanVars, boundVars
  <2> QED
    BY <1>5, <2>3, <2>4 DEF PublishPage
<1>6. CASE RefusedRecord(p)
  BY <1>6 DEF RefusedRecord, OsRefuses, Goto, Labels, listVars, freeVars, nodeVars, ownVars,
     scanVars
<1> QED
  BY <1>1, <1>2, <1>3, <1>4, <1>5, <1>6 DEF ObtainRecord

(* Every step of a protector or of a reclaimer preserves the types.        *)
LEMMA TypeStep == ScanInv /\ [Next]_vars => TypeOK'
<1> SUFFICES ASSUME ScanInv, [Next]_vars PROVE TypeOK'
  OBVIOUS
<1> USE DEF ScanInv, TypeOK, listVars, freeVars, ownVars, boundVars
<1>1. ASSUME NEW p \in Protectors, BeginAcquire(p) PROVE TypeOK'
  BY <1>1 DEF BeginAcquire, Goto, Labels, nodeVars, scanVars
<1>2. ASSUME NEW p \in Protectors, TakeRecord(p) PROVE TypeOK'
  <2>1. list[at[p]] \in Records
    BY <1>2 DEF TakeRecord, WalksInside
  <2> QED
    BY <1>2, <2>1 DEF TakeRecord, Goto, Labels, nodeVars, scanVars
<1>3. ASSUME NEW p \in Protectors, SkipRecord(p) PROVE TypeOK'
  BY <1>3 DEF SkipRecord, nodeVars, scanVars
<1>4. ASSUME NEW p \in Protectors, CountRecord(p) PROVE TypeOK'
  BY <1>4 DEF CountRecord, Goto, Labels, nodeVars, scanVars
<1>5. ASSUME NEW p \in Protectors, ObtainRecord(p) PROVE TypeOK'
  BY <1>5, ObtainType
<1>6. ASSUME NEW p \in Protectors, PushRecord(p) PROVE TypeOK'
  <2>1. rec[p] \in Records
    BY <1>6 DEF PushRecord, HasRecord
  <2>2. list' \in Seq(Records)
    BY <1>6, <2>1 DEF PushRecord
  <2>3. next' \in [Records -> Records \union {NULL}]
    <3>1. (IF list = <<>> THEN NULL ELSE list[Len(list)]) \in Records \union {NULL}
      OBVIOUS
    <3> QED
      BY <1>6, <2>1, <3>1 DEF PushRecord
  <2> QED
    BY <1>6, <2>2, <2>3 DEF PushRecord, Goto, Labels, nodeVars, scanVars
<1>7. ASSUME NEW p \in Protectors, LoadNode(p) PROVE TypeOK'
  BY <1>7 DEF LoadNode, Goto, Labels, nodeVars, scanVars
<1>8. ASSUME NEW p \in Protectors, AnnounceNode(p) PROVE TypeOK'
  BY <1>8 DEF AnnounceNode, Goto, Labels, nodeVars, scanVars
<1>9. ASSUME NEW p \in Protectors, ValidateNode(p) PROVE TypeOK'
  BY <1>9 DEF ValidateNode, Goto, Labels, nodeVars, scanVars
<1>10. ASSUME NEW p \in Protectors, ReleaseFlag(p) PROVE TypeOK'
  BY <1>10 DEF ReleaseFlag, Goto, Labels, nodeVars, scanVars
<1>11. ASSUME NEW p \in Protectors, ReleasePointer(p) PROVE TypeOK'
  BY <1>11 DEF ReleasePointer, Goto, Labels, nodeVars, scanVars
<1>12. ASSUME NEW p \in Protectors, RetryReleased(p) PROVE TypeOK'
  <2>1. retries' \in Nat /\ pc' \in [Protectors -> Labels]
    BY <1>12 DEF RetryReleased, Goto, Labels
  <2>2. hazard' \in [Records -> Nodes \union {NULL}]
    BY <1>12 DEF RetryReleased
  <2> QED
    BY <1>12, <2>1, <2>2 DEF RetryReleased, nodeVars, scanVars
<1>13. ASSUME NEW p \in Protectors, ReturnKeeping(p) PROVE TypeOK'
  BY <1>13 DEF ReturnKeeping, Goto, Labels, nodeVars, scanVars
<1>14. ASSUME NEW t \in Reclaimers, RetireNode(t) PROVE TypeOK'
  <2>1. source' \in Nodes /\ fresh' \subseteq Nodes
    BY <1>14 DEF RetireNode
  <2>2. retired' \in [Reclaimers -> SUBSET Nodes]
    <3>1. CASE retired' = [retired EXCEPT ![t] = retired[t] \union {source}]
      BY <3>1
    <3>2. CASE UNCHANGED retired
      BY <3>2
    <3> QED
      BY <1>14, <3>1, <3>2 DEF RetireNode
  <2>3. scanPc' \in [Reclaimers -> ScanLabels]
    BY <1>14 DEF RetireNode, ScanGoto, ScanLabels
  <2>4. osFailures' \in Nat /\ kept' \in Nat /\ retries' \in Nat
    BY <1>14 DEF RetireNode, OsRefuses
  <2>5. counted' \in [Reclaimers -> Int]
    BY <1>14 DEF RetireNode
  <2> QED
    BY <1>14, <2>1, <2>2, <2>3, <2>4, <2>5 DEF RetireNode, protVars
<1>15. ASSUME NEW t \in Reclaimers, ScanHead(t) PROVE TypeOK'
  BY <1>15 DEF ScanHead, ScanGoto, ScanLabels, nodeVars, protVars
<1>16. ASSUME NEW t \in Reclaimers, ScanCount(t) PROVE TypeOK'
  <2>1. scanPc' \in [Reclaimers -> ScanLabels]
    BY <1>16 DEF ScanCount, ScanGoto, ScanLabels
  <2>2. osFailures' \in Nat /\ kept' \in Nat /\ retries' \in Nat
    BY <1>16 DEF ScanCount, OsRefuses
  <2> QED
    BY <1>16, <2>1, <2>2 DEF ScanCount, nodeVars, protVars
<1>17. ASSUME NEW t \in Reclaimers, ScanFlag(t) PROVE TypeOK'
  <2>1. scanPc' \in [Reclaimers -> ScanLabels]
    BY <1>17 DEF ScanFlag, ScanGoto, ScanLabels
  <2>2. scanAt' \in [Reclaimers -> Nat]
    <3>1. CASE scanAt' = [scanAt EXCEPT ![t] = scanAt[t] - 1]
      BY <1>17, <3>1 DEF ScanFlag
    <3>2. CASE UNCHANGED scanAt
      BY <3>2
    <3> QED
      BY <1>17, <3>1, <3>2 DEF ScanFlag
  <2> QED
    BY <1>17, <2>1, <2>2 DEF ScanFlag, nodeVars, protVars
<1>18. ASSUME NEW t \in Reclaimers, ScanPointer(t) PROVE TypeOK'
  <2>1. hazard[list[scanAt[t]]] \in Nodes \union {NULL}
    BY <1>18 DEF ScanPointer, WalksInside, ScanBudget
  <2>2. scanPc' \in [Reclaimers -> ScanLabels]
    BY <1>18 DEF ScanPointer, ScanGoto, ScanLabels
  <2>3. scanAt' \in [Reclaimers -> Nat] /\ it' \in [Reclaimers -> Nat]
    BY <1>18 DEF ScanPointer, ScanBudget
  <2>4. found' \in [Reclaimers -> SUBSET (Nodes \union {NULL})]
    BY <1>18, <2>1 DEF ScanPointer
  <2> QED
    BY <1>18, <2>2, <2>3, <2>4 DEF ScanPointer, nodeVars, protVars
<1>19. ASSUME NEW t \in Reclaimers, FreeNodes(t) PROVE TypeOK'
  <2>1. Cardinality(retired[t] \ found[t]) \in Nat
    BY RecordsAssumption, FS_Subset, FS_CardinalityType
  <2>2. counted' \in [Reclaimers -> Int]
    BY <1>19, <2>1 DEF FreeNodes
  <2> QED
    BY <1>19, <2>2 DEF FreeNodes, ScanGoto, ScanLabels, protVars
<1>20. CASE UNCHANGED vars
  BY <1>20 DEF vars, nodeVars, protVars, scanVars
<1> QED
  BY <1>1, <1>2, <1>3, <1>4, <1>5, <1>6, <1>7, <1>8, <1>9, <1>10, <1>11, <1>12, <1>13,
     <1>14, <1>15, <1>16, <1>17, <1>18, <1>19, <1>20 DEF Next, Protect, Reclaim

(* A reclaimer changes nothing a protector writes, and a protector nothing *)
(* of the nodes and the scans.                                             *)
LEMMA ReclaimFrame ==
  ASSUME NEW t \in Reclaimers, Reclaim(t)
  PROVE  UNCHANGED <<list, count, inUse, hazard, mapped, freeHead, next, pc, rec, at, link, page,
                     node, retries>>
BY DEF Reclaim, RetireNode, ScanHead, ScanCount, ScanFlag, ScanPointer, FreeNodes, OsRefuses,
       listVars, freeVars, ownVars, protVars, boundVars

(* The same for the protectors.                                            *)
LEMMA ProtectFrame ==
  ASSUME NEW p \in Protectors, Protect(p)
  PROVE  UNCHANGED <<scanPc, scanAt, size, it, found, source, fresh, retired>>
BY DEF Protect, BeginAcquire, TakeRecord, SkipRecord, CountRecord, ObtainRecord, LoadSpare,
       ReadNext, PopSpare, MapPage, PublishPage, RefusedRecord, PushRecord, LoadNode,
       AnnounceNode, ValidateNode, ReleaseFlag, ReleasePointer, RetryReleased, ReturnKeeping,
       nodeVars, scanVars

(* What the steps of allocate_hp leave alone.                              *)
LEMMA ObtainFrame ==
  ASSUME NEW p \in Protectors, ObtainRecord(p)
  PROVE  UNCHANGED <<list, count, at, node, retries>>
BY DEF ObtainRecord, LoadSpare, ReadNext, PopSpare, MapPage, PublishPage, RefusedRecord,
       OsRefuses, listVars, ownVars, boundVars

(* Only the push changes the list, ...                                     *)
LEMMA ListFrame ==
  ASSUME NEW p \in Protectors, Protect(p), ~PushRecord(p)
  PROVE  UNCHANGED list
BY ObtainFrame DEF Protect, BeginAcquire, TakeRecord, SkipRecord, CountRecord, LoadNode,
       AnnounceNode, ValidateNode, ReleaseFlag, ReleasePointer, RetryReleased, ReturnKeeping,
       listVars

(* ... and a record that is on it stays where it is.                       *)
LEMMA ListGrows ==
  ASSUME ScanInv, NEW p \in Protectors, Protect(p)
  PROVE  /\ Len(list) <= Len(list') /\ Len(list') \in Nat
         /\ \A k \in 1 .. Len(list) : list'[k] = list[k]
<1> USE DEF ScanInv, TypeOK
<1>1. CASE PushRecord(p)
  BY <1>1 DEF PushRecord, HasRecord
<1>2. CASE ~PushRecord(p)
  BY <1>2, ListFrame
<1> QED
  BY <1>1, <1>2

(* A step of a protector leaves the others where they stand.               *)
LEMMA OthersFrame ==
  ASSUME ScanInv, NEW p \in Protectors, Protect(p), NEW q \in Protectors, q # p
  PROVE  /\ pc'[q] = pc[q] /\ rec'[q] = rec[q] /\ at'[q] = at[q] /\ link'[q] = link[q]
         /\ page'[q] = page[q] /\ node'[q] = node[q]
<1> USE DEF ScanInv, TypeOK, Goto, ownVars, listVars, freeVars
<1>1. CASE ObtainRecord(p)
  BY <1>1 DEF ObtainRecord, LoadSpare, ReadNext, PopSpare, MapPage, PublishPage,
     RefusedRecord, Given
<1>2. CASE BeginAcquire(p) \/ TakeRecord(p) \/ SkipRecord(p) \/ CountRecord(p) \/ PushRecord(p)
  BY <1>2 DEF BeginAcquire, TakeRecord, SkipRecord, CountRecord, PushRecord
<1>3. CASE \/ LoadNode(p) \/ AnnounceNode(p) \/ ValidateNode(p) \/ ReleaseFlag(p)
           \/ ReleasePointer(p) \/ RetryReleased(p) \/ ReturnKeeping(p)
  BY <1>3 DEF LoadNode, AnnounceNode, ValidateNode, ReleaseFlag, ReleasePointer,
     RetryReleased, ReturnKeeping
<1> QED
  BY <1>1, <1>2, <1>3 DEF Protect

(* The count still covers the list after every step: it goes up before the *)
(* protector counts as about to push, and the push only moves it over.     *)
LEMMA CountStep == ScanInv /\ [Next]_vars => CountCovers'
<1> SUFFICES ASSUME ScanInv, [Next]_vars PROVE CountCovers'
  OBVIOUS
<1> USE DEF ScanInv, TypeOK
<1> USE PushingFinite
<1>1. ASSUME NEW p \in Protectors, CountRecord(p) PROVE CountCovers'
  <2>1. p \notin Pushing /\ Pushing' = Pushing \union {p}
    BY <1>1 DEF CountRecord, Goto, Pushing
  <2>2. Cardinality(Pushing') = Cardinality(Pushing) + 1
    BY <2>1, FS_AddElement
  <2> QED
    BY <1>1, <2>2 DEF CountRecord, CountCovers
<1>2. ASSUME NEW p \in Protectors, ObtainRecord(p) PROVE CountCovers'
  <2>1. pc[p] \in {"obtain", "next", "pop", "publish"}
    BY <1>2 DEF ObtainRecord, LoadSpare, ReadNext, PopSpare, MapPage, PublishPage, RefusedRecord
  <2>2. Pushing' \in SUBSET Pushing
    BY <1>2, <2>1, OthersFrame DEF Protect, Pushing
  <2>3. IsFiniteSet(Pushing') /\ Cardinality(Pushing') <= Cardinality(Pushing)
    BY <2>2, FS_Subset
  <2>4. Cardinality(Pushing') \in Nat
    BY <2>3, FS_CardinalityType
  <2>5. UNCHANGED <<list, count>>
    BY <1>2, ObtainFrame
  <2> QED
    BY <2>3, <2>4, <2>5 DEF CountCovers
<1>3. ASSUME NEW p \in Protectors, PushRecord(p) PROVE CountCovers'
  <2>1. p \in Pushing /\ Pushing' = Pushing \ {p}
    BY <1>3 DEF PushRecord, Goto, Pushing
  <2>2. Cardinality(Pushing') = Cardinality(Pushing) - 1
    BY <2>1, FS_RemoveElement
  <2>3. Len(list') = Len(list) + 1
    BY <1>3 DEF PushRecord, HasRecord
  <2> QED
    BY <1>3, <2>2, <2>3 DEF PushRecord, CountCovers
<1>4. ASSUME NEW p \in Protectors,
             \/ BeginAcquire(p) \/ TakeRecord(p) \/ SkipRecord(p) \/ LoadNode(p)
             \/ AnnounceNode(p) \/ ValidateNode(p) \/ ReleaseFlag(p) \/ ReleasePointer(p)
             \/ RetryReleased(p) \/ ReturnKeeping(p)
      PROVE CountCovers'
  <2>1. Pushing' = Pushing
    BY <1>4 DEF BeginAcquire, TakeRecord, SkipRecord, LoadNode, AnnounceNode, ValidateNode,
       ReleaseFlag, ReleasePointer, RetryReleased, ReturnKeeping, Goto, Pushing
  <2>2. UNCHANGED <<list, count>>
    BY <1>4 DEF BeginAcquire, TakeRecord, SkipRecord, LoadNode, AnnounceNode, ValidateNode,
       ReleaseFlag, ReleasePointer, RetryReleased, ReturnKeeping, listVars
  <2> QED
    BY <2>1, <2>2 DEF CountCovers
<1>5. ASSUME NEW t \in Reclaimers, Reclaim(t) PROVE CountCovers'
  BY <1>5, ReclaimFrame DEF CountCovers, Pushing
<1>6. CASE UNCHANGED vars
  BY <1>6 DEF vars, listVars, protVars, CountCovers, Pushing
<1> QED
  BY <1>1, <1>2, <1>3, <1>4, <1>5, <1>6 DEF Next, Protect

(* A step that needs a record next has just been given one.                *)
LEMMA RecordStep ==
  ASSUME ScanInv, NEW p \in Protectors, Protect(p)
  PROVE  HasRecord'
<1> USE DEF ScanInv, TypeOK
<1> SUFFICES pc'[p] \in {"next", "pop", "publish", "push", "load", "announce", "validate",
                         "use", "clear"} => rec'[p] \in Records
  BY OthersFrame DEF HasRecord
<1>1. CASE TakeRecord(p)
  <2>1. list[at[p]] \in Records
    BY <1>1 DEF TakeRecord, WalksInside
  <2> QED
    BY <1>1, <2>1 DEF TakeRecord
<1>2. CASE LoadSpare(p)
  BY <1>2, RecordsAssumption DEF LoadSpare
<1>3. CASE MapPage(p)
  <2>1. PICK g \in Pages \ mapped : rec' = [rec EXCEPT ![p] = g[1]]
    BY <1>3 DEF MapPage
  <2>2. g[1] \in Records
    BY RecordsAssumption
  <2> QED
    BY <2>1, <2>2
<1>4. CASE ReadNext(p) \/ PopSpare(p) \/ PublishPage(p) \/ RefusedRecord(p)
  BY <1>4 DEF ReadNext, PopSpare, PublishPage, RefusedRecord, Given, Goto, HasRecord
<1>5. CASE \/ BeginAcquire(p) \/ SkipRecord(p) \/ CountRecord(p) \/ PushRecord(p)
           \/ LoadNode(p) \/ AnnounceNode(p) \/ ValidateNode(p) \/ ReleaseFlag(p)
           \/ ReleasePointer(p) \/ RetryReleased(p) \/ ReturnKeeping(p)
  BY <1>5 DEF BeginAcquire, SkipRecord, CountRecord, PushRecord, LoadNode, AnnounceNode,
     ValidateNode, ReleaseFlag, ReleasePointer, RetryReleased, ReturnKeeping, Goto, HasRecord
<1> QED
  BY <1>1, <1>2, <1>3, <1>4, <1>5 DEF Protect, ObtainRecord

(* Positions stay inside the list, and the budget of every scan holds: a   *)
(* visit spends one position for at most one pointer.                      *)
LEMMA WalkStep == ScanInv /\ [Next]_vars => WalksInside' /\ ScanBudget' /\ HasRecord'
<1> SUFFICES ASSUME ScanInv, [Next]_vars PROVE WalksInside' /\ ScanBudget' /\ HasRecord'
  OBVIOUS
<1> USE DEF ScanInv, TypeOK
<1>1. ASSUME NEW p \in Protectors, Protect(p) PROVE WalksInside' /\ ScanBudget' /\ HasRecord'
  <2>1. ScanBudget'
    BY <1>1, ProtectFrame DEF ScanBudget
  <2>2. Len(list) <= Len(list') /\ Len(list') \in Nat
    BY <1>1, ListGrows
  <2>3. \A t \in Reclaimers :
          scanPc'[t] \in {"count", "flag", "pointer"} => scanAt'[t] <= Len(list')
    BY <1>1, <2>2, ProtectFrame DEF WalksInside
  <2>4. pc'[p] = "walk" => at'[p] <= Len(list')
    <3>1. CASE BeginAcquire(p)
      BY <3>1 DEF BeginAcquire, Goto, listVars
    <3>2. CASE SkipRecord(p)
      BY <3>2 DEF SkipRecord, WalksInside, listVars
    <3>3. CASE ~BeginAcquire(p) /\ ~SkipRecord(p)
      BY <1>1, <3>3 DEF Protect, TakeRecord, CountRecord, ObtainRecord, LoadSpare, ReadNext,
         PopSpare, MapPage, PublishPage, RefusedRecord, Given, PushRecord, LoadNode,
         AnnounceNode, ValidateNode, ReleaseFlag, ReleasePointer, RetryReleased,
         ReturnKeeping, Goto
    <3> QED
      BY <3>1, <3>2, <3>3
  <2>5. \A q \in Protectors : pc'[q] = "walk" => at'[q] <= Len(list')
    <3>1. \A q \in Protectors : q # p => pc'[q] = pc[q] /\ at'[q] = at[q]
      BY <1>1, OthersFrame
    <3>2. ASSUME NEW q \in Protectors, q # p, pc'[q] = "walk" PROVE at'[q] <= Len(list')
      <4>1. at[q] \in Nat /\ at[q] <= Len(list) /\ at'[q] = at[q] /\ Len(list) \in Nat
        BY <3>1, <3>2 DEF WalksInside
      <4> QED
        BY <2>2, <4>1
    <3> QED
      BY <2>4, <3>2
  <2> QED
    BY <1>1, <2>1, <2>3, <2>5, RecordStep DEF WalksInside
<1>2. ASSUME NEW t \in Reclaimers, Reclaim(t) PROVE WalksInside' /\ ScanBudget' /\ HasRecord'
  <2>1. UNCHANGED <<list, count, inUse, hazard, pc, rec, at, node>>
    BY <1>2, ReclaimFrame
  <2>2. HasRecord' /\ \A p \in Protectors : pc'[p] = "walk" => at'[p] <= Len(list')
    BY <2>1 DEF HasRecord, WalksInside
  <2>3. Len(list) <= count /\ Len(list) \in Nat
    BY PushingFinite DEF CountCovers
  <2>4. CASE RetireNode(t)
    <3>1. UNCHANGED <<scanAt, it, size>> /\ scanPc[t] = "idle"
      BY <2>4 DEF RetireNode
    <3>2. /\ scanPc'[t] \in {"idle", "head"}
          /\ \A u \in Reclaimers : u # t => scanPc'[u] = scanPc[u]
      BY <2>4 DEF RetireNode, ScanGoto
    <3> QED
      BY <2>1, <2>2, <3>1, <3>2 DEF WalksInside, ScanBudget
  <2>5. CASE ScanHead(t)
    BY <2>1, <2>2, <2>5 DEF ScanHead, ScanGoto, WalksInside, ScanBudget
  <2>6. CASE ScanCount(t)
    <3>1. UNCHANGED <<scanAt, it>> /\ scanPc[t] = "count" /\ size' = [size EXCEPT ![t] = count]
      BY <2>6 DEF ScanCount
    <3>2. /\ scanPc'[t] \in {"flag", "idle"}
          /\ \A u \in Reclaimers : u # t => scanPc'[u] = scanPc[u]
      BY <2>6 DEF ScanCount, ScanGoto
    <3> QED
      BY <2>1, <2>2, <2>3, <3>1, <3>2 DEF WalksInside, ScanBudget
  <2>7. CASE ScanFlag(t)
    <3>1. CASE scanAt' = [scanAt EXCEPT ![t] = @ - 1] /\ UNCHANGED scanPc
      <4>1. UNCHANGED <<it, size>> /\ scanPc[t] = "flag" /\ scanAt[t] > 0
        BY <2>7 DEF ScanFlag
      <4>2. \A u \in Reclaimers : scanAt'[u] \in Nat /\ scanAt'[u] <= scanAt[u]
        BY <3>1, <4>1
      <4> QED
        BY <2>1, <2>2, <3>1, <4>1, <4>2 DEF WalksInside, ScanBudget
    <3>2. CASE ScanGoto(t, "pointer") /\ UNCHANGED scanAt
      BY <2>1, <2>2, <2>7, <3>2 DEF ScanFlag, ScanGoto, WalksInside, ScanBudget
    <3> QED
      BY <2>7, <3>1, <3>2 DEF ScanFlag
  <2>8. CASE ScanPointer(t)
    BY <2>1, <2>2, <2>8 DEF ScanPointer, ScanGoto, WalksInside, ScanBudget
  <2>9. CASE FreeNodes(t)
    BY <2>1, <2>2, <2>9 DEF FreeNodes, ScanGoto, WalksInside, ScanBudget
  <2> QED
    BY <1>2, <2>4, <2>5, <2>6, <2>7, <2>8, <2>9 DEF Reclaim
<1>3. CASE UNCHANGED vars
  BY <1>3 DEF vars, listVars, ownVars, protVars, scanVars, WalksInside, ScanBudget, HasRecord
<1> QED
  BY <1>1, <1>2, <1>3 DEF Next

(* The invariant of the scan holds in every reachable state.               *)
LEMMA ScanInvariant == Spec => []ScanInv
<1>1. ScanInv /\ [Next]_vars => ScanInv'
  BY TypeStep, CountStep, WalkStep DEF ScanInv
<1> QED
  BY ScanInit, <1>1, PTL DEF Spec

(* Type correctness of acquire_hp, release_hp and the scans.               *)
THEOREM TypeCorrect == Spec => []TypeOK
<1>1. ScanInv => TypeOK
  BY DEF ScanInv
<1> QED
  BY <1>1, ScanInvariant, PTL

(* The scan of ScanRetiredNodes never writes past the buffer it allocated  *)
(* from m_hp_count, whatever the other threads push while it walks.        *)
THEOREM ScanNeverOverflows == Spec => []ScanFits
<1>1. ScanInv => ScanFits
  BY DEF ScanInv, TypeOK, ScanBudget, ScanFits
<1> QED
  BY <1>1, ScanInvariant, PTL

-----------------------------------------------------------------------------
OfPage(g, r) == \E i \in DOMAIN g : g[i] = r

(* The pages whose records the other threads can reach, ...                *)
Public == mapped \ {page[p] : p \in {q \in Protectors : pc[q] = "publish"}}

Reachable == {r \in Records : \E g \in Public : OfPage(g, r)}

Listed == {list[k] : k \in 1 .. Len(list)}

Pushed == {rec[p] : p \in {q \in Protectors : pc[q] = "push"}}

(* ... and the records of those pages that allocate_hp has not handed out. *)
Free == Reachable \ (Listed \union Pushed)

(* A page that is to be published is organized and belongs to one thread.  *)
PageReady(p) ==
  /\ page[p] \in mapped /\ rec[p] = page[p][1]
  /\ \A i \in DOMAIN page[p] :
       next[page[p][i]] = IF i < Len(page[p]) THEN page[p][i + 1] ELSE NULL

PagesApart ==
  /\ \A p \in Protectors : pc[p] = "publish" => PageReady(p)
  /\ \A p, q \in Protectors : p # q /\ pc[p] = "publish" /\ pc[q] = "publish" => page[p] # page[q]

(* A record is handed out once, and comes from a public page.              *)
HandedOutOnce ==
  /\ \A i, j \in 1 .. Len(list) : i # j => list[i] # list[j]
  /\ \A p \in Protectors :
       pc[p] = "push" => /\ rec[p] \notin Listed
                         /\ \A q \in Protectors : p # q /\ pc[q] = "push" => rec[p] # rec[q]
  /\ Listed \subseteq Reachable /\ Pushed \subseteq Reachable

(* The free list: what hangs from its head has not been handed out, the    *)
(* head follows no record, and no record follows two.                      *)
FreeChain ==
  /\ freeHead # NULL => freeHead \in Free
  /\ \A r \in Free : next[r] # NULL => next[r] \in Free /\ next[r] # freeHead
  /\ \A r, s \in Free : next[r] = next[s] /\ next[r] # NULL => r = s

(* A thread about to pop has read the link of its record; the link is     *)
(* stale only when the record has been handed out, and then the CAS fails. *)
LinksFresh ==
  \A p \in Protectors :
    /\ pc[p] \in {"next", "pop"} => rec[p] \in Reachable
    /\ pc[p] = "pop" /\ rec[p] \in Free => link[p] = next[rec[p]]

(* Whoever has acquired a record and not finished releasing it has one     *)
(* that is on the list.                                                    *)
HoldsListed ==
  \A p \in Protectors :
    pc[p] \in {"load", "announce", "validate", "use", "clear"} => rec[p] \in Listed

FreeInv == PagesApart /\ HandedOutOnce /\ FreeChain /\ LinksFresh /\ HoldsListed

(* Two pages have no record in common.                                     *)
LEMMA OnePage ==
  ASSUME NEW g \in Pages, NEW h \in Pages, NEW r, OfPage(g, r), OfPage(h, r)
  PROVE  g = h
BY RecordsAssumption DEF OfPage

(* A page has a record once.                                               *)
LEMMA OncePerPage ==
  ASSUME NEW g \in Pages, NEW i \in DOMAIN g, NEW j \in DOMAIN g, g[i] = g[j]
  PROVE  i = j
BY RecordsAssumption

(* What organize_linked_list writes into the page, ...                     *)
LEMMA OrganizedInside ==
  ASSUME TypeOK, NEW g \in Pages, NEW i \in DOMAIN g
  PROVE  Organized(g)[g[i]] = IF i < Len(g) THEN g[i + 1] ELSE NULL
<1>1. g \in Seq(Records)
  BY RecordsAssumption
<1>2. g[i] \in Records /\ \E j \in DOMAIN g : g[j] = g[i]
  BY <1>1
<1> DEFINE c == CHOOSE j \in DOMAIN g : g[j] = g[i]
<1>3. c \in DOMAIN g /\ g[c] = g[i]
  BY <1>2
<1>4. c = i
  BY <1>3, RecordsAssumption
<1> QED
  BY <1>2, <1>4 DEF Organized

(* ... and what it leaves alone.                                           *)
LEMMA OrganizedOutside ==
  ASSUME NEW g \in Pages, NEW r \in Records, ~OfPage(g, r)
  PROVE  Organized(g)[r] = next[r]
BY DEF Organized, OfPage

(* A page that is mapped is seen by nobody else, and no record that had    *)
(* been handed out or is reachable is touched.                             *)
LEMMA MapStep ==
  ASSUME ScanInv, FreeInv, NEW p \in Protectors, MapPage(p)
  PROVE  FreeInv'
<1> USE DEF ScanInv, TypeOK
<1>1. PICK g \in Pages \ mapped :
        /\ mapped' = mapped \union {g}
        /\ page' = [page EXCEPT ![p] = g]
        /\ rec' = [rec EXCEPT ![p] = g[1]]
        /\ next' = Organized(g)
  BY DEF MapPage
<1>2. /\ pc[p] = "obtain" /\ pc' = [pc EXCEPT ![p] = "publish"]
      /\ UNCHANGED <<list, freeHead, link>>
  BY DEF MapPage, Goto
<1>3. Public' = Public
  BY <1>1, <1>2 DEF Public, FreeInv, PagesApart
<1>4. Reachable' = Reachable
  BY <1>3 DEF Reachable
<1>5. Listed' = Listed
  BY <1>2 DEF Listed
<1>6. Pushed' = Pushed
  BY <1>1, <1>2 DEF Pushed
<1>7. Free' = Free
  BY <1>4, <1>5, <1>6 DEF Free
<1>8. \A r \in Records, h \in mapped : OfPage(h, r) => next'[r] = next[r]
  <2> SUFFICES ASSUME NEW r \in Records, NEW h \in mapped, OfPage(h, r) PROVE next'[r] = next[r]
    OBVIOUS
  <2>1. ~OfPage(g, r)
    BY <1>1, OnePage
  <2> QED
    BY <1>1, <2>1, OrganizedOutside
<1>9. \A r \in Reachable : next'[r] = next[r]
  BY <1>8 DEF Reachable, Public
<1>10. PagesApart'
  <2>1. PageReady(p)' /\ page'[p] = g
    BY <1>1, OrganizedInside DEF PageReady
  <2>2. ASSUME NEW q \in Protectors, q # p, pc'[q] = "publish"
        PROVE  PageReady(q)' /\ page'[q] = page[q] /\ page[q] # g /\ pc[q] = "publish"
    <3>1. page'[q] = page[q] /\ page[q] \in mapped /\ rec'[q] = rec[q] /\ pc[q] = "publish"
      BY <1>1, <1>2, <2>2 DEF FreeInv, PagesApart, PageReady
    <3>2. page[q] \in Seq(Records)
      BY <3>1, RecordsAssumption
    <3>3. \A i \in DOMAIN page[q] : next'[page[q][i]] = next[page[q][i]]
      BY <1>8, <3>1, <3>2 DEF OfPage
    <3>4. PageReady(q)
      BY <3>1 DEF FreeInv, PagesApart
    <3> HIDE DEF ScanInv, TypeOK
    <3> QED
      BY <1>1, <3>1, <3>3, <3>4 DEF PageReady
  <2>3. \A q, s \in Protectors : q # s /\ pc[q] = "publish" /\ pc[s] = "publish" =>
          page[q] # page[s]
    BY DEF FreeInv, PagesApart
  <2> HIDE DEF ScanInv, TypeOK
  <2> QED
    BY <2>1, <2>2, <2>3 DEF PagesApart
<1>11. HandedOutOnce'
  BY <1>1, <1>2, <1>4, <1>5, <1>6 DEF FreeInv, HandedOutOnce
<1>12. FreeChain'
  <2>1. \A r \in Free : next'[r] = next[r]
    BY <1>9 DEF Free
  <2> QED
    BY <1>2, <1>7, <2>1 DEF FreeInv, FreeChain
<1>13. LinksFresh'
  <2> SUFFICES ASSUME NEW q \in Protectors, pc'[q] \in {"next", "pop"}
               PROVE  /\ rec'[q] \in Reachable'
                      /\ pc'[q] = "pop" /\ rec'[q] \in Free' => link'[q] = next'[rec'[q]]
    BY DEF LinksFresh
  <2>1. q # p /\ pc[q] = pc'[q] /\ rec'[q] = rec[q] /\ link'[q] = link[q] /\ rec[q] \in Records
    BY <1>1, <1>2 DEF HasRecord
  <2> QED
    BY <1>4, <1>7, <1>9, <2>1 DEF FreeInv, LinksFresh
<1>14. HoldsListed'
  BY <1>1, <1>2, <1>5 DEF FreeInv, HoldsListed
<1> QED
  BY <1>10, <1>11, <1>12, <1>13, <1>14 DEF FreeInv

(* A record that is popped leaves the free list, and the link read for it  *)
(* is the new head: what the CAS compares proves the record was free.      *)
LEMMA PopStep ==
  ASSUME ScanInv, FreeInv, NEW p \in Protectors, PopSpare(p)
  PROVE  FreeInv'
<1> USE DEF ScanInv, TypeOK
<1>1. /\ pc[p] = "pop" /\ rec[p] \in Records /\ rec[p] \in Reachable
      /\ UNCHANGED <<list, mapped, next, rec, page>>
      /\ link' = [link EXCEPT ![p] = NULL]
  BY DEF PopSpare, HasRecord, FreeInv, LinksFresh
<1>2. Listed' = Listed
  BY <1>1 DEF Listed
<1>3. \A q \in Protectors : q # p => pc'[q] = pc[q] /\ link'[q] = link[q]
  BY DEF PopSpare, Given, Goto
<1>4. pc'[p] \in {"push", "obtain"}
  BY DEF PopSpare, Given, Goto
<1>5. Public' = Public /\ Reachable' = Reachable
  <2>1. \A q \in Protectors : pc'[q] = "publish" <=> pc[q] = "publish"
    BY <1>1, <1>3, <1>4
  <2> QED
    BY <1>1, <2>1 DEF Public, Reachable
<1>6. PagesApart'
  <2>1. \A q \in Protectors : pc'[q] = "publish" => pc[q] = "publish"
    BY <1>3, <1>4
  <2>2. \A q \in Protectors : PageReady(q)' <=> PageReady(q)
    BY <1>1 DEF PageReady
  <2> QED
    BY <1>1, <2>1, <2>2 DEF FreeInv, PagesApart
<1>7. HoldsListed'
  BY <1>1, <1>2, <1>3, <1>4 DEF FreeInv, HoldsListed
<1>8. CASE freeHead = rec[p] /\ freeHead' = link[p] /\ Given(p, rec[p])
  <2>1. pc' = [pc EXCEPT ![p] = "push"]
    BY <1>8 DEF Given, Goto
  <2>2. Pushed' = Pushed \union {rec[p]}
    BY <1>1, <2>1 DEF Pushed
  <2>3. rec[p] \in Free /\ Free' = Free \ {rec[p]}
    BY <1>1, <1>2, <1>5, <1>8, <2>2, RecordsAssumption DEF Free, FreeInv, FreeChain
  <2>4. freeHead' = next[rec[p]]
    BY <1>1, <1>8, <2>3 DEF FreeInv, LinksFresh
  <2>5. HandedOutOnce'
    <3>1. rec[p] \notin Listed /\ rec[p] \notin Pushed
      BY <2>3 DEF Free
    <3>2. \A q \in Protectors : q # p /\ pc[q] = "push" => rec[q] # rec[p]
      BY <3>1 DEF Pushed
    <3> QED
      BY <1>1, <1>2, <1>5, <2>1, <2>2, <3>1, <3>2 DEF FreeInv, HandedOutOnce
  <2>6. FreeChain'
    <3>1. freeHead' # NULL => freeHead' \in Free'
      BY <1>8, <2>3, <2>4 DEF FreeInv, FreeChain
    <3>2. \A r \in Free' : next'[r] # NULL => next'[r] \in Free' /\ next'[r] # freeHead'
      BY <1>1, <1>8, <2>3, <2>4 DEF FreeInv, FreeChain
    <3>3. \A r, s \in Free' : next'[r] = next'[s] /\ next'[r] # NULL => r = s
      BY <1>1, <2>3 DEF FreeInv, FreeChain
    <3> QED
      BY <3>1, <3>2, <3>3 DEF FreeChain
  <2>7. LinksFresh'
    BY <1>1, <1>3, <1>4, <1>5, <2>3 DEF FreeInv, LinksFresh
  <2> QED
    BY <1>6, <1>7, <2>5, <2>6, <2>7 DEF FreeInv
<1>9. CASE Goto(p, "obtain") /\ UNCHANGED <<freeHead, inUse, hazard>>
  <2>1. pc' = [pc EXCEPT ![p] = "obtain"] /\ freeHead' = freeHead
    BY <1>9 DEF Goto
  <2>2. Pushed' = Pushed
    BY <1>1, <2>1 DEF Pushed
  <2>3. Free' = Free
    BY <1>2, <1>5, <2>2 DEF Free
  <2>4. HandedOutOnce'
    BY <1>1, <1>2, <1>5, <2>1, <2>2 DEF FreeInv, HandedOutOnce
  <2>5. FreeChain'
    BY <1>1, <2>1, <2>3 DEF FreeInv, FreeChain
  <2>6. LinksFresh'
    BY <1>1, <1>3, <1>4, <1>5, <2>3 DEF FreeInv, LinksFresh
  <2> QED
    BY <1>6, <1>7, <2>4, <2>5, <2>6 DEF FreeInv
<1> QED
  BY <1>8, <1>9 DEF PopSpare

(* A page is published only over an empty free list, and becomes the list  *)
(* but for its first record; a page that comes too late is unmapped        *)
(* unseen.                                                                 *)
LEMMA PublishStep ==
  ASSUME ScanInv, FreeInv, NEW p \in Protectors, PublishPage(p)
  PROVE  FreeInv'
<1> USE DEF ScanInv, TypeOK
<1> DEFINE g == page[p]
<1>1. /\ pc[p] = "publish" /\ g \in mapped /\ PageReady(p)
      /\ rec[p] = g[1] /\ rec[p] \in Records
      /\ UNCHANGED <<list, next, rec, link>>
      /\ page' = [page EXCEPT ![p] = <<>>]
  BY DEF PublishPage, HasRecord, FreeInv, PagesApart, PageReady
<1>2. g \in Pages /\ g \in Seq(Records) /\ Len(g) > 0 /\ 1 \in DOMAIN g
  BY <1>1, RecordsAssumption
<1>3. Listed' = Listed
  BY <1>1 DEF Listed
<1>4. /\ \A q \in Protectors : q # p => pc'[q] = pc[q] /\ page'[q] = page[q]
      /\ pc'[p] \in {"push", "obtain"}
  BY DEF PublishPage, Given, Goto
<1>5. \A q \in Protectors : q # p /\ pc[q] = "publish" => page[q] # g
  BY <1>1 DEF FreeInv, PagesApart
<1>6. \A q \in Protectors : pc'[q] = "publish" => q # p /\ pc[q] = "publish"
  BY <1>4
<1>7. g \notin Public
  BY <1>1 DEF Public
<1>8. \A r \in Reachable : ~OfPage(g, r)
  BY <1>2, <1>7, OnePage DEF Reachable, Public
<1>9. mapped \ {g} \subseteq mapped' => PagesApart'
  <2> SUFFICES ASSUME mapped \ {g} \subseteq mapped' PROVE PagesApart'
    OBVIOUS
  <2>1. ASSUME NEW q \in Protectors, pc'[q] = "publish" PROVE PageReady(q)'
    <3>1. PageReady(q) /\ page'[q] = page[q] /\ page[q] # g
      BY <1>4, <1>5, <1>6, <2>1 DEF FreeInv, PagesApart
    <3> HIDE DEF ScanInv, TypeOK, g
    <3> QED
      BY <1>1, <3>1 DEF PageReady
  <2>2. \A q, s \in Protectors : q # s /\ pc'[q] = "publish" /\ pc'[s] = "publish" =>
          page'[q] # page'[s]
    BY <1>4, <1>6 DEF FreeInv, PagesApart
  <2> QED
    BY <2>1, <2>2 DEF PagesApart
<1>10. HoldsListed'
  BY <1>1, <1>3, <1>4 DEF FreeInv, HoldsListed
<1>11. CASE freeHead = NULL /\ freeHead' = next[rec[p]] /\ Given(p, rec[p]) /\ UNCHANGED mapped
  <2>1. pc' = [pc EXCEPT ![p] = "push"]
    BY <1>11 DEF Given, Goto
  <2>2. Public' = Public \union {g}
    BY <1>1, <1>4, <1>5, <1>11, <2>1 DEF Public
  <2>3. Reachable' = Reachable \union {r \in Records : OfPage(g, r)}
    BY <2>2 DEF Reachable
  <2>4. Pushed' = Pushed \union {rec[p]}
    BY <1>1, <2>1 DEF Pushed
  <2>5. \A r : OfPage(g, r) => r \notin Listed /\ r \notin Pushed
    BY <1>8 DEF FreeInv, HandedOutOnce
  <2>6. OfPage(g, rec[p])
    BY <1>1, <1>2 DEF OfPage
  <2>7. Free' = Free \union {r \in Records : OfPage(g, r) /\ r # rec[p]}
    <3>1. rec[p] \notin Free
      BY <1>8, <2>6 DEF Free
    <3> HIDE DEF ScanInv, TypeOK, g
    <3> QED
      BY <1>3, <2>3, <2>4, <2>5, <3>1 DEF Free
  <2>8. HandedOutOnce'
    <3>1. \A q \in Protectors : q # p /\ pc[q] = "push" => rec[q] # rec[p]
      BY <2>5, <2>6 DEF Pushed
    <3>2. Listed' \subseteq Reachable' /\ Pushed' \subseteq Reachable'
      BY <1>1, <1>3, <2>3, <2>4, <2>6 DEF FreeInv, HandedOutOnce
    <3>3. \A q \in Protectors : pc'[q] = "push" => q = p \/ pc[q] = "push"
      BY <2>1
    <3>4. rec[p] \notin Listed
      BY <2>5, <2>6
    <3> HIDE DEF ScanInv, TypeOK, g
    <3> QED
      BY <1>1, <1>3, <3>1, <3>2, <3>3, <3>4 DEF FreeInv, HandedOutOnce
  <2>9. \A i \in DOMAIN g : next[g[i]] = IF i < Len(g) THEN g[i + 1] ELSE NULL
    BY <1>1 DEF PageReady
  <2>10. \A r : OfPage(g, r) /\ next[r] # NULL =>
           OfPage(g, next[r]) /\ next[r] \in Records /\ next[r] # g[1]
    <3> SUFFICES ASSUME NEW i \in DOMAIN g, next[g[i]] # NULL
                 PROVE  OfPage(g, next[g[i]]) /\ next[g[i]] \in Records /\ next[g[i]] # g[1]
      BY DEF OfPage
    <3>1. next[g[i]] = g[i + 1] /\ i + 1 \in DOMAIN g /\ i + 1 # 1 /\ g[i + 1] \in Records
      BY <1>2, <2>9
    <3>2. g[i + 1] # g[1]
      BY <1>2, <3>1, RecordsAssumption
    <3> QED
      BY <3>1, <3>2 DEF OfPage
  <2>11. \A r, s : OfPage(g, r) /\ OfPage(g, s) /\ next[r] = next[s] /\ next[r] # NULL => r = s
    <3> SUFFICES ASSUME NEW i \in DOMAIN g, NEW j \in DOMAIN g, next[g[i]] = next[g[j]],
                        next[g[i]] # NULL
                 PROVE  i = j
      BY DEF OfPage
    <3>1. /\ next[g[i]] = g[i + 1] /\ i + 1 \in DOMAIN g
          /\ next[g[j]] = g[j + 1] /\ j + 1 \in DOMAIN g
          /\ i \in Nat /\ j \in Nat
      BY <1>2, <2>9
    <3>2. i + 1 = j + 1
      BY <1>2, <3>1, OncePerPage
    <3> QED
      BY <3>1, <3>2
  <2>12. FreeChain'
    <3>1. \A r \in Free : ~OfPage(g, r)
      BY <1>8 DEF Free
    <3>2. \A r \in Free : next[r] # NULL => next[r] \in Free
      BY DEF FreeInv, FreeChain
    <3>3. \A r, s \in Free : next[r] = next[s] /\ next[r] # NULL => r = s
      BY DEF FreeInv, FreeChain
    <3>4. next[g[1]] # NULL => OfPage(g, next[g[1]]) /\ next[g[1]] \in Free'
      BY <1>1, <1>2, <2>6, <2>7, <2>10
    <3>5. \A r \in Free' : (OfPage(g, r) /\ r # g[1]) \/ r \in Free
      BY <1>1, <2>7
    <3>6. \A r \in Free' : next[r] # NULL => next[r] \in Free' /\ next[r] # next[g[1]]
      <4> SUFFICES ASSUME NEW r \in Free', next[r] # NULL
                   PROVE  next[r] \in Free' /\ next[r] # next[g[1]]
        OBVIOUS
      <4>1. CASE r \in Free
        BY <2>7, <3>1, <3>2, <3>4, <4>1
      <4>2. CASE OfPage(g, r) /\ r # g[1]
        BY <1>1, <2>6, <2>7, <2>10, <2>11, <4>2
      <4> QED
        BY <3>5, <4>1, <4>2
    <3>7. \A r, s \in Free' : next[r] = next[s] /\ next[r] # NULL => r = s
      BY <2>10, <2>11, <3>1, <3>2, <3>3, <3>5
    <3> HIDE DEF ScanInv, TypeOK, g
    <3> QED
      BY <1>1, <1>11, <3>4, <3>6, <3>7 DEF FreeChain, g
  <2>13. LinksFresh'
    <3> SUFFICES ASSUME NEW q \in Protectors, pc'[q] \in {"next", "pop"}
                 PROVE  /\ rec'[q] \in Reachable'
                        /\ pc'[q] = "pop" /\ rec'[q] \in Free' => link'[q] = next'[rec'[q]]
      BY DEF LinksFresh
    <3>1. q # p /\ pc[q] = pc'[q]
      BY <1>4
    <3>2. rec[q] \in Reachable /\ (pc[q] = "pop" /\ rec[q] \in Free => link[q] = next[rec[q]])
      BY <3>1 DEF FreeInv, LinksFresh
    <3>3. rec[q] \in Free' => rec[q] \in Free
      BY <1>8, <2>7, <3>2
    <3> QED
      BY <1>1, <2>3, <3>1, <3>2, <3>3
  <2> QED
    BY <1>9, <1>10, <1>11, <2>8, <2>12, <2>13 DEF FreeInv
<1>12. CASE /\ mapped' = mapped \ {g} /\ Goto(p, "obtain")
            /\ UNCHANGED <<freeHead, inUse, hazard>>
  <2>1. pc' = [pc EXCEPT ![p] = "obtain"]
    BY <1>12 DEF Goto
  <2>2. Public' = Public
    BY <1>1, <1>4, <1>5, <1>12, <2>1 DEF Public
  <2>3. Reachable' = Reachable
    BY <2>2 DEF Reachable
  <2>4. Pushed' = Pushed
    BY <1>1, <2>1 DEF Pushed
  <2>5. Free' = Free
    BY <1>3, <2>3, <2>4 DEF Free
  <2>6. HandedOutOnce'
    BY <1>1, <1>3, <2>1, <2>3, <2>4 DEF FreeInv, HandedOutOnce
  <2>7. FreeChain'
    BY <1>1, <1>12, <2>5 DEF FreeInv, FreeChain
  <2>8. LinksFresh'
    BY <1>1, <1>4, <2>3, <2>5 DEF FreeInv, LinksFresh
  <2> QED
    BY <1>9, <1>10, <1>12, <2>6, <2>7, <2>8 DEF FreeInv
<1> QED
  BY <1>11, <1>12 DEF PublishPage

(* Nobody can reach the records of a page that is still to be published.   *)
LEMMA PrivateHidden ==
  ASSUME ScanInv, FreeInv, NEW p \in Protectors, pc[p] = "publish"
  PROVE  page[p] \in Pages /\ \A r \in Reachable : ~OfPage(page[p], r)
<1>1. page[p] \in mapped /\ mapped \subseteq Pages
  BY DEF ScanInv, TypeOK, FreeInv, PagesApart, PageReady
<1>2. page[p] \notin Public
  BY DEF Public
<1> QED
  BY <1>1, <1>2, OnePage DEF Reachable, Public

(* A push moves a record from those that are pushed to the list, and       *)
(* writes a link that belongs to the list from then on.                    *)
LEMMA PushStep ==
  ASSUME ScanInv, FreeInv, NEW p \in Protectors, PushRecord(p)
  PROVE  FreeInv'
<1> USE DEF ScanInv, TypeOK
<1>1. /\ pc[p] = "push" /\ rec[p] \in Records
      /\ list' = Append(list, rec[p])
      /\ pc' = [pc EXCEPT ![p] = "load"]
      /\ UNCHANGED <<mapped, freeHead, rec, link, page>>
      /\ \A r \in Records : r # rec[p] => next'[r] = next[r]
  BY DEF PushRecord, HasRecord, Goto, ownVars
<1>2. rec[p] \in Pushed /\ rec[p] \in Reachable /\ rec[p] \notin Free /\ rec[p] \notin Listed
  BY <1>1 DEF Pushed, Free, FreeInv, HandedOutOnce
<1>3. Listed' = Listed \union {rec[p]}
  <2>1. /\ Len(list') = Len(list) + 1 /\ list'[Len(list) + 1] = rec[p] /\ Len(list) \in Nat
        /\ \A i \in 1 .. Len(list) : list'[i] = list[i]
    BY <1>1
  <2>2. 1 .. Len(list') = (1 .. Len(list)) \union {Len(list) + 1}
    BY <2>1
  <2> HIDE DEF ScanInv, TypeOK
  <2> QED
    BY <2>1, <2>2 DEF Listed
<1>4. Pushed' = Pushed \ {rec[p]}
  BY <1>1 DEF Pushed, FreeInv, HandedOutOnce
<1>5. Public' = Public /\ Reachable' = Reachable
  <2>1. \A q \in Protectors : pc'[q] = "publish" <=> pc[q] = "publish"
    BY <1>1
  <2> QED
    BY <1>1, <2>1 DEF Public, Reachable
<1>6. Free' = Free
  BY <1>2, <1>3, <1>4, <1>5 DEF Free
<1>7. PagesApart'
  <2>1. ASSUME NEW q \in Protectors, pc'[q] = "publish" PROVE PageReady(q)' /\ pc[q] = "publish"
    <3>1. pc[q] = "publish" /\ PageReady(q) /\ page[q] \in Pages /\ ~OfPage(page[q], rec[p])
      BY <1>1, <1>2, <2>1, PrivateHidden DEF FreeInv, PagesApart
    <3>2. page[q] \in Seq(Records)
      BY <3>1, RecordsAssumption
    <3>3. \A i \in DOMAIN page[q] : next'[page[q][i]] = next[page[q][i]]
      BY <1>1, <3>1, <3>2 DEF OfPage
    <3> HIDE DEF ScanInv, TypeOK
    <3> QED
      BY <1>1, <3>1, <3>3 DEF PageReady
  <2> QED
    BY <1>1, <2>1 DEF FreeInv, PagesApart
<1>8. HandedOutOnce'
  <2>1. \A i, j \in 1 .. Len(list') : i # j => list'[i] # list'[j]
    <3>1. \A i \in 1 .. Len(list) : list[i] # rec[p]
      BY <1>2 DEF Listed
    <3>2. \A i, j \in 1 .. Len(list) : i # j => list[i] # list[j]
      BY DEF FreeInv, HandedOutOnce
    <3>3. Len(list') = Len(list) + 1 /\ list'[Len(list) + 1] = rec[p]
          /\ \A i \in 1 .. Len(list) : list'[i] = list[i]
      BY <1>1
    <3>4. Len(list) \in Nat /\ \A i \in 1 .. Len(list') : i \in 1 .. Len(list) \/ i = Len(list) + 1
      BY <3>3
    <3> HIDE DEF ScanInv, TypeOK
    <3> QED
      BY <3>1, <3>2, <3>3, <3>4
  <2>2. \A q \in Protectors : pc'[q] = "push" => q # p /\ pc[q] = "push" /\ rec[q] # rec[p]
    BY <1>1 DEF FreeInv, HandedOutOnce
  <2>3. Listed' \subseteq Reachable' /\ Pushed' \subseteq Reachable'
    BY <1>2, <1>3, <1>4, <1>5 DEF FreeInv, HandedOutOnce
  <2> QED
    BY <1>1, <1>3, <2>1, <2>2, <2>3 DEF FreeInv, HandedOutOnce
<1>9. FreeChain'
  <2>1. \A r \in Free : next'[r] = next[r]
    BY <1>1, <1>2 DEF Free, Reachable
  <2>2. FreeChain /\ freeHead' = freeHead
    BY <1>1 DEF FreeInv
  <2> HIDE DEF ScanInv, TypeOK
  <2> QED
    BY <1>6, <2>1, <2>2 DEF FreeChain
<1>10. LinksFresh'
  <2>1. \A r \in Free : next'[r] = next[r]
    BY <1>1, <1>2 DEF Free, Reachable
  <2> QED
    BY <1>1, <1>5, <1>6, <2>1 DEF FreeInv, LinksFresh
<1>11. HoldsListed'
  BY <1>1, <1>3 DEF FreeInv, HoldsListed
<1> QED
  BY <1>7, <1>8, <1>9, <1>10, <1>11 DEF FreeInv

(* A step that touches neither the lists nor the pages, of a thread that   *)
(* is about to publish or to push neither before nor after it.             *)
LEMMA QuietStep ==
  ASSUME ScanInv, FreeInv, NEW p \in Protectors,
         UNCHANGED <<list, mapped, freeHead, next, page>>,
         \A q \in Protectors : q # p => pc'[q] = pc[q] /\ rec'[q] = rec[q] /\ link'[q] = link[q],
         pc[p] \notin {"publish", "push"}, pc'[p] \notin {"publish", "push"},
         pc'[p] \in {"next", "pop"} => rec'[p] \in Reachable,
         pc'[p] = "pop" /\ rec'[p] \in Free => link'[p] = next[rec'[p]],
         pc'[p] \in {"load", "announce", "validate", "use", "clear"} => rec'[p] \in Listed
  PROVE  FreeInv'
<1>1. \A q \in Protectors : \A l \in {"publish", "push"} :
        (pc'[q] = l <=> pc[q] = l) /\ (pc[q] = l => rec'[q] = rec[q])
  OBVIOUS
<1>2. Public' = Public /\ Listed' = Listed
  BY <1>1 DEF Public, Listed
<1>3. Reachable' = Reachable
  BY <1>2 DEF Reachable
<1>4. Pushed' = Pushed
  <2>1. {q \in Protectors : pc'[q] = "push"} = {q \in Protectors : pc[q] = "push"}
    BY <1>1
  <2> QED
    BY <1>1, <2>1 DEF Pushed
<1>5. Free' = Free
  BY <1>2, <1>3, <1>4 DEF Free
<1>6. PagesApart'
  <2>1. \A q \in Protectors : pc'[q] = "publish" => PageReady(q)'
    BY <1>1 DEF FreeInv, PagesApart, PageReady
  <2> QED
    BY <1>1, <2>1 DEF FreeInv, PagesApart
<1>7. HandedOutOnce'
  BY <1>1, <1>2, <1>3, <1>4 DEF FreeInv, HandedOutOnce
<1>8. FreeChain'
  BY <1>5 DEF FreeInv, FreeChain
<1>9. LinksFresh'
  BY <1>3, <1>5 DEF FreeInv, LinksFresh
<1>10. HoldsListed'
  BY <1>2 DEF FreeInv, HoldsListed
<1> QED
  BY <1>6, <1>7, <1>8, <1>9, <1>10 DEF FreeInv

(* No step hands a record out twice or breaks the free list.               *)
LEMMA FreeStep == ScanInv /\ FreeInv /\ [Next]_vars => FreeInv'
<1> SUFFICES ASSUME ScanInv, FreeInv, [Next]_vars PROVE FreeInv'
  OBVIOUS
<1>1. ASSUME NEW p \in Protectors, LoadSpare(p) PROVE FreeInv'
  <2>1. rec' = [rec EXCEPT ![p] = freeHead] /\ pc' = [pc EXCEPT ![p] = "next"]
        /\ pc[p] = "obtain" /\ freeHead \in Free
        /\ UNCHANGED <<list, mapped, freeHead, next, page, link>>
    BY <1>1 DEF LoadSpare, Goto, listVars, freeVars, ownVars, FreeInv, FreeChain
  <2>2. rec'[p] \in Reachable
    BY <2>1 DEF Free, ScanInv, TypeOK
  <2> QED
    BY <2>1, <2>2, QuietStep DEF ScanInv, TypeOK
<1>2. ASSUME NEW p \in Protectors, ReadNext(p) PROVE FreeInv'
  <2>1. link' = [link EXCEPT ![p] = next[rec[p]]] /\ pc' = [pc EXCEPT ![p] = "pop"]
        /\ pc[p] = "next" /\ rec[p] \in Reachable
        /\ UNCHANGED <<list, mapped, freeHead, next, page, rec>>
    BY <1>2 DEF ReadNext, Goto, listVars, freeVars, FreeInv, LinksFresh
  <2> QED
    BY <2>1, QuietStep DEF ScanInv, TypeOK
<1>3. ASSUME NEW p \in Protectors, RefusedRecord(p) PROVE FreeInv'
  <2>1. rec' = [rec EXCEPT ![p] = NULL] /\ pc' = [pc EXCEPT ![p] = "idle"] /\ pc[p] = "obtain"
        /\ UNCHANGED <<list, mapped, freeHead, next, page, link>>
    BY <1>3 DEF RefusedRecord, Goto, listVars, freeVars, ownVars
  <2> QED
    BY <2>1, QuietStep DEF ScanInv, TypeOK
<1>4. ASSUME NEW p \in Protectors, TakeRecord(p) PROVE FreeInv'
  <2>1. rec' = [rec EXCEPT ![p] = list[at[p]]] /\ pc' = [pc EXCEPT ![p] = "load"]
        /\ pc[p] = "walk" /\ at[p] \in 1 .. Len(list)
        /\ UNCHANGED <<list, mapped, freeHead, next, page, link>>
    BY <1>4 DEF TakeRecord, Goto, freeVars, ScanInv, TypeOK, WalksInside
  <2>2. rec'[p] \in Listed
    BY <2>1 DEF Listed, ScanInv, TypeOK
  <2> QED
    BY <2>1, <2>2, QuietStep DEF ScanInv, TypeOK
<1>5. ASSUME NEW p \in Protectors, BeginAcquire(p) \/ SkipRecord(p) \/ CountRecord(p)
      PROVE  FreeInv'
  <2>1. /\ UNCHANGED <<list, mapped, freeHead, next, page, rec, link>>
        /\ pc[p] \in {"idle", "walk"} /\ pc'[p] \in {"walk", "obtain"}
        /\ \A q \in Protectors : q # p => pc'[q] = pc[q]
    BY <1>5 DEF BeginAcquire, SkipRecord, CountRecord, Goto, listVars, freeVars, ownVars,
       ScanInv, TypeOK
  <2> QED
    BY <2>1, QuietStep
<1>6. ASSUME NEW p \in Protectors,
             LoadNode(p) \/ AnnounceNode(p) \/ ValidateNode(p) \/ ReleaseFlag(p) \/ RetryReleased(p)
      PROVE  FreeInv'
  <2>1. /\ UNCHANGED <<list, mapped, freeHead, next, page, rec, link>>
        /\ pc[p] \in {"load", "announce", "validate", "use", "clear"}
        /\ pc'[p] \in {"load", "announce", "validate", "use", "clear"}
        /\ \A q \in Protectors : q # p => pc'[q] = pc[q]
    BY <1>6 DEF LoadNode, AnnounceNode, ValidateNode, ReleaseFlag, RetryReleased, Goto,
       listVars, freeVars, ownVars, ScanInv, TypeOK
  <2>2. rec'[p] \in Listed
    BY <2>1 DEF FreeInv, HoldsListed
  <2> QED
    BY <2>1, <2>2, QuietStep
<1>7. ASSUME NEW p \in Protectors, ReleasePointer(p) \/ ReturnKeeping(p) PROVE FreeInv'
  <2>1. /\ UNCHANGED <<list, mapped, freeHead, next, page, link>>
        /\ pc[p] \in {"load", "use", "clear"} /\ pc'[p] = "idle"
        /\ \A q \in Protectors : q # p => pc'[q] = pc[q] /\ rec'[q] = rec[q]
    BY <1>7 DEF ReleasePointer, ReturnKeeping, Goto, listVars, freeVars, ownVars, ScanInv, TypeOK
  <2> QED
    BY <2>1, QuietStep
<1>8. ASSUME UNCHANGED <<list, mapped, freeHead, next, pc, rec, link, page>> PROVE FreeInv'
  <2>1. Public' = Public /\ Listed' = Listed /\ Pushed' = Pushed
    BY <1>8 DEF Public, Listed, Pushed
  <2>2. Reachable' = Reachable /\ Free' = Free
    BY <2>1 DEF Reachable, Free
  <2>3. \A q \in Protectors : PageReady(q)' <=> PageReady(q)
    BY <1>8 DEF PageReady
  <2> QED
    BY <1>8, <2>1, <2>2, <2>3 DEF FreeInv, PagesApart, HandedOutOnce, FreeChain, LinksFresh,
       HoldsListed
<1>9. ASSUME NEW t \in Reclaimers, Reclaim(t) PROVE FreeInv'
  BY <1>8, <1>9, ReclaimFrame
<1>10. CASE UNCHANGED vars
  BY <1>8, <1>10 DEF vars, listVars, freeVars, ownVars, protVars
<1> QED
  BY <1>1, <1>2, <1>3, <1>4, <1>5, <1>6, <1>7, <1>9, <1>10, MapStep, PopStep, PublishStep,
     PushStep DEF Next, Protect, ObtainRecord

(* The free list and the records handed out are sound in every state.      *)
LEMMA FreeInvariant == Spec => []FreeInv
<1>1. Init => FreeInv
  BY DEF Init, FreeInv, PagesApart, HandedOutOnce, FreeChain, LinksFresh, HoldsListed, Listed,
     Pushed, Free, Reachable, Public
<1> QED
  BY <1>1, ScanInvariant, FreeStep, PTL DEF Spec

-----------------------------------------------------------------------------
(* Until a thread goes on with a record it has released, an owned record   *)
(* is marked and has one owner.                                            *)
OwnedOnce ==
  retries = 0 =>
    /\ \A p \in Protectors : Owns(p) => rec[p] \in inUse
    /\ \A p, q \in Protectors : p # q /\ Owns(p) /\ Owns(q) => rec[p] # rec[q]

(* retries only grows.                                                     *)
LEMMA RetriesGrow ==
  ASSUME ScanInv, [Next]_vars, retries' = 0
  PROVE  retries = 0
<1> USE DEF ScanInv, TypeOK
<1>1. ASSUME NEW p \in Protectors, Protect(p) PROVE retries = 0
  <2>1. CASE ObtainRecord(p)
    BY <2>1, ObtainFrame
  <2>2. CASE RetryReleased(p)
    BY <2>2 DEF RetryReleased
  <2>3. CASE ~ObtainRecord(p) /\ ~RetryReleased(p)
    BY <1>1, <2>3 DEF Protect, BeginAcquire, TakeRecord, SkipRecord, CountRecord, PushRecord,
       LoadNode, AnnounceNode, ValidateNode, ReleaseFlag, ReleasePointer, ReturnKeeping, boundVars
  <2> QED
    BY <2>1, <2>2, <2>3
<1>2. ASSUME NEW t \in Reclaimers, Reclaim(t) PROVE retries = 0
  BY <1>2, ReclaimFrame
<1>3. CASE UNCHANGED vars
  BY <1>3 DEF vars, boundVars
<1> QED
  BY <1>1, <1>2, <1>3 DEF Next

(* Whoever pushes and whoever has a record of the list have different ones.*)
LEMMA PushingApart ==
  ASSUME FreeInv, NEW p \in Protectors, NEW q \in Protectors, p # q, pc[p] = "push", Owns(q)
  PROVE  rec[p] # rec[q]
BY DEF FreeInv, HandedOutOnce, HoldsListed, Owns

(* A record is marked by the thread that takes it from the list, or before *)
(* it is there; the mark goes with its only owner.                         *)
LEMMA OwnerStep == ScanInv /\ FreeInv /\ FreeInv' /\ OwnedOnce /\ [Next]_vars => OwnedOnce'
<1> SUFFICES ASSUME ScanInv, FreeInv, FreeInv', OwnedOnce, [Next]_vars, retries' = 0
             PROVE  /\ \A p \in Protectors : Owns(p)' => rec'[p] \in inUse'
                    /\ \A p, q \in Protectors : p # q /\ Owns(p)' /\ Owns(q)' => rec'[p] # rec'[q]
  BY DEF OwnedOnce
<1>1. retries = 0
  BY RetriesGrow
<1>2. /\ \A p \in Protectors : Owns(p) => rec[p] \in inUse
      /\ \A p, q \in Protectors : p # q /\ Owns(p) /\ Owns(q) => rec[p] # rec[q]
  BY <1>1 DEF OwnedOnce
<1> USE DEF ScanInv, TypeOK
<1>3. ASSUME NEW p \in Protectors, Protect(p)
      PROVE  /\ \A q \in Protectors : Owns(q)' => rec'[q] \in inUse'
             /\ \A q, s \in Protectors : q # s /\ Owns(q)' /\ Owns(s)' => rec'[q] # rec'[s]
  <2>1. \A q \in Protectors : q # p => (Owns(q)' <=> Owns(q)) /\ rec'[q] = rec[q]
    BY <1>3, OthersFrame DEF Owns
  <2>2. SUFFICES
          /\ Owns(p)' => /\ rec'[p] \in inUse'
                         /\ \A q \in Protectors : q # p /\ Owns(q) => rec'[p] # rec[q]
          /\ \A q \in Protectors : q # p /\ Owns(q) => rec[q] \in inUse'
    BY <1>2, <2>1
  <2>3. CASE TakeRecord(p)
    <3>1. /\ rec'[p] \notin inUse /\ inUse' = inUse \union {rec'[p]}
      BY <2>3 DEF TakeRecord
    <3> QED
      BY <1>2, <3>1
  <2>4. CASE PopSpare(p) \/ PublishPage(p)
    <3>1. \/ pc'[p] = "push" /\ inUse' = inUse \union {rec[p]} /\ rec'[p] = rec[p]
          \/ pc'[p] = "obtain" /\ inUse' = inUse
      BY <2>4 DEF PopSpare, PublishPage, Given, Goto
    <3>2. CASE pc'[p] = "push" /\ inUse' = inUse \union {rec[p]} /\ rec'[p] = rec[p]
      <4>1. \A q \in Protectors : q # p /\ pc'[q] = "push" => rec'[p] # rec'[q]
        BY <3>2 DEF FreeInv, HandedOutOnce
      <4>2. \A q \in Protectors : q # p /\ pc'[q] \in {"load", "announce", "validate", "use"} =>
              rec'[p] # rec'[q]
        BY <3>2 DEF FreeInv, HandedOutOnce, HoldsListed
      <4>3. \A q \in Protectors : q # p /\ Owns(q) => rec'[p] # rec[q]
        BY <1>3, <4>1, <4>2, OthersFrame DEF Owns
      <4> QED
        BY <1>2, <3>2, <4>3
    <3>3. CASE pc'[p] = "obtain" /\ inUse' = inUse
      BY <1>2, <3>3 DEF Owns
    <3> QED
      BY <3>1, <3>2, <3>3
  <2>5. CASE ReleaseFlag(p)
    <3>1. pc[p] = "use" /\ pc'[p] = "clear" /\ inUse' = inUse \ {rec[p]}
      BY <2>5 DEF ReleaseFlag, Goto
    <3>2. ~Owns(p)' /\ Owns(p)
      BY <3>1 DEF Owns
    <3> QED
      BY <1>2, <3>1, <3>2
  <2>6. CASE \/ PushRecord(p) \/ LoadNode(p) \/ AnnounceNode(p) \/ ValidateNode(p)
             \/ ReleasePointer(p) \/ ReturnKeeping(p) \/ BeginAcquire(p) \/ SkipRecord(p)
             \/ CountRecord(p)
    <3>1. inUse' = inUse /\ (Owns(p)' => Owns(p) /\ rec'[p] = rec[p])
      BY <2>6 DEF PushRecord, LoadNode, AnnounceNode, ValidateNode, ReleasePointer, ReturnKeeping,
         BeginAcquire, SkipRecord, CountRecord, Goto, listVars, Owns
    <3> QED
      BY <1>2, <3>1
  <2>7. CASE LoadSpare(p) \/ ReadNext(p) \/ MapPage(p) \/ RefusedRecord(p)
    <3>1. inUse' = inUse /\ ~Owns(p)'
      BY <2>7 DEF LoadSpare, ReadNext, MapPage, RefusedRecord, Goto, listVars, Owns
    <3> QED
      BY <1>2, <3>1
  <2>8. CASE RetryReleased(p)
    BY <1>1, <2>8 DEF RetryReleased
  <2> QED
    BY <1>3, <2>3, <2>4, <2>5, <2>6, <2>7, <2>8 DEF Protect, ObtainRecord
<1>4. ASSUME NEW t \in Reclaimers, Reclaim(t)
      PROVE  /\ \A q \in Protectors : Owns(q)' => rec'[q] \in inUse'
             /\ \A q, s \in Protectors : q # s /\ Owns(q)' /\ Owns(s)' => rec'[q] # rec'[s]
  BY <1>2, <1>4, ReclaimFrame DEF Owns
<1>5. CASE UNCHANGED vars
  BY <1>2, <1>5 DEF vars, listVars, protVars, Owns
<1> QED
  BY <1>3, <1>4, <1>5 DEF Next

(* allocate_hp hands a record out once, and until a thread goes on with    *)
(* one it has released, a record belongs to one thread between acquire_hp  *)
(* and the moment release_hp clears its flag.                              *)
THEOREM RecordsHaveOneOwner == Spec => []RecordsExclusive
<1>1. Init => OwnedOnce
  BY DEF Init, OwnedOnce, Owns
<1>2. FreeInv /\ OwnedOnce => RecordsExclusive
  BY DEF FreeInv, HandedOutOnce, Listed, OwnedOnce, RecordsExclusive
<1> QED
  BY <1>1, <1>2, ScanInvariant, FreeInvariant, OwnerStep, PTL DEF Spec

-----------------------------------------------------------------------------
(* A node is in place, or retired by one reclaimer, or fresh, or lost.     *)
NodesApart ==
  /\ source \notin fresh
  /\ \A t \in Reclaimers : source \notin retired[t] /\ retired[t] \intersect fresh = {}
  /\ \A t, u \in Reclaimers : t # u => retired[t] \intersect retired[u] = {}

(* Whoever announces has a node.                                           *)
Announcing ==
  \A p \in Protectors : pc[p] \in {"announce", "validate", "use"} => node[p] \in Nodes

Stands(p) == pc[p] = "use" /\ hazard[rec[p]] = node[p]

(* The scan of whoever has retired what a standing announcement names has  *)
(* collected the pointer or has yet to visit the record.                   *)
SeenOrAhead ==
  \A p \in Protectors, t \in Reclaimers :
    Stands(p) /\ node[p] \in retired[t] /\ scanPc[t] \in {"count", "flag", "pointer"} =>
      node[p] \in found[t] \/ \E k \in 1 .. scanAt[t] : list[k] = rec[p]

StandingNotFresh == \A p \in Protectors : Stands(p) => node[p] \notin fresh

HazardInv ==
  /\ NodesApart /\ Announcing
  /\ retries = 0 => StandingNotFresh /\ SeenOrAhead

(* Retiring moves the node in place to at most one retired list, and       *)
(* freeing moves retired nodes to the fresh ones.                          *)
LEMMA ApartStep == TypeOK /\ NodesApart /\ [Next]_vars => NodesApart'
<1> SUFFICES ASSUME TypeOK, NodesApart, [Next]_vars PROVE NodesApart'
  OBVIOUS
<1> USE DEF TypeOK
<1>1. ASSUME NEW t \in Reclaimers, RetireNode(t) PROVE NodesApart'
  <2>1. PICK n \in fresh : source' = n /\ fresh' = fresh \ {n}
    BY <1>1 DEF RetireNode
  <2>2. CASE retired' = [retired EXCEPT ![t] = retired[t] \union {source}]
    BY <2>1, <2>2 DEF NodesApart
  <2>3. CASE UNCHANGED retired
    BY <2>1, <2>3 DEF NodesApart
  <2> QED
    BY <1>1, <2>2, <2>3 DEF RetireNode
<1>2. ASSUME NEW t \in Reclaimers, FreeNodes(t) PROVE NodesApart'
  <2>1. /\ fresh' = fresh \union (retired[t] \ found[t])
        /\ retired' = [retired EXCEPT ![t] = retired[t] \intersect found[t]]
        /\ source' = source
    BY <1>2 DEF FreeNodes
  <2> QED
    BY <2>1 DEF NodesApart
<1>3. ASSUME NEW t \in Reclaimers, ScanHead(t) \/ ScanCount(t) \/ ScanFlag(t) \/ ScanPointer(t)
      PROVE NodesApart'
  BY <1>3 DEF ScanHead, ScanCount, ScanFlag, ScanPointer, nodeVars, NodesApart
<1>4. ASSUME NEW p \in Protectors, Protect(p) PROVE NodesApart'
  BY <1>4, ProtectFrame DEF NodesApart
<1>5. CASE UNCHANGED vars
  BY <1>5 DEF vars, nodeVars, NodesApart
<1> QED
  BY <1>1, <1>2, <1>3, <1>4, <1>5 DEF Next, Reclaim

(* A node is loaded from the shared location, which always refers to one.  *)
LEMMA AnnouncingStep == ScanInv /\ Announcing /\ [Next]_vars => Announcing'
<1> SUFFICES ASSUME ScanInv, Announcing, [Next]_vars PROVE Announcing'
  OBVIOUS
<1> USE DEF ScanInv, TypeOK
<1>1. ASSUME NEW p \in Protectors, Protect(p) PROVE Announcing'
  <2> SUFFICES pc'[p] \in {"announce", "validate", "use"} => node'[p] \in Nodes
    BY <1>1, OthersFrame DEF Announcing
  <2>1. CASE LoadNode(p)
    BY <2>1 DEF LoadNode
  <2>2. CASE AnnounceNode(p) \/ ValidateNode(p)
    BY <2>2 DEF AnnounceNode, ValidateNode, Announcing
  <2>3. CASE ~LoadNode(p) /\ ~AnnounceNode(p) /\ ~ValidateNode(p)
    BY <1>1, <2>3 DEF Protect, BeginAcquire, TakeRecord, SkipRecord, CountRecord, ObtainRecord,
       LoadSpare, ReadNext, PopSpare, MapPage, PublishPage, RefusedRecord, Given, PushRecord,
       ReleaseFlag, ReleasePointer, RetryReleased, ReturnKeeping, Goto
  <2> QED
    BY <2>1, <2>2, <2>3
<1>2. ASSUME NEW t \in Reclaimers, Reclaim(t) PROVE Announcing'
  BY <1>2, ReclaimFrame DEF Announcing
<1>3. CASE UNCHANGED vars
  BY <1>3 DEF vars, protVars, Announcing
<1> QED
  BY <1>1, <1>2, <1>3 DEF Next

(* A step of a protector makes no announcement stand but the one it has    *)
(* just found in place, and changes neither node nor record of the others. *)
LEMMA StandsStep ==
  ASSUME ScanInv, FreeInv, OwnedOnce, Announcing, retries = 0, NEW p \in Protectors, Protect(p),
         retries' = 0, NEW q \in Protectors, Stands(q)'
  PROVE  /\ node'[q] = node[q] /\ rec'[q] = rec[q]
         /\ Stands(q) \/ node[q] = source
<1> USE DEF ScanInv, TypeOK
<1>1. CASE q = p
  <2>1. ValidateNode(p)
    BY <1>1 DEF Protect, BeginAcquire, TakeRecord, SkipRecord, CountRecord, ObtainRecord,
       LoadSpare, ReadNext, PopSpare, MapPage, PublishPage, RefusedRecord, Given, PushRecord,
       LoadNode, AnnounceNode, ReleaseFlag, ReleasePointer, RetryReleased, ReturnKeeping, Goto,
       Stands
  <2> QED
    BY <1>1, <2>1 DEF ValidateNode, Goto, Stands, listVars
<1>2. CASE q # p
  <2>1. pc[q] = "use" /\ node'[q] = node[q] /\ rec'[q] = rec[q]
    BY <1>2, OthersFrame DEF Stands
  <2>2. node[q] # NULL /\ rec[q] \in Records
    BY <2>1, RecordsAssumption DEF Announcing, HasRecord
  <2>3. CASE AnnounceNode(p)
    <3>1. Owns(p) /\ Owns(q)
      BY <2>1, <2>3 DEF AnnounceNode, Owns
    <3>2. rec[p] # rec[q]
      BY <1>2, <3>1 DEF OwnedOnce
    <3>3. hazard'[rec[q]] = hazard[rec[q]]
      BY <2>3, <3>2 DEF AnnounceNode
    <3> QED
      BY <2>1, <3>3 DEF Stands
  <2>4. CASE ~AnnounceNode(p)
    <3>1. hazard' = hazard \/ hazard' = [hazard EXCEPT ![rec[p]] = NULL]
      BY <2>4 DEF Protect, BeginAcquire, TakeRecord, SkipRecord, CountRecord, ObtainRecord,
         LoadSpare, ReadNext, PopSpare, MapPage, PublishPage, RefusedRecord, Given, PushRecord,
         LoadNode, ValidateNode, ReleaseFlag, ReleasePointer, RetryReleased, ReturnKeeping,
         listVars
    <3>2. hazard'[rec[q]] = hazard[rec[q]] \/ hazard'[rec[q]] = NULL
      BY <2>2, <3>1
    <3> QED
      BY <2>1, <2>2, <3>2 DEF Stands
  <2> QED
    BY <2>3, <2>4
<1> QED
  BY <1>1, <1>2

(* What an announcement names is not freed, and a scan never passes its    *)
(* record without collecting the pointer: the flag is set.                 *)
LEMMA HazardStep ==
  ASSUME ScanInv, FreeInv, OwnedOnce, HazardInv, retries = 0, [Next]_vars, retries' = 0
  PROVE  StandingNotFresh' /\ SeenOrAhead'
<1> USE DEF ScanInv, TypeOK
<1> NodesApart /\ Announcing /\ StandingNotFresh /\ SeenOrAhead
  BY DEF HazardInv
<1>1. ASSUME NEW p \in Protectors, Protect(p) PROVE StandingNotFresh' /\ SeenOrAhead'
  <2>1. UNCHANGED <<scanPc, scanAt, found, source, fresh, retired>>
    BY <1>1, ProtectFrame
  <2>2. \A k \in 1 .. Len(list) : list'[k] = list[k]
    BY <1>1, ListGrows
  <2>3. \A t \in Reclaimers : scanPc[t] \in {"count", "flag", "pointer"} =>
          \A k \in 1 .. scanAt[t] : list'[k] = list[k]
    BY <2>2 DEF WalksInside
  <2>4. \A q \in Protectors : Stands(q)' =>
          node'[q] = node[q] /\ rec'[q] = rec[q] /\ (Stands(q) \/ node[q] = source)
    BY <1>1, StandsStep
  <2>5. StandingNotFresh'
    BY <2>1, <2>4 DEF StandingNotFresh, NodesApart
  <2>6. SeenOrAhead'
    <3>1. SUFFICES ASSUME NEW q \in Protectors, NEW t \in Reclaimers, Stands(q)',
                          node'[q] \in retired[t], scanPc[t] \in {"count", "flag", "pointer"}
                   PROVE  node'[q] \in found[t] \/ \E k \in 1 .. scanAt[t] : list'[k] = rec'[q]
      BY <2>1 DEF SeenOrAhead
    <3>2. node'[q] = node[q] /\ rec'[q] = rec[q] /\ (Stands(q) \/ node[q] = source)
      BY <2>4, <3>1
    <3>3. Stands(q)
      BY <3>1, <3>2 DEF NodesApart
    <3>4. node[q] \in found[t] \/ \E k \in 1 .. scanAt[t] : list[k] = rec[q]
      BY <3>1, <3>2, <3>3 DEF SeenOrAhead
    <3> QED
      BY <2>3, <3>1, <3>2, <3>4
  <2> QED
    BY <2>5, <2>6
<1>2. ASSUME NEW t \in Reclaimers, Reclaim(t) PROVE StandingNotFresh' /\ SeenOrAhead'
  <2>1. UNCHANGED <<list, inUse, hazard, pc, rec, node>>
    BY <1>2, ReclaimFrame
  <2>2. \A p \in Protectors : Stands(p)' <=> Stands(p)
    BY <2>1 DEF Stands
  <2>3. CASE RetireNode(t)
    <3>1. /\ scanPc[t] = "idle" /\ scanPc'[t] \in {"idle", "head"}
          /\ \A u \in Reclaimers : u # t => scanPc'[u] = scanPc[u]
          /\ UNCHANGED <<scanAt, found>> /\ fresh' \subseteq fresh
      BY <2>3 DEF RetireNode, ScanGoto
    <3>2. \A u \in Reclaimers : u # t => retired'[u] = retired[u]
      <4>1. CASE retired' = [retired EXCEPT ![t] = retired[t] \union {source}]
        BY <4>1
      <4>2. CASE UNCHANGED retired
        BY <4>2
      <4> QED
        BY <2>3, <4>1, <4>2 DEF RetireNode
    <3>3. StandingNotFresh'
      BY <2>1, <2>2, <3>1 DEF StandingNotFresh
    <3>4. ASSUME NEW p \in Protectors, NEW u \in Reclaimers, Stands(p)', node'[p] \in retired'[u],
                 scanPc'[u] \in {"count", "flag", "pointer"}
          PROVE  node[p] \in found[u] \/ \E k \in 1 .. scanAt[u] : list[k] = rec[p]
      <4>1. u # t
        BY <3>1, <3>4
      <4>2. Stands(p) /\ node[p] \in retired[u] /\ scanPc[u] \in {"count", "flag", "pointer"}
        BY <2>1, <2>2, <3>1, <3>2, <3>4, <4>1
      <4> QED
        BY <4>2 DEF SeenOrAhead
    <3>5. SeenOrAhead'
      BY <2>1, <3>1, <3>4 DEF SeenOrAhead
    <3> QED
      BY <3>3, <3>5
  <2>4. CASE ScanHead(t)
    <3>1. /\ UNCHANGED <<fresh, retired>>
          /\ scanAt' = [scanAt EXCEPT ![t] = Len(list)]
          /\ found' = [found EXCEPT ![t] = {}]
          /\ \A u \in Reclaimers : u # t => scanPc'[u] = scanPc[u]
      BY <2>4 DEF ScanHead, ScanGoto, nodeVars
    <3>2. \A p \in Protectors : Stands(p) => \E k \in 1 .. Len(list) : list[k] = rec[p]
      BY DEF FreeInv, HoldsListed, Listed, Stands
    <3> QED
      BY <2>1, <2>2, <3>1, <3>2 DEF StandingNotFresh, SeenOrAhead
  <2>5. CASE ScanCount(t)
    <3>1. /\ UNCHANGED <<fresh, retired, scanAt, found>> /\ scanPc[t] = "count"
          /\ \A u \in Reclaimers : u # t => scanPc'[u] = scanPc[u]
      BY <2>5 DEF ScanCount, ScanGoto, nodeVars
    <3> QED
      BY <2>1, <2>2, <3>1 DEF StandingNotFresh, SeenOrAhead
  <2>6. CASE ScanFlag(t)
    <3>1. /\ UNCHANGED <<fresh, retired, found>> /\ scanPc[t] = "flag" /\ scanAt[t] > 0
          /\ \A u \in Reclaimers : u # t => scanPc'[u] = scanPc[u] /\ scanAt'[u] = scanAt[u]
      BY <2>6 DEF ScanFlag, ScanGoto, nodeVars
    <3>2. \/ scanAt'[t] = scanAt[t]
          \/ list[scanAt[t]] \notin inUse /\ scanAt'[t] = scanAt[t] - 1
      BY <2>6 DEF ScanFlag
    <3>3. \A p \in Protectors : Stands(p) => rec[p] \in inUse
      BY DEF OwnedOnce, Owns, Stands
    <3>4. ASSUME NEW p \in Protectors, Stands(p), NEW k \in 1 .. scanAt[t], list[k] = rec[p]
          PROVE  k \in 1 .. scanAt'[t]
      BY <3>1, <3>2, <3>3, <3>4
    <3>5. StandingNotFresh'
      BY <2>1, <2>2, <3>1 DEF StandingNotFresh
    <3>6. SeenOrAhead'
      <4>1. SUFFICES ASSUME NEW p \in Protectors, NEW u \in Reclaimers, Stands(p),
                            node[p] \in retired[u], scanPc'[u] \in {"count", "flag", "pointer"}
                     PROVE  node[p] \in found[u] \/ \E k \in 1 .. scanAt'[u] : list[k] = rec[p]
        BY <2>1, <2>2, <3>1 DEF SeenOrAhead
      <4>2. scanPc[u] \in {"count", "flag", "pointer"}
        BY <3>1, <4>1
      <4>3. node[p] \in found[u] \/ \E k \in 1 .. scanAt[u] : list[k] = rec[p]
        BY <4>1, <4>2 DEF SeenOrAhead
      <4> QED
        BY <3>1, <3>4, <4>1, <4>3
    <3> QED
      BY <3>5, <3>6
  <2>7. CASE ScanPointer(t)
    <3>1. /\ UNCHANGED <<fresh, retired>> /\ scanPc[t] = "pointer"
          /\ scanAt' = [scanAt EXCEPT ![t] = scanAt[t] - 1]
          /\ found' = [found EXCEPT ![t] = found[t] \union {hazard[list[scanAt[t]]]}]
          /\ \A u \in Reclaimers : u # t => scanPc'[u] = scanPc[u]
      BY <2>7 DEF ScanPointer, ScanGoto, nodeVars
    <3>2. ASSUME NEW p \in Protectors, Stands(p), NEW k \in 1 .. scanAt[t], list[k] = rec[p]
          PROVE  node[p] \in found'[t] \/ k \in 1 .. scanAt'[t]
      BY <3>1, <3>2 DEF Stands
    <3> QED
      BY <2>1, <2>2, <3>1, <3>2 DEF StandingNotFresh, SeenOrAhead
  <2>8. CASE FreeNodes(t)
    <3>1. /\ scanPc[t] = "flag" /\ scanAt[t] = 0 /\ scanPc'[t] = "idle"
          /\ fresh' = fresh \union (retired[t] \ found[t])
          /\ retired' = [retired EXCEPT ![t] = retired[t] \intersect found[t]]
          /\ \A u \in Reclaimers : u # t => scanPc'[u] = scanPc[u] /\ found'[u] = found[u]
          /\ UNCHANGED scanAt
      BY <2>8 DEF FreeNodes, ScanGoto
    <3>2. \A p \in Protectors : Stands(p) /\ node[p] \in retired[t] => node[p] \in found[t]
      BY <3>1 DEF SeenOrAhead
    <3>3. StandingNotFresh'
      BY <2>1, <2>2, <3>1, <3>2 DEF StandingNotFresh
    <3>4. \A u \in Reclaimers : retired'[u] \subseteq retired[u]
      BY <3>1
    <3>5. SeenOrAhead'
      BY <2>1, <2>2, <3>1, <3>4 DEF SeenOrAhead
    <3> QED
      BY <3>3, <3>5
  <2> QED
    BY <1>2, <2>3, <2>4, <2>5, <2>6, <2>7, <2>8 DEF Reclaim
<1>3. CASE UNCHANGED vars
  BY <1>3 DEF vars, listVars, nodeVars, protVars, scanVars, StandingNotFresh, SeenOrAhead, Stands
<1> QED
  BY <1>1, <1>2, <1>3 DEF Next

(* An announcement that has been validated and still stands in its record  *)
(* keeps the node from being freed, however many threads retire and scan,  *)
(* until a thread goes on with a record it has released.                   *)
THEOREM StandingHazardsAreRespected == Spec => []StandingHazardRespected
<1>1. Init => OwnedOnce /\ HazardInv
  BY DEF Init, OwnedOnce, Owns, HazardInv, NodesApart, Announcing, StandingNotFresh,
     SeenOrAhead, Stands
<1>2. ScanInv /\ FreeInv /\ OwnedOnce /\ HazardInv /\ [Next]_vars => HazardInv'
  <2> SUFFICES ASSUME ScanInv, FreeInv, OwnedOnce, HazardInv, [Next]_vars PROVE HazardInv'
    OBVIOUS
  <2>1. NodesApart' /\ Announcing'
    BY ApartStep, AnnouncingStep DEF HazardInv, ScanInv
  <2>2. retries' = 0 => StandingNotFresh' /\ SeenOrAhead'
    BY RetriesGrow, HazardStep
  <2> QED
    BY <2>1, <2>2 DEF HazardInv
<1>3. HazardInv => StandingHazardRespected
  BY DEF HazardInv, StandingNotFresh, Stands, StandingHazardRespected
<1> QED
  BY <1>1, <1>2, <1>3, ScanInvariant, FreeInvariant, OwnerStep, PTL DEF Spec
=============================================================================

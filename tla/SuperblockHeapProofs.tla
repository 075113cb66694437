------------------------ MODULE SuperblockHeapProofs ------------------------
(***************************************************************************)
(* Every step of a thread keeps the inductive invariant of SuperblockHeap. *)
(* The first half shows it of the types, the count of hazard records, who  *)
(* knows of a descriptor, and the states of the superblocks; the second of *)
(* the places of the descriptors, the tags, the owners of the blocks and   *)
(* the free lists. So the invariant always holds, and with it the safety   *)
(* properties of the heap and the refinement of AbstractAllocator.         *)
(***************************************************************************)
EXTENDS SuperblockHeapInvariant, FiniteSetTheorems, TLAPS

-----------------------------------------------------------------------------
(* Sums over threads and heaps.                                            *)

(* Total(f) counts the units of f: for each x of its domain as many pairs  *)
(* as f[x] says.                                                           *)
Units(f, S) == UNION {{x} \X (1 .. f[x]) : x \in S}

(* The units of finitely many naturals are finitely many.                  *)
LEMMA UnitsFinite ==
  ASSUME NEW S, IsFiniteSet(S), NEW f, \A x \in S : f[x] \in Nat
  PROVE  IsFiniteSet(Units(f, S)) /\ Cardinality(Units(f, S)) \in Nat
<1> DEFINE T == {{x} \X (1 .. f[x]) : x \in S}
<1> DEFINE g == [x \in S |-> {x} \X (1 .. f[x])]
<1>1. g \in Surjection(S, T)
  BY DEF Surjection
<1>2. IsFiniteSet(T)
  <2> HIDE DEF g, T
  <2> QED BY <1>1, FS_Surjection
<1>3. ASSUME NEW x \in S PROVE IsFiniteSet({x} \X (1 .. f[x]))
  <2>1. IsFiniteSet({x})
    BY FS_Singleton
  <2>2. IsFiniteSet(1 .. f[x])
    BY FS_Interval
  <2> QED BY <2>1, <2>2, FS_Product
<1>4. \A U \in T : IsFiniteSet(U)
  BY <1>3
<1>5. IsFiniteSet(UNION T)
  <2> HIDE DEF T
  <2> QED BY <1>2, <1>4, FS_UNION
<1> QED
  BY <1>5, FS_CardinalityType DEF Units

(* The units of one element are set apart from those of the others.        *)
LEMMA UnitsSplit ==
  ASSUME NEW S, IsFiniteSet(S), NEW f, \A y \in S : f[y] \in Nat, NEW x \in S
  PROVE  Cardinality(Units(f, S)) = Cardinality(Units(f, S \ {x})) + f[x]
<1> DEFINE A == Units(f, S \ {x})
<1> DEFINE B == {x} \X (1 .. f[x])
<1>1. IsFiniteSet(A) /\ Cardinality(A) \in Nat
  <2>1. IsFiniteSet(S \ {x})
    BY FS_RemoveElement
  <2> QED BY <2>1, UnitsFinite
<1>2. IsFiniteSet(B) /\ Cardinality(B) = f[x]
  <2>1. IsFiniteSet({x}) /\ Cardinality({x}) = 1
    BY FS_Singleton
  <2>2. IsFiniteSet(1 .. f[x]) /\ Cardinality(1 .. f[x]) = f[x]
    BY FS_Interval
  <2>3. Cardinality(B) = 1 * f[x] /\ IsFiniteSet(B)
    BY <2>1, <2>2, FS_Product
  <2> QED BY <2>3
<1>3. A \cap B = {}
  BY DEF Units
<1>4. A \cup B = Units(f, S)
  BY DEF Units
<1>5. Cardinality(A \cup B) = Cardinality(A) + f[x]
  <2>0. f[x] \in Nat
    OBVIOUS
  <2> HIDE DEF A, B
  <2>1. Cardinality({}) = 0
    BY FS_EmptySet
  <2>2. Cardinality(A \cup B) = Cardinality(A) + Cardinality(B) - Cardinality(A \cap B)
    BY <1>1, <1>2, FS_Union
  <2>3. Cardinality(A \cap B) = 0
    BY <1>3, <2>1
  <2> QED BY <1>1, <1>2, <2>0, <2>2, <2>3
<1> QED
  BY <1>4, <1>5

(* A total of naturals is a natural, and at least as large as each of      *)
(* them.                                                                   *)
LEMMA TotalNat ==
  ASSUME NEW S, IsFiniteSet(S), NEW f \in [S -> Nat]
  PROVE  Total(f) \in Nat /\ \A x \in S : f[x] <= Total(f)
<1>1. DOMAIN f = S /\ Total(f) = Cardinality(Units(f, S))
  BY DEF Total, Units
<1>2. ASSUME NEW x \in S PROVE f[x] <= Total(f)
  <2>1. Total(f) = Cardinality(Units(f, S \ {x})) + f[x]
    BY <1>1, UnitsSplit
  <2>2. Cardinality(Units(f, S \ {x})) \in Nat
    <3>1. IsFiniteSet(S \ {x})
      BY FS_RemoveElement
    <3> QED BY <3>1, UnitsFinite
  <2> QED BY <2>1, <2>2
<1> QED BY <1>1, <1>2, UnitsFinite

(* Changing one term changes the total by as much.                         *)
LEMMA TotalChange ==
  ASSUME NEW S, IsFiniteSet(S), NEW f \in [S -> Nat], NEW g \in [S -> Nat], NEW x \in S,
         \A y \in S \ {x} : f[y] = g[y]
  PROVE  Total(g) = Total(f) - f[x] + g[x]
<1>1. /\ Total(f) = Cardinality(Units(f, S \ {x})) + f[x]
      /\ Total(g) = Cardinality(Units(g, S \ {x})) + g[x]
  BY UnitsSplit DEF Total, Units
<1>2. Units(f, S \ {x}) = Units(g, S \ {x})
  BY DEF Units
<1>3. Cardinality(Units(f, S \ {x})) \in Nat
    <3>1. IsFiniteSet(S \ {x})
      BY FS_RemoveElement
    <3> QED BY <3>1, UnitsFinite
<1> QED BY <1>1, <1>2, <1>3

(* A total of zeros is zero.                                               *)
LEMMA TotalZero ==
  ASSUME NEW S, NEW f \in [S -> Nat], \A x \in S : f[x] = 0
  PROVE  Total(f) = 0
<1>1. UNION {{x} \X (1 .. f[x]) : x \in S} = {}
  OBVIOUS
<1> QED BY <1>1, FS_EmptySet DEF Total

-----------------------------------------------------------------------------
(* Steps, blocks, credits and the list.                                    *)

(* A step of t leaves alone what belongs to the other threads.             *)
OnlyThread(t) ==
  \A u \in Threads \ {t} : pc'[u] = pc[u] /\ reg'[u] = reg[u] /\ retired'[u] = retired[u]

LEMMA StepOfOne ==
  ASSUME Types, NEW t \in Threads, Act(t)
  PROVE  OnlyThread(t)
<1> USE DEF Types, TypeOK, LocalsSet, OnlyThread, Goto, poolVars
<1>1. CASE BeginMalloc(t) BY <1>1 DEF BeginMalloc
<1>2. CASE BeginFree(t) BY <1>2 DEF BeginFree
<1>3. CASE ReserveActive(t) BY <1>3 DEF ReserveActive
<1>4. CASE PopRead(t) BY <1>4 DEF PopRead
<1>5. CASE PopNext(t) BY <1>5 DEF PopNext
<1>6. CASE PopCas(t) BY <1>6 DEF PopCas
<1>7. CASE UpdateActive(t) BY <1>7 DEF UpdateActive
<1>8. CASE ReturnCredits(t) BY <1>8 DEF ReturnCredits
<1>9. CASE PutPartial(t) BY <1>9 DEF PutPartial, Resume, Finish
<1>10. CASE PutList(t) BY <1>10 DEF PutList, Resume, Finish
<1>11. CASE ReturnBlock(t) BY <1>11 DEF ReturnBlock, Finish
<1>12. CASE GetPartial(t) BY <1>12 DEF GetPartial
<1>13. CASE GetList(t) BY <1>13 DEF GetList
<1>14. CASE Reserve(t) BY <1>14 DEF Reserve
<1>15. CASE Retire(t) BY <1>15 DEF Retire, Resume, Finish
<1>16. CASE NewSuperblock(t) BY <1>16 DEF NewSuperblock
<1>17. CASE InstallNew(t) BY <1>17 DEF InstallNew
<1>18. CASE Discard(t) BY <1>18 DEF Discard
<1>19. CASE CheckError(t) BY <1>19 DEF CheckError, Finish
<1>20. CASE FreeRead(t) BY <1>20 DEF FreeRead
<1>21. CASE FreeLink(t) BY <1>21 DEF FreeLink
<1>22. CASE FreeCas(t) BY <1>22 DEF FreeCas, Finish
<1>23. CASE UnmapEmpty(t) BY <1>23 DEF UnmapEmpty
<1>24. CASE RemoveEmpty(t) BY <1>24 DEF RemoveEmpty
<1>25. CASE ListRemove(t) BY <1>25 DEF ListRemove, Finish
<1>26. CASE ListCheck(t) BY <1>26 DEF ListCheck
<1> QED
  BY <1>1, <1>2, <1>3, <1>4, <1>5, <1>6, <1>7, <1>8, <1>9, <1>10, <1>11, <1>12, <1>13, <1>14,
     <1>15, <1>16, <1>17, <1>18, <1>19, <1>20, <1>21, <1>22, <1>23, <1>24, <1>25, <1>26
     DEF Act, Step

(* The two kinds of credits on the blocks of d: those kept in m_active     *)
(* words, and those threads have taken.                                    *)
CreditsAt(d) == [h \in Heaps |-> ActiveCredits(h, d)]
ReservedBy(d) == [t \in Threads |-> Reserved(t, d)]

(* A thread holds no block, or the one its local variables name.           *)
LEMMA InHandIs ==
  ASSUME Types, NEW t \in Threads
  PROVE  /\ InHand(t) = IF pc[t] \in Updates \union Frees \union {"return"}
                           \/ (pc[t] \in Puts /\ reg[t].then = "return")
                        THEN {<<reg[t].desc, reg[t].block>>} ELSE {}
         /\ InHand(t) \subseteq Descriptors \X Blocks
<1>1. reg[t].block \in Blocks
  BY DEF Types, TypeOK, Regs
<1>2. InHand(t) # {} => reg[t].desc \in Descriptors
  BY DEF Types, LocalsSet, LocalSet, Names, InHand, Updates, Frees, Pops
<1>3. InHand(t) = IF pc[t] \in Updates \union Frees \union {"return"}
                           \/ (pc[t] \in Puts /\ reg[t].then = "return")
                        THEN {<<reg[t].desc, reg[t].block>>} ELSE {}
  BY DEF InHand, Updates, Frees, Puts
<1> QED
  BY <1>1, <1>2, <1>3

(* The blocks of a superblock are NBlocks, allocated or free.              *)
LEMMA AllocatedBlocks ==
  ASSUME Types, NEW d \in Descriptors
  PROVE  /\ AllocatedIn(d) \subseteq Blocks /\ FreeSet(d) = Blocks \ AllocatedIn(d)
         /\ IsFiniteSet(Blocks) /\ Cardinality(Blocks) = NBlocks
<1>1. Blocks = 0 .. NBlocks - 1 /\ NBlocks \in Nat /\ NBlocks >= 2
  BY SizeAssumption DEF Blocks
<1>2. IsFiniteSet(0 .. NBlocks - 1) /\ Cardinality(0 .. NBlocks - 1) = NBlocks
  BY <1>1, FS_Interval
<1> QED
  BY <1>1, <1>2 DEF AllocatedIn, FreeSet

(* Credits are naturals.                                                   *)
LEMMA CreditTypes ==
  ASSUME Types, NEW d \in Descriptors
  PROVE  /\ CreditsAt(d) \in [Heaps -> Nat] /\ ReservedBy(d) \in [Threads -> Nat]
         /\ \A h \in Heaps : ActiveCredits(h, d) \in Nat
         /\ \A t \in Threads : Reserved(t, d) \in Nat
<1>1. ASSUME NEW h \in Heaps PROVE ActiveCredits(h, d) \in Nat
  BY SizeAssumption, NullAssumption DEF ActiveCredits, Types, TypeOK, NoActive
<1>2. ASSUME NEW t \in Threads PROVE Reserved(t, d) \in Nat
  <2>1. reg[t].more \in Nat
    BY SizeAssumption DEF Types, TypeOK, Regs
  <2> QED
    BY <2>1 DEF Reserved
<1> QED
  BY <1>1, <1>2 DEF CreditsAt, ReservedBy

(* The terms of FreeBlocks.                                                *)
LEMMA FreeBlocksSum ==
  ASSUME Types, NEW d \in Descriptors
  PROVE  /\ anchor[d].count \in Nat
         /\ Total(CreditsAt(d)) \in Nat /\ Total(ReservedBy(d)) \in Nat
         /\ FreeBlocks(d) = anchor[d].count + Total(CreditsAt(d)) + Total(ReservedBy(d))
         /\ FreeBlocks(d) \in Nat
         /\ \A h \in Heaps : ActiveCredits(h, d) <= Total(CreditsAt(d))
         /\ \A t \in Threads : Reserved(t, d) <= Total(ReservedBy(d))
<1>1. anchor[d].count \in Nat
  BY SizeAssumption DEF Types, TypeOK, Anchors, Blocks
<1>2. /\ Total(CreditsAt(d)) \in Nat /\ \A h \in Heaps : CreditsAt(d)[h] <= Total(CreditsAt(d))
  <2> HIDE DEF CreditsAt
  <2> QED BY CreditTypes, FiniteAssumption, TotalNat
<1>3. /\ Total(ReservedBy(d)) \in Nat
      /\ \A t \in Threads : ReservedBy(d)[t] <= Total(ReservedBy(d))
  BY CreditTypes, FiniteAssumption, TotalNat
<1>4. FreeBlocks(d) = anchor[d].count + Total(CreditsAt(d)) + Total(ReservedBy(d))
  BY DEF FreeBlocks, CreditsAt, ReservedBy
<1> QED
  BY <1>1, <1>2, <1>3, <1>4 DEF CreditsAt, ReservedBy

(* The free list is as long as there are blocks nobody owns.               *)
LEMMA Accounts ==
  ASSUME Types, Chained, NEW d \in Descriptors, InUse(d)
  PROVE  /\ FreeBlocks(d) = Cardinality(FreeSet(d))
         /\ FreeBlocks(d) + Cardinality(AllocatedIn(d)) = NBlocks
         /\ IsFiniteSet(AllocatedIn(d)) /\ Cardinality(AllocatedIn(d)) \in Nat
<1>1. PICK c \in [1 .. FreeBlocks(d) -> Blocks] : IsFreeList(c, d)
  BY DEF Chained
<1>2. FreeBlocks(d) \in Nat
  BY FreeBlocksSum
<1>3. c \in Bijection(1 .. FreeBlocks(d), FreeSet(d))
  <2>1. /\ \A i, j \in 1 .. FreeBlocks(d) : i # j => c[i] # c[j]
        /\ \A b \in Blocks : b \in FreeSet(d) <=> \E i \in 1 .. FreeBlocks(d) : c[i] = b
    BY <1>1 DEF IsFreeList
  <2>2. FreeSet(d) \subseteq Blocks
    BY DEF FreeSet
  <2> HIDE DEF Bijection
  <2>3. c \in [1 .. FreeBlocks(d) -> FreeSet(d)]
    BY <2>1
  <2>4. \A b \in FreeSet(d) : \E i \in 1 .. FreeBlocks(d) : c[i] = b
    BY <2>1, <2>2
  <2> QED
    BY <2>1, <2>3, <2>4 DEF Bijection, Injection, Surjection, IsInjective
<1>4. IsFiniteSet(1 .. FreeBlocks(d)) /\ Cardinality(1 .. FreeBlocks(d)) = FreeBlocks(d)
  BY <1>2, FS_Interval
<1>5. FreeBlocks(d) = Cardinality(FreeSet(d))
  <2> DEFINE n == FreeBlocks(d)
  <2>1. c \in Bijection(1 .. n, FreeSet(d)) /\ IsFiniteSet(1 .. n) /\ Cardinality(1 .. n) = n
    BY <1>3, <1>4
  <2> HIDE DEF n
  <2>2. Cardinality(1 .. n) = Cardinality(FreeSet(d))
    BY <2>1, FS_Bijection DEF ExistsBijection
  <2> QED
    BY <2>1, <2>2 DEF n
<1>6. IsFiniteSet(AllocatedIn(d)) /\ Cardinality(AllocatedIn(d)) \in Nat
  BY AllocatedBlocks, FS_Subset, FS_CardinalityType
<1>7. Cardinality(Blocks \ AllocatedIn(d))
        = Cardinality(Blocks) - Cardinality(Blocks \cap AllocatedIn(d))
  BY AllocatedBlocks, FS_Difference
<1>8. Blocks \cap AllocatedIn(d) = AllocatedIn(d)
  BY AllocatedBlocks
<1>9. Cardinality(FreeSet(d)) = NBlocks - Cardinality(AllocatedIn(d))
  BY <1>7, <1>8, AllocatedBlocks
<1> QED
  BY <1>2, <1>5, <1>6, <1>9, SizeAssumption

(* Where a block is owned, some block is missing from the count; ...       *)
LEMMA OwnedIsMissing ==
  ASSUME Types, Chained, NEW d \in Descriptors, InUse(d), NEW b \in AllocatedIn(d)
  PROVE  FreeBlocks(d) <= NBlocks - 1
<1>1. Cardinality(AllocatedIn(d)) # 0
  BY Accounts, FS_EmptySet
<1> QED
  BY <1>1, Accounts, FreeBlocksSum, SizeAssumption

(* ... and when it is the only one, nobody else has anything to do with    *)
(* the superblock.                                                         *)
LEMMA LastOwned ==
  ASSUME Types, Chained, NEW d \in Descriptors, InUse(d), NEW b \in AllocatedIn(d),
         anchor[d].count = NBlocks - 1
  PROVE  /\ AllocatedIn(d) = {b}
         /\ \A h \in Heaps : ActiveCredits(h, d) = 0
         /\ \A t \in Threads : Reserved(t, d) = 0
<1>1. FreeBlocks(d) <= NBlocks - 1
  BY OwnedIsMissing
<1>2. Total(CreditsAt(d)) = 0 /\ Total(ReservedBy(d)) = 0 /\ FreeBlocks(d) = NBlocks - 1
  BY <1>1, FreeBlocksSum, SizeAssumption
<1>3. Cardinality(AllocatedIn(d)) = 1
  BY <1>2, Accounts, SizeAssumption
<1>4. PICK x : AllocatedIn(d) = {x}
  BY <1>3, Accounts, FS_Singleton
<1> QED
  BY <1>2, <1>4, FreeBlocksSum, CreditTypes

-----------------------------------------------------------------------------
(* The types.                                                              *)

(* The partial list of the size class.                                     *)
LEMMA QueueHead ==
  ASSUME Types, queue # <<>>
  PROVE  /\ Head(queue) = queue[1] /\ 1 \in 1 .. Len(queue) /\ Head(queue) \in Descriptors
         /\ Tail(queue) \in Seq(Descriptors) /\ Len(Tail(queue)) = Len(queue) - 1
         /\ \A i \in 1 .. Len(Tail(queue)) : Tail(queue)[i] = queue[i + 1]
  BY DEF Types, TypeOK

(* The list holds descriptors.                                             *)
LEMMA QueueElements ==
  ASSUME Types
  PROVE  Len(queue) \in Nat /\ \A i \in 1 .. Len(queue) : queue[i] \in Descriptors
  BY DEF Types, TypeOK

(* An element put at its end leaves the others where they are.             *)
LEMMA QueueAppend ==
  ASSUME Types, NEW d \in Descriptors
  PROVE  /\ Append(queue, d) \in Seq(Descriptors) /\ Len(Append(queue, d)) = Len(queue) + 1
         /\ Append(queue, d)[Len(queue) + 1] = d
         /\ \A i \in 1 .. Len(queue) : Append(queue, d)[i] = queue[i]
  BY DEF Types, TypeOK

(* A descriptor that is or was in use has a heap.                          *)
LEMMA HasHome ==
  ASSUME IInv, NEW t \in Threads
  PROVE  /\ Owning(t) => home[reg[t].desc] \in Heaps
         /\ pc[t] = "put_partial" => home[reg[t].desc] \in Heaps
<1> USE DEF IInv, Types, Knowledge, Status, HomeSet
<1>1. ASSUME Owning(t) PROVE home[reg[t].desc] \in Heaps
  <2>1. reg[t].desc \in Descriptors
    BY <1>1 DEF Owning, LocalsSet, LocalSet, Names, Puts
  <2> QED
    BY <1>1, <2>1 DEF OwnersInUse, InUse
<1>2. ASSUME pc[t] = "put_partial" PROVE home[reg[t].desc] \in Heaps
  <2>1. reg[t].desc \in Descriptors
    BY <1>2 DEF LocalsSet, LocalSet, Names
  <2> QED
    BY <1>2, <2>1 DEF ListsPartial, PartlyFree
<1> QED
  BY <1>1, <1>2

(* The local variables are set where the code uses them.                   *)
LEMMA LocalsStep ==
  ASSUME IInv, NEW t \in Threads, Act(t)
  PROVE  LocalsSet'
<1> SUFFICES pc' \in [Threads -> Labels] /\ LocalSet(t)'
  <2>1. Types /\ LocalsSet
    BY DEF IInv, Types
  <2>2. \A u \in Threads \ {t} : LocalSet(u)'
    BY <2>1, StepOfOne DEF OnlyThread, LocalsSet, LocalSet, Names
  <2> QED
    BY <2>2 DEF LocalsSet
<1>a. reg \in [Threads -> Regs] /\ pc \in [Threads -> Labels] /\ LocalSet(t)
  BY DEF IInv, Types, TypeOK, LocalsSet
<1>b. /\ \A h \in Heaps : active[h].desc # NULL => active[h].desc \in Descriptors
      /\ \A h \in Heaps : partial[h] # NULL => partial[h] \in Descriptors
      /\ \A b \in live : b[1] \in Descriptors
      /\ \A d \in pool : d \in Descriptors
  BY DEF IInv, Types, TypeOK, NoActive
<1>c. queue # <<>> => Head(queue) \in Descriptors
  BY QueueHead DEF IInv
<1> USE <1>a DEF Goto, Labels, Regs, LocalSet, Names, Searches, Pops, Updates, Frees, Puts
<1>1. CASE BeginMalloc(t)
  BY <1>1 DEF BeginMalloc
<1>2. CASE BeginFree(t)
  <2>1. PICK b \in live : reg' = [reg EXCEPT ![t].desc = b[1], ![t].block = b[2]]
    BY <1>2 DEF BeginFree
  <2>2. b[1] \in Descriptors
    BY <1>b
  <2>3. reg'[t].desc = b[1] /\ reg'[t].then = reg[t].then /\ pc' = [pc EXCEPT ![t] = "free_read"]
    BY <1>2, <2>1 DEF BeginFree
  <2>4. reg[t].then = "idle"
    BY <1>2, <2>1, <2>2 DEF BeginFree
  <2> QED
    BY <2>2, <2>3, <2>4
<1>3. CASE ReserveActive(t)
  BY <1>3, <1>b DEF ReserveActive
<1>4. CASE PopRead(t)
  BY <1>4 DEF PopRead
<1>5. CASE PopNext(t)
  BY <1>5 DEF PopNext
<1>6. CASE PopCas(t)
  BY <1>6 DEF PopCas
<1>7. CASE UpdateActive(t)
  BY <1>7 DEF UpdateActive
<1>8. CASE ReturnCredits(t)
  BY <1>8 DEF ReturnCredits
<1>9. CASE PutPartial(t)
  BY <1>9, <1>b, HasHome DEF PutPartial, Resume, Finish, NoReg
<1>10. CASE PutList(t)
  BY <1>10 DEF PutList, Resume, Finish, NoReg
<1>11. CASE ReturnBlock(t)
  BY <1>11 DEF ReturnBlock, Finish, NoReg
<1>12. CASE GetPartial(t)
  BY <1>12, <1>b DEF GetPartial
<1>13. CASE GetList(t)
  <2>1. pc[t] = "get_list" /\ reg[t].heap \in Heaps
    BY <1>13 DEF GetList
  <2>2. \/ reg'[t].desc \in Descriptors /\ reg'[t].heap = reg[t].heap /\ pc'[t] = "reserve"
        \/ reg'[t].heap = reg[t].heap /\ pc'[t] = "new"
    BY <1>13, <1>c DEF GetList, Dequeued
  <2>3. pc' \in [Threads -> Labels]
    BY <1>13 DEF GetList
  <2> QED
    BY <2>1, <2>2, <2>3
<1>14. CASE Reserve(t)
  <2>1. reg[t].heap \in Heaps /\ reg[t].desc \in Descriptors
    BY <1>14 DEF Reserve
  <2>2. reg'[t].heap = reg[t].heap /\ reg'[t].desc = reg[t].desc
    BY <1>14 DEF Reserve
  <2>3. \/ reg'[t].then = "get_partial" /\ pc'[t] = "retire"
        \/ reg'[t].last = FALSE /\ pc'[t] = "pop_read"
    BY <1>14 DEF Reserve
  <2>4. pc' \in [Threads -> Labels]
    BY <1>14 DEF Reserve
  <2> QED
    BY <2>1, <2>2, <2>3, <2>4
<1>15. CASE Retire(t)
  BY <1>15 DEF Retire, Resume, Finish, NoReg
<1>16. CASE NewSuperblock(t)
  BY <1>16, <1>b DEF NewSuperblock
<1>17. CASE InstallNew(t)
  BY <1>17 DEF InstallNew
<1>18. CASE Discard(t)
  BY <1>18 DEF Discard
<1>19. CASE CheckError(t)
  BY <1>19 DEF CheckError, Finish, NoReg
<1>20. CASE FreeRead(t)
  BY <1>20 DEF FreeRead
<1>21. CASE FreeLink(t)
  BY <1>21 DEF FreeLink
<1>22. CASE FreeCas(t)
  BY <1>22, HasHome DEF FreeCas, Finish, Owning, NoReg
<1>23. CASE UnmapEmpty(t)
  BY <1>23 DEF UnmapEmpty
<1>24. CASE RemoveEmpty(t)
  BY <1>24 DEF RemoveEmpty
<1>25. CASE ListRemove(t)
  <2>1. \/ /\ reg'[t].other \in Descriptors /\ reg'[t].then = reg[t].then
           /\ pc'[t] = "list_check"
        \/ reg'[t] = NoReg /\ pc'[t] = "idle"
    BY <1>25, <1>c DEF ListRemove, Dequeued, Finish
  <2>2. reg[t].then = "idle" /\ pc' \in [Threads -> Labels]
    BY <1>25 DEF ListRemove, Finish
  <2> QED
    BY <2>1, <2>2 DEF NoReg
<1>26. CASE ListCheck(t)
  BY <1>26 DEF ListCheck
<1> QED
  BY <1>1, <1>2, <1>3, <1>4, <1>5, <1>6, <1>7, <1>8, <1>9, <1>10, <1>11, <1>12, <1>13,
     <1>14, <1>15, <1>16, <1>17, <1>18, <1>19, <1>20, <1>21, <1>22, <1>23, <1>24, <1>25,
     <1>26 DEF Act, Step

(* The credits that a pop takes, and those a reservation takes, fit the    *)
(* word they are kept in.                                                  *)
LEMMA CreditsFit ==
  ASSUME Types, NEW t \in Threads
  PROVE  /\ CreditsTaken(reg[t]) \in 0 .. MaxCredits
         /\ reg[t].last /\ reg[t].old.count > 0 =>
              CreditsTaken(reg[t]) \in 1 .. reg[t].old.count
         /\ ~(reg[t].last /\ reg[t].old.count > 0) => CreditsTaken(reg[t]) = reg[t].more
<1>1. reg[t].more \in 0 .. MaxCredits /\ reg[t].old.count \in Nat
  BY SizeAssumption DEF Types, TypeOK, Regs, Anchors, Blocks
<1> QED
  BY <1>1, SizeAssumption DEF CreditsTaken, LesserOf

(* Reserve takes at least one block of a partial superblock that is not    *)
(* empty, no more than it has, and leaves no credit behind only with the   *)
(* last one.                                                               *)
LEMMA BatchFits ==
  ASSUME IInv, NEW t \in Threads, pc[t] = "reserve", anchor[reg[t].desc].state # "EMPTY"
  PROVE  /\ reg[t].desc \in Descriptors
         /\ anchor[reg[t].desc].state = "PARTIAL" /\ mapped[reg[t].desc]
         /\ anchor[reg[t].desc].count \in Nat /\ anchor[reg[t].desc].count >= 1
         /\ BatchBesides(anchor[reg[t].desc]) \in 0 .. MaxCredits
         /\ BatchBesides(anchor[reg[t].desc]) < anchor[reg[t].desc].count
         /\ BatchBesides(anchor[reg[t].desc]) = 0 => anchor[reg[t].desc].count = 1
<1>1. reg[t].desc \in Descriptors
  BY DEF IInv, Types, LocalsSet, LocalSet, Names
<1>2. /\ anchor[reg[t].desc].state = "PARTIAL" /\ mapped[reg[t].desc]
      /\ anchor[reg[t].desc].count >= 1
  BY DEF IInv, Status, ListsPartial, PartlyFree
<1>3. anchor[reg[t].desc].count \in Nat
  BY <1>1, SizeAssumption DEF IInv, Types, TypeOK, Anchors, Blocks
<1> QED
  BY <1>1, <1>2, <1>3, SizeAssumption DEF BatchBesides, LesserOf

(* A local variable that is given a value of its type.                     *)
LEMMA RegUpdates ==
  ASSUME NEW r \in Regs
  PROVE  /\ \A x \in Descriptors : [r EXCEPT !.desc = x] \in Regs
         /\ \A x \in Descriptors : [r EXCEPT !.other = x] \in Regs
         /\ \A x \in Descriptors, b \in Blocks : [r EXCEPT !.desc = x, !.block = b] \in Regs
         /\ \A a \in Anchors, b \in Blocks : [r EXCEPT !.old = a, !.block = b] \in Regs
         /\ \A n \in 0 .. MaxCredits : [r EXCEPT !.last = FALSE, !.more = n] \in Regs
<1>1. ASSUME NEW x \in Descriptors PROVE [r EXCEPT !.desc = x] \in Regs
  BY DEF Regs
<1>2. ASSUME NEW x \in Descriptors PROVE [r EXCEPT !.other = x] \in Regs
  BY DEF Regs
<1>3. ASSUME NEW x \in Descriptors, NEW b \in Blocks
      PROVE  [r EXCEPT !.desc = x, !.block = b] \in Regs
  BY DEF Regs
<1>4. ASSUME NEW a \in Anchors, NEW b \in Blocks
      PROVE  [r EXCEPT !.old = a, !.block = b] \in Regs
  BY DEF Regs
<1>5. ASSUME NEW n \in 0 .. MaxCredits
      PROVE  [r EXCEPT !.last = FALSE, !.more = n] \in Regs
  BY DEF Regs
<1> QED
  BY <1>1, <1>2, <1>3, <1>4, <1>5

(* Local variables keep their types.                                       *)
LEMMA RegsStep ==
  ASSUME IInv, NEW t \in Threads, Act(t)
  PROVE  reg' \in [Threads -> Regs]
<1>a. reg \in [Threads -> Regs] /\ LocalSet(t)
  BY DEF IInv, Types, TypeOK, LocalsSet
<1>b. /\ \A h \in Heaps : active[h].desc \in Descriptors \union {NULL}
      /\ \A h \in Heaps : partial[h] \in Descriptors \union {NULL}
      /\ \A b \in live : b[1] \in Descriptors /\ b[2] \in Blocks
      /\ \A d \in pool : d \in Descriptors
  BY DEF IInv, Types, TypeOK, NoActive
<1>c. queue # <<>> => Head(queue) \in Descriptors
  BY QueueHead DEF IInv
<1>d. NoReg \in Regs
  BY SizeAssumption DEF NoReg, Regs, ZeroAnchor, Anchors, States, Blocks, Words
<1>e. \A d \in Descriptors : anchor[d] \in Anchors /\ anchor[d].avail \in Blocks
  BY DEF IInv, Types, TypeOK, Anchors
<1>f. reg[t].desc \in Descriptors => \A b \in Blocks : word[reg[t].desc][b] \in Words
  BY DEF IInv, Types, TypeOK
<1>g. 0 \in Blocks /\ 0 \in 0 .. MaxCredits
  BY SizeAssumption DEF Blocks
<1> USE <1>a
<1>1. CASE BeginMalloc(t)
  BY <1>1 DEF BeginMalloc, Regs
<1>2. CASE BeginFree(t)
  <2>1. PICK b \in live : reg' = [reg EXCEPT ![t].desc = b[1], ![t].block = b[2]]
    BY <1>2 DEF BeginFree
  <2>2. b[1] \in Descriptors /\ b[2] \in Blocks
    BY <1>b
  <2>3. [reg[t] EXCEPT !.desc = b[1], !.block = b[2]] \in Regs
    BY <2>2, RegUpdates
  <2> QED
    BY <2>1, <2>3
<1>3. CASE ReserveActive(t)
  BY <1>3, <1>b, <1>g DEF ReserveActive, Regs, LocalSet, Searches
<1>4. CASE PopRead(t)
  <2>1. reg' = [reg EXCEPT ![t].old = anchor[reg[t].desc],
                           ![t].block = anchor[reg[t].desc].avail]
    BY <1>4 DEF PopRead
  <2>2. reg[t].desc \in Descriptors
    BY <1>4 DEF PopRead, LocalSet, Names, Pops
  <2>3. [reg[t] EXCEPT !.old = anchor[reg[t].desc], !.block = anchor[reg[t].desc].avail] \in Regs
    BY <1>e, <2>2, RegUpdates
  <2> QED
    BY <2>1, <2>3
<1>5. CASE PopNext(t)
  BY <1>5, <1>f DEF PopNext, Regs, LocalSet, Names, Pops, Frees
<1>6. CASE PopCas(t)
  <2>1. \/ reg' = reg
        \/ reg' = [reg EXCEPT ![t].more = CreditsTaken(reg[t])]
    BY <1>6 DEF PopCas
  <2>2. CreditsTaken(reg[t]) \in 0 .. MaxCredits
    BY CreditsFit DEF IInv
  <2> QED
    BY <2>1, <2>2 DEF Regs
<1>7. CASE UpdateActive(t)
  BY <1>7 DEF UpdateActive
<1>8. CASE ReturnCredits(t)
  BY <1>8 DEF ReturnCredits, Regs
<1>9. CASE PutPartial(t)
  BY <1>9, <1>b, <1>d, HasHome DEF PutPartial, Resume, Finish, Regs
<1>10. CASE PutList(t)
  BY <1>10, <1>d DEF PutList, Resume, Finish
<1>11. CASE ReturnBlock(t)
  BY <1>11, <1>d DEF ReturnBlock, Finish
<1>12. CASE GetPartial(t)
  BY <1>12, <1>b DEF GetPartial, Regs, LocalSet, Searches
<1>13. CASE GetList(t)
  <2>1. reg' = reg \/ (queue # <<>> /\ reg' = [reg EXCEPT ![t].desc = Head(queue)])
    BY <1>13 DEF GetList, Dequeued
  <2>2. queue # <<>> => [reg[t] EXCEPT !.desc = Head(queue)] \in Regs
    BY <1>c, RegUpdates
  <2> QED
    BY <2>1, <2>2
<1>14. CASE Reserve(t)
  <2>1. CASE anchor[reg[t].desc].state = "EMPTY"
    BY <1>14, <2>1 DEF Reserve, Regs
  <2>2. CASE anchor[reg[t].desc].state # "EMPTY"
    <3>1. BatchBesides(anchor[reg[t].desc]) \in 0 .. MaxCredits
      BY <1>14, <2>2, BatchFits DEF Reserve
    <3>2. reg' = [reg EXCEPT ![t].last = FALSE, ![t].more = BatchBesides(anchor[reg[t].desc])]
      BY <1>14, <2>2 DEF Reserve
    <3>3. [reg[t] EXCEPT !.last = FALSE, !.more = BatchBesides(anchor[reg[t].desc])] \in Regs
      BY <3>1, RegUpdates
    <3> QED
      BY <3>2, <3>3
  <2> QED
    BY <2>1, <2>2
<1>15. CASE Retire(t)
  BY <1>15, <1>d DEF Retire, Resume, Finish
<1>16. CASE NewSuperblock(t)
  <2>1. reg' = reg \/ \E d \in pool : reg' = [reg EXCEPT ![t].desc = d]
    BY <1>16 DEF NewSuperblock
  <2> QED
    BY <1>b, <2>1 DEF Regs
<1>17. CASE InstallNew(t)
  BY <1>17, <1>g DEF InstallNew, Regs
<1>18. CASE Discard(t)
  BY <1>18 DEF Discard, Regs
<1>19. CASE CheckError(t)
  BY <1>19, <1>d DEF CheckError, Finish
<1>20. CASE FreeRead(t)
  BY <1>20, <1>e DEF FreeRead, Regs, LocalSet, Names, Pops, Frees
<1>21. CASE FreeLink(t)
  BY <1>21 DEF FreeLink
<1>22. CASE FreeCas(t)
  BY <1>22, <1>d, HasHome DEF FreeCas, Finish, Regs, Owning, Frees
<1>23. CASE UnmapEmpty(t)
  BY <1>23 DEF UnmapEmpty
<1>24. CASE RemoveEmpty(t)
  BY <1>24 DEF RemoveEmpty
<1>25. CASE ListRemove(t)
  <2>1. \/ queue # <<>> /\ reg' = [reg EXCEPT ![t].other = Head(queue)]
        \/ reg' = [reg EXCEPT ![t] = NoReg]
    BY <1>25 DEF ListRemove, Finish, Dequeued
  <2>2. queue # <<>> => [reg[t] EXCEPT !.other = Head(queue)] \in Regs
    BY <1>c, RegUpdates
  <2> QED
    BY <1>d, <2>1, <2>2
<1>26. CASE ListCheck(t)
  BY <1>26 DEF ListCheck
<1> QED
  BY <1>1, <1>2, <1>3, <1>4, <1>5, <1>6, <1>7, <1>8, <1>9, <1>10, <1>11, <1>12, <1>13,
     <1>14, <1>15, <1>16, <1>17, <1>18, <1>19, <1>20, <1>21, <1>22, <1>23, <1>24, <1>25,
     <1>26 DEF Act, Step

(* The block a thread holds is allocated.                                  *)
LEMMA HeldIsAllocated ==
  ASSUME IInv, NEW t \in Threads,
         pc[t] \in Updates \union Frees \union {"return"}
           \/ (pc[t] \in Puts /\ reg[t].then = "return")
  PROVE  /\ reg[t].desc \in Descriptors /\ reg[t].block \in Blocks
         /\ InUse(reg[t].desc)
         /\ <<reg[t].desc, reg[t].block>> \in InHand(t)
         /\ reg[t].block \in AllocatedIn(reg[t].desc)
         /\ FreeBlocks(reg[t].desc) <= NBlocks - 1
<1>1. Types /\ Chained /\ OwnersInUse
  BY DEF IInv, Status, Blockwise
<1>2. InHand(t) = {<<reg[t].desc, reg[t].block>>} /\ InHand(t) \subseteq Descriptors \X Blocks
  BY <1>1, InHandIs
<1>3. reg[t].desc \in Descriptors /\ reg[t].block \in Blocks
  BY <1>2
<1>4. InUse(reg[t].desc)
  BY <1>1 DEF OwnersInUse, Owning
<1>5. reg[t].block \in AllocatedIn(reg[t].desc)
  BY <1>2, <1>3 DEF AllocatedIn, Allocated
<1> QED
  BY <1>1, <1>2, <1>3, <1>4, <1>5, OwnedIsMissing

(* A pop whose swap succeeds takes the first block of the free list.       *)
LEMMA PopFirst ==
  ASSUME IInv, NEW t \in Threads, pc[t] = "pop_cas", anchor[reg[t].desc] = reg[t].old
  PROVE  /\ reg[t].desc \in Descriptors /\ InUse(reg[t].desc)
         /\ reg[t].block = anchor[reg[t].desc].avail
         /\ reg[t].block \in FreeSet(reg[t].desc)
         /\ reg[t].next = word[reg[t].desc][reg[t].block]
         /\ reg[t].next \in Blocks
<1> DEFINE d == reg[t].desc
<1>1. d \in Descriptors /\ reg[t].block = reg[t].old.avail
  BY DEF IInv, Types, LocalsSet, LocalSet, Names, Pops
<1>2. InUse(d)
  BY DEF IInv, Status, OwnersInUse, Owning, Pops
<1>3. reg[t].block \in FreeSet(d) /\ reg[t].next = word[d][reg[t].block]
  BY <1>1 DEF IInv, Blockwise, LoadsCurrent, LoadCurrent
<1>4. PICK c \in [1 .. FreeBlocks(d) -> Blocks] : IsFreeList(c, d)
  BY <1>1, <1>2 DEF IInv, Blockwise, Chained
<1>5. word[d][reg[t].block] \in Blocks
  <2>1. reg[t].block \in Blocks
    BY <1>3 DEF FreeSet
  <2>2. PICK i \in 1 .. FreeBlocks(d) : c[i] = reg[t].block
    BY <1>3, <1>4, <2>1 DEF IsFreeList
  <2> QED
    BY <1>4, <2>2 DEF IsFreeList
<1> QED
  BY <1>1, <1>2, <1>3, <1>5

(* The first batch of credits of a superblock.                             *)
LEMMA FirstBatch ==
  /\ FirstCredits \in 0 .. MaxCredits - 1
  /\ NBlocks - FirstCredits - 2 \in Nat
  /\ \A tag : NewAnchor(tag).count + FirstCredits + 1 = NBlocks - 1
  /\ \A tag \in 0 .. TagModulus - 1 : NewAnchor(tag) \in Anchors
<1>1. FirstCredits \in 0 .. MaxCredits - 1 /\ FirstCredits <= NBlocks - 2
  BY SizeAssumption DEF FirstCredits, LesserOf
<1> QED
  BY <1>1, SizeAssumption DEF NewAnchor, Anchors, States, Blocks

(* m_count and m_available stay in range.                                  *)
LEMMA AnchorsStep ==
  ASSUME IInv, NEW t \in Threads, Act(t)
  PROVE  anchor' \in [Descriptors -> Anchors]
<1>a. anchor \in [Descriptors -> Anchors] /\ Types
  BY DEF IInv, Types, TypeOK
<1>b. ASSUME NEW d \in Descriptors
      PROVE  /\ anchor[d].count \in Blocks /\ anchor[d].avail \in Blocks
             /\ anchor[d].tag \in 0 .. TagModulus - 1 /\ anchor[d].state \in States
             /\ anchor[d] = [avail |-> anchor[d].avail, count |-> anchor[d].count,
                             state |-> anchor[d].state, tag |-> anchor[d].tag]
  BY <1>a DEF Anchors
<1> USE <1>a
<1>1. CASE BeginMalloc(t)
  BY <1>1 DEF BeginMalloc, blockVars
<1>2. CASE BeginFree(t)
  BY <1>2 DEF BeginFree, blockVars
<1>3. CASE ReserveActive(t)
  BY <1>3 DEF ReserveActive, blockVars
<1>4. CASE PopRead(t)
  BY <1>4 DEF PopRead, blockVars
<1>5. CASE PopNext(t)
  BY <1>5 DEF PopNext, blockVars
<1>6. CASE PopCas(t)
  <2>1. CASE anchor[reg[t].desc] # reg[t].old
    BY <1>6, <2>1 DEF PopCas
  <2>2. CASE anchor[reg[t].desc] = reg[t].old
    <3>1. anchor' = [anchor EXCEPT ![reg[t].desc] = PoppedAnchor(reg[t])]
      BY <1>6, <2>2 DEF PopCas
    <3>2. reg[t].desc \in Descriptors /\ reg[t].next \in Blocks
      BY <1>6, <2>2, PopFirst DEF PopCas
    <3>3. /\ reg[t].old.count \in Blocks /\ reg[t].old.state \in States
          /\ reg[t].old.tag \in 0 .. TagModulus - 1
      BY <1>b, <2>2, <3>2
    <3>4. reg[t].last => reg[t].old.count - CreditsTaken(reg[t]) \in Blocks
      <4>1. reg[t].last => reg[t].more = 0
        BY <1>6 DEF PopCas, Types, LocalsSet, LocalSet, Pops
      <4> QED
        BY <3>3, <4>1, CreditsFit, SizeAssumption DEF Blocks
    <3>5. NextTag(reg[t].old.tag) \in 0 .. TagModulus - 1
      BY <3>3, SizeAssumption DEF NextTag
    <3>6. PoppedAnchor(reg[t]) \in Anchors
      BY <3>2, <3>3, <3>4, <3>5 DEF PoppedAnchor, Anchors, States
    <3> QED
      BY <3>1, <3>6
  <2> QED
    BY <2>1, <2>2
<1>7. CASE UpdateActive(t)
  BY <1>7 DEF UpdateActive, blockVars
<1>8. CASE ReturnCredits(t)
  <2> DEFINE d == reg[t].desc
  <2>1. pc[t] = "return_credits"
    BY <1>8 DEF ReturnCredits
  <2>2. d \in Descriptors /\ FreeBlocks(d) <= NBlocks - 1
    BY <2>1, HeldIsAllocated DEF Updates
  <2>3. Reserved(t, d) = reg[t].more /\ reg[t].more \in Nat
    BY <2>1, SizeAssumption DEF Reserved, Types, TypeOK, Regs
  <2>4. anchor[d].count + reg[t].more \in Blocks
    BY <2>2, <2>3, FreeBlocksSum, SizeAssumption DEF Blocks
  <2>5. anchor' = [anchor EXCEPT ![d].count = @ + reg[t].more, ![d].state = "PARTIAL"]
    BY <1>8 DEF ReturnCredits
  <2> QED
    BY <2>2, <2>4, <2>5 DEF Anchors, States
<1>9. CASE PutPartial(t)
  BY <1>9 DEF PutPartial, Resume, Finish, blockVars
<1>10. CASE PutList(t)
  BY <1>10 DEF PutList, Resume, Finish, blockVars
<1>11. CASE ReturnBlock(t)
  BY <1>11 DEF ReturnBlock, Finish, blockVars
<1>12. CASE GetPartial(t)
  BY <1>12 DEF GetPartial, blockVars
<1>13. CASE GetList(t)
  BY <1>13 DEF GetList, blockVars
<1>14. CASE Reserve(t)
  <2> DEFINE d == reg[t].desc
             batch == BatchBesides(anchor[d])
  <2>1. CASE anchor[d].state = "EMPTY"
    BY <1>14, <2>1 DEF Reserve
  <2>2. CASE anchor[d].state # "EMPTY"
    <3>1. d \in Descriptors /\ anchor[d].count - (batch + 1) \in Blocks
      <4>1. /\ d \in Descriptors /\ batch \in Nat /\ batch < anchor[d].count
            /\ anchor[d].count \in Nat
        BY <1>14, <2>2, BatchFits, SizeAssumption DEF Reserve
      <4> HIDE DEF batch
      <4> QED
        BY <1>b, <4>1, SizeAssumption DEF Blocks
    <3>2. anchor' = [anchor EXCEPT ![d].count = @ - (batch + 1),
                                   ![d].state = IF batch > 0 THEN "ACTIVE" ELSE "FULL"]
      BY <1>14, <2>2 DEF Reserve
    <3> HIDE DEF batch
    <3> QED
      BY <3>1, <3>2 DEF Anchors, States
  <2> QED
    BY <2>1, <2>2
<1>15. CASE Retire(t)
  BY <1>15 DEF Retire, Resume, Finish, blockVars
<1>16. CASE NewSuperblock(t)
  <2>1. CASE UNCHANGED anchor
    BY <2>1
  <2>2. CASE \E d \in pool : anchor' = [anchor EXCEPT ![d] = NewAnchor(@.tag)]
    <3>1. PICK d \in pool : anchor' = [anchor EXCEPT ![d] = NewAnchor(anchor[d].tag)]
      BY <2>2
    <3>2. d \in Descriptors
      BY DEF Types, TypeOK
    <3> QED
      BY <1>b, <3>1, <3>2, FirstBatch
  <2> QED
    BY <1>16, <2>1, <2>2 DEF NewSuperblock, blockVars
<1>17. CASE InstallNew(t)
  BY <1>17 DEF InstallNew, blockVars
<1>18. CASE Discard(t)
  BY <1>18 DEF Discard, blockVars
<1>19. CASE CheckError(t)
  BY <1>19 DEF CheckError, Finish, blockVars
<1>20. CASE FreeRead(t)
  BY <1>20 DEF FreeRead, blockVars
<1>21. CASE FreeLink(t)
  BY <1>21 DEF FreeLink, blockVars
<1>22. CASE FreeCas(t)
  <2> DEFINE d == reg[t].desc
  <2>1. CASE UNCHANGED anchor
    BY <2>1
  <2>2. CASE anchor[d] = reg[t].old
             /\ anchor' = [anchor EXCEPT ![d] = FreedAnchor(reg[t].old, reg[t].block)]
    <3>1. d \in Descriptors /\ reg[t].block \in Blocks
      BY <1>22, HeldIsAllocated DEF FreeCas, Frees
    <3>2. /\ reg[t].old.count \in Blocks /\ reg[t].old.state \in States
          /\ reg[t].old.tag \in 0 .. TagModulus - 1
      BY <1>b, <2>2, <3>1
    <3>3. FreedAnchor(reg[t].old, reg[t].block) \in Anchors
      BY <3>1, <3>2, SizeAssumption DEF FreedAnchor, LastBlockOf, Anchors, States, Blocks
    <3> QED
      BY <2>2, <3>1, <3>3
  <2> QED
    BY <1>22, <2>1, <2>2 DEF FreeCas
<1>23. CASE UnmapEmpty(t)
  BY <1>23 DEF UnmapEmpty, blockVars
<1>24. CASE RemoveEmpty(t)
  BY <1>24 DEF RemoveEmpty, blockVars
<1>25. CASE ListRemove(t)
  BY <1>25 DEF ListRemove, Finish, blockVars
<1>26. CASE ListCheck(t)
  BY <1>26 DEF ListCheck, blockVars
<1> QED
  BY <1>1, <1>2, <1>3, <1>4, <1>5, <1>6, <1>7, <1>8, <1>9, <1>10, <1>11, <1>12, <1>13,
     <1>14, <1>15, <1>16, <1>17, <1>18, <1>19, <1>20, <1>21, <1>22, <1>23, <1>24, <1>25,
     <1>26 DEF Act, Step

(* The types of the shared variables but the anchors.                      *)
ActiveWords == [desc : Descriptors, credits : 0 .. MaxCredits - 1] \union {NoActive}

SharedTypes ==
  /\ active \in [Heaps -> ActiveWords]
  /\ partial \in [Heaps -> Descriptors \union {NULL}]
  /\ queue \in Seq(Descriptors)
  /\ home \in [Descriptors -> Heaps \union {NULL}]
  /\ mapped \in [Descriptors -> BOOLEAN]
  /\ word \in [Descriptors -> [Blocks -> Words]]
  /\ pool \in SUBSET Descriptors
  /\ retired \in [Threads -> SUBSET Descriptors]
  /\ dropped \in SUBSET Descriptors
  /\ records \in [count : Nat, held : Nat]
  /\ errorFlag \in [Threads -> BOOLEAN]
  /\ live \in SUBSET (Descriptors \X Blocks)
  /\ mallocs \in 0 .. MaxMallocs
  /\ osFailures \in 0 .. MaxOsFailures

(* What the queue operations do to the list of hazard records.             *)
LEMMA RecordsType ==
  ASSUME Types, NEW n \in 0 .. 3, NEW k \in 0 .. 3
  PROVE  /\ RecordsAfter(n, k) \in [count : Nat, held : Nat]
         /\ RecordsAfter(n, k).held = records.held + k
         /\ k <= n /\ records.held <= records.count =>
              RecordsAfter(n, k).held <= RecordsAfter(n, k).count
<1>1. records.count \in Nat /\ records.held \in Nat
  BY DEF Types, TypeOK
<1> QED
  BY <1>1 DEF RecordsAfter

(* Whatever a queue operation meets, it takes and leaves a few records.     *)
LEMMA QueueCalls ==
  ASSUME NEW t \in Threads, PutList(t) \/ Dequeued(t) \/ DequeuedNothing(t)
  PROVE  /\ \E n, k \in 0 .. 3 : k <= n /\ records' = RecordsAfter(n, k)
         /\ OsRefuses(t) \/ OsGrants
  BY DEF PutList, Dequeued, DequeuedNothing, KeptOnMiss, GoesOn

(* Every step keeps these types, ...                                       *)
LEMMA SharedStep ==
  ASSUME IInv, NEW t \in Threads, Act(t)
  PROVE  SharedTypes'
<1>a. SharedTypes /\ Types /\ LocalSet(t)
  BY DEF IInv, Types, TypeOK, SharedTypes, LocalsSet, ActiveWords
<1>b. reg[t].block \in Blocks /\ reg[t].more \in 0 .. MaxCredits /\ reg[t].old.avail \in Blocks
  BY <1>a DEF Types, TypeOK, Regs, Anchors
<1>c. \A n, k \in 0 .. 3 : RecordsAfter(n, k) \in [count : Nat, held : Nat]
  BY <1>a, RecordsType
<1>d. OsRefuses(t) => /\ osFailures' \in 0 .. MaxOsFailures /\ mallocs' \in 0 .. MaxMallocs
                      /\ errorFlag' \in [Threads -> BOOLEAN]
  BY <1>a, SizeAssumption DEF OsRefuses, SharedTypes
<1>e. OsGrants => /\ osFailures' \in 0 .. MaxOsFailures /\ mallocs' \in 0 .. MaxMallocs
                  /\ errorFlag' \in [Threads -> BOOLEAN]
  BY <1>a DEF OsGrants, SharedTypes
<1>f. queue # <<>> => Tail(queue) \in Seq(Descriptors)
  BY <1>a, QueueHead
<1> USE <1>a DEF SharedTypes, heapVars, blockVars, poolVars, boundVars
<1>1. CASE BeginMalloc(t)
  BY <1>1, SizeAssumption DEF BeginMalloc
<1>2. CASE BeginFree(t)
  BY <1>2 DEF BeginFree
<1>3. CASE ReserveActive(t)
  <2>1. Spend(active[reg[t].heap]) \in ActiveWords \/ active[reg[t].heap].desc = NULL
    <3>1. reg[t].heap \in Heaps
      BY <1>3 DEF ReserveActive, LocalSet, Searches
    <3>2. CASE active[reg[t].heap] \in [desc : Descriptors, credits : 0 .. MaxCredits - 1]
      <4> DEFINE a == active[reg[t].heap]
      <4>1. a.credits # 0 => a.credits - 1 \in 0 .. MaxCredits - 1
        BY <3>2, SizeAssumption
      <4>2. a.credits # 0 =>
              [a EXCEPT !.credits = @ - 1] \in [desc : Descriptors, credits : 0 .. MaxCredits - 1]
        BY <3>2, <4>1
      <4> QED
        BY <4>2 DEF Spend, ActiveWords
    <3>3. CASE active[reg[t].heap] = NoActive
      BY <3>3 DEF NoActive
    <3> QED
      BY <3>1, <3>2, <3>3 DEF ActiveWords
  <2>2. \/ active' = active
        \/ active' = [active EXCEPT ![reg[t].heap] = Spend(active[reg[t].heap])]
           /\ active[reg[t].heap].desc # NULL
    BY <1>3 DEF ReserveActive
  <2>3. active' \in [Heaps -> ActiveWords]
    BY <2>1, <2>2
  <2> QED
    BY <1>3, <2>3 DEF ReserveActive
<1>4. CASE PopRead(t)
  BY <1>4 DEF PopRead
<1>5. CASE PopNext(t)
  BY <1>5 DEF PopNext
<1>6. CASE PopCas(t)
  BY <1>6 DEF PopCas
<1>7. CASE UpdateActive(t)
  <2>1. ActiveWord(reg[t].desc, reg[t].more) \in ActiveWords
    <3>1. reg[t].desc \in Descriptors /\ reg[t].more > 0
      BY <1>7 DEF UpdateActive, LocalSet, Names, Updates
    <3> QED
      BY <1>b, <3>1, SizeAssumption DEF ActiveWord, ActiveWords
  <2>2. active' \in [Heaps -> ActiveWords]
    BY <1>7, <2>1 DEF UpdateActive
  <2> QED
    BY <1>7, <2>2 DEF UpdateActive
<1>8. CASE ReturnCredits(t)
  BY <1>8 DEF ReturnCredits
<1>9. CASE PutPartial(t)
  <2>1. reg[t].desc \in Descriptors
    BY <1>9 DEF PutPartial, LocalSet, Names
  <2>2. partial' \in [Heaps -> Descriptors \union {NULL}]
    BY <1>9, <2>1 DEF PutPartial
  <2> QED
    BY <1>9, <2>2 DEF PutPartial
<1>10. CASE PutList(t)
  <2>1. reg[t].other \in Descriptors
    BY <1>10 DEF PutList, LocalSet
  <2>2. queue' \in Seq(Descriptors)
    BY <1>10, <2>1, QueueAppend DEF PutList
  <2>3. records' \in [count : Nat, held : Nat] /\ (OsRefuses(t) \/ OsGrants)
    BY <1>10, <1>c, QueueCalls
  <2>4. UNCHANGED <<active, partial, blockVars, pool, retired, dropped, live>>
    BY <1>10 DEF PutList
  <2> QED
    BY <1>d, <1>e, <2>2, <2>3, <2>4
<1>11. CASE ReturnBlock(t)
  <2>1. reg[t].desc \in Descriptors
    BY <1>11 DEF ReturnBlock, LocalSet, Names
  <2>2. word' \in [Descriptors -> [Blocks -> Words]]
    BY <1>11, <1>b, <2>1, SizeAssumption DEF ReturnBlock, Words
  <2>3. live' \in SUBSET (Descriptors \X Blocks)
    BY <1>11, <1>b, <2>1 DEF ReturnBlock
  <2> QED
    BY <1>11, <2>2, <2>3 DEF ReturnBlock
<1>12. CASE GetPartial(t)
  BY <1>12 DEF GetPartial
<1>13. CASE GetList(t)
  <2>1. records' \in [count : Nat, held : Nat] /\ (OsRefuses(t) \/ OsGrants)
    <3>1. Dequeued(t) \/ DequeuedNothing(t)
      BY <1>13 DEF GetList
    <3> QED
      BY <3>1, <1>c, QueueCalls
  <2>2. queue' \in Seq(Descriptors) /\ records' \in [count : Nat, held : Nat]
    BY <1>13, <1>f, <2>1 DEF GetList, Dequeued, DequeuedNothing
  <2> QED
    BY <1>13, <1>d, <1>e, <2>1, <2>2 DEF GetList
<1>14. CASE Reserve(t)
  BY <1>14 DEF Reserve
<1>15. CASE Retire(t)
  <2>1. reg[t].desc \in Descriptors
    BY <1>15 DEF Retire, LocalSet, Names
  <2>2. /\ pool' \in SUBSET Descriptors /\ retired' \in [Threads -> SUBSET Descriptors]
        /\ dropped' \in SUBSET Descriptors
    BY <1>15, <2>1 DEF Retire
  <2>3. OsRefuses(t) \/ OsGrants
    BY <1>15 DEF Retire
  <2> QED
    BY <1>15, <1>d, <1>e, <2>2, <2>3 DEF Retire
<1>16. CASE NewSuperblock(t)
  <2>1. CASE \E d \in pool :
               /\ pool' = pool \ {d} /\ mapped' = [mapped EXCEPT ![d] = TRUE]
               /\ home' = [home EXCEPT ![d] = reg[t].heap]
               /\ word' = [word EXCEPT ![d] = OrganizedList]
               /\ records' = RecordsAfter(1, 0) /\ OsGrants
    <3>1. PICK d \in pool :
            /\ pool' = pool \ {d} /\ mapped' = [mapped EXCEPT ![d] = TRUE]
            /\ home' = [home EXCEPT ![d] = reg[t].heap]
            /\ word' = [word EXCEPT ![d] = OrganizedList]
            /\ records' = RecordsAfter(1, 0) /\ OsGrants
      BY <2>1
    <3>2. reg[t].heap \in Heaps
      BY <1>16 DEF NewSuperblock, LocalSet, Searches
    <3>3. OrganizedList \in [Blocks -> Words]
      BY SizeAssumption DEF OrganizedList, Blocks, Words
    <3>4. records' \in [count : Nat, held : Nat]
      BY <1>c, <3>1
    <3>5. UNCHANGED <<heapVars, retired, dropped, live>>
      BY <1>16 DEF NewSuperblock
    <3>6. home' \in [Descriptors -> Heaps \union {NULL}] /\ mapped' \in [Descriptors -> BOOLEAN]
      BY <3>1, <3>2
    <3>7. word' \in [Descriptors -> [Blocks -> Words]] /\ pool' \in SUBSET Descriptors
      BY <3>1, <3>3
    <3> QED
      BY <1>e, <3>1, <3>4, <3>5, <3>6, <3>7
  <2>2. CASE OsRefuses(t) /\ UNCHANGED blockVars
    <3>1. records' = RecordsAfter(1, 0) \/ records' = RecordsAfter(1, 1)
      BY <1>16 DEF NewSuperblock
    <3>2. records' \in [count : Nat, held : Nat]
      <4>1. RecordsAfter(1, 0) \in [count : Nat, held : Nat]
        BY RecordsType
      <4>2. RecordsAfter(1, 1) \in [count : Nat, held : Nat]
        BY RecordsType
      <4> QED
        BY <3>1, <4>1, <4>2
    <3>3. UNCHANGED <<heapVars, retired, dropped, live>>
      BY <1>16 DEF NewSuperblock
    <3>4. pool' = pool \/ \E d \in pool : pool' = pool \ {d}
      BY <1>16 DEF NewSuperblock
    <3>5. pool' \in SUBSET Descriptors
      BY <3>4
    <3> QED
      BY <1>d, <2>2, <3>2, <3>3, <3>5
  <2> QED
    BY <1>16, <2>1, <2>2 DEF NewSuperblock
<1>17. CASE InstallNew(t)
  <2>1. ActiveWord(reg[t].desc, FirstCredits + 1) \in ActiveWords
    <3>1. reg[t].desc \in Descriptors
      BY <1>17 DEF InstallNew, LocalSet, Names
    <3> QED
      BY <3>1, FirstBatch, SizeAssumption DEF ActiveWord, ActiveWords
  <2>2. active' \in [Heaps -> ActiveWords]
    BY <1>17, <2>1 DEF InstallNew
  <2> QED
    BY <1>17, <2>2 DEF InstallNew
<1>18. CASE Discard(t)
  BY <1>18 DEF Discard
<1>19. CASE CheckError(t)
  BY <1>19 DEF CheckError, Finish
<1>20. CASE FreeRead(t)
  BY <1>20 DEF FreeRead
<1>21. CASE FreeLink(t)
  <2>1. word' \in [Descriptors -> [Blocks -> Words]]
    BY <1>21, <1>b DEF FreeLink, Words
  <2> QED
    BY <1>21, <2>1 DEF FreeLink
<1>22. CASE FreeCas(t)
  BY <1>22 DEF FreeCas, Finish
<1>23. CASE UnmapEmpty(t)
  BY <1>23 DEF UnmapEmpty
<1>24. CASE RemoveEmpty(t)
  BY <1>24 DEF RemoveEmpty
<1>25. CASE ListRemove(t)
  <2>1. records' \in [count : Nat, held : Nat] /\ (OsRefuses(t) \/ OsGrants)
    <3>1. Dequeued(t) \/ DequeuedNothing(t)
      BY <1>25 DEF ListRemove
    <3> QED
      BY <3>1, <1>c, QueueCalls
  <2>2. queue' \in Seq(Descriptors) /\ records' \in [count : Nat, held : Nat]
    BY <1>25, <1>f, <2>1 DEF ListRemove, Dequeued, DequeuedNothing
  <2> QED
    BY <1>25, <1>d, <1>e, <2>1, <2>2 DEF ListRemove
<1>26. CASE ListCheck(t)
  BY <1>26 DEF ListCheck
<1> QED
  BY <1>1, <1>2, <1>3, <1>4, <1>5, <1>6, <1>7, <1>8, <1>9, <1>10, <1>11, <1>12, <1>13,
     <1>14, <1>15, <1>16, <1>17, <1>18, <1>19, <1>20, <1>21, <1>22, <1>23, <1>24, <1>25,
     <1>26 DEF Act, Step

(* ... and with those of the local variables and the anchors, all of them. *)
LEMMA TypesStep ==
  ASSUME IInv, NEW t \in Threads, Act(t)
  PROVE  Types'
  BY LocalsStep, RegsStep, AnchorsStep, SharedStep DEF Types, TypeOK, SharedTypes, ActiveWords

-----------------------------------------------------------------------------
(* The hazard records and the pool of descriptors.                         *)

(* The code never reuses a descriptor.  What keeps it from doing so is     *)
(* what an empty or refused dequeue forgets: every new superblock follows  *)
(* one, so there are always more hazard records that stay taken than       *)
(* descriptors in use, and the threshold of a scan, twice the number of    *)
(* records, is out of reach of any list of retired descriptors.            *)
LEMMA NoScan ==
  ASSUME IInv, NEW t \in Threads, Retire(t)
  PROVE  /\ UNCHANGED pool /\ reg[t].desc \in Descriptors
         /\ retired' = [retired EXCEPT ![t] = @ \union {reg[t].desc}]
<1> DEFINE all == retired[t] \union {reg[t].desc}
<1>1. Types /\ RecordsOutgrow /\ Leaving /\ pc[t] = "retire"
  BY DEF IInv, Status, Retire
<1>2. reg[t].desc \in Descriptors /\ retired[t] \subseteq Descriptors
  BY <1>1 DEF Types, TypeOK, LocalsSet, LocalSet, Names
<1>3. all \subseteq Descriptors \ pool
  BY <1>1, <1>2 DEF Leaving, Gone
<1>4. IsFiniteSet(Descriptors \ pool) /\ IsFiniteSet(Starting)
  BY FiniteAssumption, FS_Difference, FS_Subset DEF Starting
<1>5. /\ Cardinality(all) <= Cardinality(Descriptors \ pool)
      /\ Cardinality(all) \in Nat /\ Cardinality(Descriptors \ pool) \in Nat
      /\ Cardinality(Starting) \in Nat
  <2> HIDE DEF all
  <2> QED
    BY <1>3, <1>4, FS_Subset, FS_CardinalityType
<1>6. records.held \in Nat /\ records.count \in Nat
  BY <1>1 DEF Types, TypeOK
<1>7. ~(Cardinality(all) > 2 * records.count)
  BY <1>1, <1>5, <1>6 DEF RecordsOutgrow
<1> QED
  BY <1>1, <1>2, <1>7 DEF Retire, Types, TypeOK

(* So the pool only shrinks, and only for a new superblock.                *)
LEMMA PoolStep ==
  ASSUME IInv, NEW t \in Threads, Act(t)
  PROVE  /\ pool' \subseteq pool
         /\ pool' = pool \/ (NewSuperblock(t) /\ \E d \in pool : pool' = pool \ {d})
<1> USE DEF poolVars
<1>1. CASE BeginMalloc(t)
  BY <1>1 DEF BeginMalloc
<1>2. CASE BeginFree(t)
  BY <1>2 DEF BeginFree
<1>3. CASE ReserveActive(t)
  BY <1>3 DEF ReserveActive
<1>4. CASE PopRead(t)
  BY <1>4 DEF PopRead
<1>5. CASE PopNext(t)
  BY <1>5 DEF PopNext
<1>6. CASE PopCas(t)
  BY <1>6 DEF PopCas
<1>7. CASE UpdateActive(t)
  BY <1>7 DEF UpdateActive
<1>8. CASE ReturnCredits(t)
  BY <1>8 DEF ReturnCredits
<1>9. CASE PutPartial(t)
  BY <1>9 DEF PutPartial
<1>10. CASE PutList(t)
  BY <1>10 DEF PutList
<1>11. CASE ReturnBlock(t)
  BY <1>11 DEF ReturnBlock
<1>12. CASE GetPartial(t)
  BY <1>12 DEF GetPartial
<1>13. CASE GetList(t)
  BY <1>13 DEF GetList
<1>14. CASE Reserve(t)
  BY <1>14 DEF Reserve
<1>15. CASE Retire(t)
  BY <1>15, NoScan DEF Retire
<1>16. CASE NewSuperblock(t)
  BY <1>16 DEF NewSuperblock
<1>17. CASE InstallNew(t)
  BY <1>17 DEF InstallNew
<1>18. CASE Discard(t)
  BY <1>18 DEF Discard
<1>19. CASE CheckError(t)
  BY <1>19 DEF CheckError
<1>20. CASE FreeRead(t)
  BY <1>20 DEF FreeRead
<1>21. CASE FreeLink(t)
  BY <1>21 DEF FreeLink
<1>22. CASE FreeCas(t)
  BY <1>22 DEF FreeCas
<1>23. CASE UnmapEmpty(t)
  BY <1>23 DEF UnmapEmpty
<1>24. CASE RemoveEmpty(t)
  BY <1>24 DEF RemoveEmpty
<1>25. CASE ListRemove(t)
  BY <1>25 DEF ListRemove
<1>26. CASE ListCheck(t)
  BY <1>26 DEF ListCheck
<1> QED
  BY <1>1, <1>2, <1>3, <1>4, <1>5, <1>6, <1>7, <1>8, <1>9, <1>10, <1>11, <1>12, <1>13,
     <1>14, <1>15, <1>16, <1>17, <1>18, <1>19, <1>20, <1>21, <1>22, <1>23, <1>24, <1>25,
     <1>26 DEF Act, Step

(* The list of hazard records only grows.                                  *)
LEMMA RecordsMove ==
  ASSUME NEW t \in Threads, Act(t)
  PROVE  \/ records' = records
         \/ \E n, k \in 0 .. 3 : k <= n /\ records' = RecordsAfter(n, k)
<1> USE DEF poolVars
<1>1. CASE BeginMalloc(t)
  BY <1>1 DEF BeginMalloc
<1>2. CASE BeginFree(t)
  BY <1>2 DEF BeginFree
<1>3. CASE ReserveActive(t)
  BY <1>3 DEF ReserveActive
<1>4. CASE PopRead(t)
  BY <1>4 DEF PopRead
<1>5. CASE PopNext(t)
  BY <1>5 DEF PopNext
<1>6. CASE PopCas(t)
  BY <1>6 DEF PopCas
<1>7. CASE UpdateActive(t)
  BY <1>7 DEF UpdateActive
<1>8. CASE ReturnCredits(t)
  BY <1>8 DEF ReturnCredits
<1>9. CASE PutPartial(t)
  BY <1>9 DEF PutPartial
<1>10. CASE PutList(t)
  BY <1>10 DEF PutList
<1>11. CASE ReturnBlock(t)
  BY <1>11 DEF ReturnBlock
<1>12. CASE GetPartial(t)
  BY <1>12 DEF GetPartial
<1>13. CASE GetList(t)
  BY <1>13 DEF GetList, Dequeued, DequeuedNothing, KeptOnMiss
<1>14. CASE Reserve(t)
  BY <1>14 DEF Reserve
<1>15. CASE Retire(t)
  BY <1>15 DEF Retire
<1>16. CASE NewSuperblock(t)
  BY <1>16 DEF NewSuperblock
<1>17. CASE InstallNew(t)
  BY <1>17 DEF InstallNew
<1>18. CASE Discard(t)
  BY <1>18 DEF Discard
<1>19. CASE CheckError(t)
  BY <1>19 DEF CheckError
<1>20. CASE FreeRead(t)
  BY <1>20 DEF FreeRead
<1>21. CASE FreeLink(t)
  BY <1>21 DEF FreeLink
<1>22. CASE FreeCas(t)
  BY <1>22 DEF FreeCas
<1>23. CASE UnmapEmpty(t)
  BY <1>23 DEF UnmapEmpty
<1>24. CASE RemoveEmpty(t)
  BY <1>24 DEF RemoveEmpty
<1>25. CASE ListRemove(t)
  BY <1>25 DEF ListRemove, Dequeued, DequeuedNothing, KeptOnMiss
<1>26. CASE ListCheck(t)
  BY <1>26 DEF ListCheck
<1> QED
  BY <1>1, <1>2, <1>3, <1>4, <1>5, <1>6, <1>7, <1>8, <1>9, <1>10, <1>11, <1>12, <1>13,
     <1>14, <1>15, <1>16, <1>17, <1>18, <1>19, <1>20, <1>21, <1>22, <1>23, <1>24, <1>25,
     <1>26 DEF Act, Step

(* Who is about to map a superblock.                                       *)
LEMMA StartingStep ==
  ASSUME Types, NEW t \in Threads, Act(t)
  PROVE  /\ pc[t] # "new" /\ pc'[t] # "new" => Starting' = Starting
         /\ pc[t] # "new" /\ pc'[t] = "new" =>
              Starting' = Starting \union {t} /\ t \notin Starting
         /\ pc[t] = "new" /\ pc'[t] # "new" => Starting' = Starting \ {t} /\ t \in Starting
  BY StepOfOne DEF OnlyThread, Starting

(* Few threads are starting, few descriptors are in use.                   *)
LEMMA StartingFinite ==
  /\ IsFiniteSet(Starting) /\ Cardinality(Starting) \in Nat
  /\ IsFiniteSet(Descriptors \ pool) /\ Cardinality(Descriptors \ pool) \in Nat
<1>1. IsFiniteSet(Starting) /\ IsFiniteSet(Descriptors \ pool)
  BY FiniteAssumption, FS_Difference, FS_Subset DEF Starting
<1> QED
  BY <1>1, FS_CardinalityType

(* Records outgrow descriptors after every step: a dequeue that leads a    *)
(* thread to NewSuperblock has left a record behind that its descriptor is *)
(* counted against.                                                        *)
LEMMA RecordsStep ==
  ASSUME IInv, NEW t \in Threads, Act(t)
  PROVE  RecordsOutgrow'
<1>a. /\ Cardinality(Descriptors \ pool) + Cardinality(Starting) <= records.held
      /\ records.held <= records.count
      /\ records.held \in Nat /\ records.count \in Nat
  BY DEF IInv, RecordsOutgrow, Types, TypeOK
<1>b. Types /\ pc \in [Threads -> Labels] /\ LocalSet(t)
  BY DEF IInv, Types, LocalsSet
<1> USE DEF poolVars
<1>1. CASE pc[t] # "new" /\ pc'[t] # "new"
  <2>1. Starting' = Starting /\ pool' = pool
    BY <1>b, <1>1, StartingStep, PoolStep DEF NewSuperblock
  <2>2. records.held <= records'.held /\ records'.held <= records'.count /\ records'.held \in Nat
    <3>1. \/ records' = records
          \/ \E n, k \in 0 .. 3 : k <= n /\ records' = RecordsAfter(n, k)
      BY RecordsMove
    <3> QED
      BY <1>a, <1>b, <3>1, RecordsType
  <2> QED
    BY <1>a, <2>1, <2>2, StartingFinite DEF RecordsOutgrow
<1>2. CASE pc[t] # "new" /\ pc'[t] = "new"
  <2>1. GetList(t) /\ DequeuedNothing(t)
    BY <1>b, <1>2 DEF Act, Step, BeginMalloc, BeginFree, ReserveActive, PopRead, PopNext, PopCas,
         UpdateActive, ReturnCredits, PutPartial, PutList, ReturnBlock, GetPartial, GetList,
         Reserve, Retire, NewSuperblock, InstallNew, Discard, CheckError, FreeRead, FreeLink,
         FreeCas, UnmapEmpty, RemoveEmpty, ListRemove, ListCheck, Goto, Finish, Resume,
         LocalSet, Puts
  <2>2. \E n \in 0 .. 3, k \in 1 .. 3 : k <= n /\ records' = RecordsAfter(n, k)
    BY <2>1 DEF DequeuedNothing, KeptOnMiss
  <2>3. /\ records.held + 1 <= records'.held /\ records'.held <= records'.count
        /\ records'.held \in Nat
    BY <1>a, <1>b, <2>2, RecordsType
  <2>4. Cardinality(Starting') = Cardinality(Starting) + 1
    BY <1>b, <1>2, StartingStep, StartingFinite, FS_AddElement
  <2>5. pool' = pool
    BY <2>1 DEF GetList
  <2> QED
    BY <1>a, <2>3, <2>4, <2>5, StartingFinite DEF RecordsOutgrow
<1>3. CASE pc[t] = "new"
  <2>1. NewSuperblock(t)
    BY <1>3 DEF Act, Step, BeginMalloc, BeginFree, ReserveActive, PopRead, PopNext, PopCas,
         UpdateActive, ReturnCredits, PutPartial, PutList, ReturnBlock, GetPartial, GetList,
         Reserve, Retire, NewSuperblock, InstallNew, Discard, CheckError, FreeRead, FreeLink,
         FreeCas, UnmapEmpty, RemoveEmpty, ListRemove, ListCheck
  <2>2. pc'[t] # "new"
    BY <1>b, <2>1 DEF NewSuperblock, Goto
  <2>3. records' = RecordsAfter(1, 0) \/ records' = RecordsAfter(1, 1)
    BY <2>1 DEF NewSuperblock
  <2>4. records.held <= records'.held /\ records'.held <= records'.count /\ records'.held \in Nat
    BY <1>a, <1>b, <2>3, RecordsType
  <2>5. Cardinality(Starting') = Cardinality(Starting) - 1
    BY <1>b, <1>3, <2>2, StartingStep, StartingFinite, FS_RemoveElement
  <2>6. Cardinality(Descriptors \ pool') <= Cardinality(Descriptors \ pool) + 1
    <3>1. CASE pool' = pool
      BY <3>1, StartingFinite
    <3>2. CASE \E d \in pool : pool' = pool \ {d}
      <4>1. PICK d \in pool : pool' = pool \ {d}
        BY <3>2
      <4>2. Descriptors \ pool' = (Descriptors \ pool) \union {d}
        BY <1>b, <4>1 DEF Types, TypeOK
      <4> DEFINE used == Descriptors \ pool
      <4>3. IsFiniteSet(used) /\ Cardinality(used) \in Nat /\ Descriptors \ pool' = used \union {d}
        BY <4>2, StartingFinite
      <4> HIDE DEF used
      <4>4. Cardinality(used \union {d}) <= Cardinality(used) + 1
        BY <4>3, FS_AddElement
      <4> QED
        BY <4>3, <4>4 DEF used
    <3> QED
      BY <3>1, <3>2, PoolStep
  <2>7. Cardinality(Descriptors \ pool') \in Nat
    BY FiniteAssumption, FS_Difference, FS_CardinalityType
  <2> QED
    BY <1>a, <2>4, <2>5, <2>6, <2>7, StartingFinite DEF RecordsOutgrow
<1> QED
  BY <1>1, <1>2, <1>3

-----------------------------------------------------------------------------
(* Who knows of a descriptor.                                              *)

(* What a step may change of a descriptor that it does not take out of the *)
(* pool.                                                                   *)
LEMMA MemoryStep ==
  ASSUME IInv, NEW t \in Threads, Act(t), NEW d \in Descriptors, ~(d \in pool /\ d \notin pool')
  PROVE  /\ home'[d] = home[d]
         /\ ~(pc[t] \in {"pop_cas", "return_credits", "reserve", "free_cas"} /\ reg[t].desc = d)
              => anchor'[d] = anchor[d]
         /\ ~(pc[t] \in {"discard", "unmap"} /\ reg[t].desc = d) => mapped'[d] = mapped[d]
         /\ ~(pc[t] \in {"return", "free_link"} /\ reg[t].desc = d) => word'[d] = word[d]
<1>a. /\ anchor \in [Descriptors -> Anchors] /\ home \in [Descriptors -> Heaps \union {NULL}]
      /\ mapped \in [Descriptors -> BOOLEAN] /\ word \in [Descriptors -> [Blocks -> Words]]
      /\ pool \in SUBSET Descriptors
  BY DEF IInv, Types, TypeOK
<1> USE <1>a DEF blockVars
<1>1. CASE BeginMalloc(t)
  BY <1>1 DEF BeginMalloc
<1>2. CASE BeginFree(t)
  BY <1>2 DEF BeginFree
<1>3. CASE ReserveActive(t)
  BY <1>3 DEF ReserveActive
<1>4. CASE PopRead(t)
  BY <1>4 DEF PopRead
<1>5. CASE PopNext(t)
  BY <1>5 DEF PopNext
<1>6. CASE PopCas(t)
  BY <1>6 DEF PopCas
<1>7. CASE UpdateActive(t)
  BY <1>7 DEF UpdateActive
<1>8. CASE ReturnCredits(t)
  BY <1>8 DEF ReturnCredits
<1>9. CASE PutPartial(t)
  BY <1>9 DEF PutPartial
<1>10. CASE PutList(t)
  BY <1>10 DEF PutList
<1>11. CASE ReturnBlock(t)
  BY <1>11 DEF ReturnBlock
<1>12. CASE GetPartial(t)
  BY <1>12 DEF GetPartial
<1>13. CASE GetList(t)
  BY <1>13 DEF GetList
<1>14. CASE Reserve(t)
  BY <1>14 DEF Reserve
<1>15. CASE Retire(t)
  BY <1>15, NoScan DEF Retire
<1>16. CASE NewSuperblock(t)
  <2>1. CASE UNCHANGED blockVars
    BY <2>1
  <2>2. CASE \E e \in pool : /\ pool' = pool \ {e}
                             /\ mapped' = [mapped EXCEPT ![e] = TRUE]
                             /\ home' = [home EXCEPT ![e] = reg[t].heap]
                             /\ word' = [word EXCEPT ![e] = OrganizedList]
                             /\ anchor' = [anchor EXCEPT ![e] = NewAnchor(@.tag)]
    <3>1. PICK e \in pool : /\ pool' = pool \ {e}
                            /\ mapped' = [mapped EXCEPT ![e] = TRUE]
                            /\ home' = [home EXCEPT ![e] = reg[t].heap]
                            /\ word' = [word EXCEPT ![e] = OrganizedList]
                            /\ anchor' = [anchor EXCEPT ![e] = NewAnchor(@.tag)]
      BY <2>2
    <3>2. d # e
      BY <3>1
    <3> HIDE DEF NewAnchor, OrganizedList
    <3> QED
      BY <3>1, <3>2
  <2> QED
    BY <1>16, <2>1, <2>2 DEF NewSuperblock
<1>17. CASE InstallNew(t)
  BY <1>17 DEF InstallNew
<1>18. CASE Discard(t)
  BY <1>18 DEF Discard
<1>19. CASE CheckError(t)
  BY <1>19 DEF CheckError
<1>20. CASE FreeRead(t)
  BY <1>20 DEF FreeRead
<1>21. CASE FreeLink(t)
  BY <1>21 DEF FreeLink
<1>22. CASE FreeCas(t)
  BY <1>22 DEF FreeCas
<1>23. CASE UnmapEmpty(t)
  BY <1>23 DEF UnmapEmpty
<1>24. CASE RemoveEmpty(t)
  BY <1>24 DEF RemoveEmpty
<1>25. CASE ListRemove(t)
  BY <1>25 DEF ListRemove
<1>26. CASE ListCheck(t)
  BY <1>26 DEF ListCheck
<1> QED
  BY <1>1, <1>2, <1>3, <1>4, <1>5, <1>6, <1>7, <1>8, <1>9, <1>10, <1>11, <1>12, <1>13,
     <1>14, <1>15, <1>16, <1>17, <1>18, <1>19, <1>20, <1>21, <1>22, <1>23, <1>24, <1>25,
     <1>26 DEF Act, Step

(* The new superblock.                                                     *)
LEMMA NewStep ==
  ASSUME IInv, NEW t \in Threads, NewSuperblock(t), NEW d \in pool, d \notin pool'
  PROVE  /\ d \in Descriptors /\ pool' = pool \ {d}
         /\ \/ /\ pc'[t] = "install" /\ reg'[t].desc = d
               /\ reg'[t].other = reg[t].other
               /\ mapped'[d] /\ home'[d] \in Heaps /\ word'[d] = OrganizedList
               /\ anchor'[d] = NewAnchor(anchor[d].tag)
            \/ /\ pc'[t] = "check_error" /\ UNCHANGED <<reg, blockVars>>
<1>a. /\ anchor \in [Descriptors -> Anchors] /\ home \in [Descriptors -> Heaps \union {NULL}]
      /\ mapped \in [Descriptors -> BOOLEAN] /\ word \in [Descriptors -> [Blocks -> Words]]
      /\ pool \in SUBSET Descriptors /\ reg \in [Threads -> Regs] /\ pc \in [Threads -> Labels]
      /\ LocalSet(t)
  BY DEF IInv, Types, TypeOK, LocalsSet
<1>1. reg[t].heap \in Heaps
  BY <1>a DEF NewSuperblock, LocalSet, Searches
<1>2. CASE \E e \in pool : /\ pool' = pool \ {e}
                           /\ mapped' = [mapped EXCEPT ![e] = TRUE]
                           /\ home' = [home EXCEPT ![e] = reg[t].heap]
                           /\ word' = [word EXCEPT ![e] = OrganizedList]
                           /\ anchor' = [anchor EXCEPT ![e] = NewAnchor(@.tag)]
                           /\ reg' = [reg EXCEPT ![t].desc = e]
                           /\ Goto(t, "install")
  <2>1. PICK e \in pool : /\ pool' = pool \ {e}
                          /\ mapped' = [mapped EXCEPT ![e] = TRUE]
                          /\ home' = [home EXCEPT ![e] = reg[t].heap]
                          /\ word' = [word EXCEPT ![e] = OrganizedList]
                          /\ anchor' = [anchor EXCEPT ![e] = NewAnchor(@.tag)]
                          /\ reg' = [reg EXCEPT ![t].desc = e]
                          /\ Goto(t, "install")
    BY <1>2
  <2>2. e = d
    BY <2>1
  <2>3. reg'[t].desc = d /\ reg'[t].other = reg[t].other
    BY <1>a, <2>1, <2>2 DEF Regs
  <2>4. pc'[t] = "install"
    BY <1>a, <2>1 DEF Goto
  <2>5. /\ mapped'[d] /\ home'[d] \in Heaps /\ word'[d] = OrganizedList
        /\ anchor'[d] = NewAnchor(anchor[d].tag)
    BY <1>a, <1>1, <2>1, <2>2
  <2> QED
    BY <1>a, <2>1, <2>2, <2>3, <2>4, <2>5
<1>3. CASE (\E e \in pool : pool' = pool \ {e}) /\ Goto(t, "check_error") /\ UNCHANGED <<reg, blockVars>>
  BY <1>a, <1>3 DEF Goto
<1>4. CASE pool' = pool
  BY <1>4
<1> QED
  BY <1>2, <1>3, <1>4 DEF NewSuperblock

(* Nobody comes to know a descriptor that nothing leads to.                *)
LEMMA UnknownStep ==
  ASSUME IInv, NEW t \in Threads, Act(t), NEW d \in Descriptors, NEW U, t \notin U,
         Unknown(d, U), ~(d \in pool /\ d \notin pool')
  PROVE  Unknown(d, U)'
<1>a. /\ reg[t].desc # d /\ reg[t].other # d /\ d \notin retired[t]
      /\ \A h \in Heaps : active[h].desc # d /\ partial[h] # d
      /\ \A i \in 1 .. Len(queue) : queue[i] # d
      /\ \A b \in Blocks : <<d, b>> \notin live
  BY DEF Unknown
<1>b. /\ reg \in [Threads -> Regs] /\ Types /\ pc \in [Threads -> Labels] /\ LocalSet(t)
      /\ retired \in [Threads -> SUBSET Descriptors]
      /\ active \in [Heaps -> ActiveWords] /\ partial \in [Heaps -> Descriptors \union {NULL}]
      /\ live \in SUBSET (Descriptors \X Blocks) /\ d # NULL
  BY NullAssumption DEF IInv, Types, TypeOK, LocalsSet, ActiveWords
<1> SUFFICES
      /\ reg'[t].desc # d /\ reg'[t].other # d /\ d \notin retired'[t]
      /\ \A h \in Heaps : active'[h].desc # d /\ partial'[h] # d
      /\ \A i \in 1 .. Len(queue') : queue'[i] # d
      /\ \A b \in Blocks : <<d, b>> \notin live'
  BY <1>b, StepOfOne DEF Unknown, OnlyThread
<1>c. queue # <<>> =>
        /\ Head(queue) # d
        /\ \A i \in 1 .. Len(Tail(queue)) : Tail(queue)[i] # d
  BY <1>a, <1>b, QueueHead, QueueElements
<1>d. NoReg.desc # d /\ NoReg.other # d /\ NoActive.desc # d
  BY <1>b DEF NoReg, NoActive
<1>f. reg[t].heap \in Heaps => active[reg[t].heap].desc # d /\ partial[reg[t].heap] # d
  BY <1>a
<1> USE <1>a, <1>b DEF heapVars, poolVars
<1>1. CASE BeginMalloc(t)
  BY <1>1 DEF BeginMalloc, Regs
<1>2. CASE BeginFree(t)
  BY <1>2 DEF BeginFree, Regs
<1>3. CASE ReserveActive(t)
  <2>1. active' = active \/ active' = [active EXCEPT ![reg[t].heap] = Spend(active[reg[t].heap])]
    BY <1>3 DEF ReserveActive
  <2>2. reg[t].heap \in Heaps
    BY <1>3 DEF ReserveActive, LocalSet, Searches
  <2>3. Spend(active[reg[t].heap]).desc # d
    BY <1>d, <1>f, <2>2 DEF Spend
  <2>4. \A h \in Heaps : active'[h].desc # d
    BY <2>1, <2>3
  <2>5. reg'[t].desc # d /\ reg'[t].other # d
    <3>1. CASE reg' = reg
      BY <3>1
    <3>2. CASE reg' = [reg EXCEPT ![t].desc = active[reg[t].heap].desc,
                                  ![t].last = (active[reg[t].heap].credits = 0),
                                  ![t].more = 0]
      <4>1. reg'[t].desc = active[reg[t].heap].desc /\ reg'[t].other = reg[t].other
        BY <3>2 DEF Regs
      <4> QED
        BY <1>f, <2>2, <4>1
    <3> QED
      BY <1>3, <3>1, <3>2 DEF ReserveActive
  <2>6. UNCHANGED <<partial, queue, retired, live>>
    BY <1>3 DEF ReserveActive
  <2> QED
    BY <2>4, <2>5, <2>6
<1>4. CASE PopRead(t)
  BY <1>4 DEF PopRead, Regs
<1>5. CASE PopNext(t)
  BY <1>5 DEF PopNext, Regs
<1>6. CASE PopCas(t)
  BY <1>6 DEF PopCas, Regs
<1>7. CASE UpdateActive(t)
  BY <1>7 DEF UpdateActive, Regs, ActiveWord
<1>8. CASE ReturnCredits(t)
  BY <1>8 DEF ReturnCredits, Regs
<1>9. CASE PutPartial(t)
  <2>1. partial' = [partial EXCEPT ![home[reg[t].desc]] = reg[t].desc]
    BY <1>9 DEF PutPartial
  <2>2. \A h \in Heaps : partial'[h] # d
    BY <2>1
  <2>3. reg'[t].desc # d /\ reg'[t].other # d
    <3>1. CASE reg' = [reg EXCEPT ![t] = NoReg] \/ reg' = reg
      BY <1>d, <3>1
    <3>2. CASE reg' = [reg EXCEPT ![t].other = partial[home[reg[t].desc]]]
      <4>1. reg'[t].desc = reg[t].desc /\ reg'[t].other = partial[home[reg[t].desc]]
        BY <3>2 DEF Regs
      <4>2. home[reg[t].desc] \in Heaps
        BY <1>9, HasHome DEF PutPartial
      <4> QED
        BY <4>1, <4>2
    <3> QED
      BY <1>9, <3>1, <3>2 DEF PutPartial, Resume, Finish
  <2>4. UNCHANGED <<active, queue, retired, live>>
    BY <1>9 DEF PutPartial
  <2> QED
    BY <2>2, <2>3, <2>4
<1>10. CASE PutList(t)
  <2>1. reg[t].other \in Descriptors
    BY <1>10 DEF PutList, LocalSet
  <2>2. queue' = queue \/ queue' = Append(queue, reg[t].other)
    BY <1>10 DEF PutList
  <2>3. \A i \in 1 .. Len(queue') : queue'[i] # d
    <3>1. CASE queue' = queue
      BY <3>1
    <3>2. CASE queue' = Append(queue, reg[t].other)
      <4>1. Len(queue') = Len(queue) + 1 /\ queue'[Len(queue) + 1] = reg[t].other
            /\ \A i \in 1 .. Len(queue) : queue'[i] = queue[i]
        BY <2>1, <3>2, QueueAppend
      <4>2. Len(queue) \in Nat
        BY QueueElements
      <4>3. \A i \in 1 .. Len(queue) + 1 : i \in 1 .. Len(queue) \/ i = Len(queue) + 1
        BY <4>2
      <4> HIDE DEF Types
      <4> QED
        BY <4>1, <4>3
    <3> QED
      BY <2>2, <3>1, <3>2
  <2>4. reg'[t].desc # d /\ reg'[t].other # d
    BY <1>10, <1>d DEF PutList, Resume, Finish
  <2>5. UNCHANGED <<active, partial, retired, live>>
    BY <1>10 DEF PutList
  <2> QED
    BY <2>3, <2>4, <2>5
<1>11. CASE ReturnBlock(t)
  BY <1>11, <1>d DEF ReturnBlock, Finish, Regs
<1>12. CASE GetPartial(t)
  BY <1>12, <1>f DEF GetPartial, Regs, LocalSet, Searches
<1>13. CASE GetList(t)
  <2>1. UNCHANGED <<active, partial, retired, live>>
    BY <1>13 DEF GetList
  <2>2. CASE queue' = queue /\ reg' = reg
    BY <2>1, <2>2
  <2>3. CASE queue # <<>> /\ queue' = Tail(queue) /\ reg' = [reg EXCEPT ![t].desc = Head(queue)]
    <3>1. reg'[t].desc # d /\ reg'[t].other # d
      BY <1>c, <2>3 DEF Regs
    <3>2. \A i \in 1 .. Len(queue') : queue'[i] # d
      BY <1>c, <2>3
    <3> QED
      BY <2>1, <3>1, <3>2
  <2> QED
    BY <1>13, <2>2, <2>3 DEF GetList, Dequeued, DequeuedNothing
<1>14. CASE Reserve(t)
  BY <1>14 DEF Reserve, Regs
<1>15. CASE Retire(t)
  BY <1>15, NoScan, <1>d DEF Retire, Resume, Finish, Regs
<1>16. CASE NewSuperblock(t)
  BY <1>16 DEF NewSuperblock, Regs
<1>17. CASE InstallNew(t)
  <2>1. active' = active \/ active' = [active EXCEPT ![reg[t].heap] = ActiveWord(reg[t].desc, FirstCredits + 1)]
    BY <1>17 DEF InstallNew
  <2>2. ActiveWord(reg[t].desc, FirstCredits + 1).desc # d
    BY DEF ActiveWord
  <2>3. \A h \in Heaps : active'[h].desc # d
    <3> HIDE DEF Types
    <3> QED
      BY <2>1, <2>2
  <2>4. reg'[t].desc = reg[t].desc /\ reg'[t].other = reg[t].other
    BY <1>17 DEF InstallNew, Regs
  <2>5. UNCHANGED <<partial, queue, retired, live>>
    BY <1>17 DEF InstallNew
  <2> QED
    BY <2>3, <2>4, <2>5
<1>18. CASE Discard(t)
  BY <1>18 DEF Discard, Regs
<1>19. CASE CheckError(t)
  BY <1>19, <1>d DEF CheckError, Finish, Regs
<1>20. CASE FreeRead(t)
  BY <1>20 DEF FreeRead, Regs
<1>21. CASE FreeLink(t)
  BY <1>21 DEF FreeLink, Regs
<1>22. CASE FreeCas(t)
  BY <1>22, <1>d DEF FreeCas, Finish, Regs
<1>23. CASE UnmapEmpty(t)
  BY <1>23 DEF UnmapEmpty, Regs
<1>24. CASE RemoveEmpty(t)
  <2>1. partial' = partial \/ partial' = [partial EXCEPT ![reg[t].heap] = NULL]
    BY <1>24 DEF RemoveEmpty
  <2>2. \A h \in Heaps : partial'[h] # d
    BY <2>1
  <2>3. UNCHANGED <<active, queue, retired, live, reg>>
    BY <1>24 DEF RemoveEmpty
  <2> QED
    BY <2>2, <2>3
<1>25. CASE ListRemove(t)
  <2>1. UNCHANGED <<active, partial, retired, live>>
    BY <1>25 DEF ListRemove
  <2>2. CASE queue' = queue /\ reg' = [reg EXCEPT ![t] = NoReg]
    BY <1>d, <2>1, <2>2
  <2>3. CASE queue # <<>> /\ queue' = Tail(queue) /\ reg' = [reg EXCEPT ![t].other = Head(queue)]
    <3>1. reg'[t].desc # d /\ reg'[t].other # d
      BY <1>c, <2>3 DEF Regs
    <3>2. \A i \in 1 .. Len(queue') : queue'[i] # d
      BY <1>c, <2>3
    <3> QED
      BY <2>1, <3>1, <3>2
  <2> QED
    BY <1>25, <2>2, <2>3 DEF ListRemove, Finish, Dequeued, DequeuedNothing
<1>26. CASE ListCheck(t)
  BY <1>26 DEF ListCheck, Regs
<1> QED
  BY <1>1, <1>2, <1>3, <1>4, <1>5, <1>6, <1>7, <1>8, <1>9, <1>10, <1>11, <1>12, <1>13,
     <1>14, <1>15, <1>16, <1>17, <1>18, <1>19, <1>20, <1>21, <1>22, <1>23, <1>24, <1>25,
     <1>26 DEF Act, Step

(* How a thread comes to be the only one to know a descriptor.             *)
LEMMA PrivateEntered ==
  ASSUME IInv, NEW t \in Threads, Act(t), pc'[t] \in {"install", "discard"}
  PROVE  \/ NewSuperblock(t) /\ pc'[t] = "install"
         \/ InstallNew(t) /\ pc[t] = "install" /\ UNCHANGED <<active, reg>>
<1> USE DEF Goto
<1>a. pc \in [Threads -> Labels] /\ (pc[t] \in {"put_partial", "put_list"} => reg[t].then \in {"idle", "return"})
      /\ (pc[t] = "retire" => reg[t].then \in {"idle", "get_partial", "check_error"})
  BY DEF IInv, Types, LocalsSet, LocalSet, Puts
<1> USE <1>a
<1>1. CASE BeginMalloc(t)
  BY <1>1 DEF BeginMalloc
<1>2. CASE BeginFree(t)
  BY <1>2 DEF BeginFree
<1>3. CASE ReserveActive(t)
  BY <1>3 DEF ReserveActive
<1>4. CASE PopRead(t)
  BY <1>4 DEF PopRead
<1>5. CASE PopNext(t)
  BY <1>5 DEF PopNext
<1>6. CASE PopCas(t)
  BY <1>6 DEF PopCas
<1>7. CASE UpdateActive(t)
  BY <1>7 DEF UpdateActive
<1>8. CASE ReturnCredits(t)
  BY <1>8 DEF ReturnCredits
<1>9. CASE PutPartial(t)
  BY <1>9 DEF PutPartial, Resume, Finish
<1>10. CASE PutList(t)
  BY <1>10 DEF PutList, Resume, Finish
<1>11. CASE ReturnBlock(t)
  BY <1>11 DEF ReturnBlock, Finish
<1>12. CASE GetPartial(t)
  BY <1>12 DEF GetPartial
<1>13. CASE GetList(t)
  BY <1>13 DEF GetList
<1>14. CASE Reserve(t)
  BY <1>14 DEF Reserve
<1>15. CASE Retire(t)
  BY <1>15 DEF Retire, Resume, Finish
<1>16. CASE NewSuperblock(t)
  BY <1>16 DEF NewSuperblock
<1>17. CASE InstallNew(t)
  BY <1>17 DEF InstallNew
<1>18. CASE Discard(t)
  BY <1>18 DEF Discard
<1>19. CASE CheckError(t)
  BY <1>19 DEF CheckError, Finish
<1>20. CASE FreeRead(t)
  BY <1>20 DEF FreeRead
<1>21. CASE FreeLink(t)
  BY <1>21 DEF FreeLink
<1>22. CASE FreeCas(t)
  BY <1>22 DEF FreeCas, Finish
<1>23. CASE UnmapEmpty(t)
  BY <1>23 DEF UnmapEmpty
<1>24. CASE RemoveEmpty(t)
  BY <1>24 DEF RemoveEmpty
<1>25. CASE ListRemove(t)
  BY <1>25 DEF ListRemove, Finish
<1>26. CASE ListCheck(t)
  BY <1>26 DEF ListCheck
<1> QED
  BY <1>1, <1>2, <1>3, <1>4, <1>5, <1>6, <1>7, <1>8, <1>9, <1>10, <1>11, <1>12, <1>13,
     <1>14, <1>15, <1>16, <1>17, <1>18, <1>19, <1>20, <1>21, <1>22, <1>23, <1>24, <1>25,
     <1>26 DEF Act, Step

(* A new superblock takes one descriptor of the pool, ...                  *)
LEMMA NewTakesOne ==
  ASSUME Types, NEW t \in Threads, NewSuperblock(t), pc'[t] = "install"
  PROVE  \E d \in pool : pool' = pool \ {d}
<1>1. pc \in [Threads -> Labels]
  BY DEF Types, LocalsSet
<1>2. ~Goto(t, "check_error")
  BY <1>1 DEF Goto
<1> QED
  BY <1>2 DEF NewSuperblock

(* ... that the thread alone knows until it installs or discards it; ...   *)
LEMMA PrivateStep ==
  ASSUME IInv, NEW t \in Threads, Act(t)
  PROVE  PrivateUnknown'
<1> SUFFICES ASSUME NEW u \in Threads, pc'[u] \in {"install", "discard"}
             PROVE  \E d \in Descriptors :
                      /\ reg'[u].desc = d /\ Unknown(d, {u})'
                      /\ d \notin pool' /\ mapped'[d]
                      /\ anchor'[d] = NewAnchor(anchor'[d].tag) /\ word'[d] = OrganizedList
  BY DEF PrivateUnknown
<1>a. Types /\ PrivateUnknown /\ PoolUnknown /\ OnlyThread(t) /\ pool' \subseteq pool
  BY StepOfOne, PoolStep DEF IInv, Knowledge
<1>1. CASE u # t
  <2>1. pc'[u] = pc[u] /\ reg'[u] = reg[u]
    BY <1>a, <1>1 DEF OnlyThread
  <2>3. PICK d \in Descriptors : d = reg[u].desc
    BY <1>a, <2>1 DEF Types, LocalsSet, LocalSet, Names
  <2>2. /\ Unknown(d, {u}) /\ d \notin pool /\ mapped[d]
        /\ anchor[d] = NewAnchor(anchor[d].tag) /\ word[d] = OrganizedList
    BY <1>a, <2>1, <2>3 DEF PrivateUnknown
  <2>4. reg[t].desc # d
    BY <1>1, <2>2 DEF Unknown
  <2>5. UNCHANGED <<anchor[d], mapped[d], word[d]>>
    BY <2>2, <2>3, <2>4, MemoryStep
  <2>6. Unknown(d, {u})'
    <3> DEFINE U == {u}
    <3>1. t \notin U /\ Unknown(d, U)
      BY <1>1, <2>2
    <3> HIDE DEF U
    <3>2. Unknown(d, U)'
      BY <2>2, <2>3, <3>1, UnknownStep
    <3> QED
      BY <1>1, <2>1, <3>2 DEF U
  <2>7. reg'[u].desc = d
    BY <2>1, <2>3
  <2> QED
    BY <1>a, <2>2, <2>5, <2>6, <2>7
<1>2. CASE u = t /\ InstallNew(t) /\ pc[t] = "install" /\ UNCHANGED <<active, reg>>
  <2>1. UNCHANGED <<partial, queue, retired, live, pool, mapped, anchor, word>>
    BY <1>2 DEF InstallNew, blockVars, poolVars
  <2>4. PICK d \in Descriptors : d = reg[t].desc
    BY <1>a, <1>2 DEF Types, LocalsSet, LocalSet, Names
  <2>2. /\ Unknown(d, {t}) /\ d \notin pool /\ mapped[d]
        /\ anchor[d] = NewAnchor(anchor[d].tag) /\ word[d] = OrganizedList
    BY <1>a, <1>2, <2>4 DEF PrivateUnknown
  <2>3. Unknown(d, {t})'
    BY <1>2, <2>1, <2>2 DEF Unknown
  <2> QED
    BY <1>2, <2>1, <2>2, <2>3, <2>4
<1>3. CASE u = t /\ NewSuperblock(t) /\ pc'[t] = "install"
  <2>1. PICK d \in pool : pool' = pool \ {d}
    BY <1>a, <1>3, NewTakesOne
  <2>2. /\ d \in Descriptors /\ reg'[t].desc = d /\ mapped'[d] /\ word'[d] = OrganizedList
        /\ anchor'[d] = NewAnchor(anchor[d].tag)
    BY <1>3, <2>1, NewStep
  <2>3. Unknown(d, {})
    BY <1>a DEF PoolUnknown
  <2>4. UNCHANGED <<active, partial, queue, retired, live>>
    BY <1>3 DEF NewSuperblock, heapVars
  <2>5. Unknown(d, {t})'
    BY <1>a, <2>3, <2>4 DEF Unknown, OnlyThread
  <2>6. NewAnchor(anchor[d].tag) = NewAnchor(anchor'[d].tag)
    BY <2>2 DEF NewAnchor
  <2> QED
    BY <1>3, <2>1, <2>2, <2>5, <2>6
<1> QED
  BY <1>1, <1>2, <1>3, PrivateEntered

(* ... those left in the pool are as unknown as before; ...                *)
LEMMA PoolUnknownStep ==
  ASSUME IInv, NEW t \in Threads, Act(t)
  PROVE  PoolUnknown'
<1> SUFFICES ASSUME NEW d \in pool' PROVE ~mapped'[d] /\ Unknown(d, {})'
  BY DEF PoolUnknown
<1>1. d \in pool /\ d \in Descriptors /\ ~mapped[d] /\ Unknown(d, {})
  BY PoolStep DEF IInv, Types, TypeOK, Knowledge, PoolUnknown
<1>2. reg[t].desc # d
  BY <1>1 DEF Unknown
<1>3. mapped'[d] = mapped[d]
  BY <1>1, <1>2, MemoryStep
<1>4. Unknown(d, {})'
  <2> DEFINE U == {}
  <2>1. t \notin U /\ Unknown(d, U)
    BY <1>1
  <2> HIDE DEF U
  <2>2. Unknown(d, U)'
    BY <1>1, <2>1, UnknownStep
  <2> QED
    BY <2>2 DEF U
<1> QED
  BY <1>1, <1>3, <1>4

(* ... and it has been given a heap.                                       *)
LEMMA HomeStep ==
  ASSUME IInv, NEW t \in Threads, Act(t)
  PROVE  HomeSet'
<1> SUFFICES ASSUME NEW d \in Descriptors, mapped'[d] \/ anchor'[d].state = "EMPTY"
             PROVE  home'[d] \in Heaps
  BY DEF HomeSet
<1>a. HomeSet /\ Types
  BY DEF IInv, Knowledge
<1>1. CASE d \in pool /\ d \notin pool'
  <2>1. NewSuperblock(t)
    BY <1>1, PoolStep
  <2>2. home'[d] \in Heaps \/ UNCHANGED blockVars
    BY <1>1, <2>1, NewStep
  <2> QED
    BY <1>a, <2>2 DEF HomeSet, blockVars
<1>2. CASE ~(d \in pool /\ d \notin pool')
  <2>1. home'[d] = home[d]
    BY <1>2, MemoryStep
  <2>2. CASE pc[t] \in {"pop_cas", "return_credits", "reserve", "free_cas"} /\ reg[t].desc = d
    <3>1. CASE pc[t] = "reserve"
      BY <1>a, <2>1, <2>2, <3>1 DEF IInv, Status, ListsPartial, PartlyFree, HomeSet
    <3>2. CASE pc[t] # "reserve"
      BY <2>1, <2>2, <3>2, HasHome DEF Owning, Pops, Updates, Frees
    <3> QED
      BY <3>1, <3>2
  <2>3. CASE pc[t] \in {"discard", "unmap"} /\ reg[t].desc = d
    <3>1. mapped[d] \/ anchor[d].state = "EMPTY"
      BY <2>3 DEF IInv, Knowledge, PrivateUnknown, Status, Leaving
    <3> QED
      BY <1>a, <2>1, <3>1 DEF HomeSet
  <2>4. CASE anchor'[d] = anchor[d] /\ mapped'[d] = mapped[d]
    BY <1>a, <2>1, <2>4 DEF HomeSet
  <2> QED
    BY <1>2, <2>2, <2>3, <2>4, MemoryStep
<1> QED
  BY <1>1, <1>2

(* So who knows of a descriptor is as the invariant says after every step. *)
LEMMA KnowledgeStep ==
  ASSUME IInv, NEW t \in Threads, Act(t)
  PROVE  Knowledge'
  BY PrivateStep, PoolUnknownStep, HomeStep DEF Knowledge

-----------------------------------------------------------------------------
(* The life of a superblock.                                               *)

(* The actions that change an anchor, a mapping or the first word of a     *)
(* block are told from where the thread stands.                            *)
LEMMA ActionAt ==
  ASSUME NEW t \in Threads, Act(t)
  PROVE  /\ pc[t] = "pop_cas" => PopCas(t)
         /\ pc[t] = "return_credits" => ReturnCredits(t)
         /\ pc[t] = "reserve" => Reserve(t)
         /\ pc[t] = "free_cas" => FreeCas(t)
         /\ pc[t] = "discard" => Discard(t)
         /\ pc[t] = "unmap" => UnmapEmpty(t)
         /\ pc[t] = "return" => ReturnBlock(t)
         /\ pc[t] = "free_link" => FreeLink(t)
         /\ pc[t] = "install" => InstallNew(t)
<1>1. CASE BeginMalloc(t)
  BY <1>1 DEF BeginMalloc
<1>2. CASE BeginFree(t)
  BY <1>2 DEF BeginFree
<1>3. CASE ReserveActive(t)
  BY <1>3 DEF ReserveActive
<1>4. CASE PopRead(t)
  BY <1>4 DEF PopRead
<1>5. CASE PopNext(t)
  BY <1>5 DEF PopNext
<1>6. CASE PopCas(t)
  BY <1>6 DEF PopCas
<1>7. CASE UpdateActive(t)
  BY <1>7 DEF UpdateActive
<1>8. CASE ReturnCredits(t)
  BY <1>8 DEF ReturnCredits
<1>9. CASE PutPartial(t)
  BY <1>9 DEF PutPartial
<1>10. CASE PutList(t)
  BY <1>10 DEF PutList
<1>11. CASE ReturnBlock(t)
  BY <1>11 DEF ReturnBlock
<1>12. CASE GetPartial(t)
  BY <1>12 DEF GetPartial
<1>13. CASE GetList(t)
  BY <1>13 DEF GetList
<1>14. CASE Reserve(t)
  BY <1>14 DEF Reserve
<1>15. CASE Retire(t)
  BY <1>15 DEF Retire
<1>16. CASE NewSuperblock(t)
  BY <1>16 DEF NewSuperblock
<1>17. CASE InstallNew(t)
  BY <1>17 DEF InstallNew
<1>18. CASE Discard(t)
  BY <1>18 DEF Discard
<1>19. CASE CheckError(t)
  BY <1>19 DEF CheckError
<1>20. CASE FreeRead(t)
  BY <1>20 DEF FreeRead
<1>21. CASE FreeLink(t)
  BY <1>21 DEF FreeLink
<1>22. CASE FreeCas(t)
  BY <1>22 DEF FreeCas
<1>23. CASE UnmapEmpty(t)
  BY <1>23 DEF UnmapEmpty
<1>24. CASE RemoveEmpty(t)
  BY <1>24 DEF RemoveEmpty
<1>25. CASE ListRemove(t)
  BY <1>25 DEF ListRemove
<1>26. CASE ListCheck(t)
  BY <1>26 DEF ListCheck
<1> QED
  BY <1>1, <1>2, <1>3, <1>4, <1>5, <1>6, <1>7, <1>8, <1>9, <1>10, <1>11, <1>12, <1>13,
     <1>14, <1>15, <1>16, <1>17, <1>18, <1>19, <1>20, <1>21, <1>22, <1>23, <1>24, <1>25,
     <1>26 DEF Act, Step

(* A descriptor that has been published is never private or free again.    *)
Settled(d) == d \notin pool /\ ~Private(d)

(* A published descriptor stays published.                                 *)
LEMMA SettledStep ==
  ASSUME IInv, NEW t \in Threads, Act(t), NEW d \in Descriptors, Settled(d)
  PROVE  Settled(d)'
<1>1. d \notin pool' /\ ~(d \in pool /\ d \notin pool') /\ OnlyThread(t)
  BY PoolStep, StepOfOne DEF Settled, IInv
<1>2. ASSUME NEW u \in Threads, pc'[u] \in {"install", "discard"}, reg'[u].desc = d PROVE FALSE
  <2>1. CASE u # t
    BY <1>1, <1>2, <2>1 DEF OnlyThread, Settled, Private
  <2>2. CASE u = t /\ NewSuperblock(t) /\ pc'[t] = "install"
    <3>1. PICK e \in pool : pool' = pool \ {e}
      BY <2>2, NewTakesOne DEF IInv
    <3>2. reg'[t].desc = e
      BY <2>2, <3>1, NewStep
    <3> QED
      BY <1>2, <2>2, <3>2 DEF Settled
  <2>3. CASE u = t /\ InstallNew(t) /\ pc[t] = "install" /\ reg' = reg
    BY <1>2, <2>3 DEF Settled, Private
  <2> QED
    BY <1>2, <2>1, <2>2, <2>3, PrivateEntered
<1> QED
  BY <1>1, <1>2 DEF Settled, Private

(* A superblock in use has been published.                                 *)
LEMMA InUseSettled ==
  ASSUME IInv, NEW d \in Descriptors, InUse(d)
  PROVE  Settled(d)
  BY DEF IInv, Knowledge, PoolUnknown, InUse, Settled

(* What a step does to the anchor of a descriptor that is settled.         *)
LEMMA AnchorMoves ==
  ASSUME IInv, NEW t \in Threads, Act(t), NEW d \in Descriptors, Settled(d), anchor'[d] # anchor[d]
  PROVE  /\ reg[t].desc = d /\ InUse(d)
         /\ \/ /\ PopCas(t) /\ pc[t] = "pop_cas" /\ anchor[d] = reg[t].old
               /\ anchor'[d] = PoppedAnchor(reg[t])
            \/ /\ ReturnCredits(t) /\ pc[t] = "return_credits"
               /\ anchor'[d] = [anchor[d] EXCEPT !.count = @ + reg[t].more, !.state = "PARTIAL"]
            \/ /\ Reserve(t) /\ pc[t] = "reserve" /\ anchor[d].state # "EMPTY"
               /\ anchor'[d] = [anchor[d] EXCEPT
                                  !.count = @ - (BatchBesides(anchor[d]) + 1),
                                  !.state = IF BatchBesides(anchor[d]) > 0 THEN "ACTIVE" ELSE "FULL"]
            \/ /\ FreeCas(t) /\ pc[t] = "free_cas" /\ anchor[d] = reg[t].old
               /\ anchor'[d] = FreedAnchor(anchor[d], reg[t].block)
<1>a. anchor \in [Descriptors -> Anchors]
  BY DEF IInv, Types, TypeOK
<1>1. pc[t] \in {"pop_cas", "return_credits", "reserve", "free_cas"} /\ reg[t].desc = d
  BY MemoryStep DEF Settled
<1>2. CASE pc[t] = "pop_cas"
  <2>1. PopCas(t)
    BY <1>2, ActionAt
  <2>2. InUse(d)
    BY <1>1, <1>2 DEF IInv, Status, OwnersInUse, Owning, Pops
  <2>3. anchor[d] = reg[t].old /\ anchor'[d] = PoppedAnchor(reg[t])
    BY <1>a, <1>1, <2>1 DEF PopCas
  <2> QED
    BY <1>1, <1>2, <2>1, <2>2, <2>3
<1>3. CASE pc[t] = "return_credits"
  <2>1. ReturnCredits(t)
    BY <1>3, ActionAt
  <2>2. InUse(d)
    BY <1>1, <1>3 DEF IInv, Status, OwnersInUse, Owning, Updates
  <2>3. anchor'[d] = [anchor[d] EXCEPT !.count = @ + reg[t].more, !.state = "PARTIAL"]
    BY <1>a, <1>1, <2>1 DEF ReturnCredits
  <2> QED
    BY <1>1, <1>3, <2>1, <2>2, <2>3
<1>4. CASE pc[t] = "reserve"
  <2>1. Reserve(t)
    BY <1>4, ActionAt
  <2>2. anchor[d].state # "EMPTY"
    BY <1>1, <2>1 DEF Reserve
  <2>3. InUse(d)
    BY <1>1, <1>4, <2>2, BatchFits DEF Settled, InUse
  <2>4. anchor'[d] = [anchor[d] EXCEPT
                        !.count = @ - (BatchBesides(anchor[d]) + 1),
                        !.state = IF BatchBesides(anchor[d]) > 0 THEN "ACTIVE" ELSE "FULL"]
    BY <1>a, <1>1, <2>1, <2>2 DEF Reserve
  <2> QED
    BY <1>1, <1>4, <2>1, <2>2, <2>3, <2>4
<1>5. CASE pc[t] = "free_cas"
  <2>1. FreeCas(t)
    BY <1>5, ActionAt
  <2>2. InUse(d)
    BY <1>1, <1>5 DEF IInv, Status, OwnersInUse, Owning, Frees
  <2>3. anchor[d] = reg[t].old /\ anchor'[d] = FreedAnchor(anchor[d], reg[t].block)
    BY <1>a, <1>1, <2>1 DEF FreeCas
  <2> QED
    BY <1>1, <1>5, <2>1, <2>2, <2>3
<1> QED
  BY <1>1, <1>2, <1>3, <1>4, <1>5

(* ... and to its superblock.                                              *)
LEMMA MappedMoves ==
  ASSUME IInv, NEW t \in Threads, Act(t), NEW d \in Descriptors, Settled(d)
  PROVE  /\ mapped'[d] => mapped[d]
         /\ mapped[d] /\ ~mapped'[d] => anchor[d].state = "EMPTY" /\ pc[t] = "unmap" /\ reg[t].desc = d
<1>1. mapped \in [Descriptors -> BOOLEAN]
  BY DEF IInv, Types, TypeOK
<1>2. CASE pc[t] = "unmap" /\ reg[t].desc = d
  BY <1>1, <1>2, ActionAt DEF UnmapEmpty, IInv, Status, Leaving
<1>3. CASE pc[t] = "discard" /\ reg[t].desc = d
  BY <1>3 DEF Settled, Private
<1>4. CASE mapped'[d] = mapped[d]
  BY <1>1, <1>4
<1> QED
  BY <1>2, <1>3, <1>4, MemoryStep DEF Settled

(* A descriptor is no longer in use when the last block of its superblock  *)
(* is pushed back, and then nobody else has to do with it; it never comes  *)
(* back into use.                                                          *)
LastFree(t, d) ==
  /\ FreeCas(t) /\ pc[t] = "free_cas" /\ reg[t].desc = d /\ anchor[d] = reg[t].old
  /\ anchor[d].count = NBlocks - 1 /\ anchor'[d] = FreedAnchor(anchor[d], reg[t].block)
  /\ anchor'[d].state = "EMPTY"

(* A superblock in use stays in use, unless its last block is freed.       *)
LEMMA InUseStep ==
  ASSUME IInv, NEW t \in Threads, Act(t), NEW d \in Descriptors, InUse(d)
  PROVE  InUse(d)' \/ LastFree(t, d)
<1>1. Settled(d) /\ Settled(d)'
  BY InUseSettled, SettledStep
<1>2. mapped'[d]
  BY <1>1, MappedMoves DEF InUse
<1>3. anchor \in [Descriptors -> Anchors]
  BY DEF IInv, Types, TypeOK
<1>4. CASE anchor'[d] = anchor[d]
  BY <1>1, <1>2, <1>4 DEF InUse, Settled
<1>5. CASE anchor'[d] # anchor[d]
  <2>1. CASE PopCas(t) /\ anchor[d] = reg[t].old /\ anchor'[d] = PoppedAnchor(reg[t])
    <3>1. anchor'[d].state = "FULL" \/ anchor'[d].state = anchor[d].state
      BY <2>1 DEF PoppedAnchor
    <3> QED
      BY <1>1, <1>2, <3>1 DEF InUse, Settled
  <2>2. CASE anchor'[d] = [anchor[d] EXCEPT !.count = @ + reg[t].more, !.state = "PARTIAL"]
    <3>1. anchor'[d].state = "PARTIAL"
      BY <1>3, <2>2 DEF Anchors
    <3> QED
      BY <1>1, <1>2, <3>1 DEF InUse, Settled
  <2>3. CASE anchor'[d] = [anchor[d] EXCEPT
                             !.count = @ - (BatchBesides(anchor[d]) + 1),
                             !.state = IF BatchBesides(anchor[d]) > 0 THEN "ACTIVE" ELSE "FULL"]
    <3>1. anchor'[d].state \in {"ACTIVE", "FULL"}
      BY <1>3, <2>3 DEF Anchors
    <3> QED
      BY <1>1, <1>2, <3>1 DEF InUse, Settled
  <2>4. CASE /\ FreeCas(t) /\ pc[t] = "free_cas" /\ reg[t].desc = d /\ anchor[d] = reg[t].old
             /\ anchor'[d] = FreedAnchor(anchor[d], reg[t].block)
    <3>1. CASE LastBlockOf(anchor[d])
      BY <2>4, <3>1 DEF LastFree, FreedAnchor, LastBlockOf
    <3>2. CASE ~LastBlockOf(anchor[d])
      <4>1. anchor'[d].state \in {"PARTIAL", anchor[d].state}
        BY <2>4, <3>2 DEF FreedAnchor
      <4> QED
        BY <1>1, <1>2, <4>1 DEF InUse, Settled
    <3> QED
      BY <3>1, <3>2
  <2> QED
    BY <1>1, <1>5, <2>1, <2>2, <2>3, <2>4, AnchorMoves
<1> QED
  BY <1>4, <1>5

(* When its last block is freed, no other thread owns one, no caller does, *)
(* and no heap or thread has a credit on it.                               *)
LEMMA LastFreer ==
  ASSUME IInv, NEW t \in Threads, NEW d \in Descriptors, LastFree(t, d)
  PROVE  /\ \A u \in Threads \ {t} : Owning(u) => reg[u].desc # d
         /\ \A b \in live : b[1] # d
         /\ \A h \in Heaps : active[h].desc # d
         /\ \A u \in Threads : ~(Giving(u) /\ reg[u].desc = d)
<1> DEFINE block == reg[t].block
<1>a. Types /\ Chained /\ OneOwner /\ InUse(d) /\ block \in AllocatedIn(d)
      /\ <<d, block>> \in InHand(t) /\ anchor[d].count = NBlocks - 1
  BY HeldIsAllocated DEF LastFree, IInv, Blockwise, Frees
<1> HIDE DEF block
<1>1. /\ AllocatedIn(d) = {block}
      /\ \A h \in Heaps : ActiveCredits(h, d) = 0
      /\ \A u \in Threads : Reserved(u, d) = 0
  BY <1>a, LastOwned
<1>2. ASSUME NEW b \in live, b[1] = d PROVE FALSE
  <2>1. b = <<d, b[2]>> /\ b[2] \in Blocks
    BY <1>a, <1>2 DEF Types, TypeOK
  <2>2. b[2] \in AllocatedIn(d)
    BY <1>2, <2>1 DEF AllocatedIn, Allocated
  <2>3. b = <<d, block>>
    BY <1>1, <2>1, <2>2
  <2> QED
    BY <1>2, <1>a, <2>3 DEF OneOwner
<1>3. ASSUME NEW h \in Heaps PROVE active[h].desc # d
  <2>1. ActiveCredits(h, d) = 0
    BY <1>1
  <2>2. active[h].credits \in Nat
    BY <1>a, SizeAssumption DEF Types, TypeOK, NoActive
  <2> QED
    BY <2>1, <2>2 DEF ActiveCredits
<1>4. ASSUME NEW u \in Threads, pc[u] \in Pops \union Updates PROVE reg[u].desc # d
  <2>1. Reserved(u, d) = 0
    BY <1>1
  <2>2. reg[u].more \in Nat /\ (pc[u] \in Updates => reg[u].more > 0)
    BY <1>a, SizeAssumption DEF Types, TypeOK, Regs, LocalsSet, LocalSet
  <2> QED
    BY <1>4, <2>1, <2>2 DEF Reserved, Pops, Updates
<1>5. ASSUME NEW u \in Threads \ {t}, Owning(u) PROVE reg[u].desc # d
  <2>1. CASE pc[u] \in Pops \union Updates
    BY <1>4, <2>1
  <2>2. CASE pc[u] \in Frees \union {"return"} \/ (pc[u] \in Puts /\ reg[u].then = "return")
    <3>1. SUFFICES ASSUME reg[u].desc = d PROVE FALSE
      OBVIOUS
    <3>2. <<d, reg[u].block>> \in InHand(u) /\ reg[u].block \in AllocatedIn(d)
      BY <2>2, <3>1, HeldIsAllocated
    <3>3. <<d, block>> \in InHand(u)
      BY <1>1, <3>2
    <3> QED
      BY <1>a, <3>3 DEF OneOwner
  <2> QED
    BY <1>5, <2>1, <2>2 DEF Owning
<1> QED
  BY <1>2, <1>3, <1>4, <1>5 DEF Giving

(* A superblock that has gone out of use is gone for good.                 *)
LEMMA GoneStep ==
  ASSUME IInv, NEW t \in Threads, Act(t), NEW d \in Descriptors, Settled(d), ~InUse(d)
  PROVE  Gone(d)' /\ anchor'[d] = anchor[d]
<1>1. Settled(d)' /\ anchor'[d] = anchor[d]
  BY SettledStep, AnchorMoves
<1>2. mapped'[d] => mapped[d]
  BY MappedMoves
<1> QED
  BY <1>1, <1>2 DEF Gone, InUse, Settled

(* Only a reservation takes away that there is something to give.          *)
LEMMA PartlyFreeStep ==
  ASSUME IInv, NEW t \in Threads, Act(t), NEW d \in Descriptors, PartlyFree(d),
         ~(pc[t] = "reserve" /\ reg[t].desc = d)
  PROVE  PartlyFree(d)'
<1>1. Settled(d) /\ Settled(d)'
  BY SettledStep DEF PartlyFree, Settled
<1>a. anchor \in [Descriptors -> Anchors]
  BY DEF IInv, Types, TypeOK
<1>2. CASE anchor[d].state = "EMPTY"
  <2>1. ~InUse(d)
    BY <1>2 DEF InUse
  <2>2. anchor'[d] = anchor[d]
    BY <1>1, <2>1, GoneStep
  <2> QED
    BY <1>1, <1>2, <2>2 DEF PartlyFree, Settled
<1>3. CASE anchor[d].state # "EMPTY"
  <2>1. anchor[d].state = "PARTIAL" /\ mapped[d] /\ anchor[d].count >= 1 /\ anchor[d].count \in Nat
    BY <1>a, <1>3 DEF PartlyFree, Anchors, Blocks
  <2>2. mapped'[d]
    BY <1>1, <2>1, MappedMoves
  <2>3. CASE anchor'[d] = anchor[d]
    BY <1>1, <2>1, <2>2, <2>3 DEF PartlyFree, Settled
  <2>4. CASE pc[t] = "pop_cas" /\ reg[t].desc = d /\ anchor[d] = reg[t].old
             /\ anchor'[d] = PoppedAnchor(reg[t])
    <3>1. ~reg[t].last
      BY <2>1, <2>4 DEF IInv, Status, CreditsOfActive, Giving, Pops
    <3>2. anchor'[d].state = "PARTIAL" /\ anchor'[d].count = anchor[d].count
      BY <2>1, <2>4, <3>1 DEF PoppedAnchor
    <3> QED
      BY <1>1, <2>1, <2>2, <3>2 DEF PartlyFree, Settled
  <2>5. CASE pc[t] = "return_credits" /\ reg[t].desc = d
    BY <2>1, <2>5 DEF IInv, Status, CreditsOfActive, Giving, Updates
  <2>6. CASE anchor'[d] = FreedAnchor(anchor[d], reg[t].block)
    <3>1. \/ anchor'[d].state = "EMPTY"
          \/ anchor'[d].state = "PARTIAL" /\ anchor'[d].count = anchor[d].count + 1
      BY <2>1, <2>6 DEF FreedAnchor
    <3> QED
      BY <1>1, <2>1, <2>2, <3>1 DEF PartlyFree, Settled
  <2> QED
    BY <1>1, <2>3, <2>4, <2>5, <2>6, AnchorMoves
<1> QED
  BY <1>2, <1>3

(* Where a thread carries a descriptor: in its own variable desc, or in    *)
(* the one of ListRemoveEmptyDesc.                                         *)
Carries == {"reserve", "retire", "install", "discard", "put_partial"} \union Updates
Lists == {"put_list", "list_check"}

(* The descriptor a thread carries, now ...                                *)
LEMMA CarriedIs ==
  ASSUME NEW t \in Threads
  PROVE  Carried(t) = IF pc[t] \in Carries \/ (pc[t] \in Pops /\ (reg[t].last \/ reg[t].more > 0))
                      THEN {reg[t].desc}
                      ELSE IF pc[t] \in Lists THEN {reg[t].other} ELSE {}
  BY DEF Carried, Carries, Lists, Pops, Updates

(* ... and after a step.                                                   *)
LEMMA CarriedNext ==
  ASSUME NEW t \in Threads
  PROVE  Carried(t)' = IF pc'[t] \in Carries
                          \/ (pc'[t] \in Pops /\ (reg'[t].last \/ reg'[t].more > 0))
                       THEN {reg'[t].desc}
                       ELSE IF pc'[t] \in Lists THEN {reg'[t].other} ELSE {}
  BY DEF Carried, Carries, Lists, Pops, Updates

(* The credits of a superblock come from the thread that carries it.       *)
LEMMA ActiveStays ==
  ASSUME IInv, NEW t \in Threads, Act(t), NEW d \in Descriptors, InUse(d),
         anchor[d].state = "ACTIVE", d \notin Carried(t)
  PROVE  anchor'[d].state = "ACTIVE" \/ LastFree(t, d)
<1>1. Settled(d)
  BY InUseSettled
<1>2. CASE anchor'[d] = anchor[d]
  BY <1>2
<1>3. CASE /\ pc[t] = "pop_cas" /\ reg[t].desc = d /\ anchor[d] = reg[t].old
           /\ anchor'[d] = PoppedAnchor(reg[t])
  <2>1. ~reg[t].last
    BY <1>3, CarriedIs DEF Pops
  <2> QED
    BY <1>3, <2>1 DEF PoppedAnchor
<1>4. CASE pc[t] \in {"return_credits", "reserve"} /\ reg[t].desc = d
  BY <1>4, CarriedIs DEF Carries, Updates
<1>5. CASE FreeCas(t) /\ pc[t] = "free_cas" /\ reg[t].desc = d /\ anchor[d] = reg[t].old
           /\ anchor'[d] = FreedAnchor(anchor[d], reg[t].block)
  BY <1>5 DEF FreedAnchor, LastFree, LastBlockOf
<1> QED
  BY <1>1, <1>2, <1>3, <1>4, <1>5, AnchorMoves

(* A thread that frees the last block of a superblock goes on to unmap it. *)
LEMMA LastFreeNext ==
  ASSUME IInv, NEW t \in Threads, NEW d \in Descriptors, LastFree(t, d)
  PROVE  pc'[t] = "unmap" /\ reg'[t] = [reg[t] EXCEPT !.heap = home[d]]
<1>1. pc \in [Threads -> Labels] /\ reg \in [Threads -> Regs]
  BY DEF IInv, Types, TypeOK, LocalsSet
<1>2. FreedAnchor(reg[t].old, reg[t].block).state = "EMPTY"
  BY DEF LastFree
<1> QED
  BY <1>1, <1>2 DEF LastFree, FreeCas, Goto

(* A thread comes to own a block of a superblock in use, or installs one.  *)
LEMMA OwningEntered ==
  ASSUME IInv, NEW t \in Threads, Act(t), Owning(t)', ~InstallNew(t)
  PROVE  reg'[t].desc \in Descriptors /\ InUse(reg'[t].desc)
<1>a. /\ pc \in [Threads -> Labels] /\ reg \in [Threads -> Regs] /\ OwnersInUse /\ LocalSet(t)
      /\ active \in [Heaps -> ActiveWords]
      /\ pc'[t] \in Pops \union Updates \union Frees \union {"return"}
           \/ (pc'[t] \in Puts /\ reg'[t].then = "return")
      /\ \A b \in live : b[1] \in Descriptors /\ InUse(b[1])
  BY DEF IInv, Types, TypeOK, LocalsSet, Status, ActiveWords, OwnersInUse, Owning
<1>b. pc[t] \in Pops \union Updates \union Frees \union {"return"}
         \/ (pc[t] \in Puts /\ reg[t].then = "return")
        => reg[t].desc \in Descriptors /\ InUse(reg[t].desc)
  BY <1>a DEF OwnersInUse, Owning, LocalSet, Names, Puts
<1>c. reg[t].heap \in Heaps /\ active[reg[t].heap].desc # NULL =>
         active[reg[t].heap].desc \in Descriptors /\ InUse(active[reg[t].heap].desc)
  BY <1>a DEF OwnersInUse, ActiveWords, NoActive
<1>d. NoReg.then = "idle"
  BY DEF NoReg
<1>e. pc[t] = "reserve" /\ anchor[reg[t].desc].state # "EMPTY" =>
        reg[t].desc \in Descriptors /\ InUse(reg[t].desc)
  BY BatchFits DEF IInv, Status, ListsPartial, PartlyFree, InUse
<1> HIDE DEF InUse
<1> USE <1>a DEF Goto, Regs, Pops, Updates, Frees, Puts
<1>1. CASE BeginMalloc(t)
  BY <1>1, <1>b DEF BeginMalloc
<1>2. CASE BeginFree(t)
  BY <1>2, <1>b DEF BeginFree
<1>3. CASE ReserveActive(t)
  BY <1>3, <1>c DEF ReserveActive, LocalSet, Searches
<1>4. CASE PopRead(t)
  BY <1>4, <1>b DEF PopRead
<1>5. CASE PopNext(t)
  BY <1>5, <1>b DEF PopNext
<1>6. CASE PopCas(t)
  BY <1>6, <1>b DEF PopCas
<1>7. CASE UpdateActive(t)
  BY <1>7, <1>b DEF UpdateActive
<1>8. CASE ReturnCredits(t)
  BY <1>8, <1>b DEF ReturnCredits
<1>9. CASE PutPartial(t)
  BY <1>9, <1>b, <1>d DEF PutPartial, Resume, Finish, LocalSet
<1>10. CASE PutList(t)
  BY <1>10, <1>b, <1>d DEF PutList, Resume, Finish, LocalSet
<1>11. CASE ReturnBlock(t)
  BY <1>11, <1>b, <1>d DEF ReturnBlock, Finish
<1>12. CASE GetPartial(t)
  BY <1>12, <1>b DEF GetPartial
<1>13. CASE GetList(t)
  BY <1>13, <1>b DEF GetList
<1>14. CASE Reserve(t)
  BY <1>14, <1>e DEF Reserve
<1>15. CASE Retire(t)
  BY <1>15, <1>b, <1>d DEF Retire, Resume, Finish, LocalSet
<1>16. CASE NewSuperblock(t)
  BY <1>16, <1>b DEF NewSuperblock
<1>17. CASE InstallNew(t)
  BY <1>17, <1>b DEF InstallNew
<1>18. CASE Discard(t)
  BY <1>18, <1>b DEF Discard
<1>19. CASE CheckError(t)
  BY <1>19, <1>b, <1>d DEF CheckError, Finish
<1>20. CASE FreeRead(t)
  BY <1>20, <1>b DEF FreeRead
<1>21. CASE FreeLink(t)
  BY <1>21, <1>b DEF FreeLink
<1>22. CASE FreeCas(t)
  BY <1>22, <1>b, <1>d DEF FreeCas, Finish
<1>23. CASE UnmapEmpty(t)
  BY <1>23, <1>b DEF UnmapEmpty
<1>24. CASE RemoveEmpty(t)
  BY <1>24, <1>b DEF RemoveEmpty
<1>25. CASE ListRemove(t)
  BY <1>25, <1>b, <1>d DEF ListRemove, Finish
<1>26. CASE ListCheck(t)
  BY <1>26, <1>b DEF ListCheck, LocalSet
<1> QED
  BY <1>1, <1>2, <1>3, <1>4, <1>5, <1>6, <1>7, <1>8, <1>9, <1>10, <1>11, <1>12, <1>13,
     <1>14, <1>15, <1>16, <1>17, <1>18, <1>19, <1>20, <1>21, <1>22, <1>23, <1>24, <1>25,
     <1>26 DEF Act, Step

-----------------------------------------------------------------------------
(* Owners keep their superblocks in use.                                   *)

(* What InstallNew installs is in use from then on.                        *)
LEMMA Installed ==
  ASSUME IInv, NEW t \in Threads, InstallNew(t), pc'[t] = "return"
  PROVE  /\ reg[t].desc \in Descriptors /\ reg'[t] = [reg[t] EXCEPT !.block = 0]
         /\ InUse(reg[t].desc)' /\ anchor' = anchor /\ word' = word
         /\ anchor[reg[t].desc] = NewAnchor(anchor[reg[t].desc].tag)
         /\ word[reg[t].desc] = OrganizedList
         /\ Unknown(reg[t].desc, {t}) /\ reg[t].desc \notin pool
         /\ reg[t].heap \in Heaps /\ active[reg[t].heap] = NoActive
         /\ active' = [active EXCEPT ![reg[t].heap] = ActiveWord(reg[t].desc, FirstCredits + 1)]
<1>1. /\ pc \in [Threads -> Labels] /\ reg \in [Threads -> Regs] /\ LocalSet(t) /\ Types
      /\ PrivateUnknown
  BY DEF IInv, Types, TypeOK, LocalsSet, Knowledge
<1>2. PICK d \in Descriptors : d = reg[t].desc
  BY <1>1 DEF InstallNew, LocalSet, Names
<1>3. /\ Unknown(d, {t}) /\ d \notin pool /\ mapped[d]
      /\ anchor[d] = NewAnchor(anchor[d].tag) /\ word[d] = OrganizedList
  BY <1>1, <1>2 DEF InstallNew, PrivateUnknown
<1>4. UNCHANGED <<mapped, anchor, word, pool>>
  BY DEF InstallNew, blockVars, poolVars
<1>5. reg'[t] = [reg[t] EXCEPT !.block = 0] /\ reg'[t].desc = d
  BY <1>1, <1>2 DEF InstallNew, Goto, Regs
<1>6. anchor[d].state = "ACTIVE"
  BY <1>3 DEF NewAnchor
<1>7. ~Private(d)'
  <2>1. SUFFICES ASSUME NEW u \in Threads, pc'[u] \in {"install", "discard"}, reg'[u].desc = d
                 PROVE  FALSE
    BY DEF Private
  <2>2. u # t
    BY <2>1
  <2>3. reg'[u] = reg[u]
    BY <1>1, <2>2, StepOfOne DEF OnlyThread, Act, Step
  <2> QED
    BY <1>3, <2>1, <2>2, <2>3 DEF Unknown
<1>8. InUse(d)'
  BY <1>3, <1>4, <1>6, <1>7 DEF InUse
<1>9. /\ reg[t].heap \in Heaps /\ active[reg[t].heap] = NoActive
      /\ active' = [active EXCEPT ![reg[t].heap] = ActiveWord(d, FirstCredits + 1)]
  BY <1>1, <1>2 DEF InstallNew, Goto, LocalSet, Searches
<1> QED
  BY <1>2, <1>3, <1>4, <1>5, <1>8, <1>9

(* After a step, a thread that owns a block or credits keeps its           *)
(* superblock in use, ...                                                  *)
LEMMA OwningStep ==
  ASSUME IInv, NEW t \in Threads, Act(t), NEW u \in Threads, Owning(u)'
  PROVE  InUse(reg[u].desc)'
<1>a. Types /\ OnlyThread(t) /\ OwnersInUse
  BY StepOfOne DEF IInv, Status
<1>1. CASE u # t
  <2>1. pc'[u] = pc[u] /\ reg'[u] = reg[u]
    BY <1>a, <1>1 DEF OnlyThread
  <2>2. Owning(u)
    BY <2>1 DEF Owning
  <2>3. PICK d \in Descriptors : d = reg[u].desc
    BY <1>a, <2>2 DEF Types, LocalsSet, LocalSet, Names, Owning, Puts
  <2>4. InUse(d)
    BY <1>a, <2>2, <2>3 DEF OwnersInUse
  <2>5. ~LastFree(t, d)
    BY <1>1, <2>2, <2>3, LastFreer
  <2> QED
    BY <2>1, <2>3, <2>4, <2>5, InUseStep
<1>2. CASE u = t /\ ~InstallNew(t)
  <2>1. PICK d \in Descriptors : d = reg'[t].desc /\ InUse(d)
    BY <1>2, OwningEntered
  <2>2. ~LastFree(t, d)
    BY <1>2, LastFreeNext DEF Owning, Pops, Updates, Frees, Puts
  <2> QED
    BY <1>2, <2>1, <2>2, InUseStep
<1>3. CASE u = t /\ InstallNew(t)
  <2>1. pc'[t] = "return"
    BY <1>a, <1>3 DEF InstallNew, Goto, Types, LocalsSet, Owning, Pops, Updates, Frees, Puts
  <2>2. PICK d \in Descriptors : d = reg[t].desc
    BY <1>3, <2>1, Installed
  <2>3. InUse(d)' /\ reg'[t].desc = d
    <3>1. reg \in [Threads -> Regs]
      BY <1>a DEF Types, TypeOK
    <3> QED
      BY <1>3, <2>1, <2>2, <3>1, Installed DEF Regs
  <2> QED
    BY <1>3, <2>3
<1> QED
  BY <1>1, <1>2, <1>3

(* ... a caller does, ...                                                  *)
LEMMA LiveStep ==
  ASSUME IInv, NEW t \in Threads, Act(t), NEW b \in live'
  PROVE  InUse(b[1])'
<1>a. Types /\ OwnersInUse /\ live \in SUBSET (Descriptors \X Blocks)
  BY DEF IInv, Status, Types, TypeOK
<1>1. CASE b \in live
  <2>1. PICK d \in Descriptors : d = b[1]
    BY <1>a, <1>1
  <2>2. InUse(d) /\ ~LastFree(t, d)
    BY <1>a, <1>1, <2>1, LastFreer DEF OwnersInUse
  <2> QED
    BY <2>1, <2>2, InUseStep
<1>2. CASE b \notin live
  <2>1. ReturnBlock(t) /\ b = <<reg[t].desc, reg[t].block>>
<3>1. CASE BeginMalloc(t)
      BY <3>1, <1>2 DEF BeginMalloc
<3>2. CASE BeginFree(t)
      BY <3>2, <1>2 DEF BeginFree
<3>3. CASE ReserveActive(t)
      BY <3>3, <1>2 DEF ReserveActive
<3>4. CASE PopRead(t)
      BY <3>4, <1>2 DEF PopRead
<3>5. CASE PopNext(t)
      BY <3>5, <1>2 DEF PopNext
<3>6. CASE PopCas(t)
      BY <3>6, <1>2 DEF PopCas
<3>7. CASE UpdateActive(t)
      BY <3>7, <1>2 DEF UpdateActive
<3>8. CASE ReturnCredits(t)
      BY <3>8, <1>2 DEF ReturnCredits
<3>9. CASE PutPartial(t)
      BY <3>9, <1>2 DEF PutPartial
<3>10. CASE PutList(t)
      BY <3>10, <1>2 DEF PutList
<3>11. CASE ReturnBlock(t)
      BY <3>11, <1>2 DEF ReturnBlock
<3>12. CASE GetPartial(t)
      BY <3>12, <1>2 DEF GetPartial
<3>13. CASE GetList(t)
      BY <3>13, <1>2 DEF GetList
<3>14. CASE Reserve(t)
      BY <3>14, <1>2 DEF Reserve
<3>15. CASE Retire(t)
      BY <3>15, <1>2 DEF Retire
<3>16. CASE NewSuperblock(t)
      BY <3>16, <1>2 DEF NewSuperblock
<3>17. CASE InstallNew(t)
      BY <3>17, <1>2 DEF InstallNew
<3>18. CASE Discard(t)
      BY <3>18, <1>2 DEF Discard
<3>19. CASE CheckError(t)
      BY <3>19, <1>2 DEF CheckError
<3>20. CASE FreeRead(t)
      BY <3>20, <1>2 DEF FreeRead
<3>21. CASE FreeLink(t)
      BY <3>21, <1>2 DEF FreeLink
<3>22. CASE FreeCas(t)
      BY <3>22, <1>2 DEF FreeCas
<3>23. CASE UnmapEmpty(t)
      BY <3>23, <1>2 DEF UnmapEmpty
<3>24. CASE RemoveEmpty(t)
      BY <3>24, <1>2 DEF RemoveEmpty
<3>25. CASE ListRemove(t)
      BY <3>25, <1>2 DEF ListRemove
<3>26. CASE ListCheck(t)
      BY <3>26, <1>2 DEF ListCheck
<3> QED
      BY <3>1, <3>2, <3>3, <3>4, <3>5, <3>6, <3>7, <3>8, <3>9, <3>10, <3>11, <3>12, <3>13,
         <3>14, <3>15, <3>16, <3>17, <3>18, <3>19, <3>20, <3>21, <3>22, <3>23, <3>24, <3>25,
         <3>26 DEF Act, Step
  <2>2. PICK d \in Descriptors : d = b[1] /\ InUse(d)
    BY <1>a, <2>1, HeldIsAllocated DEF ReturnBlock
  <2>3. ~LastFree(t, d)
    BY <2>1 DEF LastFree, ReturnBlock
  <2> QED
    BY <2>2, <2>3, InUseStep
<1> QED
  BY <1>1, <1>2

(* Which actions write what.                                               *)
LEMMA WhoWrites ==
  ASSUME NEW t \in Threads, Act(t)
  PROVE  /\ active' # active => ReserveActive(t) \/ UpdateActive(t) \/ InstallNew(t)
         /\ partial' # partial => PutPartial(t) \/ GetPartial(t) \/ RemoveEmpty(t)
         /\ queue' # queue => PutList(t) \/ GetList(t) \/ ListRemove(t)
         /\ retired' # retired => Retire(t)
         /\ live' # live => BeginFree(t) \/ ReturnBlock(t)
<1> USE DEF heapVars, poolVars
<1>1. CASE BeginMalloc(t)
  BY <1>1 DEF BeginMalloc
<1>2. CASE BeginFree(t)
  BY <1>2 DEF BeginFree
<1>3. CASE ReserveActive(t)
  BY <1>3 DEF ReserveActive
<1>4. CASE PopRead(t)
  BY <1>4 DEF PopRead
<1>5. CASE PopNext(t)
  BY <1>5 DEF PopNext
<1>6. CASE PopCas(t)
  BY <1>6 DEF PopCas
<1>7. CASE UpdateActive(t)
  BY <1>7 DEF UpdateActive
<1>8. CASE ReturnCredits(t)
  BY <1>8 DEF ReturnCredits
<1>9. CASE PutPartial(t)
  BY <1>9 DEF PutPartial
<1>10. CASE PutList(t)
  BY <1>10 DEF PutList
<1>11. CASE ReturnBlock(t)
  BY <1>11 DEF ReturnBlock
<1>12. CASE GetPartial(t)
  BY <1>12 DEF GetPartial
<1>13. CASE GetList(t)
  BY <1>13 DEF GetList
<1>14. CASE Reserve(t)
  BY <1>14 DEF Reserve
<1>15. CASE Retire(t)
  BY <1>15 DEF Retire
<1>16. CASE NewSuperblock(t)
  BY <1>16 DEF NewSuperblock
<1>17. CASE InstallNew(t)
  BY <1>17 DEF InstallNew
<1>18. CASE Discard(t)
  BY <1>18 DEF Discard
<1>19. CASE CheckError(t)
  BY <1>19 DEF CheckError
<1>20. CASE FreeRead(t)
  BY <1>20 DEF FreeRead
<1>21. CASE FreeLink(t)
  BY <1>21 DEF FreeLink
<1>22. CASE FreeCas(t)
  BY <1>22 DEF FreeCas
<1>23. CASE UnmapEmpty(t)
  BY <1>23 DEF UnmapEmpty
<1>24. CASE RemoveEmpty(t)
  BY <1>24 DEF RemoveEmpty
<1>25. CASE ListRemove(t)
  BY <1>25 DEF ListRemove
<1>26. CASE ListCheck(t)
  BY <1>26 DEF ListCheck
<1> QED
  BY <1>1, <1>2, <1>3, <1>4, <1>5, <1>6, <1>7, <1>8, <1>9, <1>10, <1>11, <1>12, <1>13,
     <1>14, <1>15, <1>16, <1>17, <1>18, <1>19, <1>20, <1>21, <1>22, <1>23, <1>24, <1>25,
     <1>26 DEF Act, Step

(* The active superblock of a heap stays, or goes with its last credit, or *)
(* a thread puts back the one it carries.                                  *)
LEMMA ActiveMoves ==
  ASSUME IInv, NEW t \in Threads, Act(t), NEW h \in Heaps, active'[h].desc \in Descriptors
  PROVE  \/ active'[h].desc = active[h].desc /\ (active'[h] # active[h] => ReserveActive(t))
         \/ /\ active[h] = NoActive /\ active'[h].desc = reg[t].desc /\ h = reg[t].heap
            /\ pc'[t] = "return" /\ reg'[t].desc = reg[t].desc
            /\ \/ UpdateActive(t) /\ active'[h] = ActiveWord(reg[t].desc, reg[t].more)
               \/ InstallNew(t) /\ active'[h] = ActiveWord(reg[t].desc, FirstCredits + 1)
<1>a. /\ pc \in [Threads -> Labels] /\ reg \in [Threads -> Regs] /\ active \in [Heaps -> ActiveWords]
  BY DEF IInv, Types, TypeOK, LocalsSet, ActiveWords
<1>1. CASE active'[h] = active[h]
  BY <1>1
<1>2. CASE active'[h] # active[h] /\ ReserveActive(t)
  <2>1. h = reg[t].heap /\ active'[h] = Spend(active[h])
    BY <1>a, <1>2 DEF ReserveActive
  <2>2. NoActive.desc \notin Descriptors
    BY NullAssumption DEF NoActive
  <2>3. Spend(active[h]).desc = active[h].desc
    BY <1>a, <2>1, <2>2 DEF Spend, ActiveWords
  <2> QED
    BY <1>2, <2>1, <2>3
<1>3. CASE active'[h] # active[h] /\ UpdateActive(t)
  BY <1>a, <1>3 DEF UpdateActive, ActiveWord, Goto
<1>4. CASE active'[h] # active[h] /\ InstallNew(t)
  BY <1>a, <1>4 DEF InstallNew, ActiveWord, Goto, Regs
<1> QED
  BY <1>1, <1>2, <1>3, <1>4, WhoWrites

(* ... a heap does, and its superblock is active.                          *)
LEMMA ActiveInUseStep ==
  ASSUME IInv, NEW t \in Threads, Act(t), NEW h \in Heaps, active'[h].desc \in Descriptors
  PROVE  InUse(active[h].desc)' /\ anchor'[active'[h].desc].state = "ACTIVE"
<1>a. Types /\ OwnersInUse /\ CreditsOfActive /\ ActiveApart
  BY DEF IInv, Status, Apart
<1>1. PICK d \in Descriptors : d = active'[h].desc
  OBVIOUS
<1>2. CASE active[h].desc = d
  <2>1. InUse(d) /\ anchor[d].state = "ACTIVE" /\ d \notin Carried(t)
    BY <1>a, <1>2 DEF OwnersInUse, ActiveApart
  <2>2. ~LastFree(t, d)
    BY <1>2, LastFreer
  <2> QED
    BY <1>1, <2>1, <2>2, InUseStep, ActiveStays
<1>3. CASE UpdateActive(t) /\ reg[t].desc = d
  <2>1. InUse(d) /\ anchor[d].state = "ACTIVE"
    BY <1>a, <1>3 DEF UpdateActive, OwnersInUse, CreditsOfActive, Owning, Giving, Updates
  <2>2. anchor' = anchor /\ ~LastFree(t, d)
    BY <1>3 DEF UpdateActive, blockVars, LastFree
  <2> QED
    BY <1>1, <2>1, <2>2, InUseStep
<1>4. CASE InstallNew(t) /\ reg[t].desc = d /\ pc'[t] = "return" /\ reg'[t].desc = reg[t].desc
  <2>1. InUse(d)' /\ anchor'[d].state = "ACTIVE"
    <3>1. InUse(reg[t].desc)' /\ anchor'[d] = NewAnchor(anchor[d].tag)
      BY <1>4, Installed
    <3>2. NewAnchor(anchor[d].tag).state = "ACTIVE"
      BY DEF NewAnchor
    <3> QED
      BY <1>4, <3>1, <3>2
  <2> QED
    BY <1>1, <2>1
<1> QED
  BY <1>1, <1>2, <1>3, <1>4, ActiveMoves

(* So the owners keep their superblocks in use after every step.           *)
LEMMA OwnersStep ==
  ASSUME IInv, NEW t \in Threads, Act(t)
  PROVE  OwnersInUse'
  BY OwningStep, LiveStep, ActiveInUseStep DEF OwnersInUse

(* Credits are taken from a superblock that is active, or make it so.      *)
LEMMA GivingEntered ==
  ASSUME IInv, NEW t \in Threads, Act(t), Giving(t)'
  PROVE  anchor'[reg'[t].desc].state = "ACTIVE"
<1>a. /\ pc \in [Threads -> Labels] /\ reg \in [Threads -> Regs] /\ LocalSet(t)
      /\ active \in [Heaps -> ActiveWords] /\ anchor \in [Descriptors -> Anchors]
      /\ pc'[t] \in Updates \/ (pc'[t] \in Pops /\ (reg'[t].last \/ reg'[t].more > 0))
      /\ pc[t] \in Updates \/ (pc[t] \in Pops /\ (reg[t].last \/ reg[t].more > 0)) =>
           anchor[reg[t].desc].state = "ACTIVE"
  BY DEF IInv, Types, TypeOK, LocalsSet, Status, ActiveWords, CreditsOfActive, Giving
<1>b. pc'[t] \in Updates \union Pops
  BY <1>a
<1>c. NoReg.then = "idle" /\ (pc[t] = "retire" => reg[t].then \in {"idle", "get_partial", "check_error"})
      /\ (pc[t] \in Puts => reg[t].then \in {"idle", "return"})
  BY <1>a DEF NoReg, LocalSet
<1> USE DEF Goto, Pops, Updates, Puts
<1>1. CASE BeginMalloc(t)
  BY <1>1, <1>a, <1>b, <1>c DEF BeginMalloc
<1>2. CASE BeginFree(t)
  BY <1>2, <1>a, <1>b, <1>c DEF BeginFree
<1>3. CASE ReserveActive(t)
  <2>1. reg[t].heap \in Heaps
    BY <1>3, <1>a DEF ReserveActive, LocalSet, Searches
  <2>2. active[reg[t].heap].desc # NULL => anchor[active[reg[t].heap].desc].state = "ACTIVE"
    BY <1>a, <2>1 DEF ActiveWords, NoActive, IInv, Status, OwnersInUse
  <2>3. /\ active[reg[t].heap].desc # NULL
        /\ reg' = [reg EXCEPT ![t].desc = active[reg[t].heap].desc,
                              ![t].last = (active[reg[t].heap].credits = 0), ![t].more = 0]
    BY <1>3, <1>a, <1>b DEF ReserveActive
  <2>4. reg'[t].desc = active[reg[t].heap].desc
    BY <1>a, <2>3 DEF Regs
  <2>5. anchor' = anchor
    BY <1>3 DEF ReserveActive, blockVars
  <2> QED
    BY <2>2, <2>3, <2>4, <2>5
<1>4. CASE PopRead(t)
  <2>1. /\ reg'[t].desc = reg[t].desc /\ reg'[t].last = reg[t].last /\ reg'[t].more = reg[t].more
    BY <1>4, <1>a DEF PopRead, Regs
  <2> QED
    BY <1>4, <1>a, <2>1 DEF PopRead, blockVars
<1>5. CASE PopNext(t)
  <2>1. /\ reg'[t].desc = reg[t].desc /\ reg'[t].last = reg[t].last /\ reg'[t].more = reg[t].more
    BY <1>5, <1>a DEF PopNext, Regs
  <2> QED
    BY <1>5, <1>a, <2>1 DEF PopNext, blockVars
<1>6. CASE PopCas(t)
  <2>1. CASE Goto(t, "pop_read") /\ UNCHANGED <<anchor, reg>>
    BY <1>6, <1>a, <2>1 DEF PopCas
  <2>2. CASE /\ anchor[reg[t].desc] = reg[t].old
             /\ anchor' = [anchor EXCEPT ![reg[t].desc] = PoppedAnchor(reg[t])]
             /\ reg' = [reg EXCEPT ![t].more = CreditsTaken(reg[t])]
             /\ Goto(t, IF CreditsTaken(reg[t]) > 0 THEN "update_active" ELSE "return")
    <3>1. reg[t].desc \in Descriptors /\ (reg[t].last => reg[t].more = 0)
      BY <1>6, <1>a DEF PopCas, LocalSet, Names
    <3>2. CreditsTaken(reg[t]) > 0
      BY <1>a, <1>b, <2>2
    <3>3. reg[t].last \/ reg[t].more > 0
      BY <3>2 DEF CreditsTaken
    <3>4. reg[t].old.state = "ACTIVE"
      BY <1>6, <1>a, <2>2, <3>3 DEF PopCas
    <3>5. ~(reg[t].last /\ reg[t].old.count = 0)
      BY <3>1, <3>2 DEF CreditsTaken
    <3>6. PoppedAnchor(reg[t]).state = "ACTIVE"
      BY <3>4, <3>5 DEF PoppedAnchor
    <3>7. reg'[t].desc = reg[t].desc
      BY <1>a, <2>2 DEF Regs
    <3> QED
      BY <1>a, <2>2, <3>1, <3>6, <3>7
  <2> QED
    BY <1>6, <2>1, <2>2 DEF PopCas
<1>7. CASE UpdateActive(t)
  BY <1>7, <1>a DEF UpdateActive, blockVars
<1>8. CASE ReturnCredits(t)
  BY <1>8, <1>a, <1>b, <1>c DEF ReturnCredits
<1>9. CASE PutPartial(t)
  BY <1>9, <1>a, <1>b, <1>c DEF PutPartial, Resume, Finish
<1>10. CASE PutList(t)
  BY <1>10, <1>a, <1>b, <1>c DEF PutList, Resume, Finish
<1>11. CASE ReturnBlock(t)
  BY <1>11, <1>a, <1>b, <1>c DEF ReturnBlock, Finish
<1>12. CASE GetPartial(t)
  BY <1>12, <1>a, <1>b, <1>c DEF GetPartial
<1>13. CASE GetList(t)
  BY <1>13, <1>a, <1>b, <1>c DEF GetList
<1>14. CASE Reserve(t)
  <2>1. /\ anchor[reg[t].desc].state # "EMPTY" /\ pc[t] = "reserve"
        /\ reg' = [reg EXCEPT ![t].last = FALSE, ![t].more = BatchBesides(anchor[reg[t].desc])]
        /\ anchor' = [anchor EXCEPT
             ![reg[t].desc].count = @ - (BatchBesides(anchor[reg[t].desc]) + 1),
             ![reg[t].desc].state = IF BatchBesides(anchor[reg[t].desc]) > 0 THEN "ACTIVE" ELSE "FULL"]
        /\ pc'[t] = "pop_read"
    BY <1>14, <1>a, <1>b DEF Reserve
  <2>2. /\ reg'[t].desc = reg[t].desc /\ reg'[t].last = FALSE
        /\ reg'[t].more = BatchBesides(anchor[reg[t].desc])
    BY <1>a, <2>1 DEF Regs
  <2>3. BatchBesides(anchor[reg[t].desc]) > 0 /\ reg[t].desc \in Descriptors
    BY <1>a, <2>1, <2>2, BatchFits
  <2> QED
    BY <1>a, <2>1, <2>2, <2>3 DEF Anchors
<1>15. CASE Retire(t)
  BY <1>15, <1>a, <1>b, <1>c DEF Retire, Resume, Finish
<1>16. CASE NewSuperblock(t)
  BY <1>16, <1>a, <1>b, <1>c DEF NewSuperblock
<1>17. CASE InstallNew(t)
  BY <1>17, <1>a, <1>b, <1>c DEF InstallNew
<1>18. CASE Discard(t)
  BY <1>18, <1>a, <1>b, <1>c DEF Discard
<1>19. CASE CheckError(t)
  BY <1>19, <1>a, <1>b, <1>c DEF CheckError, Finish
<1>20. CASE FreeRead(t)
  BY <1>20, <1>a, <1>b, <1>c DEF FreeRead
<1>21. CASE FreeLink(t)
  BY <1>21, <1>a, <1>b, <1>c DEF FreeLink
<1>22. CASE FreeCas(t)
  BY <1>22, <1>a, <1>b, <1>c DEF FreeCas, Finish
<1>23. CASE UnmapEmpty(t)
  BY <1>23, <1>a, <1>b, <1>c DEF UnmapEmpty
<1>24. CASE RemoveEmpty(t)
  BY <1>24, <1>a, <1>b, <1>c DEF RemoveEmpty
<1>25. CASE ListRemove(t)
  BY <1>25, <1>a, <1>b, <1>c DEF ListRemove, Finish
<1>26. CASE ListCheck(t)
  BY <1>26, <1>a, <1>b, <1>c DEF ListCheck
<1> QED
  BY <1>1, <1>2, <1>3, <1>4, <1>5, <1>6, <1>7, <1>8, <1>9, <1>10, <1>11, <1>12, <1>13,
     <1>14, <1>15, <1>16, <1>17, <1>18, <1>19, <1>20, <1>21, <1>22, <1>23, <1>24, <1>25,
     <1>26 DEF Act, Step

(* The superblock whose credits a thread carries is active after every     *)
(* step.                                                                   *)
LEMMA CreditsStep ==
  ASSUME IInv, NEW t \in Threads, Act(t)
  PROVE  CreditsOfActive'
<1> SUFFICES ASSUME NEW u \in Threads, Giving(u)' PROVE anchor'[reg'[u].desc].state = "ACTIVE"
  BY DEF CreditsOfActive
<1>a. Types /\ OnlyThread(t) /\ OwnersInUse /\ CreditsOfActive /\ CarriedApart
  BY StepOfOne DEF IInv, Status, Apart
<1>1. CASE u = t
  BY <1>1, GivingEntered
<1>2. CASE u # t
  <2>1. pc'[u] = pc[u] /\ reg'[u] = reg[u]
    BY <1>a, <1>2 DEF OnlyThread
  <2>2. Giving(u) /\ Owning(u)
    BY <2>1 DEF Giving, Owning
  <2>3. PICK d \in Descriptors : d = reg[u].desc
    BY <1>a, <2>2 DEF Types, LocalsSet, LocalSet, Names, Owning, Giving
  <2>4. InUse(d) /\ anchor[d].state = "ACTIVE"
    BY <1>a, <2>2, <2>3 DEF OwnersInUse, CreditsOfActive
  <2>5. Carried(u) = {d}
    BY <2>2, <2>3, CarriedIs DEF Giving, Carries
  <2>6. d \notin Carried(t)
    BY <1>a, <1>2, <2>5 DEF CarriedApart
  <2>7. ~LastFree(t, d)
    BY <2>2, <2>3, LastFreer
  <2> QED
    BY <2>1, <2>3, <2>4, <2>6, <2>7, ActiveStays
<1> QED
  BY <1>1, <1>2

-----------------------------------------------------------------------------
(* Full, partial and empty superblocks.                                    *)

(* A full superblock has no block left that its anchor counts, after every *)
(* step.                                                                   *)
LEMMA FullStep ==
  ASSUME IInv, NEW t \in Threads, Act(t)
  PROVE  FullHasNone'
<1> SUFFICES ASSUME NEW d \in Descriptors, InUse(d)', anchor'[d].state = "FULL"
             PROVE  anchor'[d].count = 0
  BY DEF FullHasNone
<1>a. Types /\ Knowledge /\ FullHasNone /\ anchor \in [Descriptors -> Anchors]
  BY DEF IInv, Status, Types, TypeOK
<1>b. \A tag : NewAnchor(tag).state = "ACTIVE"
  BY DEF NewAnchor
<1>1. CASE d \in pool
  <2>1. CASE d \in pool'
    BY <2>1, PoolUnknownStep DEF PoolUnknown, InUse
  <2>2. CASE d \notin pool'
    <3>1. NewSuperblock(t) /\ ~mapped[d]
      BY <1>1, <1>a, <2>2, PoolStep DEF Knowledge, PoolUnknown
    <3>2. anchor'[d] = NewAnchor(anchor[d].tag) \/ mapped' = mapped
      BY <1>1, <2>2, <3>1, NewStep DEF blockVars
    <3> QED
      BY <1>b, <3>1, <3>2 DEF InUse
  <2> QED
    BY <2>1, <2>2
<1>2. CASE Private(d)
  <2>1. PICK u \in Threads : pc[u] \in {"install", "discard"} /\ reg[u].desc = d
    BY <1>2 DEF Private
  <2>2. /\ Unknown(d, {u}) /\ d \notin pool
        /\ anchor[d] = NewAnchor(anchor[d].tag)
    BY <1>a, <2>1 DEF Knowledge, PrivateUnknown
  <2>3. ~(pc[t] \in {"pop_cas", "return_credits", "reserve", "free_cas"} /\ reg[t].desc = d)
    BY <2>1, <2>2 DEF Unknown
  <2>4. anchor'[d] = anchor[d]
    BY <2>2, <2>3, MemoryStep
  <2> QED
    BY <1>b, <2>2, <2>4
<1>3. CASE Settled(d)
  <2>1. mapped[d]
    BY <1>3, MappedMoves DEF InUse
  <2>2. CASE anchor'[d] = anchor[d]
    <3>1. InUse(d)
      BY <1>3, <2>1, <2>2 DEF InUse, Settled
    <3> QED
      BY <1>a, <2>2, <3>1 DEF FullHasNone
  <2>3. CASE anchor[d] = reg[t].old /\ anchor'[d] = PoppedAnchor(reg[t]) /\ InUse(d)
             /\ pc[t] = "pop_cas"
    <3>1. anchor'[d].state = (IF reg[t].last /\ anchor[d].count = 0 THEN "FULL" ELSE anchor[d].state)
          /\ anchor'[d].count = (IF reg[t].last THEN anchor[d].count - CreditsTaken(reg[t]) ELSE anchor[d].count)
      BY <2>3 DEF PoppedAnchor
    <3>2. anchor[d].count = 0
      BY <1>a, <2>3, <3>1 DEF FullHasNone
    <3>3. reg[t].last => CreditsTaken(reg[t]) = 0
      BY <1>a, <2>3, <3>2 DEF CreditsTaken, Types, LocalsSet, LocalSet, Pops
    <3> QED
      BY <3>1, <3>2, <3>3
  <2>4. CASE anchor'[d] = [anchor[d] EXCEPT !.count = @ + reg[t].more, !.state = "PARTIAL"]
    BY <1>a, <2>4 DEF Anchors
  <2>5. CASE /\ Reserve(t) /\ pc[t] = "reserve" /\ anchor[d].state # "EMPTY" /\ reg[t].desc = d
             /\ anchor'[d] = [anchor[d] EXCEPT
                                !.count = @ - (BatchBesides(anchor[d]) + 1),
                                !.state = IF BatchBesides(anchor[d]) > 0 THEN "ACTIVE" ELSE "FULL"]
    <3>1. ~(BatchBesides(anchor[d]) > 0)
      BY <1>a, <2>5 DEF Anchors
    <3>2. BatchBesides(anchor[d]) = 0 /\ anchor[d].count = 1
      BY <2>5, <3>1, BatchFits
    <3> QED
      BY <1>a, <2>5, <3>2 DEF Anchors
  <2>6. CASE anchor'[d] = FreedAnchor(anchor[d], reg[t].block)
    BY <2>6 DEF FreedAnchor
  <2> QED
    BY <1>3, <2>2, <2>3, <2>4, <2>5, <2>6, AnchorMoves
<1> QED
  BY <1>1, <1>2, <1>3 DEF Settled

(* What a thread is about to reserve from, or has taken out of the list or *)
(* the slot.                                                               *)
LEMMA ListsEntered ==
  ASSUME IInv, NEW t \in Threads, Act(t), pc'[t] \in {"reserve", "put_partial"} \union Lists
  PROVE  \/ FreeCas(t) /\ pc'[t] = "put_partial"
         \/ ReturnCredits(t) /\ pc'[t] = "put_partial"
         \/ /\ pc'[t] = "reserve" /\ pc[t] # "reserve"
            /\ PartlyFree(reg'[t].desc) /\ reg'[t].desc \in Descriptors
         \/ /\ pc'[t] \in Lists /\ pc[t] # "reserve"
            /\ PartlyFree(reg'[t].other) /\ reg'[t].other \in Descriptors
<1>a. /\ pc \in [Threads -> Labels] /\ reg \in [Threads -> Regs] /\ LocalSet(t) /\ Types
      /\ partial \in [Heaps -> Descriptors \union {NULL}]
      /\ (pc[t] = "retire" => reg[t].then \in {"idle", "get_partial", "check_error"})
      /\ (pc[t] \in Puts => reg[t].then \in {"idle", "return"})
  BY DEF IInv, Types, TypeOK, LocalsSet, LocalSet
<1>b. /\ \A h \in Heaps : partial[h] # NULL => PartlyFree(partial[h])
      /\ queue # <<>> => PartlyFree(Head(queue)) /\ Head(queue) \in Descriptors
      /\ pc[t] \in {"reserve", "put_partial"} => PartlyFree(reg[t].desc)
      /\ pc[t] \in {"put_list", "list_check"} => PartlyFree(reg[t].other)
  BY <1>a, QueueHead DEF IInv, Status, ListsPartial
<1>c. pc[t] = "put_partial" => home[reg[t].desc] \in Heaps
  BY HasHome
<1> HIDE DEF Types, PartlyFree
<1> USE <1>a DEF Goto, Lists, Puts
<1>1. CASE BeginMalloc(t)
  BY <1>1 DEF BeginMalloc
<1>2. CASE BeginFree(t)
  BY <1>2 DEF BeginFree
<1>3. CASE ReserveActive(t)
  BY <1>3 DEF ReserveActive
<1>4. CASE PopRead(t)
  BY <1>4 DEF PopRead
<1>5. CASE PopNext(t)
  BY <1>5 DEF PopNext
<1>6. CASE PopCas(t)
  BY <1>6 DEF PopCas
<1>7. CASE UpdateActive(t)
  BY <1>7 DEF UpdateActive
<1>8. CASE ReturnCredits(t)
  BY <1>8 DEF ReturnCredits
<1>9. CASE PutPartial(t)
  BY <1>9, <1>b, <1>c DEF PutPartial, Resume, Finish, Regs
<1>10. CASE PutList(t)
  BY <1>10 DEF PutList, Resume, Finish
<1>11. CASE ReturnBlock(t)
  BY <1>11 DEF ReturnBlock, Finish
<1>12. CASE GetPartial(t)
  BY <1>12, <1>b DEF GetPartial, LocalSet, Searches, Regs
<1>13. CASE GetList(t)
  BY <1>13, <1>b DEF GetList, Regs, Dequeued, DequeuedNothing
<1>14. CASE Reserve(t)
  BY <1>14 DEF Reserve
<1>15. CASE Retire(t)
  BY <1>15 DEF Retire, Resume, Finish
<1>16. CASE NewSuperblock(t)
  BY <1>16 DEF NewSuperblock
<1>17. CASE InstallNew(t)
  BY <1>17 DEF InstallNew
<1>18. CASE Discard(t)
  BY <1>18 DEF Discard
<1>19. CASE CheckError(t)
  BY <1>19 DEF CheckError, Finish
<1>20. CASE FreeRead(t)
  BY <1>20 DEF FreeRead
<1>21. CASE FreeLink(t)
  BY <1>21 DEF FreeLink
<1>22. CASE FreeCas(t)
  BY <1>22 DEF FreeCas, Finish
<1>23. CASE UnmapEmpty(t)
  BY <1>23 DEF UnmapEmpty
<1>24. CASE RemoveEmpty(t)
  BY <1>24 DEF RemoveEmpty
<1>25. CASE ListRemove(t)
  BY <1>25, <1>b DEF ListRemove, Finish, Regs, Dequeued, DequeuedNothing
<1>26. CASE ListCheck(t)
  BY <1>26, <1>b DEF ListCheck, LocalSet
<1> QED
  BY <1>1, <1>2, <1>3, <1>4, <1>5, <1>6, <1>7, <1>8, <1>9, <1>10, <1>11, <1>12, <1>13,
     <1>14, <1>15, <1>16, <1>17, <1>18, <1>19, <1>20, <1>21, <1>22, <1>23, <1>24, <1>25,
     <1>26 DEF Act, Step

(* A superblock made partial has a block to give.                          *)
LEMMA MadePartial ==
  ASSUME IInv, NEW t \in Threads, FreeCas(t) \/ ReturnCredits(t), pc'[t] = "put_partial"
  PROVE  reg'[t].desc = reg[t].desc /\ reg[t].desc \in Descriptors /\ PartlyFree(reg[t].desc)'
<1>a. /\ pc \in [Threads -> Labels] /\ reg \in [Threads -> Regs] /\ Types /\ Act(t)
      /\ anchor \in [Descriptors -> Anchors] /\ LocalSet(t)
  BY DEF IInv, Types, TypeOK, LocalsSet, Act, Step
<1>b. reg[t].desc \in Descriptors /\ InUse(reg[t].desc)
  BY HeldIsAllocated DEF FreeCas, ReturnCredits, Updates, Frees
<1>1. PICK d \in Descriptors : d = reg[t].desc /\ InUse(d)
  BY <1>b
<1>2. Settled(d) /\ Settled(d)'
  BY <1>1, <1>a, InUseSettled, SettledStep
<1>3. mapped' = mapped /\ mapped[d]
  BY <1>1 DEF FreeCas, ReturnCredits, InUse
<1>4. anchor[d].count \in Nat
  BY <1>a DEF Anchors, Blocks
<1>5. CASE FreeCas(t)
  <2>1. /\ anchor[d] = reg[t].old /\ anchor'[d] = FreedAnchor(anchor[d], reg[t].block)
        /\ anchor'[d].state # "EMPTY" /\ anchor[d].state = "FULL" /\ reg' = reg
    BY <1>1, <1>5, <1>a DEF FreeCas, Goto, Finish
  <2>2. anchor'[d].state = "PARTIAL" /\ anchor'[d].count = anchor[d].count + 1
    BY <2>1 DEF FreedAnchor
  <2>3. PartlyFree(d)'
    BY <1>2, <1>3, <1>4, <2>2 DEF PartlyFree, Settled
  <2>4. reg'[t].desc = d
    BY <1>1, <2>1
  <2> QED
    BY <1>1, <2>3, <2>4
<1>6. CASE ReturnCredits(t)
  <2>1. reg'[t].desc = d
    BY <1>1, <1>6, <1>a DEF ReturnCredits, Regs
  <2>2. anchor'[d] = [anchor[d] EXCEPT !.count = @ + reg[t].more, !.state = "PARTIAL"]
    BY <1>1, <1>6, <1>a DEF ReturnCredits
  <2>3. reg[t].more \in Nat /\ reg[t].more > 0
    BY <1>6, <1>a, SizeAssumption DEF ReturnCredits, LocalSet, Updates, Regs
  <2>4. anchor'[d].state = "PARTIAL" /\ anchor'[d].count = anchor[d].count + reg[t].more
    BY <1>a, <2>2 DEF Anchors
  <2>5. PartlyFree(d)'
    BY <1>2, <1>3, <1>4, <2>3, <2>4 DEF PartlyFree, Settled
  <2> QED
    BY <1>1, <2>1, <2>5
<1> QED
  BY <1>5, <1>6

(* Slot by slot, place by place of the list.                               *)
LEMMA SlotMoves ==
  ASSUME IInv, NEW t \in Threads, Act(t), NEW h \in Heaps, partial'[h] # NULL
  PROVE  \/ partial'[h] = partial[h]
         \/ PutPartial(t) /\ partial'[h] = reg[t].desc /\ h = home[reg[t].desc]
<1>1. partial \in [Heaps -> Descriptors \union {NULL}]
  BY DEF IInv, Types, TypeOK
<1> QED
  BY <1>1, WhoWrites DEF PutPartial, GetPartial, RemoveEmpty

(* What is on the list after a step was there before, or has just been put *)
(* there.                                                                  *)
LEMMA QueueMoves ==
  ASSUME IInv, NEW t \in Threads, Act(t), NEW i \in 1 .. Len(queue')
  PROVE  \/ Queued(queue'[i])
         \/ PutList(t) /\ queue'[i] = reg[t].other /\ reg[t].other \in Descriptors
<1>a. Types /\ LocalSet(t) /\ Len(queue) \in Nat
  BY QueueElements DEF IInv, Types, LocalsSet
<1>1. CASE queue' = queue
  BY <1>1 DEF Queued
<1>2. CASE PutList(t) /\ queue' # queue
  <2>1. reg[t].other \in Descriptors /\ queue' = Append(queue, reg[t].other)
    BY <1>2, <1>a DEF PutList, LocalSet
  <2>2. /\ Len(queue') = Len(queue) + 1 /\ queue'[Len(queue) + 1] = reg[t].other
        /\ \A j \in 1 .. Len(queue) : queue'[j] = queue[j]
    BY <1>a, <2>1, QueueAppend
  <2>3. i \in 1 .. Len(queue) \/ i = Len(queue) + 1
    BY <1>a, <2>2
  <2> QED
    BY <1>2, <2>1, <2>2, <2>3 DEF Queued
<1>3. CASE queue # <<>> /\ queue' = Tail(queue)
  <2>1. /\ Len(queue') = Len(queue) - 1
        /\ \A j \in 1 .. Len(queue') : queue'[j] = queue[j + 1]
    BY <1>3, <1>a, QueueHead
  <2>2. i + 1 \in 1 .. Len(queue)
    BY <1>a, <2>1
  <2> QED
    BY <2>1, <2>2 DEF Queued
<1> QED
  BY <1>1, <1>2, <1>3, WhoWrites DEF GetList, ListRemove, Dequeued, DequeuedNothing

(* After every step what is in a slot, on the list or on the way there has *)
(* a block to give or is empty.                                            *)
LEMMA ListsStep ==
  ASSUME IInv, NEW t \in Threads, Act(t)
  PROVE  ListsPartial'
<1>a. Types /\ OnlyThread(t) /\ ListsPartial /\ SlotsApart /\ QueueApart /\ CarriedApart /\ NULL \notin Descriptors
  BY StepOfOne, NullAssumption DEF IInv, Status, Apart
<1>b. pc[t] = "reserve" => Carried(t) = {reg[t].desc}
  BY CarriedIs DEF Carries
<1>1. ASSUME NEW h \in Heaps, partial'[h] # NULL PROVE PartlyFree(partial[h])'
  <2>1. PICK d \in Descriptors : d = partial'[h]
    BY <1>1, TypesStep DEF Types, TypeOK
  <2>2. PartlyFree(d) /\ ~(pc[t] = "reserve" /\ reg[t].desc = d)
    <3>1. CASE partial[h] = d
      BY <1>a, <1>b, <3>1 DEF ListsPartial, SlotsApart
    <3>2. CASE PutPartial(t) /\ d = reg[t].desc
      BY <1>a, <3>2 DEF ListsPartial, PutPartial
    <3> QED
      BY <1>1, <2>1, <3>1, <3>2, SlotMoves
  <2> QED
    BY <2>1, <2>2, PartlyFreeStep
<1>2. ASSUME NEW i \in 1 .. Len(queue') PROVE PartlyFree(queue[i])'
  <2>1. PICK d \in Descriptors : d = queue'[i] /\ PartlyFree(d) /\ ~(pc[t] = "reserve" /\ reg[t].desc = d)
    <3>1. CASE Queued(queue'[i])
      <4>1. PICK j \in 1 .. Len(queue) : queue[j] = queue'[i]
        BY <3>1 DEF Queued
      <4>2. queue[j] \in Descriptors
        BY <1>a, QueueElements
      <4>3. PartlyFree(queue[j]) /\ queue[j] \notin Carried(t)
        BY <1>a DEF ListsPartial, QueueApart
      <4> QED
        BY <1>b, <4>1, <4>2, <4>3
    <3>2. CASE PutList(t) /\ queue'[i] = reg[t].other /\ reg[t].other \in Descriptors
      BY <1>a, <3>2 DEF ListsPartial, PutList
    <3> QED
      BY <3>1, <3>2, QueueMoves
  <2> QED
    BY <2>1, PartlyFreeStep
<1>3. ASSUME NEW u \in Threads
      PROVE  /\ pc'[u] \in {"reserve", "put_partial"} => PartlyFree(reg[u].desc)'
             /\ pc'[u] \in {"put_list", "list_check"} => PartlyFree(reg[u].other)'
  <2>1. CASE u = t
    <3>1. CASE (FreeCas(t) \/ ReturnCredits(t)) /\ pc'[t] = "put_partial"
      BY <2>1, <3>1, MadePartial
    <3>2. CASE /\ pc'[t] = "reserve" /\ pc[t] # "reserve"
               /\ PartlyFree(reg'[t].desc) /\ reg'[t].desc \in Descriptors
      <4>1. PICK d \in Descriptors : d = reg'[t].desc
        BY <3>2
      <4> QED
        BY <2>1, <3>2, <4>1, PartlyFreeStep
    <3>3. CASE /\ pc'[t] \in Lists /\ pc[t] # "reserve"
               /\ PartlyFree(reg'[t].other) /\ reg'[t].other \in Descriptors
      <4>1. PICK d \in Descriptors : d = reg'[t].other
        BY <3>3
      <4> QED
        BY <2>1, <3>3, <4>1, PartlyFreeStep DEF Lists
    <3> QED
      BY <2>1, <3>1, <3>2, <3>3, ListsEntered DEF Lists
  <2>2. CASE u # t
    <3>1. pc'[u] = pc[u] /\ reg'[u] = reg[u]
      BY <1>a, <2>2 DEF OnlyThread
    <3>2. ASSUME NEW d \in Descriptors, PartlyFree(d), d \in Carried(u) PROVE PartlyFree(d)'
      <4>1. ~(pc[t] = "reserve" /\ reg[t].desc = d)
        BY <1>a, <1>b, <2>2, <3>2 DEF CarriedApart
      <4> QED
        BY <3>2, <4>1, PartlyFreeStep
    <3>3. CASE pc[u] \in {"reserve", "put_partial"}
      <4>1. PICK d \in Descriptors : d = reg[u].desc
        BY <1>a, <3>3 DEF Types, LocalsSet, LocalSet, Names
      <4>2. d \in Carried(u) /\ PartlyFree(d)
        BY <1>a, <3>3, <4>1, CarriedIs DEF Carries, ListsPartial
      <4> QED
        BY <3>1, <3>2, <3>3, <4>1, <4>2
    <3>4. CASE pc[u] \in {"put_list", "list_check"}
      <4>1. PICK d \in Descriptors : d = reg[u].other
        BY <1>a, <3>4 DEF Types, LocalsSet, LocalSet
      <4>2. d \in Carried(u) /\ PartlyFree(d)
        BY <1>a, <3>4, <4>1, CarriedIs DEF Carries, Lists, Pops, Updates, ListsPartial
      <4> QED
        BY <3>1, <3>2, <3>4, <4>1, <4>2
    <3> QED
      BY <3>1, <3>3, <3>4
  <2> QED
    BY <2>1, <2>2
<1> QED
  BY <1>1, <1>2, <1>3 DEF ListsPartial

(* How a thread comes to retire a descriptor.                              *)
LEMMA LeavingEntered ==
  ASSUME IInv, NEW t \in Threads, Act(t), pc'[t] \in {"unmap", "remove_empty", "retire"}
  PROVE  /\ reg'[t].desc = reg[t].desc
         /\ \/ pc'[t] = "unmap" /\ LastFree(t, reg[t].desc)
            \/ pc'[t] = "remove_empty" /\ pc[t] = "unmap"
            \/ /\ pc'[t] = "retire"
               /\ \/ pc[t] = "reserve" /\ anchor[reg[t].desc].state = "EMPTY"
                  \/ pc[t] = "remove_empty"
                  \/ Discard(t)
<1>a. /\ pc \in [Threads -> Labels] /\ reg \in [Threads -> Regs] /\ LocalSet(t)
      /\ (pc[t] = "retire" => reg[t].then \in {"idle", "get_partial", "check_error"})
      /\ (pc[t] \in Puts => reg[t].then \in {"idle", "return"})
      /\ anchor \in [Descriptors -> Anchors]
  BY DEF IInv, Types, TypeOK, LocalsSet, LocalSet
<1> USE <1>a DEF Goto, Puts
<1>1. CASE BeginMalloc(t)
  BY <1>1 DEF BeginMalloc
<1>2. CASE BeginFree(t)
  BY <1>2 DEF BeginFree
<1>3. CASE ReserveActive(t)
  BY <1>3 DEF ReserveActive
<1>4. CASE PopRead(t)
  BY <1>4 DEF PopRead
<1>5. CASE PopNext(t)
  BY <1>5 DEF PopNext
<1>6. CASE PopCas(t)
  BY <1>6 DEF PopCas
<1>7. CASE UpdateActive(t)
  BY <1>7 DEF UpdateActive
<1>8. CASE ReturnCredits(t)
  BY <1>8 DEF ReturnCredits
<1>9. CASE PutPartial(t)
  BY <1>9 DEF PutPartial, Resume, Finish
<1>10. CASE PutList(t)
  BY <1>10 DEF PutList, Resume, Finish
<1>11. CASE ReturnBlock(t)
  BY <1>11 DEF ReturnBlock, Finish
<1>12. CASE GetPartial(t)
  BY <1>12 DEF GetPartial
<1>13. CASE GetList(t)
  BY <1>13 DEF GetList
<1>14. CASE Reserve(t)
  BY <1>14 DEF Reserve, Regs
<1>15. CASE Retire(t)
  BY <1>15 DEF Retire, Resume, Finish
<1>16. CASE NewSuperblock(t)
  BY <1>16 DEF NewSuperblock
<1>17. CASE InstallNew(t)
  BY <1>17 DEF InstallNew
<1>18. CASE Discard(t)
  BY <1>18 DEF Discard, Regs
<1>19. CASE CheckError(t)
  BY <1>19 DEF CheckError, Finish
<1>20. CASE FreeRead(t)
  BY <1>20 DEF FreeRead
<1>21. CASE FreeLink(t)
  BY <1>21 DEF FreeLink
<1>22. CASE FreeCas(t)
  <2>1. /\ pc[t] = "free_cas" /\ anchor[reg[t].desc] = reg[t].old
        /\ anchor' = [anchor EXCEPT ![reg[t].desc] = FreedAnchor(reg[t].old, reg[t].block)]
        /\ FreedAnchor(reg[t].old, reg[t].block).state = "EMPTY"
        /\ reg' = [reg EXCEPT ![t].heap = home[reg[t].desc]] /\ pc'[t] = "unmap"
    BY <1>22 DEF FreeCas, Finish
  <2>2. reg'[t].desc = reg[t].desc
    BY <2>1 DEF Regs
  <2>3. reg[t].desc \in Descriptors /\ InUse(reg[t].desc)
    BY <2>1, HeldIsAllocated DEF Frees
  <2>4. LastBlockOf(anchor[reg[t].desc])
    BY <2>1, <2>3 DEF FreedAnchor, InUse
  <2> QED
    BY <1>22, <2>1, <2>2, <2>3, <2>4 DEF LastFree, LastBlockOf
<1>23. CASE UnmapEmpty(t)
  BY <1>23 DEF UnmapEmpty
<1>24. CASE RemoveEmpty(t)
  BY <1>24 DEF RemoveEmpty, Regs
<1>25. CASE ListRemove(t)
  BY <1>25 DEF ListRemove, Finish
<1>26. CASE ListCheck(t)
  BY <1>26 DEF ListCheck
<1> QED
  BY <1>1, <1>2, <1>3, <1>4, <1>5, <1>6, <1>7, <1>8, <1>9, <1>10, <1>11, <1>12, <1>13,
     <1>14, <1>15, <1>16, <1>17, <1>18, <1>19, <1>20, <1>21, <1>22, <1>23, <1>24, <1>25,
     <1>26 DEF Act, Step

(* After every step what is retired, or about to be, is out of use.        *)
LEMMA LeavingStep ==
  ASSUME IInv, NEW t \in Threads, Act(t)
  PROVE  Leaving'
<1>a. Types /\ OnlyThread(t) /\ Leaving /\ ListsPartial
  BY StepOfOne DEF IInv, Status
<1>b. ASSUME NEW d \in Descriptors, Gone(d) PROVE Gone(d)' /\ anchor'[d] = anchor[d]
  BY <1>b, GoneStep DEF Gone, Settled
<1>1. ASSUME NEW u \in Threads, pc'[u] \in {"unmap", "remove_empty"}
      PROVE  anchor'[reg'[u].desc].state = "EMPTY" /\ Gone(reg[u].desc)'
  <2>1. CASE u # t \/ (u = t /\ pc[t] = "unmap" /\ reg'[t].desc = reg[t].desc)
    <3>1. pc[u] \in {"unmap", "remove_empty"} /\ reg'[u].desc = reg[u].desc
      BY <1>a, <1>1, <2>1 DEF OnlyThread
    <3>2. PICK d \in Descriptors : d = reg[u].desc
      BY <1>a, <3>1 DEF Types, LocalsSet, LocalSet, Names
    <3>3. anchor[d].state = "EMPTY" /\ Gone(d)
      BY <1>a, <3>1, <3>2 DEF Leaving
    <3> QED
      BY <1>b, <3>1, <3>2, <3>3
  <2>2. CASE u = t /\ LastFree(t, reg[t].desc) /\ reg'[t].desc = reg[t].desc
    <3>1. PICK d \in Descriptors : d = reg[t].desc /\ InUse(d)
      BY <2>2, HeldIsAllocated DEF LastFree, Frees
    <3>2. anchor'[d].state = "EMPTY"
      BY <2>2, <3>1 DEF LastFree
    <3>3. Settled(d)'
      BY <3>1, InUseSettled, SettledStep
    <3>4. Gone(d)'
      BY <3>2, <3>3 DEF Gone, Settled, InUse
    <3> QED
      BY <2>2, <3>1, <3>2, <3>4
  <2> QED
    BY <1>1, <2>1, <2>2, LeavingEntered
<1>2. ASSUME NEW u \in Threads, pc'[u] = "retire" PROVE Gone(reg[u].desc)'
  <2>1. CASE u # t \/ (u = t /\ pc[t] = "remove_empty" /\ reg'[t].desc = reg[t].desc)
    <3>1. pc[u] \in {"remove_empty", "retire"} /\ reg'[u].desc = reg[u].desc
      BY <1>a, <1>2, <2>1 DEF OnlyThread
    <3>2. PICK d \in Descriptors : d = reg[u].desc
      BY <1>a, <3>1 DEF Types, LocalsSet, LocalSet, Names
    <3>3. Gone(d)
      BY <1>a, <3>1, <3>2 DEF Leaving
    <3> QED
      BY <1>b, <3>1, <3>2, <3>3
  <2>2. CASE /\ u = t /\ reg'[t].desc = reg[t].desc
             /\ pc[t] = "reserve" /\ anchor[reg[t].desc].state = "EMPTY"
    <3>1. PICK d \in Descriptors : d = reg[t].desc
      BY <1>a, <2>2 DEF Types, LocalsSet, LocalSet, Names
    <3>2. Gone(d)
      BY <1>a, <2>2, <3>1 DEF ListsPartial, PartlyFree, Gone, InUse
    <3> QED
      BY <1>b, <2>2, <3>1, <3>2
  <2>3. CASE u = t /\ reg'[t].desc = reg[t].desc /\ Discard(t)
    <3>1. PICK d \in Descriptors : d = reg[t].desc
      BY <1>a, <2>3 DEF Discard, Types, LocalsSet, LocalSet, Names
    <3>2. Unknown(d, {t}) /\ d \notin pool
      BY <2>3, <3>1 DEF Discard, IInv, Knowledge, PrivateUnknown
    <3>3. ~mapped'[d] /\ d \notin pool'
      BY <1>a, <2>3, <3>1, <3>2 DEF Discard, Types, TypeOK, poolVars
    <3>4. ~Private(d)'
      <4>1. SUFFICES ASSUME NEW v \in Threads, pc'[v] \in {"install", "discard"}, reg'[v].desc = d
                     PROVE  FALSE
        BY DEF Private
      <4>2. v # t
        BY <1>2, <2>3, <4>1
      <4>3. reg'[v] = reg[v]
        BY <1>a, <4>2 DEF OnlyThread
      <4> QED
        BY <3>2, <4>1, <4>2, <4>3 DEF Unknown
    <3>5. Gone(d)'
      BY <3>3, <3>4 DEF Gone, InUse
    <3> QED
      BY <2>3, <3>1, <3>5
  <2> QED
    BY <1>2, <2>1, <2>2, <2>3, LeavingEntered
<1>3. ASSUME NEW u \in Threads, NEW d \in retired'[u] PROVE Gone(d)'
  <2>1. CASE d \in retired[u]
    <3>1. d \in Descriptors /\ Gone(d)
      BY <1>a, <2>1 DEF Types, TypeOK, Leaving
    <3> QED
      BY <1>b, <3>1
  <2>2. CASE d \notin retired[u]
    <3>1. u = t /\ Retire(t)
      BY <1>a, <1>3, <2>2, WhoWrites DEF OnlyThread
    <3>2. d = reg[t].desc /\ d \in Descriptors
      BY <1>a, <1>3, <2>2, <3>1, NoScan DEF Types, TypeOK
    <3>3. Gone(d)
      BY <1>a, <3>1, <3>2 DEF Retire, Leaving
    <3> QED
      BY <1>b, <3>2, <3>3
  <2> QED
    BY <2>1, <2>2
<1> QED
  BY <1>1, <1>2, <1>3 DEF Leaving

(* So the states of the superblocks are as the invariant says after every  *)
(* step.                                                                   *)
LEMMA StatusStep ==
  ASSUME IInv, NEW t \in Threads, Act(t)
  PROVE  Status'
  BY OwnersStep, CreditsStep, FullStep, ListsStep, LeavingStep DEF Status

-----------------------------------------------------------------------------
(* One place at most for a descriptor.                                     *)

(* Where a thread takes a descriptor from to carry it.                     *)
LEMMA PickedUp ==
  ASSUME IInv, NEW t \in Threads, Act(t), NEW d \in Carried(t)', d \notin Carried(t)
  PROVE  /\ UNCHANGED retired
         /\ \/ /\ \E h \in Heaps : active[h].desc = d /\ active'[h] = NoActive
               /\ UNCHANGED <<partial, queue>> /\ d # NULL
               /\ \A g \in Heaps : active'[g].desc = d => active[g].desc = d
            \/ /\ \E h \in Heaps : /\ partial[h] = d /\ partial'[h] # d
                                   /\ \A g \in Heaps \ {h} : partial'[g] = partial[g]
               /\ UNCHANGED <<active, queue>> /\ d # NULL
            \/ queue # <<>> /\ d = Head(queue) /\ queue' = Tail(queue) /\ UNCHANGED <<active, partial>>
            \/ d \in pool /\ UNCHANGED <<active, partial, queue>>
            \/ /\ d = reg[t].desc /\ pc[t] = "free_cas" /\ InUse(d) /\ anchor[d].state = "FULL"
               /\ UNCHANGED <<active, partial, queue>>
<1>a. /\ pc \in [Threads -> Labels] /\ reg \in [Threads -> Regs] /\ LocalSet(t) /\ NULL \notin Descriptors
      /\ partial \in [Heaps -> Descriptors \union {NULL}] /\ active \in [Heaps -> ActiveWords]
      /\ (pc[t] = "retire" => reg[t].then \in {"idle", "get_partial", "check_error"})
      /\ (pc[t] \in Puts => reg[t].then \in {"idle", "return"})
  BY NullAssumption DEF IInv, Types, TypeOK, LocalsSet, LocalSet, ActiveWords
<1>b. IF pc'[t] \in Carries \/ (pc'[t] \in Pops /\ (reg'[t].last \/ reg'[t].more > 0))
      THEN d = reg'[t].desc
      ELSE pc'[t] \in Lists /\ d = reg'[t].other
  BY CarriedNext
<1>c. /\ pc[t] \in Carries \/ (pc[t] \in Pops /\ (reg[t].last \/ reg[t].more > 0)) => d # reg[t].desc
      /\ pc[t] \in Lists => d # reg[t].other
  BY CarriedIs DEF Carries, Pops, Lists, Updates
<1>d. pc'[t] \in Carries \union Pops \union Lists
  BY <1>b
<1>e. pc[t] = "put_partial" => home[reg[t].desc] \in Heaps
  BY HasHome
<1> USE <1>a DEF Goto, Carries, Lists, Pops, Updates, Puts, poolVars, heapVars
<1>1. CASE BeginMalloc(t)
  BY <1>1, <1>b, <1>c, <1>d DEF BeginMalloc
<1>2. CASE BeginFree(t)
  BY <1>2, <1>b, <1>c, <1>d DEF BeginFree
<1>3. CASE ReserveActive(t)
  <2>1. /\ reg[t].heap \in Heaps /\ active[reg[t].heap].desc # NULL
        /\ reg' = [reg EXCEPT ![t].desc = active[reg[t].heap].desc,
                              ![t].last = (active[reg[t].heap].credits = 0), ![t].more = 0]
        /\ active' = [active EXCEPT ![reg[t].heap] = Spend(active[reg[t].heap])]
        /\ pc'[t] = "pop_read"
    BY <1>3, <1>d DEF ReserveActive, LocalSet, Searches
  <2>2. /\ reg'[t].desc = active[reg[t].heap].desc /\ reg'[t].more = 0
        /\ reg'[t].last = (active[reg[t].heap].credits = 0)
    BY <2>1 DEF Regs
  <2>3. active[reg[t].heap].credits = 0 /\ d = active[reg[t].heap].desc
    <3>1. pc'[t] \notin Carries \union Lists /\ ~(reg'[t].more > 0)
      BY <2>1, <2>2
    <3>2. reg'[t].last /\ d = reg'[t].desc
      BY <1>b, <3>1
    <3> QED
      BY <2>2, <3>2
  <2>4. active' = [active EXCEPT ![reg[t].heap] = NoActive]
    BY <2>1, <2>3 DEF Spend
  <2>5. UNCHANGED <<partial, queue, retired>>
    BY <1>3 DEF ReserveActive
  <2>6. \A g \in Heaps : active'[g].desc = d => active[g].desc = d
    BY <2>1, <2>3, <2>4 DEF NoActive
  <2>7. \E h \in Heaps : active[h].desc = d /\ active'[h] = NoActive
    BY <2>1, <2>3, <2>4
  <2> QED
    BY <2>1, <2>3, <2>5, <2>6, <2>7
<1>4. CASE PopRead(t)
  BY <1>4, <1>b, <1>c, <1>d DEF PopRead, Regs
<1>5. CASE PopNext(t)
  BY <1>5, <1>b, <1>c, <1>d DEF PopNext, Regs
<1>6. CASE PopCas(t)
  <2>1. reg[t].last => reg[t].more = 0
    BY <1>6 DEF PopCas, LocalSet
  <2>2. reg'[t].desc = reg[t].desc
    BY <1>6 DEF PopCas, Regs
  <2>3. CASE UNCHANGED reg /\ pc'[t] = "pop_read"
    BY <1>6, <1>b, <1>c, <2>3 DEF PopCas
  <2>4. CASE pc'[t] = "update_active" /\ CreditsTaken(reg[t]) > 0
    <3>1. reg[t].last \/ reg[t].more > 0
      BY <2>4 DEF CreditsTaken
    <3> QED
      BY <1>6, <1>b, <1>c, <2>2, <2>4, <3>1 DEF PopCas
  <2> QED
    BY <1>6, <1>d, <2>3, <2>4 DEF PopCas
<1>7. CASE UpdateActive(t)
  BY <1>7, <1>b, <1>c, <1>d DEF UpdateActive
<1>8. CASE ReturnCredits(t)
  BY <1>8, <1>b, <1>c, <1>d DEF ReturnCredits, Regs
<1>9. CASE PutPartial(t)
  <2>1. pc'[t] = "put_list" /\ reg' = [reg EXCEPT ![t].other = partial[home[reg[t].desc]]]
        /\ partial' = [partial EXCEPT ![home[reg[t].desc]] = reg[t].desc]
        /\ partial[home[reg[t].desc]] # NULL
    BY <1>9, <1>d DEF PutPartial, Resume, Finish
  <2>2. reg'[t].other = partial[home[reg[t].desc]] /\ home[reg[t].desc] \in Heaps
    BY <1>9, <1>e, <2>1 DEF PutPartial, Regs
  <2>3. d = partial[home[reg[t].desc]]
    BY <1>b, <2>1, <2>2
  <2>4. UNCHANGED <<active, queue, retired>>
    BY <1>9 DEF PutPartial
  <2>5. d # reg[t].desc
    BY <1>9, <1>c DEF PutPartial
  <2> QED
    BY <2>1, <2>2, <2>3, <2>4, <2>5
<1>10. CASE PutList(t)
  BY <1>10, <1>b, <1>c, <1>d DEF PutList, Resume, Finish
<1>11. CASE ReturnBlock(t)
  BY <1>11, <1>b, <1>c, <1>d DEF ReturnBlock, Finish
<1>12. CASE GetPartial(t)
  <2>1. /\ reg[t].heap \in Heaps /\ partial[reg[t].heap] # NULL
        /\ partial' = [partial EXCEPT ![reg[t].heap] = NULL]
        /\ reg' = [reg EXCEPT ![t].desc = partial[reg[t].heap]]
        /\ pc'[t] = "reserve" /\ UNCHANGED <<active, queue, retired>>
    BY <1>12, <1>d DEF GetPartial, LocalSet, Searches
  <2>2. d = partial[reg[t].heap]
    BY <1>b, <2>1 DEF Regs
  <2> QED
    BY <2>1, <2>2
<1>13. CASE GetList(t)
  <2>1. /\ queue # <<>> /\ queue' = Tail(queue) /\ UNCHANGED <<active, partial, retired>>
        /\ reg' = [reg EXCEPT ![t].desc = Head(queue)] /\ pc'[t] = "reserve"
        /\ Head(queue) \in Descriptors
    BY <1>13, <1>d, QueueHead DEF GetList, Dequeued, DequeuedNothing, IInv
  <2>2. d = Head(queue)
    BY <1>b, <2>1 DEF Regs
  <2> QED
    BY <2>1, <2>2
<1>14. CASE Reserve(t)
  BY <1>14, <1>b, <1>c, <1>d DEF Reserve, Regs
<1>15. CASE Retire(t)
  BY <1>15, <1>b, <1>c, <1>d DEF Retire, Resume, Finish
<1>16. CASE NewSuperblock(t)
  <2>1. pc'[t] = "install"
    BY <1>16, <1>d DEF NewSuperblock
  <2>2. PICK e \in pool : pool' = pool \ {e}
    BY <1>16, <2>1, NewTakesOne DEF IInv
  <2>3. reg'[t].desc = e
    BY <1>16, <2>1, <2>2, NewStep
  <2>4. UNCHANGED <<active, partial, queue, retired>>
    BY <1>16 DEF NewSuperblock
  <2> QED
    BY <1>b, <2>1, <2>2, <2>3, <2>4
<1>17. CASE InstallNew(t)
  BY <1>17, <1>b, <1>c, <1>d DEF InstallNew, Regs
<1>18. CASE Discard(t)
  BY <1>18, <1>b, <1>c, <1>d DEF Discard, Regs
<1>19. CASE CheckError(t)
  BY <1>19, <1>b, <1>c, <1>d DEF CheckError, Finish
<1>20. CASE FreeRead(t)
  BY <1>20, <1>b, <1>c, <1>d DEF FreeRead
<1>21. CASE FreeLink(t)
  BY <1>21, <1>b, <1>c, <1>d DEF FreeLink
<1>22. CASE FreeCas(t)
  <2>1. pc'[t] = "put_partial" /\ reg' = reg /\ reg[t].old.state = "FULL"
        /\ anchor[reg[t].desc] = reg[t].old /\ pc[t] = "free_cas"
    BY <1>22, <1>d DEF FreeCas, Finish
  <2>2. InUse(reg[t].desc)
    BY <2>1, HeldIsAllocated DEF Frees
  <2>3. UNCHANGED <<active, partial, queue, retired>>
    BY <1>22 DEF FreeCas
  <2> QED
    BY <1>b, <2>1, <2>2, <2>3
<1>23. CASE UnmapEmpty(t)
  BY <1>23, <1>b, <1>c, <1>d DEF UnmapEmpty
<1>24. CASE RemoveEmpty(t)
  <2>1. /\ reg[t].heap \in Heaps /\ partial[reg[t].heap] = reg[t].desc
        /\ partial' = [partial EXCEPT ![reg[t].heap] = NULL] /\ reg' = reg
        /\ pc'[t] = "retire" /\ UNCHANGED <<active, queue, retired>> /\ reg[t].desc \in Descriptors
    BY <1>24, <1>d DEF RemoveEmpty, LocalSet, Names
  <2>2. d = reg[t].desc
    BY <1>b, <2>1
  <2> QED
    BY <2>1, <2>2
<1>25. CASE ListRemove(t)
  <2>1. /\ queue # <<>> /\ queue' = Tail(queue) /\ UNCHANGED <<active, partial, retired>>
        /\ reg' = [reg EXCEPT ![t].other = Head(queue)] /\ pc'[t] = "list_check"
        /\ Head(queue) \in Descriptors
    BY <1>25, <1>d, QueueHead DEF ListRemove, Dequeued, DequeuedNothing, IInv, Finish
  <2>2. d = Head(queue)
    BY <1>b, <2>1 DEF Regs
  <2> QED
    BY <2>1, <2>2
<1>26. CASE ListCheck(t)
  BY <1>26, <1>b, <1>c, <1>d DEF ListCheck
<1> QED
  BY <1>1, <1>2, <1>3, <1>4, <1>5, <1>6, <1>7, <1>8, <1>9, <1>10, <1>11, <1>12, <1>13,
     <1>14, <1>15, <1>16, <1>17, <1>18, <1>19, <1>20, <1>21, <1>22, <1>23, <1>24, <1>25,
     <1>26 DEF Act, Step

(* Nothing leads to a free descriptor, ...                                 *)
LEMMA FreeNowhere ==
  ASSUME IInv, NEW d \in pool
  PROVE  /\ \A h \in Heaps : active[h].desc # d /\ partial[h] # d
         /\ ~Queued(d)
         /\ \A u \in Threads : d \notin Carried(u) /\ d \notin retired[u]
  BY CarriedIs DEF IInv, Knowledge, PoolUnknown, Unknown, Queued

(* ... and only the threads that own its blocks to a full superblock.      *)
LEMMA FullNowhere ==
  ASSUME IInv, NEW d \in Descriptors, InUse(d), anchor[d].state = "FULL"
  PROVE  /\ \A h \in Heaps : active[h].desc # d /\ partial[h] # d
         /\ ~Queued(d)
         /\ \A u \in Threads : d \notin Carried(u) /\ d \notin retired[u]
<1>a. OwnersInUse /\ CreditsOfActive /\ ListsPartial /\ Leaving /\ d # NULL
  BY NullAssumption DEF IInv, Status
<1>1. \A h \in Heaps : active[h].desc # d /\ partial[h] # d
  BY <1>a DEF OwnersInUse, ListsPartial, PartlyFree
<1>2. ~Queued(d)
  BY <1>a DEF Queued, ListsPartial, PartlyFree
<1>3. \A u \in Threads : d \notin retired[u]
  BY <1>a DEF Leaving, Gone
<1>4. ASSUME NEW u \in Threads, d \in Carried(u) PROVE FALSE
  <2>1. CASE Giving(u) /\ reg[u].desc = d
    BY <1>a, <2>1 DEF CreditsOfActive
  <2>2. CASE pc[u] \in {"reserve", "put_partial"} /\ reg[u].desc = d
    BY <1>a, <2>2 DEF ListsPartial, PartlyFree
  <2>3. CASE pc[u] \in Lists /\ reg[u].other = d
    BY <1>a, <2>3 DEF Lists, ListsPartial, PartlyFree
  <2>4. CASE pc[u] = "retire" /\ reg[u].desc = d
    BY <1>a, <2>4 DEF Leaving, Gone
  <2>5. CASE pc[u] \in {"install", "discard"} /\ reg[u].desc = d
    BY <2>5 DEF InUse, Private
  <2> QED
    BY <1>4, <2>1, <2>2, <2>3, <2>4, <2>5, CarriedIs DEF Carries, Giving
<1> QED
  BY <1>1, <1>2, <1>3, <1>4

(* What is active has the state that says so.                              *)
LEMMA ActiveNowhere ==
  ASSUME IInv, NEW h \in Heaps, active[h].desc \in Descriptors
  PROVE  /\ \A g \in Heaps : partial[g] # active[h].desc
         /\ ~Queued(active[h].desc)
         /\ \A u \in Threads : active[h].desc \notin Carried(u) /\ active[h].desc \notin retired[u]
<1>1. PICK d \in Descriptors : d = active[h].desc
  OBVIOUS
<1>2. InUse(d) /\ anchor[d].state = "ACTIVE" /\ d # NULL
  BY <1>1, NullAssumption DEF IInv, Status, OwnersInUse
<1>3. \A g \in Heaps : partial[g] # d
  BY <1>2 DEF IInv, Status, ListsPartial, PartlyFree
<1>4. ~Queued(d)
  BY <1>2 DEF IInv, Status, ListsPartial, PartlyFree, Queued
<1>5. \A u \in Threads : d \notin retired[u]
  BY <1>2 DEF IInv, Status, Leaving, Gone
<1>6. \A u \in Threads : d \notin Carried(u)
  BY <1>1, <1>2 DEF IInv, Apart, ActiveApart
<1> QED
  BY <1>1, <1>3, <1>4, <1>5, <1>6

(* A step changes what its own thread carries only.                        *)
LEMMA OthersCarry ==
  ASSUME IInv, NEW t \in Threads, Act(t), NEW u \in Threads \ {t}
  PROVE  Carried(u)' = Carried(u) /\ retired'[u] = retired[u]
<1>1. pc'[u] = pc[u] /\ reg'[u] = reg[u] /\ retired'[u] = retired[u]
  BY StepOfOne DEF IInv, OnlyThread
<1> QED
  BY <1>1, CarriedIs, CarriedNext

(* What a thread carries is a descriptor.                                  *)
LEMMA CarriedTypes ==
  ASSUME Types, NEW u \in Threads
  PROVE  Carried(u) \subseteq Descriptors
<1>1. LocalSet(u)
  BY DEF Types, LocalsSet
<1> QED
  BY <1>1, CarriedIs DEF Carries, Lists, LocalSet, Names, Pops, Updates

(* A descriptor that a thread comes to carry is in no other place.         *)
LEMMA PickedUpAlone ==
  ASSUME IInv, NEW t \in Threads, Act(t), NEW d \in Carried(t)', d \notin Carried(t)
  PROVE  /\ \A h \in Heaps : active'[h].desc # d /\ partial'[h] # d
         /\ \A i \in 1 .. Len(queue') : queue'[i] # d
         /\ \A u \in Threads \ {t} : d \notin Carried(u)
         /\ \A u \in Threads : d \notin retired'[u]
<1>a. /\ Types /\ SlotsApart /\ QueueApart /\ ActiveApart /\ NULL \notin Descriptors
      /\ retired' = retired
  BY NullAssumption, PickedUp DEF IInv, Apart
<1>b. d \in Descriptors
  <2>1. LocalSet(t)'
    BY TypesStep DEF Types, LocalsSet
  <2> QED
    BY <2>1, CarriedNext DEF Carries, Lists, LocalSet, Names, Pops, Updates
<1>1. CASE /\ \E h \in Heaps : active[h].desc = d /\ active'[h] = NoActive
           /\ UNCHANGED <<partial, queue>> /\ d # NULL
           /\ \A g \in Heaps : active'[g].desc = d => active[g].desc = d
  <2>1. PICK h \in Heaps : active[h].desc = d /\ active'[h] = NoActive
    BY <1>1
  <2>2. /\ \A g \in Heaps : partial[g] # d
        /\ ~Queued(d)
        /\ \A u \in Threads : d \notin Carried(u) /\ d \notin retired[u]
    BY <1>b, <2>1, ActiveNowhere
  <2>3. ASSUME NEW g \in Heaps, active'[g].desc = d PROVE FALSE
    <3>1. active[g].desc = d
      BY <1>1, <2>3
    <3>2. g = h
      BY <1>a, <1>b, <2>1, <3>1 DEF ActiveApart
    <3> QED
      BY <1>a, <1>b, <2>1, <2>3, <3>2 DEF NoActive
  <2> QED
    BY <1>1, <1>a, <2>2, <2>3 DEF Queued
<1>2. CASE /\ \E h \in Heaps : /\ partial[h] = d /\ partial'[h] # d
                               /\ \A g \in Heaps \ {h} : partial'[g] = partial[g]
           /\ UNCHANGED <<active, queue>> /\ d # NULL
  <2>1. PICK h \in Heaps : /\ partial[h] = d /\ partial'[h] # d
                           /\ \A g \in Heaps \ {h} : partial'[g] = partial[g]
    BY <1>2
  <2>2. ~Queued(d) /\ \A u \in Threads : d \notin Carried(u) /\ d \notin retired[u]
    BY <1>a, <2>1 DEF SlotsApart
  <2>3. \A g \in Heaps : partial'[g] # d
    BY <1>2, <1>a, <2>1 DEF SlotsApart
  <2>4. \A g \in Heaps : active[g].desc # d
    BY <1>b, <2>1, ActiveNowhere
  <2> QED
    BY <1>2, <1>a, <2>2, <2>3, <2>4 DEF Queued
<1>3. CASE queue # <<>> /\ d = Head(queue) /\ queue' = Tail(queue)
           /\ UNCHANGED <<active, partial>>
  <2>1. /\ d = queue[1] /\ 1 \in 1 .. Len(queue) /\ Len(queue') = Len(queue) - 1
        /\ \A i \in 1 .. Len(queue') : queue'[i] = queue[i + 1]
    BY <1>3, <1>a, QueueHead
  <2>2. Len(queue) \in Nat
    BY <1>a, QueueElements
  <2>3. Queued(d)
    BY <2>1 DEF Queued
  <2>4. ASSUME NEW i \in 1 .. Len(queue') PROVE queue'[i] # d
    <3>1. i + 1 \in 1 .. Len(queue) /\ i + 1 # 1
      BY <2>1, <2>2
    <3> QED
      BY <1>a, <2>1, <3>1 DEF QueueApart
  <2>5. \A g \in Heaps : active[g].desc # d
    BY <1>b, <2>3, ActiveNowhere
  <2>6. \A g \in Heaps : partial[g] # d
    BY <1>a, <2>3 DEF SlotsApart
  <2>7. \A u \in Threads : d \notin Carried(u) /\ d \notin retired[u]
    BY <1>a, <2>1 DEF QueueApart
  <2> QED
    BY <1>3, <1>a, <2>4, <2>5, <2>6, <2>7
<1>4. CASE d \in pool /\ UNCHANGED <<active, partial, queue>>
  BY <1>4, <1>a, FreeNowhere DEF Queued
<1>5. CASE InUse(d) /\ anchor[d].state = "FULL" /\ UNCHANGED <<active, partial, queue>>
  BY <1>5, <1>a, <1>b, FullNowhere DEF Queued
<1> QED
  BY <1>1, <1>2, <1>3, <1>4, <1>5, PickedUp

(* A thread that puts a descriptor somewhere no longer carries it.         *)
LEMMA PutDown ==
  ASSUME IInv, NEW t \in Threads, Act(t)
  PROVE  /\ (UpdateActive(t) \/ InstallNew(t)) /\ pc'[t] = "return" =>
              Carried(t) = {reg[t].desc} /\ Carried(t)' = {}
         /\ PutPartial(t) => /\ Carried(t) = {reg[t].desc} /\ reg[t].desc \notin Carried(t)'
                             /\ home[reg[t].desc] \in Heaps
         /\ PutList(t) => Carried(t) = {reg[t].other} /\ Carried(t)' = {}
         /\ Retire(t) => Carried(t) = {reg[t].desc} /\ Carried(t)' = {}
<1>a. /\ pc \in [Threads -> Labels] /\ reg \in [Threads -> Regs] /\ LocalSet(t)
      /\ SlotsApart
  BY DEF IInv, Types, TypeOK, LocalsSet, Apart
<1> USE DEF Carries, Pops, Lists, Updates
<1>1. (UpdateActive(t) \/ InstallNew(t)) /\ pc'[t] = "return" =>
        Carried(t) = {reg[t].desc} /\ Carried(t)' = {}
  BY CarriedIs, CarriedNext DEF UpdateActive, InstallNew
<1>2. ASSUME PutPartial(t)
      PROVE  /\ Carried(t) = {reg[t].desc} /\ reg[t].desc \notin Carried(t)'
             /\ home[reg[t].desc] \in Heaps
  <2>1. Carried(t) = {reg[t].desc} /\ home[reg[t].desc] \in Heaps
    BY <1>2, CarriedIs, HasHome DEF PutPartial
  <2>2. CASE pc'[t] \in {"idle", "return"}
    <3>1. Carried(t)' = {}
      BY <2>2, CarriedNext
    <3> QED
      BY <2>1, <3>1
  <2>3. CASE pc'[t] = "put_list" /\ reg' = [reg EXCEPT ![t].other = partial[home[reg[t].desc]]]
    <3>1. reg'[t].other = partial[home[reg[t].desc]]
      BY <1>a, <2>3 DEF Regs
    <3>2. Carried(t)' = {partial[home[reg[t].desc]]}
      BY <2>3, <3>1, CarriedNext
    <3> QED
      BY <1>a, <2>1, <3>2 DEF SlotsApart
  <2>4. \/ pc'[t] \in {"idle", "return"}
        \/ pc'[t] = "put_list" /\ reg' = [reg EXCEPT ![t].other = partial[home[reg[t].desc]]]
    BY <1>2, <1>a DEF PutPartial, Resume, Finish, Goto, LocalSet, Puts
  <2> QED
    BY <2>1, <2>2, <2>3, <2>4
<1>3. ASSUME PutList(t) PROVE Carried(t) = {reg[t].other} /\ Carried(t)' = {}
  <2>1. pc[t] = "put_list" /\ pc'[t] \in {"idle", "return"}
    BY <1>3, <1>a DEF PutList, Resume, Finish, Goto, LocalSet, Puts
  <2> QED
    BY <2>1, CarriedIs, CarriedNext
<1>4. ASSUME Retire(t) PROVE Carried(t) = {reg[t].desc} /\ Carried(t)' = {}
  <2>1. pc[t] = "retire" /\ pc'[t] \in {"idle", "get_partial", "check_error"}
    BY <1>4, <1>a DEF Retire, Resume, Finish, Goto, LocalSet
  <2> QED
    BY <2>1, CarriedIs, CarriedNext
<1> QED
  BY <1>1, <1>2, <1>3, <1>4

(* After a step the heaps have different superblocks, which no thread      *)
(* carries, ...                                                            *)
LEMMA ActiveApartStep ==
  ASSUME IInv, NEW t \in Threads, Act(t)
  PROVE  ActiveApart'
<1>a. ActiveApart /\ CarriedApart
  BY DEF IInv, Apart
<1>1. ASSUME NEW h \in Heaps, NEW g \in Heaps, active'[h].desc \in Descriptors, h # g
      PROVE  active'[h].desc # active'[g].desc
  <2>1. SUFFICES ASSUME active'[g].desc = active'[h].desc PROVE FALSE
    OBVIOUS
  <2>2. CASE active'[h].desc = active[h].desc /\ active'[g].desc = active[g].desc
    BY <1>1, <1>a, <2>1, <2>2 DEF ActiveApart
  <2>3. ASSUME NEW x \in Heaps, NEW y \in Heaps, active'[x].desc = reg[t].desc,
               (UpdateActive(t) \/ InstallNew(t)) /\ pc'[t] = "return", active'[y].desc = active[y].desc,
               active'[x].desc = active'[y].desc
        PROVE  FALSE
    BY <1>a, <2>3, PutDown DEF ActiveApart
  <2> QED
    BY <1>1, <2>1, <2>2, <2>3, ActiveMoves
<1>2. ASSUME NEW h \in Heaps, NEW u \in Threads PROVE active'[h].desc \notin Carried(u)'
  <2>1. SUFFICES ASSUME NEW d \in Carried(u)', d = active'[h].desc PROVE FALSE
    OBVIOUS
  <2>2. d \in Descriptors
    <3>1. LocalSet(u)'
      BY TypesStep DEF Types, LocalsSet
    <3> QED
      BY <3>1, CarriedNext DEF Carries, Lists, LocalSet, Names, Pops, Updates
  <2>3. CASE u = t
    <3>1. d \in Carried(t)
      BY <2>1, <2>3, PickedUpAlone
    <3>2. active[h].desc # d
      BY <1>a, <3>1 DEF ActiveApart
    <3>3. (UpdateActive(t) \/ InstallNew(t)) /\ pc'[t] = "return"
      BY <2>1, <2>2, <3>2, ActiveMoves
    <3> QED
      BY <2>1, <2>3, <3>3, PutDown
  <2>4. CASE u # t
    <3>1. d \in Carried(u)
      BY <2>1, <2>4, OthersCarry
    <3>2. active[h].desc # d
      BY <1>a, <3>1 DEF ActiveApart
    <3>3. (UpdateActive(t) \/ InstallNew(t)) /\ pc'[t] = "return" /\ d = reg[t].desc
      BY <2>1, <2>2, <3>2, ActiveMoves
    <3> QED
      BY <1>a, <2>4, <3>1, <3>3, PutDown DEF CarriedApart
  <2> QED
    BY <2>3, <2>4
<1> QED
  BY <1>1, <1>2 DEF ActiveApart

(* Whatever lies in a slot or on the list after a step lay there before or *)
(* was carried.                                                            *)
LEMMA RetiredMoves ==
  ASSUME IInv, NEW t \in Threads, Act(t), NEW u \in Threads, NEW d \in retired'[u]
  PROVE  \/ d \in retired[u]
         \/ /\ Retire(t) /\ u = t /\ d \in Carried(t) /\ Carried(t)' = {}
            /\ UNCHANGED <<active, partial, queue>>
<1>1. CASE u # t
  BY <1>1, OthersCarry
<1>2. CASE u = t /\ retired' = retired
  BY <1>2
<1>3. CASE u = t /\ Retire(t)
  <2>1. retired'[t] = retired[t] \union {reg[t].desc}
    BY <1>3, NoScan DEF IInv, Types, TypeOK
  <2>2. UNCHANGED <<active, partial, queue>>
    BY <1>3 DEF Retire, heapVars
  <2> QED
    BY <1>3, <2>1, <2>2, PutDown
<1> QED
  BY <1>1, <1>2, <1>3, WhoWrites

(* ... the slots have different ones, which are not on the list, carried   *)
(* or retired, ...                                                         *)
LEMMA SlotsApartStep ==
  ASSUME IInv, NEW t \in Threads, Act(t)
  PROVE  SlotsApart'
<1>a. SlotsApart /\ QueueApart /\ CarriedApart /\ Types
  BY DEF IInv, Apart
<1>b. \A h \in Heaps : partial'[h] = NULL \/ partial'[h] \in Descriptors
  BY TypesStep DEF Types, TypeOK
<1>c. PutPartial(t) => UNCHANGED <<queue, retired>>
  BY DEF PutPartial, poolVars
<1>1. ASSUME NEW h \in Heaps, NEW g \in Heaps, partial'[h] # NULL, h # g
      PROVE  partial'[h] # partial'[g]
  <2>1. SUFFICES ASSUME partial'[g] = partial'[h] PROVE FALSE
    OBVIOUS
  <2>2. CASE partial'[h] = partial[h] /\ partial'[g] = partial[g]
    BY <1>1, <1>a, <2>1, <2>2 DEF SlotsApart
  <2>3. ASSUME NEW x \in Heaps, NEW y \in Heaps, PutPartial(t), partial'[x] = reg[t].desc,
               partial'[y] = partial[y], partial'[x] = partial'[y]
        PROVE  FALSE
    BY <1>a, <2>3, PutDown DEF SlotsApart
  <2> QED
    BY <1>1, <2>1, <2>2, <2>3, SlotMoves
<1>2. ASSUME NEW h \in Heaps PROVE ~Queued(partial[h])'
  <2>1. SUFFICES ASSUME NEW i \in 1 .. Len(queue'), queue'[i] = partial'[h] PROVE FALSE
    BY DEF Queued
  <2>2. partial'[h] # NULL
    <3>1. queue'[i] \in Descriptors
      <4>1. Types'
        BY TypesStep
      <4> QED
        BY <4>1 DEF Types, TypeOK
    <3> QED
      BY <2>1, <3>1, NullAssumption
  <2>3. CASE partial'[h] = partial[h] /\ Queued(queue'[i])
    BY <1>a, <2>1, <2>3 DEF SlotsApart
  <2>4. CASE partial'[h] = partial[h] /\ PutList(t) /\ queue'[i] = reg[t].other
    BY <1>a, <2>1, <2>4, PutDown DEF SlotsApart
  <2>5. CASE PutPartial(t) /\ partial'[h] = reg[t].desc
    <3>1. Queued(reg[t].desc)
      BY <1>c, <2>1, <2>5 DEF Queued
    <3> QED
      BY <1>a, <2>5, <3>1, PutDown DEF QueueApart, Queued
  <2> QED
    BY <2>2, <2>3, <2>4, <2>5, SlotMoves, QueueMoves
<1>3. ASSUME NEW h \in Heaps, NEW u \in Threads PROVE partial'[h] \notin Carried(u)'
  <2>1. SUFFICES ASSUME NEW d \in Carried(u)', d = partial'[h] PROVE FALSE
    OBVIOUS
  <2>2. d # NULL
    <3>1. LocalSet(u)'
      BY TypesStep DEF Types, LocalsSet
    <3> QED
      BY <3>1, CarriedNext, NullAssumption DEF Carries, Lists, LocalSet, Names, Pops, Updates
  <2>3. CASE u = t
    <3>1. d \in Carried(t)
      BY <2>1, <2>3, PickedUpAlone
    <3>2. partial[h] # d
      BY <1>a, <3>1 DEF SlotsApart
    <3>3. PutPartial(t) /\ d = reg[t].desc
      BY <2>1, <2>2, <3>2, SlotMoves
    <3> QED
      BY <2>1, <2>3, <3>3, PutDown
  <2>4. CASE u # t
    <3>1. d \in Carried(u)
      BY <2>1, <2>4, OthersCarry
    <3>2. partial[h] # d
      BY <1>a, <3>1 DEF SlotsApart
    <3>3. PutPartial(t) /\ d = reg[t].desc
      BY <2>1, <2>2, <3>2, SlotMoves
    <3> QED
      BY <1>a, <2>4, <3>1, <3>3, PutDown DEF CarriedApart
  <2> QED
    BY <2>3, <2>4
<1>4. ASSUME NEW h \in Heaps, NEW u \in Threads PROVE partial'[h] \notin retired'[u]
  <2>1. SUFFICES ASSUME NEW d \in retired'[u], d = partial'[h] PROVE FALSE
    OBVIOUS
  <2>2. d # NULL
    BY TypesStep, NullAssumption DEF Types, TypeOK
  <2>3. CASE partial[h] = d /\ d \in retired[u]
    BY <1>a, <2>3 DEF SlotsApart
  <2>4. CASE partial[h] = d /\ d \in Carried(t)
    BY <1>a, <2>4 DEF SlotsApart
  <2>5. CASE PutPartial(t) /\ d = reg[t].desc
    BY <1>a, <1>c, <2>1, <2>5, PutDown DEF CarriedApart
  <2> QED
    BY <2>1, <2>2, <2>3, <2>4, <2>5, SlotMoves, RetiredMoves
<1> QED
  BY <1>1, <1>2, <1>3, <1>4 DEF SlotsApart

(* ... each is on the list once, and neither carried nor retired, ...      *)
LEMMA QueueApartStep ==
  ASSUME IInv, NEW t \in Threads, Act(t)
  PROVE  QueueApart'
<1>a. QueueApart /\ CarriedApart /\ Types /\ Len(queue) \in Nat
  BY QueueElements DEF IInv, Apart
<1>b. PutList(t) => UNCHANGED retired
  BY DEF PutList
<1>1. ASSUME NEW i \in 1 .. Len(queue'), NEW j \in 1 .. Len(queue'), i # j
      PROVE  queue'[i] # queue'[j]
  <2>1. CASE queue' = queue
    BY <1>1, <1>a, <2>1 DEF QueueApart
  <2>2. CASE PutList(t) /\ queue' # queue
    <3>1. reg[t].other \in Descriptors /\ queue' = Append(queue, reg[t].other)
      BY <2>2, <1>a DEF PutList, Types, LocalsSet, LocalSet
    <3>2. /\ Len(queue') = Len(queue) + 1 /\ queue'[Len(queue) + 1] = reg[t].other
          /\ \A k \in 1 .. Len(queue) : queue'[k] = queue[k]
      BY <1>a, <3>1, QueueAppend
    <3>3. \A k \in 1 .. Len(queue) : queue[k] # reg[t].other
      BY <1>a, <2>2, PutDown DEF QueueApart
    <3>4. \A k \in 1 .. Len(queue') : k \in 1 .. Len(queue) \/ k = Len(queue) + 1
      BY <1>a, <3>2
    <3>5. \A k, l \in 1 .. Len(queue) : k # l => queue[k] # queue[l]
      BY <1>a DEF QueueApart
    <3> HIDE <1>a
    <3> QED
      BY <1>1, <3>2, <3>3, <3>4, <3>5
  <2>3. CASE queue # <<>> /\ queue' = Tail(queue)
    <3>1. /\ Len(queue') = Len(queue) - 1
          /\ \A k \in 1 .. Len(queue') : queue'[k] = queue[k + 1]
      BY <2>3, <1>a, QueueHead
    <3>2. i + 1 \in 1 .. Len(queue) /\ j + 1 \in 1 .. Len(queue) /\ i + 1 # j + 1
      BY <1>1, <1>a, <3>1
    <3> QED
      BY <1>a, <3>1, <3>2 DEF QueueApart
  <2> QED
    BY <2>1, <2>2, <2>3, WhoWrites DEF GetList, ListRemove, Dequeued, DequeuedNothing
<1>2. ASSUME NEW i \in 1 .. Len(queue'), NEW u \in Threads PROVE queue'[i] \notin Carried(u)'
  <2>1. SUFFICES ASSUME NEW d \in Carried(u)', d = queue'[i] PROVE FALSE
    OBVIOUS
  <2>2. CASE u = t
    <3>1. d \in Carried(t)
      BY <2>1, <2>2, PickedUpAlone
    <3>2. ~Queued(d)
      BY <1>a, <3>1 DEF QueueApart, Queued
    <3>3. PutList(t)
      BY <2>1, <3>2, QueueMoves
    <3> QED
      BY <2>1, <2>2, <3>3, PutDown
  <2>3. CASE u # t
    <3>1. d \in Carried(u)
      BY <2>1, <2>3, OthersCarry
    <3>2. ~Queued(d)
      BY <1>a, <3>1 DEF QueueApart, Queued
    <3>3. PutList(t) /\ d = reg[t].other
      BY <2>1, <3>2, QueueMoves
    <3> QED
      BY <1>a, <2>3, <3>1, <3>3, PutDown DEF CarriedApart
  <2> QED
    BY <2>2, <2>3
<1>3. ASSUME NEW i \in 1 .. Len(queue'), NEW u \in Threads PROVE queue'[i] \notin retired'[u]
  <2>1. SUFFICES ASSUME NEW d \in retired'[u], d = queue'[i] PROVE FALSE
    OBVIOUS
  <2>2. CASE Queued(d) /\ d \in retired[u]
    BY <1>a, <2>2 DEF QueueApart, Queued
  <2>3. CASE Queued(d) /\ d \in Carried(t)
    BY <1>a, <2>3 DEF QueueApart, Queued
  <2>4. CASE PutList(t) /\ d = reg[t].other
    BY <1>a, <1>b, <2>1, <2>4, PutDown DEF CarriedApart
  <2> QED
    BY <2>1, <2>2, <2>3, <2>4, QueueMoves, RetiredMoves
<1> QED
  BY <1>1, <1>2, <1>3 DEF QueueApart

(* ... and what is carried is carried by one thread and not retired.       *)
LEMMA CarriedApartStep ==
  ASSUME IInv, NEW t \in Threads, Act(t)
  PROVE  CarriedApart'
<1>a. CarriedApart
  BY DEF IInv, Apart
<1>1. ASSUME NEW u \in Threads \ {t} PROVE Carried(t)' \intersect Carried(u) = {}
  <2>1. SUFFICES ASSUME NEW d \in Carried(t)', d \in Carried(u) PROVE FALSE
    OBVIOUS
  <2>2. d \in Carried(t)
    BY <2>1, PickedUpAlone
  <2> QED
    BY <1>a, <2>1, <2>2 DEF CarriedApart
<1>2. \A u, v \in Threads : u # v => Carried(u)' \intersect Carried(v)' = {}
  BY <1>1, <1>a, OthersCarry DEF CarriedApart
<1>3. ASSUME NEW u \in Threads, NEW v \in Threads PROVE Carried(u)' \intersect retired'[v] = {}
  <2>1. SUFFICES ASSUME NEW d \in Carried(u)', d \in retired'[v] PROVE FALSE
    OBVIOUS
  <2>2. d \in Carried(u)
    <3>1. CASE u = t
      BY <2>1, <3>1, PickedUpAlone
    <3>2. CASE u # t
      BY <2>1, <3>2, OthersCarry
    <3> QED
      BY <3>1, <3>2
  <2>3. d \notin retired[v]
    BY <1>a, <2>2 DEF CarriedApart
  <2>4. d \in Carried(t) /\ Carried(t)' = {}
    BY <2>1, <2>3, RetiredMoves
  <2> QED
    BY <1>a, <2>1, <2>2, <2>4 DEF CarriedApart
<1>4. ASSUME NEW u \in Threads, NEW v \in Threads, u # v
      PROVE  retired'[u] \intersect retired'[v] = {}
  <2>1. SUFFICES ASSUME NEW d \in retired'[u], d \in retired'[v] PROVE FALSE
    OBVIOUS
  <2>2. (d \in retired[u] \/ (u = t /\ d \in Carried(t))) /\ (d \in retired[v] \/ (v = t /\ d \in Carried(t)))
    BY <2>1, RetiredMoves
  <2> QED
    BY <1>4, <1>a, <2>2 DEF CarriedApart
<1> QED
  BY <1>2, <1>3, <1>4 DEF CarriedApart

(* So a descriptor has one place at most after every step.                 *)
LEMMA ApartStep ==
  ASSUME IInv, NEW t \in Threads, Act(t)
  PROVE  Apart'
  BY ActiveApartStep, SlotsApartStep, QueueApartStep, CarriedApartStep DEF Apart

-----------------------------------------------------------------------------
(* No superblock is lost.                                                  *)

(* What leaves a heap or the list is carried from then on, ...             *)
LEMMA TakenIsCarried ==
  ASSUME IInv, NEW t \in Threads, Act(t), NEW d \in Descriptors,
         \/ \E h \in Heaps : active[h].desc = d /\ active'[h].desc # d
         \/ \E h \in Heaps : partial[h] = d /\ partial'[h] # d
         \/ Queued(d) /\ ~Queued(d)'
  PROVE  d \in Carried(t)'
<1>a. /\ pc \in [Threads -> Labels] /\ reg \in [Threads -> Regs] /\ LocalSet(t) /\ Types
      /\ active \in [Heaps -> ActiveWords] /\ partial \in [Heaps -> Descriptors \union {NULL}]
      /\ d # NULL /\ NoActive.desc = NULL
  BY NullAssumption DEF IInv, Types, TypeOK, LocalsSet, ActiveWords, NoActive
<1>1. ASSUME NEW h \in Heaps, active[h].desc = d, active'[h].desc # d PROVE d \in Carried(t)'
  <2>1. ReserveActive(t)
    <3>1. CASE UpdateActive(t)
      BY <1>1, <1>a, <3>1 DEF UpdateActive
    <3>2. CASE InstallNew(t)
      BY <1>1, <1>a, <3>2 DEF InstallNew
    <3> QED
      BY <1>1, <3>1, <3>2, WhoWrites
  <2>2. /\ h = reg[t].heap /\ active'[h] = Spend(active[h]) /\ pc'[t] = "pop_read"
        /\ reg' = [reg EXCEPT ![t].desc = active[h].desc,
                              ![t].last = (active[h].credits = 0), ![t].more = 0]
    <3>1. /\ pc[t] = "active" /\ active' = [active EXCEPT ![reg[t].heap] = Spend(@)]
          /\ reg' = [reg EXCEPT ![t].desc = active[reg[t].heap].desc,
                                ![t].last = (active[reg[t].heap].credits = 0), ![t].more = 0]
          /\ pc'[t] = "pop_read"
      BY <1>1, <1>a, <2>1 DEF ReserveActive, Goto
    <3>2. h = reg[t].heap
      BY <1>1, <1>a, <3>1
    <3> QED
      BY <1>1, <1>a, <3>1, <3>2
  <2>3. active[h].credits = 0
    BY <1>1, <1>a, <2>2 DEF Spend, ActiveWords
  <2>4. reg'[t].desc = d /\ reg'[t].last
    BY <1>1, <1>a, <2>2, <2>3 DEF Regs
  <2> QED
    BY <2>2, <2>4, CarriedNext DEF Pops
<1>2. ASSUME NEW h \in Heaps, partial[h] = d, partial'[h] # d PROVE d \in Carried(t)'
  <2>1. CASE PutPartial(t)
    <3>1. h = home[reg[t].desc] /\ pc'[t] = "put_list" /\ reg'[t].other = d
      BY <1>2, <1>a, <2>1 DEF PutPartial, Goto, Regs
    <3> QED
      BY <3>1, CarriedNext DEF Carries, Pops, Lists, Updates
  <2>2. CASE GetPartial(t)
    <3>1. pc'[t] = "reserve" /\ reg'[t].desc = d
      BY <1>2, <1>a, <2>2 DEF GetPartial, Goto, Regs
    <3> QED
      BY <3>1, CarriedNext DEF Carries
  <2>3. CASE RemoveEmpty(t)
    <3>1. pc'[t] = "retire" /\ reg'[t].desc = d
      BY <1>2, <1>a, <2>3 DEF RemoveEmpty, Goto
    <3> QED
      BY <3>1, CarriedNext DEF Carries
  <2> QED
    BY <1>2, <2>1, <2>2, <2>3, WhoWrites
<1>3. ASSUME Queued(d), ~Queued(d)' PROVE d \in Carried(t)'
  <2>1. queue' # queue
    BY <1>3 DEF Queued
  <2>2. PICK i \in 1 .. Len(queue) : queue[i] = d
    BY <1>3 DEF Queued
  <2>3. Len(queue) \in Nat
    BY <1>a, QueueElements
  <2>4. ASSUME queue # <<>>, queue' = Tail(queue)
        PROVE  d = Head(queue) /\ Head(queue) \in Descriptors
    <3>1. /\ Head(queue) = queue[1] /\ Len(queue') = Len(queue) - 1 /\ Head(queue) \in Descriptors
          /\ \A j \in 1 .. Len(queue') : queue'[j] = queue[j + 1]
      BY <2>4, <1>a, QueueHead
    <3>2. CASE i = 1
      BY <2>2, <3>1, <3>2
    <3>3. CASE i # 1
      <4>1. i - 1 \in 1 .. Len(queue') /\ (i - 1) + 1 = i
        BY <2>3, <3>1, <3>3
      <4>2. queue'[i - 1] = d
        BY <2>2, <3>1, <4>1
      <4> QED
        BY <1>3, <4>1, <4>2 DEF Queued
    <3> QED
      BY <3>2, <3>3
  <2>5. CASE PutList(t)
    <3>1. reg[t].other \in Descriptors /\ queue' = Append(queue, reg[t].other)
      BY <2>1, <2>5, <1>a DEF PutList, LocalSet
    <3>2. Len(queue') = Len(queue) + 1 /\ queue'[i] = queue[i]
      BY <1>a, <3>1, QueueAppend
    <3>3. i \in 1 .. Len(queue')
      BY <2>3, <3>2
    <3> QED
      BY <1>3, <2>2, <3>2, <3>3 DEF Queued
  <2>6. CASE GetList(t)
    <3>1. Dequeued(t) /\ reg' = [reg EXCEPT ![t].desc = Head(queue)] /\ pc'[t] = "reserve"
      BY <1>a, <2>1, <2>6 DEF GetList, DequeuedNothing, Goto
    <3>2. reg'[t].desc = d
      BY <1>a, <2>4, <3>1 DEF Dequeued, Regs
    <3> QED
      BY <3>1, <3>2, CarriedNext DEF Carries
  <2>7. CASE ListRemove(t)
    <3>1. Dequeued(t) /\ reg' = [reg EXCEPT ![t].other = Head(queue)] /\ pc'[t] = "list_check"
      BY <1>a, <2>1, <2>7 DEF ListRemove, DequeuedNothing, Goto
    <3>2. reg'[t].other = d
      BY <1>a, <2>4, <3>1 DEF Dequeued, Regs
    <3> QED
      BY <3>1, <3>2, CarriedNext DEF Carries, Pops, Lists, Updates
  <2> QED
    BY <2>1, <2>5, <2>6, <2>7, WhoWrites
<1> QED
  BY <1>1, <1>2, <1>3

(* ... and what a thread no longer carries lies in a heap or on the list,  *)
(* unless it has become full or is empty or an allocation was refused.     *)
LEMMA PutSomewhere ==
  ASSUME IInv, NEW t \in Threads, Act(t), NEW d \in Carried(t), d \notin Carried(t)'
  PROVE  \/ \E h \in Heaps : active'[h].desc = d \/ partial'[h] = d
         \/ Queued(d)'
         \/ anchor'[d].state \in {"FULL", "EMPTY"}
         \/ ~InUse(d)
         \/ osFailures' > 0 /\ anchor[d].state # "ACTIVE" /\ anchor' = anchor
<1>a. /\ pc \in [Threads -> Labels] /\ reg \in [Threads -> Regs] /\ LocalSet(t) /\ Types
      /\ active \in [Heaps -> ActiveWords] /\ partial \in [Heaps -> Descriptors \union {NULL}]
      /\ anchor \in [Descriptors -> Anchors] /\ d \in Descriptors /\ osFailures \in Nat
  BY CarriedTypes DEF IInv, Types, TypeOK, LocalsSet, ActiveWords
<1>b. IF pc[t] \in Carries \/ (pc[t] \in Pops /\ (reg[t].last \/ reg[t].more > 0))
      THEN d = reg[t].desc
      ELSE pc[t] \in Lists /\ d = reg[t].other
  BY CarriedIs
<1>c. /\ pc'[t] \in Carries \/ (pc'[t] \in Pops /\ (reg'[t].last \/ reg'[t].more > 0)) => d # reg'[t].desc
      /\ ~(pc'[t] \in Carries \/ pc'[t] \in Pops) /\ pc'[t] \in Lists => d # reg'[t].other
  BY CarriedNext
<1>d. pc[t] \in Carries \union Pops \union Lists
  BY <1>b
<1> USE <1>a DEF Goto, Carries, Lists, Pops, Updates, Puts
<1>1. CASE BeginMalloc(t)
  BY <1>1, <1>b, <1>c, <1>d DEF BeginMalloc
<1>2. CASE BeginFree(t)
  BY <1>2, <1>b, <1>c, <1>d DEF BeginFree
<1>3. CASE ReserveActive(t)
  BY <1>3, <1>b, <1>c, <1>d DEF ReserveActive
<1>4. CASE PopRead(t)
  BY <1>4, <1>b, <1>c, <1>d DEF PopRead, Regs
<1>5. CASE PopNext(t)
  BY <1>5, <1>b, <1>c, <1>d DEF PopNext, Regs
<1>6. CASE PopCas(t)
  <2>1. d = reg[t].desc /\ (reg[t].last => reg[t].more = 0) /\ (reg[t].last \/ reg[t].more > 0)
    BY <1>6, <1>b DEF PopCas, LocalSet
  <2>2. reg'[t].desc = reg[t].desc
    BY <1>6 DEF PopCas, Regs
  <2>3. pc'[t] \notin {"pop_read", "update_active"}
    <3>1. CASE UNCHANGED reg
      BY <1>6, <1>c, <2>1, <3>1 DEF PopCas
    <3>2. CASE pc'[t] \in {"update_active", "return"}
      BY <1>c, <2>1, <2>2, <3>2
    <3> QED
      BY <1>6, <3>1, <3>2 DEF PopCas
  <2>4. CreditsTaken(reg[t]) \in Int /\ ~(CreditsTaken(reg[t]) > 0) /\ anchor' = [anchor EXCEPT ![d] = PoppedAnchor(reg[t])]
    BY <1>6, <2>1, <2>3, CreditsFit DEF PopCas
  <2>5. reg[t].last /\ reg[t].old.count = 0
    <3>1. reg[t].old.count \in Nat /\ reg[t].more \in Nat
      BY DEF Regs, Anchors, Blocks
    <3>2. reg[t].last
      BY <2>1, <2>4, <3>1, CreditsFit
    <3> QED
      BY <2>4, <3>1, <3>2, CreditsFit
  <2>6. anchor'[d].state = "FULL"
    BY <2>4, <2>5 DEF PoppedAnchor
  <2> QED
    BY <2>6
<1>7. CASE UpdateActive(t)
  <2>1. /\ active' = [active EXCEPT ![reg[t].heap] = ActiveWord(reg[t].desc, reg[t].more)]
        /\ reg[t].heap \in Heaps /\ d = reg[t].desc
    BY <1>7, <1>b, <1>c DEF UpdateActive, LocalSet, Searches
  <2>2. active'[reg[t].heap].desc = d
    BY <2>1 DEF ActiveWord
  <2> QED
    BY <2>1, <2>2
<1>8. CASE ReturnCredits(t)
  <2>1. reg'[t].desc = reg[t].desc /\ d = reg[t].desc /\ pc'[t] = "put_partial"
    BY <1>8, <1>b DEF ReturnCredits, Regs
  <2> QED
    BY <1>c, <2>1
<1>9. CASE PutPartial(t)
  <2>1. d = reg[t].desc /\ home[reg[t].desc] \in Heaps
    BY <1>9, <1>b, HasHome DEF PutPartial
  <2>2. partial'[home[reg[t].desc]] = d
    BY <1>9, <2>1 DEF PutPartial
  <2> QED
    BY <2>1, <2>2
<1>10. CASE PutList(t)
  <2>1. d = reg[t].other /\ pc[t] = "put_list"
    BY <1>10, <1>b DEF PutList
  <2>2. CASE queue' = Append(queue, reg[t].other)
    <3>1. Len(queue') = Len(queue) + 1 /\ queue'[Len(queue) + 1] = d
      BY <2>1, <2>2, QueueAppend
    <3>2. Len(queue) + 1 \in 1 .. Len(queue')
      BY <3>1, QueueElements
    <3> QED
      BY <3>1, <3>2 DEF Queued
  <2>3. CASE OsRefuses(t)
    <3>1. osFailures' > 0
      BY <2>3 DEF OsRefuses
    <3>2. anchor[d].state # "ACTIVE"
      BY <2>1 DEF IInv, Status, ListsPartial, PartlyFree
    <3>3. anchor' = anchor
      BY <1>10 DEF PutList, blockVars
    <3> QED
      BY <3>1, <3>2, <3>3
  <2> QED
    BY <1>10, <2>2, <2>3 DEF PutList
<1>11. CASE ReturnBlock(t)
  BY <1>11, <1>b, <1>c, <1>d DEF ReturnBlock, Finish
<1>12. CASE GetPartial(t)
  BY <1>12, <1>b, <1>c, <1>d DEF GetPartial
<1>13. CASE GetList(t)
  BY <1>13, <1>b, <1>c, <1>d DEF GetList
<1>14. CASE Reserve(t)
  <2>1. d = reg[t].desc /\ pc[t] = "reserve"
    BY <1>14, <1>b DEF Reserve
  <2>2. reg'[t].desc = reg[t].desc
    BY <1>14 DEF Reserve, Regs
  <2>3. CASE anchor[d].state = "EMPTY"
    BY <1>14, <2>1, <2>2, <2>3, <1>c DEF Reserve
  <2>4. CASE anchor[d].state # "EMPTY"
    <3>1. /\ anchor' = [anchor EXCEPT ![d].count = @ - (BatchBesides(anchor[d]) + 1),
                            ![d].state = IF BatchBesides(anchor[d]) > 0 THEN "ACTIVE" ELSE "FULL"]
          /\ reg' = [reg EXCEPT ![t].last = FALSE, ![t].more = BatchBesides(anchor[d])]
          /\ pc'[t] = "pop_read"
      BY <1>14, <2>1, <2>4 DEF Reserve
    <3>2. reg'[t].more = BatchBesides(anchor[d])
      BY <3>1 DEF Regs
    <3>3. ~(BatchBesides(anchor[d]) > 0)
      BY <1>c, <2>1, <2>2, <3>1, <3>2
    <3>4. anchor'[d].state = "FULL"
      BY <3>1, <3>3 DEF Anchors
    <3> QED
      BY <3>4
  <2> QED
    BY <2>3, <2>4
<1>15. CASE Retire(t)
  <2>1. d = reg[t].desc /\ pc[t] = "retire"
    BY <1>15, <1>b DEF Retire
  <2> QED
    BY <2>1 DEF IInv, Status, Leaving, Gone
<1>16. CASE NewSuperblock(t)
  BY <1>16, <1>b, <1>c, <1>d DEF NewSuperblock
<1>17. CASE InstallNew(t)
  <2>1. d = reg[t].desc /\ pc'[t] # "discard" /\ reg[t].heap \in Heaps
    BY <1>17, <1>b, <1>c DEF InstallNew, LocalSet, Searches
  <2>2. active'[reg[t].heap].desc = d
    BY <1>17, <2>1 DEF InstallNew, ActiveWord
  <2> QED
    BY <2>1, <2>2
<1>18. CASE Discard(t)
  <2>1. d = reg[t].desc /\ pc'[t] = "retire"
    BY <1>18, <1>b DEF Discard
  <2>2. reg'[t].desc = d
    BY <1>18, <2>1 DEF Discard, Regs
  <2> QED
    BY <1>c, <2>1, <2>2
<1>19. CASE CheckError(t)
  BY <1>19, <1>b, <1>c, <1>d DEF CheckError, Finish
<1>20. CASE FreeRead(t)
  BY <1>20, <1>b, <1>c, <1>d DEF FreeRead
<1>21. CASE FreeLink(t)
  BY <1>21, <1>b, <1>c, <1>d DEF FreeLink
<1>22. CASE FreeCas(t)
  BY <1>22, <1>b, <1>c, <1>d DEF FreeCas, Finish
<1>23. CASE UnmapEmpty(t)
  BY <1>23, <1>b, <1>c, <1>d DEF UnmapEmpty
<1>24. CASE RemoveEmpty(t)
  BY <1>24, <1>b, <1>c, <1>d DEF RemoveEmpty
<1>25. CASE ListRemove(t)
  BY <1>25, <1>b, <1>c, <1>d DEF ListRemove, Finish
<1>26. CASE ListCheck(t)
  <2>1. d = reg[t].other /\ reg' = reg /\ anchor' = anchor /\ pc[t] = "list_check"
    BY <1>26, <1>b DEF ListCheck, blockVars
  <2>2. anchor[d].state = "EMPTY"
    BY <1>26, <1>c, <2>1 DEF ListCheck
  <2> QED
    BY <2>1, <2>2
<1> QED
  BY <1>1, <1>2, <1>3, <1>4, <1>5, <1>6, <1>7, <1>8, <1>9, <1>10, <1>11, <1>12, <1>13,
     <1>14, <1>15, <1>16, <1>17, <1>18, <1>19, <1>20, <1>21, <1>22, <1>23, <1>24, <1>25,
     <1>26 DEF Act, Step

(* Refusals are counted.                                                   *)
LEMMA OsFailuresGrow ==
  ASSUME NEW t \in Threads, Act(t)
  PROVE  osFailures' = osFailures \/ osFailures' = osFailures + 1
<1> USE DEF boundVars, OsGrants, OsRefuses, Dequeued, DequeuedNothing
<1>1. CASE BeginMalloc(t)
  BY <1>1 DEF BeginMalloc
<1>2. CASE BeginFree(t)
  BY <1>2 DEF BeginFree
<1>3. CASE ReserveActive(t)
  BY <1>3 DEF ReserveActive
<1>4. CASE PopRead(t)
  BY <1>4 DEF PopRead
<1>5. CASE PopNext(t)
  BY <1>5 DEF PopNext
<1>6. CASE PopCas(t)
  BY <1>6 DEF PopCas
<1>7. CASE UpdateActive(t)
  BY <1>7 DEF UpdateActive
<1>8. CASE ReturnCredits(t)
  BY <1>8 DEF ReturnCredits
<1>9. CASE PutPartial(t)
  BY <1>9 DEF PutPartial
<1>10. CASE PutList(t)
  BY <1>10, QueueCalls DEF PutList
<1>11. CASE ReturnBlock(t)
  BY <1>11 DEF ReturnBlock
<1>12. CASE GetPartial(t)
  BY <1>12 DEF GetPartial
<1>13. CASE GetList(t)
  BY <1>13, QueueCalls DEF GetList
<1>14. CASE Reserve(t)
  BY <1>14 DEF Reserve
<1>15. CASE Retire(t)
  BY <1>15 DEF Retire
<1>16. CASE NewSuperblock(t)
  BY <1>16 DEF NewSuperblock
<1>17. CASE InstallNew(t)
  BY <1>17 DEF InstallNew
<1>18. CASE Discard(t)
  BY <1>18 DEF Discard
<1>19. CASE CheckError(t)
  BY <1>19 DEF CheckError
<1>20. CASE FreeRead(t)
  BY <1>20 DEF FreeRead
<1>21. CASE FreeLink(t)
  BY <1>21 DEF FreeLink
<1>22. CASE FreeCas(t)
  BY <1>22 DEF FreeCas
<1>23. CASE UnmapEmpty(t)
  BY <1>23 DEF UnmapEmpty
<1>24. CASE RemoveEmpty(t)
  BY <1>24 DEF RemoveEmpty
<1>25. CASE ListRemove(t)
  BY <1>25, QueueCalls DEF ListRemove
<1>26. CASE ListCheck(t)
  BY <1>26 DEF ListCheck
<1> QED
  BY <1>1, <1>2, <1>3, <1>4, <1>5, <1>6, <1>7, <1>8, <1>9, <1>10, <1>11, <1>12, <1>13,
     <1>14, <1>15, <1>16, <1>17, <1>18, <1>19, <1>20, <1>21, <1>22, <1>23, <1>24, <1>25,
     <1>26 DEF Act, Step

(* A superblock comes into use when it is installed.                       *)
LEMMA InUseBefore ==
  ASSUME IInv, NEW t \in Threads, Act(t), NEW d \in Descriptors, InUse(d)'
  PROVE  InUse(d) \/ (InstallNew(t) /\ pc'[t] = "return" /\ d = reg[t].desc)
<1>a. Types /\ OnlyThread(t) /\ Knowledge
  BY StepOfOne DEF IInv
<1>1. CASE Settled(d)
  BY <1>1, GoneStep DEF Gone
<1>2. CASE d \in pool
  <2>1. CASE d \in pool'
    BY <2>1, PoolUnknownStep DEF PoolUnknown, InUse
  <2>2. CASE d \notin pool'
    <3>1. NewSuperblock(t) /\ ~mapped[d]
      BY <1>2, <1>a, <2>2, PoolStep DEF Knowledge, PoolUnknown
    <3>2. (pc'[t] = "install" /\ reg'[t].desc = d) \/ mapped' = mapped
      BY <1>2, <2>2, <3>1, NewStep DEF blockVars
    <3> QED
      BY <3>1, <3>2 DEF InUse, Private
  <2> QED
    BY <2>1, <2>2
<1>3. CASE Private(d)
  <2>1. PICK u \in Threads : pc[u] \in {"install", "discard"} /\ reg[u].desc = d
    BY <1>3 DEF Private
  <2>2. u = t
    <3>1. u # t => pc'[u] = pc[u] /\ reg'[u] = reg[u]
      BY <1>a DEF OnlyThread
    <3> QED
      BY <2>1, <3>1 DEF InUse, Private
  <2>3. CASE pc[t] = "install"
    <3>1. InstallNew(t)
      BY <2>3, ActionAt
    <3>2. pc'[t] = "return" \/ (pc'[t] = "discard" /\ reg' = reg)
      BY <1>a, <3>1 DEF InstallNew, Goto, Types, LocalsSet
    <3> QED
      BY <2>1, <2>2, <3>1, <3>2 DEF InUse, Private
  <2>4. CASE pc[t] = "discard"
    <3>1. mapped' = [mapped EXCEPT ![d] = FALSE]
      BY <2>1, <2>2, <2>4, ActionAt DEF Discard
    <3> QED
      BY <1>a, <3>1 DEF InUse, Types, TypeOK
  <2> QED
    BY <2>1, <2>2, <2>3, <2>4
<1> QED
  BY <1>1, <1>2, <1>3 DEF Settled

(* After every step something leads to each superblock in use that still   *)
(* has blocks: to a partial one as long as the system has refused no       *)
(* memory, for a refused call forgets the descriptor it has reserved from. *)
LEMMA NoneLostStep ==
  ASSUME IInv, NEW t \in Threads, Act(t)
  PROVE  NoneLost'
<1> SUFFICES ASSUME NEW d \in Descriptors, InUse(d)',
                    \/ anchor'[d].state = "ACTIVE"
                    \/ anchor'[d].state = "PARTIAL" /\ osFailures' = 0
             PROVE  Reachable(d)'
  BY DEF NoneLost
<1>a. Types /\ NoneLost /\ anchor \in [Descriptors -> Anchors]
  BY DEF IInv, Types, TypeOK
<1>1. CASE InstallNew(t) /\ pc'[t] = "return" /\ d = reg[t].desc
  <2>1. reg[t].heap \in Heaps /\ active \in [Heaps -> ActiveWords]
        /\ active' = [active EXCEPT ![reg[t].heap] = ActiveWord(reg[t].desc, FirstCredits + 1)]
    BY <1>1, <1>a, Installed DEF Types, TypeOK, ActiveWords
  <2>2. active'[reg[t].heap].desc = d
    BY <1>1, <2>1 DEF ActiveWord
  <2> QED
    BY <2>1, <2>2 DEF Reachable
<1>2. CASE d \in Carried(t)'
  BY <1>2 DEF Reachable
<1>3. CASE InUse(d) /\ d \notin Carried(t)'
  <2>1. Reachable(d)
    <3>1. CASE anchor'[d] = anchor[d]
      <4>1. osFailures' = 0 => osFailures = 0
        <5>1. osFailures \in Nat /\ (osFailures' = osFailures \/ osFailures' = osFailures + 1)
          <6>1. osFailures \in Nat
            BY <1>a DEF Types, TypeOK
          <6> QED
            BY <6>1, OsFailuresGrow
        <5> QED
          BY <5>1
      <4> QED
        BY <1>3, <1>a, <3>1, <4>1 DEF NoneLost
    <3>2. CASE PopCas(t) /\ reg[t].desc = d /\ anchor[d] = reg[t].old
               /\ anchor'[d] = PoppedAnchor(reg[t])
      <4>1. anchor[d].state = anchor'[d].state
        BY <3>2 DEF PoppedAnchor
      <4>2. osFailures' = osFailures
        BY <3>2 DEF PopCas, boundVars
      <4> QED
        BY <1>3, <1>a, <4>1, <4>2 DEF NoneLost
    <3>3. CASE ReturnCredits(t) /\ reg[t].desc = d
      <4>1. pc'[t] = "put_partial" /\ reg'[t].desc = d
        BY <1>a, <3>3 DEF ReturnCredits, Goto, Regs, Types, TypeOK, LocalsSet
      <4> QED
        BY <1>3, <4>1, CarriedNext DEF Carries
    <3>4. CASE Reserve(t) /\ reg[t].desc = d /\ anchor[d].state # "EMPTY"
      <4>1. /\ anchor' = [anchor EXCEPT ![d].count = @ - (BatchBesides(anchor[d]) + 1),
                              ![d].state = IF BatchBesides(anchor[d]) > 0 THEN "ACTIVE" ELSE "FULL"]
            /\ reg' = [reg EXCEPT ![t].last = FALSE, ![t].more = BatchBesides(anchor[d])]
            /\ pc'[t] = "pop_read"
        BY <1>a, <3>4 DEF Reserve, Goto, Types, LocalsSet
      <4>2. BatchBesides(anchor[d]) > 0
        BY <1>a, <4>1 DEF Anchors
      <4>3. reg'[t].desc = d /\ reg'[t].more > 0
        BY <1>a, <3>4, <4>1, <4>2 DEF Regs, Types, TypeOK
      <4> QED
        BY <1>3, <4>1, <4>3, CarriedNext DEF Pops
    <3>5. CASE /\ FreeCas(t) /\ reg[t].desc = d /\ anchor[d] = reg[t].old
               /\ anchor'[d] = FreedAnchor(anchor[d], reg[t].block)
      <4>1. CASE anchor[d].state = anchor'[d].state
        <5>1. osFailures' = osFailures
          BY <3>5 DEF FreeCas, boundVars
        <5> QED
          BY <1>3, <1>a, <4>1, <5>1 DEF NoneLost
      <4>2. CASE anchor[d].state = "FULL" /\ anchor'[d].state = "PARTIAL"
        <5>1. pc'[t] = "put_partial" /\ reg' = reg
          <6>1. anchor'[d] # anchor[d] /\ FreedAnchor(reg[t].old, reg[t].block).state # "EMPTY"
                /\ reg[t].old.state = "FULL"
            BY <3>5, <4>2
          <6>2. anchor' # anchor
            BY <6>1
          <6> QED
            BY <1>a, <3>5, <6>1, <6>2 DEF FreeCas, Goto, Types, LocalsSet
        <5> QED
          BY <1>3, <3>5, <5>1, CarriedNext DEF Carries
      <4>3. anchor[d].state = anchor'[d].state
            \/ (anchor[d].state = "FULL" /\ anchor'[d].state = "PARTIAL")
        BY <3>5 DEF FreedAnchor
      <4> QED
        BY <4>1, <4>2, <4>3
    <3> QED
      BY <1>3, <3>1, <3>2, <3>3, <3>4, <3>5, InUseSettled, AnchorMoves
  <2>2. CASE \E h \in Heaps : active[h].desc = d \/ partial[h] = d
    BY <1>3, <2>2, TakenIsCarried DEF Reachable
  <2>3. CASE Queued(d)
    BY <1>3, <2>3, TakenIsCarried DEF Reachable
  <2>4. CASE \E u \in Threads \ {t} : d \in Carried(u)
    BY <2>4, OthersCarry DEF Reachable
  <2>5. CASE d \in Carried(t)
    <3>1. osFailures' > 0 /\ anchor' = anchor /\ anchor[d].state # "ACTIVE" => FALSE
      OBVIOUS
    <3>2. anchor'[d].state \notin {"FULL", "EMPTY"}
      OBVIOUS
    <3> QED
      BY <1>3, <2>5, <3>1, <3>2, PutSomewhere DEF Reachable
  <2> QED
    BY <2>1, <2>2, <2>3, <2>4, <2>5 DEF Reachable
<1> QED
  BY <1>1, <1>2, <1>3, InUseBefore

-----------------------------------------------------------------------------
(* The tags.                                                               *)

(* A call that has not popped its block yet is pending.                    *)
LEMMA PendingStep ==
  ASSUME IInv, NEW t \in Threads, Act(t)
  PROVE  /\ BeginMalloc(t) => mallocs' = mallocs + 1 /\ Pending' = Pending \union {t} /\ t \notin Pending
         /\ ~BeginMalloc(t) => mallocs' = mallocs /\ Pending' \subseteq Pending
         /\ PopCas(t) /\ anchor' # anchor => t \in Pending /\ t \notin Pending'
<1>a. /\ pc \in [Threads -> Labels] /\ reg \in [Threads -> Regs] /\ LocalSet(t) /\ OnlyThread(t)
      /\ (pc[t] = "retire" => reg[t].then \in {"idle", "get_partial", "check_error"})
      /\ (pc[t] \in Puts => reg[t].then \in {"idle", "return"})
  BY StepOfOne DEF IInv, Types, TypeOK, LocalsSet, LocalSet
<1>b. ASSUME ~BeginMalloc(t), t \in Pending' PROVE t \in Pending
  <2> USE <1>a DEF Goto, Pending, Searches, Pops, Puts
<2>1. CASE BeginMalloc(t)
    BY <2>1, <1>b DEF BeginMalloc
<2>2. CASE BeginFree(t)
    BY <2>2, <1>b DEF BeginFree
<2>3. CASE ReserveActive(t)
    BY <2>3, <1>b DEF ReserveActive
<2>4. CASE PopRead(t)
    BY <2>4, <1>b DEF PopRead
<2>5. CASE PopNext(t)
    BY <2>5, <1>b DEF PopNext
<2>6. CASE PopCas(t)
    BY <2>6, <1>b DEF PopCas
<2>7. CASE UpdateActive(t)
    BY <2>7, <1>b DEF UpdateActive
<2>8. CASE ReturnCredits(t)
    BY <2>8, <1>b DEF ReturnCredits
<2>9. CASE PutPartial(t)
    BY <2>9, <1>b DEF PutPartial, Resume, Finish, LocalSet
<2>10. CASE PutList(t)
    BY <2>10, <1>b DEF PutList, Resume, Finish, LocalSet
<2>11. CASE ReturnBlock(t)
    BY <2>11, <1>b DEF ReturnBlock, Finish
<2>12. CASE GetPartial(t)
    BY <2>12, <1>b DEF GetPartial
<2>13. CASE GetList(t)
    BY <2>13, <1>b DEF GetList
<2>14. CASE Reserve(t)
    BY <2>14, <1>b DEF Reserve, Regs
<2>15. CASE Retire(t)
    BY <2>15, <1>b DEF Retire, Resume, Finish
<2>16. CASE NewSuperblock(t)
    BY <2>16, <1>b DEF NewSuperblock
<2>17. CASE InstallNew(t)
    BY <2>17, <1>b DEF InstallNew
<2>18. CASE Discard(t)
    BY <2>18, <1>b DEF Discard, Regs
<2>19. CASE CheckError(t)
    BY <2>19, <1>b DEF CheckError, Finish
<2>20. CASE FreeRead(t)
    BY <2>20, <1>b DEF FreeRead
<2>21. CASE FreeLink(t)
    BY <2>21, <1>b DEF FreeLink
<2>22. CASE FreeCas(t)
    BY <2>22, <1>b DEF FreeCas, Finish
<2>23. CASE UnmapEmpty(t)
    BY <2>23, <1>b DEF UnmapEmpty
<2>24. CASE RemoveEmpty(t)
    BY <2>24, <1>b DEF RemoveEmpty, LocalSet
<2>25. CASE ListRemove(t)
    BY <2>25, <1>b DEF ListRemove, Finish
<2>26. CASE ListCheck(t)
    BY <2>26, <1>b DEF ListCheck
<2> QED
    BY <2>1, <2>2, <2>3, <2>4, <2>5, <2>6, <2>7, <2>8, <2>9, <2>10, <2>11, <2>12, <2>13,
       <2>14, <2>15, <2>16, <2>17, <2>18, <2>19, <2>20, <2>21, <2>22, <2>23, <2>24, <2>25,
       <2>26 DEF Act, Step
<1>1. ASSUME ~BeginMalloc(t) PROVE Pending' \subseteq Pending
  BY <1>a, <1>1, <1>b DEF Pending, OnlyThread
<1>2. ASSUME BeginMalloc(t)
      PROVE  Pending' = Pending \union {t} /\ t \notin Pending /\ mallocs' = mallocs + 1
  <2>1. pc[t] = "idle" /\ pc'[t] = "active" /\ mallocs' = mallocs + 1
    BY <1>a, <1>2 DEF BeginMalloc, Goto
  <2>2. \A u \in Threads \ {t} : pc'[u] = pc[u] /\ reg'[u] = reg[u]
    BY <1>a DEF OnlyThread
  <2> QED
    BY <2>1, <2>2 DEF Pending, Searches, Pops
<1>3. ASSUME PopCas(t), anchor' # anchor PROVE t \in Pending /\ t \notin Pending'
  BY <1>a, <1>3 DEF PopCas, Pending, Searches, Pops, Goto
<1>4. ~BeginMalloc(t) => mallocs' = mallocs
  <2> USE DEF boundVars, OsGrants, OsRefuses
<2>1. CASE BeginMalloc(t)
  BY <2>1
<2>2. CASE BeginFree(t)
    BY <2>2 DEF BeginFree
<2>3. CASE ReserveActive(t)
    BY <2>3 DEF ReserveActive
<2>4. CASE PopRead(t)
    BY <2>4 DEF PopRead
<2>5. CASE PopNext(t)
    BY <2>5 DEF PopNext
<2>6. CASE PopCas(t)
    BY <2>6 DEF PopCas
<2>7. CASE UpdateActive(t)
    BY <2>7 DEF UpdateActive
<2>8. CASE ReturnCredits(t)
    BY <2>8 DEF ReturnCredits
<2>9. CASE PutPartial(t)
    BY <2>9 DEF PutPartial
<2>10. CASE PutList(t)
    BY <2>10, QueueCalls DEF PutList
<2>11. CASE ReturnBlock(t)
    BY <2>11 DEF ReturnBlock
<2>12. CASE GetPartial(t)
    BY <2>12 DEF GetPartial
<2>13. CASE GetList(t)
    BY <2>13, QueueCalls DEF GetList
<2>14. CASE Reserve(t)
    BY <2>14 DEF Reserve
<2>15. CASE Retire(t)
    BY <2>15 DEF Retire
<2>16. CASE NewSuperblock(t)
    BY <2>16 DEF NewSuperblock
<2>17. CASE InstallNew(t)
    BY <2>17 DEF InstallNew
<2>18. CASE Discard(t)
    BY <2>18 DEF Discard
<2>19. CASE CheckError(t)
    BY <2>19 DEF CheckError
<2>20. CASE FreeRead(t)
    BY <2>20 DEF FreeRead
<2>21. CASE FreeLink(t)
    BY <2>21 DEF FreeLink
<2>22. CASE FreeCas(t)
    BY <2>22 DEF FreeCas
<2>23. CASE UnmapEmpty(t)
    BY <2>23 DEF UnmapEmpty
<2>24. CASE RemoveEmpty(t)
    BY <2>24 DEF RemoveEmpty
<2>25. CASE ListRemove(t)
    BY <2>25, QueueCalls DEF ListRemove
<2>26. CASE ListCheck(t)
    BY <2>26 DEF ListCheck
<2> QED
    BY <2>1, <2>2, <2>3, <2>4, <2>5, <2>6, <2>7, <2>8, <2>9, <2>10, <2>11, <2>12, <2>13,
       <2>14, <2>15, <2>16, <2>17, <2>18, <2>19, <2>20, <2>21, <2>22, <2>23, <2>24, <2>25,
       <2>26 DEF Act, Step
<1> QED
  BY <1>1, <1>2, <1>3, <1>4

(* The pending calls are finitely many.                                    *)
LEMMA PendingFinite ==
  /\ IsFiniteSet(Pending) /\ Cardinality(Pending) \in Nat
  /\ \A t \in Pending : IsFiniteSet(Pending \ {t}) /\ Cardinality(Pending \ {t}) = Cardinality(Pending) - 1
<1>1. IsFiniteSet(Pending)
  BY FiniteAssumption, FS_Subset DEF Pending
<1>2. Cardinality(Pending) \in Nat
  BY <1>1, FS_CardinalityType
<1> QED
  BY <1>1, <1>2, FS_RemoveElement

(* No tag comes round.                                                     *)
LEMMA TagGoesUp ==
  ASSUME IInv, NEW t \in Pending, NEW d \in Descriptors
  PROVE  NextTag(anchor[d].tag) = anchor[d].tag + 1
<1>1. Cardinality(Pending) \in Nat /\ Cardinality(Pending) >= 1
  <2>1. Cardinality(Pending \ {t}) \in Nat
    BY PendingFinite, FS_CardinalityType
  <2> QED
    BY <2>1, PendingFinite
<1>2. /\ anchor[d].tag \in Nat /\ mallocs \in Nat /\ mallocs <= MaxMallocs
      /\ anchor[d].tag + Cardinality(Pending) <= mallocs
  BY SizeAssumption DEF IInv, Types, TypeOK, Anchors, TagsCount
<1>3. anchor[d].tag + 1 \in 0 .. TagModulus - 1
  BY <1>1, <1>2, SizeAssumption, TagAssumption
<1> QED
  BY <1>3, SizeAssumption DEF NextTag

(* Only a pop changes the tag of a descriptor, and no two steps at once.   *)
LEMMA TagMoves ==
  ASSUME IInv, NEW t \in Threads, Act(t), NEW d \in Descriptors, anchor'[d].tag # anchor[d].tag
  PROVE  /\ PopCas(t) /\ pc[t] = "pop_cas" /\ reg[t].desc = d /\ anchor[d] = reg[t].old
         /\ anchor'[d] = PoppedAnchor(reg[t]) /\ anchor'[d].tag = anchor[d].tag + 1
<1>a. Types /\ Knowledge /\ anchor \in [Descriptors -> Anchors]
  BY DEF IInv, Types, TypeOK
<1>1. CASE Settled(d)
  <2>1. CASE PopCas(t) /\ pc[t] = "pop_cas" /\ reg[t].desc = d /\ anchor[d] = reg[t].old
             /\ anchor'[d] = PoppedAnchor(reg[t])
    <3>1. anchor'[d].tag = NextTag(anchor[d].tag)
      BY <2>1 DEF PoppedAnchor
    <3>2. t \in Pending
      BY <2>1 DEF Pending, Searches, Pops
    <3> QED
      BY <2>1, <3>1, <3>2, TagGoesUp
  <2>2. CASE anchor'[d] = [anchor[d] EXCEPT !.count = @ + reg[t].more, !.state = "PARTIAL"]
    BY <1>a, <2>2 DEF Anchors
  <2>3. CASE anchor'[d] = [anchor[d] EXCEPT
                             !.count = @ - (BatchBesides(anchor[d]) + 1),
                             !.state = IF BatchBesides(anchor[d]) > 0 THEN "ACTIVE" ELSE "FULL"]
    BY <1>a, <2>3 DEF Anchors
  <2>4. CASE anchor'[d] = FreedAnchor(anchor[d], reg[t].block)
    BY <2>4 DEF FreedAnchor
  <2> QED
    BY <1>1, <2>1, <2>2, <2>3, <2>4, AnchorMoves
<1>2. CASE d \in pool
  <2>1. CASE d \in pool'
    <3>1. reg[t].desc # d
      BY <1>2, <1>a DEF Knowledge, PoolUnknown, Unknown
    <3> QED
      BY <2>1, <3>1, MemoryStep
  <2>2. CASE d \notin pool'
    <3>1. NewSuperblock(t)
      BY <1>2, <2>2, PoolStep
    <3>2. anchor'[d] = NewAnchor(anchor[d].tag) \/ anchor' = anchor
      BY <1>2, <2>2, <3>1, NewStep DEF blockVars
    <3> QED
      BY <3>2 DEF NewAnchor
  <2> QED
    BY <2>1, <2>2
<1>3. CASE Private(d)
  <2>1. PICK u \in Threads : pc[u] \in {"install", "discard"} /\ reg[u].desc = d
    BY <1>3 DEF Private
  <2>2. Unknown(d, {u}) /\ d \notin pool
    BY <1>a, <2>1 DEF Knowledge, PrivateUnknown
  <2>3. ~(pc[t] \in {"pop_cas", "return_credits", "reserve", "free_cas"} /\ reg[t].desc = d)
    BY <2>1, <2>2 DEF Unknown
  <2> QED
    BY <2>2, <2>3, MemoryStep
<1> QED
  BY <1>1, <1>2, <1>3 DEF Settled

(* After every step no tag exceeds the calls that have popped.             *)
LEMMA TagsStep ==
  ASSUME IInv, NEW t \in Threads, Act(t)
  PROVE  TagsCount'
<1> SUFFICES ASSUME NEW d \in Descriptors PROVE anchor'[d].tag + Cardinality(Pending') <= mallocs'
  BY DEF TagsCount
<1>1. /\ anchor[d].tag \in Nat /\ mallocs \in Nat /\ Cardinality(Pending) \in Nat
      /\ anchor[d].tag + Cardinality(Pending) <= mallocs
  BY PendingFinite, SizeAssumption DEF IInv, Types, TypeOK, Anchors, TagsCount
<1>2. CASE BeginMalloc(t)
  <2>1. mallocs' = mallocs + 1 /\ Pending' = Pending \union {t} /\ t \notin Pending
    BY <1>2, PendingStep
  <2>2. Cardinality(Pending') = Cardinality(Pending) + 1
    BY <2>1, PendingFinite, FS_AddElement
  <2>3. anchor' = anchor
    BY <1>2 DEF BeginMalloc, blockVars
  <2> QED
    BY <1>1, <2>1, <2>2, <2>3
<1>3. CASE ~BeginMalloc(t) /\ anchor'[d].tag = anchor[d].tag
  <2>1. mallocs' = mallocs /\ Pending' \subseteq Pending
    BY <1>3, PendingStep
  <2>2. Cardinality(Pending') <= Cardinality(Pending) /\ Cardinality(Pending') \in Nat
    BY <2>1, PendingFinite, FS_Subset, FS_CardinalityType
  <2> QED
    BY <1>1, <1>3, <2>1, <2>2
<1>4. CASE ~BeginMalloc(t) /\ anchor'[d].tag # anchor[d].tag
  <2>1. PopCas(t) /\ anchor' # anchor /\ anchor'[d].tag = anchor[d].tag + 1
    BY <1>4, TagMoves
  <2>2. t \in Pending /\ t \notin Pending' /\ mallocs' = mallocs /\ Pending' \subseteq Pending
    BY <1>4, <2>1, PendingStep
  <2>3. Pending' \subseteq Pending \ {t}
    BY <2>2
  <2>4. IsFiniteSet(Pending \ {t}) /\ Cardinality(Pending \ {t}) = Cardinality(Pending) - 1
    BY <2>2, PendingFinite
  <2>5. Cardinality(Pending') <= Cardinality(Pending) - 1 /\ Cardinality(Pending') \in Nat
    BY <2>3, <2>4, FS_Subset, FS_CardinalityType
  <2> QED
    BY <1>1, <2>1, <2>2, <2>5
<1> QED
  BY <1>2, <1>3, <1>4

-----------------------------------------------------------------------------
(* Who holds which block.                                                  *)

(* The blocks the threads hold.                                            *)
Holds(u) ==
  pc[u] \in Updates \union Frees \union {"return"} \/ (pc[u] \in Puts /\ reg[u].then = "return")

(* The block a thread holds, now and after a step.                         *)
LEMMA InHandNext ==
  ASSUME NEW u \in Threads
  PROVE  /\ InHand(u) = IF Holds(u) THEN {<<reg[u].desc, reg[u].block>>} ELSE {}
         /\ InHand(u)' = IF Holds(u)' THEN {<<reg'[u].desc, reg'[u].block>>} ELSE {}
<1>1. InHand(u) = IF Holds(u) THEN {<<reg[u].desc, reg[u].block>>} ELSE {}
  BY DEF InHand, Holds, Updates, Frees, Puts
<1>2. InHand(u)' = IF Holds(u)' THEN {<<reg'[u].desc, reg'[u].block>>} ELSE {}
  BY DEF InHand, Holds, Updates, Frees, Puts
<1> QED
  BY <1>1, <1>2

(* The steps that change what a thread holds or what callers own.          *)
Popped(t) ==
  /\ PopCas(t) /\ pc[t] = "pop_cas" /\ anchor[reg[t].desc] = reg[t].old
  /\ InHand(t) = {} /\ InHand(t)' = {<<reg[t].desc, reg[t].block>>} /\ live' = live

Made(t) ==
  /\ InstallNew(t) /\ pc'[t] = "return"
  /\ InHand(t) = {} /\ InHand(t)' = {<<reg[t].desc, 0>>} /\ live' = live

GivenUp(t) ==
  /\ BeginFree(t) /\ InHand(t) = {}
  /\ \E b \in live : live' = live \ {b} /\ InHand(t)' = {b}

HandedOut(t) ==
  /\ ReturnBlock(t) /\ pc[t] = "return"
  /\ InHand(t) = {<<reg[t].desc, reg[t].block>>} /\ InHand(t)' = {}
  /\ live' = live \union {<<reg[t].desc, reg[t].block>>}

PushedBack(t) ==
  /\ FreeCas(t) /\ pc[t] = "free_cas" /\ anchor[reg[t].desc] = reg[t].old
  /\ InHand(t) = {<<reg[t].desc, reg[t].block>>} /\ InHand(t)' = {} /\ live' = live

(* A pop, an installation and a push that succeed are of the kinds above.  *)
LEMMA Changes ==
  ASSUME IInv, NEW t \in Threads, Act(t)
  PROVE  /\ PopCas(t) /\ anchor[reg[t].desc] = reg[t].old => Popped(t)
         /\ InstallNew(t) /\ pc'[t] = "return" => Made(t)
         /\ FreeCas(t) /\ anchor[reg[t].desc] = reg[t].old => PushedBack(t)
<1>a. pc \in [Threads -> Labels] /\ reg \in [Threads -> Regs] /\ LocalSet(t)
  BY DEF IInv, Types, TypeOK, LocalsSet
<1>b. /\ InHand(t) = IF Holds(t) THEN {<<reg[t].desc, reg[t].block>>} ELSE {}
      /\ InHand(t)' = IF Holds(t)' THEN {<<reg'[t].desc, reg'[t].block>>} ELSE {}
  BY InHandNext
<1> USE <1>a DEF Goto, Holds, Updates, Frees, Puts
<1>1. ASSUME PopCas(t), anchor[reg[t].desc] = reg[t].old PROVE Popped(t)
  <2>1. pc[t] = "pop_cas" /\ pc'[t] \in {"update_active", "return"} /\ live' = live
    BY <1>1 DEF PopCas
  <2>2. reg'[t].desc = reg[t].desc /\ reg'[t].block = reg[t].block
    BY <1>1 DEF PopCas, Regs
  <2>3. InHand(t) = {} /\ InHand(t)' = {<<reg[t].desc, reg[t].block>>}
    BY <1>b, <2>1, <2>2
  <2> QED
    BY <1>1, <2>1, <2>3 DEF Popped
<1>2. ASSUME InstallNew(t), pc'[t] = "return" PROVE Made(t)
  <2>1. reg'[t] = [reg[t] EXCEPT !.block = 0] /\ pc[t] = "install" /\ live' = live
    BY <1>2, Installed DEF InstallNew
  <2>2. reg'[t].desc = reg[t].desc /\ reg'[t].block = 0
    BY <2>1 DEF Regs
  <2>3. InHand(t) = {} /\ InHand(t)' = {<<reg[t].desc, 0>>}
    BY <1>b, <1>2, <2>1, <2>2
  <2> QED
    BY <1>2, <2>1, <2>3 DEF Made
<1>3. ASSUME FreeCas(t), anchor[reg[t].desc] = reg[t].old PROVE PushedBack(t)
  <2>1. pc[t] = "free_cas" /\ live' = live
    BY <1>3 DEF FreeCas
  <2>2. reg[t].then = "idle"
    BY <2>1 DEF LocalSet
  <2>3. \/ pc'[t] \in {"unmap", "idle"}
        \/ pc'[t] = "put_partial" /\ reg' = reg
    BY <1>3 DEF FreeCas, Finish
  <2>4. InHand(t) = {<<reg[t].desc, reg[t].block>>} /\ InHand(t)' = {}
    BY <1>b, <2>1, <2>2, <2>3
  <2> QED
    BY <1>3, <2>1, <2>4 DEF PushedBack
<1> QED
  BY <1>1, <1>2, <1>3

(* No other step changes what a thread holds or callers own, ...           *)
LEMMA InHandMoves ==
  ASSUME IInv, NEW t \in Threads, Act(t)
  PROVE  \/ InHand(t)' = InHand(t) /\ live' = live
         \/ Popped(t) \/ Made(t) \/ GivenUp(t) \/ HandedOut(t) \/ PushedBack(t)
<1>a. /\ pc \in [Threads -> Labels] /\ reg \in [Threads -> Regs] /\ LocalSet(t)
      /\ live \in SUBSET (Descriptors \X Blocks)
      /\ (pc[t] = "retire" => reg[t].then \in {"idle", "get_partial", "check_error"})
      /\ (pc[t] \in Puts => reg[t].then \in {"idle", "return"})
      /\ (pc[t] \in Frees \union {"list_remove", "list_check"} => reg[t].then = "idle")
  BY DEF IInv, Types, TypeOK, LocalsSet, LocalSet
<1> DEFINE hand == <<reg[t].desc, reg[t].block>>
<1>b. /\ InHand(t) = IF Holds(t) THEN {<<reg[t].desc, reg[t].block>>} ELSE {}
      /\ InHand(t)' = IF Holds(t)' THEN {<<reg'[t].desc, reg'[t].block>>} ELSE {}
  BY InHandNext
<1>c. /\ ~Holds(t) /\ ~Holds(t)' => InHand(t)' = InHand(t)
      /\ Holds(t) /\ Holds(t)' /\ reg'[t].desc = reg[t].desc /\ reg'[t].block = reg[t].block
           => InHand(t)' = InHand(t)
  BY <1>b
<1> USE <1>a DEF Goto, Holds, Updates, Frees, Puts
<1>1. CASE BeginMalloc(t)
  BY <1>1, <1>c DEF BeginMalloc, Regs
<1>2. CASE BeginFree(t)
  <2>1. PICK b \in live : live' = live \ {b} /\ reg' = [reg EXCEPT ![t].desc = b[1], ![t].block = b[2]]
    BY <1>2 DEF BeginFree
  <2>2. b = <<b[1], b[2]>>
    BY <1>a
  <2>3. reg'[t].desc = b[1] /\ reg'[t].block = b[2]
    BY <2>1 DEF Regs
  <2>4. pc[t] = "idle" /\ pc'[t] = "free_read"
    BY <1>2 DEF BeginFree
  <2>5. InHand(t) = {} /\ InHand(t)' = {b}
    BY <1>b, <2>2, <2>3, <2>4
  <2> QED
    BY <1>2, <2>1, <2>5 DEF GivenUp
<1>3. CASE ReserveActive(t)
  BY <1>3, <1>c DEF ReserveActive, Regs
<1>4. CASE PopRead(t)
  BY <1>4, <1>c DEF PopRead, Regs
<1>5. CASE PopNext(t)
  BY <1>5, <1>c DEF PopNext, Regs
<1>6. CASE PopCas(t)
  <2>1. CASE anchor[reg[t].desc] # reg[t].old
    <3>1. pc[t] = "pop_cas" /\ pc'[t] = "pop_read" /\ live' = live
      BY <1>6, <2>1 DEF PopCas
    <3> QED
      BY <1>c, <3>1
  <2> QED
    BY <1>6, <2>1, Changes
<1>7. CASE UpdateActive(t)
  BY <1>7, <1>c DEF UpdateActive
<1>8. CASE ReturnCredits(t)
  BY <1>8, <1>c DEF ReturnCredits, Regs
<1>9. CASE PutPartial(t)
  BY <1>9, <1>c DEF PutPartial, Resume, Finish, Regs
<1>10. CASE PutList(t)
  BY <1>10, <1>c DEF PutList, Resume, Finish
<1>11. CASE ReturnBlock(t)
  <2>1. /\ pc[t] = "return" /\ pc'[t] = "idle"
        /\ live' = live \union {<<reg[t].desc, reg[t].block>>}
    BY <1>11 DEF ReturnBlock, Finish
  <2>2. InHand(t) = {<<reg[t].desc, reg[t].block>>} /\ InHand(t)' = {}
    BY <1>b, <2>1
  <2> QED
    BY <1>11, <2>1, <2>2 DEF HandedOut
<1>12. CASE GetPartial(t)
  BY <1>12, <1>c DEF GetPartial, Regs
<1>13. CASE GetList(t)
  BY <1>13, <1>c DEF GetList, Regs
<1>14. CASE Reserve(t)
  BY <1>14, <1>c DEF Reserve, Regs
<1>15. CASE Retire(t)
  BY <1>15, <1>c DEF Retire, Resume, Finish
<1>16. CASE NewSuperblock(t)
  BY <1>16, <1>c DEF NewSuperblock, Regs
<1>17. CASE InstallNew(t)
  <2>1. CASE pc'[t] # "return"
    <3>1. pc[t] = "install" /\ pc'[t] = "discard" /\ live' = live
      BY <1>17, <2>1 DEF InstallNew
    <3> QED
      BY <1>c, <3>1
  <2> QED
    BY <1>17, <2>1, Changes
<1>18. CASE Discard(t)
  BY <1>18, <1>c DEF Discard, Regs
<1>19. CASE CheckError(t)
  BY <1>19, <1>c DEF CheckError, Finish
<1>20. CASE FreeRead(t)
  BY <1>20, <1>c DEF FreeRead, Regs
<1>21. CASE FreeLink(t)
  BY <1>21, <1>c DEF FreeLink
<1>22. CASE FreeCas(t)
  <2>1. CASE anchor[reg[t].desc] # reg[t].old
    <3>1. pc[t] = "free_cas" /\ pc'[t] = "free_read" /\ live' = live /\ reg' = reg
      BY <1>22, <2>1 DEF FreeCas
    <3> QED
      BY <1>c, <3>1
  <2> QED
    BY <1>22, <2>1, Changes
<1>23. CASE UnmapEmpty(t)
  BY <1>23, <1>c DEF UnmapEmpty, Regs
<1>24. CASE RemoveEmpty(t)
  BY <1>24, <1>c DEF RemoveEmpty
<1>25. CASE ListRemove(t)
  BY <1>25, <1>c DEF ListRemove, Finish, Regs
<1>26. CASE ListCheck(t)
  BY <1>26, <1>c DEF ListCheck
<1> QED
  BY <1>1, <1>2, <1>3, <1>4, <1>5, <1>6, <1>7, <1>8, <1>9, <1>10, <1>11, <1>12, <1>13,
     <1>14, <1>15, <1>16, <1>17, <1>18, <1>19, <1>20, <1>21, <1>22, <1>23, <1>24, <1>25,
     <1>26 DEF Act, Step

(* What is allocated, step by step.                                        *)
LEMMA OthersHold ==
  ASSUME IInv, NEW t \in Threads, Act(t), NEW u \in Threads \ {t}
  PROVE  InHand(u)' = InHand(u)
<1>1. pc'[u] = pc[u] /\ reg'[u] = reg[u]
  BY StepOfOne DEF IInv, OnlyThread
<1> QED
  BY <1>1 DEF InHand

(* ... and so none changes which blocks are allocated.                     *)
LEMMA AllocatedStep ==
  ASSUME IInv, NEW t \in Threads, Act(t)
  PROVE  \/ Allocated' = Allocated /\ ~Popped(t) /\ ~Made(t) /\ ~PushedBack(t)
         \/ Popped(t) /\ Allocated' = Allocated \union {<<reg[t].desc, reg[t].block>>}
         \/ Made(t) /\ Allocated' = Allocated \union {<<reg[t].desc, 0>>}
         \/ PushedBack(t) /\ Allocated' = Allocated \ {<<reg[t].desc, reg[t].block>>}
<1> DEFINE others == UNION {InHand(u) : u \in Threads \ {t}}
<1>1. Allocated = live \union InHand(t) \union others
  BY DEF Allocated
<1>2. Allocated' = live' \union InHand(t)' \union others
  <2>1. UNION {InHand(u)' : u \in Threads \ {t}} = others
    BY OthersHold
  <2>2. UNION {InHand(u)' : u \in Threads} = InHand(t)' \union UNION {InHand(u)' : u \in Threads \ {t}}
    OBVIOUS
  <2> QED
    BY <2>1, <2>2 DEF Allocated
<1>3. InHand(t) \intersect live = {} /\ InHand(t) \intersect others = {}
  BY DEF IInv, Blockwise, OneOwner
<1> HIDE DEF others
<1>4. ASSUME InHand(t)' = InHand(t), live' = live
      PROVE  Allocated' = Allocated /\ ~Popped(t) /\ ~Made(t) /\ ~PushedBack(t)
  <2>1. Allocated' = Allocated
    BY <1>1, <1>2, <1>4
  <2> QED
    BY <1>4, <2>1 DEF Popped, Made, PushedBack
<1>5. ASSUME Popped(t) PROVE Allocated' = Allocated \union {<<reg[t].desc, reg[t].block>>}
  BY <1>1, <1>2, <1>5 DEF Popped
<1>6. ASSUME Made(t) PROVE Allocated' = Allocated \union {<<reg[t].desc, 0>>}
  BY <1>1, <1>2, <1>6 DEF Made
<1>7. ASSUME GivenUp(t) PROVE Allocated' = Allocated /\ ~Popped(t) /\ ~Made(t) /\ ~PushedBack(t)
  <2>1. PICK b \in live : live' = live \ {b} /\ InHand(t)' = {b} /\ InHand(t) = {}
    BY <1>7 DEF GivenUp
  <2>2. Allocated' = Allocated
    BY <1>1, <1>2, <2>1
  <2>3. pc[t] = "idle" /\ live' # live
    BY <1>7, <2>1 DEF GivenUp, BeginFree
  <2> QED
    BY <2>2, <2>3 DEF Popped, Made, PushedBack
<1>8. ASSUME HandedOut(t) PROVE Allocated' = Allocated /\ ~Popped(t) /\ ~Made(t) /\ ~PushedBack(t)
  <2>1. Allocated' = Allocated
    BY <1>1, <1>2, <1>8 DEF HandedOut
  <2>2. pc[t] = "return"
    BY <1>8 DEF HandedOut
  <2> QED
    BY <1>8, <2>1, <2>2 DEF HandedOut, Popped, Made, PushedBack, InstallNew
<1>9. ASSUME PushedBack(t) PROVE Allocated' = Allocated \ {<<reg[t].desc, reg[t].block>>}
  BY <1>1, <1>2, <1>3, <1>9 DEF PushedBack
<1> QED
  BY <1>4, <1>5, <1>6, <1>7, <1>8, <1>9, InHandMoves

(* A block that is popped or made was free.                                *)
LEMMA TakenWasFree ==
  ASSUME IInv, NEW t \in Threads, Act(t)
  PROVE  /\ Popped(t) => <<reg[t].desc, reg[t].block>> \notin Allocated
         /\ Made(t) => \A b \in Blocks : <<reg[t].desc, b>> \notin Allocated
<1>1. ASSUME Popped(t) PROVE <<reg[t].desc, reg[t].block>> \notin Allocated
  BY <1>1, PopFirst DEF Popped, FreeSet
<1>2. ASSUME Made(t), NEW b \in Blocks PROVE <<reg[t].desc, b>> \notin Allocated
  <2>1. Unknown(reg[t].desc, {t}) /\ InHand(t) = {}
    BY <1>2, Installed DEF Made
  <2>2. \A u \in Threads \ {t} : <<reg[t].desc, b>> \notin InHand(u)
    BY <2>1, InHandNext DEF Unknown
  <2>3. <<reg[t].desc, b>> \notin live
    BY <2>1 DEF Unknown
  <2> QED
    BY <2>1, <2>2, <2>3 DEF Allocated
<1> QED
  BY <1>1, <1>2

(* After every step a block has one owner.                                 *)
LEMMA OneOwnerStep ==
  ASSUME IInv, NEW t \in Threads, Act(t)
  PROVE  OneOwner'
<1>a. \A u, v \in Threads : InHand(u) \intersect live = {} /\ (u # v => InHand(u) \intersect InHand(v) = {})
  BY DEF IInv, Blockwise, OneOwner
<1>b. \A u \in Threads : InHand(u) \subseteq Allocated /\ live \subseteq Allocated
  BY DEF Allocated
<1>c. \A u \in Threads \ {t} : InHand(u)' = InHand(u)
  BY OthersHold
<1> SUFFICES
      /\ InHand(t)' \intersect live' = {}
      /\ \A u \in Threads \ {t} : InHand(u) \intersect live' = {} /\ InHand(u) \intersect InHand(t)' = {}
  BY <1>a, <1>c DEF OneOwner
<1>1. CASE InHand(t)' = InHand(t) /\ live' = live
  BY <1>1, <1>a
<1>2. CASE Popped(t)
  BY <1>2, <1>a, <1>b, TakenWasFree DEF Popped
<1>3. CASE Made(t)
  <2>1. <<reg[t].desc, 0>> \notin Allocated
    <3>1. 0 \in Blocks
      BY SizeAssumption DEF Blocks
    <3> QED
      BY <1>3, <3>1, TakenWasFree
  <2> QED
    BY <1>3, <1>a, <1>b, <2>1 DEF Made
<1>4. CASE GivenUp(t)
  <2>1. PICK b \in live : live' = live \ {b} /\ InHand(t)' = {b}
    BY <1>4 DEF GivenUp
  <2> QED
    BY <1>a, <2>1
<1>5. CASE HandedOut(t)
  BY <1>5, <1>a DEF HandedOut
<1>6. CASE PushedBack(t)
  BY <1>6, <1>a DEF PushedBack
<1> QED
  BY <1>1, <1>2, <1>3, <1>4, <1>5, <1>6, InHandMoves

-----------------------------------------------------------------------------
(* How many blocks are free.                                               *)

(* The blocks of d that nobody owns, step by step.                         *)
LEMMA FreeSetStep ==
  ASSUME IInv, NEW t \in Threads, Act(t), NEW d \in Descriptors
  PROVE  /\ reg[t].desc # d \/ ~(Popped(t) \/ Made(t) \/ PushedBack(t)) => FreeSet(d)' = FreeSet(d)
         /\ Popped(t) /\ reg[t].desc = d => /\ FreeSet(d)' = FreeSet(d) \ {reg[t].block}
                                           /\ reg[t].block \in FreeSet(d)
         /\ Made(t) /\ reg[t].desc = d => FreeSet(d)' = Blocks \ {0}
         /\ PushedBack(t) /\ reg[t].desc = d =>
              /\ FreeSet(d)' = FreeSet(d) \union {reg[t].block}
              /\ reg[t].block \in Blocks /\ reg[t].block \notin FreeSet(d)
<1>0. reg[t].block \in Blocks
  BY DEF IInv, Types, TypeOK, Regs
<1>1. ASSUME reg[t].desc # d PROVE FreeSet(d)' = FreeSet(d)
  <2>1. \A b : <<d, b>> \in Allocated' <=> <<d, b>> \in Allocated
    BY <1>1, AllocatedStep
  <2> QED
    BY <2>1 DEF FreeSet
<1>2. ASSUME ~(Popped(t) \/ Made(t) \/ PushedBack(t)) PROVE FreeSet(d)' = FreeSet(d)
  <2>1. Allocated' = Allocated
    BY <1>2, AllocatedStep
  <2> QED
    BY <2>1 DEF FreeSet
<1>e. /\ Popped(t) => ~Made(t) /\ ~PushedBack(t)
      /\ Made(t) => ~Popped(t) /\ ~PushedBack(t)
      /\ PushedBack(t) => ~Popped(t) /\ ~Made(t)
  BY DEF Popped, PushedBack, Made, InstallNew
<1>3. ASSUME Popped(t), reg[t].desc = d
      PROVE  FreeSet(d)' = FreeSet(d) \ {reg[t].block} /\ reg[t].block \in FreeSet(d)
  <2>1. Allocated' = Allocated \union {<<d, reg[t].block>>}
    BY <1>3, <1>e, AllocatedStep
  <2>2. reg[t].block \in FreeSet(d)
    BY <1>3, <1>0, TakenWasFree DEF FreeSet
  <2> QED
    BY <2>1, <2>2 DEF FreeSet
<1>4. ASSUME Made(t), reg[t].desc = d
      PROVE  FreeSet(d)' = Blocks \ {0}
  <2>1. Allocated' = Allocated \union {<<d, 0>>}
    BY <1>4, <1>e, AllocatedStep
  <2>2. \A b \in Blocks : <<d, b>> \notin Allocated
    BY <1>4, TakenWasFree
  <2> QED
    BY <2>1, <2>2 DEF FreeSet
<1>5. ASSUME PushedBack(t), reg[t].desc = d
      PROVE  /\ FreeSet(d)' = FreeSet(d) \union {reg[t].block}
             /\ reg[t].block \in Blocks /\ reg[t].block \notin FreeSet(d)
  <2>1. Allocated' = Allocated \ {<<d, reg[t].block>>}
    BY <1>5, <1>e, AllocatedStep
  <2>2. <<d, reg[t].block>> \in Allocated
    BY <1>5 DEF PushedBack, Allocated
  <2> QED
    BY <1>0, <2>1, <2>2 DEF FreeSet
<1> QED
  BY <1>1, <1>2, <1>3, <1>4, <1>5

(* The credits a thread has taken, now and after a step.                   *)
LEMMA ReservedNext ==
  ASSUME NEW t \in Threads, NEW d
  PROVE  /\ Reserved(t, d) = IF reg[t].desc # d THEN 0
                             ELSE IF pc[t] \in Pops THEN 1 + reg[t].more
                             ELSE IF pc[t] \in Updates THEN reg[t].more ELSE 0
         /\ Reserved(t, d)' = IF reg'[t].desc # d THEN 0
                              ELSE IF pc'[t] \in Pops THEN 1 + reg'[t].more
                              ELSE IF pc'[t] \in Updates THEN reg'[t].more ELSE 0
<1>1. Reserved(t, d) = IF reg[t].desc # d THEN 0
                             ELSE IF pc[t] \in Pops THEN 1 + reg[t].more
                             ELSE IF pc[t] \in Updates THEN reg[t].more ELSE 0
  <2>1. CASE reg[t].desc # d
    BY <2>1 DEF Reserved
  <2>2. CASE reg[t].desc = d /\ pc[t] \in Pops
    BY <2>2 DEF Reserved, Pops
  <2>3. CASE reg[t].desc = d /\ pc[t] \in Updates
    BY <2>3 DEF Reserved, Pops, Updates
  <2>4. CASE reg[t].desc = d /\ pc[t] \notin Pops \union Updates
    BY <2>4 DEF Reserved, Pops, Updates
  <2> QED
    BY <2>1, <2>2, <2>3, <2>4
<1>2. Reserved(t, d)' = IF reg'[t].desc # d THEN 0
                             ELSE IF pc'[t] \in Pops THEN 1 + reg'[t].more
                             ELSE IF pc'[t] \in Updates THEN reg'[t].more ELSE 0
  <2>1. CASE reg'[t].desc # d
    BY <2>1 DEF Reserved
  <2>2. CASE reg'[t].desc = d /\ pc'[t] \in Pops
    BY <2>2 DEF Reserved, Pops
  <2>3. CASE reg'[t].desc = d /\ pc'[t] \in Updates
    BY <2>3 DEF Reserved, Pops, Updates
  <2>4. CASE reg'[t].desc = d /\ pc'[t] \notin Pops \union Updates
    BY <2>4 DEF Reserved, Pops, Updates
  <2> QED
    BY <2>1, <2>2, <2>3, <2>4
<1> QED
  BY <1>1, <1>2

(* What d has to give: in m_count, as credits of the heap h, as            *)
(* reservations of t.                                                      *)
SameShares(t, d) ==
  /\ anchor'[d].count = anchor[d].count /\ Reserved(t, d)' = Reserved(t, d)
  /\ active' = active
  /\ reg[t].desc = d => ~Popped(t) /\ ~PushedBack(t)

(* Or credits move between the thread and a heap, ...                      *)
CreditsShift(t, d, h) ==
  /\ \A g \in Heaps \ {h} : active'[g] = active[g]
  /\ anchor' = anchor /\ ~Popped(t) /\ ~PushedBack(t)
  /\ ActiveCredits(h, d)' + Reserved(t, d)' = ActiveCredits(h, d) + Reserved(t, d)

(* ... or between the thread and the anchor, which is off by delta.        *)
CountShift(t, d, delta) ==
  /\ active' = active
  /\ anchor'[d].count + Reserved(t, d)' = anchor[d].count + Reserved(t, d) + delta

(* Every step is one of these.                                             *)
LEMMA ShareMoves ==
  ASSUME IInv, NEW t \in Threads, Act(t), NEW d \in Descriptors, Settled(d), ~LastFree(t, d)
  PROVE  \/ SameShares(t, d)
         \/ \E h \in Heaps : CreditsShift(t, d, h)
         \/ CountShift(t, d, 0) /\ ~Popped(t) /\ ~PushedBack(t)
         \/ CountShift(t, d, -1) /\ Popped(t) /\ reg[t].desc = d
         \/ CountShift(t, d, 1) /\ PushedBack(t) /\ reg[t].desc = d
<1>a. /\ pc \in [Threads -> Labels] /\ reg \in [Threads -> Regs] /\ LocalSet(t) /\ Types
      /\ active \in [Heaps -> ActiveWords]
      /\ anchor \in [Descriptors -> Anchors] /\ d # NULL
  BY NullAssumption DEF IInv, Types, TypeOK, LocalsSet, ActiveWords
<1>r. /\ Reserved(t, d) = IF reg[t].desc # d THEN 0
                             ELSE IF pc[t] \in Pops THEN 1 + reg[t].more
                             ELSE IF pc[t] \in Updates THEN reg[t].more ELSE 0
      /\ Reserved(t, d)' = IF reg'[t].desc # d THEN 0
                              ELSE IF pc'[t] \in Pops THEN 1 + reg'[t].more
                              ELSE IF pc'[t] \in Updates THEN reg'[t].more ELSE 0
  BY ReservedNext
<1>m. reg[t].more \in Nat /\ anchor[d].count \in Nat
  BY <1>a, SizeAssumption DEF Regs, Anchors, Blocks
<1>p. (Popped(t) => PopCas(t) /\ pc[t] = "pop_cas") /\ (PushedBack(t) => FreeCas(t) /\ pc[t] = "free_cas")
  BY DEF Popped, PushedBack
<1>s. ASSUME anchor' = anchor, active' = active, pc[t] \notin {"pop_cas", "free_cas"},
             Reserved(t, d)' = Reserved(t, d)
      PROVE  SameShares(t, d)
  BY <1>s, <1>p DEF SameShares
<1>z. ASSUME anchor' = anchor, active' = active, pc[t] \notin {"pop_cas", "free_cas"},
             pc[t] \notin Pops \union Updates, pc'[t] \notin Pops \union Updates
      PROVE  SameShares(t, d)
  BY <1>z, <1>s, <1>r
<1> USE <1>a DEF Goto, Updates, Pops, blockVars, heapVars
<1>1. CASE BeginMalloc(t)
  <2>1. /\ active' = active /\ anchor' = anchor /\ pc[t] \notin {"pop_cas", "free_cas"}
        /\ pc[t] \notin Pops \union Updates /\ pc'[t] \notin Pops \union Updates
    BY <1>1 DEF BeginMalloc
  <2> QED
    BY <2>1, <1>z
<1>2. CASE BeginFree(t)
  <2>1. /\ active' = active /\ anchor' = anchor /\ pc[t] \notin {"pop_cas", "free_cas"}
        /\ pc[t] \notin Pops \union Updates /\ pc'[t] \notin Pops \union Updates
    BY <1>2 DEF BeginFree
  <2> QED
    BY <2>1, <1>z
<1>3. CASE ReserveActive(t)
  <2>0. reg[t].heap \in Heaps /\ pc[t] = "active" /\ anchor' = anchor /\ ~Popped(t) /\ ~PushedBack(t)
    BY <1>3, <1>p DEF ReserveActive, LocalSet, Searches
  <2> DEFINE h == reg[t].heap
  <2>1. CASE active[h].desc = NULL
    <3>1. active' = active /\ pc'[t] = "get_partial"
      BY <1>3, <2>1 DEF ReserveActive
    <3> QED
      BY <2>0, <3>1, <1>z
  <2>2. CASE active[h].desc # NULL
    <3>1. /\ active' = [active EXCEPT ![h] = Spend(active[h])] /\ pc'[t] = "pop_read"
          /\ reg' = [reg EXCEPT ![t].desc = active[h].desc, ![t].last = (active[h].credits = 0),
                                ![t].more = 0]
      BY <1>3, <2>2 DEF ReserveActive
    <3>2. reg'[t].desc = active[h].desc /\ reg'[t].more = 0
      BY <3>1 DEF Regs
    <3>3. Reserved(t, d) = 0 /\ Reserved(t, d)' = IF active[h].desc = d THEN 1 ELSE 0
      BY <1>r, <2>0, <3>1, <3>2
    <3>4. active'[h] = Spend(active[h]) /\ \A g \in Heaps \ {h} : active'[g] = active[g]
      BY <2>0, <3>1
    <3>5. active[h].credits \in Nat /\ active[h].desc \in Descriptors
      BY <2>0, <2>2, SizeAssumption DEF ActiveWords, NoActive
    <3>6. /\ active[h].credits = 0 => Spend(active[h]) = NoActive
          /\ active[h].credits # 0 => /\ Spend(active[h]).desc = active[h].desc
                                      /\ Spend(active[h]).credits = active[h].credits - 1
      BY <2>0, <2>2 DEF Spend, ActiveWords
    <3>7. NoActive.desc # d
      BY DEF NoActive
    <3>8. PICK k \in Heaps : k = h
      BY <2>0
    <3>9. /\ ActiveCredits(k, d) = IF active[h].desc = d THEN active[h].credits + 1 ELSE 0
          /\ ActiveCredits(k, d)' = IF active'[h].desc = d THEN active'[h].credits + 1 ELSE 0
      BY <3>8 DEF ActiveCredits
    <3>10. ActiveCredits(k, d)' + Reserved(t, d)' = ActiveCredits(k, d) + Reserved(t, d)
      <4> HIDE DEF h
      <4>1. CASE active[h].desc # d
        <5>1. Spend(active[h]).desc # d
          BY <3>5, <3>6, <3>7, <4>1
        <5> QED
          BY <3>3, <3>4, <3>9, <4>1, <5>1
      <4>2. CASE active[h].desc = d /\ active[h].credits = 0
        BY <3>3, <3>4, <3>6, <3>7, <3>9, <4>2
      <4>3. CASE active[h].desc = d /\ active[h].credits # 0
        BY <3>3, <3>4, <3>5, <3>6, <3>9, <4>3
      <4> QED
        BY <4>1, <4>2, <4>3
    <3>11. CreditsShift(t, d, k)
      BY <2>0, <3>4, <3>8, <3>10 DEF CreditsShift
    <3> QED
      BY <3>11
  <2> QED
    BY <2>1, <2>2
<1>4. CASE PopRead(t)
  <2>1. /\ active' = active /\ anchor' = anchor /\ pc[t] = "pop_read" /\ pc'[t] = "pop_next"
    BY <1>4 DEF PopRead
  <2>2. reg'[t].desc = reg[t].desc /\ reg'[t].more = reg[t].more
    BY <1>4 DEF PopRead, Regs
  <2>3. Reserved(t, d)' = Reserved(t, d)
    BY <1>r, <2>1, <2>2
  <2> QED
    BY <2>1, <2>3, <1>s
<1>5. CASE PopNext(t)
  <2>1. /\ active' = active /\ anchor' = anchor /\ pc[t] = "pop_next" /\ pc'[t] = "pop_cas"
    BY <1>5 DEF PopNext
  <2>2. reg'[t].desc = reg[t].desc /\ reg'[t].more = reg[t].more
    BY <1>5 DEF PopNext, Regs
  <2>3. Reserved(t, d)' = Reserved(t, d)
    BY <1>r, <2>1, <2>2
  <2> QED
    BY <2>1, <2>3, <1>s
<1>6. CASE PopCas(t)
  <2>0. active' = active /\ pc[t] = "pop_cas" /\ ~PushedBack(t)
    BY <1>6, <1>p DEF PopCas
  <2>1. CASE anchor[reg[t].desc] # reg[t].old
    <3>1. pc'[t] = "pop_read" /\ reg' = reg /\ anchor' = anchor
      BY <1>6, <2>1 DEF PopCas
    <3>2. Reserved(t, d)' = Reserved(t, d)
      BY <1>r, <2>0, <3>1
    <3>3. ~Popped(t)
      BY <2>1 DEF Popped
    <3> QED
      BY <2>0, <3>1, <3>2, <3>3 DEF SameShares
  <2>2. CASE anchor[reg[t].desc] = reg[t].old
    <3>1. Popped(t)
      BY <1>6, <2>2, Changes
    <3>2. /\ reg'[t].desc = reg[t].desc /\ reg'[t].more = CreditsTaken(reg[t])
          /\ pc'[t] = IF CreditsTaken(reg[t]) > 0 THEN "update_active" ELSE "return"
          /\ anchor' = [anchor EXCEPT ![reg[t].desc] = PoppedAnchor(reg[t])]
      BY <1>6, <2>2 DEF PopCas, Regs
    <3>3. CASE reg[t].desc # d
      <4>1. anchor'[d] = anchor[d] /\ Reserved(t, d)' = Reserved(t, d)
        BY <1>r, <3>2, <3>3
      <4> QED
        BY <2>0, <3>3, <4>1 DEF SameShares
    <3>4. CASE reg[t].desc = d
      <4>1. CreditsTaken(reg[t]) \in Nat
        BY CreditsFit, SizeAssumption
      <4>2. Reserved(t, d) = 1 + reg[t].more /\ Reserved(t, d)' = CreditsTaken(reg[t])
        BY <1>r, <2>0, <3>2, <3>4, <4>1
      <4>3. anchor'[d] = PoppedAnchor(reg[t]) /\ reg[t].old = anchor[d]
        BY <2>2, <3>2, <3>4
      <4>4. reg[t].last => reg[t].more = 0
        BY <2>0 DEF LocalSet
      <4>5. anchor'[d].count = IF reg[t].last THEN anchor[d].count - CreditsTaken(reg[t])
                               ELSE anchor[d].count
        BY <4>3 DEF PoppedAnchor
      <4>6. ~reg[t].last => CreditsTaken(reg[t]) = reg[t].more
        BY CreditsFit
      <4>7. anchor'[d].count + Reserved(t, d)' = anchor[d].count + Reserved(t, d) - 1
        BY <1>m, <4>1, <4>2, <4>4, <4>5, <4>6
      <4> QED
        BY <1>m, <2>0, <3>1, <3>4, <4>2, <4>7 DEF CountShift
    <3> QED
      BY <3>3, <3>4
  <2> QED
    BY <2>1, <2>2
<1>7. CASE UpdateActive(t)
  <2>0. /\ reg[t].heap \in Heaps /\ pc[t] = "update_active" /\ anchor' = anchor /\ reg' = reg
        /\ ~Popped(t) /\ ~PushedBack(t)
    BY <1>7, <1>p DEF UpdateActive, LocalSet, Searches
  <2> DEFINE h == reg[t].heap
  <2>1. CASE active[h] # NoActive
    <3>1. active' = active /\ pc'[t] = "return_credits"
      BY <1>7, <2>1 DEF UpdateActive
    <3>2. Reserved(t, d)' = Reserved(t, d)
      BY <1>r, <2>0, <3>1
    <3> QED
      BY <2>0, <3>1, <3>2, <1>s
  <2>2. CASE active[h] = NoActive
    <3>1. /\ active' = [active EXCEPT ![h] = ActiveWord(reg[t].desc, reg[t].more)]
          /\ pc'[t] = "return"
      BY <1>7, <2>2 DEF UpdateActive
    <3>2. Reserved(t, d)' = 0 /\ Reserved(t, d) = IF reg[t].desc = d THEN reg[t].more ELSE 0
      BY <1>r, <2>0, <3>1
    <3>3. /\ active'[h].desc = reg[t].desc /\ active'[h].credits = reg[t].more - 1
          /\ \A g \in Heaps \ {h} : active'[g] = active[g]
      BY <2>0, <3>1 DEF ActiveWord
    <3>4. active[h].desc # d
      BY <2>2 DEF NoActive
    <3>8. PICK k \in Heaps : k = h
      BY <2>0
    <3>9. /\ ActiveCredits(k, d) = IF active[h].desc = d THEN active[h].credits + 1 ELSE 0
          /\ ActiveCredits(k, d)' = IF active'[h].desc = d THEN active'[h].credits + 1 ELSE 0
      BY <3>8 DEF ActiveCredits
    <3>10. ActiveCredits(k, d)' + Reserved(t, d)' = ActiveCredits(k, d) + Reserved(t, d)
      <4> HIDE DEF h
      <4> QED
        BY <1>m, <3>2, <3>3, <3>4, <3>9
    <3>11. CreditsShift(t, d, k)
      BY <2>0, <3>3, <3>8, <3>10 DEF CreditsShift
    <3> QED
      BY <3>11
  <2> QED
    BY <2>1, <2>2
<1>8. CASE ReturnCredits(t)
  <2>1. /\ active' = active /\ pc[t] = "return_credits" /\ pc'[t] = "put_partial"
        /\ anchor' = [anchor EXCEPT ![reg[t].desc].count = @ + reg[t].more,
                                    ![reg[t].desc].state = "PARTIAL"]
    BY <1>8 DEF ReturnCredits
  <2>2. Reserved(t, d)' = 0 /\ Reserved(t, d) = IF reg[t].desc = d THEN reg[t].more ELSE 0
    BY <1>r, <2>1
  <2>3. CASE reg[t].desc # d
    <3>1. anchor'[d] = anchor[d]
      BY <2>1, <2>3
    <3> QED
      BY <1>p, <2>1, <2>2, <2>3, <3>1 DEF SameShares
  <2>4. CASE reg[t].desc = d
    <3>1. anchor'[d].count = anchor[d].count + reg[t].more
      BY <2>1, <2>4 DEF Anchors
    <3> QED
      BY <1>m, <1>p, <2>1, <2>2, <2>4, <3>1 DEF CountShift
  <2> QED
    BY <2>3, <2>4
<1>9. CASE PutPartial(t)
  <2>1. /\ active' = active /\ anchor' = anchor /\ pc[t] \notin {"pop_cas", "free_cas"}
        /\ pc[t] \notin Pops \union Updates /\ pc'[t] \notin Pops \union Updates
    BY <1>9 DEF PutPartial, Resume, Finish, LocalSet, Puts
  <2> QED
    BY <2>1, <1>z
<1>10. CASE PutList(t)
  <2>1. /\ active' = active /\ anchor' = anchor /\ pc[t] \notin {"pop_cas", "free_cas"}
        /\ pc[t] \notin Pops \union Updates /\ pc'[t] \notin Pops \union Updates
    BY <1>10 DEF PutList, Resume, Finish, LocalSet, Puts
  <2> QED
    BY <2>1, <1>z
<1>11. CASE ReturnBlock(t)
  <2>1. /\ active' = active /\ anchor' = anchor /\ pc[t] \notin {"pop_cas", "free_cas"}
        /\ pc[t] \notin Pops \union Updates /\ pc'[t] \notin Pops \union Updates
    BY <1>11 DEF ReturnBlock, Finish
  <2> QED
    BY <2>1, <1>z
<1>12. CASE GetPartial(t)
  <2>1. /\ active' = active /\ anchor' = anchor /\ pc[t] \notin {"pop_cas", "free_cas"}
        /\ pc[t] \notin Pops \union Updates /\ pc'[t] \notin Pops \union Updates
    BY <1>12 DEF GetPartial
  <2> QED
    BY <2>1, <1>z
<1>13. CASE GetList(t)
  <2>1. /\ active' = active /\ anchor' = anchor /\ pc[t] \notin {"pop_cas", "free_cas"}
        /\ pc[t] \notin Pops \union Updates /\ pc'[t] \notin Pops \union Updates
    BY <1>13 DEF GetList
  <2> QED
    BY <2>1, <1>z
<1>14. CASE Reserve(t)
  <2>0. active' = active /\ pc[t] = "reserve" /\ Reserved(t, d) = 0
    BY <1>14, <1>r DEF Reserve
  <2>1. CASE anchor[reg[t].desc].state = "EMPTY"
    <3>1. anchor' = anchor /\ pc'[t] = "retire"
      BY <1>14, <2>1 DEF Reserve
    <3> QED
      BY <2>0, <3>1, <1>z
  <2>2. CASE anchor[reg[t].desc].state # "EMPTY"
    <3> DEFINE batch == BatchBesides(anchor[reg[t].desc])
    <3>1. /\ anchor' = [anchor EXCEPT ![reg[t].desc].count = @ - (batch + 1),
                                      ![reg[t].desc].state = IF batch > 0 THEN "ACTIVE" ELSE "FULL"]
          /\ reg' = [reg EXCEPT ![t].last = FALSE, ![t].more = batch] /\ pc'[t] = "pop_read"
      BY <1>14, <2>2 DEF Reserve
    <3>2. reg'[t].desc = reg[t].desc /\ reg'[t].more = batch
      BY <3>1 DEF Regs
    <3>3. batch \in Nat
      BY <2>0, <2>2, BatchFits, SizeAssumption
    <3>4. Reserved(t, d)' = IF reg[t].desc = d THEN 1 + batch ELSE 0
      BY <1>r, <3>1, <3>2
    <3> HIDE DEF batch
    <3>5. CASE reg[t].desc # d
      <4>1. anchor'[d] = anchor[d]
        BY <3>1, <3>5
      <4> QED
        BY <1>p, <2>0, <3>4, <3>5, <4>1 DEF SameShares
    <3>6. CASE reg[t].desc = d
      <4>1. anchor'[d].count = anchor[d].count - (batch + 1)
        BY <3>1, <3>6 DEF Anchors
      <4> QED
        BY <1>m, <1>p, <2>0, <3>3, <3>4, <3>6, <4>1 DEF CountShift
    <3> QED
      BY <3>5, <3>6
  <2> QED
    BY <2>1, <2>2
<1>15. CASE Retire(t)
  <2>1. /\ active' = active /\ anchor' = anchor /\ pc[t] \notin {"pop_cas", "free_cas"}
        /\ pc[t] \notin Pops \union Updates /\ pc'[t] \notin Pops \union Updates
    BY <1>15 DEF Retire, Resume, Finish, LocalSet, Puts
  <2> QED
    BY <2>1, <1>z
<1>16. CASE NewSuperblock(t)
  <2>1. /\ active' = active /\ pc[t] = "new" /\ pc'[t] \in {"install", "check_error"}
    BY <1>16 DEF NewSuperblock
  <2>2. anchor'[d] = anchor[d]
    BY <2>1, AnchorMoves
  <2>3. Reserved(t, d)' = Reserved(t, d)
    BY <1>r, <2>1
  <2> QED
    BY <2>1, <2>2, <2>3, <1>p DEF SameShares
<1>17. CASE InstallNew(t)
  <2>0. reg[t].heap \in Heaps /\ pc[t] = "install" /\ anchor' = anchor /\ ~Popped(t) /\ ~PushedBack(t)
    BY <1>17, <1>p DEF InstallNew, LocalSet, Searches
  <2> DEFINE h == reg[t].heap
  <2>1. CASE active[h] # NoActive
    <3>1. active' = active /\ pc'[t] = "discard"
      BY <1>17, <2>1 DEF InstallNew
    <3> QED
      BY <2>0, <3>1, <1>z
  <2>2. CASE active[h] = NoActive
    <3>1. /\ active' = [active EXCEPT ![h] = ActiveWord(reg[t].desc, FirstCredits + 1)]
          /\ pc'[t] = "return"
      BY <1>17, <2>2 DEF InstallNew
    <3>2. reg[t].desc # d
      BY <2>0 DEF Settled, Private
    <3>3. Reserved(t, d)' = 0 /\ Reserved(t, d) = 0
      BY <1>r, <2>0, <3>1
    <3>4. active'[h].desc # d /\ active[h].desc # d /\ \A g \in Heaps \ {h} : active'[g] = active[g]
      BY <2>0, <2>2, <3>1, <3>2 DEF ActiveWord, NoActive
    <3>8. PICK k \in Heaps : k = h
      BY <2>0
    <3>9. ActiveCredits(k, d) = 0 /\ ActiveCredits(k, d)' = 0
      BY <3>4, <3>8 DEF ActiveCredits
    <3>11. CreditsShift(t, d, k)
      BY <2>0, <3>3, <3>4, <3>8, <3>9 DEF CreditsShift
    <3> QED
      BY <3>11
  <2> QED
    BY <2>1, <2>2
<1>18. CASE Discard(t)
  <2>1. /\ active' = active /\ anchor' = anchor /\ pc[t] \notin {"pop_cas", "free_cas"}
        /\ pc[t] \notin Pops \union Updates /\ pc'[t] \notin Pops \union Updates
    BY <1>18 DEF Discard
  <2> QED
    BY <2>1, <1>z
<1>19. CASE CheckError(t)
  <2>1. /\ active' = active /\ anchor' = anchor /\ pc[t] \notin {"pop_cas", "free_cas"}
        /\ pc[t] \notin Pops \union Updates /\ pc'[t] \notin Pops \union Updates
    BY <1>19 DEF CheckError, Finish
  <2> QED
    BY <2>1, <1>z
<1>20. CASE FreeRead(t)
  <2>1. /\ active' = active /\ anchor' = anchor /\ pc[t] \notin {"pop_cas", "free_cas"}
        /\ pc[t] \notin Pops \union Updates /\ pc'[t] \notin Pops \union Updates
    BY <1>20 DEF FreeRead
  <2> QED
    BY <2>1, <1>z
<1>21. CASE FreeLink(t)
  <2>1. /\ active' = active /\ anchor' = anchor /\ pc[t] \notin {"pop_cas", "free_cas"}
        /\ pc[t] \notin Pops \union Updates /\ pc'[t] \notin Pops \union Updates
    BY <1>21 DEF FreeLink
  <2> QED
    BY <2>1, <1>z
<1>22. CASE FreeCas(t)
  <2>0. active' = active /\ pc[t] = "free_cas" /\ Reserved(t, d) = 0 /\ ~Popped(t)
    BY <1>22, <1>p, <1>r DEF FreeCas
  <2>1. CASE anchor[reg[t].desc] # reg[t].old
    <3>1. pc'[t] = "free_read" /\ anchor' = anchor /\ ~PushedBack(t)
      BY <1>22, <2>1 DEF FreeCas, PushedBack
    <3>2. Reserved(t, d)' = 0
      BY <1>r, <3>1
    <3> QED
      BY <2>0, <3>1, <3>2 DEF SameShares
  <2>2. CASE anchor[reg[t].desc] = reg[t].old
    <3>1. /\ pc'[t] \in {"unmap", "put_partial", "idle"} /\ PushedBack(t)
          /\ anchor' = [anchor EXCEPT ![reg[t].desc] = FreedAnchor(reg[t].old, reg[t].block)]
      BY <1>22, <2>2, Changes DEF FreeCas, Finish
    <3>2. Reserved(t, d)' = 0
      BY <1>r, <3>1
    <3>3. CASE reg[t].desc # d
      <4>1. anchor'[d] = anchor[d]
        BY <3>1, <3>3
      <4> QED
        BY <2>0, <3>2, <3>3, <4>1 DEF SameShares
    <3>4. CASE reg[t].desc = d
      <4>1. anchor'[d] = FreedAnchor(anchor[d], reg[t].block)
        BY <2>2, <3>1, <3>4
      <4>2. anchor[d].count # NBlocks - 1
        BY <1>22, <2>0, <2>2, <3>4, <4>1 DEF LastFree, FreedAnchor, LastBlockOf
      <4>3. anchor'[d].count = anchor[d].count + 1
        BY <4>1, <4>2 DEF FreedAnchor, LastBlockOf
      <4> QED
        BY <1>m, <2>0, <3>1, <3>2, <3>4, <4>3 DEF CountShift
    <3> QED
      BY <3>3, <3>4
  <2> QED
    BY <2>1, <2>2
<1>23. CASE UnmapEmpty(t)
  <2>1. /\ active' = active /\ anchor' = anchor /\ pc[t] \notin {"pop_cas", "free_cas"}
        /\ pc[t] \notin Pops \union Updates /\ pc'[t] \notin Pops \union Updates
    BY <1>23 DEF UnmapEmpty
  <2> QED
    BY <2>1, <1>z
<1>24. CASE RemoveEmpty(t)
  <2>1. /\ active' = active /\ anchor' = anchor /\ pc[t] \notin {"pop_cas", "free_cas"}
        /\ pc[t] \notin Pops \union Updates /\ pc'[t] \notin Pops \union Updates
    BY <1>24 DEF RemoveEmpty
  <2> QED
    BY <2>1, <1>z
<1>25. CASE ListRemove(t)
  <2>1. /\ active' = active /\ anchor' = anchor /\ pc[t] \notin {"pop_cas", "free_cas"}
        /\ pc[t] \notin Pops \union Updates /\ pc'[t] \notin Pops \union Updates
    BY <1>25 DEF ListRemove, Finish
  <2> QED
    BY <2>1, <1>z
<1>26. CASE ListCheck(t)
  <2>1. /\ active' = active /\ anchor' = anchor /\ pc[t] \notin {"pop_cas", "free_cas"}
        /\ pc[t] \notin Pops \union Updates /\ pc'[t] \notin Pops \union Updates
    BY <1>26 DEF ListCheck
  <2> QED
    BY <2>1, <1>z
<1> QED
  BY <1>1, <1>2, <1>3, <1>4, <1>5, <1>6, <1>7, <1>8, <1>9, <1>10, <1>11, <1>12, <1>13,
     <1>14, <1>15, <1>16, <1>17, <1>18, <1>19, <1>20, <1>21, <1>22, <1>23, <1>24, <1>25,
     <1>26 DEF Act, Step

(* So the count of free blocks moves with the pops and pushes that         *)
(* succeed, and with nothing else.                                         *)
LEMMA FreeBlocksStep ==
  ASSUME IInv, NEW t \in Threads, Act(t), NEW d \in Descriptors, Settled(d), ~LastFree(t, d)
  PROVE  /\ Popped(t) /\ reg[t].desc = d => FreeBlocks(d)' = FreeBlocks(d) - 1
         /\ PushedBack(t) /\ reg[t].desc = d => FreeBlocks(d)' = FreeBlocks(d) + 1
         /\ reg[t].desc # d \/ ~(Popped(t) \/ PushedBack(t)) => FreeBlocks(d)' = FreeBlocks(d)
<1> DEFINE f == CreditsAt(d)
           g == [h \in Heaps |-> ActiveCredits(h, d)']
           r == ReservedBy(d)
           s == [u \in Threads |-> Reserved(u, d)']
<1>a. /\ Types /\ active' \in [Heaps -> ActiveWords] /\ reg' \in [Threads -> Regs]
      /\ anchor' \in [Descriptors -> Anchors] /\ d # NULL
  BY TypesStep, NullAssumption DEF IInv, Types, TypeOK, ActiveWords
<1>1. /\ anchor[d].count \in Nat
      /\ FreeBlocks(d) = anchor[d].count + Total(f) + Total(r)
      /\ f \in [Heaps -> Nat] /\ r \in [Threads -> Nat]
  BY <1>a, FreeBlocksSum, CreditTypes
<1>2. anchor'[d].count \in Nat /\ FreeBlocks(d)' = anchor'[d].count + Total(g) + Total(s)
  <2>1. anchor'[d].count \in Nat
    BY <1>a, SizeAssumption DEF Anchors, Blocks
  <2> QED
    BY <2>1 DEF FreeBlocks
<1>3. g \in [Heaps -> Nat] /\ s \in [Threads -> Nat]
  <2>1. ASSUME NEW h \in Heaps PROVE ActiveCredits(h, d)' \in Nat
    BY <1>a, SizeAssumption DEF ActiveCredits, ActiveWords, NoActive
  <2>2. ASSUME NEW u \in Threads PROVE Reserved(u, d)' \in Nat
    <3>1. reg'[u].more \in Nat
      BY <1>a, SizeAssumption DEF Regs
    <3> QED
      BY <3>1, ReservedNext
  <2> QED
    BY <2>1, <2>2
<1>4. /\ \A h \in Heaps : f[h] = ActiveCredits(h, d) /\ g[h] = ActiveCredits(h, d)'
      /\ \A u \in Threads : r[u] = Reserved(u, d) /\ s[u] = Reserved(u, d)'
  BY DEF CreditsAt, ReservedBy
<1>5. \A u \in Threads \ {t} : r[u] = s[u]
  <2>1. \A u \in Threads \ {t} : pc'[u] = pc[u] /\ reg'[u] = reg[u]
    BY <1>a, StepOfOne DEF OnlyThread
  <2> QED
    BY <1>4, <2>1, ReservedNext
<1>6. active' = active => g = f
  BY DEF CreditsAt, ActiveCredits
<1> HIDE DEF f, g, r, s
<1>7. Total(f) \in Nat /\ Total(g) \in Nat /\ Total(r) \in Nat /\ Total(s) \in Nat
  BY <1>1, <1>3, FiniteAssumption, TotalNat
<1>8. Total(s) = Total(r) - r[t] + s[t]
  BY <1>1, <1>3, <1>5, FiniteAssumption, TotalChange
<1>9. r[t] \in Nat /\ s[t] \in Nat /\ r[t] = Reserved(t, d) /\ s[t] = Reserved(t, d)'
  BY <1>1, <1>3, <1>4
<1>10. ASSUME NEW delta \in Int, CountShift(t, d, delta)
       PROVE  FreeBlocks(d)' = FreeBlocks(d) + delta
  <2>1. Total(g) = Total(f) /\ anchor'[d].count + s[t] = anchor[d].count + r[t] + delta
    BY <1>6, <1>9, <1>10 DEF CountShift
  <2> QED
    BY <1>1, <1>2, <1>7, <1>8, <1>9, <2>1
<1>11. CASE SameShares(t, d)
  <2>1. CountShift(t, d, 0)
    BY <1>1, <1>9, <1>11 DEF SameShares, CountShift
  <2> QED
    BY <1>1, <1>7, <1>10, <1>11, <2>1 DEF SameShares
<1>12. CASE \E h \in Heaps : CreditsShift(t, d, h)
  <2>1. PICK h \in Heaps : CreditsShift(t, d, h)
    BY <1>12
  <2>2. \A k \in Heaps \ {h} : f[k] = g[k]
    BY <1>4, <2>1 DEF CreditsShift, ActiveCredits
  <2>3. Total(g) = Total(f) - f[h] + g[h]
    BY <1>1, <1>3, <2>2, FiniteAssumption, TotalChange
  <2>4. g[h] + s[t] = f[h] + r[t] /\ anchor'[d].count = anchor[d].count
    BY <1>4, <1>9, <2>1 DEF CreditsShift
  <2>5. f[h] \in Nat /\ g[h] \in Nat
    BY <1>1, <1>3
  <2>6. FreeBlocks(d)' = FreeBlocks(d)
    BY <1>1, <1>2, <1>7, <1>8, <1>9, <2>3, <2>4, <2>5
  <2> QED
    BY <2>1, <2>6 DEF CreditsShift
<1>13. CASE CountShift(t, d, 0) /\ ~Popped(t) /\ ~PushedBack(t)
  BY <1>1, <1>7, <1>10, <1>13
<1>14. CASE CountShift(t, d, -1) /\ Popped(t) /\ reg[t].desc = d
  <2>1. ~PushedBack(t)
    BY <1>14 DEF Popped, PushedBack
  <2>2. FreeBlocks(d)' = FreeBlocks(d) + (-1)
    BY <1>10, <1>14
  <2> QED
    BY <1>1, <1>7, <1>14, <2>1, <2>2
<1>15. CASE CountShift(t, d, 1) /\ PushedBack(t) /\ reg[t].desc = d
  <2>1. ~Popped(t)
    BY <1>15 DEF Popped, PushedBack
  <2> QED
    BY <1>10, <1>15, <2>1
<1> QED
  BY <1>11, <1>12, <1>13, <1>14, <1>15, ShareMoves

-----------------------------------------------------------------------------
(* The free lists.                                                         *)

(* Only the owner of a block writes its first word.                        *)
LEMMA WordMoves ==
  ASSUME IInv, NEW t \in Threads, Act(t), NEW d \in Descriptors, Settled(d), NEW b \in Blocks,
         word'[d][b] # word[d][b]
  PROVE  /\ reg[t].desc = d /\ reg[t].block = b /\ <<d, b>> \in InHand(t)
         /\ \/ pc[t] = "return" /\ word'[d][b] = Header /\ HandedOut(t)
            \/ pc[t] = "free_link" /\ word'[d][b] = reg[t].old.avail
<1>a. /\ Types /\ word \in [Descriptors -> [Blocks -> Words]]
  BY DEF IInv, Types, TypeOK
<1>1. pc[t] \in {"return", "free_link"} /\ reg[t].desc = d
  BY MemoryStep DEF Settled
<1>2. InHand(t) = {<<d, reg[t].block>>} /\ reg[t].block \in Blocks
  BY <1>1, HeldIsAllocated, InHandIs, <1>a DEF Frees
<1>3. CASE pc[t] = "return"
  <2>1. word' = [word EXCEPT ![d][reg[t].block] = Header] /\ ReturnBlock(t)
    BY <1>1, <1>3, ActionAt DEF ReturnBlock
  <2>2. reg[t].block = b /\ word'[d][b] = Header
    BY <1>a, <1>2, <2>1
  <2>3. HandedOut(t)
    <3>1. ~Popped(t) /\ ~Made(t) /\ ~GivenUp(t) /\ ~PushedBack(t)
      BY <1>3 DEF Popped, Made, GivenUp, PushedBack, InstallNew, BeginFree
    <3>2. live' = live \union {<<d, reg[t].block>>} /\ live' # live
      <4>1. live' = live \union {<<d, reg[t].block>>}
        BY <1>1, <2>1 DEF ReturnBlock
      <4>2. <<d, reg[t].block>> \notin live
        BY <1>2 DEF IInv, Blockwise, OneOwner
      <4> QED
        BY <4>1, <4>2
    <3> QED
      BY <3>1, <3>2, InHandMoves
  <2> QED
    BY <1>1, <1>2, <1>3, <2>2, <2>3
<1>4. CASE pc[t] = "free_link"
  <2>1. word' = [word EXCEPT ![d][reg[t].block] = reg[t].old.avail]
    BY <1>1, <1>4, ActionAt DEF FreeLink
  <2>2. reg[t].block = b /\ word'[d][b] = reg[t].old.avail
    BY <1>a, <1>2, <2>1
  <2> QED
    BY <1>1, <1>2, <1>4, <2>2
<1> QED
  BY <1>1, <1>3, <1>4

(* So the links of the free blocks stay.                                   *)
LEMMA FreeWordsKept ==
  ASSUME IInv, NEW t \in Threads, Act(t), NEW d \in Descriptors, Settled(d), NEW b \in FreeSet(d)
  PROVE  word'[d][b] = word[d][b]
<1>1. b \in Blocks /\ <<d, b>> \notin Allocated
  BY DEF FreeSet
<1>2. <<d, b>> \notin InHand(t)
  BY <1>1 DEF Allocated
<1> QED
  BY <1>1, <1>2, WordMoves

(* The head of the free list moves with a pop and with a push.             *)
LEMMA AvailMoves ==
  ASSUME IInv, NEW t \in Threads, Act(t), NEW d \in Descriptors, Settled(d)
  PROVE  /\ reg[t].desc # d \/ ~(Popped(t) \/ PushedBack(t)) => anchor'[d].avail = anchor[d].avail
         /\ Popped(t) /\ reg[t].desc = d =>
              anchor'[d].avail = reg[t].next /\ anchor[d] = reg[t].old
         /\ PushedBack(t) /\ reg[t].desc = d =>
              anchor'[d].avail = reg[t].block /\ anchor[d] = reg[t].old
<1>a. anchor \in [Descriptors -> Anchors]
  BY DEF IInv, Types, TypeOK
<1>1. ASSUME Popped(t), reg[t].desc = d
      PROVE  anchor'[d].avail = reg[t].next /\ anchor[d] = reg[t].old
  <2>1. anchor' = [anchor EXCEPT ![d] = PoppedAnchor(reg[t])] /\ anchor[d] = reg[t].old
    BY <1>1 DEF Popped, PopCas
  <2> QED
    BY <1>a, <2>1 DEF PoppedAnchor
<1>2. ASSUME PushedBack(t), reg[t].desc = d
      PROVE  anchor'[d].avail = reg[t].block /\ anchor[d] = reg[t].old
  <2>1. anchor' = [anchor EXCEPT ![d] = FreedAnchor(reg[t].old, reg[t].block)] /\ anchor[d] = reg[t].old
    BY <1>2 DEF PushedBack, FreeCas
  <2> QED
    BY <1>a, <2>1 DEF FreedAnchor
<1>3. ASSUME reg[t].desc # d \/ ~(Popped(t) \/ PushedBack(t))
      PROVE  anchor'[d].avail = anchor[d].avail
  <2>1. CASE anchor'[d] = anchor[d]
    BY <2>1
  <2>2. CASE reg[t].desc = d /\ PopCas(t) /\ anchor[d] = reg[t].old
    BY <1>3, <2>2, Changes
  <2>3. CASE reg[t].desc = d /\ FreeCas(t) /\ anchor[d] = reg[t].old
    BY <1>3, <2>3, Changes
  <2>4. CASE anchor'[d] = [anchor[d] EXCEPT !.count = @ + reg[t].more, !.state = "PARTIAL"]
    BY <1>a, <2>4 DEF Anchors
  <2>5. CASE anchor'[d] = [anchor[d] EXCEPT
                             !.count = @ - (BatchBesides(anchor[d]) + 1),
                             !.state = IF BatchBesides(anchor[d]) > 0 THEN "ACTIVE" ELSE "FULL"]
    BY <1>a, <2>5 DEF Anchors
  <2> QED
    BY <2>1, <2>2, <2>3, <2>4, <2>5, AnchorMoves
<1> QED
  BY <1>1, <1>2, <1>3

(* What is free in a superblock that was just made.                        *)
LEMMA MadeFree ==
  ASSUME IInv, NEW t \in Threads, Act(t), Made(t), NEW e \in Descriptors, e = reg[t].desc
  PROVE  FreeBlocks(e)' = NBlocks - 1
<1>2. /\ reg'[t] = [reg[t] EXCEPT !.block = 0] /\ anchor' = anchor
      /\ anchor[e] = NewAnchor(anchor[e].tag) /\ Unknown(e, {t})
      /\ reg[t].heap \in Heaps /\ active[reg[t].heap] = NoActive
      /\ active' = [active EXCEPT ![reg[t].heap] = ActiveWord(e, FirstCredits + 1)]
  BY Installed DEF Made
<1>a. /\ active \in [Heaps -> ActiveWords] /\ e # NULL /\ FirstCredits \in Nat
      /\ pc'[t] = "return"
  BY FirstBatch, NullAssumption DEF IInv, Types, TypeOK, ActiveWords, Made
<1> DEFINE g == [h \in Heaps |-> ActiveCredits(h, e)']
           s == [u \in Threads |-> Reserved(u, e)']
           zero == [h \in Heaps |-> 0]
<1>3. g \in [Heaps -> Nat] /\ g[reg[t].heap] = FirstCredits + 1
      /\ \A h \in Heaps \ {reg[t].heap} : g[h] = 0
  <2>1. \A h \in Heaps \ {reg[t].heap} : active'[h].desc # e
    BY <1>a, <1>2 DEF Unknown
  <2>2. active'[reg[t].heap].desc = e /\ active'[reg[t].heap].credits = FirstCredits
    BY <1>a, <1>2 DEF ActiveWord
  <2>3. \A h \in Heaps : g[h] = IF active'[h].desc = e THEN active'[h].credits + 1 ELSE 0
    BY DEF ActiveCredits
  <2>4. \A h \in Heaps \ {reg[t].heap} : g[h] = 0
    BY <2>1, <2>3
  <2>5. g[reg[t].heap] = FirstCredits + 1
    BY <1>2, <2>2, <2>3
  <2>6. \A h \in Heaps : g[h] \in Nat
    BY <1>a, <2>4, <2>5
  <2>7. g = [h \in Heaps |-> g[h]]
    OBVIOUS
  <2> HIDE DEF g
  <2> QED
    BY <2>4, <2>5, <2>6, <2>7
<1>4. s \in [Threads -> Nat] /\ \A u \in Threads : s[u] = 0
  <2>1. ASSUME NEW u \in Threads PROVE Reserved(u, e)' = 0
    <3>1. CASE u = t
      BY <1>a, <3>1, ReservedNext DEF Pops, Updates
    <3>2. CASE u # t
      <4>1. reg'[u].desc # e
        BY <1>2, <3>2, StepOfOne DEF Unknown, OnlyThread, IInv
      <4> QED
        BY <4>1, ReservedNext
    <3> QED
      BY <3>1, <3>2
  <2> QED
    BY <2>1
<1>5. FreeBlocks(e)' = anchor'[e].count + Total(g) + Total(s)
  BY DEF FreeBlocks
<1>6. Total(zero) = 0 /\ zero \in [Heaps -> Nat] /\ \A h \in Heaps : zero[h] = 0
  <2>1. zero \in [Heaps -> Nat] /\ \A h \in Heaps : zero[h] = 0
    OBVIOUS
  <2> HIDE DEF zero
  <2> QED
    BY <2>1, TotalZero
<1> HIDE DEF g, s, zero
<1>7. Total(g) = FirstCredits + 1
  <2>1. \A h \in Heaps \ {reg[t].heap} : zero[h] = g[h]
    BY <1>3, <1>6
  <2>2. Total(g) = Total(zero) - zero[reg[t].heap] + g[reg[t].heap]
    BY <1>2, <1>3, <1>6, <2>1, FiniteAssumption, TotalChange
  <2> QED
    BY <1>a, <1>2, <1>3, <1>6, <2>2
<1>8. Total(s) = 0
  BY <1>4, TotalZero
<1>9. anchor'[e].count = NBlocks - FirstCredits - 2
  BY <1>2 DEF NewAnchor
<1>10. FreeBlocks(e)' = NBlocks - 1
  BY <1>a, <1>5, <1>7, <1>8, <1>9, SizeAssumption
<1> QED
  BY <1>10

(* The free list, step by step: a list that keeps its words and its        *)
(* length, one that loses its head, and one that gets a new head.          *)
LEMMA ListKept ==
  ASSUME NEW d, NEW c, IsFreeList(c, d), FreeBlocks(d)' = FreeBlocks(d),
         FreeSet(d)' = FreeSet(d), anchor'[d].avail = anchor[d].avail,
         \A b \in FreeSet(d) : word'[d][b] = word[d][b],
         c \in [1 .. FreeBlocks(d) -> Blocks], FreeBlocks(d) \in Nat
  PROVE  IsFreeList(c, d)'
<1>1. \A i \in 1 .. FreeBlocks(d) : c[i] \in FreeSet(d)
  BY DEF IsFreeList
<1>2. \A i \in 1 .. FreeBlocks(d) : i > 1 => i - 1 \in 1 .. FreeBlocks(d)
  OBVIOUS
<1> DEFINE n == FreeBlocks(d)
<1>3. /\ \A i, j \in 1 .. n : i # j => c[i] # c[j]
      /\ \A b \in Blocks : b \in FreeSet(d) <=> \E i \in 1 .. n : c[i] = b
      /\ \A i \in 1 .. n : /\ word[d][c[i]] \in Blocks
                           /\ i = 1 => c[i] = anchor[d].avail
                           /\ i > 1 => c[i] = word[d][c[i - 1]]
  BY DEF IsFreeList
<1>4. /\ \A i, j \in 1 .. n : i # j => c[i] # c[j]
      /\ \A b \in Blocks : b \in FreeSet(d)' <=> \E i \in 1 .. n : c[i] = b
      /\ \A i \in 1 .. n : /\ word'[d][c[i]] \in Blocks
                           /\ i = 1 => c[i] = anchor'[d].avail
                           /\ i > 1 => c[i] = word'[d][c[i - 1]]
  <2> HIDE DEF n
  <2>1. \A i \in 1 .. n : word'[d][c[i]] = word[d][c[i]]
    BY <1>1 DEF n
  <2>2. ASSUME NEW i \in 1 .. n, i > 1 PROVE c[i] = word'[d][c[i - 1]]
    <3>1. i - 1 \in 1 .. n
      BY <1>2, <2>2 DEF n
    <3> QED
      BY <1>3, <2>1, <2>2, <3>1
  <2> QED
    BY <1>3, <2>1, <2>2
<1> QED
  BY <1>4 DEF IsFreeList

(* A free list without its head is a free list, ...                        *)
LEMMA ListPopped ==
  ASSUME NEW d, NEW c, IsFreeList(c, d), FreeBlocks(d) \in Nat,
         c \in [1 .. FreeBlocks(d) -> Blocks], NEW b \in FreeSet(d), b = anchor[d].avail,
         FreeBlocks(d)' = FreeBlocks(d) - 1, FreeSet(d)' = FreeSet(d) \ {b},
         anchor'[d].avail = word[d][b], word' = word
  PROVE  \E r \in [1 .. FreeBlocks(d)' -> Blocks] : IsFreeList(r, d)'
<1> DEFINE n == FreeBlocks(d)
<1>r. PICK r : r = [i \in 1 .. n - 1 |-> c[i + 1]]
  OBVIOUS
<1>1. n \in Nat /\ n >= 1 /\ c[1] = b /\ b \in Blocks
  <2>1. b \in Blocks
    BY DEF FreeSet
  <2>2. \E i \in 1 .. n : c[i] = b
    BY <2>1 DEF IsFreeList
  <2>3. n >= 1 /\ 1 \in 1 .. n
    BY <2>2
  <2> QED
    BY <2>1, <2>3 DEF IsFreeList
<1>3. /\ \A i, j \in 1 .. n : i # j => c[i] # c[j]
      /\ \A x \in Blocks : x \in FreeSet(d) <=> \E i \in 1 .. n : c[i] = x
      /\ \A i \in 1 .. n : /\ word[d][c[i]] \in Blocks
                           /\ i = 1 => c[i] = anchor[d].avail
                           /\ i > 1 => c[i] = word[d][c[i - 1]]
      /\ c \in [1 .. n -> Blocks]
  BY DEF IsFreeList
<1>f. FreeBlocks(d)' = n - 1
  OBVIOUS
<1> HIDE DEF n
<1>4. \A i \in 1 .. n - 1 : i + 1 \in 1 .. n /\ r[i] = c[i + 1]
  BY <1>1, <1>r
<1>5. r \in [1 .. n - 1 -> Blocks]
  BY <1>3, <1>4, <1>r
<1>6. \A i, j \in 1 .. n - 1 : i # j => r[i] # r[j]
  BY <1>3, <1>4
<1>7. ASSUME NEW x \in Blocks PROVE x \in FreeSet(d)' <=> \E i \in 1 .. n - 1 : r[i] = x
  <2>1. ASSUME x \in FreeSet(d)' PROVE \E i \in 1 .. n - 1 : r[i] = x
    <3>1. PICK k \in 1 .. n : c[k] = x
      BY <1>3, <2>1
    <3>2. k # 1
      BY <1>1, <2>1, <3>1
    <3>3. k - 1 \in 1 .. n - 1 /\ (k - 1) + 1 = k
      BY <1>1, <3>2
    <3> QED
      BY <1>4, <3>1, <3>3
  <2>2. ASSUME NEW i \in 1 .. n - 1, r[i] = x PROVE x \in FreeSet(d)'
    <3>1. x \in FreeSet(d)
      BY <1>3, <1>4, <2>2
    <3>2. c[i + 1] # c[1]
      <4>1. i + 1 # 1 /\ 1 \in 1 .. n /\ i + 1 \in 1 .. n
        BY <1>1
      <4> QED
        BY <1>3, <4>1
    <3> QED
      BY <1>1, <1>4, <2>2, <3>1, <3>2
  <2> QED
    BY <2>1, <2>2
<1>8. ASSUME NEW i \in 1 .. n - 1
      PROVE  /\ word'[d][r[i]] \in Blocks
             /\ i = 1 => r[i] = anchor'[d].avail
             /\ i > 1 => r[i] = word'[d][r[i - 1]]
  <2>1. r[i] = c[i + 1] /\ i + 1 \in 1 .. n /\ i + 1 > 1
    BY <1>4
  <2>2. c[i + 1] = word[d][c[i]]
    <3>1. (i + 1) - 1 = i
      OBVIOUS
    <3> QED
      BY <1>3, <2>1, <3>1
  <2>3. i = 1 => r[i] = anchor'[d].avail
    BY <1>1, <2>1, <2>2
  <2>4. i > 1 => r[i] = word'[d][r[i - 1]]
    <3>1. ASSUME i > 1 PROVE r[i - 1] = c[i]
      <4>1. i - 1 \in 1 .. n - 1 /\ (i - 1) + 1 = i
        BY <1>1, <3>1
      <4> QED
        BY <1>4, <4>1
    <3> QED
      BY <2>1, <2>2, <3>1
  <2> QED
    BY <1>3, <2>1, <2>3, <2>4
<1>9. IsFreeList(r, d)'
  BY <1>f, <1>6, <1>7, <1>8 DEF IsFreeList
<1> QED
  BY <1>f, <1>5, <1>9

(* ... and so is one with a block put before its head.                     *)
LEMMA ListPushed ==
  ASSUME NEW d, NEW c, IsFreeList(c, d), FreeBlocks(d) \in Nat,
         c \in [1 .. FreeBlocks(d) -> Blocks], NEW b \in Blocks, b \notin FreeSet(d),
         FreeBlocks(d)' = FreeBlocks(d) + 1, FreeSet(d)' = FreeSet(d) \union {b},
         anchor'[d].avail = b, word' = word, word[d][b] = anchor[d].avail,
         anchor[d].avail \in Blocks
  PROVE  \E r \in [1 .. FreeBlocks(d)' -> Blocks] : IsFreeList(r, d)'
<1> DEFINE n == FreeBlocks(d)
<1>r. PICK r : r = [i \in 1 .. n + 1 |-> IF i = 1 THEN b ELSE c[i - 1]]
  OBVIOUS
<1>1. n \in Nat /\ FreeBlocks(d)' = n + 1
  OBVIOUS
<1>3. /\ \A i, j \in 1 .. n : i # j => c[i] # c[j]
      /\ \A x \in Blocks : x \in FreeSet(d) <=> \E i \in 1 .. n : c[i] = x
      /\ \A i \in 1 .. n : /\ word[d][c[i]] \in Blocks
                           /\ i = 1 => c[i] = anchor[d].avail
                           /\ i > 1 => c[i] = word[d][c[i - 1]]
      /\ c \in [1 .. n -> Blocks]
  BY DEF IsFreeList
<1> HIDE DEF n
<1>4. /\ 1 \in 1 .. n + 1 /\ r[1] = b
      /\ \A i \in 1 .. n + 1 : i # 1 => i - 1 \in 1 .. n /\ r[i] = c[i - 1]
  BY <1>1, <1>r
<1>5. r \in [1 .. n + 1 -> Blocks]
  BY <1>3, <1>4, <1>r
<1>2. \A i \in 1 .. n : c[i] \in FreeSet(d) /\ c[i] # b
  BY <1>3
<1>6. \A i, j \in 1 .. n + 1 : i # j => r[i] # r[j]
  <2>1. \A i, j \in 1 .. n + 1 : i # j /\ i # 1 /\ j # 1 => r[i] # r[j]
    BY <1>1, <1>3, <1>4
  <2>2. \A i \in 1 .. n + 1 : i # 1 => r[i] # r[1]
    BY <1>2, <1>4
  <2> QED
    BY <2>1, <2>2
<1>7. ASSUME NEW x \in Blocks PROVE x \in FreeSet(d)' <=> \E i \in 1 .. n + 1 : r[i] = x
  <2>1. ASSUME x \in FreeSet(d)' PROVE \E i \in 1 .. n + 1 : r[i] = x
    <3>1. CASE x = b
      BY <1>4, <3>1
    <3>2. CASE x # b
      <4>1. PICK k \in 1 .. n : c[k] = x
        BY <1>3, <2>1, <3>2
      <4>2. k + 1 \in 1 .. n + 1 /\ k + 1 # 1 /\ (k + 1) - 1 = k
        BY <1>1
      <4> QED
        BY <1>4, <4>1, <4>2
    <3> QED
      BY <3>1, <3>2
  <2>2. ASSUME NEW i \in 1 .. n + 1, r[i] = x PROVE x \in FreeSet(d)'
    BY <1>2, <1>4, <2>2
  <2> QED
    BY <2>1, <2>2
<1>8. ASSUME NEW i \in 1 .. n + 1
      PROVE  /\ word'[d][r[i]] \in Blocks
             /\ i = 1 => r[i] = anchor'[d].avail
             /\ i > 1 => r[i] = word'[d][r[i - 1]]
  <2>1. CASE i = 1
    BY <1>4, <2>1
  <2>2. CASE i # 1
    <3>1. i - 1 \in 1 .. n /\ r[i] = c[i - 1]
      BY <1>4, <2>2
    <3>2. CASE i - 1 = 1
      BY <1>3, <1>4, <3>1, <3>2
    <3>3. CASE i - 1 # 1
      <4>1. i - 1 > 1 /\ i - 1 \in 1 .. n + 1
        BY <1>1, <3>1, <3>3
      <4>2. r[i - 1] = c[(i - 1) - 1]
        BY <1>4, <3>3, <4>1
      <4> QED
        BY <1>3, <3>1, <4>1, <4>2
    <3> QED
      BY <3>2, <3>3
  <2> QED
    BY <2>1, <2>2
<1>9. IsFreeList(r, d)'
  BY <1>1, <1>6, <1>7, <1>8 DEF IsFreeList
<1> QED
  BY <1>1, <1>5, <1>9

(* A superblock in use has a free list after every step.                   *)
LEMMA ChainedStep ==
  ASSUME IInv, NEW t \in Threads, Act(t)
  PROVE  Chained'
<1> SUFFICES ASSUME NEW d \in Descriptors, InUse(d)'
             PROVE  \E r \in [1 .. FreeBlocks(d)' -> Blocks] : IsFreeList(r, d)'
  BY DEF Chained
<1>a. anchor \in [Descriptors -> Anchors] /\ word \in [Descriptors -> [Blocks -> Words]] /\ Types
  BY DEF IInv, Types, TypeOK
<1>1. CASE InUse(d)
  <2>1. Settled(d) /\ ~LastFree(t, d)
    BY <1>1, InUseSettled DEF LastFree, InUse
  <2>2. FreeBlocks(d) \in Nat
    BY <1>a, FreeBlocksSum
  <2>3. PICK c \in [1 .. FreeBlocks(d) -> Blocks] : IsFreeList(c, d)
    BY <1>1 DEF IInv, Blockwise, Chained
  <2>m. reg[t].desc = d => ~Made(t)
    BY <2>1 DEF Made, InstallNew, Settled, Private
  <2>4. CASE reg[t].desc # d \/ ~(Popped(t) \/ PushedBack(t))
    <3>1. FreeBlocks(d)' = FreeBlocks(d)
      BY <2>1, <2>4, FreeBlocksStep
    <3>2. FreeSet(d)' = FreeSet(d)
      BY <2>4, <2>m, FreeSetStep
    <3>3. anchor'[d].avail = anchor[d].avail
      BY <2>1, <2>4, AvailMoves
    <3>4. \A b \in FreeSet(d) : word'[d][b] = word[d][b]
      BY <2>1, FreeWordsKept
    <3>5. IsFreeList(c, d)'
      BY <2>2, <2>3, <3>1, <3>2, <3>3, <3>4, ListKept
    <3> QED
      BY <2>3, <3>1, <3>5
  <2>5. CASE Popped(t) /\ reg[t].desc = d
    <3>1. FreeBlocks(d)' = FreeBlocks(d) - 1
      BY <2>1, <2>5, FreeBlocksStep
    <3>2. FreeSet(d)' = FreeSet(d) \ {reg[t].block} /\ reg[t].block \in FreeSet(d)
      BY <2>5, FreeSetStep
    <3>3. anchor'[d].avail = reg[t].next
      BY <2>1, <2>5, AvailMoves
    <3>4. reg[t].block = anchor[d].avail /\ reg[t].next = word[d][reg[t].block]
      BY <2>5, PopFirst DEF Popped
    <3>5. word' = word
      BY <2>5 DEF Popped, PopCas
    <3>6. PICK b : b = reg[t].block
      OBVIOUS
    <3> QED
      BY <2>2, <2>3, <3>1, <3>2, <3>3, <3>4, <3>5, <3>6, ListPopped
  <2>6. CASE PushedBack(t) /\ reg[t].desc = d
    <3>1. FreeBlocks(d)' = FreeBlocks(d) + 1
      BY <2>1, <2>6, FreeBlocksStep
    <3>2. /\ FreeSet(d)' = FreeSet(d) \union {reg[t].block}
          /\ reg[t].block \in Blocks /\ reg[t].block \notin FreeSet(d)
      BY <2>6, FreeSetStep
    <3>3. anchor'[d].avail = reg[t].block /\ anchor[d] = reg[t].old
      BY <2>1, <2>6, AvailMoves
    <3>4. word[d][reg[t].block] = anchor[d].avail
      BY <2>6, <3>3 DEF PushedBack, IInv, Blockwise, LoadsCurrent, LoadCurrent
    <3>5. word' = word
      BY <2>6 DEF PushedBack, FreeCas
    <3>6. PICK b : b = reg[t].block
      OBVIOUS
    <3>7. anchor[d].avail \in Blocks
      BY <1>a DEF Anchors
    <3> QED
      BY <2>2, <2>3, <3>1, <3>2, <3>3, <3>4, <3>5, <3>6, <3>7, ListPushed
  <2> QED
    BY <2>4, <2>5, <2>6
<1>2. CASE InstallNew(t) /\ pc'[t] = "return" /\ d = reg[t].desc
  <2>1. Made(t)
    BY <1>2, Changes
  <2>2. FreeBlocks(d)' = NBlocks - 1
    BY <1>2, <2>1, MadeFree
  <2>3. FreeSet(d)' = Blocks \ {0}
    BY <1>2, <2>1, FreeSetStep
  <2>4. word'[d] = OrganizedList /\ anchor'[d].avail = 1
    <3>1. /\ word' = word /\ word[d] = OrganizedList /\ anchor' = anchor
          /\ anchor[d] = NewAnchor(anchor[d].tag)
      BY <1>2, Installed
    <3>2. NewAnchor(anchor[d].tag).avail = 1
      BY DEF NewAnchor
    <3> QED
      BY <3>1, <3>2
  <2>5. PICK c : c = [i \in 1 .. NBlocks - 1 |-> i]
    OBVIOUS
  <2>6. c \in [1 .. NBlocks - 1 -> Blocks] /\ \A i \in 1 .. NBlocks - 1 : c[i] = i
    BY <2>5, SizeAssumption DEF Blocks
  <2>7. \A b \in Blocks : b \in FreeSet(d)' <=> \E i \in 1 .. NBlocks - 1 : c[i] = b
    BY <2>3, <2>6, SizeAssumption DEF Blocks
  <2>8. ASSUME NEW i \in 1 .. NBlocks - 1
        PROVE  /\ word'[d][c[i]] \in Blocks
               /\ i = 1 => c[i] = anchor'[d].avail
               /\ i > 1 => c[i] = word'[d][c[i - 1]]
    <3>1. \A b \in Blocks : word'[d][b] = IF b = NBlocks - 1 THEN 0 ELSE b + 1
      BY <2>4 DEF OrganizedList
    <3>2. i \in Blocks /\ c[i] = i /\ word'[d][i] \in Blocks
      BY <2>6, <3>1, SizeAssumption DEF Blocks
    <3>3. ASSUME i > 1 PROVE c[i] = word'[d][c[i - 1]]
      <4>1. i - 1 \in 1 .. NBlocks - 1 /\ i - 1 \in Blocks /\ i - 1 # NBlocks - 1
        BY <3>3, SizeAssumption DEF Blocks
      <4>2. c[i - 1] = i - 1 /\ word'[d][i - 1] = (i - 1) + 1
        BY <2>6, <3>1, <4>1
      <4> QED
        BY <3>2, <4>2
    <3> QED
      BY <2>4, <3>2, <3>3
  <2>9. IsFreeList(c, d)'
    BY <2>2, <2>6, <2>7, <2>8 DEF IsFreeList
  <2> QED
    BY <2>2, <2>6, <2>9
<1> QED
  BY <1>1, <1>2, InUseBefore

(* A block a caller owns keeps its header.                                 *)
LEMMA LiveHeadersStep ==
  ASSUME IInv, NEW t \in Threads, Act(t)
  PROVE  LiveHeaders'
<1> SUFFICES ASSUME NEW b \in live' PROVE word'[b[1]][b[2]] = Header
  BY DEF LiveHeaders
<1>a. /\ live' \in SUBSET (Descriptors \X Blocks) /\ word \in [Descriptors -> [Blocks -> Words]]
      /\ Types
  BY TypesStep DEF IInv, Types, TypeOK
<1>1. b[1] \in Descriptors /\ b[2] \in Blocks /\ b = <<b[1], b[2]>>
  BY <1>a
<1>2. CASE b \in live
  <2>1. word[b[1]][b[2]] = Header
    BY <1>2 DEF IInv, Blockwise, LiveHeaders
  <2>2. Settled(b[1])
    BY <1>1, <1>2, InUseSettled DEF IInv, Status, OwnersInUse
  <2>3. b \notin InHand(t)
    BY <1>2 DEF IInv, Blockwise, OneOwner
  <2> QED
    BY <1>1, <2>1, <2>2, <2>3, WordMoves
<1>3. CASE b \notin live
  <2>1. HandedOut(t)
    <3>1. live' # live
      BY <1>3
    <3>2. ~GivenUp(t)
      BY <1>3 DEF GivenUp
    <3> QED
      BY <3>1, <3>2, InHandMoves DEF Popped, Made, PushedBack
  <2>2. b = <<reg[t].desc, reg[t].block>>
    BY <1>3, <2>1 DEF HandedOut
  <2>3. word' = [word EXCEPT ![reg[t].desc][reg[t].block] = Header]
    BY <2>1 DEF HandedOut, ReturnBlock
  <2>4. b[1] = reg[t].desc /\ b[2] = reg[t].block
    BY <2>2
  <2> QED
    BY <1>a, <1>1, <2>3, <2>4
<1> QED
  BY <1>2, <1>3

(* A superblock with a reservation has a free block at its head.           *)
LEMMA HeadIsFree ==
  ASSUME IInv, NEW t \in Threads, pc[t] \in Pops
  PROVE  /\ reg[t].desc \in Descriptors /\ InUse(reg[t].desc)
         /\ anchor[reg[t].desc].avail \in FreeSet(reg[t].desc)
<1> DEFINE d == reg[t].desc
<1>1. d \in Descriptors /\ InUse(d)
  BY DEF IInv, Types, LocalsSet, LocalSet, Names, Status, OwnersInUse, Owning
<1>2. reg[t].more \in Nat
  BY SizeAssumption DEF IInv, Types, TypeOK, Regs
<1>3. Reserved(t, d) = 1 + reg[t].more
  BY ReservedNext
<1>4. FreeBlocks(d) \in Nat /\ FreeBlocks(d) >= 1
  BY <1>1, <1>2, <1>3, FreeBlocksSum DEF IInv
<1>5. PICK c \in [1 .. FreeBlocks(d) -> Blocks] : IsFreeList(c, d)
  BY <1>1 DEF IInv, Blockwise, Chained
<1>6. 1 \in 1 .. FreeBlocks(d)
  BY <1>4
<1>7. c[1] = anchor[d].avail /\ c[1] \in Blocks
  BY <1>5, <1>6 DEF IsFreeList
<1>8. anchor[d].avail \in FreeSet(d)
  BY <1>5, <1>6, <1>7 DEF IsFreeList
<1> QED
  BY <1>1, <1>8

-----------------------------------------------------------------------------
(* What a pop has loaded.                                                  *)

(* The steps after which a thread holds loads.                             *)
LEMMA LoadEntered ==
  ASSUME IInv, NEW t \in Threads, Act(t)
  PROVE  /\ pc'[t] = "pop_next" => PopRead(t)
         /\ pc'[t] = "pop_cas" => PopNext(t)
         /\ pc'[t] = "free_cas" => FreeLink(t)
<1>a. pc \in [Threads -> Labels] /\ LocalSet(t)
  BY DEF IInv, Types, LocalsSet
<1> USE <1>a DEF Goto
<1>1. CASE BeginMalloc(t)
  BY <1>1 DEF BeginMalloc
<1>2. CASE BeginFree(t)
  BY <1>2 DEF BeginFree
<1>3. CASE ReserveActive(t)
  BY <1>3 DEF ReserveActive
<1>4. CASE PopRead(t)
  BY <1>4 DEF PopRead
<1>5. CASE PopNext(t)
  BY <1>5 DEF PopNext
<1>6. CASE PopCas(t)
  BY <1>6 DEF PopCas
<1>7. CASE UpdateActive(t)
  BY <1>7 DEF UpdateActive
<1>8. CASE ReturnCredits(t)
  BY <1>8 DEF ReturnCredits
<1>9. CASE PutPartial(t)
  BY <1>9 DEF PutPartial, Resume, Finish, LocalSet, Puts
<1>10. CASE PutList(t)
  BY <1>10 DEF PutList, Resume, Finish, LocalSet, Puts
<1>11. CASE ReturnBlock(t)
  BY <1>11 DEF ReturnBlock, Finish
<1>12. CASE GetPartial(t)
  BY <1>12 DEF GetPartial
<1>13. CASE GetList(t)
  BY <1>13 DEF GetList
<1>14. CASE Reserve(t)
  BY <1>14 DEF Reserve
<1>15. CASE Retire(t)
  BY <1>15 DEF Retire, Resume, Finish, LocalSet
<1>16. CASE NewSuperblock(t)
  BY <1>16 DEF NewSuperblock
<1>17. CASE InstallNew(t)
  BY <1>17 DEF InstallNew
<1>18. CASE Discard(t)
  BY <1>18 DEF Discard
<1>19. CASE CheckError(t)
  BY <1>19 DEF CheckError, Finish
<1>20. CASE FreeRead(t)
  BY <1>20 DEF FreeRead
<1>21. CASE FreeLink(t)
  BY <1>21 DEF FreeLink
<1>22. CASE FreeCas(t)
  BY <1>22 DEF FreeCas, Finish
<1>23. CASE UnmapEmpty(t)
  BY <1>23 DEF UnmapEmpty
<1>24. CASE RemoveEmpty(t)
  BY <1>24 DEF RemoveEmpty
<1>25. CASE ListRemove(t)
  BY <1>25 DEF ListRemove, Finish
<1>26. CASE ListCheck(t)
  BY <1>26 DEF ListCheck
<1> QED
  BY <1>1, <1>2, <1>3, <1>4, <1>5, <1>6, <1>7, <1>8, <1>9, <1>10, <1>11, <1>12, <1>13,
     <1>14, <1>15, <1>16, <1>17, <1>18, <1>19, <1>20, <1>21, <1>22, <1>23, <1>24, <1>25,
     <1>26 DEF Act, Step

(* A load that the tag still vouches for stays good.                       *)
LEMMA PoppedTag ==
  ASSUME IInv, NEW t \in Threads, Act(t), Popped(t), NEW d \in Descriptors, d = reg[t].desc
  PROVE  anchor'[d].tag = anchor[d].tag + 1
<1>1. t \in Pending
  BY DEF Popped, Pending, Searches, Pops
<1>2. anchor' = [anchor EXCEPT ![d] = PoppedAnchor(reg[t])] /\ anchor[d] = reg[t].old
  BY DEF Popped, PopCas
<1>3. anchor'[d] = PoppedAnchor(reg[t])
  BY <1>2 DEF IInv, Types, TypeOK
<1>4. anchor'[d].tag = NextTag(anchor[d].tag)
  BY <1>2, <1>3 DEF PoppedAnchor
<1> QED
  BY <1>1, <1>4, TagGoesUp

(* As long as the tag stays, a free block stays free and its link stays:   *)
(* what a pop compares with the tag is what it has loaded.                 *)
LEMMA FreeStays ==
  ASSUME IInv, NEW t \in Threads, Act(t), NEW d \in Descriptors, Settled(d)
  PROVE  /\ anchor[d].tag \in Nat /\ anchor'[d].tag \in Nat /\ anchor[d].tag <= anchor'[d].tag
         /\ anchor'[d].tag = anchor[d].tag =>
              \A b \in FreeSet(d) : b \in FreeSet(d)' /\ word'[d][b] = word[d][b]
<1>1. anchor[d].tag \in Nat
  BY SizeAssumption DEF IInv, Types, TypeOK, Anchors
<1>2. anchor'[d].tag = anchor[d].tag \/ anchor'[d].tag = anchor[d].tag + 1
  BY TagMoves
<1>3. ASSUME anchor'[d].tag = anchor[d].tag, NEW b \in FreeSet(d)
      PROVE  b \in FreeSet(d)' /\ word'[d][b] = word[d][b]
  <2>1. ~(Popped(t) /\ reg[t].desc = d)
    BY <1>1, <1>3, PoppedTag
  <2>2. ~(Made(t) /\ reg[t].desc = d)
    BY DEF Made, InstallNew, Settled, Private
  <2>3. b \in FreeSet(d)'
    BY <2>1, <2>2, FreeSetStep
  <2> QED
    BY <2>3, FreeWordsKept
<1> QED
  BY <1>1, <1>2, <1>3

(* After every step the loads of a pop whose tag is current are current.   *)
LEMMA LoadsCurrentStep ==
  ASSUME IInv, NEW t \in Threads, Act(t)
  PROVE  LoadsCurrent'
<1> SUFFICES ASSUME NEW u \in Threads PROVE LoadCurrent(u)'
  BY DEF LoadsCurrent
<1>a. /\ Types /\ reg \in [Threads -> Regs] /\ pc \in [Threads -> Labels] /\ LoadCurrent(u)
      /\ word \in [Descriptors -> [Blocks -> Words]] /\ LocalSet(t)
      /\ anchor \in [Descriptors -> Anchors]
  BY DEF IInv, Types, TypeOK, LocalsSet, Blockwise, LoadsCurrent
<1>o. reg[u].old.tag \in Nat
  BY <1>a, SizeAssumption DEF Regs, Anchors
<1>1. CASE u # t
  <2>1. pc'[u] = pc[u] /\ reg'[u] = reg[u]
    BY <1>1, <1>a, StepOfOne DEF OnlyThread
  <2>2. CASE pc[u] \in {"pop_next", "pop_cas"}
    <3>1. PICK d \in Descriptors : d = reg[u].desc /\ InUse(d) /\ Settled(d)
      BY <2>2, HeadIsFree, InUseSettled DEF Pops
    <3>2. /\ reg[u].old.tag <= anchor[d].tag
          /\ reg[u].old.tag = anchor[d].tag =>
               /\ reg[u].old.avail \in FreeSet(d)
               /\ pc[u] = "pop_cas" => reg[u].next = word[d][reg[u].old.avail]
      BY <1>a, <2>2, <3>1 DEF LoadCurrent
    <3>3. reg[u].old.tag <= anchor'[d].tag
      BY <1>o, <3>1, <3>2, FreeStays
    <3>4. ASSUME reg[u].old.tag = anchor'[d].tag
          PROVE  /\ reg[u].old.avail \in FreeSet(d)'
                 /\ pc[u] = "pop_cas" => reg[u].next = word'[d][reg[u].old.avail]
      <4>1. reg[u].old.tag = anchor[d].tag /\ anchor'[d].tag = anchor[d].tag
        BY <1>o, <3>1, <3>2, <3>4, FreeStays
      <4>2. PICK b : b = reg[u].old.avail
        OBVIOUS
      <4>3. b \in FreeSet(d)' /\ word'[d][b] = word[d][b]
        BY <3>1, <3>2, <4>1, <4>2, FreeStays
      <4>4. reg[u].old.avail \in FreeSet(d)' <=> b \in FreeSet(d)'
        BY <2>1, <4>2 DEF FreeSet
      <4> QED
        BY <3>2, <4>1, <4>2, <4>3, <4>4
    <3> QED
      BY <2>1, <2>2, <3>1, <3>3, <3>4 DEF LoadCurrent, FreeSet
  <2>3. CASE pc[u] = "free_cas"
    <3>1. PICK d \in Descriptors : d = reg[u].desc /\ InUse(d) /\ Settled(d)
      BY <2>3, HeldIsAllocated, InUseSettled DEF Frees
    <3>2. reg[u].block \in Blocks /\ <<d, reg[u].block>> \in InHand(u)
      BY <2>3, <3>1, HeldIsAllocated DEF Frees
    <3>3. word[d][reg[u].block] = reg[u].old.avail
      BY <1>a, <2>3, <3>1 DEF LoadCurrent
    <3>4. <<d, reg[u].block>> \notin InHand(t)
      BY <1>1, <3>2 DEF IInv, Blockwise, OneOwner
    <3>5. word'[d][reg[u].block] = word[d][reg[u].block]
      BY <3>1, <3>2, <3>4, WordMoves
    <3> QED
      BY <2>1, <2>3, <3>1, <3>3, <3>5 DEF LoadCurrent
  <2> QED
    BY <2>1, <2>2, <2>3 DEF LoadCurrent
<1>2. CASE u = t
  <2>1. CASE pc'[t] = "pop_next"
    <3>1. PopRead(t)
      BY <2>1, LoadEntered
    <3>2. PICK d \in Descriptors : /\ d = reg[t].desc /\ InUse(d) /\ Settled(d)
                                   /\ anchor[d].avail \in FreeSet(d)
      BY <3>1, HeadIsFree, InUseSettled DEF PopRead, Pops
    <3>3. /\ reg'[t].desc = d /\ reg'[t].old = anchor[d] /\ anchor' = anchor
      BY <1>a, <3>1, <3>2 DEF PopRead, Regs, blockVars
    <3>4. PICK b : b = anchor[d].avail
      OBVIOUS
    <3>5. b \in FreeSet(d)' /\ anchor[d].tag \in Nat
      BY <3>2, <3>3, <3>4, FreeStays
    <3>6. reg'[t].old.avail \in FreeSet(d)'
      BY <3>3, <3>4, <3>5
    <3> QED
      BY <1>2, <2>1, <3>3, <3>5, <3>6 DEF LoadCurrent, FreeSet
  <2>2. CASE pc'[t] = "pop_cas"
    <3>1. PopNext(t)
      BY <2>2, LoadEntered
    <3>2. PICK d \in Descriptors : d = reg[t].desc /\ InUse(d) /\ Settled(d)
      BY <3>1, HeadIsFree, InUseSettled DEF PopNext, Pops
    <3>3. /\ reg'[t].desc = d /\ reg'[t].old = reg[t].old /\ anchor' = anchor /\ word' = word
          /\ reg'[t].next = word[d][reg[t].block] /\ reg[t].block = reg[t].old.avail
          /\ pc[t] = "pop_next"
      BY <1>a, <3>1, <3>2 DEF PopNext, Regs, blockVars, LocalSet
    <3>4. /\ reg[t].old.tag <= anchor[d].tag
          /\ reg[t].old.tag = anchor[d].tag => reg[t].old.avail \in FreeSet(d)
      BY <1>2, <1>a, <3>2, <3>3 DEF LoadCurrent
    <3>5. PICK b : b = reg[t].old.avail
      OBVIOUS
    <3>6. reg[t].old.tag = anchor[d].tag => b \in FreeSet(d)'
      BY <3>2, <3>3, <3>4, <3>5, FreeStays
    <3> QED
      BY <1>2, <2>2, <3>3, <3>4, <3>5, <3>6 DEF LoadCurrent, FreeSet
  <2>3. CASE pc'[t] = "free_cas"
    <3>1. FreeLink(t)
      BY <2>3, LoadEntered
    <3>2. reg[t].desc \in Descriptors /\ reg[t].block \in Blocks
      BY <3>1, HeldIsAllocated DEF FreeLink, Frees
    <3>3. /\ reg' = reg
          /\ word' = [word EXCEPT ![reg[t].desc][reg[t].block] = reg[t].old.avail]
      BY <3>1 DEF FreeLink
    <3>4. word'[reg[t].desc][reg[t].block] = reg[t].old.avail
      BY <1>a, <3>2, <3>3
    <3> QED
      BY <1>2, <2>3, <3>3, <3>4 DEF LoadCurrent
  <2> QED
    BY <1>2, <2>1, <2>2, <2>3 DEF LoadCurrent
<1> QED
  BY <1>1, <1>2

(* So the blocks are as the invariant says after every step.               *)
LEMMA BlockwiseStep ==
  ASSUME IInv, NEW t \in Threads, Act(t)
  PROVE  Blockwise'
BY LoadsCurrentStep, LiveHeadersStep, OneOwnerStep, ChainedStep DEF Blockwise

(* The inductive invariant is kept by every step of a thread, ...          *)
LEMMA IInvStep ==
  ASSUME IInv, NEW t \in Threads, Act(t)
  PROVE  IInv'
BY TypesStep, RecordsStep, KnowledgeStep, StatusStep, ApartStep, NoneLostStep, TagsStep,
   BlockwiseStep DEF IInv

-----------------------------------------------------------------------------
(* The theorems.                                                           *)

(* The heap before the first call.                                         *)
LEMMA InitTypes == Init => Types
<1> SUFFICES ASSUME Init PROVE Types
  OBVIOUS
<1>1. 0 \in Blocks /\ 0 \in Words /\ ZeroAnchor \in Anchors
  BY SizeAssumption DEF Blocks, Words, ZeroAnchor, Anchors, States
<1>2. NoReg \in Regs
  BY <1>1, SizeAssumption DEF NoReg, Regs
<1>3. TypeOK
  <2>1. active \in [Heaps -> ActiveWords] /\ partial \in [Heaps -> Descriptors \union {NULL}]
    BY DEF Init, ActiveWords
  <2>2. queue \in Seq(Descriptors)
    BY DEF Init
  <2>3. anchor \in [Descriptors -> Anchors] /\ home \in [Descriptors -> Heaps \union {NULL}]
    BY <1>1 DEF Init
  <2>4. mapped \in [Descriptors -> BOOLEAN] /\ word \in [Descriptors -> [Blocks -> Words]]
    BY <1>1 DEF Init
  <2>5. /\ pool \in SUBSET Descriptors /\ retired \in [Threads -> SUBSET Descriptors]
        /\ dropped \in SUBSET Descriptors
        /\ records \in [count : Nat, held : Nat] /\ errorFlag \in [Threads -> BOOLEAN]
    BY DEF Init
  <2>6. /\ reg \in [Threads -> Regs] /\ live \in SUBSET (Descriptors \X Blocks)
        /\ mallocs \in 0 .. MaxMallocs /\ osFailures \in 0 .. MaxOsFailures
    BY <1>2, SizeAssumption DEF Init
  <2> QED
    BY <2>1, <2>2, <2>3, <2>4, <2>5, <2>6 DEF TypeOK, ActiveWords
<1>4. LocalsSet
  <2>1. /\ \A t \in Threads : pc[t] = "idle" /\ reg[t].then = "idle"
        /\ pc \in [Threads -> Labels]
    BY DEF Init, NoReg, Labels
  <2> QED
    BY <2>1 DEF LocalsSet, LocalSet, Names, Searches, Updates, Pops, Frees, Puts
<1> QED
  BY <1>3, <1>4 DEF Types

(* The inductive invariant holds of the heap before the first call.        *)
LEMMA InitHolds == Init => IInv
<1> SUFFICES ASSUME Init PROVE IInv
  OBVIOUS
<1>a. /\ \A t \in Threads : pc[t] = "idle" /\ reg[t] = NoReg /\ retired[t] = {}
      /\ \A h \in Heaps : active[h] = NoActive /\ partial[h] = NULL
      /\ \A d \in Descriptors : anchor[d] = ZeroAnchor /\ ~mapped[d]
      /\ queue = <<>> /\ live = {} /\ pool = Descriptors
      /\ records = [count |-> 0, held |-> 0] /\ mallocs = 0 /\ osFailures = 0
  BY DEF Init
<1>b. /\ NULL \notin Descriptors /\ NoActive.desc = NULL /\ NoReg.desc = NULL
      /\ NoReg.other = NULL /\ NoReg.then = "idle"
      /\ ZeroAnchor.state = "ACTIVE" /\ ZeroAnchor.tag = 0
  BY NullAssumption DEF NoActive, NoReg, ZeroAnchor
<1>c. Len(queue) = 0
  BY <1>a
<1>d. \A d \in Descriptors : ~InUse(d) /\ ~Private(d)
  BY <1>a DEF InUse, Private
<1>e. \A t \in Threads : Carried(t) = {} /\ InHand(t) = {}
  BY <1>a DEF Carried, InHand
<1>f. ~Private(NULL) /\ \A t \in Threads : ~Owning(t) /\ ~Giving(t)
  BY <1>a DEF Private, Owning, Giving, Pops, Updates, Frees, Puts
<1>1. Types
  BY InitTypes
<1>2. RecordsOutgrow
  <2>1. Descriptors \ pool = {} /\ Starting = {}
    BY <1>a DEF Starting
  <2>2. Cardinality(Descriptors \ pool) = 0 /\ Cardinality(Starting) = 0
    BY <2>1, FS_EmptySet
  <2>3. records.held = 0 /\ records.count = 0
    BY <1>a
  <2> QED
    BY <2>2, <2>3 DEF RecordsOutgrow
<1>3. Knowledge
  <2>1. PoolUnknown
    BY <1>a, <1>b, <1>c DEF PoolUnknown, Unknown
  <2>2. PrivateUnknown
    BY <1>a DEF PrivateUnknown
  <2>3. HomeSet
    BY <1>a, <1>b DEF HomeSet
  <2> QED
    BY <2>1, <2>2, <2>3 DEF Knowledge
<1>4. Status
  <2>1. OwnersInUse /\ CreditsOfActive /\ FullHasNone
    BY <1>a, <1>b, <1>d, <1>f DEF OwnersInUse, CreditsOfActive, FullHasNone
  <2>2. ListsPartial
    BY <1>a, <1>c DEF ListsPartial
  <2>3. Leaving
    BY <1>a DEF Leaving
  <2> QED
    BY <2>1, <2>2, <2>3 DEF Status
<1>5. Apart
  <2>1. ActiveApart /\ QueueApart /\ CarriedApart
    BY <1>a, <1>b, <1>c, <1>e DEF ActiveApart, QueueApart, CarriedApart
  <2>2. SlotsApart
    BY <1>a, <1>c, <1>e DEF SlotsApart, Queued
  <2> QED
    BY <2>1, <2>2 DEF Apart
<1>6. NoneLost
  BY <1>d DEF NoneLost
<1>7. TagsCount
  <2>1. Pending = {}
    BY <1>a, <1>b DEF Pending, Searches, Pops
  <2>2. Cardinality(Pending) = 0
    BY <2>1, FS_EmptySet
  <2> QED
    BY <1>a, <1>b, <2>2 DEF TagsCount
<1>8. Blockwise
  <2>1. LoadsCurrent /\ LiveHeaders
    BY <1>a DEF LoadsCurrent, LoadCurrent, LiveHeaders
  <2>2. OneOwner
    BY <1>e DEF OneOwner
  <2>3. Chained
    BY <1>d DEF Chained
  <2> QED
    BY <2>1, <2>2, <2>3 DEF Blockwise
<1> QED
  BY <1>1, <1>2, <1>3, <1>4, <1>5, <1>6, <1>7, <1>8 DEF IInv

(* A step that changes nothing keeps everything.                           *)
LEMMA Stutter ==
  ASSUME IInv, UNCHANGED vars
  PROVE  IInv'
<1> USE DEF vars, heapVars, blockVars, poolVars, boundVars
<1>1. Types'
  <2>1. TypeOK'
    BY DEF IInv, Types, TypeOK
  <2>2. LocalsSet'
    BY DEF IInv, Types, LocalsSet, LocalSet, Names
  <2> QED
    BY <2>1, <2>2 DEF Types
<1>2. RecordsOutgrow'
  BY DEF IInv, RecordsOutgrow, Starting
<1>3. Knowledge'
  BY DEF IInv, Knowledge, PoolUnknown, PrivateUnknown, HomeSet, Unknown
<1>u. \A d : InUse(d)' = InUse(d) /\ Private(d)' = Private(d)
  BY DEF InUse, Private
<1>4. Status'
  <2>1. OwnersInUse'
    BY DEF IInv, Status, OwnersInUse, InUse, Private, Owning
  <2>2. CreditsOfActive' /\ FullHasNone'
    BY DEF IInv, Status, CreditsOfActive, FullHasNone, Giving, InUse, Private
  <2>3. ListsPartial'
    BY DEF IInv, Status, ListsPartial, PartlyFree, Private
  <2>4. Leaving'
    BY DEF IInv, Status, Leaving, Gone, InUse, Private
  <2> QED
    BY <2>1, <2>2, <2>3, <2>4 DEF Status
<1>h. \A t \in Threads : Carried(t)' = Carried(t) /\ InHand(t)' = InHand(t)
  BY DEF Carried, InHand
<1>5. Apart'
  <2>1. ActiveApart'
    BY <1>h DEF IInv, Apart, ActiveApart
  <2>2. SlotsApart'
    BY <1>h DEF IInv, Apart, SlotsApart, Queued
  <2>3. QueueApart'
    BY <1>h DEF IInv, Apart, QueueApart
  <2>4. CarriedApart'
    BY <1>h DEF IInv, Apart, CarriedApart
  <2> QED
    BY <2>1, <2>2, <2>3, <2>4 DEF Apart
<1>6. NoneLost'
  BY DEF IInv, NoneLost, InUse, Private, Reachable, Queued, Carried
<1>7. TagsCount'
  BY DEF IInv, TagsCount, Pending
<1>8. Blockwise'
  <2>0. Allocated' = Allocated
    <3>1. UNION {InHand(t)' : t \in Threads} = UNION {InHand(t) : t \in Threads}
      BY <1>h
    <3> QED
      BY <3>1 DEF Allocated
  <2>f. \A d : FreeSet(d)' = FreeSet(d)
    BY <2>0 DEF FreeSet
  <2>1. LoadsCurrent'
    BY <2>f DEF IInv, Blockwise, LoadsCurrent, LoadCurrent
  <2>2. LiveHeaders' /\ OneOwner'
    BY <1>h DEF IInv, Blockwise, LiveHeaders, OneOwner
  <2>3. Chained'
    <3>1. ASSUME NEW d \in Descriptors PROVE FreeBlocks(d)' = FreeBlocks(d)
      <4>1. [h \in Heaps |-> ActiveCredits(h, d)]' = [h \in Heaps |-> ActiveCredits(h, d)]
        BY DEF ActiveCredits
      <4>2. [t \in Threads |-> Reserved(t, d)]' = [t \in Threads |-> Reserved(t, d)]
        BY DEF Reserved
      <4> QED
        BY <4>1, <4>2 DEF FreeBlocks
    <3>2. ASSUME NEW d \in Descriptors, NEW c, IsFreeList(c, d) PROVE IsFreeList(c, d)'
      BY <2>f, <3>1, <3>2 DEF IsFreeList
    <3> SUFFICES ASSUME NEW d \in Descriptors, InUse(d)'
                 PROVE  \E c \in [1 .. FreeBlocks(d)' -> Blocks] : IsFreeList(c, d)'
      BY DEF Chained
    <3>3. PICK c \in [1 .. FreeBlocks(d) -> Blocks] : IsFreeList(c, d)
      BY <1>u DEF IInv, Blockwise, Chained
    <3> QED
      BY <3>1, <3>2, <3>3
  <2> QED
    BY <2>1, <2>2, <2>3 DEF Blockwise
<1> QED
  BY <1>1, <1>2, <1>3, <1>4, <1>5, <1>6, <1>7, <1>8 DEF IInv

(* ... and by a step that changes nothing.                                 *)
LEMMA InvariantKept == IInv /\ [Next]_vars => IInv'
BY IInvStep, Stutter DEF Next, Act, AllDone

(* The invariant holds in every reachable state, for any number of         *)
(* threads, heaps, descriptors, blocks and credits.                        *)
THEOREM HeapInvariant == Spec => []IInv
BY InitHolds, InvariantKept, PTL DEF Spec

(* Every variable has its type: the credits fit their bits of m_active,    *)
(* m_count and m_available stay block counts and block numbers.            *)
THEOREM HeapTypeCorrect == Spec => []TypeOK
<1>1. IInv => TypeOK
  BY DEF IInv, Types
<1> QED
  BY <1>1, HeapInvariant, PTL

(* No block has two owners: aae_malloc returns none that a caller or       *)
(* another call still has.                                                 *)
THEOREM BlocksHaveOneOwner == Spec => []OneOwner
<1>1. IInv => OneOwner
  BY DEF IInv, Blockwise
<1> QED
  BY <1>1, HeapInvariant, PTL

(* An allocated block keeps the address of its descriptor, which aae_free  *)
(* will look up there: the late link of a push or pop that fails is never  *)
(* written into it.                                                        *)
THEOREM HeadersStayIntact == Spec => []HeadersIntact
<1>1. IInv => HeadersIntact
  BY DEF IInv, Blockwise, LiveHeaders, Status, OwnersInUse, InUse, HeadersIntact
<1> QED
  BY <1>1, HeapInvariant, PTL

(* No load or store of a pop or push is to a superblock that UnmapEmpty or *)
(* Discard has given back.                                                 *)
THEOREM MemoryStaysMapped == Spec => []NoUnmappedAccess
<1>1. IInv => NoUnmappedAccess
  BY DEF IInv, Status, OwnersInUse, Owning, InUse, NoUnmappedAccess, Pops, Frees
<1> QED
  BY <1>1, HeapInvariant, PTL

(* What Reserve takes from a partial superblock is there: the assertion of *)
(* MallocFromPartial.                                                      *)
THEOREM PartialsHaveBlocks == Spec => []PartialHasBlocks
<1>1. IInv => PartialHasBlocks
  BY DEF IInv, Status, ListsPartial, PartlyFree, PartialHasBlocks
<1> QED
  BY <1>1, HeapInvariant, PTL

(* Induction, over a set: one that holds 0 and the successors of its       *)
(* elements holds every natural.                                           *)
LEMMA NatInductionOnSets ==
  ASSUME NEW S \in SUBSET Nat, 0 \in S, \A n \in S : n + 1 \in S
  PROVE  S = Nat
<1> DEFINE R == OpToRel(<, Nat)
<1>1. \A x, y \in Nat : <<x, y>> \in R <=> x < y
  BY DEF OpToRel
<1>2. IsWellFoundedOn(R, Nat)
  BY NatLessThanWellFounded
<1> HIDE DEF R
<1>3. SUFFICES ASSUME Nat \ S # {} PROVE FALSE
  OBVIOUS
<1>4. PICK x \in Nat \ S : \A y \in Nat \ S : ~(<<y, x>> \in R)
  BY <1>2, <1>3, WFMin
<1>5. x # 0 /\ x - 1 \in Nat /\ x - 1 < x
  OBVIOUS
<1>6. x - 1 \in S
  BY <1>1, <1>4, <1>5
<1>7. (x - 1) + 1 \in S
  BY <1>6
<1>8. (x - 1) + 1 = x
  OBVIOUS
<1> QED
  BY <1>7, <1>8

(* The equations of the recursive function FreeList.                       *)
Follows(f, d, n) ==
  f = [i \in 1 .. n |-> IF i = 1 THEN anchor[d].avail
                        ELSE IF f[i - 1] \in Blocks THEN word[d][f[i - 1]]
                        ELSE Header]

(* The recursive definition of FreeList has the value its equations give   *)
(* it.                                                                     *)
LEMMA FreeListUnfolds ==
  ASSUME NEW d, NEW n, \E f : Follows(f, d, n)
  PROVE  Follows(FreeList(d, n), d, n)
BY DEF FreeList, Follows

(* The walk along the links from the anchor's first block meets the blocks *)
(* of the free list, one after the other.                                  *)
LEMMA FreeListIs ==
  ASSUME NEW d, NEW c, FreeBlocks(d) \in Nat, c \in [1 .. FreeBlocks(d) -> Blocks],
         IsFreeList(c, d)
  PROVE  \A i \in 1 .. FreeBlocks(d) : FreeList(d, FreeBlocks(d))[i] = c[i]
<1> DEFINE n == FreeBlocks(d)
           at == FreeList(d, n)
<1>1. /\ n \in Nat /\ c \in [1 .. n -> Blocks]
      /\ \A i \in 1 .. n : /\ i = 1 => c[i] = anchor[d].avail
                           /\ i > 1 => c[i] = word[d][c[i - 1]]
  BY DEF IsFreeList
<1>2. at = [i \in 1 .. n |-> IF i = 1 THEN anchor[d].avail
                            ELSE IF at[i - 1] \in Blocks THEN word[d][at[i - 1]] ELSE Header]
  <2> HIDE DEF n
  <2>1. c = [i \in 1 .. n |-> IF i = 1 THEN anchor[d].avail
                             ELSE IF c[i - 1] \in Blocks THEN word[d][c[i - 1]] ELSE Header]
    <3>1. ASSUME NEW i \in 1 .. n
          PROVE  c[i] = IF i = 1 THEN anchor[d].avail
                        ELSE IF c[i - 1] \in Blocks THEN word[d][c[i - 1]] ELSE Header
      <4>1. CASE i = 1
        BY <1>1, <4>1
      <4>2. CASE i # 1
        <5>1. i > 1 /\ i - 1 \in 1 .. n
          BY <1>1, <4>2
        <5>2. c[i - 1] \in Blocks
          BY <1>1, <5>1
        <5> QED
          BY <1>1, <4>2, <5>1, <5>2
      <4> QED
        BY <4>1, <4>2
    <3> QED
      BY <1>1, <3>1
  <2>2. Follows(c, d, n)
    BY <2>1 DEF Follows
  <2>3. Follows(at, d, n)
    BY <2>2, FreeListUnfolds
  <2> HIDE DEF at
  <2> QED
    BY <2>3 DEF Follows
<1> HIDE DEF n, at
<1> DEFINE S == {k \in Nat : k + 1 \in 1 .. n => at[k + 1] = c[k + 1]}
<1>3. 0 \in S
  BY <1>1, <1>2
<1>4. ASSUME NEW k \in S PROVE k + 1 \in S
  <2> SUFFICES ASSUME (k + 1) + 1 \in 1 .. n PROVE at[(k + 1) + 1] = c[(k + 1) + 1]
    OBVIOUS
  <2>1. k \in Nat /\ k + 1 \in 1 .. n /\ ((k + 1) + 1) - 1 = k + 1 /\ (k + 1) + 1 > 1
    BY <1>1
  <2>2. at[k + 1] = c[k + 1] /\ c[k + 1] \in Blocks
    BY <1>1, <2>1
  <2>3. at[(k + 1) + 1] = word[d][at[k + 1]]
    BY <1>2, <2>1, <2>2
  <2> QED
    BY <1>1, <2>1, <2>2, <2>3
<1>5. S = Nat
  <2>1. S \in SUBSET Nat
    OBVIOUS
  <2> HIDE DEF S
  <2> QED
    BY <1>3, <1>4, <2>1, NatInductionOnSets
<1>6. ASSUME NEW i \in 1 .. n PROVE at[i] = c[i]
  <2>1. i - 1 \in Nat /\ (i - 1) + 1 = i
    BY <1>1
  <2>2. i - 1 \in S
    BY <1>5, <2>1
  <2> QED
    BY <2>1, <2>2
<1> QED
  BY <1>6 DEF n, at

(* The links of a superblock in use, followed from m_available for as many *)
(* blocks as its count and its credits say, meet every block nobody owns   *)
(* exactly once: pops and pushes that interleave lose no block and hand    *)
(* none out twice.                                                         *)
THEOREM FreeListsAreExact == Spec => []FreeListExact
<1>1. IInv => FreeListExact
  <2> SUFFICES ASSUME IInv, NEW d \in Descriptors, InUse(d)
               PROVE  /\ FreeBlocks(d) = NBlocks - Cardinality(AllocatedIn(d))
                      /\ {FreeList(d, FreeBlocks(d))[i] : i \in 1 .. FreeBlocks(d)}
                           = Blocks \ AllocatedIn(d)
    BY DEF FreeListExact
  <2>1. Types /\ Chained
    BY DEF IInv, Blockwise
  <2>2. FreeBlocks(d) \in Nat
    BY <2>1, FreeBlocksSum
  <2>3. PICK c \in [1 .. FreeBlocks(d) -> Blocks] : IsFreeList(c, d)
    BY <2>1 DEF Chained
  <2>4. FreeBlocks(d) = NBlocks - Cardinality(AllocatedIn(d))
    BY <2>1, <2>2, Accounts, SizeAssumption
  <2>5. \A i \in 1 .. FreeBlocks(d) : FreeList(d, FreeBlocks(d))[i] = c[i]
    BY <2>2, <2>3, FreeListIs
  <2>6. {c[i] : i \in 1 .. FreeBlocks(d)} = FreeSet(d)
    <3>1. \A b \in Blocks : b \in FreeSet(d) <=> \E i \in 1 .. FreeBlocks(d) : c[i] = b
      BY <2>3 DEF IsFreeList
    <3>2. FreeSet(d) \subseteq Blocks
      BY DEF FreeSet
    <3> QED
      BY <3>1, <3>2
  <2>7. {FreeList(d, FreeBlocks(d))[i] : i \in 1 .. FreeBlocks(d)}
          = {c[i] : i \in 1 .. FreeBlocks(d)}
    BY <2>5
  <2>8. FreeSet(d) = Blocks \ AllocatedIn(d)
    BY <2>1, AllocatedBlocks
  <2> QED
    BY <2>4, <2>6, <2>7, <2>8
<1> QED
  BY <1>1, HeapInvariant, PTL

(* How many places hold a descriptor.                                      *)
LEMMA AtMostOne ==
  ASSUME NEW S, \A x, y \in S : x = y
  PROVE  /\ Cardinality(S) \in {0, 1}
         /\ Cardinality(S) = 0 <=> S = {}
<1>1. CASE S = {}
  BY <1>1, FS_EmptySet
<1>2. CASE S # {}
  <2>1. PICK x : S = {x}
    BY <1>2
  <2> QED
    BY <2>1, FS_Singleton
<1> QED
  BY <1>1, <1>2

InHeaps(d) == {h \in Heaps : active[h].desc = d}
InSlots(d) == {h \in Heaps : partial[h] = d}
InQueue(d) == {i \in 1 .. Len(queue) : queue[i] = d}
InHands(d) == {t \in Threads : d \in Carried(t)}
InRetired(d) == {t \in Threads : d \in retired[t]}

(* The places a descriptor can have, each of which it has at most once.    *)
LEMMA PlacesSum ==
  ASSUME IInv, NEW d \in Descriptors
  PROVE  /\ Places(d) = Cardinality(InHeaps(d)) + Cardinality(InSlots(d))
                        + Cardinality(InQueue(d)) + Cardinality(InHands(d))
                        + Cardinality(InRetired(d)) + (IF d \in pool THEN 1 ELSE 0)
         /\ \A S \in {InHeaps(d), InSlots(d), InQueue(d), InHands(d), InRetired(d)} :
              /\ Cardinality(S) \in {0, 1}
              /\ Cardinality(S) = 0 <=> S = {}
<1>0. d # NULL
  BY NullAssumption
<1>1. \A x, y \in InHeaps(d) : x = y
  BY DEF InHeaps, IInv, Apart, ActiveApart
<1>2. \A x, y \in InSlots(d) : x = y
  BY <1>0 DEF InSlots, IInv, Apart, SlotsApart
<1>3. \A x, y \in InQueue(d) : x = y
  BY DEF InQueue, IInv, Apart, QueueApart
<1>4. \A x, y \in InHands(d) : x = y
  BY DEF InHands, IInv, Apart, CarriedApart
<1>5. \A x, y \in InRetired(d) : x = y
  BY DEF InRetired, IInv, Apart, CarriedApart
<1>6. Places(d) = Cardinality(InHeaps(d)) + Cardinality(InSlots(d))
                        + Cardinality(InQueue(d)) + Cardinality(InHands(d))
                        + Cardinality(InRetired(d)) + (IF d \in pool THEN 1 ELSE 0)
  BY DEF Places, InHeaps, InSlots, InQueue, InHands, InRetired
<1>7. \A S \in {InHeaps(d), InSlots(d), InQueue(d), InHands(d), InRetired(d)} :
        \A x, y \in S : x = y
  BY <1>1, <1>2, <1>3, <1>4, <1>5
<1>8. \A S \in {InHeaps(d), InSlots(d), InQueue(d), InHands(d), InRetired(d)} :
              /\ Cardinality(S) \in {0, 1}
              /\ Cardinality(S) = 0 <=> S = {}
  BY <1>7, AtMostOne
<1> QED
  BY <1>6, <1>8

(* No descriptor is in two kinds of places.                                *)
LEMMA PlacesExclude ==
  ASSUME IInv, NEW d \in Descriptors
  PROVE  /\ d \in pool => /\ InHeaps(d) = {} /\ InSlots(d) = {} /\ InQueue(d) = {}
                         /\ InHands(d) = {} /\ InRetired(d) = {}
         /\ InHeaps(d) # {} => /\ InSlots(d) = {} /\ InQueue(d) = {}
                              /\ InHands(d) = {} /\ InRetired(d) = {}
         /\ InSlots(d) # {} => InQueue(d) = {} /\ InHands(d) = {} /\ InRetired(d) = {}
         /\ InQueue(d) # {} => InHands(d) = {} /\ InRetired(d) = {}
         /\ InHands(d) # {} => InRetired(d) = {}
<1> USE DEF InHeaps, InSlots, InQueue, InHands, InRetired
<1>1. ASSUME d \in pool
      PROVE  /\ InHeaps(d) = {} /\ InSlots(d) = {} /\ InQueue(d) = {}
             /\ InHands(d) = {} /\ InRetired(d) = {}
  BY <1>1, FreeNowhere DEF Queued
<1>2. ASSUME InHeaps(d) # {}
      PROVE  /\ InSlots(d) = {} /\ InQueue(d) = {} /\ InHands(d) = {} /\ InRetired(d) = {}
  <2>1. PICK h \in Heaps : active[h].desc = d
    BY <1>2
  <2> QED
    BY <2>1, ActiveNowhere DEF Queued
<1>3. ASSUME InSlots(d) # {} PROVE InQueue(d) = {} /\ InHands(d) = {} /\ InRetired(d) = {}
  <2>1. PICK h \in Heaps : partial[h] = d
    BY <1>3
  <2> QED
    BY <2>1 DEF IInv, Apart, SlotsApart, Queued
<1>4. ASSUME InQueue(d) # {} PROVE InHands(d) = {} /\ InRetired(d) = {}
  <2>1. PICK i \in 1 .. Len(queue) : queue[i] = d
    BY <1>4
  <2> QED
    BY <2>1 DEF IInv, Apart, QueueApart
<1>5. ASSUME InHands(d) # {} PROVE InRetired(d) = {}
  BY <1>5 DEF IInv, Apart, CarriedApart
<1> QED
  BY <1>1, <1>2, <1>3, <1>4, <1>5

(* A descriptor is in one place at most: one heap, one slot, the list      *)
(* once, one thread's hands, one retired list or the free list.            *)
THEOREM PlacesAreExclusive == Spec => []OnePlace
<1>1. IInv => OnePlace
  <2> SUFFICES ASSUME IInv, NEW d \in Descriptors PROVE Places(d) <= 1
    BY DEF OnePlace
  <2> DEFINE a == Cardinality(InHeaps(d))
             p == Cardinality(InSlots(d))
             q == Cardinality(InQueue(d))
             c == Cardinality(InHands(d))
             r == Cardinality(InRetired(d))
  <2>1. /\ Places(d) = a + p + q + c + r + (IF d \in pool THEN 1 ELSE 0)
        /\ a \in {0, 1} /\ p \in {0, 1} /\ q \in {0, 1} /\ c \in {0, 1} /\ r \in {0, 1}
        /\ (a = 0 <=> InHeaps(d) = {}) /\ (p = 0 <=> InSlots(d) = {})
        /\ (q = 0 <=> InQueue(d) = {}) /\ (c = 0 <=> InHands(d) = {})
        /\ (r = 0 <=> InRetired(d) = {})
    BY PlacesSum
  <2>2. /\ d \in pool => a = 0 /\ p = 0 /\ q = 0 /\ c = 0 /\ r = 0
        /\ a # 0 => p = 0 /\ q = 0 /\ c = 0 /\ r = 0
        /\ p # 0 => q = 0 /\ c = 0 /\ r = 0
        /\ q # 0 => c = 0 /\ r = 0
        /\ c # 0 => r = 0
    BY <2>1, PlacesExclude
  <2> HIDE DEF a, p, q, c, r
  <2> QED
    BY <2>1, <2>2
<1> QED
  BY <1>1, HeapInvariant, PTL

(* A superblock in use is never lost while the system refuses no memory:   *)
(* as long as it has blocks to give, a heap, a slot, the list or a thread  *)
(* leads to it.                                                            *)
THEOREM NothingIsStranded == Spec => []NothingStranded
<1>1. IInv => NothingStranded
  <2> SUFFICES ASSUME IInv, osFailures = 0, NEW d \in Descriptors, InUse(d), anchor[d].count > 0
               PROVE  Places(d) >= 1
    BY DEF NothingStranded
  <2>1. anchor[d].state \in {"ACTIVE", "PARTIAL"}
    <3>1. anchor[d].state \in States /\ anchor[d].count \in Nat
      BY SizeAssumption DEF IInv, Types, TypeOK, Anchors, Blocks
    <3>2. anchor[d].state # "EMPTY"
      BY DEF InUse
    <3>3. anchor[d].state # "FULL"
      BY <3>1 DEF IInv, Status, FullHasNone
    <3> QED
      BY <3>1, <3>2, <3>3 DEF States
  <2>2. Reachable(d)
    BY <2>1 DEF IInv, NoneLost
  <2>3. InHeaps(d) # {} \/ InSlots(d) # {} \/ InQueue(d) # {} \/ InHands(d) # {}
    BY <2>2 DEF Reachable, Queued, InHeaps, InSlots, InQueue, InHands
  <2> DEFINE a == Cardinality(InHeaps(d))
             p == Cardinality(InSlots(d))
             q == Cardinality(InQueue(d))
             c == Cardinality(InHands(d))
             r == Cardinality(InRetired(d))
  <2>4. /\ Places(d) = a + p + q + c + r + (IF d \in pool THEN 1 ELSE 0)
        /\ a \in {0, 1} /\ p \in {0, 1} /\ q \in {0, 1} /\ c \in {0, 1} /\ r \in {0, 1}
        /\ (a = 0 <=> InHeaps(d) = {}) /\ (p = 0 <=> InSlots(d) = {})
        /\ (q = 0 <=> InQueue(d) = {}) /\ (c = 0 <=> InHands(d) = {})
        /\ (r = 0 <=> InRetired(d) = {})
    BY PlacesSum
  <2>5. a # 0 \/ p # 0 \/ q # 0 \/ c # 0
    BY <2>3, <2>4
  <2> HIDE DEF a, p, q, c, r
  <2> QED
    BY <2>4, <2>5
<1> QED
  BY <1>1, HeapInvariant, PTL

(* Nobody owns a block of a superblock that is not in use.                 *)
LEMMA NotInUseUnowned ==
  ASSUME IInv, NEW d \in Descriptors, ~InUse(d)
  PROVE  \A b : <<d, b>> \notin Allocated
<1> SUFFICES ASSUME NEW b, <<d, b>> \in Allocated PROVE FALSE
  OBVIOUS
<1>1. CASE <<d, b>> \in live
  BY <1>1 DEF IInv, Status, OwnersInUse
<1>2. CASE \E t \in Threads : <<d, b>> \in InHand(t)
  <2>1. PICK t \in Threads : <<d, b>> \in InHand(t)
    BY <1>2
  <2>2. Holds(t) /\ reg[t].desc = d
    BY <2>1, InHandNext
  <2> QED
    BY <2>2, HeldIsAllocated DEF Holds
<1> QED
  BY <1>1, <1>2 DEF Allocated

(* What is unmapped is not in use.                                         *)
LEMMA UnmapStep ==
  ASSUME IInv, NEW t \in Threads, Act(t), NEW d \in Descriptors,
         mapped[d] /\ ~mapped'[d]
  PROVE  ~InUse(d)
<1>1. CASE Settled(d)
  BY <1>1, MappedMoves DEF InUse
<1>2. CASE d \in pool
  BY <1>2 DEF IInv, Knowledge, PoolUnknown
<1>3. CASE Private(d)
  BY <1>3 DEF InUse
<1> QED
  BY <1>1, <1>2, <1>3 DEF Settled

(* A superblock is given back to the system only when nobody owns a block  *)
(* of it.                                                                  *)
THEOREM UnmappedBlocksAreUnowned == Spec => UnmapOnlyUnowned
<1>1. IInv /\ [Next]_vars =>
        [\A d \in Descriptors :
           (mapped[d] /\ ~mapped'[d]) \/ (d \in pool' /\ d \notin pool)
             => AllocatedIn(d) = {}]_vars
  <2> SUFFICES ASSUME IInv, [Next]_vars, NEW d \in Descriptors,
                      (mapped[d] /\ ~mapped'[d]) \/ (d \in pool' /\ d \notin pool)
               PROVE  AllocatedIn(d) = {}
    OBVIOUS
  <2>1. CASE UNCHANGED vars
    BY <2>1 DEF vars, blockVars, poolVars
  <2>2. ASSUME NEW t \in Threads, Act(t) PROVE AllocatedIn(d) = {}
    <3>1. pool' \subseteq pool
      BY <2>2, PoolStep
    <3>2. ~InUse(d)
      BY <2>2, <3>1, UnmapStep
    <3> QED
      BY <3>2, NotInUseUnowned DEF AllocatedIn
  <2> QED
    BY <2>1, <2>2 DEF Next, Act, AllDone
<1> QED
  BY <1>1, HeapInvariant, PTL DEF Spec, UnmapOnlyUnowned

(* No descriptor is ever used again.                                       *)
THEOREM DescriptorsNeverComeBack == Spec => [][pool' \subseteq pool]_vars
<1>1. IInv /\ [Next]_vars => [pool' \subseteq pool]_vars
  <2> SUFFICES ASSUME IInv, [Next]_vars PROVE [pool' \subseteq pool]_vars
    OBVIOUS
  <2>1. ASSUME NEW t \in Threads, Act(t) PROVE pool' \subseteq pool
    BY <2>1, PoolStep
  <2> QED
    BY <2>1 DEF Next, Act, AllDone, vars, poolVars
<1> QED
  BY <1>1, HeapInvariant, PTL DEF Spec

-----------------------------------------------------------------------------
(* The refinement of the abstract allocator.                               *)

(* The superblocks that are mapped, step by step.                          *)
LEMMA MappingMoves ==
  ASSUME IInv, NEW t \in Threads, Act(t)
  PROVE  \/ mapped' = mapped
         \/ \E d \in pool : mapped' = [mapped EXCEPT ![d] = TRUE] /\ NewSuperblock(t)
         \/ /\ mapped' = [mapped EXCEPT ![reg[t].desc] = FALSE]
            /\ Discard(t) \/ UnmapEmpty(t)
<1> USE DEF blockVars
<1>1. CASE BeginMalloc(t)
  BY <1>1 DEF BeginMalloc
<1>2. CASE BeginFree(t)
  BY <1>2 DEF BeginFree
<1>3. CASE ReserveActive(t)
  BY <1>3 DEF ReserveActive
<1>4. CASE PopRead(t)
  BY <1>4 DEF PopRead
<1>5. CASE PopNext(t)
  BY <1>5 DEF PopNext
<1>6. CASE PopCas(t)
  BY <1>6 DEF PopCas
<1>7. CASE UpdateActive(t)
  BY <1>7 DEF UpdateActive
<1>8. CASE ReturnCredits(t)
  BY <1>8 DEF ReturnCredits
<1>9. CASE PutPartial(t)
  BY <1>9 DEF PutPartial
<1>10. CASE PutList(t)
  BY <1>10 DEF PutList
<1>11. CASE ReturnBlock(t)
  BY <1>11 DEF ReturnBlock
<1>12. CASE GetPartial(t)
  BY <1>12 DEF GetPartial
<1>13. CASE GetList(t)
  BY <1>13 DEF GetList
<1>14. CASE Reserve(t)
  BY <1>14 DEF Reserve
<1>15. CASE Retire(t)
  BY <1>15 DEF Retire
<1>16. CASE NewSuperblock(t)
  BY <1>16 DEF NewSuperblock
<1>17. CASE InstallNew(t)
  BY <1>17 DEF InstallNew
<1>18. CASE Discard(t)
  BY <1>18 DEF Discard
<1>19. CASE CheckError(t)
  BY <1>19 DEF CheckError
<1>20. CASE FreeRead(t)
  BY <1>20 DEF FreeRead
<1>21. CASE FreeLink(t)
  BY <1>21 DEF FreeLink
<1>22. CASE FreeCas(t)
  BY <1>22 DEF FreeCas
<1>23. CASE UnmapEmpty(t)
  BY <1>23 DEF UnmapEmpty
<1>24. CASE RemoveEmpty(t)
  BY <1>24 DEF RemoveEmpty
<1>25. CASE ListRemove(t)
  BY <1>25 DEF ListRemove
<1>26. CASE ListCheck(t)
  BY <1>26 DEF ListCheck
<1> QED
  BY <1>1, <1>2, <1>3, <1>4, <1>5, <1>6, <1>7, <1>8, <1>9, <1>10, <1>11, <1>12, <1>13,
     <1>14, <1>15, <1>16, <1>17, <1>18, <1>19, <1>20, <1>21, <1>22, <1>23, <1>24, <1>25,
     <1>26 DEF Act, Step

MappedSet == {d \in Descriptors : mapped[d]}

(* The heap implements the abstract allocator: it starts as it does, ...   *)
LEMMA AllocatorInit == Init => Allocator!Init
<1> SUFFICES ASSUME Init PROVE Allocator!Init
  OBVIOUS
<1>1. MappedSet = {}
  BY DEF Init, MappedSet
<1>2. Allocated = {}
  <2>1. live = {} /\ \A t \in Threads : InHand(t) = {}
    BY DEF Init, InHand
  <2> QED
    BY <2>1 DEF Allocated
<1> QED
  BY <1>1, <1>2 DEF Allocator!Init, MappedSet

(* ... every step of a thread maps or unmaps a superblock of which no      *)
(* block is allocated, allocates a free block of a mapped superblock,      *)
(* frees one, or does nothing of the kind, ...                             *)
LEMMA AllocatorStep ==
  ASSUME IInv, NEW t \in Threads, Act(t)
  PROVE  \/ MappedSet' = MappedSet /\ Allocated' = Allocated
         \/ \E d \in Descriptors :
              \/ d \notin MappedSet /\ MappedSet' = MappedSet \union {d} /\ Allocated' = Allocated
              \/ /\ d \in MappedSet /\ \A b \in Blocks : <<d, b>> \notin Allocated
                 /\ MappedSet' = MappedSet \ {d} /\ Allocated' = Allocated
              \/ \E b \in Blocks :
                   \/ /\ d \in MappedSet /\ <<d, b>> \notin Allocated
                      /\ Allocated' = Allocated \union {<<d, b>>} /\ MappedSet' = MappedSet
                   \/ /\ <<d, b>> \in Allocated /\ Allocated' = Allocated \ {<<d, b>>}
                      /\ MappedSet' = MappedSet
<1>a. mapped \in [Descriptors -> BOOLEAN] /\ pool \in SUBSET Descriptors /\ reg[t].block \in Blocks
  BY DEF IInv, Types, TypeOK, Regs
<1>1. CASE Popped(t)
  <2>1. reg[t].desc \in Descriptors /\ InUse(reg[t].desc)
    BY <1>1, PopFirst DEF Popped
  <2>2. Allocated' = Allocated \union {<<reg[t].desc, reg[t].block>>}
    BY <1>1, AllocatedStep DEF Popped, Made, PushedBack, InstallNew
  <2>3. <<reg[t].desc, reg[t].block>> \notin Allocated
    BY <1>1, TakenWasFree
  <2>4. MappedSet' = MappedSet
    BY <1>1 DEF Popped, PopCas, MappedSet
  <2>5. reg[t].desc \in MappedSet
    BY <2>1 DEF MappedSet, InUse
  <2> QED
    BY <1>a, <2>1, <2>2, <2>3, <2>4, <2>5
<1>2. CASE Made(t)
  <2>1. reg[t].desc \in Descriptors /\ mapped[reg[t].desc]
    BY <1>2, Installed DEF Made, InstallNew, IInv, Knowledge, PrivateUnknown
  <2>2. Allocated' = Allocated \union {<<reg[t].desc, 0>>}
    BY <1>2, AllocatedStep DEF Popped, Made, PushedBack, InstallNew
  <2>3. 0 \in Blocks
    BY SizeAssumption DEF Blocks
  <2>4. <<reg[t].desc, 0>> \notin Allocated
    BY <1>2, <2>3, TakenWasFree
  <2>5. MappedSet' = MappedSet
    BY <1>2 DEF Made, InstallNew, MappedSet, blockVars
  <2>6. reg[t].desc \in MappedSet
    BY <2>1 DEF MappedSet
  <2> QED
    BY <2>1, <2>2, <2>3, <2>4, <2>5, <2>6
<1>3. CASE PushedBack(t)
  <2>1. reg[t].desc \in Descriptors /\ <<reg[t].desc, reg[t].block>> \in Allocated
    <3>1. pc[t] \in Frees
      BY <1>3 DEF PushedBack, Frees
    <3> QED
      BY <3>1, HeldIsAllocated DEF AllocatedIn
  <2>2. Allocated' = Allocated \ {<<reg[t].desc, reg[t].block>>}
    BY <1>3, AllocatedStep DEF Popped, Made, PushedBack, InstallNew
  <2>3. MappedSet' = MappedSet
    BY <1>3 DEF PushedBack, FreeCas, MappedSet
  <2> QED
    BY <1>a, <2>1, <2>2, <2>3
<1>4. CASE Allocated' = Allocated
  <2>1. CASE mapped' = mapped
    BY <1>4, <2>1 DEF MappedSet
  <2>2. CASE \E d \in pool : mapped' = [mapped EXCEPT ![d] = TRUE] /\ NewSuperblock(t)
    <3>1. PICK d \in pool : mapped' = [mapped EXCEPT ![d] = TRUE]
      BY <2>2
    <3>2. d \in Descriptors /\ ~mapped[d]
      BY <1>a DEF IInv, Knowledge, PoolUnknown
    <3>3. MappedSet' = MappedSet \union {d} /\ d \notin MappedSet
      BY <1>a, <3>1, <3>2 DEF MappedSet
    <3> QED
      BY <1>4, <3>2, <3>3
  <2>3. CASE mapped' = [mapped EXCEPT ![reg[t].desc] = FALSE] /\ (Discard(t) \/ UnmapEmpty(t))
    <3>1. PICK d : d = reg[t].desc
      OBVIOUS
    <3>2. CASE d \in MappedSet
      <4>1. d \in Descriptors /\ mapped[d]
        BY <3>2 DEF MappedSet
      <4>2. MappedSet' = MappedSet \ {d}
        BY <1>a, <2>3, <3>1, <4>1 DEF MappedSet
      <4>3. ~mapped'[d]
        BY <1>a, <2>3, <3>1, <4>1
      <4>4. \A b : <<d, b>> \notin Allocated
        BY <4>1, <4>3, UnmapStep, NotInUseUnowned
      <4> QED
        BY <1>4, <3>2, <4>1, <4>2, <4>4
    <3>3. CASE d \notin MappedSet
      <4>1. MappedSet' = MappedSet
        BY <1>a, <2>3, <3>1, <3>3 DEF MappedSet
      <4> QED
        BY <1>4, <4>1
    <3> QED
      BY <3>2, <3>3
  <2> QED
    BY <2>1, <2>2, <2>3, MappingMoves
<1> QED
  BY <1>1, <1>2, <1>3, <1>4, AllocatedStep

(* ... which are the steps of the allocator.                               *)
LEMMA AllocatorNext ==
  ASSUME IInv, [Next]_vars
  PROVE  [Allocator!Next]_(Allocator!vars)
<1>1. CASE UNCHANGED vars
  <2>1. MappedSet' = MappedSet
    BY <1>1 DEF vars, blockVars, MappedSet
  <2>2. \A t \in Threads : InHand(t)' = InHand(t)
    BY <1>1 DEF vars, InHand
  <2>3. UNION {InHand(t)' : t \in Threads} = UNION {InHand(t) : t \in Threads}
    BY <2>2
  <2>4. Allocated' = Allocated
    BY <1>1, <2>3 DEF vars, Allocated
  <2> QED
    BY <2>1, <2>4 DEF Allocator!vars, MappedSet
<1>2. ASSUME NEW t \in Threads, Act(t) PROVE [Allocator!Next]_(Allocator!vars)
  BY <1>2, AllocatorStep
     DEF Allocator!vars, Allocator!Next, Allocator!Map, Allocator!Unmap, Allocator!Allocate,
         Allocator!Release, MappedSet
<1> QED
  BY <1>1, <1>2 DEF Next, Act, AllDone

(* The lock-free heap implements the abstract allocator: to a caller, the  *)
(* interleaved steps of aae_malloc and aae_free look like blocks that are  *)
(* allocated and freed one at a time.                                      *)
THEOREM HeapImplementsAllocator == Spec => ImplementsAllocator
<1>1. IInv /\ [Next]_vars => [Allocator!Next]_(Allocator!vars)
  BY AllocatorNext
<1> QED
  BY <1>1, AllocatorInit, HeapInvariant, PTL DEF Spec, ImplementsAllocator, Allocator!Spec

=============================================================================

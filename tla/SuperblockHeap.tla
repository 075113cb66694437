--------------------------- MODULE SuperblockHeap ---------------------------
(***************************************************************************)
(* The lock-free core of lib/aae_malloc.c: the heaps of one size class,    *)
(* the superblocks their blocks are cut from, and the threads that run     *)
(* aae_malloc and aae_free on them.                                        *)
(*                                                                         *)
(* Grain of atomicity.  A step is one access to shared memory.  A CAS loop *)
(* that reads only the word it swaps is one step: a failed iteration       *)
(* changes nothing and the successful one is a read-modify-write.  The     *)
(* loops that read something else between the load and the CAS (the pop    *)
(* of a block and the push of aae_free) are split at every access.         *)
(*                                                                         *)
(* The partial list of the size class (QueueEnqueue, QueueDequeue) is a    *)
(* FIFO here, and the allocation of a descriptor one step.                 *)
(***************************************************************************)
EXTENDS Integers, Sequences, FiniteSets

CONSTANTS
  Threads,          (* the threads calling aae_malloc and aae_free         *)
  Heaps,            (* the processor heaps of the size class, one per CPU  *)
  Descriptors,      (* the descriptors the memory of the model has room for *)
  NBlocks,          (* m_number_of_blocks of every superblock              *)
  MaxCredits,       (* MAXCREDITS                                          *)
  TagModulus,       (* 2^32: m_tag is a 32-bit field                       *)
  MaxMallocs,       (* bound: calls of aae_malloc in a behaviour           *)
  MaxOsFailures,    (* bound: steps that meet a refused os_alloc           *)
  NULL

ASSUME SizeAssumption ==
  /\ NBlocks \in Nat /\ NBlocks >= 2
  /\ MaxCredits \in Nat /\ MaxCredits >= 1
  /\ TagModulus \in Nat /\ TagModulus >= 1
  /\ MaxMallocs \in Nat /\ MaxOsFailures \in Nat

ASSUME NullAssumption == NULL \notin Descriptors \union Heaps

ASSUME FiniteAssumption ==
  IsFiniteSet(Threads) /\ IsFiniteSet(Heaps) /\ IsFiniteSet(Descriptors)

(* No tag comes round to a value it had: what is said of the heap is said  *)
(* of as many calls as m_tag has values, each call advancing one tag once. *)
ASSUME TagAssumption == MaxMallocs < TagModulus

Blocks == 0 .. NBlocks - 1

(* The first word of an unreserved block is the index of the next one; the *)
(* first word of an allocated block is the address of its descriptor,      *)
(* which is no block index.                                                *)
Header == NBlocks
Words == Blocks \union {Header}

(* The unpacked m_active word: a descriptor and its credits, or 0.         *)
NoActive == [desc |-> NULL, credits |-> 0]

States == {"ACTIVE", "FULL", "PARTIAL", "EMPTY"}

Anchors == [avail : Blocks, count : Blocks, state : States,
            tag : 0 .. TagModulus - 1]

ZeroAnchor == [avail |-> 0, count |-> 0, state |-> "ACTIVE", tag |-> 0]

VARIABLES
  active,      (* m_active of every heap                                   *)
  partial,     (* m_partial of every heap                                  *)
  queue,       (* the partial list of the size class                       *)
  anchor,      (* m_anchor of every descriptor                             *)
  home,        (* m_heap of every descriptor                               *)
  mapped,      (* is the superblock of the descriptor mapped?              *)
  word,        (* first word of every block of every superblock            *)
  pool,        (* the free descriptors (m_freelist_descriptor_head)        *)
  retired,     (* the descriptors m_retired_descriptor_list of every       *)
               (* thread counts, ...                                       *)
  dropped,     (* ... and those that are counted but have no record there  *)
  records,     (* m_shared_hp_list: its m_hp_count, and how many of its    *)
               (* records are held for good                                *)
  errorFlag,   (* m_allocation_error_flag of every thread                  *)
  pc,          (* where every thread stands                                *)
  reg,         (* its local variables                                      *)
  live,        (* the blocks handed to callers and not yet given to free   *)
  mallocs,     (* calls of aae_malloc so far                               *)
  osFailures   (* steps so far that met a refused os_alloc                 *)

heapVars == <<active, partial, queue>>
blockVars == <<anchor, home, mapped, word>>
poolVars == <<pool, retired, dropped, records>>
boundVars == <<mallocs, osFailures>>
vars == <<heapVars, blockVars, poolVars, errorFlag, pc, reg, live, boundVars>>

-----------------------------------------------------------------------------
(* Local variables.  "last" is get_active_credits(old_active) == 0, "more" *)
(* is more_credits, "other" the second descriptor a helper handles, "then" *)
(* where to go on after a helper that several callers share.               *)
NoReg == [heap |-> NULL, desc |-> NULL, other |-> NULL, block |-> 0, next |-> 0,
          old |-> ZeroAnchor, last |-> FALSE, more |-> 0, then |-> "idle"]

Regs == [heap : Heaps \union {NULL}, desc : Descriptors \union {NULL},
         other : Descriptors \union {NULL}, block : Blocks, next : Words,
         old : Anchors, last : BOOLEAN, more : 0 .. MaxCredits,
         then : {"idle", "return", "get_partial", "check_error"}]

Goto(t, label) == pc' = [pc EXCEPT ![t] = label]

Finish(t) ==
  /\ Goto(t, "idle")
  /\ reg' = [reg EXCEPT ![t] = NoReg]

Resume(t) ==
  IF reg[t].then = "idle"
  THEN Finish(t)
  ELSE Goto(t, reg[t].then) /\ UNCHANGED reg

(* A refused os_alloc sets the thread's error flag and returns AAE_NULL.   *)
OsRefuses(t) ==
  /\ osFailures < MaxOsFailures
  /\ osFailures' = osFailures + 1
  /\ errorFlag' = [errorFlag EXCEPT ![t] = TRUE]
  /\ UNCHANGED mallocs

OsGrants == UNCHANGED <<osFailures, mallocs, errorFlag>>

LesserOf(a, b) == IF a < b THEN a ELSE b

(* acquire_hp adds a record to the shared list only when every record on   *)
(* it is in use, and no record is ever taken off.  An operation that has n *)
(* records at once and returns without releasing k of them leaves:         *)
RecordsAfter(n, k) ==
  [count |-> IF records.count < records.held + n THEN records.held + n
             ELSE records.count,
   held  |-> records.held + k]

(* QueueDequeue returns from an empty queue with both its records.         *)
KeptOnMiss == 2

(* QueueLazyInitialization returns when its node is refused, and a queue   *)
(* operation goes on all the same if another thread has initialised the    *)
(* queue by then: one record, lost = 1, may be gone. A refusal met while a *)
(* node is retired costs nothing but the error flag.                       *)
GoesOn(t, lost) == OsRefuses(t) \/ (lost = 0 /\ OsGrants)

-----------------------------------------------------------------------------
Init ==
  /\ active = [h \in Heaps |-> NoActive]
  /\ partial = [h \in Heaps |-> NULL]
  /\ queue = <<>>
  /\ anchor = [d \in Descriptors |-> ZeroAnchor]
  /\ home = [d \in Descriptors |-> NULL]
  /\ mapped = [d \in Descriptors |-> FALSE]
  /\ word = [d \in Descriptors |-> [b \in Blocks |-> 0]]
  /\ pool = Descriptors
  /\ retired = [t \in Threads |-> {}]
  /\ dropped = {}
  /\ records = [count |-> 0, held |-> 0]
  /\ errorFlag = [t \in Threads |-> FALSE]
  /\ pc = [t \in Threads |-> "idle"]
  /\ reg = [t \in Threads |-> NoReg]
  /\ live = {}
  /\ mallocs = 0
  /\ osFailures = 0

(* aae_malloc: FindHeap answers with the heap of whatever CPU the thread   *)
(* happens to run on.                                                      *)
BeginMalloc(t) ==
  /\ pc[t] = "idle"
  /\ mallocs < MaxMallocs
  /\ mallocs' = mallocs + 1
  /\ \E h \in Heaps : reg' = [reg EXCEPT ![t].heap = h]
  /\ Goto(t, "active")
  /\ UNCHANGED <<heapVars, blockVars, poolVars, errorFlag, live, osFailures>>

(* AllocateFromActiveSuperblock, first loop: take one credit of the active *)
(* superblock; with the last credit the superblock stops being active.     *)
Spend(a) == IF a.credits = 0 THEN NoActive ELSE [a EXCEPT !.credits = @ - 1]

ReserveActive(t) ==
  LET h == reg[t].heap
      a == active[h]
  IN
  /\ pc[t] = "active"
  /\ \/ /\ a.desc = NULL
        /\ Goto(t, "get_partial")
        /\ UNCHANGED <<active, reg>>
     \/ /\ a.desc # NULL
        /\ active' = [active EXCEPT ![h] = Spend(a)]
        /\ reg' = [reg EXCEPT ![t].desc = a.desc,
                              ![t].last = (a.credits = 0),
                              ![t].more = 0]
        /\ Goto(t, "pop_read")
  /\ UNCHANGED <<partial, queue, blockVars, poolVars, errorFlag, live, boundVars>>

(* The pop loop of AllocateFromActiveSuperblock and of                     *)
(* AllocateFromPartialSuperBlock: load the anchor, ...                     *)
PopRead(t) ==
  /\ pc[t] = "pop_read"
  /\ reg' = [reg EXCEPT ![t].old = anchor[reg[t].desc],
                        ![t].block = anchor[reg[t].desc].avail]
  /\ Goto(t, "pop_next")
  /\ UNCHANGED <<heapVars, blockVars, poolVars, errorFlag, live, boundVars>>

(* ... read the link in the first word of the block it names, ...          *)
PopNext(t) ==
  /\ pc[t] = "pop_next"
  /\ reg' = [reg EXCEPT ![t].next = word[reg[t].desc][reg[t].block]]
  /\ Goto(t, "pop_cas")
  /\ UNCHANGED <<heapVars, blockVars, poolVars, errorFlag, live, boundVars>>

(* Variant: ++m_tag left out.                                              *)
SameTag(tag) == tag

NextTag(tag) == (tag + 1) % TagModulus

(* ... and swap the anchor.  The thread that spent the last credit also    *)
(* takes the next batch of credits, or finds the superblock full.          *)
CreditsTaken(r) ==
  IF r.last /\ r.old.count > 0 THEN LesserOf(r.old.count, MaxCredits) ELSE r.more

PoppedAnchor(r) ==
  [avail |-> r.next,
   count |-> IF r.last THEN r.old.count - CreditsTaken(r) ELSE r.old.count,
   state |-> IF r.last /\ r.old.count = 0 THEN "FULL" ELSE r.old.state,
   tag   |-> NextTag(r.old.tag)]

(* Variant: a failed swap is tried again with the anchor loaded before.    *)
PopCasStale(t) ==
  LET r == reg[t]
      d == r.desc
  IN
  /\ pc[t] = "pop_cas"
  /\ \/ /\ anchor[d] # r.old
        /\ Goto(t, "pop_next")
        /\ UNCHANGED <<anchor, reg>>
     \/ /\ anchor[d] = r.old
        /\ anchor' = [anchor EXCEPT ![d] = PoppedAnchor(r)]
        /\ reg' = [reg EXCEPT ![t].more = CreditsTaken(r)]
        /\ Goto(t, IF CreditsTaken(r) > 0 THEN "update_active" ELSE "return")
  /\ UNCHANGED <<heapVars, home, mapped, word, poolVars, errorFlag, live, boundVars>>

PopCas(t) ==
  LET r == reg[t]
      d == r.desc
  IN
  /\ pc[t] = "pop_cas"
  /\ \/ /\ anchor[d] # r.old
        /\ Goto(t, "pop_read")
        /\ UNCHANGED <<anchor, reg>>
     \/ /\ anchor[d] = r.old
        /\ anchor' = [anchor EXCEPT ![d] = PoppedAnchor(r)]
        /\ reg' = [reg EXCEPT ![t].more = CreditsTaken(r)]
        /\ Goto(t, IF CreditsTaken(r) > 0 THEN "update_active" ELSE "return")
  /\ UNCHANGED <<heapVars, home, mapped, word, poolVars, errorFlag, live, boundVars>>

(* UpdateActive: reinstall the superblock with the new credits if nobody   *)
(* installed another one meanwhile, ...                                    *)
ActiveWord(d, credits) == [desc |-> d, credits |-> credits - 1]

UpdateActive(t) ==
  LET h == reg[t].heap
  IN
  /\ pc[t] = "update_active"
  /\ \/ /\ active[h] = NoActive
        /\ active' = [active EXCEPT ![h] = ActiveWord(reg[t].desc, reg[t].more)]
        /\ Goto(t, "return")
     \/ /\ active[h] # NoActive
        /\ Goto(t, "return_credits")
        /\ UNCHANGED active
  /\ UNCHANGED <<partial, queue, blockVars, poolVars, errorFlag, reg, live, boundVars>>

(* ... else give the credits back to the anchor and make it partial.       *)
ReturnCredits(t) ==
  LET d == reg[t].desc
  IN
  /\ pc[t] = "return_credits"
  /\ anchor' = [anchor EXCEPT ![d].count = @ + reg[t].more, ![d].state = "PARTIAL"]
  /\ reg' = [reg EXCEPT ![t].then = "return"]
  /\ Goto(t, "put_partial")
  /\ UNCHANGED <<heapVars, home, mapped, word, poolVars, errorFlag, live, boundVars>>

(* HeapPutPartial: swap the descriptor into the slot of its own heap; the  *)
(* one found there, if any, goes to the list.                              *)
PutPartial(t) ==
  LET d == reg[t].desc
      h == home[d]
  IN
  /\ pc[t] = "put_partial"
  /\ partial' = [partial EXCEPT ![h] = d]
  /\ \/ /\ partial[h] = NULL
        /\ Resume(t)
     \/ /\ partial[h] # NULL
        /\ reg' = [reg EXCEPT ![t].other = partial[h]]
        /\ Goto(t, "put_list")
  /\ UNCHANGED <<active, queue, blockVars, poolVars, errorFlag, live, boundVars>>

(* ListPutPartial; it returns without a word when it cannot get memory for *)
(* a queue node or a hazard record, and the descriptor is dropped.         *)
PutList(t) ==
  /\ pc[t] = "put_list"
  /\ \E lost \in {0, 1} :
       \/ /\ queue' = Append(queue, reg[t].other)
          /\ records' = RecordsAfter(lost + 1, lost)
          /\ GoesOn(t, lost)
       \/ /\ UNCHANGED queue
          /\ records' = RecordsAfter(lost + 1, lost + 1)
          /\ OsRefuses(t)
  /\ Resume(t)
  /\ UNCHANGED <<active, partial, blockVars, pool, retired, dropped, live>>

(* The last lines of both allocation paths: the block gets its header and  *)
(* is handed to the caller.                                                *)
ReturnBlock(t) ==
  LET d == reg[t].desc
      b == reg[t].block
  IN
  /\ pc[t] = "return"
  /\ word' = [word EXCEPT ![d][b] = Header]
  /\ live' = live \union {<<d, b>>}
  /\ Finish(t)
  /\ UNCHANGED <<heapVars, anchor, home, mapped, poolVars, errorFlag, boundVars>>

-----------------------------------------------------------------------------
(* Variant: the descriptor stays in the slot it is taken from.             *)
PeekPartial(t) ==
  LET h == reg[t].heap
  IN
  /\ pc[t] = "get_partial"
  /\ \/ /\ partial[h] = NULL
        /\ Goto(t, "get_list")
        /\ UNCHANGED reg
     \/ /\ partial[h] # NULL
        /\ reg' = [reg EXCEPT ![t].desc = partial[h]]
        /\ Goto(t, "reserve")
  /\ UNCHANGED <<heapVars, blockVars, poolVars, errorFlag, live, boundVars>>

(* AllocateFromPartialSuperBlock.  HeapGetPartial empties the slot of the  *)
(* heap, and turns to the list only when the slot was empty.               *)
GetPartial(t) ==
  LET h == reg[t].heap
  IN
  /\ pc[t] = "get_partial"
  /\ \/ /\ partial[h] = NULL
        /\ Goto(t, "get_list")
        /\ UNCHANGED <<partial, reg>>
     \/ /\ partial[h] # NULL
        /\ partial' = [partial EXCEPT ![h] = NULL]
        /\ reg' = [reg EXCEPT ![t].desc = partial[h]]
        /\ Goto(t, "reserve")
  /\ UNCHANGED <<active, queue, blockVars, poolVars, errorFlag, live, boundVars>>

(* ListGetPartial: the head of the list, or AAE_NULL when there is none or *)
(* when the queue cannot get memory for a node or for one of its records.  *)
Dequeued(t) ==
  /\ queue # <<>>
  /\ queue' = Tail(queue)
  /\ \E lost \in {0, 1} : records' = RecordsAfter(lost + 2, lost) /\ GoesOn(t, lost)

DequeuedNothing(t) ==
  /\ \E lost \in {0, 1} :
       \/ /\ queue = <<>>
          /\ records' = RecordsAfter(lost + 2, lost + KeptOnMiss)
          /\ GoesOn(t, lost)
       \/ \E n \in {1, 2} : records' = RecordsAfter(lost + n, lost + n) /\ OsRefuses(t)
  /\ UNCHANGED queue

GetList(t) ==
  /\ pc[t] = "get_list"
  /\ \/ /\ Dequeued(t)
        /\ reg' = [reg EXCEPT ![t].desc = Head(queue)]
        /\ Goto(t, "reserve")
     \/ /\ DequeuedNothing(t)
        /\ Goto(t, "new")
        /\ UNCHANGED reg
  /\ UNCHANGED <<active, partial, blockVars, pool, retired, dropped, live>>

(* The reservation loop: an empty descriptor is retired and the search     *)
(* starts again, a partial one gives one block and a batch of credits.     *)
BatchBesides(a) == LesserOf(a.count - 1, MaxCredits)

Reserve(t) ==
  LET d == reg[t].desc
      a == anchor[d]
      batch == BatchBesides(a)
  IN
  /\ pc[t] = "reserve"
  /\ \/ /\ a.state = "EMPTY"
        /\ reg' = [reg EXCEPT ![t].then = "get_partial"]
        /\ Goto(t, "retire")
        /\ UNCHANGED anchor
     \/ /\ a.state # "EMPTY"
        /\ anchor' = [anchor EXCEPT ![d].count = @ - (batch + 1),
                                    ![d].state = IF batch > 0 THEN "ACTIVE" ELSE "FULL"]
        /\ reg' = [reg EXCEPT ![t].last = FALSE, ![t].more = batch]
        /\ Goto(t, "pop_read")
  /\ UNCHANGED <<heapVars, home, mapped, word, poolVars, errorFlag, live, boundVars>>

(* InsertRetiredNode counts the descriptor even when it is refused the     *)
(* record that would hold it. ScanRetiredNodes, once the thread's list is  *)
(* longer than twice the number of hazard records and if it gets a buffer, *)
(* makes everything the list holds and no hazard pointer covers allocatable *)
(* again. Only a thread inside AllocateDescriptor, one step here, covers a *)
(* descriptor.                                                             *)
Retire(t) ==
  LET all == retired[t] \union {reg[t].desc}
      scans == Cardinality(all) > 2 * records.count
  IN
  /\ pc[t] = "retire"
  /\ \E noRecord, noBuffer \in BOOLEAN :
       LET freed == IF scans /\ ~noBuffer THEN all \ dropped' ELSE {}
       IN /\ noBuffer => scans
          /\ dropped' = IF noRecord THEN dropped \union {reg[t].desc} ELSE dropped
          /\ retired' = [retired EXCEPT ![t] = all \ freed]
          /\ pool' = pool \union freed
          /\ IF noRecord \/ noBuffer THEN OsRefuses(t) ELSE OsGrants
  /\ Resume(t)
  /\ UNCHANGED <<heapVars, blockVars, records, live>>

-----------------------------------------------------------------------------
(* AllocateFromNewSuperblock: a descriptor and a superblock, both private  *)
(* until the CAS that installs them, or a refusal of either.               *)
(* Variant: all blocks but one as credits, with no - 1.                    *)
FirstCreditsUnshifted == LesserOf(NBlocks - 1, MaxCredits)

FirstCredits == LesserOf(NBlocks - 1, MaxCredits) - 1

NewAnchor(tag) == [avail |-> 1, count |-> NBlocks - FirstCredits - 2,
                   state |-> "ACTIVE", tag |-> tag]

OrganizedList == [b \in Blocks |-> IF b = NBlocks - 1 THEN 0 ELSE b + 1]

NewSuperblock(t) ==
  /\ pc[t] = "new"
  /\ \/ \E d \in pool :
          /\ pool' = pool \ {d}
          /\ mapped' = [mapped EXCEPT ![d] = TRUE]
          /\ home' = [home EXCEPT ![d] = reg[t].heap]
          /\ word' = [word EXCEPT ![d] = OrganizedList]
          /\ anchor' = [anchor EXCEPT ![d] = NewAnchor(@.tag)]
          /\ records' = RecordsAfter(1, 0)
          /\ reg' = [reg EXCEPT ![t].desc = d]
          /\ Goto(t, "install")
          /\ OsGrants
     \/ /\ \/ pool' = pool /\ records' = RecordsAfter(1, 1)
           \/ \E d \in pool : pool' = pool \ {d} /\ records' = RecordsAfter(1, 0)
        /\ OsRefuses(t)
        /\ Goto(t, "check_error")
        /\ UNCHANGED <<blockVars, reg>>
  /\ UNCHANGED <<heapVars, retired, dropped, live>>

InstallNew(t) ==
  LET h == reg[t].heap
      d == reg[t].desc
  IN
  /\ pc[t] = "install"
  /\ \/ /\ active[h] = NoActive
        /\ active' = [active EXCEPT ![h] = ActiveWord(d, FirstCredits + 1)]
        /\ reg' = [reg EXCEPT ![t].block = 0]
        /\ Goto(t, "return")
     \/ /\ active[h] # NoActive
        /\ Goto(t, "discard")
        /\ UNCHANGED <<active, reg>>
  /\ UNCHANGED <<partial, queue, blockVars, poolVars, errorFlag, live, boundVars>>

(* Another thread installed its superblock first: unmap, then retire.      *)
Discard(t) ==
  /\ pc[t] = "discard"
  /\ mapped' = [mapped EXCEPT ![reg[t].desc] = FALSE]
  /\ reg' = [reg EXCEPT ![t].then = "check_error"]
  /\ Goto(t, "retire")
  /\ UNCHANGED <<heapVars, anchor, home, word, poolVars, errorFlag, live, boundVars>>

(* The end of the loop of aae_malloc: AAE_NULL when the error flag is up,  *)
(* another round otherwise.                                                *)
CheckError(t) ==
  /\ pc[t] = "check_error"
  /\ \/ /\ errorFlag[t]
        /\ errorFlag' = [errorFlag EXCEPT ![t] = FALSE]
        /\ Finish(t)
     \/ /\ ~errorFlag[t]
        /\ Goto(t, "active")
        /\ UNCHANGED <<errorFlag, reg>>
  /\ UNCHANGED <<heapVars, blockVars, poolVars, live, boundVars>>

-----------------------------------------------------------------------------
(* aae_free.  The caller gives up a block, any thread's, and its header    *)
(* leads to the descriptor.                                                *)
BeginFree(t) ==
  /\ pc[t] = "idle"
  /\ \E b \in live :
       /\ live' = live \ {b}
       /\ reg' = [reg EXCEPT ![t].desc = b[1], ![t].block = b[2]]
  /\ Goto(t, "free_read")
  /\ UNCHANGED <<heapVars, blockVars, poolVars, errorFlag, boundVars>>

FreeRead(t) ==
  /\ pc[t] = "free_read"
  /\ reg' = [reg EXCEPT ![t].old = anchor[reg[t].desc]]
  /\ Goto(t, "free_link")
  /\ UNCHANGED <<heapVars, blockVars, poolVars, errorFlag, live, boundVars>>

FreeLink(t) ==
  /\ pc[t] = "free_link"
  /\ word' = [word EXCEPT ![reg[t].desc][reg[t].block] = reg[t].old.avail]
  /\ Goto(t, "free_cas")
  /\ UNCHANGED <<heapVars, anchor, home, mapped, poolVars, errorFlag, reg, live, boundVars>>

(* Variant: the superblock counts as empty one block too early.            *)
LastBlockButOneOf(a) == a.count + 1 = NBlocks - 1

LastBlockOf(a) == a.count = NBlocks - 1

(* Variant: the block is not counted when it is the first one to be free.  *)
FreedAnchorUncounted(a, b) ==
  [avail |-> b,
   count |-> IF LastBlockOf(a) \/ a.state = "FULL" THEN a.count ELSE a.count + 1,
   state |-> IF LastBlockOf(a) THEN "EMPTY"
             ELSE IF a.state = "FULL" THEN "PARTIAL" ELSE a.state,
   tag   |-> a.tag]

FreedAnchor(a, b) ==
  [avail |-> b,
   count |-> IF LastBlockOf(a) THEN a.count ELSE a.count + 1,
   state |-> IF LastBlockOf(a) THEN "EMPTY"
             ELSE IF a.state = "FULL" THEN "PARTIAL" ELSE a.state,
   tag   |-> a.tag]

(* Variant: the anchor is stored, not swapped.                             *)
FreeStore(t) ==
  LET r == reg[t]
      new == FreedAnchor(r.old, r.block)
  IN
  /\ pc[t] = "free_cas"
  /\ anchor' = [anchor EXCEPT ![r.desc] = new]
  /\ IF new.state = "EMPTY"
     THEN reg' = [reg EXCEPT ![t].heap = home[r.desc]] /\ Goto(t, "unmap")
     ELSE IF r.old.state = "FULL" THEN Goto(t, "put_partial") /\ UNCHANGED reg
     ELSE Finish(t)
  /\ UNCHANGED <<heapVars, home, mapped, word, poolVars, errorFlag, live, boundVars>>

FreeCas(t) ==
  LET r == reg[t]
      d == r.desc
      new == FreedAnchor(r.old, r.block)
  IN
  /\ pc[t] = "free_cas"
  /\ \/ /\ anchor[d] # r.old
        /\ Goto(t, "free_read")
        /\ UNCHANGED <<anchor, reg>>
     \/ /\ anchor[d] = r.old
        /\ anchor' = [anchor EXCEPT ![d] = new]
        /\ \/ /\ new.state = "EMPTY"
              /\ reg' = [reg EXCEPT ![t].heap = home[d]]
              /\ Goto(t, "unmap")
           \/ /\ new.state # "EMPTY" /\ r.old.state = "FULL"
              /\ Goto(t, "put_partial")
              /\ UNCHANGED reg
           \/ /\ new.state # "EMPTY" /\ r.old.state # "FULL"
              /\ Finish(t)
  /\ UNCHANGED <<heapVars, home, mapped, word, poolVars, errorFlag, live, boundVars>>

(* The whole superblock is free: it goes back to the operating system.     *)
UnmapEmpty(t) ==
  /\ pc[t] = "unmap"
  /\ mapped' = [mapped EXCEPT ![reg[t].desc] = FALSE]
  /\ Goto(t, "remove_empty")
  /\ UNCHANGED <<heapVars, anchor, home, word, poolVars, errorFlag, reg, live, boundVars>>

(* RemoveEmptyDescriptor: retire the descriptor if it is still in the slot *)
(* of its heap, else clean up the list.                                    *)
RemoveEmpty(t) ==
  LET h == reg[t].heap
  IN
  /\ pc[t] = "remove_empty"
  /\ \/ /\ partial[h] = reg[t].desc
        /\ partial' = [partial EXCEPT ![h] = NULL]
        /\ Goto(t, "retire")
     \/ /\ partial[h] # reg[t].desc
        /\ Goto(t, "list_remove")
        /\ UNCHANGED partial
  /\ UNCHANGED <<active, queue, blockVars, poolVars, errorFlag, reg, live, boundVars>>

(* ListRemoveEmptyDescriptor: dequeue until the list is exhausted or shows *)
(* a descriptor that is not empty, which goes back to the tail; the empty  *)
(* ones met on the way are dropped.                                        *)
ListRemove(t) ==
  /\ pc[t] = "list_remove"
  /\ \/ /\ Dequeued(t)
        /\ reg' = [reg EXCEPT ![t].other = Head(queue)]
        /\ Goto(t, "list_check")
     \/ /\ DequeuedNothing(t)
        /\ Finish(t)
  /\ UNCHANGED <<active, partial, blockVars, pool, retired, dropped, live>>

(* Variant: a descriptor that is not empty is not put back.                *)
ListCheckDrop(t) ==
  /\ pc[t] = "list_check"
  /\ IF anchor[reg[t].other].state = "EMPTY" THEN Goto(t, "list_remove") /\ UNCHANGED reg
     ELSE Finish(t)
  /\ UNCHANGED <<heapVars, blockVars, poolVars, errorFlag, live, boundVars>>

ListCheck(t) ==
  /\ pc[t] = "list_check"
  /\ Goto(t, IF anchor[reg[t].other].state = "EMPTY" THEN "list_remove" ELSE "put_list")
  /\ UNCHANGED <<heapVars, blockVars, poolVars, errorFlag, reg, live, boundVars>>

-----------------------------------------------------------------------------
Step(t) ==
  \/ ReserveActive(t) \/ PopRead(t) \/ PopNext(t) \/ PopCas(t)
  \/ UpdateActive(t) \/ ReturnCredits(t) \/ PutPartial(t) \/ PutList(t)
  \/ ReturnBlock(t)
  \/ GetPartial(t) \/ GetList(t) \/ Reserve(t) \/ Retire(t)
  \/ NewSuperblock(t) \/ InstallNew(t) \/ Discard(t) \/ CheckError(t)
  \/ FreeRead(t) \/ FreeLink(t) \/ FreeCas(t)
  \/ UnmapEmpty(t) \/ RemoveEmpty(t) \/ ListRemove(t) \/ ListCheck(t)

(* Callers may stop calling once nothing is left to be done.               *)
AllDone ==
  /\ mallocs = MaxMallocs /\ live = {}
  /\ \A t \in Threads : pc[t] = "idle"
  /\ UNCHANGED vars

Next ==
  \/ \E t \in Threads : BeginMalloc(t) \/ BeginFree(t) \/ Step(t)
  \/ AllDone

Spec == Init /\ [][Next]_vars

(* The operating system schedules every thread that is inside a call; no   *)
(* caller has to call again or to free what it holds.                      *)
FairSpec == Spec /\ \A t \in Threads : WF_vars(Step(t))

-----------------------------------------------------------------------------
(* Vocabulary of the properties.                                           *)

(* The block a thread has popped and not yet returned, or was given to     *)
(* free and has not yet pushed back.                                       *)
InHand(t) ==
  LET r == reg[t]
      holding == \/ pc[t] \in {"update_active", "return_credits", "return",
                               "free_read", "free_link", "free_cas"}
                 \/ pc[t] \in {"put_partial", "put_list"} /\ r.then = "return"
  IN IF holding THEN {<<r.desc, r.block>>} ELSE {}

Allocated == live \union UNION {InHand(t) : t \in Threads}

AllocatedIn(d) == {b \in Blocks : <<d, b>> \in Allocated}

(* Blocks a thread has taken out of m_count and of the active credits and  *)
(* not yet popped, or carries as credits it has to put somewhere.          *)
Reserved(t, d) ==
  IF reg[t].desc # d THEN 0
  ELSE CASE pc[t] \in {"pop_read", "pop_next", "pop_cas"} -> 1 + reg[t].more
         [] pc[t] \in {"update_active", "return_credits"} -> reg[t].more
         [] OTHER -> 0

ActiveCredits(h, d) == IF active[h].desc = d THEN active[h].credits + 1 ELSE 0

(* The sum of the values of f.                                             *)
Total(f) == Cardinality(UNION {{x} \X (1 .. f[x]) : x \in DOMAIN f})

FreeBlocks(d) ==
  anchor[d].count + Total([h \in Heaps |-> ActiveCredits(h, d)])
                  + Total([t \in Threads |-> Reserved(t, d)])

(* The first n blocks of the free list of d; a chain that meets a header   *)
(* has left the free blocks.                                               *)
FreeList(d, n) ==
  LET at[i \in 1 .. n] == IF i = 1 THEN anchor[d].avail
                          ELSE IF at[i - 1] \in Blocks THEN word[d][at[i - 1]]
                          ELSE Header
  IN at

(* A thread is about to install d and is the only one that knows it.       *)
Private(d) == \E t \in Threads : pc[t] \in {"install", "discard"} /\ reg[t].desc = d

InUse(d) == mapped[d] /\ anchor[d].state # "EMPTY" /\ ~Private(d)

(* The descriptors a thread alone is responsible for putting somewhere.    *)
Carried(t) ==
  LET r == reg[t]
  IN CASE pc[t] \in {"reserve", "retire", "install", "discard", "update_active",
                     "return_credits", "put_partial"} -> {r.desc}
       [] pc[t] \in {"pop_read", "pop_next", "pop_cas"} /\ (r.last \/ r.more > 0) -> {r.desc}
       [] pc[t] \in {"put_list", "list_check"} -> {r.other}
       [] OTHER -> {}

(* How many places hold the descriptor.                                    *)
Places(d) ==
  Cardinality({h \in Heaps : active[h].desc = d})
  + Cardinality({h \in Heaps : partial[h] = d})
  + Cardinality({i \in 1 .. Len(queue) : queue[i] = d})
  + Cardinality({t \in Threads : d \in Carried(t)})
  + Cardinality({t \in Threads : d \in retired[t]})
  + (IF d \in pool THEN 1 ELSE 0)

-----------------------------------------------------------------------------
(* Every variable has its type: in particular the credits fit the low bits *)
(* of m_active, and m_count and m_available stay block counts and indices. *)
TypeOK ==
  /\ active \in [Heaps -> [desc : Descriptors, credits : 0 .. MaxCredits - 1]
                          \union {NoActive}]
  /\ partial \in [Heaps -> Descriptors \union {NULL}]
  /\ queue \in Seq(Descriptors)
  /\ anchor \in [Descriptors -> Anchors]
  /\ home \in [Descriptors -> Heaps \union {NULL}]
  /\ mapped \in [Descriptors -> BOOLEAN]
  /\ word \in [Descriptors -> [Blocks -> Words]]
  /\ pool \in SUBSET Descriptors
  /\ retired \in [Threads -> SUBSET Descriptors]
  /\ dropped \in SUBSET Descriptors
  /\ records \in [count : Nat, held : Nat]
  /\ errorFlag \in [Threads -> BOOLEAN]
  /\ reg \in [Threads -> Regs]
  /\ live \in SUBSET (Descriptors \X Blocks)
  /\ mallocs \in 0 .. MaxMallocs
  /\ osFailures \in 0 .. MaxOsFailures

(* The free list of a superblock in use, followed from m_available through *)
(* the first words of the blocks, consists of exactly the blocks nobody    *)
(* owns, each once, and there are as many of them as m_count, the active   *)
(* credits and the reservations in flight account for: no interleaving of  *)
(* pops and pushes hands a block out twice, loses one or breaks the chain. *)
FreeListExact ==
  \A d \in Descriptors : InUse(d) =>
    LET n == FreeBlocks(d)
        list == FreeList(d, n)
    IN /\ n = NBlocks - Cardinality(AllocatedIn(d))
       /\ {list[i] : i \in 1 .. n} = Blocks \ AllocatedIn(d)

(* A block has one owner: no two threads hold the same block, and no       *)
(* thread holds one that a caller still owns.                              *)
OneOwner ==
  \A t, u \in Threads :
    /\ InHand(t) \intersect live = {}
    /\ t # u => InHand(t) \intersect InHand(u) = {}

(* Every block a caller owns carries the header aae_free will follow, and  *)
(* its superblock is mapped.                                               *)
HeadersIntact ==
  \A b \in live : mapped[b[1]] /\ word[b[1]][b[2]] = Header

(* No thread reads or writes the first word of a block whose superblock is *)
(* no longer mapped: a reservation keeps the superblock alive while the    *)
(* pop loop dereferences links it may have loaded long ago.                *)
NoUnmappedAccess ==
  \A t \in Threads :
    pc[t] \in {"pop_next", "free_link", "return"} => mapped[reg[t].desc]

(* A descriptor is in one place at most: active in one heap, in one slot,  *)
(* in the list once, carried by one thread, on one retired list or free.   *)
(* Two places would let two threads reserve the same blocks or recycle a   *)
(* descriptor that is in use.                                              *)
OnePlace == \A d \in Descriptors : Places(d) <= 1

(* What comes out of the slot or of the list is either empty or has a      *)
(* block to give: m_count - 1 does not wrap in the reservation loop.       *)
PartialHasBlocks ==
  \A t \in Threads :
    pc[t] = "reserve" =>
      LET a == anchor[reg[t].desc]
      IN a.state = "EMPTY" \/ (a.state = "PARTIAL" /\ a.count >= 1)

(* As long as the operating system refuses nothing, a superblock with      *)
(* unreserved blocks is never stranded: some place or some thread still    *)
(* leads to it.                                                            *)
NothingStranded ==
  osFailures = 0 =>
    \A d \in Descriptors :
      InUse(d) /\ anchor[d].count > 0 => Places(d) >= 1

(* A superblock is unmapped only when none of its blocks is owned, and a   *)
(* descriptor that owns blocks is never made allocatable again.            *)
UnmapOnlyUnowned ==
  [][\A d \in Descriptors :
       (mapped[d] /\ ~mapped'[d]) \/ (d \in pool' /\ d \notin pool)
         => AllocatedIn(d) = {}]_vars

(* The lock-free heap implements the abstract allocator: a block changes   *)
(* owner at the CAS that pops or pushes it.                                *)
Allocator ==
  INSTANCE AbstractAllocator WITH
    Superblocks <- Descriptors,
    mapped <- {d \in Descriptors : mapped[d]},
    allocated <- Allocated

ImplementsAllocator == Allocator!Spec

(* Lock-freedom, on a bounded number of calls: every call returns, though  *)
(* each loop may be sent back by the progress of another thread.           *)
EveryCallReturns == \A t \in Threads : pc[t] # "idle" ~> pc[t] = "idle"
=============================================================================

---------------------- MODULE SuperblockHeapInvariant -----------------------
(***************************************************************************)
(* The inductive invariant of SuperblockHeap: what its safety properties   *)
(* rest on, as a conjunction of parts that every step of aae_malloc and    *)
(* aae_free keeps. The proof that they do, and what follows from them, is  *)
(* in SuperblockHeapProofs.                                                *)
(***************************************************************************)
EXTENDS SuperblockHeap

(* Where a thread may stand.                                               *)
Pops == {"pop_read", "pop_next", "pop_cas"}
Frees == {"free_read", "free_link", "free_cas"}
Updates == {"update_active", "return_credits"}
Puts == {"put_partial", "put_list"}
Searches == {"active", "get_partial", "get_list", "reserve", "new", "install",
             "discard", "check_error"} \union Pops
Labels == Searches \union Frees \union Updates \union Puts
          \union {"idle", "return", "retire", "unmap", "remove_empty", "list_remove",
                  "list_check"}

(* Where a thread uses a local variable the variable has been set.         *)
Names(t) ==
  pc[t] \in {"reserve", "return", "retire", "install", "discard", "put_partial", "unmap",
             "remove_empty"} \union Pops \union Frees \union Updates

LocalSet(t) ==
  LET r == reg[t]
  IN /\ pc[t] \in Searches \union Updates \union {"unmap", "remove_empty"} => r.heap \in Heaps
     /\ Names(t) \/ (pc[t] = "put_list" /\ r.then = "return") => r.desc \in Descriptors
     /\ pc[t] = "idle" => r.then = "idle"
     /\ pc[t] \in {"put_list", "list_check"} => r.other \in Descriptors
     /\ pc[t] \in Puts => r.then \in {"idle", "return"}
     /\ pc[t] = "retire" => r.then \in {"idle", "get_partial", "check_error"}
     /\ pc[t] = "retire" /\ r.then # "idle" => r.heap \in Heaps
     /\ pc[t] \in Frees \union {"unmap", "remove_empty", "list_remove", "list_check"}
          => r.then = "idle"
     /\ pc[t] \in Updates => r.more > 0
     /\ pc[t] \in Pops /\ r.last => r.more = 0
     /\ pc[t] \in {"pop_next", "pop_cas"} => r.block = r.old.avail

LocalsSet == pc \in [Threads -> Labels] /\ \A t \in Threads : LocalSet(t)

(* More hazard records are held for good than descriptors have been taken  *)
(* out of the pool.                                                        *)
Starting == {t \in Threads : pc[t] = "new"}

RecordsOutgrow ==
  /\ Cardinality(Descriptors \ pool) + Cardinality(Starting) <= records.held
  /\ records.held <= records.count

(* Nothing leads to d, except local variables of the threads in U.         *)
Unknown(d, U) ==
  /\ \A t \in Threads \ U : reg[t].desc # d /\ reg[t].other # d
  /\ \A t \in Threads : d \notin retired[t]
  /\ \A h \in Heaps : active[h].desc # d /\ partial[h] # d
  /\ \A i \in 1 .. Len(queue) : queue[i] # d
  /\ \A b \in Blocks : <<d, b>> \notin live

(* A free descriptor is known to nobody, ...                               *)
PoolUnknown == \A d \in pool : ~mapped[d] /\ Unknown(d, {})

(* ... and one that is being installed to a single thread.                 *)
PrivateUnknown ==
  \A t \in Threads : pc[t] \in {"install", "discard"} =>
    LET d == reg[t].desc
    IN /\ Unknown(d, {t})
       /\ d \notin pool /\ mapped[d]
       /\ anchor[d] = NewAnchor(anchor[d].tag) /\ word[d] = OrganizedList

HomeSet ==
  \A d \in Descriptors : mapped[d] \/ anchor[d].state = "EMPTY" => home[d] \in Heaps

(* Whoever owns a block, or has credits on one, keeps its superblock in    *)
(* use.                                                                    *)
Owning(t) ==
  \/ pc[t] \in Pops \union Updates \union Frees \union {"return"}
  \/ pc[t] \in Puts /\ reg[t].then = "return"

OwnersInUse ==
  /\ \A t \in Threads : Owning(t) => InUse(reg[t].desc)
  /\ \A b \in live : InUse(b[1])
  /\ \A h \in Heaps :
       active[h].desc \in Descriptors =>
         InUse(active[h].desc) /\ anchor[active[h].desc].state = "ACTIVE"

(* A superblock whose credits a thread carries is neither full nor         *)
(* partial.                                                                *)
Giving(t) == pc[t] \in Updates \/ (pc[t] \in Pops /\ (reg[t].last \/ reg[t].more > 0))

CreditsOfActive == \A t \in Threads : Giving(t) => anchor[reg[t].desc].state = "ACTIVE"

FullHasNone ==
  \A d \in Descriptors : InUse(d) /\ anchor[d].state = "FULL" => anchor[d].count = 0

(* What is in a slot, on the list or on the way there has a block to give, *)
(* or is empty.                                                            *)
PartlyFree(d) ==
  /\ d \notin pool /\ ~Private(d)
  /\ \/ anchor[d].state = "EMPTY"
     \/ anchor[d].state = "PARTIAL" /\ mapped[d] /\ anchor[d].count >= 1

ListsPartial ==
  /\ \A h \in Heaps : partial[h] # NULL => PartlyFree(partial[h])
  /\ \A i \in 1 .. Len(queue) : PartlyFree(queue[i])
  /\ \A t \in Threads :
       /\ pc[t] \in {"reserve", "put_partial"} => PartlyFree(reg[t].desc)
       /\ pc[t] \in {"put_list", "list_check"} => PartlyFree(reg[t].other)

(* What is retired, or about to be, is not in use and never will be again. *)
Gone(d) == d \notin pool /\ ~Private(d) /\ ~InUse(d)

Leaving ==
  \A t \in Threads :
    /\ pc[t] \in {"unmap", "remove_empty"} =>
         anchor[reg[t].desc].state = "EMPTY" /\ Gone(reg[t].desc)
    /\ pc[t] = "retire" => Gone(reg[t].desc)
    /\ \A d \in retired[t] : Gone(d)

(* One place at most for a descriptor, kind of place by kind of place.     *)
Queued(d) == \E i \in 1 .. Len(queue) : queue[i] = d

ActiveApart ==
  /\ \A h, g \in Heaps : active[h].desc \in Descriptors /\ h # g => active[h].desc # active[g].desc
  /\ \A h \in Heaps, t \in Threads : active[h].desc \notin Carried(t)

SlotsApart ==
  /\ \A h, g \in Heaps : partial[h] # NULL /\ h # g => partial[h] # partial[g]
  /\ \A h \in Heaps : ~Queued(partial[h])
  /\ \A h \in Heaps, t \in Threads : partial[h] \notin Carried(t) /\ partial[h] \notin retired[t]

QueueApart ==
  /\ \A i, j \in 1 .. Len(queue) : i # j => queue[i] # queue[j]
  /\ \A i \in 1 .. Len(queue), t \in Threads : queue[i] \notin Carried(t) /\ queue[i] \notin retired[t]

CarriedApart ==
  /\ \A t, u \in Threads : t # u => Carried(t) \intersect Carried(u) = {}
  /\ \A t, u \in Threads : Carried(t) \intersect retired[u] = {}
  /\ \A t, u \in Threads : t # u => retired[t] \intersect retired[u] = {}

(* Something leads to d.                                                   *)
Reachable(d) ==
  \/ \E h \in Heaps : active[h].desc = d \/ partial[h] = d
  \/ Queued(d)
  \/ \E t \in Threads : d \in Carried(t)

NoneLost ==
  \A d \in Descriptors : InUse(d) =>
    /\ anchor[d].state = "ACTIVE" => Reachable(d)
    /\ anchor[d].state = "PARTIAL" /\ osFailures = 0 => Reachable(d)

(* Every call of aae_malloc advances one tag once.                         *)
Pending == {t \in Threads : pc[t] \in Searches \/ (pc[t] = "retire" /\ reg[t].then # "idle")}

TagsCount == \A d \in Descriptors : anchor[d].tag + Cardinality(Pending) <= mallocs

(* What a pop has loaded holds as long as the tag has not changed: the     *)
(* block it found is still free and its link the one it read.              *)
FreeSet(d) == {b \in Blocks : <<d, b>> \notin Allocated}

LoadCurrent(t) ==
  LET d == reg[t].desc
      old == reg[t].old
  IN /\ pc[t] \in {"pop_next", "pop_cas"} =>
          /\ old.tag <= anchor[d].tag
          /\ old.tag = anchor[d].tag =>
               /\ old.avail \in FreeSet(d)
               /\ pc[t] = "pop_cas" => reg[t].next = word[d][old.avail]
     /\ pc[t] = "free_cas" => word[d][reg[t].block] = old.avail

LoadsCurrent == \A t \in Threads : LoadCurrent(t)

LiveHeaders == \A b \in live : word[b[1]][b[2]] = Header

(* c is the free list of d: the blocks nobody owns, each once.             *)
IsFreeList(c, d) ==
  /\ \A i, j \in 1 .. FreeBlocks(d) : i # j => c[i] # c[j]
  /\ \A b \in Blocks : b \in FreeSet(d) <=> \E i \in 1 .. FreeBlocks(d) : c[i] = b
  /\ \A i \in 1 .. FreeBlocks(d) :
       /\ word[d][c[i]] \in Blocks
       /\ i = 1 => c[i] = anchor[d].avail
       /\ i > 1 => c[i] = word[d][c[i - 1]]

Chained ==
  \A d \in Descriptors :
    InUse(d) => \E c \in [1 .. FreeBlocks(d) -> Blocks] : IsFreeList(c, d)

(* The inductive invariant.                                                *)
Types == TypeOK /\ LocalsSet
Knowledge == PoolUnknown /\ PrivateUnknown /\ HomeSet
Status == OwnersInUse /\ CreditsOfActive /\ FullHasNone /\ ListsPartial /\ Leaving
Apart == ActiveApart /\ SlotsApart /\ QueueApart /\ CarriedApart
Blockwise == LoadsCurrent /\ LiveHeaders /\ OneOwner /\ Chained

IInv ==
  /\ Types /\ RecordsOutgrow /\ Knowledge /\ Status /\ Apart /\ NoneLost /\ TagsCount
  /\ Blockwise

Act(t) == BeginMalloc(t) \/ BeginFree(t) \/ Step(t)

=============================================================================

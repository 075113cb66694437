---------------------------- MODULE HazardRecords ----------------------------
(***************************************************************************)
(* The hazard pointers of lib/aae_malloc.c: the shared list of records     *)
(* (acquire_hp, release_hp) and the free list they come from (allocate_hp), *)
(* the threads that announce in a record the node they are about to        *)
(* dereference, and the threads that unlink nodes, retire them and scan    *)
(* the list before freeing them.                                           *)
(*                                                                         *)
(* A step is one access to shared memory; a CAS loop that reads only the   *)
(* word it swaps is one step.  The node being protected is what one shared *)
(* location refers to (the head of a free list, the head or tail of a      *)
(* queue); "source" is that location.  A retired list is the set of the    *)
(* nodes its records hold: the records themselves, which only its thread   *)
(* touches, are left out.                                                  *)
(***************************************************************************)
EXTENDS Integers, Sequences, FiniteSets

CONSTANTS
  Protectors,    (* the threads that announce nodes                        *)
  Reclaimers,    (* the threads that retire nodes                          *)
  Records,       (* the hazard records                                     *)
  Pages,         (* the pages the operating system may hand out, each the  *)
                 (* sequence of its records                                *)
  Nodes,         (* the nodes of the structure the records protect         *)
  MaxEvents,     (* bound: refused os_alloc calls, calls that return with  *)
                 (* their record and rounds with one that was released     *)
  NULL

ASSUME RecordsAssumption ==
  /\ IsFiniteSet(Protectors) /\ IsFiniteSet(Nodes)
  /\ MaxEvents \in Nat
  /\ Pages \subseteq Seq(Records) \ {<<>>}
  /\ \A g, h \in Pages : \A i \in DOMAIN g, j \in DOMAIN h :
       g[i] = h[j] => g = h /\ i = j
  /\ NULL \notin Records \union Nodes

VARIABLES
  list,        (* m_shared_hp_list, oldest record first: m_hp_head is last *)
  count,       (* its m_hp_count                                           *)
  inUse,       (* the records whose m_is_active is set                     *)
  hazard,      (* m_hazard_ptr of every record                             *)
  mapped,      (* the pages handed out                                     *)
  freeHead,    (* m_freelist_hp_head                                       *)
  next,        (* m_next of every record                                   *)
  source,      (* the node the shared location refers to                   *)
  fresh,       (* the nodes ready for use or reuse                         *)
  retired,     (* m_retired_..._list of every reclaimer, ...               *)
  counted,     (* ... and its m_hp_count                                   *)
  pc,          (* where every protector stands                             *)
  rec,         (* its c_hp                                                 *)
  at,          (* its position in the list, counted from the old end       *)
  link,        (* its c_next, in allocate_hp                               *)
  page,        (* the page it has just been given, in allocate_hp          *)
  node,        (* its c_node                                               *)
  scanPc,      (* where every reclaimer stands                             *)
  scanAt,      (* its c_shared_hp_list_head, a position in the list        *)
  size,        (* the capacity of its c_liniar_list                        *)
  it,          (* how many pointers it has collected                       *)
  found,       (* the pointers it has collected                            *)
  osFailures,  (* os_alloc calls refused so far                            *)
  kept,        (* calls that have returned with their record               *)
  retries      (* rounds begun with a record that was released             *)

freeVars == <<mapped, freeHead, next>>
listVars == <<list, count, inUse, hazard, freeVars>>
nodeVars == <<source, fresh, retired, counted>>
ownVars == <<at, link, page>>
protVars == <<pc, rec, node, ownVars>>
scanVars == <<scanPc, scanAt, size, it, found>>
boundVars == <<osFailures, kept, retries>>
vars == <<listVars, nodeVars, protVars, scanVars, boundVars>>

Labels == {"idle", "walk", "obtain", "next", "pop", "publish", "push", "load", "announce",
           "validate", "use", "clear"}

ScanLabels == {"idle", "head", "count", "flag", "pointer"}

Goto(p, label) == pc' = [pc EXCEPT ![p] = label]

ScanGoto(t, label) == scanPc' = [scanPc EXCEPT ![t] = label]

EventsLeft == osFailures + kept + retries < MaxEvents

OsRefuses ==
  /\ EventsLeft /\ osFailures' = osFailures + 1
  /\ UNCHANGED <<kept, retries>>

Init ==
  /\ list = <<>> /\ count = 0 /\ inUse = {}
  /\ mapped = {} /\ freeHead = NULL /\ next = [r \in Records |-> NULL]
  /\ hazard = [r \in Records |-> NULL]
  /\ source \in Nodes /\ fresh = Nodes \ {source}
  /\ retired = [t \in Reclaimers |-> {}] /\ counted = [t \in Reclaimers |-> 0]
  /\ pc = [p \in Protectors |-> "idle"]
  /\ rec = [p \in Protectors |-> NULL]
  /\ at = [p \in Protectors |-> 0]
  /\ link = [p \in Protectors |-> NULL] /\ page = [p \in Protectors |-> <<>>]
  /\ node = [p \in Protectors |-> NULL]
  /\ scanPc = [t \in Reclaimers |-> "idle"]
  /\ scanAt = [t \in Reclaimers |-> 0]
  /\ size = [t \in Reclaimers |-> 0]
  /\ it = [t \in Reclaimers |-> 0]
  /\ found = [t \in Reclaimers |-> {}]
  /\ osFailures = 0 /\ kept = 0 /\ retries = 0

-----------------------------------------------------------------------------
(* acquire_hp: read the head, walk to the first record not in use and take *)
(* it; when there is none count one more, get it and push it.              *)
BeginAcquire(p) ==
  /\ pc[p] = "idle"
  /\ at' = [at EXCEPT ![p] = Len(list)]
  /\ Goto(p, "walk")
  /\ UNCHANGED <<listVars, nodeVars, rec, node, link, page, scanVars, boundVars>>

(* Variant: the flag is set with no regard to its value.                   *)
TakeAnyRecord(p) ==
  /\ pc[p] = "walk" /\ at[p] > 0
  /\ inUse' = inUse \union {list[at[p]]}
  /\ rec' = [rec EXCEPT ![p] = list[at[p]]]
  /\ at' = [at EXCEPT ![p] = 0]
  /\ Goto(p, "load")
  /\ UNCHANGED <<list, count, hazard, freeVars, nodeVars, node, link, page, scanVars, boundVars>>

TakeRecord(p) ==
  /\ pc[p] = "walk" /\ at[p] > 0
  /\ list[at[p]] \notin inUse
  /\ inUse' = inUse \union {list[at[p]]}
  /\ rec' = [rec EXCEPT ![p] = list[at[p]]]
  /\ at' = [at EXCEPT ![p] = 0]
  /\ Goto(p, "load")
  /\ UNCHANGED <<list, count, hazard, freeVars, nodeVars, node, link, page, scanVars, boundVars>>

SkipRecord(p) ==
  /\ pc[p] = "walk" /\ at[p] > 0
  /\ list[at[p]] \in inUse
  /\ at' = [at EXCEPT ![p] = @ - 1]
  /\ UNCHANGED <<listVars, nodeVars, pc, rec, node, link, page, scanVars, boundVars>>

(* Variant: m_hp_count is not incremented.                                 *)
CountNothing(p) ==
  /\ pc[p] = "walk" /\ at[p] = 0
  /\ Goto(p, "obtain")
  /\ UNCHANGED <<listVars, nodeVars, rec, node, ownVars, scanVars, boundVars>>

CountRecord(p) ==
  /\ pc[p] = "walk" /\ at[p] = 0
  /\ count' = count + 1
  /\ Goto(p, "obtain")
  /\ UNCHANGED <<list, inUse, hazard, freeVars, nodeVars, rec, node, ownVars, scanVars, boundVars>>

-----------------------------------------------------------------------------
(* allocate_hp.  Nothing protects the record whose m_next is read; but no  *)
(* record ever comes back to this list.                                    *)
LoadSpare(p) ==
  /\ pc[p] = "obtain" /\ freeHead # NULL
  /\ rec' = [rec EXCEPT ![p] = freeHead]
  /\ Goto(p, "next")
  /\ UNCHANGED <<listVars, nodeVars, node, ownVars, scanVars, boundVars>>

ReadNext(p) ==
  /\ pc[p] = "next"
  /\ link' = [link EXCEPT ![p] = next[rec[p]]]
  /\ Goto(p, "pop")
  /\ UNCHANGED <<listVars, nodeVars, rec, node, at, page, scanVars, boundVars>>

(* acquire_hp marks the record it is given before anybody else sees it.    *)
Given(p, r) ==
  /\ inUse' = inUse \union {r}
  /\ hazard' = [hazard EXCEPT ![r] = NULL]
  /\ Goto(p, "push")

(* Variant: the head is stored with no regard to its value.                *)
PopAnySpare(p) ==
  /\ pc[p] = "pop"
  /\ freeHead' = link[p]
  /\ Given(p, rec[p])
  /\ link' = [link EXCEPT ![p] = NULL]
  /\ UNCHANGED <<list, count, mapped, next, nodeVars, rec, node, at, page, scanVars, boundVars>>

PopSpare(p) ==
  /\ pc[p] = "pop"
  /\ \/ /\ freeHead = rec[p]
        /\ freeHead' = link[p]
        /\ Given(p, rec[p])
     \/ /\ freeHead # rec[p]
        /\ Goto(p, "obtain")
        /\ UNCHANGED <<freeHead, inUse, hazard>>
  /\ link' = [link EXCEPT ![p] = NULL]
  /\ UNCHANGED <<list, count, mapped, next, nodeVars, rec, node, at, page, scanVars, boundVars>>

(* organize_linked_list over a page.                                       *)
Organized(g) ==
  [r \in Records |->
     IF \E i \in DOMAIN g : g[i] = r
     THEN LET i == CHOOSE i \in DOMAIN g : g[i] = r IN IF i < Len(g) THEN g[i + 1] ELSE NULL
     ELSE next[r]]

(* The free list was empty: a page is mapped and organized.                *)
MapPage(p) ==
  /\ pc[p] = "obtain" /\ freeHead = NULL
  /\ \E g \in Pages \ mapped :
       /\ mapped' = mapped \union {g}
       /\ page' = [page EXCEPT ![p] = g]
       /\ rec' = [rec EXCEPT ![p] = g[1]]
       /\ next' = Organized(g)
  /\ Goto(p, "publish")
  /\ UNCHANGED <<list, count, inUse, hazard, freeHead, nodeVars, node, at, link, scanVars,
                 boundVars>>

(* Its first record is the thread's own, the others become the free list;  *)
(* a thread that comes second gives its page back.                         *)
PublishPage(p) ==
  /\ pc[p] = "publish"
  /\ \/ /\ freeHead = NULL
        /\ freeHead' = next[rec[p]]
        /\ Given(p, rec[p])
        /\ UNCHANGED mapped
     \/ /\ freeHead # NULL
        /\ mapped' = mapped \ {page[p]}
        /\ Goto(p, "obtain")
        /\ UNCHANGED <<freeHead, inUse, hazard>>
  /\ page' = [page EXCEPT ![p] = <<>>]
  /\ UNCHANGED <<list, count, next, nodeVars, rec, node, at, link, scanVars, boundVars>>

(* Variant: the result of allocate_hp is not tested.                       *)
RefusedUnchecked(p) ==
  /\ pc[p] = "obtain" /\ freeHead = NULL
  /\ OsRefuses
  /\ rec' = [rec EXCEPT ![p] = NULL]
  /\ Goto(p, "push")
  /\ UNCHANGED <<listVars, nodeVars, node, ownVars, scanVars>>

(* On a refusal acquire_hp returns AAE_NULL, and so does its caller.       *)
RefusedRecord(p) ==
  /\ pc[p] = "obtain" /\ freeHead = NULL
  /\ OsRefuses
  /\ rec' = [rec EXCEPT ![p] = NULL]
  /\ Goto(p, "idle")
  /\ UNCHANGED <<listVars, nodeVars, node, ownVars, scanVars>>

ObtainRecord(p) ==
  LoadSpare(p) \/ ReadNext(p) \/ PopSpare(p) \/ MapPage(p) \/ PublishPage(p) \/ RefusedRecord(p)

PushRecord(p) ==
  /\ pc[p] = "push"
  /\ list' = Append(list, rec[p])
  /\ next' = [next EXCEPT ![rec[p]] = IF list = <<>> THEN NULL ELSE list[Len(list)]]
  /\ Goto(p, "load")
  /\ UNCHANGED <<count, inUse, hazard, mapped, freeHead, nodeVars, rec, node, ownVars, scanVars,
                 boundVars>>

-----------------------------------------------------------------------------
(* The protocol of the clients: load the node, announce it, load again,    *)
(* and dereference it only if it is still there.                           *)
LoadNode(p) ==
  /\ pc[p] = "load"
  /\ node' = [node EXCEPT ![p] = source]
  /\ Goto(p, "announce")
  /\ UNCHANGED <<listVars, nodeVars, rec, ownVars, scanVars, boundVars>>

AnnounceNode(p) ==
  /\ pc[p] = "announce"
  /\ hazard' = [hazard EXCEPT ![rec[p]] = node[p]]
  /\ Goto(p, "validate")
  /\ UNCHANGED <<list, count, inUse, freeVars, nodeVars, rec, node, ownVars, scanVars, boundVars>>

(* Variant: the node is not loaded again.                                  *)
TrustNode(p) ==
  /\ pc[p] = "validate"
  /\ Goto(p, "use")
  /\ UNCHANGED <<listVars, nodeVars, rec, node, ownVars, scanVars, boundVars>>

ValidateNode(p) ==
  /\ pc[p] = "validate"
  /\ Goto(p, IF source = node[p] THEN "use" ELSE "load")
  /\ UNCHANGED <<listVars, nodeVars, rec, node, ownVars, scanVars, boundVars>>

(* release_hp: the flag first, the pointer next.                           *)
ReleaseFlag(p) ==
  /\ pc[p] = "use"
  /\ inUse' = inUse \ {rec[p]}
  /\ Goto(p, "clear")
  /\ UNCHANGED <<list, count, hazard, freeVars, nodeVars, rec, node, ownVars, scanVars, boundVars>>

ReleasePointer(p) ==
  /\ pc[p] = "clear"
  /\ hazard' = [hazard EXCEPT ![rec[p]] = NULL]
  /\ rec' = [rec EXCEPT ![p] = NULL] /\ node' = [node EXCEPT ![p] = NULL]
  /\ Goto(p, "idle")
  /\ UNCHANGED <<list, count, inUse, freeVars, nodeVars, ownVars, scanVars, boundVars>>

(* Allocate##type releases the record at the end of each round, and begins *)
(* another with it when its CAS has failed.                                *)
RetryReleased(p) ==
  /\ pc[p] = "clear"
  /\ EventsLeft /\ retries' = retries + 1
  /\ hazard' = [hazard EXCEPT ![rec[p]] = NULL]
  /\ Goto(p, "load")
  /\ UNCHANGED <<list, count, inUse, freeVars, nodeVars, rec, node, ownVars, scanVars,
                 osFailures, kept>>

(* A dequeue that finds the queue empty or gets no second record, and an   *)
(* allocator that is refused a page, return without a release.             *)
ReturnKeeping(p) ==
  /\ pc[p] \in {"load", "use"}
  /\ EventsLeft /\ kept' = kept + 1
  /\ rec' = [rec EXCEPT ![p] = NULL] /\ node' = [node EXCEPT ![p] = NULL]
  /\ Goto(p, "idle")
  /\ UNCHANGED <<listVars, nodeVars, ownVars, scanVars, osFailures, retries>>

-----------------------------------------------------------------------------
(* A reclaimer replaces the node by another and retires it; once its list  *)
(* is longer than twice the number of records it scans.  When there is no  *)
(* record for it InsertRetiredNode drops the node, which acquire_hp has    *)
(* counted.                                                                *)
RetireNode(t) ==
  /\ scanPc[t] = "idle"
  /\ \E n \in fresh : source' = n /\ fresh' = fresh \ {n}
  /\ \/ /\ retired' = [retired EXCEPT ![t] = @ \union {source}]
        /\ UNCHANGED boundVars
     \/ UNCHANGED retired /\ OsRefuses
  /\ counted' = [counted EXCEPT ![t] = @ + 1]
  /\ \/ /\ counted'[t] > 2 * count
        /\ ScanGoto(t, "head")
     \/ /\ counted'[t] <= 2 * count
        /\ UNCHANGED scanPc
  /\ UNCHANGED <<listVars, protVars, scanAt, size, it, found>>

(* ScanRetiredNodes reads the head first and the count next; it gives up   *)
(* when there is no memory for the buffer.                                 *)
ScanHead(t) ==
  /\ scanPc[t] = "head"
  /\ scanAt' = [scanAt EXCEPT ![t] = Len(list)]
  /\ it' = [it EXCEPT ![t] = 0]
  /\ found' = [found EXCEPT ![t] = {}]
  /\ ScanGoto(t, "count")
  /\ UNCHANGED <<listVars, nodeVars, protVars, size, boundVars>>

ScanCount(t) ==
  /\ scanPc[t] = "count"
  /\ size' = [size EXCEPT ![t] = count]
  /\ \/ ScanGoto(t, "flag") /\ UNCHANGED boundVars
     \/ ScanGoto(t, "idle") /\ OsRefuses
  /\ UNCHANGED <<listVars, nodeVars, protVars, scanAt, it, found>>

(* Every record of the list: the flag, then, if it is set, the pointer.    *)
ScanFlag(t) ==
  /\ scanPc[t] = "flag" /\ scanAt[t] > 0
  /\ \/ /\ list[scanAt[t]] \in inUse
        /\ ScanGoto(t, "pointer")
        /\ UNCHANGED scanAt
     \/ /\ list[scanAt[t]] \notin inUse
        /\ scanAt' = [scanAt EXCEPT ![t] = @ - 1]
        /\ UNCHANGED scanPc
  /\ UNCHANGED <<listVars, nodeVars, protVars, size, it, found, boundVars>>

ScanPointer(t) ==
  /\ scanPc[t] = "pointer"
  /\ found' = [found EXCEPT ![t] = @ \union {hazard[list[scanAt[t]]]}]
  /\ it' = [it EXCEPT ![t] = @ + 1]
  /\ scanAt' = [scanAt EXCEPT ![t] = @ - 1]
  /\ ScanGoto(t, "flag")
  /\ UNCHANGED <<listVars, nodeVars, protVars, size, boundVars>>

(* What no pointer covers is freed, the rest stays retired.                *)
FreeNodes(t) ==
  /\ scanPc[t] = "flag" /\ scanAt[t] = 0
  /\ fresh' = fresh \union (retired[t] \ found[t])
  /\ retired' = [retired EXCEPT ![t] = @ \intersect found[t]]
  /\ counted' = [counted EXCEPT ![t] = @ - Cardinality(retired[t] \ found[t])]
  /\ size' = [size EXCEPT ![t] = 0]
  /\ it' = [it EXCEPT ![t] = 0]
  /\ found' = [found EXCEPT ![t] = {}]
  /\ ScanGoto(t, "idle")
  /\ UNCHANGED <<listVars, source, protVars, scanAt, boundVars>>

-----------------------------------------------------------------------------
Protect(p) ==
  \/ BeginAcquire(p) \/ TakeRecord(p) \/ SkipRecord(p) \/ CountRecord(p)
  \/ ObtainRecord(p) \/ PushRecord(p) \/ LoadNode(p) \/ AnnounceNode(p)
  \/ ValidateNode(p) \/ ReleaseFlag(p) \/ ReleasePointer(p)
  \/ RetryReleased(p) \/ ReturnKeeping(p)

Reclaim(t) ==
  \/ RetireNode(t) \/ ScanHead(t) \/ ScanCount(t) \/ ScanFlag(t)
  \/ ScanPointer(t) \/ FreeNodes(t)

Next == (\E p \in Protectors : Protect(p)) \/ (\E t \in Reclaimers : Reclaim(t))

Spec == Init /\ [][Next]_vars

-----------------------------------------------------------------------------
TypeOK ==
  /\ list \in Seq(Records) /\ count \in Nat
  /\ inUse \subseteq Records /\ mapped \subseteq Pages
  /\ freeHead \in Records \union {NULL} /\ next \in [Records -> Records \union {NULL}]
  /\ hazard \in [Records -> Nodes \union {NULL}]
  /\ source \in Nodes /\ fresh \subseteq Nodes
  /\ retired \in [Reclaimers -> SUBSET Nodes] /\ counted \in [Reclaimers -> Int]
  /\ pc \in [Protectors -> Labels]
  /\ rec \in [Protectors -> Records \union {NULL}]
  /\ at \in [Protectors -> Nat] /\ link \in [Protectors -> Records \union {NULL}]
  /\ page \in [Protectors -> Pages \union {<<>>}]
  /\ node \in [Protectors -> Nodes \union {NULL}]
  /\ scanPc \in [Reclaimers -> ScanLabels]
  /\ scanAt \in [Reclaimers -> Nat]
  /\ size \in [Reclaimers -> Nat]
  /\ it \in [Reclaimers -> Nat]
  /\ found \in [Reclaimers -> SUBSET (Nodes \union {NULL})]
  /\ osFailures \in Nat /\ kept \in Nat /\ retries \in Nat

(* The scan never writes past c_liniar_list, which has room for as many    *)
(* pointers as m_hp_count said: whatever is pushed or counted meanwhile,   *)
(* the records reachable from the head it read are no more than that.      *)
ScanFits ==
  \A t \in Reclaimers :
    /\ scanPc[t] = "pointer" => it[t] < size[t]
    /\ scanPc[t] = "flag" => it[t] <= size[t]

Owns(p) == pc[p] \in {"push", "load", "announce", "validate", "use"}

(* allocate_hp hands out a record once, so that none is pushed twice; and  *)
(* a record belongs to one thread between acquire_hp and release_hp, until *)
(* a thread goes on with one it has released.                              *)
RecordsExclusive ==
  /\ \A i, j \in 1 .. Len(list) : i # j => list[i] # list[j]
  /\ \A p \in Protectors :
       pc[p] = "push" => /\ \A i \in 1 .. Len(list) : list[i] # rec[p]
                         /\ \A q \in Protectors : p # q /\ pc[q] = "push" => rec[p] # rec[q]
  /\ retries = 0 =>
       \A p, q \in Protectors : p # q /\ Owns(p) /\ Owns(q) => rec[p] # rec[q]

(* A node is not freed while a thread that announced it and found it still *)
(* in place dereferences it.                                               *)
HazardRespected ==
  \A p \in Protectors : pc[p] = "use" => node[p] \notin fresh

(* As far as this goes: an announcement that still stands in the record is *)
(* respected, until a thread goes on with a record it has released; before *)
(* that only the pointer of the record's last owner, cleared after its     *)
(* flag, takes an announcement away.                                       *)
StandingHazardRespected ==
  retries = 0 =>
    \A p \in Protectors :
      pc[p] = "use" /\ hazard[rec[p]] = node[p] => node[p] \notin fresh
=============================================================================

# Verification of aaetherengine

TLA+ models of the state-keeping parts of the repository, checked with TLC, and
theorems about them proved with TLAPS. Line numbers refer to the sources under
`src/`; `M` is `lib/aae_malloc.c`, `RB` is `aae_utils/defs/aae_rb_tree.def`, `LL`
is `aae_utils/defs/aae_linked_list.def`, `ST` is `aae_utils/string/aae_string.c`,
`FS` and `RG` are `aae_utils/misc/aae_filestream.h` and `aae_ringbuffer.h`, and `AI`
and `NW` are `aae_utils/misc/aae_allocator_implementations.h` and `aae_new.h`.

## 1. The system

The repository has two halves. `lib/` is a lock-free `malloc`, and `aae_utils/` is
a small C/C++ runtime: intrusive containers generated by macros, file streams,
arenas, strings. `aae_entry.c` is a program that includes them. There are no
tests and no design documents: the comments in the code are all that is promised.

### lib/aae_malloc.c

| Part | State | Operations |
|---|---|---|
| Superblock heaps (L330-760) | per heap `m_active` (descriptor and credits in one word) and `m_partial`; per descriptor `m_anchor` (available, count, state, tag); the chain of free blocks in their first words | `aae_malloc` = active, partial or new superblock, retried for ever; `aae_free` |
| Partial-list queue (L354-450) | per size class a Michael-Scott queue, initialised by its first user | `QueueLazyInitialization`, `QueueEnqueue`, `QueueDequeue` |
| Hazard records (L177-305) | the shared list of records (`m_is_active`, `m_hazard_ptr`) and its count; per thread two lists of retired nodes | `acquire_hp`, `release_hp`, `InsertRetiredNode`, `ScanRetiredNodes` |
| Lookup of retired nodes (L74-94) | a sorted array of pointers | `pointer_compare`, `pointer_binary_search` |
| Free lists (L127-175, L194-218) | heads of three stacks of descriptors, queue nodes and records | `Allocate##type`, `Deallocate##type`, `allocate_hp` |
| Sizes (L641-655) and entry points (L658-760) | none of their own | `FindHeap`, `aae_malloc`, `aae_calloc`, `aae_realloc`, `aae_free` |

How they interact: a heap hands a superblock that is full to nobody; the `aae_free`
that makes it partial puts its descriptor in the slot of its home heap and moves
what was there to the queue; a thread that finds no active superblock takes one
from the slot or the queue; a descriptor whose superblock is unmapped is retired
by whoever takes it out, and a scan of the hazard records decides when it may be
allocated again. All of it is shared memory and compare-and-swap: there is no lock.

Hard behaviour: every interleaving of these accesses; the ABA problem on the free
chain of a superblock and on the heads of stacks and queue; stale values used
after a CAS; the order of the two stores of `release_hp`; refused memory at any
point; retry loops without a bound.

### aae_utils/

| Part | State | Operations and what is hard |
|---|---|---|
| Linked list (`LL`) | `m_first`, `m_last`, `m_size`, `m_next` | pushes, pops, destructor; sequences that leave the fields disagreeing |
| Red-black tree (`RB`) | `m_root`, `m_nil`, links and colors | insert, remove, search, walk; the rules are broken and restored over several rounds; a refused node |
| Ring buffer and file streams (`RG`, `FS`) | two indices modulo the size; an error flag; a source of bytes | push, pop, refill, flush, operators `<<`; short transfers, failures that throw, end of file, a buffer that wraps |
| Arenas and new/delete (`AI`, `NW`) | none of their own: each block carries a guard, its size, and a count or a pointer below the object | make and delete plain, array and aligned objects over `aae_malloc`; the parts must not overlap and the way back must find the block |
| Strings and numbers (`ST`) | a static buffer and a static offset | conversions and formats; width, sign and precision edges, and what the last conversion left behind |
| Characters (`aae_ctype.c`) | none | tests on a constant table |

A stream writes numbers through the conversions of `ST`, which share one static
buffer. An arena asks `aae_malloc` for its blocks. The containers allocate their
nodes through a macro and know nothing of the other parts.

### What makes each part correct

- Heaps: a block has one owner; no block is lost while memory is granted; a
  superblock is unmapped only when nobody owns or dereferences its blocks; calls return.
- Queue: it is a FIFO, linearisable; its tail lags by at most one node.
- Hazard records: a scan fits its buffer; a record has one owner; what is
  announced and validated is not freed.
- Lookup: exact on a sorted array, never wrong on what it reports as found; sorted
  only as long as the addresses are close together.
- Sizes: the block handed out is the smallest that fits.
- Arenas: the parts of a block lie apart and inside it; what is deleted is what was made.
- Texts: what is written means the number, whatever was written before.
- Streams: bytes leave in the order they came in, each once; a pop returns.
- Containers: a sound chain, an ordered and balanced tree, after any sequence of
  calls and between any two rotations; nothing lost.

## 2. The modules

| Module | Models | Correspondence |
|---|---|---|
| `SuperblockHeap` | heaps of one size class, `M` L316-735 | `active`, `partial`, `anchor`, `home` are the fields of the C structures; `word` is the first word of each block, a link or a header; `reg[t]` holds the locals of thread `t` and `pc[t]` where it stands |
| `SuperblockHeapInvariant` | its inductive invariant | a conjunction of named parts, see section 4 |
| `SuperblockHeapProofs` | theorems about `SuperblockHeap` | first the steps for types, records, knowledge and states, then those for places and blocks, and the theorems |
| `AbstractAllocator` | what malloc and free promise | implemented by `SuperblockHeap` under the mapping at its end |
| `HazardRecords` | `allocate_hp` and its pages, `acquire_hp`, `release_hp`, retirement, scan, `M` L177-305 | protectors obtain a record and follow the protocol common to free lists and queue, reclaimers retire and scan; `list`, `count`, `inUse`, `hazard`, `freeHead`, `next` are the shared words, the functions over threads their locals |
| `HazardRecordsProofs` | theorems about `HazardRecords` | |
| `LockFreeQueue` | the queue, `M` L369-450 | each access to `m_head`, `m_tail`, `m_next` is a step |
| `AbstractFifo` | what the queue promises | implemented by `LockFreeQueue` |
| `LockFreeQueueProofs` | theorems about `LockFreeQueue` | |
| `PointerSearch` | `pointer_compare`, the sort, the search, `M` L74-94 | a probe a step |
| `PointerSearchProofs` | theorems about `PointerSearch` | |
| `SizeClasses` | `FindHeap` and the entry points, `M` L641-760 | words of `SizeBits` bits, so sizes wrap |
| `Arena` | `MemoryArena` and the ways of new and delete, `AI`, `NW`; extends `SizeClasses` | an object is a record of what the arena was asked for and where it was put |
| `ArenaProofs` | theorems about `Arena` and `SizeClasses` | |
| `NumberText` | the conversions and directives of `ST` | `conv` is the static buffer and offset; a text is a sequence of characters where its digits matter, and the last text is checked against what it means |
| `FileStream` | `FS` over `RG`; extends `NumberText` | a byte is its number in the order of entering; each transfer and each round of `operator<<` is a step |
| `FileStreamProofs` | theorem about `FileStream` | |
| `LinkedList` | `LL` | one action per operation; the walks of the destructor and of `pop_back` are the set of nodes they meet, `Reached` |
| `LinkedListProofs` | theorems about `LinkedList` | |
| `RbTree` | insertion, rotations, search, walk and destructor of `RB` | descent and rebalancing advance one iteration a step; keys compare by the default macro (L330), a subtraction in their type |
| `RbTreeRemoval` | `remove` of `RB`; extends `RbTree` | the loop of `__tb_tree_fix_after_deletion` advances one iteration a step, also on the links that L423 leaves wrong |
| `RbTreeProofs` | theorems about `RbTree` and `RbTreeRemoval` | |
| `MC...` | instances for TLC | constants and symmetry sets; `MCHazardScan` runs `HazardRecords` and `PointerSearch`, one of them in a behaviour |

Grain of atomicity in the concurrent modules: one access to shared memory a step.
A CAS loop that reads only the word it swaps is one step, because a failed round
changes nothing and a successful one is a read-modify-write. The loops that read
anything else in between (the pop of a block at L546-562, the push of `aae_free`
at L699-716, both loops of the queue, the walk and the scan over records) are
split at every access. Memory is sequentially consistent: the code issues full
fences and CAS instructions where it depends on order.

How the modules compose. `SuperblockHeap` uses the queue as the FIFO that
`LockFreeQueue` is shown to implement, and the hazard records as their count
only: how many records exist, how many an empty dequeue keeps for ever (L440
returns without releasing two) or an operation that is refused memory on its way,
and whether a list of retired descriptors has reached the threshold of a scan. A
retired descriptor that is refused its record is counted and lost (`dropped`), and a
scan that is refused its buffer frees nothing.

`LockFreeQueue` does not reuse nodes. What reuse would need of the records is, for
the nodes an operation has announced and validated, `StandingHazardRespected` of
`HazardRecords`. That is not all: L412 reads `m_tail` once more and writes through
it without an announcement, and the rounds of `Allocate##type` after the first run on a
released record. So the queue with reuse is not covered by composing the two.

`HazardRecords` frees what the set of collected pointers does not contain. That the
sort and the search compute this set is shown in `PointerSearch` for addresses that
are close together (`CloseTogether`, `SearchExact` on the array that is then
ascending). For addresses further apart the sort need not ascend and the search may
miss an announced node; there `HazardRecords` says more than the code does (section 5).

`SizeClasses` stands on top: it sees memory granted or
refused. `Arena` is a client of it: its actions call those of `SizeClasses`, and
plain calls of `aae_malloc` and the others go on beside them in the same run.
`FileStream` calls the conversions of `NumberText` in the same way, so that a text
is put into the ring byte by byte while other texts may be converted later.

Definitions whose comment begins with "Variant:" are faulty forms of the
definition below them. No specification uses them; replacing the definition by
its variant must break the property it is listed with in `PROJECT.json`.

## 3. The runs

| Run | Bounds | Shows |
|---|---|---|
| `SuperblockHeap_heaps` | 2 threads, 2 heaps, 4 descriptors, superblocks of 2 blocks, 1 credit, 4 mallocs, 1 step refused memory | one owner, headers intact, no access to unmapped blocks, unmapping only of unowned superblocks; a descriptor is in one place, none that has blocks is stranded, what a slot or the list holds has blocks; implements `AbstractAllocator` |
| `SuperblockHeap_blocks` | 2 threads, 1 heap, 4 descriptors, superblocks of 5 blocks, 2 credits, 3 mallocs, no refusal | types, exact free chains; every call returns |
| `HazardScan_two` | 2 protectors, 1 reclaimer, 2 pages of 2 records, 4 nodes, 1 event (a refused page, a call that keeps its record, a round with a released one); 8 addresses of 6 bits, 4-bit ints, up to 4 pointers | the scan fits its buffer, a record is handed out once and has one owner, a standing announcement is respected; exact search, ascending sort, shrinking search |
| `HazardRecords_erased` | same records, no event | violation: see section 5 |
| `LockFreeQueue_all` | 2 threads, 4 nodes, 2 values | implements `AbstractFifo`; the tail is near the end; operations return |
| `LinkedList_sound` | 5 nodes, `m_size` up to 8 | the chain is sound, nothing leaks, a pop takes one node from one end |
| `LinkedList_size` | same | violation: `m_size` is not the number of nodes |
| `RbTree_all` | 8 keys of a 4-bit signed type in any order, 1 refused node | order, links, red-black rules, walk, keys stay, insertions end; destructor |
| `RbTreeRemoval_all` | 10 keys, of which 3 to 10 are inserted only above all others | removal keeps a tree a tree or leaves a dangling link at the root |
| `RbTreeRemoval_size` | 5 keys | violation: a deleted node stays linked and `m_size` does not count it |
| `Arena_all` | 12 classes of 8 bytes, 8-bit sizes, 1 slot, guards of 4 and 8 bytes, 4 addresses, 4 alignments, refusals, policies that throw | the parts of a block do not overlap; deletion finds what was made; a new block is the smallest that fits |
| `FileStream_all` | a ring of 3 bytes, 3 bytes to read, 7 bytes in all, sources that read, write, both, neither; words of 14 bits in three bases, reals that fit them and reals that do not | bytes in order; texts mean their numbers; a pop returns |

Why these bounds are enough for the interesting cases:

- Five blocks with two credits give a superblock that is installed with credits in
  `m_active` and more blocks in `m_count`, so all three sources of a block (credits,
  `m_count` through `UpdateActive`, the partial slot) are used. Two blocks fill two
  superblocks within four calls, which fills slot and queue with the fewest calls; a
  step that is refused memory is one of any of its calls of `os_alloc`. Both shapes in one
  run, or a fifth call, exceed the time of a run; the theorems of section 4 hold for
  any numbers. The descriptors suffice for every superblock the calls can create,
  those lost in a race to install included. The tag has 16 values, more than the
  changes of one anchor in a behaviour of that size, as 2^32 is in the program.
- A scan needs more retired nodes than twice the records it counts. Three retired
  nodes and one in place are enough for scans beside a single record, and the
  count that is read twice (for the threshold and for the buffer) grows while a
  protector is between counting and pushing. Two pages are enough for both
  protectors to find the free list empty at once, and for the second to give its
  page back. Runs with six nodes, and with two events, exceed the time of a run;
  the theorems of section 4 hold for any numbers.
- A ring of three bytes wraps after every second byte; three bytes to read and
  seven in all give a refill that is full, one that is short and one at the end, and
  pushes between a failed and a repeated flush.
- The sizes of `Arena_all` are those next to each multiple of the class, the
  largest small request, those that pass it only with header and guards, and those
  whose sums wrap; 21 elements wrap a product.
- With two threads and four nodes the queue sees the race for its head, the race
  for its tail, a tail left behind by either operation, a refused node, three items
  whose order could be changed, and a head that could pass a lagging tail. Fresh
  nodes are granted in a fixed order, which changes nothing but their names.
- Eight insertions are the fewest that recolor and then rotate higher up. A
  removal that goes up two levels through black nodes needs ten keys; the bound
  `Ordered` keeps the number of trees small enough to get there.
- The addresses of the search are close together and further apart than half the
  range of an int.
- The keys of `RbTree_all` are compared in a type of 16 values: their differences just
  fit it, so the edge of the macro is among the comparisons.
- The words of the conversions hold 10^3 and no more than a few of the reals, so that
  `v * p10` overflows where `v` fits, and both do.

Deadlock is checked except where a behaviour really ends: a list that has been
destroyed, a program that read through a null pointer, a search that has answered,
a tree left with a dangling link (no later call is modelled), a stream that
is closed or has reached its bound, a request that ends the program. In `SuperblockHeap`
the end of the bounded calls is an explicit stutter, `AllDone`, so a thread that
could not go on inside a call would be reported.

Fairness. `FairSpec` of `SuperblockHeap` and `LockFreeQueue` is weak fairness of
each thread's steps inside a call: the operating system schedules runnable
threads. Nothing forces a caller to call or to free. Liveness in
`SuperblockHeap_blocks` is for a bounded number of calls; the code is
lock-free and not wait-free, and with unboundedly many calls of others a thread
may be overtaken for ever. `LockFreeQueue` has no cycle of successful operations
because its nodes are not reused, so the same holds. `FairSpec` of `RbTree` says
that a call that has begun runs on. `StreamFairSpec` says that a thread that has
called `pop` goes on with it, and does not say that a read succeeds or fails: both
the byte popped and the refill are its own steps, and a read that brings nothing
before the end of the file is not one the source makes. Runs of liveness use no
symmetry.

## 4. The proofs

### The heap

`SuperblockHeapProofs`, for any finite sets of threads, processor heaps and
descriptors, any number of blocks (at least two) and of credits, any number of
refusals by the system. The assumptions are those of `SuperblockHeap`:
`SizeAssumption`, `NullAssumption`, `FiniteAssumption`, and `TagAssumption`, which
says that there are fewer calls of `aae_malloc` than the tag has values. That last
one is a limit of the code and not of the proof: an anchor is compared as a whole,
and a thread that sleeps through 2^32 pops from one superblock finds a tag it knows.

| Theorem | Establishes |
|---|---|
| `HeapTypeCorrect` | `[]TypeOK` |
| `FreeListsAreExact` | `[]FreeListExact`: the chain of a superblock is exactly what nobody owns |
| `BlocksHaveOneOwner` | `[]OneOwner` |
| `HeadersStayIntact` | `[]HeadersIntact` |
| `MemoryStaysMapped` | `[]NoUnmappedAccess` |
| `PartialsHaveBlocks` | `[]PartialHasBlocks` |
| `PlacesAreExclusive` | `[]OnePlace` |
| `NothingIsStranded` | `[]NothingStranded` |
| `UnmappedBlocksAreUnowned` | `UnmapOnlyUnowned` |
| `DescriptorsNeverComeBack` | `[][pool' \subseteq pool]_vars` |
| `HeapImplementsAllocator` | `ImplementsAllocator`, every step of the heap being a step of `AbstractAllocator` or a stutter |

All follow from one inductive invariant, `IInv` of `SuperblockHeapInvariant`
(`HeapInvariant`: `Spec => []IInv`). None of the properties is inductive alone, and
no part of `IInv` is without the others:

- `Types`: the types, and that a local variable is set where it is used.
- `RecordsOutgrow`: more hazard records stay taken than descriptors have left the
  pool: records that a call keeps on a miss or on its way through a refused initialisation
  are counted (`KeptOnMiss`, `GoesOn`), and a dropped descriptor counts as one that left. With `Leaving` it gives `NoScan`: a list of retired descriptors never reaches
  twice the number of records. So no descriptor is reused, on which almost
  everything below relies: a thread may hold a descriptor through any delay.
- `Knowledge`: a free descriptor is known to nobody, one that is being installed to
  one thread. This is what lets `AllocateFromNewSuperblock` write without a CAS.
- `Status`: what the state of an anchor means. Owners of blocks and of credits keep
  a superblock in use (`OwnersInUse`), a superblock whose credits someone carries is
  active, a full one counts no block, what is in a slot or on the list has one to
  give or is empty, what is retired is out of use for good.
- `Apart`: one place for a descriptor. When a thread lays one down it is in no other
  place, because the thread carries it and nobody else does (`Carried`); it carries
  one because it has taken it from a place with a CAS, or because its CAS of the
  anchor was the one that left FULL (`PickedUp`).
- `NoneLost`: something leads to a superblock that is active, and to a partial one
  as long as the system has refused nothing.
- `TagsCount`: no tag exceeds the calls that have popped, so it has not come round.
- `Blockwise`: as long as the tag is the one a pop has loaded, the block it has found
  is still free and its link the one it has read (`LoadsCurrent`); allocated blocks
  keep their header; a block has one owner; and the free blocks are a chain
  (`Chained`), said without recursion as a function without repetitions onto the
  free blocks, each linked to the next. It is as long as `m_count`, the active
  credits and the reservations in flight add up to.

The proof has one lemma per part, `...Step`, and under it a case per action.
The lemmas that carry it: `LastFreer` (whoever frees the last block is alone: if all
other blocks are counted in `m_count`, there is no credit and no other owner),
`ShareMoves` and `FreeBlocksStep` (what each step does to the sum of count, credits
and reservations), `ListPopped` and `ListPushed` (a chain without its head, and with
a block before it, is a chain), `FreeStays` (a pop changes the tag; what is pushed
leaves the links of the others). `Total` is the number of units of its terms, so that
sums come from the library's theorems on finite sets.

`FreeListExact` walks the links with a recursive function. `FreeListIs` shows that
the walk meets what `Chained` speaks of, by induction in the form of a set of naturals
that holds 0 and the successor of each element (`NatInductionOnSets`, from the
well-foundedness of `<`), since a theorem with an operator as its parameter cannot
be used.

`IInv` holds in the instances of `SuperblockHeap_heaps` and `SuperblockHeap_blocks` too:
`MCSuperblockHeap` extends `SuperblockHeapInvariant`, and `INVARIANT IInv` instead of
their properties takes about a minute each.

### The queue

`LockFreeQueueProofs`, for any threads, values and nodes, with no assumption but that
the null pointer is neither a node nor a value (`NullAssumption`):

- `TailStaysNearEnd`: `[]TailNearEnd`.
- `QueueImplementsFifo`: `ImplementsFifo`. The link is the step at which an enqueue
  takes effect, the swap of the head the one of a dequeue, and of a dequeue that finds
  nothing the load of the missing link.

Both follow from `QueueInv`: there are a number `n` and a place `pos[a]` for every node
such that `LineInv(n, pos)` holds. `InLine` says that all nodes that were ever linked,
those dequeued long ago included, stand in one line, and that links lead from each to the
next; places are never changed, so what a thread knows about the nodes in its local
variables stays true while others work (`OthersKnow`). `Ends` puts the head not behind
the tail and the tail at most one place before the end. `Begun` says that nobody operates
before there is a tail, `Carries` and `Apart` that a node on its way into the queue is
linked nowhere and carried by one thread, `Enqueues` and `Dequeues` what the local
variables of each operation know. Two arguments are worth reading:

- An enqueue links through a tail it loads a second time (L412) and then swings the tail
  from the one it loaded first (L414). `Enqueues` keeps the first not behind the second and
  neither behind the tail, so when the swing succeeds the two were the same, and the new node
  is right behind it (`EnqueueSwingKeeps`).
- A dequeue reads the tail after the head and moves the head only when they differ; so the
  tail is at least one place further and the head never overtakes it (`DequeueCasKeeps`).

`ChainFrom` is a recursive function over the links, which means nothing on links that run
in a circle. `ChainUnfolds` shows that because of `InLine` it has the value its equation
gives, and `ChainIsLine` that this is the line from the node's place on, by an induction
over places (`IndexInduction`).

### The red-black tree

`RbTreeProofs`, for any finite set of integer keys (assumption `KeysAssumption`) whose
differences fit a signed type (`KeysFitAssumption` of `RbTreeRemoval`).

The default compare macro (L330) answers the signum of `a - b`, computed in the type of
the keys. `SmallerIsLess` shows that it is the order of the keys under
`KeysFitAssumption`, by `FittingRemainder`. `UnsignedIsNeverSmaller`, about the instance
of `RbTree` whose differences are unsigned, shows that there no key ever compares below
another: every descent turns right. Nothing below is claimed of such keys.

About insertion (`Spec` of `RbTree`), in any order and with any number of refusals:

- `KeysAreInSearchOrder`, `NodesAreLinked`, `TreeIsRedBlack`: `[]SearchOrder`,
  `[]Linked`, `[]RedBlack`.
- `WalkIsInOrder`: `[]WalkInOrder`, for `First`, `Last`, `NextNode`, `PreviousNode` and
  `Found`, in trees without a refused node.
- `InsertedKeysStay`: `KeysStay`.

About insertions and removals in any order (`RemovalSpec` of `RbTreeRemoval`; the proofs
do not use `OrderedAssumption`, so they hold with and without that bound):

- `TreeStaysTree`, `LoopLacksOneBlack`, `DanglingStaysAtRoot`: `[]StillTree`,
  `[]OneBlackMissing`, `[]DanglingOnlyAtRoot`, from `RemovalInvariant`.

*Insertion.* The inductive invariant is `RbInv`. `TreeInv` says that the links are a tree in the order
of the keys in which every child knows its parent (`Shaped`), that a key outside the
tree has no links (`LooseNodes`, without which a new leaf could bring others along), and
that a descent has kept to the side of its key at every node above it (`OnTheWay`, which is
why the link it ends at is the right one). `ColorInv` says that heights agree and where
two red nodes may meet. None of this is inductive alone: the rotations keep
the order only of a tree, and `RotateUp` ends with the heights equal only because the red
node, its red parent and the black uncle are where `ColorInv` says.

- The model's functions recur over the links. `Unfolds(l, r, F)` states without
  recursion that `F` gives each node the set of the nodes below it; `BelowOfTree` shows that
  `Below` is this function on every tree, `HeightOfTree` the same of `BlackHeight`.
  `TreeInduction` replaces induction over trees: a set that holds what is not a node,
  and each node whose children it holds, holds everything, because the strict subset
  relation on finite sets is well founded and what is below a child is less than
  what is below its parent.
- A rotation changes `F` at two nodes only (`Turned`): `RotationKeepsShape` shows that the
  tree stays one and keeps its keys, `LiftRedKeepsHeights` that heights stay equal when
  a red node goes up and takes the color of the one it replaces.
- Each of these is proved for one side. `MirrorShaped` says that the mirror image of a tree
  is a tree in the opposite order, and `RotateTurns` that `LeftRotate` and `RightRotate` are one
  rotation and its mirror image, so that the two halves of the loops in the code need one proof.
- The walk: `DownIsFirst` (down one side the loop ends at the first node of a subtree),
  `UpIsBeyond` (up the parents it ends at the first node after it, because the keys below a
  node are neighbours, `BelowIsConvex`), `NextInOrder` for both directions, `SearchFinds`.

`RbInv` was an invariant of `RbTree` with seven keys and one refusal before it was proved.

*Removal.* None of the three properties is inductive. A property of idle states says
nothing of the states between, and `OneBlackMissing` does not say that the node the loop
has come to has a sibling with children to look at, nor what `remove` still has to do with
the node it has taken out. `RemovalInv` says that the program is in one of six situations:

- `Whole`: between two removals or within an insertion; `RbInv`, no null link, and the
  nodes of the tree are those alive. `RbInv` is used again as it stands.
- `Fixing`: in the loop. The nodes alive without the one taken out (`Kept`) are a tree in
  order, its heights agree when the link to `cur` counts one more (`Lacking`, which is
  `Even` with a link that counts one more), red nodes meet only at `cur` (`RedApart`),
  and when `cur` is black no key outside the tree has children, the one taken out
  included (`Bare`). Because the heights agree, a black node that lacks one has a sibling that is
  not the sentinel, so the loop reads children that exist, although `cur` may be the
  sentinel itself, whose parent `remove` has set for this purpose.
- `Exchanging`: the loop has ended; the tree is whole once the links that the node taken
  out still has are disregarded (`CutAt`), and if another node is to be deleted the one
  taken out is its successor (`IsNextAfter`), so that it may take its place.
- `WrongFixing`, `WrongExchange` and `Dead`: the right child of the root, or the root, was
  to be taken out and the link that `remove` changed is another (`RightLinkKept`,
  `RootKept`). The loop then runs on wrong links, but not far: it finds a red node or the
  root at once, or it is at the sentinel, whose links it follows, and the rotations it
  makes keep the node that should have left at the right of the root. The exchange and
  the delete come after it as in the code. What is left at the end is a root that is
  deleted and alone, or one whose right child is, which is why a dangling link is only
  ever at the root.

Along the steps: `BeginRemove` leads to one of the situations, by the colors and by whether
the right link is changed (`RemovalBegins`; a red node that is taken out has no child,
`RedLeaverIsBare`). In a round of the loop a red sibling is rotated first, then the sibling
is painted or the parent rotated; every rotation is again one turn seen from one of
two sides, so one argument serves both halves of the loop. `Exchange` renames a node: the
one taken out takes the links, color and place in the order of the deleted one
(`Renamed`, `Replaced`). The model's `Reached` repeats a step as often as there are keys;
`ReachedStays` says that it is inside every set that holds the root and follows the links,
and `WholeReaches` and `DeadDangles` compare it with the nodes alive.

### The other modules

`HazardRecordsProofs`, for any finite sets of protectors and nodes, any reclaimers,
records and pages that share no record, and any number of events (assumption
`RecordsAssumption`):

- `TypeCorrect`: `[]TypeOK`.
- `ScanNeverOverflows`: `[]ScanFits`. The property is not inductive: it says
  nothing of a scan that has only read the head. `ScanInv` adds `CountCovers`
  (the count is at least the length of the list plus the threads that have
  counted a record and not yet pushed it), `WalksInside` (positions remembered
  from earlier are still inside the list, which never shrinks), `ScanBudget`
  (collected plus still to visit is at most the buffer) and `HasRecord`. The
  argument: `acquire_hp` counts before it pushes (L232-247), and the scan reads
  the head before the count (L274-275), so the count covers what the head reaches.
- `RecordsHaveOneOwner`: `[]RecordsExclusive`. `FreeInv` describes the free list
  without recursion: `Free` are the records of public pages that are neither on the
  list nor being pushed; the head is free, the link of a free record leads to a free
  one that is not the head, and no two lead to the same (`FreeChain`); a link that
  was read is the record's own as long as the record is free (`LinksFresh`), so that
  the CAS of L203 succeeds only with a link that is not stale; a page still to be
  published is organized and nobody else's (`PagesApart`). `MapStep`, `PopStep`,
  `PublishStep`, `PushStep` and `QuietStep` are the ways it can change. `OwnedOnce`
  adds that an owned record is marked.
- `StandingHazardsAreRespected`: `[]StandingHazardRespected`, by `HazardInv`: nodes
  in place, retired and fresh are apart (`NodesApart`), what stands is not fresh
  (`StandingNotFresh`), and the scan of whoever has retired it has collected the
  pointer or has yet to visit the record (`SeenOrAhead`). The last part is what makes
  it inductive; it holds because a record that is owned is marked and on the list
  before anything is announced in it. Both theorems say "until a thread goes on with
  a record it has released" (`retries = 0`): after that they do not hold.

`ArenaProofs`, for every number of classes, granularity, width of the word, guards,
alignments and addresses (assumptions `SizesAssumption`, `ArenaAssumption`):

- `BlocksFit`: `NewBlockFits`, from the class that `FindHeap` computes by rounding up.
- `PartsDoNotOverlap` and `DeletedAsMade`: `[]LayoutSound` and `[]WayBack`, by
  `PlacedInv`: every object in a slot is where `Placed` puts it, and its block is at
  least as large as what was asked. The arithmetic of rounding an address down is in
  lemmas of its own.

`FileStreamProofs`, for every size of ring, input and kind of source (assumption
`StreamAssumption`):

- `BytesStayInOrder`: `[]BytesInOrder`, by `StreamInv`: the indices are in the ring,
  and the bytes between them are the last that entered, in order, whether or not the
  buffer wraps.

`PointerSearchProofs`, for any set of addresses and arrays of any length
(assumption `PointersAssumption`):

- `SearchTypeCorrect`: `[]SearchTypeOK`, the bounds stay inside the array.
- `SearchIsExact`: `[]SearchExact`, by `SearchInv`, whose main part `Narrowed`
  says that in an ascending array whatever equals the value lies between the bounds.
- `SearchAlwaysShrinks`: every round leaves fewer elements, so the search ends.
- `CompareIsDifference` and `FarPairsAreReversed`, about `pointer_compare`, which subtracts
  words and answers with an int: it answers the difference of two addresses exactly when
  they are no further apart than an int reaches, and pairs beyond half its range, up to
  all of it, the wrong way round. The width of an int has to divide that of a word, which
  `PointersAssumption` says (`CompareCuts`). No theorem says that the sort ascends: it does
  for addresses close together, which `SortAscends` checks, and the code sorts
  addresses from anywhere in memory.

`LinkedListProofs`, for any set of nodes and any bound on `m_size` (assumption
`ElemsAssumption`):

- `ListStaysSound`, `NoNodeLeaks` and `PopsStayAtTheEnds`: `[]ChainSound`,
  `[]NothingLeaks` and `PopsTakeOneEnd`, by `ListInv`: the live nodes are the
  elements of a function without repetitions from `1 .. n` (`ListOf`), each linked to
  the next, `m_first` the first and, if there is one, `m_last` the last, and `m_size` is
  at least `n`. It is at least and not equal because of `pop_front`; that is enough for the
  branch of the pops for one node never to delete the last of several. `WalkMeetsList` shows
  that the walk from `m_first` meets exactly these nodes: `Reached` is the least set that
  holds a node and follows the links, so it is inside the live nodes, which do, and every
  such set contains them one after the other (`IndexInduction`).

### Only model-checked

`TextMeansNumber`: it is about functions that recur over the digits of a text, with powers
of the base, which needs an induction over data. Liveness (`EveryCallReturns`,
`EveryOperationReturns`, `PopReturns`, `InsertionEnds`) stays with TLC in any case: it
rests on fairness and ENABLED. `SortAscends` has a hypothesis the code does not
establish and is left to TLC. Every other invariant and action property of the passing
runs is stated by a theorem.

## 5. What the models say about the code

`release_hp` (L252-256) clears `m_is_active` and then `m_hazard_ptr`. Another
thread may take the record between the two stores, announce a node and validate
it; the late store then erases the announcement and a scan may free the node
while it is in use. `HazardRecords_erased` shows the behaviour; the comment at L179, which
calls the record a hazard pointer, is all the code says of what it is for;
`StandingHazardRespected` shows that nothing else goes wrong: an announcement
that has not been erased is respected.

`pop_front` does not count `m_size` down on a list of several nodes (`LL` L177-179), and
the declaration says that it is the "number of nodes in the list" (L61):
`LinkedList_size`. `PopsTakeOneEnd` shows what holds all the same.

`remove` tests the parent of the node it unlinks against the root where it has to test
the node (`RB` L423). When the right child of the root is to go, the left link of the root
is overwritten; when the root is, the root pointer stays. The deleted node then stays
linked, and `m_size`, "the number of nodes in the tree" (L356), is one too small:
`RbTreeRemoval_size`. `DanglingOnlyAtRoot` states which links may dangle.

The models carry the following as the code has it; the properties are stated so
that they say what does hold.

- A request above the last size class is answered with the null pointer when its
  memory was mapped, and writes through the null pointer when it was not (L666);
  `aae_realloc` compares with the size of the block, header included (L739-740).
  `SizeClasses` follows both (`Outcome`, `Resize`).
- An empty dequeue keeps two records for ever (L440), and a refused second record
  or page one (L428, L148): `ReturnKeeping` of `HazardRecords`, `KeptOnMiss` of
  `SuperblockHeap`. In `aae_malloc` every superblock that is new follows such a
  dequeue, so the count grows faster than the list of retired descriptors and the
  threshold of a scan is never reached (`NoScan`, `DescriptorsNeverComeBack`): no
  descriptor is used twice, and the lists only grow. That hides what `aae_free` does at
  L720 and `RemoveEmptyDescriptor` at L477, which would be wrong on a reused descriptor.
- `Allocate##type` releases its record in every round and begins the next with it
  (L157), so from then on its announcement can be overwritten by another owner of
  the record and the reverse. `RetryReleased` is that round; the properties of the
  list and of the buffer hold with it, exclusive ownership is stated up to it.
- The comment at L275 says the count is at most one more than the records; each
  thread between counting and pushing adds one. What the scan needs is that the
  count is never too small, which is proved.
- `pointer_compare` cuts the difference of two addresses to an int (L78). Blocks that the
  system maps are often further apart than that reaches; then the sort does not ascend, a
  search may miss a pointer, and a scan may free an announced node. `HazardRecords` takes
  the look-up as exact and does not show this loss; `PointerSearch` does.
- The default compare macro of the tree orders only keys of a signed type that their
  differences fit (`RB` L330), which the comment at L13 does not say. A tree of unsigned keys
  is a chain to the right in the order of insertion, balanced by rotations that keep
  that order, and a search, which turns right too, misses what a rotation has put to the left.
- A refused node leaves a null child in the tree (`RB` L483), through which a
  later rebalancing reads: the "crashed" state of `RbTree`.
- A write that takes less than it was given loses the rest, a stream whose source
  has failed once is never flushed by its destructor, and an exception from the
  destructor ends the program (`FS` L151, L142-149, L114-117). `BytesInOrder` says
  what remains: nothing is doubled or overtakes, and only a short write loses.
- At the end of the file `underflow` answers true and `pop` calls itself without
  end (`FS` L140). `PopReturns` is about streams with something left.
- `push` returns no value when it has stored a byte (`RG` L36-42); nobody reads it.
- A precision of 0 makes the loop for the zeros of a fraction run past its buffer
  (`ST` L140), the "crashed" state of `NumberText`; formats replace 0 by 3.
- An arena that is refused memory or stopped by a policy does not leave its thread
  guard (`AI` L40): `entered` counts these calls.
- A buffer of 313 bytes "will hold the largest base 10 representation of a double" (`ST`
  L89), but `aae_dtoa` converts `v * 10^prc` and `v` to words of 64 bits (L138, L145), which
  is undefined beyond them: 2000.5 to 16 digits has a wrong fraction, and a whole part of
  2^64 or more is wrong too. `Overflows` are the words a build may make of these;
  `TextMeansNumber` asks for the right digits where the words fit.
- A `%` at the end of a format makes `aae_vsprintf` take the terminator for a letter (`ST`
  L175) and read on behind it: `RunOff`.
- `AAE_NEW` and `AAE_ALIGNED_NEW` construct at whatever the arena answers (`NW` L61, L65):
  a refused allocation builds an object at the null pointer, which `BuildsAtNull` lets
  end the program or not. `aae_new_array` tests the answer.

## 6. Not modelled

- The free lists of descriptors and queue nodes (`create_allocator`,
  `create_deallocator`) as lists: their pops and pushes are one step of
  `SuperblockHeap` and `LockFreeQueue`. What they need of the hazard records, and
  what they do with theirs, is in `HazardRecords`. Reuse of queue nodes, and a heap
  and its hazard records in one model: the instances in which a node comes back
  need more retired nodes than twice the records, and are beyond a run of minutes
  together with the queue or the heap.
- The records of a retired list, which only its own thread touches: a set of nodes.
- Copies, concatenation and comparison of strings: loops over characters without
  state. The rounding of doubles: reals are multiples of a power of two.
- Constructors and destructors of the objects in an arena: they belong to the caller.
- `get` of an absent key of the tree, which reads the value of the sentinel, never set.
- The character table, type traits, math, error and assert helpers, platform calls,
  `aae_entry.c`: no state, or pure I/O. `aae_pp_enum.h` is generated repetition, which
  `SizeClasses` has as a number of classes. Build scripts.

## 7. What could follow

1. `TextMeansNumber` by an invariant of the loops over digits, a digit a step.
2. The queue over nodes that are reused, with the hazard records as they are.
3. Removal in a tree with a refused node, and what happens to a tree with a link to a
   deleted node, as far as the contents of that node can be named.

----------------------------- MODULE SizeClasses -----------------------------
(***************************************************************************)
(* The arithmetic of lib/aae_malloc.c that decides which block answers a   *)
(* request, and the four entry points that use it: aae_malloc, aae_calloc, *)
(* aae_realloc and aae_free, seen by one caller.  Sizes are words of       *)
(* SizeBits bits.  Which superblock a block comes from is the subject of   *)
(* SuperblockHeap; here there is memory for a request or there is not.     *)
(***************************************************************************)
EXTENDS Integers

CONSTANTS
  Granularity,       (* AAE_GRANULARITY                                    *)
  NSizeClasses,      (* AAE_NUMBER_OF_SIZE_CLASSES                         *)
  HeaderBytes,       (* the size of a descriptor pointer                     *)
  SizeBits,          (* the width of size_t                                *)
  Slots,             (* the pointers the caller keeps                      *)
  Sizes,             (* the sizes it asks for                              *)
  Counts             (* the first argument of its calls of aae_calloc      *)

ASSUME SizesAssumption ==
  /\ Granularity \in Nat \ {0} /\ NSizeClasses \in Nat \ {0}
  /\ HeaderBytes \in Nat \ {0} /\ SizeBits \in Nat
  /\ Sizes \subseteq 0 .. 2 ^ SizeBits - 1 /\ Counts \subseteq Nat

VARIABLES
  held,        (* for every slot the bytes asked for and the size of the   *)
               (* block behind it, 0 for the null pointer                  *)
  answered     (* the last request of aae_malloc and what became of it     *)

vars == <<held, answered>>

Nothing == [asked |-> 0, block |-> 0]

NoRequest == [size |-> 0, memory |-> TRUE, cpu |-> TRUE, outcome |-> "null"]

Running == answered.outcome # "crash"

Init == held = [s \in Slots |-> Nothing] /\ answered = NoRequest

-----------------------------------------------------------------------------
Word(n) == n % (2 ^ SizeBits)

(* Variant: no room for the descriptor.                                    *)
ObjectOnly(size) == size

(* FindHeap: room for the object and its descriptor, ...                   *)
WithHeader(size) == Word(size + HeaderBytes)

IsLarge(size) == WithHeader(size) >= NSizeClasses * Granularity

(* ... less one, so that a multiple of the granularity fits its class.     *)
ClassOf(size) == Word(WithHeader(size) - 1) \div Granularity

(* ProcessorHeapStaticInitialize.                                          *)
BlockSize(class) == (class + 1) * Granularity

(* What becomes of a request.  A small one is answered with a block of its *)
(* class if there is memory; one whose size wraps to zero has a class that *)
(* is no heap.  A large one, or any when the current CPU is unknown, is    *)
(* mapped: aae_malloc returns AAE_NULL when the mapping succeeds, and      *)
(* writes through the null pointer when it fails.                          *)
Outcome(size, memory, cpu) ==
  IF size = 0 THEN "null"
  ELSE IF IsLarge(size) \/ ~cpu THEN (IF memory THEN "null" ELSE "crash")
  ELSE IF ClassOf(size) >= NSizeClasses THEN "crash"
  ELSE IF memory THEN "block" ELSE "null"

(* The call of aae_malloc itself.                                          *)
Request(size) ==
  \E memory, cpu \in BOOLEAN :
    answered' = [size |-> size, memory |-> memory, cpu |-> cpu,
                 outcome |-> Outcome(size, memory, cpu)]

Granted(size) == [asked |-> size, block |-> BlockSize(ClassOf(size))]

Allocate(s, size) ==
  /\ Running /\ held[s] = Nothing
  /\ Request(size)
  /\ held' = IF answered'.outcome = "block" THEN [held EXCEPT ![s] = Granted(size)]
             ELSE held

Malloc(s) == \E size \in Sizes : Allocate(s, size)

(* The product may wrap.                                                   *)
Calloc(s) == \E n \in Counts, size \in Sizes : Allocate(s, Word(n * size))

Free(s) ==
  /\ Running /\ held[s] # Nothing
  /\ held' = [held EXCEPT ![s] = Nothing]
  /\ UNCHANGED answered

(* aae_realloc.  A size of zero frees, one that is no more than the size   *)
(* of the block keeps it, and a larger one moves the object; the answer of *)
(* aae_malloc is copied to without a test.                                 *)
Resize(s, size) ==
  \/ /\ size = 0
     /\ held' = [held EXCEPT ![s] = Nothing]
     /\ UNCHANGED answered
  \/ /\ 0 < size /\ size <= held[s].block
     /\ held' = [held EXCEPT ![s].asked = size]
     /\ UNCHANGED answered
  \/ /\ size > held[s].block
     /\ \E memory, cpu \in BOOLEAN :
          LET outcome == Outcome(size, memory, cpu)
          IN answered' = [size |-> size, memory |-> memory, cpu |-> cpu,
                          outcome |-> IF outcome = "block" THEN outcome ELSE "crash"]
     /\ held' = IF answered'.outcome = "block" THEN [held EXCEPT ![s] = Granted(size)]
                ELSE held

Realloc(s) ==
  /\ Running /\ held[s] # Nothing
  /\ \E size \in Sizes : Resize(s, size)

-----------------------------------------------------------------------------
Next == \E s \in Slots : Malloc(s) \/ Calloc(s) \/ Free(s) \/ Realloc(s)

Spec == Init /\ [][Next]_vars

-----------------------------------------------------------------------------
(* A block that answers a request holds the object and its descriptor, and *)
(* is the smallest that does: multiples of the granularity, the sizes next *)
(* to them and the largest small size included.  Only a request so large   *)
(* that the header wraps it around is answered with less.                  *)
NewBlockFits ==
  [][\A s \in Slots :
       LET new == held'[s]
           need == new.asked + HeaderBytes
       IN new.block # held[s].block /\ new.block # 0 /\ need < 2 ^ SizeBits
          => new.block - Granularity < need /\ need <= new.block]_vars
=============================================================================

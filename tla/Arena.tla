-------------------------------- MODULE Arena --------------------------------
(***************************************************************************)
(* MemoryArena (misc/aae_allocator_implementations.h) over aae_malloc, and *)
(* the ways to make an object in it (misc/aae_new.h): AAE_NEW,             *)
(* AAE_NEW_ARRAY and AAE_ALIGNED_NEW, with what takes each back.  The      *)
(* policies of the arena are parameters: bounds checking may use bytes on  *)
(* both sides of an object, any policy may throw, and "entered" counts the *)
(* m_thread_guard.enter() that no leave() has answered.                    *)
(***************************************************************************)
EXTENDS SizeClasses

CONSTANTS
  FrontBytes, BackBytes,   (* SIZE_FRONT and SIZE_BACK                     *)
  Addresses,               (* what aae_malloc may return                   *)
  Alignments,              (* powers of two                                *)
  PoliciesThrow,           (* whether a policy ever throws                 *)
  MaxEntered               (* bound: calls that never leave the guard      *)

ASSUME ArenaAssumption ==
  /\ FrontBytes \in Nat /\ BackBytes \in Nat
  /\ Addresses \subseteq Nat /\ Alignments \subseteq Nat \ {0}
  /\ PoliciesThrow \in BOOLEAN /\ MaxEntered \in Nat

VARIABLES
  given,      (* for every slot the object made in the arena               *)
  entered,    (* calls that have entered the thread guard and not left it  *)
  ended       (* a constructor has written through a null pointer          *)

arenaVars == <<vars, given, entered, ended>>

(* way:   how the object was made, "raw" when not in the arena, "lost"     *)
(*        when the arena kept the block of a deleted one.                  *)
(* base:  the answer of aae_malloc;  asked: what the arena was asked for.  *)
(* start: the object;  bytes: its size;  link: the word below an aligned   *)
(*        one.                                                             *)
Raw == [way |-> "raw", base |-> 0, asked |-> 0, start |-> 0, bytes |-> 0,
        align |-> 1, link |-> 0]

ArenaInit == Init /\ given = [s \in Slots |-> Raw] /\ entered = 0 /\ ended = FALSE

-----------------------------------------------------------------------------
(* The size of the block comes first, then the front guard.                *)
StartOf(base) == base + HeaderBytes + FrontBytes

Adjusted(asked) == Word(FrontBytes + BackBytes + HeaderBytes + asked)

(* Where Allocate writes the back guard, and where Deallocate looks for it *)
(* from the size it finds.                                                 *)
BackGuard(base, asked) == StartOf(base) + asked

BackChecked(actual, size) == actual + size - BackBytes

(* aae_aligned_new: room for a pointer and the worst case of the address,  *)
(* & ~(alignment - 1).                                                     *)
Offset(align) == align - 1 + HeaderBytes

(* Variant: the address is rounded up, with no room for the pointer.       *)
RoundUp(address, align) ==
  LET end == address + align - 1 IN end - (end % align)

RoundDown(address, align) ==
  LET end == address + Offset(align) IN end - (end % align)

Plain(size) == [Raw EXCEPT !.way = "plain", !.asked = size, !.bytes = size]

(* aae_new_array keeps the number of elements below them.                  *)
ArrayOf(n, size) ==
  [Raw EXCEPT !.way = "array", !.asked = Word(size * n + HeaderBytes),
              !.bytes = size * n]

Aligned(size, align) ==
  [Raw EXCEPT !.way = "aligned", !.asked = Word(size + Offset(align)),
              !.bytes = size, !.align = align]

(* The object where the answer of aae_malloc puts it.                      *)
Placed(object, base) ==
  [object EXCEPT
     !.base = base, !.link = StartOf(base),
     !.start = CASE object.way = "plain" -> StartOf(base)
                 [] object.way = "array" -> StartOf(base) + HeaderBytes
                 [] object.way = "aligned" -> RoundDown(StartOf(base), object.align)]

(* aae_new_array tests the answer of the arena. AAE_NEW and AAE_ALIGNED_NEW *)
(* construct at a null one, which ends the program unless the constructor  *)
(* writes nothing.                                                         *)
BuildsAtNull(object) == ended' \in IF object.way = "array" THEN {FALSE} ELSE BOOLEAN

(* MemoryArena::Allocate.  A call that is refused, and one in which a      *)
(* policy throws after the block was granted, does not leave the guard.    *)
Make(s, object) ==
  /\ object.bytes # 0 \/ object.way = "array"
  /\ given[s] = Raw
  /\ \/ /\ object.asked = 0 /\ Running /\ held[s] = Nothing
        /\ BuildsAtNull(object)
        /\ UNCHANGED <<vars, given, entered>>
     \/ /\ object.asked # 0
        /\ Allocate(s, Adjusted(object.asked))
        /\ \/ /\ held'[s] # Nothing
              /\ \E base \in Addresses :
                   given' = [given EXCEPT ![s] = Placed(object, base)]
              /\ UNCHANGED <<entered, ended>>
           \/ /\ held'[s] = Nothing /\ answered'.outcome = "null"
              /\ entered' = entered + 1
              /\ BuildsAtNull(object)
              /\ UNCHANGED given
           \/ /\ held'[s] = Nothing /\ answered'.outcome = "crash"
              /\ UNCHANGED <<given, entered, ended>>
     \/ /\ object.asked # 0 /\ PoliciesThrow /\ Running /\ held[s] = Nothing
        /\ Outcome(Adjusted(object.asked), TRUE, TRUE) = "block"
        /\ entered' = entered + 1
        /\ BuildsAtNull(object)
        /\ UNCHANGED <<vars, given>>

New(s) == \E size \in Sizes : Make(s, Plain(size))

NewArray(s) == \E n \in Counts, size \in Sizes : Make(s, ArrayOf(n, size))

NewAligned(s) ==
  \E size \in Sizes, align \in Alignments : Make(s, Aligned(size, align))

-----------------------------------------------------------------------------
(* What aae_delete, aae_delete_array and aae_aligned_delete give back.     *)
Returned(g) ==
  CASE g.way = "array" -> g.start - HeaderBytes
    [] g.way = "aligned" -> g.link
    [] OTHER -> g.start

(* Variant: the front guard is forgotten on the way back.                  *)
ActualBehindGuard(g) == Returned(g) - HeaderBytes

ActualStart(g) == Returned(g) - FrontBytes - HeaderBytes

(* MemoryArena::Deallocate: a policy that throws keeps the block for ever, *)
(* and the guard entered.                                                  *)
Delete(s) ==
  /\ given[s].way \in {"plain", "array", "aligned"}
  /\ \/ /\ ActualStart(given[s]) = given[s].base
        /\ Free(s)
        /\ given' = [given EXCEPT ![s] = Raw]
        /\ UNCHANGED <<entered, ended>>
     \/ /\ PoliciesThrow /\ Running
        /\ given' = [given EXCEPT ![s] = [Raw EXCEPT !.way = "lost"]]
        /\ entered' = entered + 1
        /\ UNCHANGED <<vars, ended>>

(* aae_malloc has other callers.                                           *)
RawCall(s) ==
  /\ given[s] = Raw
  /\ Malloc(s) \/ Calloc(s) \/ Free(s) \/ Realloc(s)
  /\ UNCHANGED <<given, entered, ended>>

ArenaNext ==
  /\ entered < MaxEntered /\ ~ended
  /\ \E s \in Slots : New(s) \/ NewArray(s) \/ NewAligned(s) \/ Delete(s) \/ RawCall(s)

ArenaSpec == ArenaInit /\ [][ArenaNext]_arenaVars

-----------------------------------------------------------------------------
Made(g) == g.way \in {"plain", "array", "aligned"}

(* No sum on the way to the size of the block was cut to a word.           *)
Unwrapped(g) ==
  /\ g.asked + FrontBytes + BackBytes + 2 * HeaderBytes < 2 ^ SizeBits
  /\ g.way = "array" => g.asked = g.bytes + HeaderBytes
  /\ g.way = "aligned" => g.asked = g.bytes + Offset(g.align)

(* The words kept for the way back lie between the front guard and the     *)
(* object.                                                                 *)
Lowest(g) == IF g.way = "plain" THEN g.start ELSE g.start - HeaderBytes

(* The parts of a block do not overlap and do not leave it: the size, the  *)
(* front guard, the count or the pointer kept below the object, the object *)
(* aligned as asked, the back guard, and the descriptor that aae_malloc    *)
(* keeps below its answer, whatever the address.                           *)
LayoutSound ==
  \A s \in Slots :
    LET g == given[s]
    IN Made(g) /\ Unwrapped(g) =>
         /\ StartOf(g.base) <= Lowest(g)
         /\ g.start % g.align = 0
         /\ g.start + g.bytes <= BackGuard(g.base, g.asked)
         /\ BackGuard(g.base, g.asked) + BackBytes + HeaderBytes <= g.base + held[s].block

(* What is deleted is what aae_malloc answered, and the back guard is      *)
(* looked for where it was written, in whichever way the object was made.  *)
WayBack ==
  \A s \in Slots :
    LET g == given[s]
    IN Made(g) =>
         /\ ActualStart(g) = g.base
         /\ Unwrapped(g) =>
              BackChecked(ActualStart(g), Adjusted(g.asked)) = BackGuard(g.base, g.asked)
=============================================================================

------------------------- MODULE AbstractAllocator -------------------------
(***************************************************************************)
(* What aae_malloc and aae_free promise to their callers, without any of   *)
(* the lock-free machinery: superblocks are mapped and unmapped, a block   *)
(* of a mapped superblock belongs to at most one caller at a time, and a   *)
(* superblock is given back to the operating system only when none of its  *)
(* blocks belongs to anybody.                                              *)
(***************************************************************************)

CONSTANTS
  Superblocks,   (* identities of the superblocks                          *)
  Blocks         (* indices of the blocks inside one superblock            *)

VARIABLES
  mapped,        (* the superblocks obtained from the operating system     *)
  allocated      (* the blocks, <<superblock, index>>, that callers own    *)

vars == <<mapped, allocated>>

Init ==
  /\ mapped = {}
  /\ allocated = {}

Map(s) ==
  /\ s \notin mapped
  /\ mapped' = mapped \union {s}
  /\ UNCHANGED allocated

Unmap(s) ==
  /\ s \in mapped
  /\ \A b \in Blocks : <<s, b>> \notin allocated
  /\ mapped' = mapped \ {s}
  /\ UNCHANGED allocated

Allocate(s, b) ==
  /\ s \in mapped
  /\ <<s, b>> \notin allocated
  /\ allocated' = allocated \union {<<s, b>>}
  /\ UNCHANGED mapped

Release(s, b) ==
  /\ <<s, b>> \in allocated
  /\ allocated' = allocated \ {<<s, b>>}
  /\ UNCHANGED mapped

Next ==
  \E s \in Superblocks :
    \/ Map(s)
    \/ Unmap(s)
    \/ \E b \in Blocks : Allocate(s, b) \/ Release(s, b)

Spec == Init /\ [][Next]_vars
=============================================================================

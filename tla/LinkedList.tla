----------------------------- MODULE LinkedList -----------------------------
(***************************************************************************)
(* The singly linked list generated by defs/aae_linked_list.def: one       *)
(* caller, one action per operation, and an arena that may refuse a node.  *)
(* Reading through a null pointer ends the program ("crashed").            *)
(***************************************************************************)
EXTENDS Integers, FiniteSets

CONSTANTS
  Elems,        (* the nodes the arena has room for                        *)
  MaxSize,      (* bound on m_size, which can outgrow the nodes            *)
  NULL

ASSUME ElemsAssumption == NULL \notin Elems /\ MaxSize \in Nat

VARIABLES
  first,        (* m_first                                                 *)
  last,         (* m_last                                                  *)
  it,           (* m_it                                                    *)
  next,         (* m_next of every node                                    *)
  size,         (* m_size                                                  *)
  alive,        (* the nodes allocated and not yet deleted                 *)
  phase         (* "running", "destroyed" or "crashed"                     *)

vars == <<first, last, it, next, size, alive, phase>>

Init ==
  /\ first = NULL /\ last = NULL /\ it = NULL
  /\ next = [e \in Elems |-> NULL]
  /\ size = 0 /\ alive = {} /\ phase = "running"

(* The nodes reached from e through m_next: those in every set that holds e *)
(* and with each of its nodes the next one.                                *)
FollowsLinks(S) == \A x \in S : next[x] # NULL => next[x] \in S

Reached(e) ==
  {x \in Elems :
     \A S \in SUBSET Elems :
       (e # NULL => e \in S) /\ FollowsLinks(S) => x \in S}

-----------------------------------------------------------------------------
(* Both pushes do nothing but set the error code when the arena refuses a  *)
(* node.                                                                   *)
PushBack ==
  /\ phase = "running" /\ size < MaxSize
  /\ \E e \in Elems \ alive :
       /\ alive' = alive \union {e}
       /\ first' = IF first = NULL THEN e ELSE first
       /\ last' = e
       /\ next' = IF first = NULL THEN [next EXCEPT ![e] = NULL]
                  ELSE [next EXCEPT ![e] = NULL, ![last] = e]
       /\ size' = size + 1
  /\ UNCHANGED <<it, phase>>

(* Variant: m_size is not incremented.                                     *)
PushFrontUncounted ==
  /\ phase = "running" /\ size < MaxSize
  /\ \E e \in Elems \ alive :
       /\ alive' = alive \union {e}
       /\ first' = e
       /\ last' = IF first = NULL THEN e ELSE last
       /\ next' = [next EXCEPT ![e] = first]
  /\ UNCHANGED <<it, size, phase>>

PushFront ==
  /\ phase = "running" /\ size < MaxSize
  /\ \E e \in Elems \ alive :
       /\ alive' = alive \union {e}
       /\ first' = e
       /\ last' = IF first = NULL THEN e ELSE last
       /\ next' = [next EXCEPT ![e] = first]
       /\ size' = size + 1
  /\ UNCHANGED <<it, phase>>

(* The branch both pops share: m_size says there is one node.              *)
PopOnly ==
  /\ size = 1
  /\ alive' = alive \ {last}
  /\ first' = NULL /\ last' = NULL
  /\ size' = 0
  /\ UNCHANGED <<it, next, phase>>

(* pop_back walks to the node before the last one, and off the end of the  *)
(* list when no node is.                                                   *)
Before(e) == {x \in Reached(first) : next[x] = e}

(* Variant: the new last node keeps its link to the deleted one.           *)
PopBackDangling ==
  /\ phase = "running" /\ size > 0
  /\ \/ PopOnly
     \/ /\ size > 1 /\ Before(last) # {}
        /\ it' \in Before(last)
        /\ alive' = alive \ {last}
        /\ last' = it'
        /\ size' = size - 1
        /\ UNCHANGED <<first, next, phase>>
     \/ /\ size > 1 /\ Before(last) = {}
        /\ it' = NULL
        /\ phase' = "crashed"
        /\ UNCHANGED <<first, last, next, size, alive>>

PopBack ==
  /\ phase = "running" /\ size > 0
  /\ \/ PopOnly
     \/ /\ size > 1 /\ Before(last) # {}
        /\ it' \in Before(last)
        /\ next' = [next EXCEPT ![it'] = NULL]
        /\ alive' = alive \ {last}
        /\ last' = it'
        /\ size' = size - 1
        /\ UNCHANGED <<first, phase>>
     \/ /\ size > 1 /\ Before(last) = {}
        /\ it' = NULL
        /\ phase' = "crashed"
        /\ UNCHANGED <<first, last, next, size, alive>>

(* pop_front: the general branch leaves m_size, and m_last, as they are.   *)
PopFront ==
  /\ phase = "running" /\ size > 0
  /\ \/ PopOnly
     \/ /\ size > 1 /\ first # NULL
        /\ alive' = alive \ {first}
        /\ first' = next[first]
        /\ UNCHANGED <<last, it, next, size, phase>>
     \/ /\ size > 1 /\ first = NULL
        /\ phase' = "crashed"
        /\ UNCHANGED <<first, last, it, next, size, alive>>

(* Variant: the last node is taken for the end of the list.                *)
DestroyButLast ==
  /\ phase = "running"
  /\ alive' = alive \ {e \in Reached(first) : next[e] # NULL}
  /\ first' = NULL /\ last' = NULL /\ it' = NULL /\ size' = 0
  /\ phase' = "destroyed"
  /\ UNCHANGED next

Destroy ==
  /\ phase = "running"
  /\ alive' = alive \ Reached(first)
  /\ first' = NULL /\ last' = NULL /\ it' = NULL /\ size' = 0
  /\ phase' = "destroyed"
  /\ UNCHANGED next

-----------------------------------------------------------------------------
Next == PushBack \/ PushFront \/ PopBack \/ PopFront \/ Destroy

Spec == Init /\ [][Next]_vars

-----------------------------------------------------------------------------
(* A list that shows nodes shows only live ones, each reached once, and    *)
(* m_last is the end of the chain: what the pushes and the pops leave      *)
(* behind is a list again, even after m_size has gone wrong.               *)
ChainSound ==
  phase = "running" /\ first # NULL =>
    /\ Reached(first) \subseteq alive
    /\ last \in Reached(first) /\ next[last] = NULL

(* No node is lost: whatever was pushed and not deleted is reachable, so   *)
(* the destructor leaves nothing behind.                                   *)
NothingLeaks == alive \subseteq Reached(first)

(* A pop that does not end the program takes one node, the first or the    *)
(* last, and leaves the others in their order, however wrong m_size and    *)
(* m_last have become: the branch for one node never deletes the last of   *)
(* several.                                                                *)
PopsTakeOneEnd ==
  [][phase' = "running" /\ alive' # alive /\ alive' \subseteq alive =>
       \E e \in {first, last} :
         /\ alive' = alive \ {e}
         /\ Reached(first)' = Reached(first) \ {e}
         /\ \A x \in Reached(first)' : next'[x] # next[x] => next[x] = e]_vars

(* What the declaration of m_size says of it.                              *)
SizeIsCount ==
  phase = "running" => size = Cardinality(Reached(first))
=============================================================================

---------------------------- MODULE PointerSearch ----------------------------
(***************************************************************************)
(* How ScanRetiredNodes of lib/aae_malloc.c decides whether a retired node *)
(* is covered by a hazard pointer: the pointers collected are sorted with  *)
(* qsort and pointer_compare, and the node is looked up with               *)
(* pointer_binary_search, one probe a step.                                *)
(***************************************************************************)
EXTENDS Integers

CONSTANTS
  Pointers,      (* the addresses in play, words of the machine            *)
  WordRange,     (* 2^32 or 2^64: the values of uintptr_t                  *)
  IntRange,      (* 2^32: the values of int32_t                            *)
  MaxLength      (* bound: pointers collected by one scan                  *)

ASSUME PointersAssumption ==
  /\ WordRange \in Nat \ {0} /\ IntRange \in Nat \ {0}
  /\ \E k \in 1 .. WordRange : WordRange = k * IntRange
  /\ Pointers \subseteq 0 .. WordRange - 1
  /\ MaxLength \in Nat

VARIABLES
  length,        (* the number of pointers collected, "it"                 *)
  array,         (* the pointers, c_liniar_list                            *)
  value,         (* the retired node looked up                             *)
  left, right,   (* the bounds of the search                               *)
  phase          (* "sort", "search", "found" or "missing"                 *)

searchVars == <<length, array, value, left, right, phase>>

Indices == 0 .. length - 1

Arrays(n) == [0 .. n - 1 -> Pointers]

SearchInit ==
  /\ length \in 0 .. MaxLength
  /\ array \in Arrays(length)
  /\ value \in Pointers
  /\ left = 0 /\ right = length - 1
  /\ phase = "sort"

-----------------------------------------------------------------------------
(* pointer_compare: the difference of two words, converted to int32_t.     *)
ToInt(n) == LET low == n % IntRange IN IF 2 * low < IntRange THEN low ELSE low - IntRange

(* Variant: the operands are swapped.                                      *)
CompareSwapped(a, b) == ToInt((b - a) % WordRange)

Compare(a, b) == ToInt((a - b) % WordRange)

(* The permutations of an array.                                           *)
Rearranged(n, s) ==
  {[i \in 0 .. n - 1 |-> s[p[i]]] :
     p \in {q \in [0 .. n - 1 -> 0 .. n - 1] :
              \A i, j \in 0 .. n - 1 : q[i] = q[j] => i = j}}

InOrder(n, s) == \A i, j \in 0 .. n - 1 : i < j => Compare(s[i], s[j]) <= 0

(* qsort sorts by a comparison that orders the elements; by another one it *)
(* leaves them in any order.                                               *)
Orders(n, s) ==
  LET elements == {s[i] : i \in 0 .. n - 1}
  IN /\ \A x, y \in elements : (Compare(x, y) < 0) <=> (Compare(y, x) > 0)
     /\ \A x, y, z \in elements :
          Compare(x, y) <= 0 /\ Compare(y, z) <= 0 => Compare(x, z) <= 0

Sort ==
  /\ phase = "sort"
  /\ array' \in Rearranged(length, array)
  /\ Orders(length, array) => InOrder(length, array')
  /\ phase' = "search"
  /\ UNCHANGED <<length, value, left, right>>

-----------------------------------------------------------------------------
Middle == (left + right) \div 2

Hit ==
  /\ phase = "search" /\ left <= right
  /\ array[Middle] = value
  /\ phase' = "found"
  /\ UNCHANGED <<length, array, value, left, right>>

(* Variant: the probe moves the way of the other branch.                   *)
GoRightBackwards ==
  /\ phase = "search" /\ left <= right
  /\ array[Middle] < value
  /\ left' = Middle - 1
  /\ UNCHANGED <<length, array, value, right, phase>>

GoRight ==
  /\ phase = "search" /\ left <= right
  /\ array[Middle] < value
  /\ left' = Middle + 1
  /\ UNCHANGED <<length, array, value, right, phase>>

(* Variant: one element more is skipped.                                   *)
GoLeftTooFar ==
  /\ phase = "search" /\ left <= right
  /\ array[Middle] > value
  /\ right' = Middle - 2
  /\ UNCHANGED <<length, array, value, left, phase>>

GoLeft ==
  /\ phase = "search" /\ left <= right
  /\ array[Middle] > value
  /\ right' = Middle - 1
  /\ UNCHANGED <<length, array, value, left, phase>>

Miss ==
  /\ phase = "search" /\ left > right
  /\ phase' = "missing"
  /\ UNCHANGED <<length, array, value, left, right>>

SearchNext == Sort \/ Hit \/ GoRight \/ GoLeft \/ Miss

SearchSpec == SearchInit /\ [][SearchNext]_searchVars

-----------------------------------------------------------------------------
SearchTypeOK ==
  /\ length \in Nat
  /\ array \in [Indices -> Pointers]
  /\ value \in Pointers
  /\ left \in 0 .. length
  /\ right \in -1 .. length - 1
  /\ phase \in {"sort", "search", "found", "missing"}

Ascending == \A i, j \in Indices : i < j => array[i] <= array[j]

Present == \E i \in Indices : array[i] = value

(* In an ascending array the search finds exactly what is there, and in    *)
(* any array it finds nothing that is not: a node is never kept for ever   *)
(* because of a pointer that does not name it, and never freed under one   *)
(* that does.                                                              *)
SearchExact ==
  /\ phase = "found" => Present
  /\ phase = "missing" /\ Ascending => ~Present

(* The pointers lie in a window of half the range of an int, so that no    *)
(* difference changes its sign when it is cut to an int.                   *)
CloseTogether ==
  \A i, j \in Indices : 2 * (array[i] - array[j]) < IntRange

(* Sorting by pointer_compare makes the array ascending, whatever side of  *)
(* zero the differences are, as long as the pointers are that close.  Of   *)
(* addresses further apart the code promises nothing, and the array may be *)
(* left in an order in which the search misses a pointer that is there.    *)
SortAscends == phase # "sort" /\ CloseTogether => Ascending

(* Every round of the search leaves fewer elements to look at, whatever    *)
(* order the array was left in, so no scan is caught in it.                *)
SearchShrinks ==
  [][phase = "search" /\ phase' = "search" => right' - left' < right - left]_searchVars
=============================================================================

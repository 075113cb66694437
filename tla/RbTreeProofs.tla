------------------------ MODULE RbTreeProofs ------------------------
(***************************************************************************)
(* Proofs about RbTree and RbTreeRemoval.  For any keys, any order of      *)
(* insertions and any refusals of the arena the links are a search tree    *)
(* whose paths carry the same number of black nodes, every key stays, and  *)
(* the walk visits the keys in order; and a removal that leaves no link to *)
(* a deleted node leaves a red-black tree, one black node short in every   *)
(* round of its loop.                                                      *)
(*                                                                         *)
(* Everything is shown once for both sides: a rotation to the right is one *)
(* to the left in the mirror image, a tree in the opposite order.          *)
(***************************************************************************)
EXTENDS RbTreeRemoval, FiniteSetTheorems, WellFoundedInduction, TLAPS

Refs == Cells \union {NULL}

(* The order of the keys, or the opposite one: what holds of a tree holds  *)
(* of its mirror image.                                                    *)
Before(m, n, up) == IF up THEN m < n ELSE n < m

LinkType(l, r) == l \in [Cells -> Refs] /\ r \in [Cells -> Refs]

(* F[m] is the set of nodes below m.                                       *)
Unfolds(l, r, F) ==
  /\ F \in [Refs -> SUBSET Keys]
  /\ \A m \in Refs : F[m] = IF m \in Keys THEN {m} \union F[l[m]] \union F[r[m]] ELSE {}

Sorted(l, r, F, up) ==
  \A n \in Keys : /\ \A m \in F[l[n]] : Before(m, n, up)
                  /\ \A m \in F[r[n]] : Before(n, m, up)

Grown(l, r, F, up) == LinkType(l, r) /\ Unfolds(l, r, F) /\ Sorted(l, r, F, up)

-----------------------------------------------------------------------------
(* What the assumption says of keys and sentinels.                         *)
LEMMA KeysAreInts == Keys \subseteq Int /\ NIL \notin Keys /\ NULL \notin Keys /\ NIL # NULL
BY KeysAssumption

(* The remainder of a difference that fits a signed type of r values.      *)
LEMMA FittingRemainder ==
  ASSUME NEW n \in Int, NEW r \in Nat \ {0}, 2 * n < r, -r <= 2 * n
  PROVE  n % r = IF n >= 0 THEN n ELSE n + r
<1>1. n = r * (n \div r) + (n % r) /\ n % r \in 0 .. r - 1 /\ n \div r \in Int
  BY SMT
<1> DEFINE q == n \div r
           m == n % r
<1>2. n = r * q + m /\ m \in 0 .. r - 1 /\ q \in Int
  BY <1>1
<1> HIDE DEF q, m
<1>3. CASE n >= 0
  <2>1. q = 0
    <3>1. CASE q >= 1
      <4>1. r * q >= r
        BY <1>2, <3>1
      <4> QED
        BY <1>2, <1>3, <4>1
    <3>2. CASE q <= -1
      <4>1. r * q <= -r
        BY <1>2, <3>2
      <4> QED
        BY <1>2, <1>3, <4>1
    <3> QED
      BY <1>2, <3>1, <3>2
  <2> QED
    BY <1>2, <1>3, <2>1 DEF m
<1>4. CASE n < 0
  <2>1. q = -1
    <3>1. CASE q >= 0
      <4>1. r * q >= 0
        BY <1>2, <3>1
      <4> QED
        BY <1>2, <1>4, <4>1
    <3>2. CASE q <= -2
      <4>1. r * q <= -2 * r
        BY <1>2, <3>2
      <4> QED
        BY <1>2, <1>4, <4>1
    <3> QED
      BY <1>2, <3>1, <3>2
  <2> QED
    BY <1>2, <1>4, <2>1 DEF m
<1> QED
  BY <1>3, <1>4

(* The default compare function answers the documented order of keys of a  *)
(* signed type their differences fit.                                      *)
THEOREM SmallerIsLess == \A a, b \in Keys : Smaller(a, b) <=> a < b
<1> TAKE a, b \in Keys
<1>1. /\ a \in Int /\ b \in Int /\ DifferenceRange \in Nat \ {0} /\ DifferenceSigned
      /\ 2 * (a - b) < DifferenceRange /\ -DifferenceRange <= 2 * (a - b)
  BY KeysAssumption, KeysFitAssumption
<1>2. (a - b) % DifferenceRange = IF a - b >= 0 THEN a - b ELSE (a - b) + DifferenceRange
  <2>1. a - b \in Int
    BY <1>1
  <2> QED
    BY <1>1, <2>1, FittingRemainder
<1>3. Difference(a, b) = a - b
  BY <1>1, <1>2 DEF Difference
<1> QED
  BY <1>1, <1>3 DEF Smaller, Compare

(* The tree of keys of an unsigned type.                                   *)
Unsigned == INSTANCE RbTree WITH DifferenceSigned <- FALSE

(* No unsigned key compares below another, not even below a larger one, so *)
(* no descent over such keys ever turns left.                              *)
THEOREM UnsignedIsNeverSmaller == \A a, b \in Keys : ~Unsigned!Smaller(a, b)
<1> TAKE a, b \in Keys
<1>1. a - b \in Int /\ DifferenceRange \in Nat \ {0}
  BY KeysAssumption
<1>2. (a - b) % DifferenceRange \in Nat
  BY <1>1
<1>3. Unsigned!Difference(a, b) = (a - b) % DifferenceRange
  BY DEF Unsigned!Difference
<1> QED
  BY <1>2, <1>3 DEF Unsigned!Smaller, Unsigned!Compare

(* Either order of the keys is strict and total.                           *)
LEMMA BeforeOrders ==
  ASSUME NEW m \in Keys, NEW n \in Keys, NEW up
  PROVE  /\ ~(Before(m, n, up) /\ Before(n, m, up))
         /\ m # n => Before(m, n, up) \/ Before(n, m, up)
         /\ ~Before(m, m, up)
         /\ \A k \in Keys : Before(m, n, up) /\ Before(n, k, up) => Before(m, k, up)
<1>1. m \in Int /\ n \in Int /\ \A k \in Keys : k \in Int
  BY KeysAreInts
<1> QED
  BY <1>1 DEF Before

(* What a node has below it and what its children have.                    *)
LEMMA ChildrenAreBelow ==
  ASSUME NEW l, NEW r, NEW F, NEW up, Grown(l, r, F, up), NEW n \in Keys
  PROVE  /\ l[n] \in Refs /\ r[n] \in Refs
         /\ F[l[n]] \in SUBSET Keys /\ F[r[n]] \in SUBSET Keys
         /\ F[n] = {n} \union F[l[n]] \union F[r[n]]
         /\ n \notin F[l[n]] /\ n \notin F[r[n]]
         /\ F[l[n]] \intersect F[r[n]] = {}
<1>1. n \in Cells /\ n \in Refs
  BY DEF Cells, Refs
<1>2. l[n] \in Refs /\ r[n] \in Refs
  BY <1>1 DEF Grown, LinkType
<1>3. F[l[n]] \in SUBSET Keys /\ F[r[n]] \in SUBSET Keys
  BY <1>2 DEF Grown, Unfolds
<1>4. F[n] = {n} \union F[l[n]] \union F[r[n]]
  BY <1>1 DEF Grown, Unfolds
<1>5. /\ \A m \in F[l[n]] : m \in Keys /\ Before(m, n, up)
      /\ \A m \in F[r[n]] : m \in Keys /\ Before(n, m, up)
  BY <1>3 DEF Grown, Sorted
<1>6. /\ ~Before(n, n, up)
      /\ \A m \in Keys : ~(Before(m, n, up) /\ Before(n, m, up))
  BY BeforeOrders
<1> QED
  BY <1>2, <1>3, <1>4, <1>5, <1>6

(* Nothing is below the sentinel or the null pointer.                      *)
LEMMA NothingBelowNil ==
  ASSUME NEW l, NEW r, NEW F, Unfolds(l, r, F)
  PROVE  \A m \in Refs \ Keys : F[m] = {}
BY DEF Unfolds

(* Induction on trees, over a set of nodes.                                *)
LEMMA TreeInduction ==
  ASSUME NEW l, NEW r, NEW F, NEW up, Grown(l, r, F, up), NEW P,
         Refs \ Keys \subseteq P,
         \A n \in Keys : l[n] \in P /\ r[n] \in P => n \in P
  PROVE  Refs \subseteq P
<1> DEFINE Bad == Refs \ P
           T == {F[m] : m \in Bad}
<1> SUFFICES ASSUME Bad # {} PROVE FALSE
  OBVIOUS
<1>1. \A m \in Bad : m \in Keys
  OBVIOUS
<1>2. \A m \in Refs : F[m] \in SUBSET Keys
  BY DEF Grown, Unfolds
<1>3. T \subseteq FiniteSubsetsOf(Keys)
  <2>1. FiniteSubsetsOf(Keys) = SUBSET Keys
    BY KeysAssumption, FS_FiniteSubsetsOfFinite
  <2> QED
    BY <1>2, <2>1
<1>4. T # {}
  OBVIOUS
<1>5. IsWellFoundedOn(StrictSubsetOrdering(Keys), FiniteSubsetsOf(Keys))
  BY FS_StrictSubsetOrderingWellFounded
<1>6. PICK S \in T : \A U \in T : ~(<<U, S>> \in StrictSubsetOrdering(Keys))
  <2> HIDE DEF T
  <2> QED
    BY <1>3, <1>4, <1>5, WFMin
<1>7. PICK m \in Bad : S = F[m]
  BY <1>6
<1>8. l[m] \in Bad \/ r[m] \in Bad
  BY <1>1, <1>7, ChildrenAreBelow
<1>9. PICK c \in Bad : c = l[m] \/ c = r[m]
  BY <1>8
<1>10. F[c] \subseteq F[m] /\ m \in F[m] /\ m \notin F[c]
  BY <1>1, <1>7, <1>9, ChildrenAreBelow
<1>11. <<F[c], F[m]>> \in StrictSubsetOrdering(Keys)
  <2>1. F[c] \in SUBSET Keys /\ F[m] \in SUBSET Keys /\ F[c] # F[m]
    BY <1>2, <1>7, <1>9, <1>10
  <2> QED
    BY <1>10, <2>1 DEF StrictSubsetOrdering
<1> QED
  BY <1>6, <1>7, <1>9, <1>11

(* One function unfolds the links of a tree.                               *)
LEMMA UnfoldsOnce ==
  ASSUME NEW l, NEW r, NEW F, NEW up, Grown(l, r, F, up), NEW G, Unfolds(l, r, G)
  PROVE  G = F
<1> DEFINE P == {m \in Refs : G[m] = F[m]}
<1>1. Refs \ Keys \subseteq P
  BY DEF Grown, Unfolds
<1>2. \A n \in Keys : l[n] \in P /\ r[n] \in P => n \in P
  BY DEF Grown, Unfolds, Refs, Cells
<1>3. Refs \subseteq P
  <2> HIDE DEF P
  <2> QED
    BY <1>1, <1>2, TreeInduction
<1> QED
  BY <1>3 DEF Grown, Unfolds

(* Below is transitive, and every node but the top hangs on another.       *)
LEMMA BelowIsClosed ==
  ASSUME NEW l, NEW r, NEW F, NEW up, Grown(l, r, F, up),
         NEW a \in Refs, NEW n \in F[a]
  PROVE  F[n] \subseteq F[a]
<1> DEFINE P == {m \in Refs : \A k \in F[m] : F[k] \subseteq F[m]}
<1>1. Refs \ Keys \subseteq P
  BY DEF Grown, Unfolds
<1>2. ASSUME NEW m \in Keys, l[m] \in P, r[m] \in P
      PROVE  m \in P
  BY <1>2, ChildrenAreBelow DEF Refs, Cells
<1>3. Refs \subseteq P
  <2> HIDE DEF P
  <2> QED
    BY <1>1, <1>2, TreeInduction
<1> QED
  BY <1>3

(* Every node below another is the child of a node below it.               *)
LEMMA BelowHasParent ==
  ASSUME NEW l, NEW r, NEW F, NEW up, Grown(l, r, F, up),
         NEW a \in Refs, NEW n \in F[a], n # a
  PROVE  \E p \in F[a] : l[p] = n \/ r[p] = n
<1> DEFINE P == {m \in Refs : \A k \in F[m] \ {m} : \E p \in F[m] : l[p] = k \/ r[p] = k}
<1>1. Refs \ Keys \subseteq P
  BY DEF Grown, Unfolds
<1>2. ASSUME NEW m \in Keys, l[m] \in P, r[m] \in P
      PROVE  m \in P
  <2>1. m \in Refs /\ F[m] = {m} \union F[l[m]] \union F[r[m]]
    BY ChildrenAreBelow DEF Refs, Cells
  <2> SUFFICES ASSUME NEW k \in F[m] \ {m}
               PROVE  \E p \in F[m] : l[p] = k \/ r[p] = k
    BY <2>1
  <2>2. CASE k = l[m] \/ k = r[m]
    BY <2>1, <2>2
  <2>3. CASE k \in F[l[m]] /\ k # l[m]
    BY <1>2, <2>1, <2>3
  <2>4. CASE k \in F[r[m]] /\ k # r[m]
    BY <1>2, <2>1, <2>4
  <2> QED
    BY <2>1, <2>2, <2>3, <2>4
<1>3. Refs \subseteq P
  <2> HIDE DEF P
  <2> QED
    BY <1>1, <1>2, TreeInduction
<1> QED
  BY <1>3

(* The keys below a node are neighbours in the tree: no other key lies     *)
(* between two of them.                                                    *)
LEMMA BelowIsConvex ==
  ASSUME NEW l, NEW r, NEW F, NEW up, Grown(l, r, F, up),
         NEW a \in Refs, NEW n \in F[a], NEW m \in F[a] \ F[n], NEW k \in F[n]
  PROVE  Before(m, k, up) <=> Before(m, n, up)
<1> DEFINE P == {b \in Refs : \A i \in F[b] : \A j \in F[b] \ F[i] : \A h \in F[i] :
                                Before(j, h, up) <=> Before(j, i, up)}
<1>1. Refs \ Keys \subseteq P
  BY DEF Grown, Unfolds
<1>2. ASSUME NEW b \in Keys, l[b] \in P, r[b] \in P
      PROVE  b \in P
  <2>1. /\ b \in Refs /\ F[b] = {b} \union F[l[b]] \union F[r[b]]
        /\ l[b] \in Refs /\ r[b] \in Refs
        /\ F[l[b]] \in SUBSET Keys /\ F[r[b]] \in SUBSET Keys
    BY ChildrenAreBelow DEF Refs, Cells
  <2> SUFFICES ASSUME NEW i \in F[b], NEW j \in F[b] \ F[i], NEW h \in F[i]
               PROVE  Before(j, h, up) <=> Before(j, i, up)
    BY <2>1
  <2>2. /\ \A x \in F[l[b]] : Before(x, b, up)
        /\ \A x \in F[r[b]] : Before(b, x, up)
    BY DEF Grown, Sorted
  <2>3. j # i
    <3>1. i \in Keys
      BY <2>1
    <3> QED
      BY <3>1, ChildrenAreBelow
  <2>4. CASE i = b
    BY <2>4
  <2>5. CASE i \in F[l[b]]
    <3>1. h \in F[l[b]]
      BY <2>1, <2>5, BelowIsClosed
    <3>2. CASE j \in F[l[b]]
      BY <1>2, <2>5, <3>2
    <3>3. CASE j = b
      <4>1. Before(h, j, up) /\ Before(i, j, up) /\ h \in Keys /\ i \in Keys /\ j \in Keys
        BY <2>1, <2>2, <2>5, <3>1, <3>3
      <4> QED
        BY <4>1, BeforeOrders
    <3>4. CASE j \in F[r[b]]
      <4>1. /\ Before(h, b, up) /\ Before(i, b, up) /\ Before(b, j, up)
            /\ h \in Keys /\ i \in Keys /\ j \in Keys
        BY <2>1, <2>2, <2>5, <3>1, <3>4
      <4> QED
        BY <4>1, BeforeOrders
    <3> QED
      BY <2>1, <3>2, <3>3, <3>4
  <2>6. CASE i \in F[r[b]]
    <3>1. h \in F[r[b]]
      BY <2>1, <2>6, BelowIsClosed
    <3>2. CASE j \in F[r[b]]
      BY <1>2, <2>6, <3>2
    <3>3. CASE j = b
      <4>1. Before(j, h, up) /\ Before(j, i, up)
        BY <2>2, <2>6, <3>1, <3>3
      <4> QED
        BY <4>1
    <3>4. CASE j \in F[l[b]]
      <4>1. /\ Before(b, h, up) /\ Before(b, i, up) /\ Before(j, b, up)
            /\ h \in Keys /\ i \in Keys /\ j \in Keys
        BY <2>1, <2>2, <2>6, <3>1, <3>4
      <4> QED
        BY <4>1, BeforeOrders
    <3> QED
      BY <2>1, <3>2, <3>3, <3>4
  <2> QED
    BY <2>1, <2>4, <2>5, <2>6
<1>3. Refs \subseteq P
  <2> HIDE DEF P
  <2> QED
    BY <1>1, <1>2, TreeInduction
<1> QED
  BY <1>3

-----------------------------------------------------------------------------
(* A search tree whose nodes know their parents.                           *)
Parented(l, r, q, top, F) ==
  /\ q \in [Cells -> Cells] /\ top \in Refs
  /\ \A n \in F[top] : \A c \in {l[n], r[n]} \intersect Keys : q[c] = n
  /\ top \in Keys => q[top] = NIL
  /\ l[NIL] = NIL /\ r[NIL] = NIL

Shaped(l, r, q, top, F, up) == Grown(l, r, F, up) /\ Parented(l, r, q, top, F)

(* The parent of a node of the tree is in the tree and has a link to it.   *)
LEMMA ParentInTree ==
  ASSUME NEW l, NEW r, NEW q, NEW top, NEW F, NEW up, Shaped(l, r, q, top, F, up),
         NEW n \in F[top]
  PROVE  /\ n \in Keys
         /\ n = top <=> q[n] = NIL
         /\ n # top => q[n] \in F[top] /\ (l[q[n]] = n \/ r[q[n]] = n)
<1>1. top \in Refs /\ F[top] \in SUBSET Keys
  BY DEF Shaped, Grown, Unfolds, Parented
<1>2. ASSUME n # top
      PROVE  q[n] \in F[top] /\ (l[q[n]] = n \/ r[q[n]] = n)
  <2>1. PICK p \in F[top] : l[p] = n \/ r[p] = n
    BY <1>1, <1>2, BelowHasParent DEF Shaped
  <2>2. q[n] = p
    BY <1>1, <2>1 DEF Shaped, Parented
  <2> QED
    BY <2>1, <2>2
<1>3. n = top => q[n] = NIL
  BY <1>1 DEF Shaped, Parented
<1> QED
  BY <1>1, <1>2, <1>3, KeysAreInts

(* The rotation that lifts the right child of x, or the left one in the    *)
(* mirror image.                                                           *)
Rotated(l, r, q, top, l2, r2, q2, top2, x) ==
  LET y == r[x]
      b == l[y]
      p == q[x]
  IN /\ l2 = [n \in Cells |-> IF n = y THEN x
                              ELSE IF n = p /\ p # NIL /\ l[p] = x THEN y ELSE l[n]]
     /\ r2 = [n \in Cells |-> IF n = x THEN b
                              ELSE IF n = p /\ p # NIL /\ l[p] # x THEN y ELSE r[n]]
     /\ q2 = [n \in Cells |-> IF n = x THEN y ELSE IF n = y THEN p
                              ELSE IF n = b /\ b # NIL THEN x ELSE q[n]]
     /\ top2 = IF p = NIL THEN y ELSE top

(* What is below the two nodes after it.                                   *)
Turned(F, x, y, a, b) ==
  [m \in Refs |-> IF m = y THEN F[x] ELSE IF m = x THEN {x} \union F[a] \union F[b] ELSE F[m]]

(* The links around a rotation.                                            *)
LEMMA RotationLinks ==
  ASSUME NEW l, NEW r, NEW q, NEW top, NEW F, NEW up, Shaped(l, r, q, top, F, up),
         NEW x \in F[top], r[x] \in Keys
  PROVE  LET y == r[x]
             b == l[y]
             p == q[x]
         IN /\ x \in Keys /\ y \in F[top] /\ x # y /\ b \in Refs
            /\ l[x] \notin {x, y} /\ r[y] \notin {x, y} /\ b \notin {x, y}
            /\ p # x /\ p # y /\ p \in Cells
            /\ p = NIL <=> x = top
            /\ p # NIL => p \in F[top] /\ p \in Keys /\ (l[p] = x \/ r[p] = x)
            /\ p # NIL => l[p] # y /\ r[p] # y /\ (l[p] = x <=> r[p] # x)
            /\ q[y] = x /\ y # top
            /\ \A n \in F[top] : {l[n], r[n]} \intersect {x, y} # {} => n = p \/ n = x
<1> DEFINE y == r[x]
           b == l[y]
           p == q[x]
<1>1. /\ top \in Refs /\ F[top] \in SUBSET Keys /\ x \in Keys /\ y \in Keys
      /\ q \in [Cells -> Cells]
      /\ \A n \in F[top] : \A c \in {l[n], r[n]} \intersect Keys : q[c] = n
      /\ top \in Keys => q[top] = NIL
      /\ Grown(l, r, F, up)
  BY DEF Shaped, Grown, Unfolds, Parented
<1>2. /\ F[x] = {x} \union F[l[x]] \union F[y]
      /\ x \notin F[l[x]] /\ x \notin F[y] /\ F[l[x]] \intersect F[y] = {}
      /\ l[x] \in Refs
  BY <1>1, ChildrenAreBelow
<1>3. /\ F[y] = {y} \union F[b] \union F[r[y]]
      /\ y \notin F[b] /\ y \notin F[r[y]] /\ b \in Refs /\ r[y] \in Refs
  BY <1>1, ChildrenAreBelow
<1>4. \A n \in Keys : n \in F[n]
  BY <1>1, ChildrenAreBelow
<1>5. y \in F[top]
  BY <1>1, <1>2, <1>4, BelowIsClosed
<1>6. x # y /\ l[x] \notin {x, y} /\ r[y] \notin {x, y} /\ b \notin {x, y}
  BY <1>1, <1>2, <1>3, <1>4
<1>7. q[y] = x
  BY <1>1
<1>8. /\ p = NIL <=> x = top
      /\ p # NIL => p \in F[top] /\ (l[p] = x \/ r[p] = x)
  BY ParentInTree
<1>9. p \in Cells
  BY <1>1 DEF Cells
<1>10. ASSUME p # NIL
       PROVE  p \in Keys /\ p # x /\ p # y /\ l[p] # y /\ r[p] # y /\ (l[p] = x <=> r[p] # x)
  <2>1. p \in F[top] /\ p \in Keys /\ (l[p] = x \/ r[p] = x)
    BY <1>1, <1>8, <1>10
  <2>2. /\ F[p] = {p} \union F[l[p]] \union F[r[p]]
        /\ p \notin F[l[p]] /\ p \notin F[r[p]] /\ F[l[p]] \intersect F[r[p]] = {}
    BY <1>1, <2>1, ChildrenAreBelow
  <2>3. p # x /\ (l[p] = x <=> r[p] # x)
    BY <1>1, <1>4, <2>1, <2>2
  <2>4. l[p] # y /\ r[p] # y
    BY <1>1, <1>7, <2>1, <2>3
  <2>5. p # y
    BY <1>2, <1>4, <1>1, <2>1, <2>2
  <2> QED
    BY <2>1, <2>3, <2>4, <2>5
<1>11. p # x /\ p # y
  BY <1>1, <1>10, KeysAreInts
<1>12. y # top
  BY <1>1, <1>7, KeysAreInts
<1>13. \A n \in F[top] : {l[n], r[n]} \intersect {x, y} # {} => n = p \/ n = x
  BY <1>1, <1>7
<1> QED
  BY <1>1, <1>3, <1>5, <1>6, <1>7, <1>8, <1>9, <1>10, <1>11, <1>12, <1>13

(* A rotation keeps the tree, whatever hangs outside of it, and its keys.  *)
LEMMA RotationKeepsShape ==
  ASSUME NEW l, NEW r, NEW q, NEW top, NEW F, NEW up, Shaped(l, r, q, top, F, up),
         NEW x \in F[top], r[x] \in Keys, l[r[x]] \in Cells,
         \A n \in Keys \ F[top] : {l[n], r[n]} \intersect {x, r[x]} = {},
         NEW l2, NEW r2, NEW q2, NEW top2, Rotated(l, r, q, top, l2, r2, q2, top2, x)
  PROVE  LET G == Turned(F, x, r[x], l[x], l[r[x]])
         IN Shaped(l2, r2, q2, top2, G, up) /\ G[top2] = F[top]
<1> DEFINE y == r[x]
           b == l[y]
           p == q[x]
           G == Turned(F, x, y, l[x], b)
<1>1. /\ top \in Refs /\ F[top] \in SUBSET Keys /\ x \in Keys /\ y \in Keys
      /\ q \in [Cells -> Cells]
      /\ \A n \in F[top] : \A c \in {l[n], r[n]} \intersect Keys : q[c] = n
      /\ top \in Keys => q[top] = NIL
      /\ Grown(l, r, F, up) /\ LinkType(l, r) /\ Unfolds(l, r, F)
      /\ l[NIL] = NIL /\ r[NIL] = NIL
  BY DEF Shaped, Grown, Unfolds, Parented
<1>2. /\ y \in F[top] /\ x # y /\ b \in Refs
      /\ l[x] \notin {x, y} /\ r[y] \notin {x, y} /\ b \notin {x, y}
      /\ p # x /\ p # y /\ p \in Cells
      /\ p = NIL <=> x = top
      /\ p # NIL => p \in F[top] /\ p \in Keys /\ (l[p] = x \/ r[p] = x)
      /\ p # NIL => l[p] # y /\ r[p] # y /\ (l[p] = x <=> r[p] # x)
      /\ q[y] = x /\ y # top
      /\ \A n \in F[top] : {l[n], r[n]} \intersect {x, y} # {} => n = p \/ n = x
  BY RotationLinks
<1>3. /\ l2 = [n \in Cells |-> IF n = y THEN x
                               ELSE IF n = p /\ p # NIL /\ l[p] = x THEN y ELSE l[n]]
      /\ r2 = [n \in Cells |-> IF n = x THEN b
                               ELSE IF n = p /\ p # NIL /\ l[p] # x THEN y ELSE r[n]]
      /\ q2 = [n \in Cells |-> IF n = x THEN y ELSE IF n = y THEN p
                               ELSE IF n = b /\ b # NIL THEN x ELSE q[n]]
      /\ top2 = IF p = NIL THEN y ELSE top
  BY DEF Rotated
<1>4. /\ F[x] = {x} \union F[l[x]] \union F[y]
      /\ F[y] = {y} \union F[b] \union F[r[y]]
      /\ F[l[x]] \in SUBSET Keys /\ F[b] \in SUBSET Keys /\ F[r[y]] \in SUBSET Keys
      /\ l[x] \in Refs /\ r[y] \in Refs
  BY <1>1, ChildrenAreBelow
<1>5. Keys \subseteq Cells /\ Cells \subseteq Refs /\ NIL \in Cells /\ NIL \notin Keys
  BY KeysAreInts DEF Cells, Refs
<1>6. /\ G \in [Refs -> SUBSET Keys]
      /\ G[y] = F[x] /\ G[x] = {x} \union F[l[x]] \union F[b]
      /\ \A m \in Refs \ {x, y} : G[m] = F[m]
  BY <1>1, <1>2, <1>4, <1>5 DEF Turned, Unfolds
<1>7. LinkType(l2, r2)
  BY <1>1, <1>2, <1>3, <1>5 DEF LinkType
(* The links after it, node by node.                                       *)
<1>8. /\ l2[y] = x /\ r2[y] = r[y]
      /\ l2[x] = l[x] /\ r2[x] = b
  BY <1>1, <1>2, <1>3, <1>5
<1>9. p # NIL => (l2[p] = IF l[p] = x THEN y ELSE l[p]) /\ (r2[p] = IF r[p] = x THEN y ELSE r[p])
  BY <1>1, <1>2, <1>3, <1>5
<1>10. \A n \in Cells \ {x, y} : (n # p \/ n = NIL) => l2[n] = l[n] /\ r2[n] = r[n]
  BY <1>1, <1>2, <1>3, <1>5
<1>11. ASSUME NEW n \in Keys \ {x, y}, n # p
       PROVE  l[n] \notin {x, y} /\ r[n] \notin {x, y}
  BY <1>1, <1>2, <1>11
<1> HIDE DEF y, b, p, G
<1>12. Unfolds(l2, r2, G)
  <2>1. \A m \in Refs \ Keys : G[m] = {}
    BY <1>1, <1>6, <1>5 DEF Unfolds
  <2>2. G[y] = {y} \union G[l2[y]] \union G[r2[y]]
    BY <1>2, <1>4, <1>6, <1>8
  <2>3. G[x] = {x} \union G[l2[x]] \union G[r2[x]]
    BY <1>2, <1>4, <1>6, <1>8
  <2>4. ASSUME NEW n \in Keys \ {x, y}
        PROVE  G[n] = {n} \union G[l2[n]] \union G[r2[n]]
    <3>1. F[n] = {n} \union F[l[n]] \union F[r[n]] /\ l[n] \in Refs /\ r[n] \in Refs
      BY <1>1, ChildrenAreBelow
    <3>2. CASE n = p
      <4>1. p # NIL
        BY <1>5, <3>2
      <4>2. G[l2[p]] = F[l[p]] /\ G[r2[p]] = F[r[p]]
        BY <1>2, <1>6, <1>9, <3>1, <3>2, <4>1
      <4> QED
        BY <1>5, <1>6, <3>1, <3>2, <4>2
    <3>3. CASE n # p
      BY <1>5, <1>6, <1>10, <1>11, <3>1, <3>3
    <3> QED
      BY <3>2, <3>3
  <2> QED
    BY <1>6, <2>1, <2>2, <2>3, <2>4 DEF Unfolds
<1>13. Sorted(l2, r2, G, up)
  <2>1. \A n \in Keys : /\ \A m \in F[l[n]] : Before(m, n, up)
                        /\ \A m \in F[r[n]] : Before(n, m, up)
    BY <1>1 DEF Grown, Sorted
  <2>2. Before(x, y, up)
    <3>1. y \in F[y]
      BY <1>4
    <3> QED
      BY <1>1, <2>1, <3>1 DEF y
  <2>3. /\ \A m \in G[l2[y]] : Before(m, y, up)
        /\ \A m \in G[r2[y]] : Before(y, m, up)
    <3>1. G[l2[y]] = {x} \union F[l[x]] \union F[b] /\ G[r2[y]] = F[r[y]]
      BY <1>2, <1>4, <1>6, <1>8
    <3>2. \A m \in F[l[x]] : Before(m, x, up) /\ m \in Keys
      BY <1>1, <1>4, <2>1
    <3>3. \A m \in F[b] : Before(m, y, up)
      BY <1>1, <2>1 DEF b
    <3> QED
      BY <1>1, <2>1, <2>2, <3>1, <3>2, <3>3, BeforeOrders
  <2>4. /\ \A m \in G[l2[x]] : Before(m, x, up)
        /\ \A m \in G[r2[x]] : Before(x, m, up)
    <3>1. G[l2[x]] = F[l[x]] /\ G[r2[x]] = F[b]
      BY <1>2, <1>4, <1>6, <1>8
    <3>2. F[b] \subseteq F[r[x]]
      BY <1>4 DEF y
    <3> QED
      BY <1>1, <2>1, <3>1, <3>2
  <2>5. ASSUME NEW n \in Keys \ {x, y}
        PROVE  G[l2[n]] = F[l[n]] /\ G[r2[n]] = F[r[n]]
    <3>1. l[n] \in Refs /\ r[n] \in Refs
      BY <1>1, ChildrenAreBelow
    <3>2. CASE n = p
      <4>1. p # NIL
        BY <1>5, <3>2
      <4> QED
        BY <1>2, <1>6, <1>9, <3>1, <3>2, <4>1
    <3>3. CASE n # p
      BY <1>5, <1>6, <1>10, <1>11, <3>1, <3>3
    <3> QED
      BY <3>2, <3>3
  <2> QED
    BY <2>1, <2>3, <2>4, <2>5 DEF Sorted
<1>14. G[top2] = F[top] /\ top2 \in Refs
  BY <1>1, <1>2, <1>3, <1>5, <1>6
<1>15. Parented(l2, r2, q2, top2, G)
  <2>1. q2 \in [Cells -> Cells]
    BY <1>1, <1>2, <1>3, <1>5
  <2>2. /\ q2[x] = y /\ q2[y] = p /\ (b # NIL /\ b \in Keys => q2[b] = x)
        /\ \A n \in Cells \ {x, y, b} : q2[n] = q[n]
    BY <1>1, <1>2, <1>3, <1>5
  <2>3. b \in Keys => q[b] = y
    BY <1>1, <1>2 DEF b
  <2>4. ASSUME NEW n \in F[top], NEW c \in {l2[n], r2[n]} \intersect Keys
        PROVE  q2[c] = n
    <3>1. n \in Keys /\ c \in Cells
      BY <1>1, <1>5
    <3>2. CASE n = y
      <4>1. CASE c = x
        BY <2>2, <3>2, <4>1
      <4>2. CASE c = r[y] /\ c # x
        <5>1. q[c] = y /\ c # y
          BY <1>1, <1>2, <4>2
        <5>2. c # b
          <6>1. F[l[y]] \intersect F[r[y]] = {} /\ c \in F[c]
            BY <1>1, ChildrenAreBelow
          <6> QED
            BY <4>2, <6>1 DEF b
        <5> QED
          BY <2>2, <3>1, <3>2, <4>2, <5>1, <5>2
      <4> QED
        BY <1>8, <3>2, <4>1, <4>2
    <3>3. CASE n = x
      <4>1. CASE c = b
        BY <1>5, <2>2, <3>3, <4>1
      <4>2. CASE c = l[x] /\ c # b
        <5>1. q[c] = x /\ c # y /\ c # x
          BY <1>1, <1>2, <4>2
        <5> QED
          BY <2>2, <3>1, <3>3, <4>2, <5>1
      <4> QED
        BY <1>8, <3>3, <4>1, <4>2
    <3>4. CASE n = p
      <4>1. p # NIL
        BY <1>5, <3>1, <3>4
      <4>2. CASE c = y
        BY <2>2, <3>4, <4>2
      <4>3. CASE c # y
        <5>1. c \in {l[p], r[p]} /\ c # x
          BY <1>2, <1>9, <2>4, <3>4, <4>1, <4>3
        <5>2. q[c] = p
          BY <1>1, <1>2, <4>1, <5>1
        <5>3. c # b
          BY <1>2, <2>3, <5>2
        <5> QED
          BY <2>2, <3>1, <3>4, <4>3, <5>1, <5>2, <5>3
      <4> QED
        BY <4>2, <4>3
    <3>5. CASE n \notin {x, y, p}
      <4>1. c \in {l[n], r[n]}
        BY <1>10, <3>1, <3>5, <1>5
      <4>2. q[c] = n /\ c # x /\ c # y
        BY <1>1, <1>11, <3>1, <3>5, <4>1
      <4>3. c # b
        BY <2>3, <3>5, <4>2
      <4> QED
        BY <2>2, <3>1, <4>2, <4>3
    <3> QED
      BY <3>2, <3>3, <3>4, <3>5
  <2>5. top2 \in Keys => q2[top2] = NIL
    <3>1. CASE p = NIL
      BY <1>3, <2>2, <3>1
    <3>2. CASE p # NIL
      <4>1. top2 = top /\ top # x /\ top # y
        BY <1>2, <1>3, <3>2
      <4>2. top \in Keys => top # b
        BY <1>1, <2>3, KeysAreInts
      <4> QED
        BY <1>1, <1>5, <2>2, <4>1, <4>2
    <3> QED
      BY <3>1, <3>2
  <2>6. l2[NIL] = NIL /\ r2[NIL] = NIL
    BY <1>1, <1>5, <1>10
  <2> QED
    BY <1>14, <2>1, <2>4, <2>5, <2>6 DEF Parented
<1> QED
  BY <1>7, <1>12, <1>13, <1>14, <1>15 DEF Shaped, Grown, y, b, p, G

-----------------------------------------------------------------------------
(* The mirror image of a tree is a tree in the opposite order.             *)
LEMMA MirrorShaped ==
  ASSUME NEW l, NEW r, NEW q, NEW top, NEW F, NEW up \in BOOLEAN, Shaped(l, r, q, top, F, up)
  PROVE  Shaped(r, l, q, top, F, ~up)
<1>1. \A m, n : Before(m, n, ~up) <=> Before(n, m, up)
  BY DEF Before
<1>2. LinkType(r, l)
  BY DEF Shaped, Grown, LinkType
<1>3. Unfolds(r, l, F)
  BY DEF Shaped, Grown, Unfolds
<1>4. Sorted(r, l, F, ~up)
  BY <1>1 DEF Shaped, Grown, Sorted
<1>5. Parented(r, l, q, top, F)
  BY DEF Shaped, Parented
<1> QED
  BY <1>2, <1>3, <1>4, <1>5 DEF Shaped, Grown

(* Trees as values, seen from one side or the other.                       *)
IsTree(t) == DOMAIN t = {"root", "left", "right", "parent"}

Hither(t, s) == IF s THEN t.left ELSE t.right

Yonder(t, s) == IF s THEN t.right ELSE t.left

TreeShaped(t, F, s) ==
  IsTree(t) /\ Shaped(Hither(t, s), Yonder(t, s), t.parent, t.root, F, s)

(* A tree seen from one side is a tree seen from the other.                *)
LEMMA EitherSide ==
  ASSUME NEW t, NEW F, NEW s \in BOOLEAN, TreeShaped(t, F, s)
  PROVE  TreeShaped(t, F, ~s)
<1>1. Shaped(Yonder(t, s), Hither(t, s), t.parent, t.root, F, ~s)
  BY MirrorShaped DEF TreeShaped
<1>2. Yonder(t, s) = Hither(t, ~s) /\ Hither(t, s) = Yonder(t, ~s)
  BY DEF Hither, Yonder
<1> QED
  BY <1>1, <1>2 DEF TreeShaped

(* What a new link above a rotation does to the fields.                    *)
LEMMA RelinkFields ==
  ASSUME NEW t, IsTree(t), NEW x, NEW y
  PROVE  LET u == Relink(t, x, y)
             p == t.parent[x]
         IN /\ IsTree(u) /\ u.parent = t.parent
            /\ u.root = IF p = NIL THEN y ELSE t.root
            /\ u.left = IF p # NIL /\ x = t.left[p] THEN [t.left EXCEPT ![p] = y] ELSE t.left
            /\ u.right = IF p # NIL /\ x # t.left[p] THEN [t.right EXCEPT ![p] = y] ELSE t.right
BY DEF IsTree, Relink

(* LeftRotate and RightRotate are one rotation and its mirror image.       *)
LEMMA RotateTurns ==
  ASSUME NEW t, NEW F, NEW s \in BOOLEAN, TreeShaped(t, F, s), NEW x \in F[t.root],
         Yonder(t, s)[x] \in Keys, Hither(t, s)[Yonder(t, s)[x]] \in Cells
  PROVE  LET u == Rotate(t, x, s)
         IN /\ IsTree(u)
            /\ Rotated(Hither(t, s), Yonder(t, s), t.parent, t.root,
                       Hither(u, s), Yonder(u, s), u.parent, u.root, x)
<1> DEFINE l == Hither(t, s)
           r == Yonder(t, s)
           q == t.parent
           y == r[x]
           b == l[y]
           p == q[x]
           l2 == [n \in Cells |-> IF n = y THEN x
                                  ELSE IF n = p /\ p # NIL /\ l[p] = x THEN y ELSE l[n]]
           r2 == [n \in Cells |-> IF n = x THEN b
                                  ELSE IF n = p /\ p # NIL /\ l[p] # x THEN y ELSE r[n]]
           q2 == [n \in Cells |-> IF n = x THEN y ELSE IF n = y THEN p
                                  ELSE IF n = b /\ b # NIL THEN x ELSE q[n]]
           top2 == IF p = NIL THEN y ELSE t.root
<1>1. /\ x \in Cells /\ y \in Cells /\ x # y /\ b \in Cells
      /\ b \notin {x, y} /\ p # x /\ p # y /\ p \in Cells
      /\ p # NIL => l[p] # y /\ r[p] # y /\ (l[p] = x <=> r[p] # x)
  BY RotationLinks DEF Cells, TreeShaped
<1>2. l \in [Cells -> Refs] /\ r \in [Cells -> Refs] /\ q \in [Cells -> Cells] /\ IsTree(t)
  BY DEF Shaped, Grown, LinkType, Parented, TreeShaped
<1> DEFINE q1 == IF b = NIL THEN [q EXCEPT ![y] = p] ELSE [q EXCEPT ![b] = x, ![y] = p]
           r1 == [r EXCEPT ![x] = b]
           lm == IF p # NIL /\ l[p] = x THEN [l EXCEPT ![p] = y] ELSE l
           rm == IF p # NIL /\ l[p] # x THEN [r1 EXCEPT ![p] = y] ELSE r1
           u == Rotate(t, x, s)
<1> HIDE DEF l, r, q
<1>3. q1 \in [Cells -> Cells] /\ r1 \in [Cells -> Refs] /\ lm \in [Cells -> Refs] /\ rm \in [Cells -> Refs]
  BY <1>1, <1>2 DEF Refs
<1>4. [q1 EXCEPT ![x] = y] = q2
  BY <1>1, <1>2, <1>3
<1>5. [lm EXCEPT ![y] = x] = l2
  BY <1>1, <1>2, <1>3
<1>6. rm = r2
  BY <1>1, <1>2, <1>3
<1>7. r1[p] = r[p] /\ q1[x] = p
  BY <1>1, <1>2
<1> HIDE DEF l2, r2, q2, lm, rm, r1, q1, y, b, p, u
<1>8. /\ IsTree(u) /\ u.root = top2 /\ u.parent = q2
      /\ Hither(u, s) = l2 /\ Yonder(u, s) = r2
  <2>1. CASE s = TRUE
    <3>1. t.left = l /\ t.right = r /\ t.parent = q
      BY <2>1 DEF l, r, q, Hither, Yonder
    <3>2. t.right[x] = y /\ t.left[y] = b /\ t.parent[x] = p
      BY <3>1 DEF y, b, p
    <3> DEFINE t1 == [t EXCEPT !.right[x] = b,
                               !.parent = IF b = NIL THEN [@ EXCEPT ![y] = t.parent[x]]
                                          ELSE [@ EXCEPT ![b] = x, ![y] = t.parent[x]]]
               t2 == Relink(t1, x, y)
    <3>3. u = [t2 EXCEPT !.left[y] = x, !.parent[x] = y]
      BY <2>1, <3>2, Zenon DEF LeftRotate, Rotate, u
    <3>4. IsTree(t1) /\ t1.root = t.root /\ t1.left = l /\ t1.right = r1 /\ t1.parent = q1
      BY <1>2, <3>1, <3>2 DEF IsTree, r1, q1
    <3> HIDE DEF t1
    <3>5. IsTree(t2) /\ t2.root = top2 /\ t2.left = lm /\ t2.right = rm /\ t2.parent = q1
      BY <1>7, <3>4, RelinkFields DEF lm, rm
    <3> HIDE DEF t2
    <3>6. /\ IsTree(u) /\ u.root = top2 /\ u.left = l2 /\ u.right = r2 /\ u.parent = q2
      BY <1>4, <1>5, <1>6, <3>3, <3>5 DEF IsTree
    <3> QED
      BY <2>1, <3>6 DEF Hither, Yonder
  <2>2. CASE s = FALSE
    <3>1. t.left = r /\ t.right = l /\ t.parent = q
      BY <2>2 DEF l, r, q, Hither, Yonder
    <3>2. t.left[x] = y /\ t.right[y] = b /\ t.parent[x] = p
      BY <3>1 DEF y, b, p
    <3> DEFINE t1 == [t EXCEPT !.left[x] = b,
                               !.parent = IF b = NIL THEN [@ EXCEPT ![y] = t.parent[x]]
                                          ELSE [@ EXCEPT ![b] = x, ![y] = t.parent[x]]]
               t2 == Relink(t1, x, y)
    <3>3. u = [t2 EXCEPT !.right[y] = x, !.parent[x] = y]
      BY <2>2, <3>2, Zenon DEF RightRotate, Rotate, u
    <3>4. IsTree(t1) /\ t1.root = t.root /\ t1.left = r1 /\ t1.right = l /\ t1.parent = q1
      BY <1>2, <3>1, <3>2 DEF IsTree, r1, q1
    <3> HIDE DEF t1
    <3>5. IsTree(t2) /\ t2.root = top2 /\ t2.left = rm /\ t2.right = lm /\ t2.parent = q1
      <4>1. p # NIL => (r1[p] = x <=> l[p] # x)
        BY <1>1, <1>7
      <4> QED
        BY <1>7, <3>4, <4>1, RelinkFields DEF lm, rm
    <3> HIDE DEF t2
    <3>6. /\ IsTree(u) /\ u.root = top2 /\ u.left = r2 /\ u.right = l2 /\ u.parent = q2
      BY <1>4, <1>5, <1>6, <3>3, <3>5 DEF IsTree
    <3> QED
      BY <2>2, <3>6 DEF Hither, Yonder
  <2> QED
    BY <2>1, <2>2
<1>9. Rotated(l, r, q, t.root, l2, r2, q2, top2, x)
  BY DEF Rotated, l2, r2, q2, y, b, p
<1> QED
  BY <1>8, <1>9 DEF l, r, q, u

-----------------------------------------------------------------------------
(* The recursive definitions of the model over the links l and r.          *)
BelowIn(l, r, n) ==
  LET from[m \in Cells \union {NULL}] ==
        IF m \notin Keys THEN {} ELSE {m} \union from[l[m]] \union from[r[m]]
  IN from[n]

HeightIn(l, r, c, n) ==
  LET h[m \in Cells \union {NULL}] ==
        IF m \notin Keys THEN 0
        ELSE IF h[l[m]] # h[r[m]] \/ h[l[m]] = -1 THEN -1
        ELSE h[l[m]] + (IF c[m] = "black" THEN 1 ELSE 0)
  IN h[n]

(* On a tree the definition of Below is the function that unfolds it.      *)
LEMMA BelowOfTree ==
  ASSUME NEW l, NEW r, NEW F, NEW up, Grown(l, r, F, up)
  PROVE  \A n \in Refs : BelowIn(l, r, n) = F[n]
<1> DEFINE from[m \in Cells \union {NULL}] ==
             IF m \notin Keys THEN {} ELSE {m} \union from[l[m]] \union from[r[m]]
<1>1. F = [m \in Cells \union {NULL} |->
             IF m \notin Keys THEN {} ELSE {m} \union F[l[m]] \union F[r[m]]]
  BY DEF Grown, Unfolds, Refs
<1>2. \E g : g = [m \in Cells \union {NULL} |->
                    IF m \notin Keys THEN {} ELSE {m} \union g[l[m]] \union g[r[m]]]
  BY <1>1
<1>3. from = [m \in Cells \union {NULL} |->
                IF m \notin Keys THEN {} ELSE {m} \union from[l[m]] \union from[r[m]]]
  BY <1>2
<1> HIDE DEF from
<1>4. Unfolds(l, r, from)
  <2> DEFINE P == {m \in Refs : from[m] = F[m]}
  <2>1. Refs \ Keys \subseteq P
    BY <1>3 DEF Grown, Unfolds, Refs
  <2>2. \A n \in Keys : l[n] \in P /\ r[n] \in P => n \in P
    BY <1>3 DEF Grown, Unfolds, Refs, Cells
  <2>3. Refs \subseteq P
    <3> HIDE DEF P
    <3> QED
      BY <2>1, <2>2, TreeInduction
  <2>4. from \in [Refs -> SUBSET Keys]
    BY <1>3, <2>3 DEF Grown, Unfolds, Refs
  <2> QED
    BY <1>3, <2>4 DEF Unfolds, Refs
<1>5. from = F
  BY <1>4, UnfoldsOnce
<1>6. \A n : BelowIn(l, r, n) = from[n]
  BY DEF BelowIn, from
<1> QED
  BY <1>5, <1>6

(* Below is that of the links of the state.                                *)
LEMMA BelowIsBelowIn == \A n : Below(n) = BelowIn(left, right, n)
BY DEF Below, BelowIn

-----------------------------------------------------------------------------
(* H[m] is the number of black nodes on every path down from m when the    *)
(* link of the node d on the side of l, or on the other, counts one more.  *)
Extra(n, d, s) == IF n = d /\ s THEN 1 ELSE 0

Shade(c, n) == IF c[n] = "black" THEN 1 ELSE 0

Even(l, r, c, H, d, s) ==
  /\ H \in [Refs -> Nat]
  /\ \A m \in Refs \ Keys : H[m] = 0
  /\ \A n \in Keys : /\ H[l[n]] + Extra(n, d, s) = H[r[n]] + Extra(n, d, ~s)
                     /\ H[n] = H[l[n]] + Extra(n, d, s) + Shade(c, n)

(* Paths that agree do so in the mirror image.                             *)
LEMMA EvenEitherSide ==
  ASSUME NEW l, NEW r, NEW c, NEW H, NEW d, NEW s \in BOOLEAN, Even(l, r, c, H, d, s)
  PROVE  Even(r, l, c, H, d, ~s)
BY DEF Even

(* Heights are numbers, those of the children of a node included.          *)
LEMMA EvenNumbers ==
  ASSUME NEW l, NEW r, LinkType(l, r), NEW c, NEW H, NEW d, NEW s \in BOOLEAN, Even(l, r, c, H, d, s)
  PROVE  /\ \A n \in Refs : H[n] \in Nat
         /\ \A n \in Keys : /\ H[n] \in Nat /\ H[l[n]] \in Nat /\ H[r[n]] \in Nat
                            /\ l[n] \in Refs /\ r[n] \in Refs
BY DEF Even, LinkType, Refs, Cells

(* When nothing is missing the definition of BlackHeight counts them.      *)
LEMMA HeightOfTree ==
  ASSUME NEW l, NEW r, NEW F, NEW up, Grown(l, r, F, up),
         NEW c, NEW H, NEW d, d \notin Keys, NEW s, Even(l, r, c, H, d, s)
  PROVE  \A n \in Refs : HeightIn(l, r, c, n) = H[n]
<1> DEFINE h[m \in Cells \union {NULL}] ==
             IF m \notin Keys THEN 0
             ELSE IF h[l[m]] # h[r[m]] \/ h[l[m]] = -1 THEN -1
             ELSE h[l[m]] + (IF c[m] = "black" THEN 1 ELSE 0)
<1>1. \A n \in Keys : /\ H[l[n]] \in Nat /\ H[r[n]] \in Nat
                      /\ H[l[n]] = H[r[n]] /\ H[n] = H[l[n]] + (IF c[n] = "black" THEN 1 ELSE 0)
  <2> SUFFICES ASSUME NEW n \in Keys
               PROVE  /\ H[l[n]] \in Nat /\ H[r[n]] \in Nat
                      /\ H[l[n]] = H[r[n]] /\ H[n] = H[l[n]] + (IF c[n] = "black" THEN 1 ELSE 0)
    OBVIOUS
  <2>1. H[l[n]] \in Nat /\ H[r[n]] \in Nat
    BY DEF Even, Grown, LinkType, Refs, Cells
  <2> QED
    BY <2>1 DEF Even, Extra, Shade
<1>2. H = [m \in Cells \union {NULL} |->
             IF m \notin Keys THEN 0
             ELSE IF H[l[m]] # H[r[m]] \/ H[l[m]] = -1 THEN -1
             ELSE H[l[m]] + (IF c[m] = "black" THEN 1 ELSE 0)]
  BY <1>1 DEF Even, Refs
<1>3. \E g : g = [m \in Cells \union {NULL} |->
                    IF m \notin Keys THEN 0
                    ELSE IF g[l[m]] # g[r[m]] \/ g[l[m]] = -1 THEN -1
                    ELSE g[l[m]] + (IF c[m] = "black" THEN 1 ELSE 0)]
  BY <1>2
<1>4. h = [m \in Cells \union {NULL} |->
             IF m \notin Keys THEN 0
             ELSE IF h[l[m]] # h[r[m]] \/ h[l[m]] = -1 THEN -1
             ELSE h[l[m]] + (IF c[m] = "black" THEN 1 ELSE 0)]
  BY <1>3
<1> HIDE DEF h
<1> DEFINE P == {m \in Refs : h[m] = H[m]}
<1>5. Refs \ Keys \subseteq P
  BY <1>4 DEF Even, Refs
<1>6. \A n \in Keys : l[n] \in P /\ r[n] \in P => n \in P
  BY <1>1, <1>4 DEF Refs, Cells
<1>7. Refs \subseteq P
  <2> HIDE DEF P
  <2> QED
    BY <1>5, <1>6, TreeInduction
<1>8. \A n : HeightIn(l, r, c, n) = h[n]
  BY DEF HeightIn, h
<1> QED
  BY <1>7, <1>8

(* BlackHeight is that of the links and colors of the state.               *)
LEMMA HeightIsHeightIn == \A n : BlackHeight(n) = HeightIn(left, right, color, n)
BY DEF BlackHeight, HeightIn

-----------------------------------------------------------------------------
(* Heights after a rotation that lifts a red node, which exchanges its     *)
(* color with the node it replaces.                                        *)
Lifted(H, x, y) == [m \in Refs |-> IF m = y THEN H[x] ELSE IF m = x THEN H[y] ELSE H[m]]

(* Every path keeps its black nodes when a rotation lifts a red node that  *)
(* takes the color of the one it replaces.                                 *)
LEMMA LiftRedKeepsHeights ==
  ASSUME NEW l, NEW r, NEW q, NEW top, NEW F, NEW up, Shaped(l, r, q, top, F, up),
         NEW x \in F[top], r[x] \in Keys,
         \A n \in Keys \ F[top] : {l[n], r[n]} \intersect {x, r[x]} = {},
         NEW l2, NEW r2, NEW q2, NEW top2, Rotated(l, r, q, top, l2, r2, q2, top2, x),
         NEW c, NEW c2, NEW H, NEW d, NEW s \in BOOLEAN, Even(l, r, c, H, d, s),
         c[r[x]] = "red", c2[r[x]] = c[x], c2[x] = "red",
         \A n \in Keys \ {x, r[x]} : c2[n] = c[n],
         d # r[x], d = x => s
  PROVE  Even(l2, r2, c2, Lifted(H, x, r[x]), d, s)
<1> DEFINE y == r[x]
           b == l[y]
           p == q[x]
           G == Lifted(H, x, y)
<1>1. /\ x \in Keys /\ y \in Keys /\ y \in F[top] /\ x # y /\ b \in Refs
      /\ l[x] \notin {x, y} /\ r[y] \notin {x, y} /\ b \notin {x, y}
      /\ p # x /\ p # y /\ p \in Cells
      /\ p # NIL => p \in F[top] /\ p \in Keys /\ (l[p] = x \/ r[p] = x)
      /\ p # NIL => l[p] # y /\ r[p] # y /\ (l[p] = x <=> r[p] # x)
      /\ \A n \in F[top] : {l[n], r[n]} \intersect {x, y} # {} => n = p \/ n = x
  BY RotationLinks
<1>2. /\ l2 = [n \in Cells |-> IF n = y THEN x
                               ELSE IF n = p /\ p # NIL /\ l[p] = x THEN y ELSE l[n]]
      /\ r2 = [n \in Cells |-> IF n = x THEN b
                               ELSE IF n = p /\ p # NIL /\ l[p] # x THEN y ELSE r[n]]
  BY DEF Rotated
<1>3. Keys \subseteq Cells /\ Cells \subseteq Refs /\ NIL \notin Keys
  BY KeysAreInts DEF Cells, Refs
<1>4. LinkType(l, r)
  BY DEF Shaped, Grown
<1>5. /\ \A n \in Refs : H[n] \in Nat
      /\ \A n \in Keys : /\ H[n] \in Nat /\ H[l[n]] \in Nat /\ H[r[n]] \in Nat
                         /\ l[n] \in Refs /\ r[n] \in Refs
  BY <1>4, EvenNumbers
<1>6. \A n \in Keys : /\ H[l[n]] + Extra(n, d, s) = H[r[n]] + Extra(n, d, ~s)
                      /\ H[n] = H[l[n]] + Extra(n, d, s) + Shade(c, n)
  BY DEF Even
<1>7. /\ l2[y] = x /\ r2[y] = r[y]
      /\ l2[x] = l[x] /\ r2[x] = b
  BY <1>1, <1>2, <1>3
<1>8. p # NIL => (l2[p] = IF l[p] = x THEN y ELSE l[p]) /\ (r2[p] = IF r[p] = x THEN y ELSE r[p])
  BY <1>1, <1>2, <1>3
<1>9. \A n \in Keys \ {x, y} : n # p => l2[n] = l[n] /\ r2[n] = r[n]
  BY <1>1, <1>2, <1>3
<1>10. ASSUME NEW n \in Keys \ {x, y}, n # p
       PROVE  l[n] \notin {x, y} /\ r[n] \notin {x, y}
  BY <1>1, <1>10
<1>11. /\ G \in [Refs -> Nat] /\ G[y] = H[x] /\ G[x] = H[y]
       /\ \A m \in Refs \ {x, y} : G[m] = H[m]
  BY <1>1, <1>3, <1>5 DEF Lifted
<1> HIDE DEF y, b, p, G
<1>12. H[y] = H[b] /\ H[y] = H[r[y]]
  <2>1. Extra(y, d, s) = 0 /\ Extra(y, d, ~s) = 0 /\ Shade(c, y) = 0
    BY DEF Extra, Shade, y
  <2>2. H[b] \in Nat /\ H[r[y]] \in Nat
    BY <1>1, <1>5
  <2>3. H[b] + 0 = H[r[y]] + 0 /\ H[y] = H[b] + 0 + 0
    BY <1>1, <1>6, <2>1 DEF b
  <2> QED
    BY <2>2, <2>3
<1>13. /\ G[l2[x]] + Extra(x, d, s) = G[r2[x]] + Extra(x, d, ~s)
       /\ G[x] = G[l2[x]] + Extra(x, d, s) + Shade(c2, x)
  <2>1. Extra(x, d, ~s) = 0 /\ Shade(c2, x) = 0 /\ Extra(x, d, s) \in Nat
    BY DEF Extra, Shade
  <2>2. H[l[x]] + Extra(x, d, s) = H[y] + Extra(x, d, ~s)
    BY <1>1, <1>6 DEF y
  <2>3. G[l2[x]] = H[l[x]] /\ G[r2[x]] = H[b] /\ H[l[x]] \in Nat /\ H[y] \in Nat
    BY <1>1, <1>5, <1>7, <1>11
  <2>4. H[l[x]] + Extra(x, d, s) = H[y]
    BY <2>1, <2>2, <2>3
  <2>5. G[x] = H[y] /\ G[r2[x]] = H[y]
    BY <1>11, <1>12, <2>3
  <2> QED
    BY <2>1, <2>3, <2>4, <2>5
<1>14. /\ G[l2[y]] + Extra(y, d, s) = G[r2[y]] + Extra(y, d, ~s)
       /\ G[y] = G[l2[y]] + Extra(y, d, s) + Shade(c2, y)
  <2>1. Extra(y, d, s) = 0 /\ Extra(y, d, ~s) = 0 /\ Shade(c2, y) = Shade(c, x)
    BY DEF Extra, Shade, y
  <2>2. G[l2[y]] = H[y] /\ G[r2[y]] = H[r[y]]
    BY <1>1, <1>5, <1>7, <1>11
  <2>3. H[l[x]] + Extra(x, d, s) = H[y] + Extra(x, d, ~s) /\ H[x] = H[l[x]] + Extra(x, d, s) + Shade(c, x)
    BY <1>1, <1>6 DEF y
  <2>4. Extra(x, d, ~s) = 0 /\ Extra(x, d, s) \in Nat /\ Shade(c, x) \in Nat
    BY DEF Extra, Shade
  <2>5. H[l[x]] \in Nat /\ H[y] \in Nat /\ H[r[y]] \in Nat
    BY <1>1, <1>5
  <2> QED
    BY <1>11, <1>12, <2>1, <2>2, <2>3, <2>4, <2>5
<1>15. ASSUME NEW n \in Keys \ {x, y}
       PROVE  /\ G[l2[n]] + Extra(n, d, s) = G[r2[n]] + Extra(n, d, ~s)
              /\ G[n] = G[l2[n]] + Extra(n, d, s) + Shade(c2, n)
  <2>1. G[l2[n]] = H[l[n]] /\ G[r2[n]] = H[r[n]]
    <3>1. l[n] \in Refs /\ r[n] \in Refs
      BY <1>5
    <3>2. CASE n = p
      <4>1. p # NIL
        BY <1>3, <3>2
      <4> QED
        BY <1>1, <1>8, <1>11, <3>1, <3>2, <4>1
    <3>3. CASE n # p
      BY <1>9, <1>10, <1>11, <3>1, <3>3
    <3> QED
      BY <3>2, <3>3
  <2>2. G[n] = H[n] /\ Shade(c2, n) = Shade(c, n)
    BY <1>3, <1>11 DEF Shade, y
  <2> QED
    BY <1>6, <2>1, <2>2
<1>16. \A m \in Refs \ Keys : G[m] = 0
  BY <1>1, <1>11 DEF Even
<1>17. Even(l2, r2, c2, G, d, s)
  BY <1>11, <1>13, <1>14, <1>15, <1>16 DEF Even
<1> QED
  BY <1>17 DEF G, y

-----------------------------------------------------------------------------
Nodes == [m \in Refs |-> Below(m)]

Heights == [m \in Refs |-> BlackHeight(m)]

ScalarType ==
  /\ color \in [Cells -> {"red", "black"}] /\ color[NIL] = "black"
  /\ size \in Nat /\ refusals \in Nat
  /\ pc \in {"idle", "descend", "balance", "crashed", "destroyed"}
  /\ target \in Cells /\ cur \in Refs /\ above \in Cells

(* A key that is not in the tree has no links.                             *)
LooseNodes ==
  \A n \in Keys \ InTree : left[n] = NIL /\ right[n] = NIL /\ parent[n] = NIL

(* The descent has kept to the side of the key at every node above it.     *)
OnTheWay ==
  /\ target \in Keys
  /\ above = NIL => cur = root
  /\ above # NIL =>
       /\ above \in InTree /\ above # target
       /\ cur = IF target < above THEN left[above] ELSE right[above]
       /\ \A n \in InTree : /\ above \in Below(left[n]) => target < n
                            /\ above \in Below(right[n]) => target > n
  /\ target \in InTree => target \in Below(cur)

TreeInv ==
  /\ ScalarType
  /\ Shaped(left, right, parent, root, Nodes, TRUE)
  /\ LooseNodes
  /\ size = Cardinality(InTree)
  /\ pc = "descend" => OnTheWay
  /\ pc = "balance" => target \in InTree /\ cur \in InTree

(* Two red nodes meet at the node being balanced only, which is red.       *)
ColorInv ==
  /\ Even(left, right, color, Heights, NIL, TRUE)
  /\ \A n \in InTree :
       color[n] = "red" /\ color[parent[n]] = "red" => n = cur /\ pc \in {"balance", "crashed"}
  /\ root \in Keys /\ color[root] = "red" => root = cur /\ pc = "balance"
  /\ pc = "balance" => color[cur] = "red"

RbInv == TreeInv /\ ColorInv

-----------------------------------------------------------------------------
(* What a link may lead to: a key, the sentinel or the null pointer.       *)
LEMMA CellsAndRefs ==
  /\ Keys \subseteq Cells /\ Cells \subseteq Refs /\ NIL \in Cells /\ NIL \notin Keys
  /\ NULL \in Refs /\ NULL \notin Cells
  /\ \A m \in Cells : m \in Keys \/ m = NIL
  /\ \A m \in Refs : m \in Keys \/ m = NIL \/ m = NULL
BY KeysAreInts DEF Cells, Refs

(* The tree of a state, and of the next one, by any function that unfolds  *)
(* its links.                                                              *)
LEMMA TreeNow ==
  ASSUME NEW F, Grown(left, right, F, TRUE)
  PROVE  /\ Nodes = F
         /\ \A n \in Refs : Below(n) = F[n]
         /\ root \in Refs => InTree = F[root]
<1>1. \A n \in Refs : Below(n) = F[n]
  BY BelowOfTree, BelowIsBelowIn
<1>2. Nodes = F
  BY <1>1 DEF Nodes, Grown, Unfolds
<1> QED
  BY <1>1, <1>2 DEF InTree

(* The same of the next state.                                             *)
LEMMA TreeNext ==
  ASSUME NEW F, Grown(left', right', F, TRUE)
  PROVE  /\ Nodes' = F
         /\ \A n \in Refs : Below(n)' = F[n]
         /\ root' \in Refs => InTree' = F[root']
<1>1. \A n : Below(n)' = BelowIn(left', right', n)
  BY DEF Below, BelowIn
<1>2. \A n \in Refs : BelowIn(left', right', n) = F[n]
  BY BelowOfTree
<1>3. \A n \in Refs : Below(n)' = F[n]
  BY <1>1, <1>2
<1>4. Nodes' = F
  BY <1>3 DEF Nodes, Grown, Unfolds
<1>5. InTree' = BelowIn(left', right', root')
  BY DEF InTree, Below, BelowIn
<1> QED
  BY <1>2, <1>3, <1>4, <1>5

(* The same of the heights.                                                *)
LEMMA HeightsNow ==
  ASSUME NEW F, Grown(left, right, F, TRUE), NEW H, Even(left, right, color, H, NIL, TRUE)
  PROVE  Heights = H /\ \A n \in Refs : BlackHeight(n) = H[n]
<1>1. \A n \in Refs : BlackHeight(n) = H[n]
  BY HeightOfTree, HeightIsHeightIn, CellsAndRefs
<1> QED
  BY <1>1 DEF Heights, Even

(* The same of the next state.                                             *)
LEMMA HeightsNext ==
  ASSUME NEW F, Grown(left', right', F, TRUE), NEW H, Even(left', right', color', H, NIL, TRUE)
  PROVE  Heights' = H /\ \A n \in Refs : BlackHeight(n)' = H[n]
<1>1. \A n : BlackHeight(n)' = HeightIn(left', right', color', n)
  BY DEF BlackHeight, HeightIn
<1>2. \A n \in Refs : BlackHeight(n)' = H[n]
  BY <1>1, HeightOfTree, CellsAndRefs
<1> QED
  BY <1>2 DEF Heights, Even

(* The tree of a state, spelled out.                                       *)
LEMMA TreeFacts ==
  ASSUME TreeInv
  PROVE  /\ Grown(left, right, Nodes, TRUE)
         /\ left \in [Cells -> Refs] /\ right \in [Cells -> Refs]
         /\ parent \in [Cells -> Cells] /\ root \in Refs
         /\ left[NIL] = NIL /\ right[NIL] = NIL
         /\ \A n \in Refs : Below(n) = Nodes[n]
         /\ InTree = Nodes[root] /\ InTree \subseteq Keys
         /\ \A n \in Refs \ Keys : Nodes[n] = {}
<1>1. /\ Grown(left, right, Nodes, TRUE)
      /\ left \in [Cells -> Refs] /\ right \in [Cells -> Refs]
      /\ parent \in [Cells -> Cells] /\ root \in Refs
      /\ left[NIL] = NIL /\ right[NIL] = NIL
  BY DEF TreeInv, Shaped, Parented, Grown, LinkType
<1>2. /\ \A n \in Refs : Below(n) = Nodes[n]
      /\ InTree = Nodes[root]
  BY <1>1, TreeNow
<1>3. InTree \subseteq Keys /\ \A n \in Refs \ Keys : Nodes[n] = {}
  BY <1>1, <1>2 DEF Grown, Unfolds
<1> QED
  BY <1>1, <1>2, <1>3

(* A step that leaves the links alone leaves what is below every node.     *)
LEMMA SameLinks ==
  ASSUME TreeInv, UNCHANGED links
  PROVE  /\ \A n : Below(n)' = Below(n)
         /\ InTree' = InTree /\ Nodes' = Nodes
         /\ Shaped(left, right, parent, root, Nodes, TRUE)' /\ LooseNodes'
<1>1. left' = left /\ right' = right /\ parent' = parent /\ root' = root
  BY DEF links
<1>2. \A n : Below(n)' = Below(n)
  BY <1>1 DEF Below
<1>3. InTree' = InTree /\ Nodes' = Nodes
  BY <1>1, <1>2 DEF InTree, Nodes
<1>4. Shaped(left, right, parent, root, Nodes, TRUE)'
  <2>1. Shaped(left', right', parent', root', Nodes', TRUE)
    BY <1>1, <1>3 DEF TreeInv
  <2> QED
    BY <2>1 DEF Shaped, Grown, LinkType, Unfolds, Sorted, Parented, Before
<1>5. LooseNodes'
  BY <1>1, <1>3 DEF TreeInv, LooseNodes
<1> QED
  BY <1>2, <1>3, <1>4, <1>5

(* A step that leaves links and colors alone leaves the heights.           *)
LEMMA SameColors ==
  ASSUME Even(left, right, color, Heights, NIL, TRUE), UNCHANGED <<links, color>>
  PROVE  Even(left, right, color, Heights, NIL, TRUE)'
<1>1. left' = left /\ right' = right /\ color' = color
  BY DEF links
<1>2. \A n : BlackHeight(n)' = BlackHeight(n)
  BY <1>1 DEF BlackHeight
<1>3. Heights' = Heights
  BY <1>2 DEF Heights
<1>4. Even(left', right', color', Heights', NIL, TRUE)
  BY <1>1, <1>3
<1> QED
  BY <1>4 DEF Even, Extra, Shade

-----------------------------------------------------------------------------
(* A tree without nodes, at first and after the destructor.                *)
NoNodes(l, r, q, c) ==
  /\ l = [n \in Cells |-> NIL] /\ r = [n \in Cells |-> NIL]
  /\ q = [n \in Cells |-> NIL] /\ c = [n \in Cells |-> "black"]

(* A tree without nodes is a tree, and its paths agree.                    *)
LEMMA EmptyTree ==
  ASSUME NEW l, NEW r, NEW q, NEW c, NoNodes(l, r, q, c)
  PROVE  \E F : \E H : /\ Shaped(l, r, q, NIL, F, TRUE) /\ F[NIL] = {}
                       /\ Even(l, r, c, H, NIL, TRUE)
<1> DEFINE F == [m \in Refs |-> IF m \in Keys THEN {m} ELSE {}]
           H == [m \in Refs |-> IF m \in Keys THEN 1 ELSE 0]
<1>1. \A n \in Cells : l[n] = NIL /\ r[n] = NIL /\ q[n] = NIL /\ c[n] = "black"
  BY DEF NoNodes
<1>2. F[NIL] = {} /\ H[NIL] = 0
  BY CellsAndRefs
<1>3. LinkType(l, r)
  BY CellsAndRefs DEF NoNodes, LinkType
<1>4. Unfolds(l, r, F)
  BY <1>1, <1>2, CellsAndRefs DEF Unfolds
<1>5. Sorted(l, r, F, TRUE)
  BY <1>1, <1>2, CellsAndRefs DEF Sorted
<1>6. Parented(l, r, q, NIL, F)
  BY <1>1, <1>2, CellsAndRefs DEF Parented, NoNodes
<1>7. Even(l, r, c, H, NIL, TRUE)
  <2>1. H \in [Refs -> Nat] /\ \A m \in Refs \ Keys : H[m] = 0
    OBVIOUS
  <2>2. ASSUME NEW n \in Keys
        PROVE  /\ H[l[n]] + Extra(n, NIL, TRUE) = H[r[n]] + Extra(n, NIL, ~TRUE)
               /\ H[n] = H[l[n]] + Extra(n, NIL, TRUE) + Shade(c, n)
    <3>1. n # NIL /\ H[l[n]] = 0 /\ H[r[n]] = 0 /\ H[n] = 1 /\ c[n] = "black"
      BY <1>1, <1>2, CellsAndRefs
    <3> HIDE DEF H
    <3> QED
      BY <3>1 DEF Extra, Shade
  <2> QED
    BY <2>1, <2>2 DEF Even
<1> QED
  BY <1>2, <1>3, <1>4, <1>5, <1>6, <1>7 DEF Shaped, Grown

(* A tree that was just made satisfies the invariant.                      *)
LEMMA RbInit == Init => RbInv
<1> SUFFICES ASSUME Init PROVE RbInv
  OBVIOUS
<1>1. NoNodes(left, right, parent, color)
  BY DEF Init, NoNodes
<1>2. PICK F, H : /\ Shaped(left, right, parent, NIL, F, TRUE) /\ F[NIL] = {}
                  /\ Even(left, right, color, H, NIL, TRUE)
  BY <1>1, EmptyTree
<1>3. Grown(left, right, F, TRUE) /\ root = NIL /\ root \in Refs
  BY <1>2, CellsAndRefs DEF Shaped, Init
<1>4. Nodes = F /\ InTree = {}
  BY <1>2, <1>3, TreeNow
<1>5. Heights = H
  BY <1>2, <1>3, HeightsNow
<1>6. ScalarType
  BY CellsAndRefs DEF ScalarType, Init
<1>7. LooseNodes
  BY CellsAndRefs DEF LooseNodes, Init
<1>8. size = Cardinality(InTree)
  BY <1>4, FS_EmptySet DEF Init
<1>9. TreeInv
  BY <1>2, <1>4, <1>6, <1>7, <1>8 DEF TreeInv, Init
<1>10. ColorInv
  BY <1>2, <1>4, <1>5, CellsAndRefs DEF ColorInv, Init
<1> QED
  BY <1>9, <1>10 DEF RbInv

(* The calls that read no node, or whose node was there.                   *)
LEMMA InsertStep ==
  ASSUME RbInv, NEW k \in Keys, Insert(k)
  PROVE  RbInv' /\ InTree' = InTree
<1>1. /\ pc = "idle" /\ pc' = "descend" /\ target' = k /\ cur' = root /\ above' = NIL
      /\ UNCHANGED links /\ UNCHANGED <<links, color>> /\ color' = color
      /\ size' = size /\ refusals' = refusals /\ root' = root
  BY DEF Insert, links
<1>2. /\ \A n : Below(n)' = Below(n)
      /\ InTree' = InTree /\ Nodes' = Nodes
      /\ Shaped(left, right, parent, root, Nodes, TRUE)' /\ LooseNodes'
  BY <1>1, SameLinks DEF RbInv
<1>3. ScalarType'
  BY <1>1, CellsAndRefs, TreeFacts DEF RbInv, TreeInv, ScalarType
<1>4. OnTheWay'
  BY <1>1, <1>2 DEF OnTheWay, InTree
<1>5. TreeInv'
  BY <1>1, <1>2, <1>3, <1>4 DEF RbInv, TreeInv
<1>6. Even(left, right, color, Heights, NIL, TRUE)'
  BY <1>1, SameColors DEF RbInv, ColorInv
<1>7. ColorInv'
  <2>1. parent' = parent
    BY <1>1 DEF links
  <2> QED
    BY <1>1, <1>2, <1>6, <2>1 DEF RbInv, ColorInv
<1> QED
  BY <1>2, <1>5, <1>7 DEF RbInv

-----------------------------------------------------------------------------
(* A step that leaves the tree alone and ends the call or the program.     *)
LEMMA QuietEnd ==
  ASSUME RbInv, UNCHANGED <<links, color, size, refusals>>,
         pc \in {"idle", "descend", "balance"}, pc' \in {"idle", "crashed"},
         target' \in Cells, cur' \in Refs, above' \in Cells,
         pc = "balance" => pc' = "crashed" /\ cur' = cur /\ color[parent[cur]] = "red"
  PROVE  RbInv' /\ InTree' = InTree
<1>1. /\ UNCHANGED links /\ UNCHANGED <<links, color>> /\ color' = color
      /\ size' = size /\ refusals' = refusals /\ root' = root /\ parent' = parent
  BY DEF links
<1>2. /\ \A n : Below(n)' = Below(n)
      /\ InTree' = InTree /\ Nodes' = Nodes
      /\ Shaped(left, right, parent, root, Nodes, TRUE)' /\ LooseNodes'
  BY <1>1, SameLinks DEF RbInv
<1>3. ScalarType'
  BY <1>1 DEF RbInv, TreeInv, ScalarType
<1>4. TreeInv'
  BY <1>1, <1>2, <1>3 DEF RbInv, TreeInv
<1>5. Even(left, right, color, Heights, NIL, TRUE)'
  BY <1>1, SameColors DEF RbInv, ColorInv
<1>6. \A n \in InTree' : color'[n] = "red" /\ color'[parent'[n]] = "red"
                         => n = cur' /\ pc' \in {"balance", "crashed"}
  BY <1>1, <1>2 DEF RbInv, ColorInv
<1>7. root' \in Keys /\ color'[root'] = "red" => root' = cur' /\ pc' = "balance"
  <2>1. root \in Keys /\ color[root] = "red" => root = cur /\ pc = "balance"
    BY DEF RbInv, ColorInv
  <2>2. SUFFICES ASSUME root \in Keys, color[root] = "red" PROVE FALSE
    BY <1>1
  <2>3. root = cur /\ color[parent[root]] = "red"
    BY <2>1, <2>2
  <2>4. parent[root] = NIL /\ color[NIL] = "black"
    BY <2>2 DEF RbInv, TreeInv, ScalarType, Shaped, Parented
  <2> QED
    BY <2>3, <2>4
<1>8. pc' # "balance"
  OBVIOUS
<1>9. ColorInv'
  BY <1>5, <1>6, <1>7, <1>8 DEF ColorInv
<1> QED
  BY <1>2, <1>4, <1>9 DEF RbInv

(* A key that is there, or a null reference, ends the call.                *)
LEMMA StopDescentStep == RbInv /\ StopDescent => RbInv' /\ InTree' = InTree
<1> SUFFICES ASSUME RbInv, StopDescent PROVE RbInv' /\ InTree' = InTree
  OBVIOUS
<1> QED
  BY QuietEnd, CellsAndRefs DEF StopDescent, Return

(* A null uncle ends the program and leaves the tree.                      *)
LEMMA NullUncleStep == RbInv /\ NullUncle => RbInv' /\ InTree' = InTree
<1> SUFFICES ASSUME RbInv, NullUncle PROVE RbInv' /\ InTree' = InTree
  OBVIOUS
<1>1. target \in Cells /\ cur \in Refs /\ above \in Cells
  BY DEF RbInv, TreeInv, ScalarType
<1> QED
  BY <1>1, QuietEnd DEF NullUncle, Crash

(* A null link ends the program in the destructor.                         *)
LEMMA DestroyNullStep == RbInv /\ DestroyNull => RbInv' /\ InTree' = InTree
<1> SUFFICES ASSUME RbInv, DestroyNull PROVE RbInv' /\ InTree' = InTree
  OBVIOUS
<1>1. target \in Cells /\ cur \in Refs /\ above \in Cells
  BY DEF RbInv, TreeInv, ScalarType
<1> QED
  BY <1>1, QuietEnd DEF DestroyNull, Crash

(* The destructor leaves an empty tree.                                    *)
LEMMA DestroyStep == RbInv /\ Destroy => RbInv'
<1> SUFFICES ASSUME RbInv, Destroy PROVE RbInv'
  OBVIOUS
<1>1. /\ NoNodes(left', right', parent', color')
      /\ root' = NIL /\ size' = 0 /\ pc' = "destroyed"
      /\ target' = target /\ cur' = cur /\ above' = above /\ refusals' = refusals
  BY DEF Destroy, NoNodes
<1>2. PICK F, H : /\ Shaped(left', right', parent', NIL, F, TRUE) /\ F[NIL] = {}
                  /\ Even(left', right', color', H, NIL, TRUE)
  BY <1>1, EmptyTree
<1>3. Grown(left', right', F, TRUE) /\ root' \in Refs
  BY <1>1, <1>2, CellsAndRefs DEF Shaped
<1>4. Nodes' = F /\ InTree' = {}
  BY <1>1, <1>2, <1>3, TreeNext
<1>5. Heights' = H
  BY <1>2, <1>3, HeightsNext
<1>6. ScalarType'
  BY <1>1, CellsAndRefs DEF RbInv, TreeInv, ScalarType, NoNodes
<1>7. LooseNodes'
  BY <1>1, CellsAndRefs DEF LooseNodes, NoNodes
<1>8. size' = Cardinality(InTree')
  BY <1>1, <1>4, FS_EmptySet
<1>9. TreeInv'
  <2>1. Shaped(left, right, parent, root, Nodes, TRUE)'
    BY <1>1, <1>2, <1>4
  <2> QED
    BY <1>1, <1>6, <1>7, <1>8, <2>1 DEF TreeInv
<1>10. ColorInv'
  BY <1>1, <1>2, <1>4, <1>5, CellsAndRefs DEF ColorInv
<1> QED
  BY <1>9, <1>10 DEF RbInv

-----------------------------------------------------------------------------
(* Every node below another hangs on a node below it.                      *)
Hanging(l, r, F) ==
  \A a \in Refs : \A n \in F[a] \ {a} : \E p \in F[a] : l[p] = n \/ r[p] = n

(* In a tree all nodes hang so.                                            *)
LEMMA NodesHang ==
  ASSUME NEW l, NEW r, NEW F, NEW up, Grown(l, r, F, up)
  PROVE  Hanging(l, r, F)
<1> SUFFICES ASSUME NEW a \in Refs, NEW n \in F[a], n # a
             PROVE  \E p \in F[a] : l[p] = n \/ r[p] = n
  BY DEF Hanging
<1> QED
  BY BelowHasParent

(* Every node with its children, and what is below them.                   *)
LEMMA NodeFacts ==
  ASSUME TreeInv
  PROVE  /\ \A n \in Keys : /\ left[n] \in Refs /\ right[n] \in Refs
                            /\ Below(left[n]) = Nodes[left[n]] /\ Below(right[n]) = Nodes[right[n]]
                            /\ n \in Nodes[n]
                            /\ Nodes[n] = {n} \union Below(left[n]) \union Below(right[n])
                            /\ n \notin Below(left[n]) /\ n \notin Below(right[n])
                            /\ Below(left[n]) \intersect Below(right[n]) = {}
                            /\ \A m \in Below(left[n]) : m < n
                            /\ \A m \in Below(right[n]) : m > n
         /\ \A a \in Refs : \A n \in Nodes[a] : Nodes[n] \subseteq Nodes[a]
         /\ \A a \in Refs : \A n \in Nodes[a] \ {a} :
              \E p \in Nodes[a] : left[p] = n \/ right[p] = n
<1>1. Grown(left, right, Nodes, TRUE) /\ \A n \in Refs : Below(n) = Nodes[n]
  BY TreeFacts
<1>2. ASSUME NEW n \in Keys
      PROVE  /\ left[n] \in Refs /\ right[n] \in Refs
             /\ Below(left[n]) = Nodes[left[n]] /\ Below(right[n]) = Nodes[right[n]]
             /\ n \in Nodes[n]
             /\ Nodes[n] = {n} \union Below(left[n]) \union Below(right[n])
             /\ n \notin Below(left[n]) /\ n \notin Below(right[n])
             /\ Below(left[n]) \intersect Below(right[n]) = {}
             /\ \A m \in Below(left[n]) : m < n
             /\ \A m \in Below(right[n]) : m > n
  <2>1. /\ left[n] \in Refs /\ right[n] \in Refs
        /\ Nodes[left[n]] \in SUBSET Keys /\ Nodes[right[n]] \in SUBSET Keys
        /\ Nodes[n] = {n} \union Nodes[left[n]] \union Nodes[right[n]]
        /\ n \notin Nodes[left[n]] /\ n \notin Nodes[right[n]]
        /\ Nodes[left[n]] \intersect Nodes[right[n]] = {}
    BY <1>1, ChildrenAreBelow
  <2>2. Below(left[n]) = Nodes[left[n]] /\ Below(right[n]) = Nodes[right[n]]
    BY <1>1, <2>1
  <2>3. /\ \A m \in Nodes[left[n]] : Before(m, n, TRUE)
        /\ \A m \in Nodes[right[n]] : Before(n, m, TRUE)
    BY <1>1 DEF Grown, Sorted
  <2>4. n \in Int /\ \A m \in Keys : m \in Int
    BY KeysAreInts
  <2>5. /\ \A m \in Nodes[left[n]] : m < n
        /\ \A m \in Nodes[right[n]] : n < m /\ m \in Int
    BY <2>1, <2>3, <2>4 DEF Before
  <2> QED
    BY <2>1, <2>2, <2>4, <2>5
<1>3. ASSUME NEW a \in Refs, NEW n \in Nodes[a]
      PROVE  Nodes[n] \subseteq Nodes[a]
  BY <1>1, BelowIsClosed
<1>4. \A a \in Refs : \A n \in Nodes[a] \ {a} :
        \E p \in Nodes[a] : left[p] = n \/ right[p] = n
  <2>1. Hanging(left, right, Nodes)
    BY <1>1, NodesHang
  <2> QED
    BY <2>1 DEF Hanging
<1> QED
  BY <1>2, <1>3, <1>4

(* One step down keeps to the side of the key.                             *)
LEMMA DescendStep == RbInv /\ Descend => RbInv' /\ InTree' = InTree
<1> SUFFICES ASSUME RbInv, Descend PROVE RbInv' /\ InTree' = InTree
  OBVIOUS
<1>1. /\ pc = "descend" /\ pc' = "descend" /\ cur \in Keys /\ cur # target
      /\ above' = cur /\ target' = target
      /\ cur' = (IF target < cur THEN left[cur] ELSE right[cur])
      /\ UNCHANGED links /\ UNCHANGED <<links, color>> /\ color' = color
      /\ size' = size /\ refusals' = refusals
      /\ root' = root /\ parent' = parent /\ left' = left /\ right' = right
  <2>1. target \in Keys /\ cur \in Keys
    BY DEF RbInv, TreeInv, OnTheWay, ScalarType, Descend
  <2>2. Smaller(target, cur) <=> target < cur
    BY <2>1, SmallerIsLess
  <2> QED
    BY <2>2 DEF Descend, links
<1>2. /\ \A n : Below(n)' = Below(n)
      /\ InTree' = InTree /\ Nodes' = Nodes
      /\ Shaped(left, right, parent, root, Nodes, TRUE)' /\ LooseNodes'
  BY <1>1, SameLinks DEF RbInv
<1>3. /\ Grown(left, right, Nodes, TRUE)
      /\ left \in [Cells -> Refs] /\ right \in [Cells -> Refs] /\ root \in Refs
      /\ \A n \in Refs : Below(n) = Nodes[n]
      /\ InTree = Nodes[root] /\ InTree \subseteq Keys
  BY TreeFacts DEF RbInv
<1>4. OnTheWay
  BY <1>1 DEF RbInv, TreeInv
<1>5. ScalarType'
  BY <1>1, <1>3, CellsAndRefs DEF RbInv, TreeInv, ScalarType
<1>6. /\ \A n \in Keys : /\ left[n] \in Refs /\ right[n] \in Refs
                         /\ Below(left[n]) = Nodes[left[n]] /\ Below(right[n]) = Nodes[right[n]]
                         /\ n \in Nodes[n]
                         /\ Nodes[n] = {n} \union Below(left[n]) \union Below(right[n])
                         /\ n \notin Below(left[n]) /\ n \notin Below(right[n])
                         /\ Below(left[n]) \intersect Below(right[n]) = {}
                         /\ \A m \in Below(left[n]) : m < n
                         /\ \A m \in Below(right[n]) : m > n
      /\ \A a \in Refs : \A n \in Nodes[a] : Nodes[n] \subseteq Nodes[a]
      /\ \A a \in Refs : \A n \in Nodes[a] \ {a} :
           \E p \in Nodes[a] : left[p] = n \/ right[p] = n
  BY NodeFacts DEF RbInv
<1>7. cur \in InTree
  <2>1. CASE above = NIL
    BY <1>1, <1>3, <1>4, <1>6, <2>1 DEF OnTheWay
  <2>2. CASE above # NIL
    <3>1. above \in InTree /\ above \in Keys /\ cur \in {left[above], right[above]}
      BY <1>3, <1>4, <2>2 DEF OnTheWay
    <3>2. cur \in Nodes[above]
      BY <1>1, <1>6, <3>1
    <3> QED
      BY <1>3, <1>6, <3>1, <3>2
  <2> QED
    BY <2>1, <2>2
<1>8. ASSUME NEW n \in InTree, cur \in Below(left[n]) \union Below(right[n])
      PROVE  /\ cur \in Below(left[n]) => target < n
             /\ cur \in Below(right[n]) => target > n
  <2>1. n \in Keys
    BY <1>3
  <2>2. above # NIL
    <3> SUFFICES ASSUME above = NIL PROVE FALSE
      OBVIOUS
    <3>1. cur = root
      BY <1>4 DEF OnTheWay
    <3>2. n \in Nodes[cur]
      BY <1>3, <3>1
    <3>3. /\ cur \in Below(left[n]) => Nodes[cur] \subseteq Below(left[n])
          /\ cur \in Below(right[n]) => Nodes[cur] \subseteq Below(right[n])
      BY <1>3, <1>6, <2>1
    <3> QED
      BY <1>6, <1>8, <2>1, <3>2, <3>3
  <2>3. /\ above \in InTree /\ above \in Keys /\ above # target
        /\ cur = (IF target < above THEN left[above] ELSE right[above])
        /\ above \in Below(left[n]) => target < n
        /\ above \in Below(right[n]) => target > n
    BY <1>3, <1>4, <2>2 DEF OnTheWay
  <2>4. cur \in Keys /\ target \in Keys /\ target \in Int /\ above \in Int /\ n \in Int
    BY <1>1, <1>4, <2>1, <2>3, KeysAreInts DEF OnTheWay
  <2>5. parent[cur] = above
    <3>1. \A i \in InTree : \A c \in {left[i], right[i]} \intersect Keys : parent[c] = i
      BY <1>3 DEF RbInv, TreeInv, Shaped, Parented
    <3> QED
      BY <2>3, <2>4, <3>1
  <2>6. CASE n = above
    <3>1. (target < above /\ cur = left[above]) \/ (~(target < above) /\ cur = right[above])
      BY <2>3
    <3>2. cur \in Nodes[cur]
      BY <1>1, <1>6
    <3>3. /\ cur = left[above] => cur \in Below(left[above])
          /\ cur = right[above] => cur \in Below(right[above])
      BY <1>6, <2>3, <3>2
    <3> QED
      BY <1>6, <2>3, <2>4, <2>6, <3>1, <3>3
  <2>7. CASE n # above
    <3>1. ASSUME NEW c \in {left[n], right[n]}, cur \in Below(c)
          PROVE  above \in Below(c)
      <4>1. c \in Refs /\ Below(c) = Nodes[c] /\ Nodes[c] \subseteq InTree
        <5>1. Nodes[n] \subseteq InTree
          BY <1>3, <1>6
        <5> QED
          BY <1>6, <2>1, <3>1, <5>1
      <4>2. \A i \in InTree : \A k \in {left[i], right[i]} \intersect Keys : parent[k] = i
        BY <1>3 DEF RbInv, TreeInv, Shaped, Parented
      <4>3. cur # c
        BY <2>4, <2>5, <2>7, <4>2
      <4>4. PICK p \in Nodes[c] : left[p] = cur \/ right[p] = cur
        BY <1>6, <3>1, <4>1, <4>3
      <4>5. parent[cur] = p
        BY <2>4, <4>1, <4>2, <4>4
      <4> QED
        BY <2>5, <4>1, <4>4, <4>5
    <3> QED
      BY <2>3, <3>1
  <2> QED
    BY <2>6, <2>7
<1>9. target \in InTree => target \in Below(cur')
  <2> SUFFICES ASSUME target \in InTree PROVE target \in Below(cur')
    OBVIOUS
  <2>1. target \in Below(cur) /\ target \in Keys
    BY <1>4 DEF OnTheWay
  <2>2. target \in Nodes[cur] /\ target # cur /\ target \in Int /\ cur \in Int
    BY <1>1, <1>3, <2>1, CellsAndRefs, KeysAreInts
  <2>3. target \in Below(left[cur]) \/ target \in Below(right[cur])
    BY <1>1, <1>6, <2>2
  <2>4. CASE target \in Below(left[cur])
    BY <1>1, <1>6, <2>4
  <2>5. CASE target \in Below(right[cur])
    <3>1. target > cur
      BY <1>1, <1>6, <2>5
    <3>2. ~(target < cur)
      BY <2>2, <3>1
    <3> QED
      BY <1>1, <2>5, <3>2
  <2> QED
    BY <2>3, <2>4, <2>5
<1>10. OnTheWay'
  <2>1. above' # NIL
    BY <1>1, CellsAndRefs
  <2>2. \A n \in InTree' : /\ above' \in Below(left[n])' => target' < n
                           /\ above' \in Below(right[n])' => target' > n
    BY <1>1, <1>2, <1>8
  <2>3. Below(cur)' = Below(cur')
    BY <1>1 DEF Below
  <2> QED
    BY <1>1, <1>2, <1>4, <1>7, <1>9, <2>1, <2>2, <2>3 DEF OnTheWay
<1>11. TreeInv'
  BY <1>1, <1>2, <1>5, <1>10 DEF RbInv, TreeInv
<1>12. Even(left, right, color, Heights, NIL, TRUE)'
  BY <1>1, SameColors DEF RbInv, ColorInv
<1>13. ColorInv'
  <2>1. \A n \in InTree' : ~(color'[n] = "red" /\ color'[parent'[n]] = "red")
    BY <1>1, <1>2 DEF RbInv, ColorInv
  <2>2. ~(root' \in Keys /\ color'[root'] = "red")
    BY <1>1 DEF RbInv, ColorInv
  <2> QED
    BY <1>1, <1>12, <2>1, <2>2 DEF ColorInv
<1> QED
  BY <1>2, <1>11, <1>13 DEF RbInv

-----------------------------------------------------------------------------
(* Where the descent ends: what was there, and the links that change.      *)
LEMMA DescentEnds ==
  ASSUME RbInv, pc = "descend", cur = NIL
  PROVE  /\ target \in Keys /\ target \notin InTree
         /\ left[target] = NIL /\ right[target] = NIL
         /\ \A m \in Keys : left[m] # target /\ right[m] # target
         /\ root # target /\ above # target
         /\ above = NIL => root = NIL /\ InTree = {}
         /\ above # NIL =>
              /\ above \in InTree /\ above \in Keys
              /\ target < above => left[above] = NIL
              /\ ~(target < above) => right[above] = NIL /\ target > above
<1>1. /\ InTree = Nodes[root] /\ InTree \subseteq Keys /\ root \in Refs
      /\ \A n \in Refs : Below(n) = Nodes[n]
      /\ \A n \in Refs \ Keys : Nodes[n] = {}
  BY TreeFacts DEF RbInv
<1>2. OnTheWay /\ LooseNodes
  BY DEF RbInv, TreeInv
<1>3. target \in Keys /\ target \notin InTree
  <2>1. Below(cur) = {}
    BY <1>1, CellsAndRefs
  <2> QED
    BY <1>2, <2>1 DEF OnTheWay
<1>4. left[target] = NIL /\ right[target] = NIL
  BY <1>2, <1>3 DEF LooseNodes
<1>5. \A n \in Keys : /\ left[n] \in Refs /\ right[n] \in Refs
                      /\ n \in Nodes[n]
                      /\ Nodes[n] = {n} \union Nodes[left[n]] \union Nodes[right[n]]
  BY NodeFacts DEF RbInv
<1>6. \A a \in Refs : \A n \in Nodes[a] : Nodes[n] \subseteq Nodes[a]
  BY NodeFacts DEF RbInv
<1>7. ASSUME NEW m \in Keys
      PROVE  left[m] # target /\ right[m] # target
  <2>1. CASE m \in InTree
    <3>1. Nodes[left[m]] \subseteq InTree /\ Nodes[right[m]] \subseteq InTree
      BY <1>1, <1>5, <1>6, <2>1
    <3> QED
      BY <1>3, <1>5, <3>1
  <2>2. CASE m \notin InTree
    BY <1>2, <1>3, <2>2, CellsAndRefs DEF LooseNodes
  <2> QED
    BY <2>1, <2>2
<1>8. root # target
  BY <1>1, <1>3, <1>5
<1>9. above = NIL => root = NIL /\ InTree = {}
  BY <1>1, <1>2, CellsAndRefs DEF OnTheWay
<1>10. ASSUME above # NIL
       PROVE  /\ above \in InTree /\ above \in Keys /\ above # target
              /\ target < above => left[above] = NIL
              /\ ~(target < above) => right[above] = NIL /\ target > above
  <2>1. /\ above \in InTree /\ above \in Keys /\ above # target
        /\ target < above => left[above] = NIL
        /\ ~(target < above) => right[above] = NIL
    BY <1>1, <1>2, <1>10 DEF OnTheWay
  <2>2. target \in Int /\ above \in Int
    BY <1>3, <2>1, KeysAreInts
  <2> QED
    BY <2>1, <2>2
<1>11. above # target
  BY <1>3, <1>10, CellsAndRefs
<1> QED
  BY <1>3, <1>4, <1>7, <1>8, <1>9, <1>10, <1>11

(* One link changes, the one that led to the sentinel.                     *)
LEMMA AttachedLinks ==
  ASSUME RbInv, pc = "descend", cur = NIL, NEW n \in {target, NULL}, Attach(n)
  PROVE  /\ left' \in [Cells -> Refs] /\ right' \in [Cells -> Refs] /\ root' \in Refs
         /\ root' = IF above = NIL THEN n ELSE root
         /\ left'[NIL] = NIL /\ right'[NIL] = NIL
         /\ \A m \in Keys \ {above} : left'[m] = left[m] /\ right'[m] = right[m]
         /\ above # NIL =>
              \/ /\ target < above /\ left[above] = NIL /\ left'[above] = n
                 /\ right'[above] = right[above]
              \/ /\ ~(target < above) /\ right[above] = NIL /\ right'[above] = n
                 /\ left'[above] = left[above]
<1>1. /\ left \in [Cells -> Refs] /\ right \in [Cells -> Refs] /\ root \in Refs
      /\ left[NIL] = NIL /\ right[NIL] = NIL
  BY TreeFacts DEF RbInv
<1>2. /\ target \in Keys /\ left[target] = NIL /\ right[target] = NIL /\ above # target
      /\ above # NIL => /\ above \in Keys
                        /\ target < above => left[above] = NIL
                        /\ ~(target < above) => right[above] = NIL
  BY DescentEnds
<1>3. n \in Refs /\ (n \in Cells => n = target) /\ n # NIL
  BY <1>2, CellsAndRefs
<1>4. /\ root' = IF above = NIL THEN n ELSE root
      /\ left' = [m \in Cells |-> IF m = n THEN NIL
                              ELSE IF m = above /\ m # NIL /\ target < m THEN n ELSE left[m]]
      /\ right' = [m \in Cells |-> IF m = n THEN NIL
                              ELSE IF m = above /\ m # NIL /\ ~(target < m) THEN n ELSE right[m]]
  <2>1. \A m : m = above /\ m # NIL => (Smaller(target, m) <=> target < m)
    BY <1>2, SmallerIsLess
  <2> QED
    BY <2>1 DEF Attach
<1>5. left' \in [Cells -> Refs] /\ right' \in [Cells -> Refs] /\ root' \in Refs
  BY <1>1, <1>3, <1>4, CellsAndRefs
<1>6. left'[NIL] = NIL /\ right'[NIL] = NIL
  BY <1>1, <1>3, <1>4, CellsAndRefs
<1>7. \A m \in Keys \ {above} : left'[m] = left[m] /\ right'[m] = right[m]
  BY <1>2, <1>3, <1>4, CellsAndRefs
<1>8. ASSUME above # NIL
      PROVE  \/ /\ target < above /\ left[above] = NIL /\ left'[above] = n
                /\ right'[above] = right[above]
             \/ /\ ~(target < above) /\ right[above] = NIL /\ right'[above] = n
                /\ left'[above] = left[above]
  <2>1. above \in Cells /\ above # n
    BY <1>2, <1>3, <1>8, CellsAndRefs
  <2>2. left'[above] = (IF target < above THEN n ELSE left[above])
    BY <1>4, <1>8, <2>1
  <2>3. right'[above] = (IF ~(target < above) THEN n ELSE right[above])
    BY <1>4, <1>8, <2>1
  <2> QED
    BY <1>2, <1>8, <2>2, <2>3
<1> QED
  BY <1>4, <1>5, <1>6, <1>7, <1>8

(* Even without anything missing.                                          *)
Plain(l, r, c, H) ==
  /\ H \in [Refs -> Nat]
  /\ \A m \in Refs \ Keys : H[m] = 0
  /\ \A n \in Keys : H[l[n]] = H[r[n]] /\ H[n] = H[l[n]] + Shade(c, n)

(* It says the same as Even with nothing that counts twice.                *)
LEMMA PlainlyEven ==
  ASSUME NEW l, NEW r, NEW c, NEW H, LinkType(l, r)
  PROVE  Even(l, r, c, H, NIL, TRUE) <=> Plain(l, r, c, H)
<1>1. \A n \in Keys : Extra(n, NIL, TRUE) = 0 /\ Extra(n, NIL, ~TRUE) = 0 /\ Shade(c, n) \in Nat
  BY KeysAreInts DEF Extra, Shade
<1>2. ASSUME H \in [Refs -> Nat], NEW n \in Keys
      PROVE  /\ H[l[n]] + Extra(n, NIL, TRUE) = H[l[n]] /\ H[r[n]] + Extra(n, NIL, ~TRUE) = H[r[n]]
             /\ H[l[n]] + Extra(n, NIL, TRUE) + Shade(c, n) = H[l[n]] + Shade(c, n)
  <2>1. H[l[n]] \in Nat /\ H[r[n]] \in Nat
    BY <1>2, CellsAndRefs DEF LinkType
  <2>2. Shade(c, n) \in Nat /\ n # NIL
    BY <1>1, KeysAreInts
  <2> QED
    BY <2>1, <2>2 DEF Extra
<1> QED
  BY <1>2 DEF Even, Plain

-----------------------------------------------------------------------------
(* A refused node leaves a null pointer in a link, and no key is lost.     *)
LEMMA AttachNullStep == RbInv /\ AttachNull => RbInv' /\ InTree' = InTree
<1> SUFFICES ASSUME RbInv, AttachNull PROVE RbInv' /\ InTree' = InTree
  OBVIOUS
<1>1. /\ pc = "descend" /\ cur = NIL /\ Attach(NULL)
      /\ refusals' = refusals + 1 /\ pc' = "idle"
      /\ target' = NIL /\ cur' = NIL /\ above' = NIL
      /\ parent' = parent /\ color' = color /\ size' = size
  BY DEF AttachNull, Return
<1>2. /\ left' \in [Cells -> Refs] /\ right' \in [Cells -> Refs] /\ root' \in Refs
      /\ root' = IF above = NIL THEN NULL ELSE root
      /\ left'[NIL] = NIL /\ right'[NIL] = NIL
      /\ \A m \in Keys \ {above} : left'[m] = left[m] /\ right'[m] = right[m]
      /\ above # NIL =>
           \/ left[above] = NIL /\ left'[above] = NULL /\ right'[above] = right[above]
           \/ right[above] = NIL /\ right'[above] = NULL /\ left'[above] = left[above]
  BY <1>1, AttachedLinks
<1>3. /\ above = NIL => root = NIL /\ InTree = {}
      /\ above # NIL => above \in InTree /\ above \in Keys
  BY <1>1, DescentEnds
<1>4. /\ Grown(left, right, Nodes, TRUE) /\ parent \in [Cells -> Cells]
      /\ InTree = Nodes[root] /\ InTree \subseteq Keys
      /\ Nodes[NIL] = {} /\ Nodes[NULL] = {}
  BY TreeFacts, CellsAndRefs DEF RbInv
<1>5. ASSUME NEW m \in Keys
      PROVE  Nodes[left'[m]] = Nodes[left[m]] /\ Nodes[right'[m]] = Nodes[right[m]]
  <2>1. CASE m # above
    BY <1>2, <2>1
  <2>2. CASE m = above
    <3>1. above # NIL
      BY <2>2, CellsAndRefs
    <3> QED
      BY <1>2, <1>4, <2>2, <3>1
  <2> QED
    BY <2>1, <2>2
<1>6. Grown(left', right', Nodes, TRUE)
  <2>1. Unfolds(left', right', Nodes)
    BY <1>4, <1>5 DEF Grown, Unfolds
  <2>2. Sorted(left', right', Nodes, TRUE)
    BY <1>4, <1>5 DEF Grown, Sorted
  <2> QED
    BY <1>2, <2>1, <2>2 DEF Grown, LinkType
<1>7. Nodes[root'] = InTree
  BY <1>2, <1>3, <1>4
<1>8. Nodes' = Nodes /\ InTree' = InTree
  BY <1>2, <1>6, <1>7, TreeNext
<1>9. Parented(left', right', parent', root', Nodes)
  <2>1. /\ \A n \in InTree : \A c \in {left[n], right[n]} \intersect Keys : parent[c] = n
        /\ root \in Keys => parent[root] = NIL
    BY <1>4 DEF RbInv, TreeInv, Shaped, Parented
  <2>2. \A n \in InTree : \A c \in {left'[n], right'[n]} \intersect Keys : c \in {left[n], right[n]}
    BY <1>2, <1>3, <1>4, CellsAndRefs, KeysAreInts
  <2>3. root' \in Keys => parent[root'] = NIL
    BY <1>2, <2>1, KeysAreInts
  <2> QED
    BY <1>1, <1>2, <1>4, <1>7, <2>1, <2>2, <2>3 DEF Parented
<1>10. Even(left', right', color', Heights, NIL, TRUE)
  <2>1. Even(left, right, color, Heights, NIL, TRUE)
    BY DEF RbInv, ColorInv
  <2>2. Heights[NIL] = 0 /\ Heights[NULL] = 0
    BY <2>1, CellsAndRefs DEF Even
  <2>3. \A m \in Keys : Heights[left'[m]] = Heights[left[m]] /\ Heights[right'[m]] = Heights[right[m]]
    BY <1>2, <1>3, <2>2, CellsAndRefs
  <2> QED
    BY <1>1, <2>1, <2>3 DEF Even
<1>11. Heights' = Heights
  BY <1>6, <1>10, HeightsNext
<1>12. ScalarType'
  BY <1>1, CellsAndRefs DEF RbInv, TreeInv, ScalarType
<1>13. LooseNodes'
  BY <1>1, <1>2, <1>3, <1>8, CellsAndRefs DEF RbInv, TreeInv, LooseNodes
<1>14. TreeInv'
  <2>1. Shaped(left, right, parent, root, Nodes, TRUE)'
    BY <1>6, <1>8, <1>9 DEF Shaped
  <2> QED
    BY <1>1, <1>8, <1>12, <1>13, <2>1 DEF RbInv, TreeInv
<1>15. ColorInv'
  <2>1. \A n \in InTree' : ~(color'[n] = "red" /\ color'[parent'[n]] = "red")
    BY <1>1, <1>8 DEF RbInv, ColorInv
  <2>2. ~(root' \in Keys /\ color'[root'] = "red")
    BY <1>1, <1>2, KeysAreInts DEF RbInv, ColorInv
  <2> QED
    BY <1>1, <1>10, <1>11, <2>1, <2>2 DEF ColorInv
<1> QED
  BY <1>8, <1>14, <1>15 DEF RbInv

-----------------------------------------------------------------------------
(* A new leaf, red, keeps the order of the keys and the heights.           *)
LEMMA AttachNodeStep ==
  RbInv /\ AttachNode => RbInv' /\ InTree' = InTree \union {target}
<1> SUFFICES ASSUME RbInv, AttachNode PROVE RbInv' /\ InTree' = InTree \union {target}
  OBVIOUS
<1> DEFINE G == [m \in Refs |-> IF m = target THEN {target}
                                ELSE IF above \in Nodes[m] THEN Nodes[m] \union {target}
                                ELSE Nodes[m]]
           K == [m \in Refs |-> IF m = target THEN 0 ELSE Heights[m]]
<1>1. /\ pc = "descend" /\ cur = NIL /\ Attach(target)
      /\ refusals' = refusals /\ pc' = "balance"
      /\ target' = target /\ cur' = target /\ above' = above
      /\ parent' = [parent EXCEPT ![target] = above]
      /\ color' = [color EXCEPT ![target] = "red"] /\ size' = size + 1
  BY DEF AttachNode
<1>2. /\ left' \in [Cells -> Refs] /\ right' \in [Cells -> Refs] /\ root' \in Refs
      /\ root' = IF above = NIL THEN target ELSE root
      /\ left'[NIL] = NIL /\ right'[NIL] = NIL
      /\ \A m \in Keys \ {above} : left'[m] = left[m] /\ right'[m] = right[m]
      /\ above # NIL =>
           \/ /\ target < above /\ left[above] = NIL /\ left'[above] = target
              /\ right'[above] = right[above]
           \/ /\ ~(target < above) /\ right[above] = NIL /\ right'[above] = target
              /\ left'[above] = left[above]
  <2>1. target \in {target, NULL}
    OBVIOUS
  <2> QED
    BY <1>1, <2>1, AttachedLinks
<1>3. /\ target \in Keys /\ target \notin InTree
      /\ left[target] = NIL /\ right[target] = NIL
      /\ \A m \in Keys : left[m] # target /\ right[m] # target
      /\ root # target /\ above # target
      /\ above = NIL => root = NIL /\ InTree = {}
      /\ above # NIL => /\ above \in InTree /\ above \in Keys
                        /\ ~(target < above) => target > above
  BY <1>1, DescentEnds
<1>4. /\ Grown(left, right, Nodes, TRUE) /\ parent \in [Cells -> Cells]
      /\ InTree = Nodes[root] /\ InTree \subseteq Keys
      /\ root \in Refs
      /\ Nodes[NIL] = {} /\ Nodes[NULL] = {}
      /\ Nodes \in [Refs -> SUBSET Keys]
      /\ \A n \in Refs \ Keys : Nodes[n] = {}
  BY TreeFacts, CellsAndRefs DEF RbInv, Grown, Unfolds
<1>5. \A n \in Keys : /\ left[n] \in Refs /\ right[n] \in Refs
                      /\ n \in Nodes[n]
                      /\ Nodes[n] = {n} \union Nodes[left[n]] \union Nodes[right[n]]
                      /\ n \notin Nodes[left[n]] /\ n \notin Nodes[right[n]]
                      /\ Nodes[left[n]] \intersect Nodes[right[n]] = {}
  <2> SUFFICES ASSUME NEW n \in Keys
               PROVE  /\ left[n] \in Refs /\ right[n] \in Refs
                      /\ n \in Nodes[n]
                      /\ Nodes[n] = {n} \union Nodes[left[n]] \union Nodes[right[n]]
                      /\ n \notin Nodes[left[n]] /\ n \notin Nodes[right[n]]
                      /\ Nodes[left[n]] \intersect Nodes[right[n]] = {}
    OBVIOUS
  <2>1. /\ left[n] \in Refs /\ right[n] \in Refs
        /\ Nodes[left[n]] \in SUBSET Keys /\ Nodes[right[n]] \in SUBSET Keys
        /\ Nodes[n] = {n} \union Nodes[left[n]] \union Nodes[right[n]]
        /\ n \notin Nodes[left[n]] /\ n \notin Nodes[right[n]]
        /\ Nodes[left[n]] \intersect Nodes[right[n]] = {}
    <3>1. Grown(left, right, Nodes, TRUE)
      BY <1>4
    <3> QED
      BY <3>1, ChildrenAreBelow
  <2> QED
    BY <2>1
<1>6. /\ G \in [Refs -> SUBSET Keys]
      /\ G[target] = {target}
      /\ \A m \in Refs \ {target} : G[m] = IF above \in Nodes[m] THEN Nodes[m] \union {target}
                                           ELSE Nodes[m]
  BY <1>3, <1>4, CellsAndRefs
<1>7. above = NIL => \A m \in Refs : above \notin Nodes[m]
  BY <1>4, CellsAndRefs
<1> HIDE DEF G
<1>8. G[NIL] = {} /\ G[NULL] = {} /\ \A m \in Refs \ Keys : G[m] = {}
  BY <1>3, <1>4, <1>6, CellsAndRefs
<1>9. left'[target] = NIL /\ right'[target] = NIL
  BY <1>2, <1>3
<1>10. ASSUME NEW m \in Keys \ {target}, m # above
       PROVE  /\ left'[m] = left[m] /\ right'[m] = right[m]
              /\ G[left[m]] = IF above \in Nodes[left[m]] THEN Nodes[left[m]] \union {target}
                              ELSE Nodes[left[m]]
              /\ G[right[m]] = IF above \in Nodes[right[m]] THEN Nodes[right[m]] \union {target}
                               ELSE Nodes[right[m]]
              /\ G[m] = IF above \in Nodes[m] THEN Nodes[m] \union {target} ELSE Nodes[m]
  BY <1>2, <1>3, <1>5, <1>6, <1>10, CellsAndRefs
<1>11. ASSUME above # NIL
       PROVE  /\ G[above] = Nodes[above] \union {target}
              /\ \/ /\ target < above /\ Nodes[left[above]] = {} /\ G[left'[above]] = {target}
                    /\ G[right'[above]] = Nodes[right[above]]
                 \/ /\ target > above /\ Nodes[right[above]] = {} /\ G[right'[above]] = {target}
                    /\ G[left'[above]] = Nodes[left[above]]
  <2>1. above \in Keys /\ above \in Nodes[above] /\ above \in Refs /\ above # target
    BY <1>3, <1>5, <1>11, CellsAndRefs
  <2>2. G[left[above]] = Nodes[left[above]] /\ G[right[above]] = Nodes[right[above]]
    BY <1>3, <1>5, <1>6, <2>1
  <2>3. ~(target < above) => target > above
    BY <1>3, <1>11
  <2> QED
    BY <1>2, <1>4, <1>6, <1>11, <2>1, <2>2, <2>3
<1>12. Unfolds(left', right', G)
  <2>1. G[target] = {target} \union G[left'[target]] \union G[right'[target]]
    BY <1>6, <1>8, <1>9
  <2>2. ASSUME NEW m \in Keys, m # target
        PROVE  G[m] = {m} \union G[left'[m]] \union G[right'[m]]
    <3>1. CASE m = above
      <4>1. above # NIL
        BY <3>1, CellsAndRefs
      <4> QED
        BY <1>5, <1>11, <3>1, <4>1
    <3>2. CASE m # above
      <4>1. Nodes[m] = {m} \union Nodes[left[m]] \union Nodes[right[m]]
        BY <1>5
      <4>2. /\ G[left'[m]] = IF above \in Nodes[left[m]] THEN Nodes[left[m]] \union {target}
                             ELSE Nodes[left[m]]
            /\ G[right'[m]] = IF above \in Nodes[right[m]] THEN Nodes[right[m]] \union {target}
                              ELSE Nodes[right[m]]
            /\ G[m] = IF above \in Nodes[m] THEN Nodes[m] \union {target} ELSE Nodes[m]
        BY <1>10, <2>2, <3>2
      <4>3. above \in Nodes[m] <=> above \in Nodes[left[m]] \/ above \in Nodes[right[m]]
        BY <3>2, <4>1
      <4>4. CASE above \in Nodes[left[m]]
        BY <4>1, <4>2, <4>3, <4>4
      <4>5. CASE above \notin Nodes[left[m]]
        BY <4>1, <4>2, <4>3, <4>5
      <4> QED
        BY <4>4, <4>5
    <3> QED
      BY <3>1, <3>2
  <2> QED
    BY <1>6, <1>8, <2>1, <2>2 DEF Unfolds
<1>13. Sorted(left', right', G, TRUE)
  <2>1. \A n \in Keys : /\ \A m \in Nodes[left[n]] : m < n
                        /\ \A m \in Nodes[right[n]] : n < m
    BY <1>4 DEF Grown, Sorted, Before
  <2>2. target \in Int /\ \A n \in Keys : n \in Int
    BY <1>3, KeysAreInts
  <2>3. ASSUME NEW n \in Keys
        PROVE  /\ \A m \in G[left'[n]] : m < n
               /\ \A m \in G[right'[n]] : n < m
    <3>1. CASE n = target
      BY <1>8, <1>9, <3>1
    <3>2. CASE n = above
      <4>1. above # NIL
        BY <3>2, CellsAndRefs
      <4>2. target > above => above < target
        BY <2>2, <3>2
      <4> QED
        BY <1>11, <2>1, <3>2, <4>1, <4>2
    <3>3. CASE n # target /\ n # above
      <4>1. CASE n \in InTree
        <5>1. /\ above \in Nodes[left[n]] => target < n
              /\ above \in Nodes[right[n]] => n < target
          <6>1. OnTheWay /\ \A i \in Refs : Below(i) = Nodes[i]
            BY <1>1, TreeFacts DEF RbInv, TreeInv
          <6>2. /\ above \in Nodes[left[n]] => target < n
                /\ above \in Nodes[right[n]] => target > n
            BY <1>5, <1>7, <4>1, <6>1 DEF OnTheWay
          <6> QED
            BY <2>2, <6>2
        <5>2. /\ G[left'[n]] = IF above \in Nodes[left[n]] THEN Nodes[left[n]] \union {target}
                               ELSE Nodes[left[n]]
              /\ G[right'[n]] = IF above \in Nodes[right[n]] THEN Nodes[right[n]] \union {target}
                                ELSE Nodes[right[n]]
          BY <1>10, <3>3
        <5>3. \A m \in G[left'[n]] : m \in Nodes[left[n]] \/ (m = target /\ target < n)
          BY <5>1, <5>2
        <5>4. \A m \in G[right'[n]] : m \in Nodes[right[n]] \/ (m = target /\ n < target)
          BY <5>1, <5>2
        <5> QED
          BY <2>1, <5>3, <5>4
      <4>2. CASE n \notin InTree
        <5>1. left[n] = NIL /\ right[n] = NIL
          BY <4>2 DEF RbInv, TreeInv, LooseNodes
        <5> QED
          BY <1>8, <1>10, <3>3, <5>1
      <4> QED
        BY <4>1, <4>2
    <3> QED
      BY <3>1, <3>2, <3>3
  <2> QED
    BY <2>3 DEF Sorted, Before
<1>14. Grown(left', right', G, TRUE)
  BY <1>2, <1>12, <1>13 DEF Grown, LinkType
<1>15. G[root'] = InTree \union {target}
  <2>1. CASE above = NIL
    BY <1>2, <1>3, <1>6, <2>1
  <2>2. CASE above # NIL
    BY <1>2, <1>3, <1>4, <1>6, <2>2
  <2> QED
    BY <2>1, <2>2
<1>16. Nodes' = G /\ InTree' = InTree \union {target}
  BY <1>2, <1>14, <1>15, TreeNext
<1>17. Parented(left', right', parent', root', G)
  <2>1. /\ \A n \in InTree : \A c \in {left[n], right[n]} \intersect Keys : parent[c] = n
        /\ root \in Keys => parent[root] = NIL
    BY <1>4 DEF RbInv, TreeInv, Shaped, Parented
  <2>2. above \in Cells
    BY DEF RbInv, TreeInv, ScalarType
  <2>3. /\ parent' \in [Cells -> Cells] /\ parent'[target] = above
        /\ \A c \in Keys \ {target} : parent'[c] = parent[c]
    BY <1>1, <1>3, <1>4, <2>2, CellsAndRefs
  <2>4. ASSUME NEW n \in InTree \union {target}, NEW c \in {left'[n], right'[n]} \intersect Keys
        PROVE  parent'[c] = n
    <3>1. CASE n = target
      BY <1>9, <3>1, CellsAndRefs
    <3>2. CASE n # target /\ n = above
      <4>1. above # NIL /\ c \in {left[above], right[above], target}
        BY <1>2, <1>4, <3>2, CellsAndRefs
      <4> QED
        BY <2>1, <2>3, <3>2, <4>1
    <3>3. CASE n # target /\ n # above
      <4>1. c \in {left[n], right[n]} /\ n \in InTree /\ n \in Keys
        BY <1>2, <1>4, <3>3
      <4>2. parent[c] = n /\ c # target
        BY <1>3, <2>1, <4>1
      <4> QED
        BY <2>3, <4>2
    <3> QED
      BY <3>1, <3>2, <3>3
  <2>5. root' \in Keys => parent'[root'] = NIL
    BY <1>2, <1>3, <2>1, <2>3
  <2> QED
    BY <1>2, <1>15, <2>3, <2>4, <2>5 DEF Parented
<1>18. Even(left', right', color', K, NIL, TRUE)
  <2>1. Even(left, right, color, Heights, NIL, TRUE)
    BY DEF RbInv, ColorInv
  <2>2. /\ Heights \in [Refs -> Nat] /\ Heights[NIL] = 0 /\ Heights[NULL] = 0
        /\ \A m \in Refs \ Keys : Heights[m] = 0
    BY <2>1, CellsAndRefs DEF Even
  <2>3. /\ K \in [Refs -> Nat] /\ K[target] = 0
        /\ \A m \in Refs \ {target} : K[m] = Heights[m]
        /\ \A m \in Refs \ Keys : K[m] = 0
    BY <1>3, <2>2, CellsAndRefs
  <2> HIDE DEF K
  <2>4. color \in [Cells -> {"red", "black"}]
    BY DEF RbInv, TreeInv, ScalarType
  <2>5. Shade(color', target) = 0 /\ \A m \in Keys \ {target} : Shade(color', m) = Shade(color, m)
    BY <1>1, <1>3, <2>4, CellsAndRefs DEF Shade
  <2>6. \A m \in Keys \ {target} : K[left'[m]] = Heights[left[m]] /\ K[right'[m]] = Heights[right[m]]
    <3> SUFFICES ASSUME NEW m \in Keys, m # target
                 PROVE  K[left'[m]] = Heights[left[m]] /\ K[right'[m]] = Heights[right[m]]
      OBVIOUS
    <3>1. K[left[m]] = Heights[left[m]] /\ K[right[m]] = Heights[right[m]]
      BY <1>3, <1>5, <2>3
    <3>2. CASE m # above
      BY <1>2, <3>1, <3>2
    <3>3. CASE m = above
      <4>1. above # NIL
        BY <3>3, CellsAndRefs
      <4> QED
        BY <1>2, <2>2, <2>3, <3>1, <3>3, <4>1
    <3> QED
      BY <3>2, <3>3
  <2>7. LinkType(left', right')
    BY <1>2 DEF LinkType
  <2>8. ASSUME NEW n \in Keys
        PROVE  K[left'[n]] = K[right'[n]] /\ K[n] = K[left'[n]] + Shade(color', n)
    <3>1. CASE n = target
      <4>1. K[left'[n]] = 0 /\ K[right'[n]] = 0
        BY <1>3, <1>9, <2>2, <2>3, <3>1, CellsAndRefs
      <4>2. K[n] = 0 /\ Shade(color', n) = 0
        BY <2>3, <2>5, <3>1
      <4> QED
        BY <4>1, <4>2
    <3>2. CASE n # target
      <4>1. Heights[left[n]] = Heights[right[n]] /\ Heights[n] = Heights[left[n]] + Shade(color, n)
        <5>1. LinkType(left, right)
          BY <1>4 DEF Grown
        <5>2. Plain(left, right, color, Heights)
          BY <2>1, <5>1, PlainlyEven
        <5> QED
          BY <5>2 DEF Plain
      <4> QED
        BY <2>3, <2>5, <2>6, <3>2, <4>1, CellsAndRefs
    <3> QED
      BY <3>1, <3>2
  <2>9. Plain(left', right', color', K)
    BY <2>3, <2>8 DEF Plain
  <2> QED
    BY <2>7, <2>9, PlainlyEven
<1>19. Heights' = K
  BY <1>14, <1>18, HeightsNext
<1>20. ScalarType'
  <2>1. color' \in [Cells -> {"red", "black"}] /\ color'[NIL] = "black"
    BY <1>1, <1>3, CellsAndRefs DEF RbInv, TreeInv, ScalarType
  <2> QED
    BY <1>1, <1>3, <2>1, CellsAndRefs DEF RbInv, TreeInv, ScalarType
<1>21. LooseNodes'
  <2>1. \A n \in Keys \ InTree : left[n] = NIL /\ right[n] = NIL /\ parent[n] = NIL
    BY DEF RbInv, TreeInv, LooseNodes
  <2>4. ASSUME NEW n \in Keys, n \notin InTree, n # target
        PROVE  left'[n] = NIL /\ right'[n] = NIL /\ parent'[n] = NIL
    <3>1. n # above
      BY <1>3, <2>4, CellsAndRefs
    <3> QED
      BY <1>1, <1>2, <1>4, <2>1, <2>4, <3>1, CellsAndRefs
  <2> QED
    BY <1>16, <2>4 DEF LooseNodes
<1>22. TreeInv'
  <2>1. Shaped(left, right, parent, root, Nodes, TRUE)'
    BY <1>14, <1>16, <1>17 DEF Shaped
  <2>2. size' = Cardinality(InTree')
    <3>1. IsFiniteSet(InTree)
      BY <1>4, KeysAssumption, FS_Subset
    <3>2. Cardinality(InTree \union {target}) = Cardinality(InTree) + 1
      BY <1>3, <3>1, FS_AddElement
    <3> QED
      BY <1>1, <1>16, <3>2 DEF RbInv, TreeInv
  <2> QED
    BY <1>1, <1>16, <1>20, <1>21, <2>1, <2>2 DEF TreeInv
<1>23. ColorInv'
  <2>1. color \in [Cells -> {"red", "black"}]
    BY DEF RbInv, TreeInv, ScalarType
  <2>2. /\ \A n \in Cells \ {target} : color'[n] = color[n] /\ parent'[n] = parent[n]
        /\ color'[target] = "red"
    BY <1>1, <1>3, <1>4, <2>1, CellsAndRefs
  <2>3. ASSUME NEW n \in InTree'
        PROVE  color'[n] = "red" /\ color'[parent'[n]] = "red" => n = target
    <3> SUFFICES ASSUME n # target PROVE ~(color'[n] = "red" /\ color'[parent'[n]] = "red")
      OBVIOUS
    <3>1. n \in InTree /\ n \in Cells
      BY <1>4, <1>16, CellsAndRefs
    <3>2. parent[n] = NIL \/ parent[n] \in InTree
      BY <1>4, <3>1, ParentInTree DEF RbInv, TreeInv
    <3>3. parent[n] \in Cells /\ parent[n] # target
      BY <1>3, <1>4, <3>1, <3>2, CellsAndRefs
    <3> QED
      BY <1>1, <2>2, <3>1, <3>3 DEF RbInv, ColorInv
  <2>4. root' \in Keys /\ color'[root'] = "red" => root' = target
    <3>1. ~(root \in Keys /\ color[root] = "red")
      BY <1>1 DEF RbInv, ColorInv
    <3> QED
      BY <1>2, <1>3, <2>2, <3>1, CellsAndRefs
  <2>5. Even(left, right, color, Heights, NIL, TRUE)'
    BY <1>18, <1>19 DEF Even, Extra, Shade
  <2> QED
    BY <1>1, <2>2, <2>3, <2>4, <2>5 DEF ColorInv
<1> QED
  BY <1>16, <1>22, <1>23 DEF RbInv

-----------------------------------------------------------------------------
(* Every node of a tree but the top one is a child of its parent.          *)
Hooked(l, r, q, top, F) ==
  \A n \in F[top] : /\ n \in Keys
                    /\ n = top <=> q[n] = NIL
                    /\ n # top => q[n] \in F[top] /\ (l[q[n]] = n \/ r[q[n]] = n)

(* In a tree all nodes hang so.                                            *)
LEMMA NodesAreHooked ==
  ASSUME NEW l, NEW r, NEW q, NEW top, NEW F, NEW up, Shaped(l, r, q, top, F, up)
  PROVE  Hooked(l, r, q, top, F)
<1> SUFFICES ASSUME NEW n \in F[top]
             PROVE  /\ n \in Keys
                    /\ n = top <=> q[n] = NIL
                    /\ n # top => q[n] \in F[top] /\ (l[q[n]] = n \/ r[q[n]] = n)
  BY DEF Hooked
<1> QED
  BY ParentInTree

(* What hangs on what.                                                     *)
LEMMA LinkFacts ==
  ASSUME TreeInv
  PROVE  /\ \A n \in InTree : \A c \in {left[n], right[n]} \intersect Keys : c \in InTree /\ parent[c] = n
         /\ \A n \in Keys \ InTree : left[n] = NIL /\ right[n] = NIL /\ parent[n] = NIL
         /\ \A n \in InTree : /\ n \in Keys
                              /\ n = root <=> parent[n] = NIL
                              /\ n # root => /\ parent[n] \in InTree
                                             /\ left[parent[n]] = n \/ right[parent[n]] = n
         /\ root \in Keys <=> InTree # {}
         /\ root \in Keys => root \in InTree
<1>1. /\ InTree = Nodes[root] /\ InTree \subseteq Keys /\ root \in Refs
      /\ \A n \in Refs \ Keys : Nodes[n] = {}
  BY TreeFacts
<1>2. \A n \in Keys : /\ left[n] \in Refs /\ right[n] \in Refs
                      /\ n \in Nodes[n]
                      /\ Nodes[n] = {n} \union Nodes[left[n]] \union Nodes[right[n]]
  BY NodeFacts
<1>3. \A a \in Refs : \A n \in Nodes[a] : Nodes[n] \subseteq Nodes[a]
  BY NodeFacts
<1>4. Shaped(left, right, parent, root, Nodes, TRUE)
  BY DEF TreeInv
<1>5. ASSUME NEW n \in InTree, NEW c \in {left[n], right[n]} \intersect Keys
      PROVE  c \in InTree /\ parent[c] = n
  <2>1. c \in Nodes[c] /\ Nodes[c] \subseteq Nodes[n] /\ Nodes[n] \subseteq InTree
    BY <1>1, <1>2, <1>3
  <2> QED
    BY <1>1, <1>4, <2>1 DEF Shaped, Parented
<1>6. ASSUME NEW n \in InTree
      PROVE  /\ n \in Keys
             /\ n = root <=> parent[n] = NIL
             /\ n # root => /\ parent[n] \in InTree
                            /\ left[parent[n]] = n \/ right[parent[n]] = n
  <2>1. Hooked(left, right, parent, root, Nodes)
    BY <1>4, NodesAreHooked
  <2> QED
    BY <1>1, <2>1 DEF Hooked
<1>7. root \in Keys => root \in InTree
  BY <1>1, <1>2
<1>8. root \in Keys <=> InTree # {}
  BY <1>1, <1>7
<1> QED
  BY <1>5, <1>6, <1>7, <1>8 DEF TreeInv, LooseNodes

(* The nodes around a red one whose parent is red.                         *)
LEMMA RedUnderRed ==
  ASSUME RbInv, pc = "balance", color[parent[cur]] = "red"
  PROVE  LET p == parent[cur]
             g == parent[p]
         IN /\ cur \in InTree /\ p \in InTree /\ g \in InTree
            /\ cur \in Keys /\ p \in Keys /\ g \in Keys
            /\ cur \in {left[p], right[p]} /\ p \in {left[g], right[g]}
            /\ cur # root /\ p # root /\ cur # p /\ p # g /\ cur # g
            /\ left[p] # right[p] /\ left[g] # right[g]
            /\ color[g] = "black" /\ color[cur] = "red"
<1> DEFINE p == parent[cur]
           g == parent[p]
<1>1. TreeInv /\ cur \in InTree /\ color[NIL] = "black" /\ color \in [Cells -> {"red", "black"}]
  BY DEF RbInv, TreeInv, ScalarType
<1>2. /\ \A n \in InTree : \A c \in {left[n], right[n]} \intersect Keys : c \in InTree /\ parent[c] = n
      /\ \A n \in InTree : /\ n \in Keys
                           /\ n = root <=> parent[n] = NIL
                           /\ n # root => /\ parent[n] \in InTree
                                          /\ left[parent[n]] = n \/ right[parent[n]] = n
  BY <1>1, LinkFacts
<1>3. p # NIL
  BY <1>1
<1>4. cur \in Keys /\ cur # root /\ p \in InTree /\ p \in Keys /\ cur \in {left[p], right[p]}
  BY <1>1, <1>2, <1>3
<1>5. \A n \in Keys : n \notin {left[n], right[n]} /\ (left[n] = right[n] => left[n] \notin Keys)
  <2> SUFFICES ASSUME NEW n \in Keys
               PROVE  n \notin {left[n], right[n]} /\ (left[n] = right[n] => left[n] \notin Keys)
    OBVIOUS
  <2>1. /\ n \notin Below(left[n]) /\ n \notin Below(right[n])
        /\ Below(left[n]) = Nodes[left[n]] /\ Below(right[n]) = Nodes[right[n]]
        /\ Below(left[n]) \intersect Below(right[n]) = {}
        /\ \A m \in Keys : m \in Nodes[m]
    BY <1>1, NodeFacts
  <2> QED
    BY <2>1
<1>6. cur # p
  BY <1>4, <1>5
<1>7. p # root
  BY <1>4, <1>6 DEF RbInv, ColorInv
<1>8. g \in InTree /\ g \in Keys /\ p \in {left[g], right[g]}
  BY <1>2, <1>4, <1>7
<1>9. p # g
  BY <1>5, <1>8
<1>10. color[g] = "black"
  <2>1. color[g] # "red"
    BY <1>4, <1>6 DEF RbInv, ColorInv
  <2> QED
    BY <1>1, <1>8, <2>1, CellsAndRefs
<1>11. color[cur] = "red"
  BY DEF RbInv, ColorInv
<1>12. left[p] # right[p] /\ left[g] # right[g]
  BY <1>4, <1>5, <1>8
<1> QED
  BY <1>1, <1>4, <1>6, <1>7, <1>8, <1>9, <1>10, <1>11, <1>12

(* A step that changes colors only.                                        *)
LEMMA ColorsOnly ==
  ASSUME RbInv, UNCHANGED <<links, size, refusals>>,
         color' \in [Cells -> {"red", "black"}], color'[NIL] = "black",
         pc' \in {"idle", "balance"},
         target' \in Cells, cur' \in Refs, above' \in Cells,
         pc' = "balance" => target' \in InTree /\ cur' \in InTree /\ color'[cur'] = "red",
         NEW K, Plain(left, right, color', K),
         \A n \in InTree : color'[n] = "red" /\ color'[parent[n]] = "red"
                           => n = cur' /\ pc' = "balance",
         root \in Keys /\ color'[root] = "red" => root = cur' /\ pc' = "balance"
  PROVE  RbInv' /\ InTree' = InTree
<1>1. /\ UNCHANGED links /\ left' = left /\ right' = right /\ parent' = parent /\ root' = root
      /\ size' = size /\ refusals' = refusals
  BY DEF links
<1>2. /\ InTree' = InTree /\ Nodes' = Nodes
      /\ Shaped(left, right, parent, root, Nodes, TRUE)' /\ LooseNodes'
  BY <1>1, SameLinks DEF RbInv
<1>3. ScalarType'
  BY <1>1 DEF RbInv, TreeInv, ScalarType
<1>4. TreeInv'
  BY <1>1, <1>2, <1>3 DEF RbInv, TreeInv
<1>5. Grown(left', right', Nodes, TRUE)
  BY <1>1, TreeFacts DEF RbInv
<1>6. Even(left', right', color', K, NIL, TRUE)
  <2>1. LinkType(left', right') /\ Plain(left', right', color', K)
    BY <1>1, <1>5 DEF Grown
  <2> QED
    BY <2>1, PlainlyEven
<1>7. Heights' = K
  BY <1>5, <1>6, HeightsNext
<1>8. Even(left, right, color, Heights, NIL, TRUE)'
  BY <1>6, <1>7 DEF Even, Extra, Shade
<1>9. ColorInv'
  BY <1>1, <1>2, <1>8 DEF ColorInv
<1> QED
  BY <1>2, <1>4, <1>9 DEF RbInv

(* The heights of a state that satisfies the invariant.                    *)
LEMMA HeightsArePlain == RbInv => Plain(left, right, color, Heights)
<1> SUFFICES ASSUME RbInv PROVE Plain(left, right, color, Heights)
  OBVIOUS
<1>1. LinkType(left, right) /\ Even(left, right, color, Heights, NIL, TRUE)
  BY TreeFacts DEF RbInv, ColorInv, Grown
<1> QED
  BY <1>1, PlainlyEven

-----------------------------------------------------------------------------
(* Recoloring moves the red node two levels up and keeps the heights.      *)
LEMMA RecolorStep == RbInv /\ Recolor => RbInv' /\ InTree' = InTree
<1> SUFFICES ASSUME RbInv, Recolor PROVE RbInv' /\ InTree' = InTree
  OBVIOUS
<1> DEFINE p == parent[cur]
           g == parent[p]
           u == Uncle
           K == [m \in Refs |-> IF m \in {p, u} THEN Heights[m] + 1 ELSE Heights[m]]
<1>1. /\ pc = "balance" /\ color[p] = "red" /\ u # NULL /\ color[u] = "red"
      /\ color' = [color EXCEPT ![u] = "black", ![p] = "black", ![g] = "red"]
      /\ cur' = g /\ UNCHANGED <<links, size, refusals>>
      /\ pc' = pc /\ target' = target /\ above' = above
  BY DEF Recolor
<1>2. /\ cur \in InTree /\ p \in InTree /\ g \in InTree
      /\ cur \in Keys /\ p \in Keys /\ g \in Keys
      /\ cur \in {left[p], right[p]} /\ p \in {left[g], right[g]}
      /\ cur # root /\ p # root /\ cur # p /\ p # g /\ cur # g
      /\ left[p] # right[p] /\ left[g] # right[g]
      /\ color[g] = "black"
  BY <1>1, RedUnderRed
<1>3. /\ \A n \in InTree : \A c \in {left[n], right[n]} \intersect Keys : c \in InTree /\ parent[c] = n
      /\ \A n \in Keys \ InTree : left[n] = NIL /\ right[n] = NIL
      /\ \A n \in InTree : /\ n \in Keys
                           /\ n = root <=> parent[n] = NIL
                           /\ n # root => /\ parent[n] \in InTree
                                          /\ left[parent[n]] = n \/ right[parent[n]] = n
  BY LinkFacts DEF RbInv
<1>4. /\ color \in [Cells -> {"red", "black"}] /\ color[NIL] = "black"
      /\ target \in InTree /\ target \in Cells /\ above \in Cells
  BY <1>1 DEF RbInv, TreeInv, ScalarType
<1>5. left \in [Cells -> Refs] /\ right \in [Cells -> Refs]
  BY TreeFacts DEF RbInv
<1>6. (u = left[g] /\ p = right[g]) \/ (u = right[g] /\ p = left[g])
  BY <1>2 DEF Uncle, OnLeft
<1>7. u \in Keys
  <2>1. u \in Refs
    BY <1>2, <1>5, <1>6, CellsAndRefs
  <2> QED
    BY <1>1, <1>4, <2>1, CellsAndRefs
<1>8. u \in InTree /\ parent[u] = g /\ u # p /\ u # g /\ u # cur
  <2>1. u \in InTree /\ parent[u] = g /\ u # p
    BY <1>2, <1>3, <1>6, <1>7
  <2>2. u # g
    BY <1>2, <1>7, <2>1, NodeFacts, <1>6 DEF RbInv
  <2> QED
    BY <1>2, <2>1, <2>2
<1> HIDE DEF p, g, u
<1>9. /\ color'[u] = "black" /\ color'[p] = "black" /\ color'[g] = "red"
      /\ \A n \in Cells \ {u, p, g} : color'[n] = color[n]
      /\ color' \in [Cells -> {"red", "black"}] /\ color'[NIL] = "black"
  BY <1>1, <1>2, <1>4, <1>7, <1>8, CellsAndRefs
<1>10. Plain(left, right, color', K)
  <2>1. Plain(left, right, color, Heights)
    BY HeightsArePlain
  <2>2. /\ K \in [Refs -> Nat] /\ K[p] = Heights[p] + 1 /\ K[u] = Heights[u] + 1
        /\ \A m \in Refs \ {p, u} : K[m] = Heights[m]
    BY <1>2, <1>7, <2>1, CellsAndRefs DEF Plain
  <2> HIDE DEF K
  <2>3. ASSUME NEW n \in Keys, n # g
        PROVE  left[n] \notin {p, u} /\ right[n] \notin {p, u}
    <3>1. CASE n \in InTree
      BY <1>2, <1>3, <1>7, <1>8, <2>3, <3>1 DEF g
    <3>2. CASE n \notin InTree
      BY <1>2, <1>3, <1>7, <3>2, CellsAndRefs
    <3> QED
      BY <3>1, <3>2
  <2>4. ASSUME NEW n \in Keys
        PROVE  K[left[n]] = K[right[n]] /\ K[n] = K[left[n]] + Shade(color', n)
    <3>1. /\ Heights[left[n]] = Heights[right[n]] /\ Heights[n] = Heights[left[n]] + Shade(color, n)
          /\ left[n] \in Refs /\ right[n] \in Refs
          /\ Heights[left[n]] \in Nat
      BY <1>5, <2>1, CellsAndRefs DEF Plain
    <3>2. CASE n = g
      <4>1. Shade(color, n) = 1 /\ Shade(color', n) = 0
        BY <1>2, <1>9, <3>2 DEF Shade
      <4>2. K[left[n]] = Heights[left[n]] + 1 /\ K[right[n]] = Heights[right[n]] + 1
        BY <1>6, <2>2, <3>2
      <4>3. K[n] = Heights[n]
        BY <1>2, <1>8, <2>2, <3>2, CellsAndRefs
      <4> QED
        BY <3>1, <4>1, <4>2, <4>3
    <3>3. CASE n \in {p, u}
      <4>1. Shade(color, n) = 0 /\ Shade(color', n) = 1
        BY <1>1, <1>9, <3>3 DEF Shade, p, u
      <4>2. K[left[n]] = Heights[left[n]] /\ K[right[n]] = Heights[right[n]]
        BY <1>2, <1>8, <2>2, <2>3, <3>1, <3>3
      <4>3. K[n] = Heights[n] + 1
        BY <2>2, <3>3
      <4> QED
        BY <3>1, <4>1, <4>2, <4>3
    <3>4. CASE n \notin {p, u, g}
      <4>1. Shade(color', n) = Shade(color, n)
        BY <1>9, <3>4, CellsAndRefs DEF Shade
      <4>2. K[left[n]] = Heights[left[n]] /\ K[right[n]] = Heights[right[n]] /\ K[n] = Heights[n]
        BY <2>2, <2>3, <3>1, <3>4, CellsAndRefs
      <4> QED
        BY <3>1, <4>1, <4>2
    <3> QED
      BY <3>2, <3>3, <3>4
  <2>5. \A m \in Refs \ Keys : K[m] = 0
    BY <1>2, <1>7, <2>1, <2>2 DEF Plain
  <2> QED
    BY <2>2, <2>4, <2>5 DEF Plain
<1>11. ASSUME NEW n \in InTree, color'[n] = "red", color'[parent[n]] = "red"
       PROVE  n = g
  <2> SUFFICES ASSUME n # g PROVE FALSE
    OBVIOUS
  <2>1. n \in Keys /\ n \notin {p, u} /\ color[n] = "red"
    BY <1>3, <1>9, <1>11, CellsAndRefs
  <2>2. n # root
    BY <1>3, <1>9, <1>11
  <2>3. parent[n] \in InTree /\ (left[parent[n]] = n \/ right[parent[n]] = n)
    BY <1>3, <2>2
  <2>4. parent[n] # g
    BY <1>6, <2>1, <2>3
  <2>5. parent[n] \in Cells /\ parent[n] \notin {p, u, g} /\ color[parent[n]] = "red"
    BY <1>3, <1>9, <1>11, <2>3, <2>4, CellsAndRefs
  <2>6. n = cur
    BY <2>1, <2>5 DEF RbInv, ColorInv
  <2> QED
    BY <2>5, <2>6 DEF p
<1>12. root \in Keys /\ color'[root] = "red" => root = g
  <2> SUFFICES ASSUME root \in Keys, color'[root] = "red", root # g PROVE FALSE
    OBVIOUS
  <2>1. color[root] = "red"
    BY <1>9, CellsAndRefs
  <2> QED
    BY <1>2, <2>1 DEF RbInv, ColorInv
<1> QED
  BY <1>1, <1>2, <1>4, <1>9, <1>10, <1>11, <1>12, CellsAndRefs, ColorsOnly

(* The root made black ends the call.                                      *)
LEMMA BalancedStep == RbInv /\ Balanced => RbInv' /\ InTree' = InTree
<1> SUFFICES ASSUME RbInv, Balanced PROVE RbInv' /\ InTree' = InTree
  OBVIOUS
<1> DEFINE K == [Heights EXCEPT ![root] = Heights[left[root]] + 1]
<1>1. /\ pc = "balance" /\ color[parent[cur]] = "black"
      /\ color' = [color EXCEPT ![root] = "black"]
      /\ pc' = "idle" /\ target' = NIL /\ cur' = NIL /\ above' = NIL
      /\ UNCHANGED <<links, size, refusals>>
  BY DEF Balanced, Return
<1>2. /\ \A n \in InTree : \A c \in {left[n], right[n]} \intersect Keys : c \in InTree /\ parent[c] = n
      /\ \A n \in Keys \ InTree : left[n] = NIL /\ right[n] = NIL
      /\ \A n \in InTree : /\ n \in Keys
                           /\ n = root <=> parent[n] = NIL
                           /\ n # root => parent[n] \in InTree
      /\ root \in Keys <=> InTree # {}
      /\ root \in Keys => root \in InTree
  BY LinkFacts DEF RbInv
<1>3. root \in Keys /\ root \in InTree
  BY <1>1, <1>2 DEF RbInv, TreeInv
<1>4. color \in [Cells -> {"red", "black"}] /\ color[NIL] = "black"
  BY DEF RbInv, TreeInv, ScalarType
<1>5. /\ color'[root] = "black" /\ \A n \in Cells \ {root} : color'[n] = color[n]
      /\ color' \in [Cells -> {"red", "black"}] /\ color'[NIL] = "black"
  BY <1>1, <1>3, <1>4, CellsAndRefs
<1>6. left \in [Cells -> Refs] /\ right \in [Cells -> Refs]
  BY TreeFacts DEF RbInv
<1>7. \A n \in Keys : left[n] # root /\ right[n] # root
  <2>1. \A n \in InTree : n # NIL
    BY <1>2, CellsAndRefs
  <2>2. parent[root] = NIL
    BY <1>2, <1>3
  <2> QED
    BY <1>2, <1>3, <2>1, <2>2, CellsAndRefs
<1>8. Plain(left, right, color', K)
  <2>1. Plain(left, right, color, Heights)
    BY HeightsArePlain
  <2>2. /\ K \in [Refs -> Nat] /\ K[root] = Heights[left[root]] + 1
        /\ \A m \in Refs \ {root} : K[m] = Heights[m]
    BY <1>3, <1>6, <2>1, CellsAndRefs DEF Plain
  <2> HIDE DEF K
  <2>3. ASSUME NEW n \in Keys
        PROVE  K[left[n]] = K[right[n]] /\ K[n] = K[left[n]] + Shade(color', n)
    <3>1. /\ Heights[left[n]] = Heights[right[n]] /\ Heights[n] = Heights[left[n]] + Shade(color, n)
          /\ left[n] \in Refs /\ right[n] \in Refs
      BY <1>6, <2>1, CellsAndRefs DEF Plain
    <3>2. K[left[n]] = Heights[left[n]] /\ K[right[n]] = Heights[right[n]]
      BY <1>7, <2>2, <3>1
    <3>3. CASE n = root
      BY <1>5, <2>2, <3>1, <3>2, <3>3 DEF Shade
    <3>4. CASE n # root
      BY <1>5, <2>2, <3>1, <3>2, <3>4, CellsAndRefs DEF Shade
    <3> QED
      BY <3>3, <3>4
  <2>4. \A m \in Refs \ Keys : K[m] = 0
    BY <1>3, <2>1, <2>2 DEF Plain
  <2> QED
    BY <2>2, <2>3, <2>4 DEF Plain
<1>9. ASSUME NEW n \in InTree, color'[n] = "red", color'[parent[n]] = "red"
      PROVE  FALSE
  <2>1. n # root /\ n \in Cells /\ color[n] = "red"
    BY <1>2, <1>5, <1>9, CellsAndRefs
  <2>2. parent[n] # root /\ parent[n] \in Cells /\ color[parent[n]] = "red"
    BY <1>2, <1>5, <1>9, <2>1, CellsAndRefs
  <2>3. n = cur
    BY <2>1, <2>2 DEF RbInv, ColorInv
  <2> QED
    BY <1>1, <2>2, <2>3
<1>10. ~(root \in Keys /\ color'[root] = "red")
  BY <1>5
<1> QED
  BY <1>1, <1>5, <1>8, <1>9, <1>10, CellsAndRefs, ColorsOnly

-----------------------------------------------------------------------------
(* A tree as a value with its nodes F and its heights H, where the link of *)
(* d on the left, or on the right, counts one more.                        *)
Sound(t, F, c, H, d, e) ==
  /\ TreeShaped(t, F, TRUE)
  /\ Even(t.left, t.right, c, H, d, e)

(* A sound tree over the keys N.                                           *)
SoundOver(t, N, c, d, e) == \E F, H : Sound(t, F, c, H, d, e) /\ F[t.root] = N

(* A sound tree, seen from either side.                                    *)
LEMMA SidesOfSound ==
  ASSUME NEW t, NEW F, NEW c, NEW H, NEW d, NEW e \in BOOLEAN, NEW s \in BOOLEAN,
         Sound(t, F, c, H, d, e)
  PROVE  /\ TreeShaped(t, F, s)
         /\ Even(Hither(t, s), Yonder(t, s), c, H, d, e = s)
<1>1. CASE s = TRUE
  BY <1>1 DEF Sound, Hither, Yonder
<1>2. CASE s = FALSE
  <2>1. TreeShaped(t, F, ~TRUE)
    BY EitherSide DEF Sound
  <2>2. Even(t.right, t.left, c, H, d, ~e)
    BY EvenEitherSide DEF Sound
  <2>3. (e = s) = ~e /\ Hither(t, s) = t.right /\ Yonder(t, s) = t.left
    BY <1>2 DEF Hither, Yonder
  <2> QED
    BY <1>2, <2>1, <2>2, <2>3
<1> QED
  BY <1>1, <1>2

(* A tree seen from one side is sound.                                     *)
LEMMA SoundFromSide ==
  ASSUME NEW t, NEW F, NEW c, NEW H, NEW d, NEW e \in BOOLEAN, NEW s \in BOOLEAN,
         TreeShaped(t, F, s), Even(Hither(t, s), Yonder(t, s), c, H, d, e = s)
  PROVE  Sound(t, F, c, H, d, e)
<1>1. CASE s = TRUE
  BY <1>1 DEF Sound, Hither, Yonder
<1>2. CASE s = FALSE
  <2>1. TreeShaped(t, F, ~FALSE)
    BY <1>2, EitherSide
  <2>2. (e = s) = ~e /\ Hither(t, s) = t.right /\ Yonder(t, s) = t.left
    BY <1>2 DEF Hither, Yonder
  <2>3. Even(t.left, t.right, c, H, d, ~~e)
    BY <2>2, EvenEitherSide
  <2> QED
    BY <2>1, <2>3 DEF Sound
<1> QED
  BY <1>1, <1>2

(* What a rotation does to the links of a tree.                            *)
RotatedLinks(t, u, x, s) ==
  LET y == Yonder(t, s)[x]
      b == Hither(t, s)[y]
      p == t.parent[x]
  IN /\ Hither(u, s)[y] = x /\ Yonder(u, s)[y] = Yonder(t, s)[y]
     /\ Hither(u, s)[x] = Hither(t, s)[x] /\ Yonder(u, s)[x] = b
     /\ \A n \in Cells \ {x, y, p} : /\ Hither(u, s)[n] = Hither(t, s)[n]
                                     /\ Yonder(u, s)[n] = Yonder(t, s)[n]
     /\ p # NIL => /\ Hither(u, s)[p] = IF Hither(t, s)[p] = x THEN y ELSE Hither(t, s)[p]
                   /\ Yonder(u, s)[p] = IF Hither(t, s)[p] # x THEN y ELSE Yonder(t, s)[p]
     /\ u.parent[x] = y /\ u.parent[y] = p
     /\ b # NIL => u.parent[b] = x
     /\ \A n \in Cells \ {x, y, b} : u.parent[n] = t.parent[n]
     /\ u.parent[NIL] = t.parent[NIL]
     /\ u.root = IF p = NIL THEN y ELSE t.root

(* In a tree nothing else changes: the node that went up, the one that     *)
(* went down and the one that changed sides.                               *)
LEMMA LinksOfRotated ==
  ASSUME NEW t, NEW F, NEW s \in BOOLEAN, TreeShaped(t, F, s), NEW x \in F[t.root],
         Yonder(t, s)[x] \in Keys, Hither(t, s)[Yonder(t, s)[x]] \in Cells, NEW u,
         Rotated(Hither(t, s), Yonder(t, s), t.parent, t.root,
                 Hither(u, s), Yonder(u, s), u.parent, u.root, x)
  PROVE  RotatedLinks(t, u, x, s)
<1> DEFINE l == Hither(t, s)
           r == Yonder(t, s)
           q == t.parent
           y == r[x]
           b == l[y]
           p == q[x]
<1>1. /\ Hither(u, s) = [n \in Cells |-> IF n = y THEN x
                                         ELSE IF n = p /\ p # NIL /\ l[p] = x THEN y ELSE l[n]]
      /\ Yonder(u, s) = [n \in Cells |-> IF n = x THEN b
                                         ELSE IF n = p /\ p # NIL /\ l[p] # x THEN y ELSE r[n]]
      /\ u.parent = [n \in Cells |-> IF n = x THEN y ELSE IF n = y THEN p
                                     ELSE IF n = b /\ b # NIL THEN x ELSE q[n]]
      /\ u.root = IF p = NIL THEN y ELSE t.root
  BY DEF Rotated
<1>2. /\ x \in Keys /\ y \in Keys /\ x # y /\ b \in Cells
      /\ b \notin {x, y} /\ p # x /\ p # y /\ p \in Cells
      /\ p # NIL => p \in Keys
  BY RotationLinks DEF TreeShaped
<1>3. x \in Cells /\ y \in Cells /\ NIL \in Cells /\ NIL \notin {x, y}
  BY <1>2, CellsAndRefs
<1> HIDE DEF l, r, q, y, b, p
<1>4. /\ Hither(u, s)[y] = x /\ Yonder(u, s)[y] = r[y]
      /\ Hither(u, s)[x] = l[x] /\ Yonder(u, s)[x] = b
      /\ \A n \in Cells \ {x, y, p} : Hither(u, s)[n] = l[n] /\ Yonder(u, s)[n] = r[n]
      /\ p # NIL => /\ Hither(u, s)[p] = IF l[p] = x THEN y ELSE l[p]
                    /\ Yonder(u, s)[p] = IF l[p] # x THEN y ELSE r[p]
  BY <1>1, <1>2, <1>3
<1>5. /\ u.parent[x] = y /\ u.parent[y] = p
      /\ b # NIL => u.parent[b] = x
      /\ \A n \in Cells \ {x, y, b} : u.parent[n] = q[n]
      /\ u.parent[NIL] = q[NIL]
      /\ u.root = IF p = NIL THEN y ELSE t.root
  BY <1>1, <1>2, <1>3
<1> QED
  BY <1>4, <1>5 DEF RotatedLinks, l, r, q, y, b, p

(* No link of a key is null.                                               *)
NoNullIn(t) == t.root # NULL /\ \A n \in Keys : t.left[n] # NULL /\ t.right[n] # NULL

(* A rotation makes no null link.                                          *)
LEMMA NoNullAfterRotation ==
  ASSUME NEW t, NEW F, NEW s \in BOOLEAN, TreeShaped(t, F, s), NEW x \in F[t.root],
         NEW y, Yonder(t, s)[x] = y, y \in Keys, Hither(t, s)[y] \in Cells,
         NEW u, RotatedLinks(t, u, x, s), NoNullIn(t)
  PROVE  NoNullIn(u)
<1> DEFINE l == Hither(t, s)
           r == Yonder(t, s)
           l2 == Hither(u, s)
           r2 == Yonder(u, s)
           p == t.parent[x]
<1>1. \A n \in Keys : l[n] # NULL /\ r[n] # NULL
  BY DEF Hither, Yonder, NoNullIn
<1>2. x \in Keys /\ x # NULL /\ y # NULL /\ p \in Cells
  <2>1. F[t.root] \in SUBSET Keys /\ t.parent \in [Cells -> Cells]
    BY DEF TreeShaped, Shaped, Grown, Unfolds, Parented
  <2> QED
    BY <2>1, CellsAndRefs
<1>3. /\ l2[y] = x /\ r2[y] = r[y]
      /\ l2[x] = l[x] /\ r2[x] = l[y]
      /\ \A n \in Cells \ {x, y, p} : l2[n] = l[n] /\ r2[n] = r[n]
      /\ p # NIL => /\ l2[p] = IF l[p] = x THEN y ELSE l[p]
                    /\ r2[p] = IF l[p] # x THEN y ELSE r[p]
      /\ u.root = IF p = NIL THEN y ELSE t.root
  BY DEF RotatedLinks
<1> HIDE DEF l, r, l2, r2, p
<1>4. ASSUME NEW n \in Keys
      PROVE  l2[n] # NULL /\ r2[n] # NULL
  <2>1. n \in Cells /\ n # NIL
    BY CellsAndRefs
  <2>2. CASE n = x
    BY <1>1, <1>2, <1>3, <2>2
  <2>3. CASE n = y
    BY <1>1, <1>2, <1>3, <2>3
  <2>4. CASE n = p
    BY <1>1, <1>2, <1>3, <2>1, <2>4
  <2>5. CASE n \notin {x, y, p}
    BY <1>1, <1>3, <2>1, <2>5
  <2> QED
    BY <2>2, <2>3, <2>4, <2>5
<1>5. u.root # NULL
  BY <1>2, <1>3 DEF NoNullIn
<1>6. \A n \in Keys : u.left[n] # NULL /\ u.right[n] # NULL
  BY <1>4 DEF l2, r2, Hither, Yonder
<1> QED
  BY <1>5, <1>6 DEF NoNullIn

(* The rotation of x lifts the node y, a node of the tree like x, and no   *)
(* other key has a link to them.                                           *)
Rotatable(t, F, x, y, s) ==
  /\ x \in F[t.root] /\ y \in Keys /\ Yonder(t, s)[x] = y /\ Hither(t, s)[y] \in Cells
  /\ \A n \in Keys \ F[t.root] : {t.left[n], t.right[n]} \intersect {x, y} = {}

(* A red node y takes the color of x, which turns red.                     *)
RedGoesUp(c, c2, x, y) ==
  /\ c[y] = "red" /\ c2[y] = c[x] /\ c2[x] = "red"
  /\ \A n \in Keys \ {x, y} : c2[n] = c[n]

(* Rotate is the rotation of the links, on either side.                    *)
LEMMA RotationFacts ==
  ASSUME NEW t, NEW F, NEW s \in BOOLEAN, TreeShaped(t, F, s), NEW x, NEW y,
         Rotatable(t, F, x, y, s)
  PROVE  /\ RotatedLinks(t, Rotate(t, x, s), x, s)
         /\ NoNullIn(t) => NoNullIn(Rotate(t, x, s))
<1> DEFINE u == Rotate(t, x, s)
<1>1. x \in F[t.root] /\ y \in Keys /\ Yonder(t, s)[x] = y /\ Hither(t, s)[y] \in Cells
  BY DEF Rotatable
<1>2. Rotated(Hither(t, s), Yonder(t, s), t.parent, t.root,
              Hither(u, s), Yonder(u, s), u.parent, u.root, x)
  BY <1>1, RotateTurns
<1> HIDE DEF u
<1>3. RotatedLinks(t, u, x, s)
  BY <1>1, <1>2, LinksOfRotated
<1>4. NoNullIn(t) => NoNullIn(u)
  BY <1>1, <1>3, NoNullAfterRotation
<1> QED
  BY <1>3, <1>4 DEF u

(* A rotation that lifts a red node and exchanges colors keeps a tree      *)
(* sound.                                                                  *)
LEMMA RotateSound ==
  ASSUME NEW t, NEW F, NEW c, NEW H, NEW d, NEW e \in BOOLEAN, Sound(t, F, c, H, d, e),
         NEW s \in BOOLEAN, NEW x, NEW y, Rotatable(t, F, x, y, s),
         NEW c2, RedGoesUp(c, c2, x, y), d # y, d = x => e = s
  PROVE  SoundOver(Rotate(t, x, s), F[t.root], c2, d, e)
<1> DEFINE u == Rotate(t, x, s)
           l == Hither(t, s)
           r == Yonder(t, s)
           l2 == Hither(u, s)
           r2 == Yonder(u, s)
<1>0. /\ x \in F[t.root] /\ y \in Keys /\ r[x] = y /\ l[y] \in Cells
      /\ \A n \in Keys \ F[t.root] : {t.left[n], t.right[n]} \intersect {x, y} = {}
      /\ c[y] = "red" /\ c2[y] = c[x] /\ c2[x] = "red"
      /\ \A n \in Keys \ {x, y} : c2[n] = c[n]
  BY DEF Rotatable, RedGoesUp
<1>1. TreeShaped(t, F, s) /\ Even(l, r, c, H, d, e = s)
  BY SidesOfSound
<1>2. Shaped(l, r, t.parent, t.root, F, s)
  BY <1>1 DEF TreeShaped
<1>3. \A n \in Keys \ F[t.root] : {l[n], r[n]} \intersect {x, r[x]} = {}
  BY <1>0 DEF Hither, Yonder
<1>4. IsTree(u) /\ Rotated(l, r, t.parent, t.root, l2, r2, u.parent, u.root, x)
  BY <1>0, <1>1, RotateTurns
<1>5. RotatedLinks(t, u, x, s)
  BY <1>0, <1>1, <1>4, LinksOfRotated
<1> HIDE DEF u, l, r, l2, r2
<1>6. r[x] \in Keys /\ l[r[x]] \in Cells
  BY <1>0
<1> DEFINE G == Turned(F, x, r[x], l[x], l[r[x]])
           K == Lifted(H, x, r[x])
<1> HIDE DEF G, K
<1>7. Shaped(l2, r2, u.parent, u.root, G, s) /\ G[u.root] = F[t.root]
  BY <1>0, <1>2, <1>3, <1>4, <1>6, RotationKeepsShape DEF G
<1>8. Even(l2, r2, c2, K, d, e = s)
  <2>1. c[r[x]] = "red" /\ c2[r[x]] = c[x] /\ \A n \in Keys \ {x, r[x]} : c2[n] = c[n]
    BY <1>0
  <2>2. d # r[x] /\ (d = x => (e = s)) /\ (e = s) \in BOOLEAN
    BY <1>0
  <2> QED
    BY <1>0, <1>1, <1>2, <1>3, <1>4, <1>6, <2>1, <2>2, LiftRedKeepsHeights DEF K
<1>9. Sound(u, G, c2, K, d, e)
  <2>1. TreeShaped(u, G, s)
    BY <1>4, <1>7 DEF TreeShaped, l2, r2
  <2>3. Even(Hither(u, s), Yonder(u, s), c2, K, d, e = s)
    BY <1>8 DEF l2, r2
  <2> QED
    BY <2>1, <2>3, SoundFromSide
<1> QED
  BY <1>7, <1>9 DEF u, SoundOver

-----------------------------------------------------------------------------
(* The tree of a state as a value.                                         *)
LEMMA TreeIsSound ==
  ASSUME RbInv
  PROVE  /\ Sound(Tree, Nodes, color, Heights, NIL, TRUE) /\ Nodes[Tree.root] = InTree
         /\ Tree.left = left /\ Tree.right = right /\ Tree.parent = parent /\ Tree.root = root
         /\ DOMAIN Tree = {"root", "left", "right", "parent"}
<1>1. /\ Tree.left = left /\ Tree.right = right /\ Tree.parent = parent /\ Tree.root = root
      /\ DOMAIN Tree = {"root", "left", "right", "parent"}
  BY DEF Tree
<1> HIDE DEF Tree
<1>2. Hither(Tree, TRUE) = left /\ Yonder(Tree, TRUE) = right
  BY <1>1 DEF Hither, Yonder
<1>3. TreeShaped(Tree, Nodes, TRUE)
  BY <1>1, <1>2 DEF RbInv, TreeInv, TreeShaped, IsTree
<1>4. Even(left, right, color, Heights, NIL, TRUE)
  BY DEF RbInv, ColorInv
<1>5. Nodes[root] = InTree
  BY TreeFacts DEF RbInv
<1> QED
  BY <1>1, <1>3, <1>4, <1>5 DEF Sound

(* A step that leaves a sound tree with the same nodes.                    *)
LEMMA SoundNext ==
  ASSUME RbInv, NEW t, NEW F, NEW H, Sound(t, F, color', H, NIL, TRUE), F[t.root] = InTree, Become(t)
  PROVE  /\ InTree' = InTree /\ Nodes' = F
         /\ Shaped(left, right, parent, root, Nodes, TRUE)'
         /\ Even(left, right, color, Heights, NIL, TRUE)'
<1>1. root' = t.root /\ left' = t.left /\ right' = t.right /\ parent' = t.parent
  BY DEF Become
<1>2. /\ Shaped(left', right', parent', root', F, TRUE)
      /\ Even(left', right', color', H, NIL, TRUE)
  BY <1>1 DEF Sound, TreeShaped, Hither, Yonder
<1>3. Grown(left', right', F, TRUE) /\ root' \in Refs
  BY <1>2 DEF Shaped, Parented
<1>4. Nodes' = F /\ InTree' = InTree
  BY <1>1, <1>3, TreeNext
<1>5. Heights' = H
  BY <1>2, <1>3, HeightsNext
<1>6. Shaped(left, right, parent, root, Nodes, TRUE)'
  <2>1. Shaped(left', right', parent', root', Nodes', TRUE)
    BY <1>2, <1>4
  <2> QED
    BY <2>1 DEF Shaped, Grown, LinkType, Unfolds, Sorted, Parented, Before
<1>7. Even(left, right, color, Heights, NIL, TRUE)'
  <2>1. Even(left', right', color', Heights', NIL, TRUE)
    BY <1>2, <1>5
  <2> QED
    BY <2>1 DEF Even, Extra, Shade
<1> QED
  BY <1>4, <1>6, <1>7

-----------------------------------------------------------------------------
(* An inner node rotated to the outside.                                   *)
Inner == cur = IF OnLeft THEN right[parent[cur]] ELSE left[parent[cur]]

Outer == IF Inner THEN parent[cur] ELSE cur

Turn == IF Inner THEN Rotate(Tree, parent[cur], OnLeft) ELSE Tree

(* The tree after the first rotation, if one is needed: the red node is    *)
(* outside, its parent and grandparent above it.                           *)
LEMMA InnerTurned ==
  ASSUME RbInv, pc = "balance", color[parent[cur]] = "red", Uncle # NULL, color[Uncle] = "black",
         ~(Inner /\ RotationCrashes(Tree, parent[cur], OnLeft))
  PROVE  LET t == Turn
             n == Outer
             m == t.parent[n]
             g == parent[parent[cur]]
         IN /\ SoundOver(t, InTree, color, NIL, TRUE)
            /\ n \in InTree /\ m \in InTree /\ t.parent[m] = g /\ n # m /\ n # g /\ m # g
            /\ color[n] = "red" /\ color[m] = "red"
            /\ Hither(t, OnLeft)[g] = m /\ Hither(t, OnLeft)[m] = n /\ Yonder(t, OnLeft)[g] = Uncle
            /\ t.root = root /\ t.parent[NIL] = parent[NIL] /\ (NoNullIn(Tree) => NoNullIn(t))
            /\ \A k \in InTree : color[k] = "red" /\ color[t.parent[k]] = "red" => k = n
            /\ \A k \in Keys \ InTree : t.left[k] = NIL /\ t.right[k] = NIL /\ t.parent[k] = NIL
<1> DEFINE p == parent[cur]
           g == parent[p]
           s == OnLeft
<1>1. /\ cur \in InTree /\ p \in InTree /\ g \in InTree
      /\ cur \in Keys /\ p \in Keys /\ g \in Keys
      /\ cur \in {left[p], right[p]} /\ p \in {left[g], right[g]}
      /\ cur # root /\ p # root /\ cur # p /\ p # g /\ cur # g
      /\ left[p] # right[p] /\ left[g] # right[g]
      /\ color[g] = "black" /\ color[cur] = "red" /\ color[p] = "red"
  BY RedUnderRed
<1>2. /\ Sound(Tree, Nodes, color, Heights, NIL, TRUE) /\ Nodes[Tree.root] = InTree
      /\ Tree.left = left /\ Tree.right = right /\ Tree.parent = parent /\ Tree.root = root
  BY TreeIsSound
<1>3. \A k \in InTree : color[k] = "red" /\ color[parent[k]] = "red" => k = cur
  BY DEF RbInv, ColorInv
<1>4. \A k \in Keys \ InTree : left[k] = NIL /\ right[k] = NIL /\ parent[k] = NIL
  BY DEF RbInv, TreeInv, LooseNodes
<1>5. s \in BOOLEAN /\ (s <=> p = left[g])
  BY DEF OnLeft
<1>6. Hither(Tree, s)[g] = p /\ Yonder(Tree, s)[g] = Uncle
  BY <1>1, <1>2, <1>5 DEF Hither, Yonder, Uncle
<1>7. /\ Inner => Yonder(Tree, s)[p] = cur
      /\ ~Inner => Hither(Tree, s)[p] = cur
      /\ Hither(Tree, s)[p] # Yonder(Tree, s)[p]
  BY <1>1, <1>2 DEF Hither, Yonder, Inner
<1>8. CASE ~Inner
  <2>1. Turn = Tree /\ Outer = cur
    BY <1>8 DEF Turn, Outer
  <2>2. SoundOver(Tree, InTree, color, NIL, TRUE)
    BY <1>2 DEF SoundOver
  <2> QED
    BY <1>1, <1>2, <1>3, <1>4, <1>6, <1>7, <1>8, <2>1, <2>2
<1>9. CASE Inner
  <2> DEFINE b == Hither(Tree, s)[cur]
  <2>1. Yonder(Tree, s)[p] = cur /\ Outer = p /\ Turn = Rotate(Tree, p, s)
    BY <1>7, <1>9 DEF Outer, Turn
  <2>2. b \in Cells
    <3>1. b # NULL
      BY <1>2, <1>9, <1>1 DEF RotationCrashes, Inner, Hither
    <3>2. b \in Refs
      <4>1. left \in [Cells -> Refs] /\ right \in [Cells -> Refs]
        BY TreeFacts DEF RbInv
      <4> QED
        BY <1>1, <1>2, <4>1, CellsAndRefs DEF Hither
    <3> QED
      BY <3>1, <3>2, CellsAndRefs
  <2> DEFINE t == Rotate(Tree, p, s)
  <2>3. /\ RotatedLinks(Tree, t, p, s)
        /\ SoundOver(t, Nodes[Tree.root], color, NIL, TRUE)
        /\ NoNullIn(Tree) => NoNullIn(t)
    <3>1. \A n \in Keys \ Nodes[Tree.root] : {Tree.left[n], Tree.right[n]} \intersect {p, cur} = {}
      BY <1>1, <1>2, <1>4, CellsAndRefs
    <3>2. p \in Nodes[Tree.root] /\ NIL # cur /\ NIL # p
      BY <1>1, <1>2, CellsAndRefs
    <3>3. Yonder(Tree, s)[p] \in Keys /\ Hither(Tree, s)[Yonder(Tree, s)[p]] \in Cells
      BY <1>1, <2>1, <2>2
    <3>4. Rotatable(Tree, Nodes, p, cur, s)
      BY <1>1, <2>1, <3>1, <3>2, <3>3 DEF Rotatable
    <3>5. RedGoesUp(color, color, p, cur)
      BY <1>1 DEF RedGoesUp
    <3>6. Sound(Tree, Nodes, color, Heights, NIL, TRUE) /\ s \in BOOLEAN /\ TRUE \in BOOLEAN
      BY <1>2, <1>5
    <3> HIDE DEF s, p, g, b
    <3>7. NIL # cur /\ (NIL = p => TRUE = s)
      BY <3>2
    <3>8. TreeShaped(Tree, Nodes, s)
      BY <3>6, SidesOfSound
    <3>9. /\ RotatedLinks(Tree, Rotate(Tree, p, s), p, s)
          /\ NoNullIn(Tree) => NoNullIn(Rotate(Tree, p, s))
      BY <3>4, <3>6, <3>8, RotationFacts
    <3>10. SoundOver(Rotate(Tree, p, s), Nodes[Tree.root], color, NIL, TRUE)
      BY <3>4, <3>5, <3>6, <3>7, RotateSound
    <3> QED
      BY <3>9, <3>10
  <2> HIDE DEF t, p, g, s, b
  <2>4. /\ Hither(t, s)[cur] = p /\ Yonder(t, s)[g] = Yonder(Tree, s)[g]
        /\ Hither(t, s)[g] = cur
        /\ t.parent[p] = cur /\ t.parent[cur] = g
        /\ b # NIL => t.parent[b] = p
        /\ \A n \in Cells \ {p, cur, b} : t.parent[n] = parent[n]
        /\ t.root = root /\ t.parent[NIL] = parent[NIL]
    <3>1. g = Tree.parent[p] /\ g # NIL /\ Hither(Tree, s)[g] = p
      BY <1>1, <1>2, <1>6, CellsAndRefs DEF g
    <3> QED
      BY <1>2, <2>1, <2>3, <3>1 DEF RotatedLinks, b
  <2>5. ASSUME NEW k \in Keys \ InTree
        PROVE  t.left[k] = NIL /\ t.right[k] = NIL /\ t.parent[k] = NIL
    <3>1. k \notin {p, cur, g} /\ k \in Cells
      BY <1>1, CellsAndRefs
    <3>2. k # b
      <4>1. \A i \in InTree : \A j \in {left[i], right[i]} \intersect Keys : j \in InTree
        BY LinkFacts DEF RbInv
      <4>2. b \in {left[cur], right[cur]}
        BY <1>2 DEF b, Hither
      <4> QED
        BY <1>1, <4>1, <4>2
    <3>3. Hither(t, s)[k] = Hither(Tree, s)[k] /\ Yonder(t, s)[k] = Yonder(Tree, s)[k]
      BY <1>2, <2>1, <2>3, <3>1 DEF RotatedLinks, g
    <3>4. Hither(Tree, s)[k] = NIL /\ Yonder(Tree, s)[k] = NIL
      BY <1>2, <1>4 DEF Hither, Yonder
    <3>5. t.left[k] = NIL /\ t.right[k] = NIL
      BY <1>5, <3>3, <3>4 DEF Hither, Yonder
    <3> QED
      BY <1>4, <2>4, <3>1, <3>2, <3>5
  <2>6. ASSUME NEW k \in InTree, color[k] = "red", color[t.parent[k]] = "red"
        PROVE  k = p
    <3>1. k \in Keys /\ k \in Cells
      BY LinkFacts, CellsAndRefs DEF RbInv
    <3>2. k # cur
      BY <1>1, <2>4, <2>6
    <3>3. b \in Keys => b \in InTree /\ parent[b] = cur
      <4>1. b \in {left[cur], right[cur]}
        BY <1>2 DEF b, Hither
      <4> QED
        BY <1>1, <4>1, LinkFacts DEF RbInv
    <3>4. k # b
      <4> SUFFICES ASSUME k = b PROVE FALSE
        OBVIOUS
      <4>1. b = cur
        BY <1>1, <1>3, <2>6, <3>1, <3>3
      <4> QED
        BY <3>2, <4>1
    <3>5. k # p => parent[k] = t.parent[k]
      BY <2>4, <3>1, <3>2, <3>4
    <3> QED
      BY <1>3, <2>6, <3>2, <3>5
  <2>7. Turn = t /\ Outer = p
    BY <2>1 DEF t
  <2>8. SoundOver(t, InTree, color, NIL, TRUE)
    BY <1>2, <2>3
  <2>9. parent[parent[cur]] = g
    BY DEF g, p
  <2>10. OnLeft = s
    BY DEF s
  <2> QED
    BY <1>1, <1>6, <2>3, <2>4, <2>5, <2>6, <2>7, <2>8, <2>9, <2>10
<1> QED
  BY <1>8, <1>9

-----------------------------------------------------------------------------
(* The two sides of a tree.                                                *)
LEMMA OppositeSides ==
  ASSUME NEW t, NEW s \in BOOLEAN
  PROVE  /\ Hither(t, ~s) = Yonder(t, s) /\ Yonder(t, ~s) = Hither(t, s)
         /\ (~s) \in BOOLEAN
         /\ \/ Hither(t, s) = t.left /\ Yonder(t, s) = t.right
            \/ Hither(t, s) = t.right /\ Yonder(t, s) = t.left
<1>1. CASE s = TRUE
  BY <1>1 DEF Hither, Yonder
<1>2. CASE s = FALSE
  BY <1>2 DEF Hither, Yonder
<1> QED
  BY <1>1, <1>2

(* A node is among the nodes of its subtree.                               *)
LEMMA KeysAreBelowThemselves ==
  ASSUME NEW l, NEW r, NEW F, NEW up, Grown(l, r, F, up)
  PROVE  \A n \in Keys : n \in F[n]
BY ChildrenAreBelow

(* The rotations that end the rebalancing keep the tree and its heights,   *)
(* and leave no two red nodes together.                                    *)
LEMMA RotateUpStep ==
  RbInv /\ RotateUp => /\ RbInv' /\ InTree' = InTree /\ parent'[NIL] = parent[NIL]
                       /\ (NoNullIn(Tree) => NoNullIn(Tree)')
<1> SUFFICES ASSUME RbInv, RotateUp
             PROVE  /\ RbInv' /\ InTree' = InTree /\ parent'[NIL] = parent[NIL]
                    /\ (NoNullIn(Tree) => NoNullIn(Tree)')
  OBVIOUS
<1> DEFINE t == Turn
           n == Outer
           m == t.parent[n]
           g == t.parent[m]
           s == OnLeft
           u == Rotate(t, g, ~s)
<1>1. /\ pc = "balance" /\ color[parent[cur]] = "red" /\ Uncle # NULL /\ color[Uncle] = "black"
      /\ \/ Crash /\ cur' = cur
         \/ /\ ~(Inner /\ RotationCrashes(Tree, parent[cur], s)) /\ ~RotationCrashes(t, g, ~s)
            /\ color' = [color EXCEPT ![m] = "black", ![g] = "red"]
            /\ Become(u) /\ cur' = n /\ pc' = pc
      /\ size' = size /\ target' = target /\ above' = above /\ refusals' = refusals
  BY DEF RotateUp, Inner, Outer, Turn
<1>2. CASE Crash /\ cur' = cur
  <2>1. target \in Cells /\ cur \in Refs /\ above \in Cells
    BY DEF RbInv, TreeInv, ScalarType
  <2>2. parent'[NIL] = parent[NIL] /\ (NoNullIn(Tree) => NoNullIn(Tree)')
    BY <1>2 DEF Crash, links, NoNullIn, Tree
  <2> QED
    BY <1>1, <1>2, <2>1, <2>2, QuietEnd DEF Crash
<1>3. CASE /\ ~(Inner /\ RotationCrashes(Tree, parent[cur], s)) /\ ~RotationCrashes(t, g, ~s)
           /\ color' = [color EXCEPT ![m] = "black", ![g] = "red"]
           /\ Become(u) /\ cur' = n /\ pc' = pc
  <2>1. /\ SoundOver(t, InTree, color, NIL, TRUE)
        /\ n \in InTree /\ m \in InTree /\ n # m /\ n # g /\ m # g
        /\ g = parent[parent[cur]]
        /\ color[n] = "red" /\ color[m] = "red"
        /\ Hither(t, s)[g] = m /\ Hither(t, s)[m] = n /\ Yonder(t, s)[g] = Uncle
        /\ t.root = root /\ t.parent[NIL] = parent[NIL] /\ (NoNullIn(Tree) => NoNullIn(t))
        /\ \A k \in InTree : color[k] = "red" /\ color[t.parent[k]] = "red" => k = n
        /\ \A k \in Keys \ InTree : t.left[k] = NIL /\ t.right[k] = NIL /\ t.parent[k] = NIL
    BY <1>1, <1>3, InnerTurned
  <2>2. /\ cur # root /\ g \in InTree /\ color[g] = "black"
    BY <1>1, <2>1, RedUnderRed
  <2>3. \A k \in InTree : k \in Keys /\ k \in Cells /\ k # NIL
    BY LinkFacts, CellsAndRefs DEF RbInv
  <2>4. s \in BOOLEAN
    BY DEF OnLeft
  <2>5. ~RotationCrashes(t, g, ~s)
    BY <1>3
  <2> HIDE DEF t, n, m, g, s
  <2>6. PICK F, H : Sound(t, F, color, H, NIL, TRUE) /\ F[t.root] = InTree
    BY <2>1 DEF SoundOver
  <2>7. /\ Shaped(t.left, t.right, t.parent, root, F, TRUE) /\ F[root] = InTree
        /\ t.left \in [Cells -> Refs] /\ t.right \in [Cells -> Refs] /\ t.parent \in [Cells -> Cells]
    BY <2>1, <2>6 DEF Sound, TreeShaped, Hither, Yonder, Shaped, Grown, LinkType, Parented
  <2>8. /\ Hither(t, ~s) = Yonder(t, s) /\ Yonder(t, ~s) = Hither(t, s)
        /\ (~s) \in BOOLEAN
        /\ \/ Hither(t, s) = t.left /\ Yonder(t, s) = t.right
           \/ Hither(t, s) = t.right /\ Yonder(t, s) = t.left
    BY <2>4, OppositeSides
  <2> DEFINE b == Yonder(t, s)[m]
  <2>9. b \in Cells
    <3>1. b # NULL
      BY <2>1, <2>4, <2>5 DEF RotationCrashes, Hither, Yonder
    <3>2. b \in Refs
      BY <2>1, <2>3, <2>7 DEF Yonder
    <3> QED
      BY <3>1, <3>2, CellsAndRefs
  <2>10. Rotatable(t, F, g, m, ~s)
    BY <2>1, <2>2, <2>3, <2>6, <2>8, <2>9 DEF Rotatable
  <2>11. color \in [Cells -> {"red", "black"}] /\ color[NIL] = "black"
    BY DEF RbInv, TreeInv, ScalarType
  <2>12. /\ color'[m] = "black" /\ color'[g] = "red"
         /\ \A k \in Cells \ {g, m} : color'[k] = color[k]
         /\ color' \in [Cells -> {"red", "black"}] /\ color'[NIL] = "black"
    BY <1>3, <2>1, <2>2, <2>3, <2>11, CellsAndRefs
  <2>13. RedGoesUp(color, color', g, m)
    BY <2>1, <2>2, <2>12, CellsAndRefs DEF RedGoesUp
  <2>14. RotatedLinks(t, u, g, ~s) /\ SoundOver(u, InTree, color', NIL, TRUE)
         /\ (NoNullIn(t) => NoNullIn(u))
    <3>1. NIL # m /\ (NIL = g => TRUE = ~s)
      BY <2>1, <2>2, <2>3
    <3>2. TRUE \in BOOLEAN
      OBVIOUS
    <3>3. TreeShaped(t, F, ~s)
      BY <2>6, <2>8, <3>2, SidesOfSound
    <3>4. /\ RotatedLinks(t, Rotate(t, g, ~s), g, ~s)
          /\ NoNullIn(t) => NoNullIn(Rotate(t, g, ~s))
      BY <2>8, <2>10, <3>3, RotationFacts
    <3>5. SoundOver(Rotate(t, g, ~s), F[t.root], color', NIL, TRUE)
      BY <2>6, <2>8, <2>10, <2>13, <3>1, <3>2, RotateSound
    <3> QED
      BY <2>6, <3>4, <3>5
  <2>15. Become(u) /\ cur' = n /\ pc' = "balance"
    BY <1>1, <1>3
  <2> HIDE DEF u
  <2>16. /\ InTree' = InTree
         /\ Shaped(left, right, parent, root, Nodes, TRUE)'
         /\ Even(left, right, color, Heights, NIL, TRUE)'
    <3>1. PICK G, K : Sound(u, G, color', K, NIL, TRUE) /\ G[u.root] = InTree
      BY <2>14 DEF SoundOver
    <3> QED
      BY <2>15, <3>1, SoundNext
  <2>17. root' = u.root /\ left' = u.left /\ right' = u.right /\ parent' = u.parent
    BY <2>15 DEF Become
  <2> DEFINE q == t.parent[g]
  <2>18. /\ b \in Keys => b \in InTree /\ t.parent[b] = m /\ b # n
         /\ \A k \in InTree : t.parent[k] = g => k \in {m, Uncle}
    <3>1. Hooked(t.left, t.right, t.parent, root, F)
      BY <2>7, NodesAreHooked
    <3>2. \A k \in InTree : \A c \in {t.left[k], t.right[k]} \intersect Keys : t.parent[c] = k
      BY <2>7 DEF Shaped, Parented
    <3>3. b \in {t.left[m], t.right[m]}
      BY <2>8
    <3>4. b \in Keys => t.parent[b] = m
      BY <2>1, <3>2, <3>3
    <3>5. b \in Keys => b \in InTree
      BY <2>1, <2>3, <3>4
    <3>6. b \in Keys => b # n
      <4>1. /\ t.left[m] \in Keys => t.left[m] # t.right[m]
        <5>1. Grown(t.left, t.right, F, TRUE) /\ m \in Keys
          BY <2>1, <2>3, <2>7 DEF Shaped
        <5>2. F[t.left[m]] \intersect F[t.right[m]] = {}
          BY <5>1, ChildrenAreBelow
        <5>3. \A k \in Keys : k \in F[k]
          BY <5>1, KeysAreBelowThemselves
        <5> QED
          BY <5>2, <5>3
      <4> QED
        BY <2>1, <2>3, <2>4, <4>1 DEF Hither, Yonder
    <3>7. ASSUME NEW k \in InTree, t.parent[k] = g
          PROVE  k \in {m, Uncle}
      <4>1. k # root
        BY <2>2, <2>3, <2>7, <3>1, <3>7 DEF Hooked
      <4>2. t.left[g] = k \/ t.right[g] = k
        BY <2>7, <3>1, <3>7, <4>1 DEF Hooked
      <4> QED
        BY <2>1, <2>8, <4>2
    <3> QED
      BY <3>4, <3>5, <3>6, <3>7
  <2>19. /\ u.parent[g] = m /\ u.parent[m] = q
         /\ b # NIL => u.parent[b] = g
         /\ \A k \in Cells \ {g, m, b} : u.parent[k] = t.parent[k]
         /\ u.parent[NIL] = t.parent[NIL]
         /\ u.root = (IF q = NIL THEN m ELSE root)
         /\ \A k \in Cells \ {g, m, q} : Hither(u, ~s)[k] = Hither(t, ~s)[k] /\ Yonder(u, ~s)[k] = Yonder(t, ~s)[k]
    BY <2>1, <2>8, <2>14 DEF RotatedLinks
  <2>20. q = NIL \/ q \in InTree
    <3>1. Hooked(t.left, t.right, t.parent, root, F)
      BY <2>7, NodesAreHooked
    <3> QED
      BY <2>2, <2>7, <3>1 DEF Hooked
  <2> HIDE DEF b, q
  <2>21. ASSUME NEW k \in InTree
         PROVE  ~(color'[k] = "red" /\ color'[u.parent[k]] = "red")
    <3> SUFFICES ASSUME color'[k] = "red", color'[u.parent[k]] = "red" PROVE FALSE
      OBVIOUS
    <3>1. k # g /\ k # m
      BY <2>12, <2>19, <2>21
    <3>2. k \in Cells /\ color[k] = "red"
      BY <2>3, <2>12, <2>21, <3>1
    <3>3. k # b
      <4> SUFFICES ASSUME k = b PROVE FALSE
        OBVIOUS
      <4>1. b \in Keys
        BY <2>3
      <4> QED
        BY <2>1, <2>18, <3>2, <4>1
    <3>4. u.parent[k] = t.parent[k]
      BY <2>19, <3>1, <3>2, <3>3
    <3>5. t.parent[k] # g
      <4>1. k # Uncle
        BY <1>1, <3>2
      <4> QED
        BY <2>18, <3>1, <4>1
    <3>6. t.parent[k] \in Cells /\ t.parent[k] # m
      BY <2>7, <2>12, <2>21, <3>2, <3>4
    <3>7. color[t.parent[k]] = "red"
      BY <2>12, <2>21, <3>4, <3>5, <3>6
    <3>8. k = n
      BY <2>1, <3>2, <3>7
    <3> QED
      BY <3>6, <3>8 DEF m
  <2>22. ~(u.root \in Keys /\ color'[u.root] = "red")
    <3>1. CASE q = NIL
      BY <2>12, <2>19, <3>1
    <3>2. CASE q # NIL
      <4>1. root # g
        BY <2>2, <2>7, <2>3, <3>2 DEF q, Shaped, Parented
      <4>2. ~(root \in Keys /\ color[root] = "red")
        BY <2>2 DEF RbInv, ColorInv
      <4> QED
        BY <2>12, <2>19, <3>2, <4>1, <4>2, CellsAndRefs
    <3> QED
      BY <3>1, <3>2
  <2>23. color'[n] = "red"
    BY <2>1, <2>3, <2>12
  <2>24. ColorInv'
    BY <2>15, <2>16, <2>17, <2>21, <2>22, <2>23 DEF ColorInv
  <2>25. LooseNodes'
    <3>2. ASSUME NEW k \in Keys \ InTree
          PROVE  left'[k] = NIL /\ right'[k] = NIL /\ parent'[k] = NIL
      <4>1. k \in Cells /\ k \notin {g, m, q} /\ k # b
        BY <2>1, <2>2, <2>18, <2>20, CellsAndRefs
      <4>2. Hither(u, ~s)[k] = Hither(t, ~s)[k] /\ Yonder(u, ~s)[k] = Yonder(t, ~s)[k]
        BY <2>19, <4>1
      <4>3. Hither(t, ~s)[k] = NIL /\ Yonder(t, ~s)[k] = NIL
        BY <2>1 DEF Hither, Yonder
      <4>4. u.left[k] = NIL /\ u.right[k] = NIL
        BY <2>4, <4>2, <4>3 DEF Hither, Yonder
      <4> QED
        BY <2>1, <2>17, <2>19, <4>1, <4>4
    <3> QED
      BY <2>16, <3>2 DEF LooseNodes
  <2>26. TreeInv'
    <3>1. ScalarType'
      BY <1>1, <2>1, <2>3, <2>12, <2>15, CellsAndRefs DEF RbInv, TreeInv, ScalarType
    <3>2. target \in InTree /\ size = Cardinality(InTree)
      BY <1>1 DEF RbInv, TreeInv
    <3> QED
      BY <1>1, <2>1, <2>15, <2>16, <2>25, <3>1, <3>2 DEF TreeInv
  <2>27. NoNullIn(Tree) => NoNullIn(Tree)'
    BY <2>1, <2>14, <2>17 DEF NoNullIn, Tree
  <2>28. parent'[NIL] = parent[NIL]
    BY <2>1, <2>17, <2>19
  <2> QED
    BY <2>16, <2>24, <2>26, <2>27, <2>28 DEF RbInv
<1> QED
  BY <1>1, <1>2, <1>3

-----------------------------------------------------------------------------
(* A step that changes nothing keeps the invariant.                        *)
LEMMA StutterStep == RbInv /\ UNCHANGED vars => RbInv' /\ InTree' = InTree
<1> SUFFICES ASSUME RbInv, UNCHANGED vars PROVE RbInv' /\ InTree' = InTree
  OBVIOUS
<1>1. /\ UNCHANGED links /\ UNCHANGED <<links, color>> /\ color' = color
      /\ root' = root /\ left' = left /\ right' = right /\ parent' = parent
      /\ size' = size /\ pc' = pc /\ target' = target /\ cur' = cur /\ above' = above
      /\ refusals' = refusals
  BY DEF vars, links
<1>2. /\ \A n : Below(n)' = Below(n)
      /\ InTree' = InTree /\ Nodes' = Nodes
      /\ Shaped(left, right, parent, root, Nodes, TRUE)' /\ LooseNodes'
  BY <1>1, SameLinks DEF RbInv
<1>3. Even(left, right, color, Heights, NIL, TRUE)'
  BY <1>1, SameColors DEF RbInv, ColorInv
<1>4. ScalarType'
  BY <1>1 DEF RbInv, TreeInv, ScalarType
<1>5. OnTheWay => OnTheWay'
  <2>1. Below(cur)' = Below(cur)
    BY <1>1 DEF Below
  <2> QED
    BY <1>1, <1>2, <2>1 DEF OnTheWay
<1>6. TreeInv'
  BY <1>1, <1>2, <1>4, <1>5 DEF RbInv, TreeInv
<1>7. ColorInv'
  BY <1>1, <1>2, <1>3 DEF RbInv, ColorInv
<1> QED
  BY <1>2, <1>6, <1>7 DEF RbInv

(* Every step keeps the invariant, and the keys unless it destroys them.   *)
LEMMA RbNext == RbInv /\ [Next]_vars => RbInv' /\ (InTree \subseteq InTree' \/ pc' = "destroyed")
<1> SUFFICES ASSUME RbInv, [Next]_vars
             PROVE  RbInv' /\ (InTree \subseteq InTree' \/ pc' = "destroyed")
  OBVIOUS
<1>1. CASE \E k \in Keys : Insert(k)
  BY <1>1, InsertStep
<1>2. CASE Destroy
  BY <1>2, DestroyStep DEF Destroy
<1>3. CASE DestroyNull
  BY <1>3, DestroyNullStep
<1>4. CASE StopDescent
  BY <1>4, StopDescentStep
<1>5. CASE Descend
  BY <1>5, DescendStep
<1>6. CASE AttachNode
  BY <1>6, AttachNodeStep
<1>7. CASE AttachNull
  BY <1>7, AttachNullStep
<1>8. CASE Recolor
  BY <1>8, RecolorStep
<1>9. CASE RotateUp
  BY <1>9, RotateUpStep
<1>10. CASE NullUncle
  BY <1>10, NullUncleStep
<1>11. CASE Balanced
  BY <1>11, BalancedStep
<1>12. CASE UNCHANGED vars
  BY <1>12, StutterStep
<1> QED
  BY <1>1, <1>2, <1>3, <1>4, <1>5, <1>6, <1>7, <1>8, <1>9, <1>10, <1>11, <1>12 DEF Next, Continue

(* The inductive invariant of insertion: whatever the callers insert and   *)
(* whatever the arena refuses, the nodes are a search tree whose paths     *)
(* carry the same number of black nodes, and a descent or a rebalancing is *)
(* where it should be.                                                     *)
THEOREM RbInvariant == Spec => []RbInv
<1>1. Init => RbInv
  BY RbInit
<1>2. RbInv /\ [Next]_vars => RbInv'
  BY RbNext
<1> QED
  BY <1>1, <1>2, PTL DEF Spec

-----------------------------------------------------------------------------
(* SearchOrder *)
LEMMA RbIsOrdered == RbInv => SearchOrder
<1> SUFFICES ASSUME RbInv, NEW n \in InTree
             PROVE  /\ \A m \in Below(left[n]) : m < n
                    /\ \A m \in Below(right[n]) : m > n
  BY DEF SearchOrder
<1>1. n \in Keys
  BY LinkFacts DEF RbInv
<1> QED
  BY <1>1, NodeFacts DEF RbInv

(* __internal_insert_bst and the rotations of __rb_tree_balance keep       *)
(* smaller keys to the left and larger ones to the right, in every state.  *)
THEOREM KeysAreInSearchOrder == Spec => []SearchOrder
BY RbIsOrdered, RbInvariant, PTL

SentinelKept == parent[NIL] = NIL

(* The parent of the sentinel is never written by an insertion.            *)
LEMMA SentinelIsKept == Spec => []SentinelKept
<1>1. Init => SentinelKept
  BY CellsAndRefs DEF Init, SentinelKept
<1>2. RbInv /\ SentinelKept /\ [Next]_vars => SentinelKept'
  <2> SUFFICES ASSUME RbInv, parent[NIL] = NIL, [Next]_vars PROVE parent'[NIL] = NIL
    BY DEF SentinelKept
  <2>1. CASE RotateUp
    BY <2>1, RotateUpStep
  <2>2. CASE AttachNode
    <3>1. target \in Keys
      BY <2>2, DescentEnds DEF AttachNode
    <3>2. parent \in [Cells -> Cells]
      BY TreeFacts DEF RbInv
    <3> QED
      BY <2>2, <3>1, <3>2, CellsAndRefs DEF AttachNode
  <2>3. CASE Destroy
    BY <2>3, CellsAndRefs DEF Destroy
  <2>4. CASE (\E k \in Keys : Insert(k)) \/ StopDescent \/ Descend \/ Recolor \/ Balanced
    BY <2>4 DEF Insert, StopDescent, Descend, Recolor, Balanced, links
  <2>5. CASE AttachNull \/ NullUncle \/ DestroyNull \/ UNCHANGED vars
    BY <2>5 DEF AttachNull, NullUncle, DestroyNull, Crash, vars, links
  <2> QED
    BY <2>1, <2>2, <2>3, <2>4, <2>5 DEF Next, Continue
<1> QED
  BY <1>1, <1>2, RbInvariant, PTL DEF Spec

(* Every child knows its parent, the sentinel is never written by a        *)
(* rotation and m_size counts the nodes, in every state.                   *)
THEOREM NodesAreLinked == Spec => []Linked
<1>1. RbInv /\ SentinelKept => Linked
  <2> SUFFICES ASSUME RbInv, SentinelKept PROVE Linked
    OBVIOUS
  <2>1. \A n \in InTree : \A c \in {left[n], right[n]} \intersect Keys : parent[c] = n
    BY LinkFacts DEF RbInv
  <2>2. root \in Keys => parent[root] = NIL
    BY LinkFacts DEF RbInv
  <2>3. left[NIL] = NIL /\ right[NIL] = NIL
    BY TreeFacts DEF RbInv
  <2> QED
    BY <2>1, <2>2, <2>3 DEF Linked, RbInv, TreeInv, ScalarType, SentinelKept
<1> QED
  BY <1>1, RbInvariant, SentinelIsKept, PTL

(* What the inductive invariant says about colors and heights.             *)
LEMMA RbIsBalanced == RbInv => BlackHeight(root) >= 0
<1> SUFFICES ASSUME RbInv PROVE BlackHeight(root) >= 0
  OBVIOUS
<1>1. Grown(left, right, Nodes, TRUE) /\ root \in Refs
  BY TreeFacts DEF RbInv
<1>2. Even(left, right, color, Heights, NIL, TRUE)
  BY DEF RbInv, ColorInv
<1>3. BlackHeight(root) = Heights[root] /\ Heights[root] \in Nat
  BY <1>1, <1>2, HeightsNow DEF Even
<1> QED
  BY <1>3

(* __rb_tree_balance leaves a red-black tree: all paths carry the same     *)
(* number of black nodes throughout, and two red nodes meet only at the    *)
(* node being balanced.                                                    *)
THEOREM TreeIsRedBlack == Spec => []RedBlack
<1>1. RbInv => RedBlack
  BY RbIsBalanced DEF RedBlack, RbInv, ColorInv
<1> QED
  BY <1>1, RbInvariant, PTL

(* No step but the destructor takes a key out of the tree: insertions,     *)
(* refusals, recolorings and rotations keep those inserted before.         *)
THEOREM InsertedKeysStay == Spec => KeysStay
<1>1. RbInv /\ [Next]_vars => [InTree \subseteq InTree' \/ pc' = "destroyed"]_vars
  BY RbNext
<1> QED
  BY <1>1, RbInvariant, PTL DEF Spec, KeysStay

-----------------------------------------------------------------------------
(* No link is null while no node was refused.                              *)
NoNulls == refusals = 0 => NoNullIn(Tree)

(* Rotations and new leaves make no null link, only a refusal does.        *)
LEMMA NoNullsNext == RbInv /\ NoNulls /\ [Next]_vars => NoNulls'
<1> SUFFICES ASSUME RbInv, NoNulls, [Next]_vars, refusals' = 0 PROVE NoNullIn(Tree)'
  BY DEF NoNulls
<1>1. /\ NoNullIn(Tree) <=> root # NULL /\ \A n \in Keys : left[n] # NULL /\ right[n] # NULL
      /\ NoNullIn(Tree)' <=> root' # NULL /\ \A n \in Keys : left'[n] # NULL /\ right'[n] # NULL
  BY DEF NoNullIn, Tree
<1>2. refusals \in Nat
  BY DEF RbInv, TreeInv, ScalarType
<1>3. ASSUME UNCHANGED links, refusals' = refusals
      PROVE  NoNullIn(Tree)'
  BY <1>1, <1>3 DEF links, NoNulls
<1>4. CASE Destroy
  BY <1>1, <1>4, CellsAndRefs DEF Destroy
<1>5. CASE AttachNode
  <2>1. /\ pc = "descend" /\ cur = NIL /\ Attach(target) /\ refusals' = refusals
    BY <1>5 DEF AttachNode
  <2>2. NoNullIn(Tree)
    BY <2>1 DEF NoNulls
  <2>3. target \in Keys /\ target \in {target, NULL}
    BY <2>1, DescentEnds
  <2>4. /\ root' = IF above = NIL THEN target ELSE root
        /\ \A m \in Keys \ {above} : left'[m] = left[m] /\ right'[m] = right[m]
        /\ above # NIL =>
             \/ left'[above] = target /\ right'[above] = right[above]
             \/ right'[above] = target /\ left'[above] = left[above]
    BY <2>1, <2>3, AttachedLinks
  <2>5. ASSUME NEW m \in Keys
        PROVE  left'[m] # NULL /\ right'[m] # NULL
    <3>1. m # NIL /\ target # NULL
      BY <2>3, CellsAndRefs
    <3>2. CASE m = above
      BY <1>1, <2>2, <2>4, <3>1, <3>2
    <3>3. CASE m # above
      BY <1>1, <2>2, <2>4, <3>3
    <3> QED
      BY <3>2, <3>3
  <2>6. root' # NULL
    BY <1>1, <2>2, <2>3, <2>4, CellsAndRefs
  <2> QED
    BY <1>1, <2>5, <2>6
<1>6. CASE AttachNull
  BY <1>2, <1>6 DEF AttachNull
<1>7. CASE RotateUp
  BY <1>7, RotateUpStep DEF RotateUp, NoNulls
<1>8. CASE \E k \in Keys : Insert(k)
  BY <1>3, <1>8 DEF Insert
<1>9. CASE StopDescent \/ Descend \/ Recolor \/ Balanced
  BY <1>3, <1>9 DEF StopDescent, Descend, Recolor, Balanced
<1>10. CASE NullUncle \/ DestroyNull
  BY <1>3, <1>10 DEF NullUncle, DestroyNull, Crash
<1>11. CASE UNCHANGED vars
  BY <1>3, <1>11 DEF vars
<1> QED
  BY <1>4, <1>5, <1>6, <1>7, <1>8, <1>9, <1>10, <1>11 DEF Next, Continue

(* Links are null only after a refusal.                                    *)
LEMMA NoNullsInvariant == Spec => [](RbInv /\ NoNulls)
<1>1. Init => NoNulls
  BY CellsAndRefs DEF Init, NoNulls, NoNullIn, Tree
<1>2. RbInv /\ NoNulls /\ [Next]_vars => NoNulls'
  BY NoNullsNext
<1> QED
  BY <1>1, <1>2, RbInvariant, PTL DEF Spec

-----------------------------------------------------------------------------
(* The first node of a set in the order of the tree.                       *)
IsFirst(v, S, up) == v \in S /\ \A k \in S : k = v \/ Before(v, k, up)

FirstOf(S, up) == CHOOSE v : IsFirst(v, S, up)

(* There is one first node at most.                                        *)
LEMMA FirstIsUnique ==
  ASSUME NEW S \in SUBSET Keys, NEW up, NEW v, IsFirst(v, S, up)
  PROVE  FirstOf(S, up) = v
<1>1. IsFirst(FirstOf(S, up), S, up)
  BY DEF FirstOf
<1>2. ASSUME NEW w, IsFirst(w, S, up)
      PROVE  w = v
  BY <1>2, BeforeOrders DEF IsFirst
<1> QED
  BY <1>1, <1>2

(* A set with a node below another has a first one: the search goes left,  *)
(* stays or goes right.                                                    *)
LEMMA FirstBelow ==
  ASSUME NEW l, NEW r, NEW F, NEW up, Grown(l, r, F, up), NEW S \in SUBSET Keys,
         NEW a \in Refs, S \intersect F[a] # {}
  PROVE  IsFirst(FirstOf(S \intersect F[a], up), S \intersect F[a], up)
<1> DEFINE P == {m \in Refs : S \intersect F[m] # {} => \E v : IsFirst(v, S \intersect F[m], up)}
<1>1. Refs \ Keys \subseteq P
  BY DEF Grown, Unfolds
<1>2. ASSUME NEW m \in Keys, l[m] \in P, r[m] \in P
      PROVE  m \in P
  <2>1. /\ l[m] \in Refs /\ r[m] \in Refs /\ m \in Refs
        /\ F[l[m]] \in SUBSET Keys /\ F[r[m]] \in SUBSET Keys
        /\ F[m] = {m} \union F[l[m]] \union F[r[m]]
    BY ChildrenAreBelow, CellsAndRefs
  <2>2. /\ \A k \in F[l[m]] : Before(k, m, up)
        /\ \A k \in F[r[m]] : Before(m, k, up)
    BY DEF Grown, Sorted
  <2>3. \A j \in F[l[m]] : \A k \in F[r[m]] : Before(j, k, up)
    BY <2>1, <2>2, BeforeOrders
  <2> SUFFICES ASSUME S \intersect F[m] # {}
               PROVE  \E v : IsFirst(v, S \intersect F[m], up)
    BY <2>1
  <2>4. CASE S \intersect F[l[m]] # {}
    <3>1. PICK v : IsFirst(v, S \intersect F[l[m]], up)
      BY <1>2, <2>4
    <3>2. IsFirst(v, S \intersect F[m], up)
      BY <2>1, <2>2, <2>3, <3>1 DEF IsFirst
    <3> QED
      BY <3>2
  <2>5. CASE S \intersect F[l[m]] = {} /\ m \in S
    <3>1. IsFirst(m, S \intersect F[m], up)
      BY <2>1, <2>2, <2>5 DEF IsFirst
    <3> QED
      BY <3>1
  <2>6. CASE S \intersect F[l[m]] = {} /\ m \notin S
    <3>1. S \intersect F[m] = S \intersect F[r[m]]
      BY <2>1, <2>6
    <3> QED
      BY <1>2, <3>1
  <2> QED
    BY <2>4, <2>5, <2>6
<1>3. Refs \subseteq P
  <2> HIDE DEF P
  <2> QED
    BY <1>1, <1>2, TreeInduction
<1>4. \E v : IsFirst(v, S \intersect F[a], up)
  BY <1>3
<1> QED
  BY <1>4 DEF FirstOf

-----------------------------------------------------------------------------
(* Down one side: the first node of a subtree.                             *)
Down(l, n) ==
  LET down[m \in Keys] == IF l[m] \in Keys THEN down[l[m]] ELSE m IN down[n]

(* Down the left links, or the right ones in the mirror image, the loop    *)
(* ends at the first node of the subtree.                                  *)
LEMMA DownIsFirst ==
  ASSUME NEW l, NEW r, NEW F, NEW up, Grown(l, r, F, up)
  PROVE  \A n \in Keys : IsFirst(Down(l, n), F[n], up)
<1> DEFINE down[m \in Keys] == IF l[m] \in Keys THEN down[l[m]] ELSE m
           g == [m \in Keys |-> FirstOf(F[m], up)]
<1>1. ASSUME NEW m \in Keys
      PROVE  IsFirst(g[m], F[m], up)
  <2>1. m \in F[m] /\ m \in Refs /\ F[m] \in SUBSET Keys
    BY ChildrenAreBelow, CellsAndRefs
  <2>2. Keys \intersect F[m] = F[m] /\ Keys \in SUBSET Keys
    BY <2>1
  <2> QED
    BY <2>1, <2>2, FirstBelow
<1>2. ASSUME NEW m \in Keys
      PROVE  g[m] = IF l[m] \in Keys THEN g[l[m]] ELSE m
  <2>1. /\ l[m] \in Refs /\ m \in Refs
        /\ F[l[m]] \in SUBSET Keys /\ F[r[m]] \in SUBSET Keys
        /\ F[m] = {m} \union F[l[m]] \union F[r[m]]
    BY ChildrenAreBelow, CellsAndRefs
  <2>2. /\ \A k \in F[l[m]] : Before(k, m, up)
        /\ \A k \in F[r[m]] : Before(m, k, up)
    BY DEF Grown, Sorted
  <2>3. \A j \in F[l[m]] : \A k \in F[r[m]] : Before(j, k, up)
    BY <2>1, <2>2, BeforeOrders
  <2>4. F[m] \in SUBSET Keys
    BY <2>1
  <2>5. CASE l[m] \in Keys
    <3>1. IsFirst(g[l[m]], F[l[m]], up)
      BY <1>1, <2>5
    <3>2. IsFirst(g[l[m]], F[m], up)
      BY <2>1, <2>2, <2>3, <3>1 DEF IsFirst
    <3>3. FirstOf(F[m], up) = g[l[m]]
      BY <2>4, <3>2, FirstIsUnique
    <3> QED
      BY <2>5, <3>3
  <2>6. CASE l[m] \notin Keys
    <3>1. F[l[m]] = {}
      BY <2>1, <2>6 DEF Grown, Unfolds
    <3>2. IsFirst(m, F[m], up)
      BY <2>1, <2>2, <3>1 DEF IsFirst
    <3>3. FirstOf(F[m], up) = m
      BY <2>4, <3>2, FirstIsUnique
    <3> QED
      BY <2>6, <3>3
  <2> QED
    BY <2>5, <2>6
<1>3. g = [m \in Keys |-> IF l[m] \in Keys THEN g[l[m]] ELSE m]
  BY <1>2
<1> HIDE DEF g
<1>4. \E f : f = [m \in Keys |-> IF l[m] \in Keys THEN f[l[m]] ELSE m]
  BY <1>3
<1>5. down = [m \in Keys |-> IF l[m] \in Keys THEN down[l[m]] ELSE m]
  BY <1>4
<1> HIDE DEF down
<1> DEFINE P == {m \in Refs : m \in Keys => down[m] = g[m]}
<1>6. Refs \ Keys \subseteq P
  OBVIOUS
<1>7. \A n \in Keys : l[n] \in P /\ r[n] \in P => n \in P
  BY <1>2, <1>5, CellsAndRefs
<1>8. Refs \subseteq P
  <2> HIDE DEF P
  <2> QED
    BY <1>6, <1>7, TreeInduction
<1>9. \A n : Down(l, n) = down[n]
  BY DEF Down, down
<1> QED
  BY <1>1, <1>8, <1>9, CellsAndRefs

-----------------------------------------------------------------------------
(* Up through the parents: the first node after a subtree.                 *)
UpFrom(r, q, n) ==
  LET up[m \in Keys] == IF m = r[q[m]] THEN up[q[m]] ELSE q[m] IN up[n]

Beyond(F, top, n, up) == {k \in F[top] \ F[n] : Before(n, k, up)}

FirstIn(S, up) == IF S = {} THEN NIL ELSE FirstOf(S, up)

(* A node outside the tree has no parent.                                  *)
Loose(q, F, top) == \A n \in Keys \ F[top] : q[n] = NIL

(* Up the parents the loop ends at the first node after the subtree, or at *)
(* the sentinel when there is none.                                        *)
LEMMA UpIsBeyond ==
  ASSUME NEW l, NEW r, NEW q, NEW top, NEW F, NEW up, Shaped(l, r, q, top, F, up),
         \A n \in Keys \ F[top] : q[n] = NIL
  PROVE  \A n \in F[top] : UpFrom(r, q, n) = FirstIn(Beyond(F, top, n, up), up)
<1> DEFINE climb[m \in Keys] == IF m = r[q[m]] THEN climb[q[m]] ELSE q[m]
           g == [m \in Keys |-> IF m \in F[top] THEN FirstIn(Beyond(F, top, m, up), up) ELSE NIL]
<1>1. /\ Grown(l, r, F, up) /\ top \in Refs /\ F[top] \in SUBSET Keys /\ r[NIL] = NIL
      /\ Hooked(l, r, q, top, F)
  BY NodesAreHooked DEF Shaped, Parented, Grown, Unfolds
<1>2. ASSUME NEW m \in F[top]
      PROVE  /\ m \in Keys
             /\ m = r[q[m]] => /\ q[m] \in F[top] /\ Before(q[m], m, up)
                               /\ Beyond(F, top, m, up) = Beyond(F, top, q[m], up)
             /\ m # r[q[m]] => FirstIn(Beyond(F, top, m, up), up) = q[m]
  <2>1. m \in Keys /\ F[m] \in SUBSET Keys /\ m \in F[m]
    <3>1. m \in Keys
      BY <1>1
    <3> QED
      BY <1>1, <3>1, ChildrenAreBelow
  <2>2. CASE m = top
    <3>1. q[m] = NIL
      BY <1>1, <2>2 DEF Hooked
    <3>2. m # r[q[m]]
      BY <1>1, <2>1, <3>1, CellsAndRefs
    <3>3. Beyond(F, top, m, up) = {}
      BY <2>2 DEF Beyond
    <3> QED
      BY <2>1, <3>1, <3>2, <3>3 DEF FirstIn
  <2>3. CASE m # top
    <3> DEFINE p == q[m]
    <3>1. p \in F[top] /\ (l[p] = m \/ r[p] = m)
      BY <1>1, <2>3 DEF Hooked
    <3> HIDE DEF p
    <3>2. p \in Keys
      BY <1>1, <3>1
    <3>3. /\ F[p] = {p} \union F[l[p]] \union F[r[p]]
          /\ F[l[p]] \in SUBSET Keys /\ F[r[p]] \in SUBSET Keys
          /\ p \notin F[l[p]] /\ p \notin F[r[p]]
      BY <1>1, <3>2, ChildrenAreBelow
    <3>4. /\ \A k \in F[l[p]] : Before(k, p, up)
          /\ \A k \in F[r[p]] : Before(p, k, up)
      BY <1>1, <3>2 DEF Grown, Sorted
    <3>5. m \in F[p]
      BY <2>1, <3>1, <3>3
    <3>6. ASSUME NEW k \in F[top] \ F[p]
          PROVE  k \in Keys /\ (Before(m, k, up) <=> Before(p, k, up))
      <4>1. k \in Keys /\ (Before(k, m, up) <=> Before(k, p, up))
        BY <1>1, <3>1, <3>5, <3>6, BelowIsConvex
      <4>2. k # m /\ k # p
        BY <3>3, <3>5, <3>6
      <4> QED
        BY <2>1, <3>2, <4>1, <4>2, BeforeOrders
    <3>7. CASE r[p] = m
      <4>1. Before(p, m, up)
        BY <2>1, <3>4, <3>7
      <4>2. \A k \in F[l[p]] : ~Before(m, k, up)
        BY <2>1, <3>2, <3>3, <3>4, <4>1, BeforeOrders
      <4>3. ~Before(m, p, up)
        BY <2>1, <3>2, <4>1, BeforeOrders
      <4>4. \A k \in F[p] : k \in F[m] \/ ~Before(m, k, up)
        BY <3>3, <3>7, <4>2, <4>3
      <4>5. F[m] \subseteq F[p]
        BY <3>3, <3>7
      <4>6. Beyond(F, top, m, up) = Beyond(F, top, p, up)
        BY <3>6, <4>4, <4>5 DEF Beyond
      <4> QED
        BY <2>1, <3>1, <3>7, <4>1, <4>6 DEF p
    <3>8. CASE r[p] # m
      <4>1. l[p] = m
        BY <3>1, <3>8
      <4>2. Before(m, p, up)
        BY <2>1, <3>4, <4>1
      <4>3. p \in Beyond(F, top, m, up)
        BY <3>1, <3>3, <4>1, <4>2 DEF Beyond
      <4>4. ASSUME NEW k \in Beyond(F, top, m, up), k # p
            PROVE  Before(p, k, up)
        <5>1. k \in F[top] /\ k \notin F[m] /\ Before(m, k, up)
          BY DEF Beyond
        <5>2. CASE k \in F[p]
          BY <3>3, <3>4, <4>1, <4>4, <5>1, <5>2
        <5>3. CASE k \notin F[p]
          BY <3>6, <5>1, <5>3
        <5> QED
          BY <5>2, <5>3
      <4>5. IsFirst(p, Beyond(F, top, m, up), up)
        BY <4>3, <4>4 DEF IsFirst
      <4>6. Beyond(F, top, m, up) \in SUBSET Keys
        BY <1>1 DEF Beyond
      <4>7. FirstIn(Beyond(F, top, m, up), up) = p
        BY <4>3, <4>5, <4>6, FirstIsUnique DEF FirstIn
      <4> QED
        BY <2>1, <3>8, <4>7 DEF p
    <3> QED
      BY <3>7, <3>8
  <2> QED
    BY <2>2, <2>3
<1>3. ASSUME NEW m \in Keys
      PROVE  g[m] = IF m = r[q[m]] THEN g[q[m]] ELSE q[m]
  <2>1. CASE m \in F[top]
    <3>1. CASE m = r[q[m]]
      <4>1. q[m] \in F[top] /\ q[m] \in Keys /\ Beyond(F, top, m, up) = Beyond(F, top, q[m], up)
        BY <1>1, <1>2, <2>1, <3>1
      <4> QED
        BY <2>1, <3>1, <4>1
    <3>2. CASE m # r[q[m]]
      BY <1>2, <2>1, <3>2
    <3> QED
      BY <3>1, <3>2
  <2>2. CASE m \notin F[top]
    <3>1. q[m] = NIL
      BY <2>2
    <3>2. m # r[q[m]]
      BY <1>1, <3>1, CellsAndRefs
    <3> QED
      BY <2>2, <3>1, <3>2
  <2> QED
    BY <2>1, <2>2
<1>4. \A m \in F[top] : g[m] = FirstIn(Beyond(F, top, m, up), up)
  BY <1>1
<1>5. g = [m \in Keys |-> IF m = r[q[m]] THEN g[q[m]] ELSE q[m]]
  BY <1>3
<1> HIDE DEF g
<1>6. \E f : f = [m \in Keys |-> IF m = r[q[m]] THEN f[q[m]] ELSE q[m]]
  BY <1>5
<1>7. climb = [m \in Keys |-> IF m = r[q[m]] THEN climb[q[m]] ELSE q[m]]
  BY <1>6
<1> HIDE DEF climb
<1> DEFINE Bad == {m \in F[top] : climb[m] # g[m]}
<1>8. Bad = {}
  <2> SUFFICES ASSUME Bad # {} PROVE FALSE
    OBVIOUS
  <2>1. Bad \in SUBSET Keys /\ Bad \intersect F[top] = Bad
    BY <1>1
  <2>2. PICK m : IsFirst(m, Bad, up)
    <3> HIDE DEF Bad
    <3> QED
      BY <1>1, <2>1, FirstBelow
  <2>3. m \in F[top] /\ climb[m] # g[m] /\ m \in Keys
    BY <2>1, <2>2 DEF IsFirst
  <2>4. m = r[q[m]]
    BY <1>3, <1>7, <2>3
  <2>5. q[m] \in F[top] /\ Before(q[m], m, up) /\ q[m] \in Keys
    BY <1>1, <1>2, <2>3, <2>4
  <2>6. climb[q[m]] # g[q[m]]
    BY <1>3, <1>7, <2>3, <2>4
  <2>7. q[m] = m \/ Before(m, q[m], up)
    BY <2>2, <2>5, <2>6 DEF IsFirst
  <2> QED
    BY <2>3, <2>5, <2>7, BeforeOrders
<1>9. \A n : UpFrom(r, q, n) = climb[n]
  BY DEF UpFrom, climb
<1> QED
  BY <1>4, <1>8, <1>9

-----------------------------------------------------------------------------
After(F, top, n, up) == {k \in F[top] : Before(n, k, up)}

NextIn(l, r, q, n) == IF r[n] # NIL THEN Down(l, r[n]) ELSE UpFrom(r, q, n)

(* The step of the walk leads to the first of the nodes after a node.      *)
LEMMA NextInOrder ==
  ASSUME NEW l, NEW r, NEW q, NEW top, NEW F, NEW up, Shaped(l, r, q, top, F, up),
         Loose(q, F, top),
         NEW n \in F[top], r[n] # NULL
  PROVE  NextIn(l, r, q, n) = FirstIn(After(F, top, n, up), up)
<1> DEFINE S == {k \in F[top] : Before(n, k, up)}
<1> SUFFICES NextIn(l, r, q, n) = FirstIn(S, up)
  BY DEF After
<1>1. /\ Grown(l, r, F, up) /\ top \in Refs /\ F[top] \in SUBSET Keys /\ n \in Keys
  BY DEF Shaped, Parented, Grown, Unfolds
<1>2. /\ F[n] = {n} \union F[l[n]] \union F[r[n]] /\ r[n] \in Refs
      /\ F[l[n]] \in SUBSET Keys /\ F[r[n]] \in SUBSET Keys
  BY <1>1, ChildrenAreBelow
<1>3. /\ \A k \in F[l[n]] : Before(k, n, up)
      /\ \A k \in F[r[n]] : Before(n, k, up)
  BY <1>1 DEF Grown, Sorted
<1>4. F[n] \subseteq F[top]
  BY <1>1, BelowIsClosed
<1>5. ~Before(n, n, up) /\ \A k \in F[l[n]] : ~Before(n, k, up)
  BY <1>1, <1>2, <1>3, BeforeOrders
<1>6. CASE r[n] = NIL
  <2>1. F[r[n]] = {}
    BY <1>1, <1>6, CellsAndRefs DEF Grown, Unfolds
  <2>2. S = Beyond(F, top, n, up)
    BY <1>2, <1>5, <2>1 DEF Beyond
  <2> QED
    BY <1>6, <2>2, UpIsBeyond DEF NextIn, Loose
<1>7. CASE r[n] # NIL
  <2> DEFINE v == Down(l, r[n])
  <2>1. r[n] \in Keys
    BY <1>2, <1>7, CellsAndRefs
  <2>2. IsFirst(v, F[r[n]], up)
    BY <1>1, <2>1, DownIsFirst
  <2> HIDE DEF v
  <2>3. v \in F[r[n]] /\ v \in Keys /\ v \in F[n] /\ v \in S
    BY <1>2, <1>3, <1>4, <2>2 DEF IsFirst
  <2>4. ASSUME NEW k \in S, k # v
        PROVE  Before(v, k, up)
    <3>1. k \in Keys /\ Before(n, k, up)
      BY <1>1
    <3>2. CASE k \in F[n]
      <4>1. k \in F[r[n]]
        BY <1>2, <1>5, <3>1, <3>2
      <4> QED
        BY <2>2, <2>4, <4>1 DEF IsFirst
    <3>3. CASE k \notin F[n]
      <4>1. Before(k, v, up) <=> Before(k, n, up)
        BY <1>1, <2>3, <3>3, BelowIsConvex
      <4>2. ~Before(k, n, up)
        BY <1>1, <3>1, BeforeOrders
      <4> QED
        BY <2>3, <2>4, <3>1, <4>1, <4>2, BeforeOrders
    <3> QED
      BY <3>2, <3>3
  <2>5. IsFirst(v, S, up)
    BY <2>3, <2>4 DEF IsFirst
  <2>6. S \in SUBSET Keys /\ S # {}
    BY <1>1, <2>3
  <2>7. FirstIn(S, up) = v
    <3> HIDE DEF S
    <3> QED
      BY <2>5, <2>6, FirstIsUnique DEF FirstIn
  <2> QED
    BY <1>7, <2>7 DEF NextIn, v
<1> QED
  BY <1>6, <1>7

-----------------------------------------------------------------------------
(* First and last in the order of the keys.                                *)
LEMMA FirstIsMin ==
  ASSUME NEW S \in SUBSET Keys, NEW v, IsFirst(v, S, TRUE)
  PROVE  Min(S) = v
<1>1. v \in S /\ \A k \in S : v =< k
  BY KeysAreInts DEF IsFirst, Before
<1>2. \A w \in S : (\A k \in S : w =< k) => w = v
  BY <1>1, KeysAreInts
<1> QED
  BY <1>1, <1>2 DEF Min

(* The first node of the opposite order is the largest key.                *)
LEMMA LastIsMax ==
  ASSUME NEW S \in SUBSET Keys, NEW v, IsFirst(v, S, FALSE)
  PROVE  Max(S) = v
<1>1. v \in S /\ \A k \in S : v >= k
  BY KeysAreInts DEF IsFirst, Before
<1>2. \A w \in S : (\A k \in S : w >= k) => w = v
  BY <1>1, KeysAreInts
<1> QED
  BY <1>1, <1>2 DEF Max

(* The first node of a set of nodes of the tree.                           *)
LEMMA FirstInTree ==
  ASSUME NEW l, NEW r, NEW F, NEW up, Grown(l, r, F, up), NEW a \in Refs,
         NEW S \in SUBSET F[a], S # {}
  PROVE  IsFirst(FirstIn(S, up), S, up)
<1>1. S \in SUBSET Keys /\ S \intersect F[a] = S
  BY DEF Grown, Unfolds
<1>2. IsFirst(FirstOf(S \intersect F[a], up), S \intersect F[a], up)
  BY <1>1, FirstBelow
<1> QED
  BY <1>1, <1>2 DEF FirstIn

-----------------------------------------------------------------------------
(* The search, as a function of the links.                                 *)
FoundIn(l, r, k, n) ==
  LET search[m \in Keys] ==
        IF k = m THEN TRUE
        ELSE LET child == IF Smaller(k, m) THEN l[m] ELSE r[m]
             IN child \in Keys /\ search[child]
  IN search[n]

(* It finds exactly the keys below the node it begins at.                  *)
LEMMA SearchFinds ==
  ASSUME NEW l, NEW r, NEW F, Grown(l, r, F, TRUE), NEW k \in Keys
  PROVE  \A n \in Keys : FoundIn(l, r, k, n) <=> k \in F[n]
<1> DEFINE search[m \in Keys] ==
             IF k = m THEN TRUE
             ELSE LET child == IF Smaller(k, m) THEN l[m] ELSE r[m]
                  IN child \in Keys /\ search[child]
           Way(m) == IF Smaller(k, m) THEN l[m] ELSE r[m]
           g == [m \in Keys |-> IF k \in F[m] THEN TRUE ELSE FALSE]
<1> HIDE DEF Way, search, g
<1>0. \A m : Way(m) = IF Smaller(k, m) THEN l[m] ELSE r[m]
  BY DEF Way
<1>1. ASSUME NEW m \in Keys
      PROVE  k \in F[m] <=> k = m \/ (Way(m) \in Keys /\ k \in F[Way(m)])
  <2>1. /\ l[m] \in Refs /\ r[m] \in Refs
        /\ F[l[m]] \in SUBSET Keys /\ F[r[m]] \in SUBSET Keys
        /\ F[m] = {m} \union F[l[m]] \union F[r[m]]
    <3>1. \A up : Grown(l, r, F, up)
                  => /\ l[m] \in Refs /\ r[m] \in Refs
                     /\ F[l[m]] \in SUBSET Keys /\ F[r[m]] \in SUBSET Keys
                     /\ F[m] = {m} \union F[l[m]] \union F[r[m]]
      BY ChildrenAreBelow
    <3> QED
      BY <3>1
  <2>0. \A c \in Refs \ Keys : F[c] = {}
    BY DEF Grown, Unfolds
  <2>2. /\ \A j \in F[l[m]] : j < m
        /\ \A j \in F[r[m]] : m < j
    BY DEF Grown, Sorted, Before
  <2>3. k \in Int /\ m \in Int
    BY KeysAreInts
  <2>4. CASE k = m
    BY <2>1, <2>4
  <2>5. CASE k < m
    <3>1. k \in F[m] <=> k \in F[l[m]]
      BY <2>1, <2>2, <2>3, <2>5
    <3>2. Way(m) = l[m] /\ k # m
      BY <1>0, <2>3, <2>5, SmallerIsLess
    <3>3. k \in F[l[m]] => l[m] \in Keys
      BY <2>0, <2>1
    <3> QED
      BY <3>1, <3>2, <3>3
  <2>6. CASE m < k
    <3>1. k \in F[m] <=> k \in F[r[m]]
      BY <2>1, <2>2, <2>3, <2>6
    <3>2. Way(m) = r[m] /\ k # m
      BY <1>0, <2>3, <2>6, SmallerIsLess
    <3>3. k \in F[r[m]] => r[m] \in Keys
      BY <2>0, <2>1
    <3> QED
      BY <3>1, <3>2, <3>3
  <2> QED
    BY <2>3, <2>4, <2>5, <2>6
<1> USE DEF g
<1>2. g = [m \in Keys |-> IF k = m THEN TRUE
                         ELSE LET child == IF Smaller(k, m) THEN l[m] ELSE r[m]
                              IN child \in Keys /\ g[child]]
  <2>1. ASSUME NEW m \in Keys
        PROVE  g[m] = IF k = m THEN TRUE ELSE Way(m) \in Keys /\ g[Way(m)]
    <3>1. \A c \in Keys : g[c] = IF k \in F[c] THEN TRUE ELSE FALSE
      OBVIOUS
    <3> HIDE DEF g
    <3>2. CASE k = m
      BY <1>1, <3>1, <3>2, Zenon
    <3>3. CASE k # m /\ Way(m) \in Keys
      <4>1. g[m] = g[Way(m)]
        BY <1>1, <3>1, <3>3
      <4>2. g[Way(m)] \in BOOLEAN
        BY <3>1, <3>3
      <4>3. (Way(m) \in Keys /\ g[Way(m)]) = g[Way(m)]
        BY <3>3, <4>2
      <4> QED
        BY <3>3, <4>1, <4>3, Zenon
    <3>4. CASE k # m /\ Way(m) \notin Keys
      <4>1. g[m] = FALSE
        BY <1>1, <3>1, <3>4
      <4>2. (Way(m) \in Keys /\ g[Way(m)]) = FALSE
        BY <3>4
      <4> QED
        BY <3>4, <4>1, <4>2, Zenon
    <3> QED
      BY <3>2, <3>3, <3>4
  <2> QED
    BY <1>0, <2>1, Zenon
<1> HIDE DEF g
<1>3. \E f : f = [m \in Keys |-> IF k = m THEN TRUE
                               ELSE LET child == IF Smaller(k, m) THEN l[m] ELSE r[m]
                                    IN child \in Keys /\ f[child]]
  BY <1>2, Zenon
<1>4. search = [m \in Keys |-> IF k = m THEN TRUE
                              ELSE LET child == IF Smaller(k, m) THEN l[m] ELSE r[m]
                                   IN child \in Keys /\ search[child]]
  BY <1>3, Zenon DEF search
<1>6. \A m \in Keys : FoundIn(l, r, k, m) = search[m]
  BY DEF FoundIn, search
<1>5. ASSUME NEW m \in Keys
      PROVE  /\ search[m] = IF k = m THEN TRUE ELSE Way(m) \in Keys /\ search[Way(m)]
             /\ g[m] = IF k = m THEN TRUE ELSE Way(m) \in Keys /\ g[Way(m)]
  BY <1>0, <1>2, <1>4, Zenon
<1> DEFINE P == {m \in Refs : m \in Keys => search[m] = g[m]}
<1>7. Refs \ Keys \subseteq P
  OBVIOUS
<1>8. \A n \in Keys : l[n] \in P /\ r[n] \in P => n \in P
  <2> SUFFICES ASSUME NEW n \in Keys, l[n] \in P, r[n] \in P PROVE n \in P
    OBVIOUS
  <2>1. n \in Refs /\ Way(n) \in P
    BY <1>0, CellsAndRefs
  <2>2. Way(n) \in Keys => search[Way(n)] = g[Way(n)]
    BY <2>1
  <2>3. search[n] = g[n]
    BY <1>5, <2>2, Zenon
  <2> QED
    BY <2>1, <2>3
<1>9. Refs \subseteq P
  <2> HIDE DEF P
  <2> QED
    BY <1>7, <1>8, TreeInduction
<1>10. \A n \in Keys : search[n] = g[n]
  BY <1>9, CellsAndRefs
<1> QED
  BY <1>6, <1>10 DEF g

-----------------------------------------------------------------------------
(* The steps of the walk are those of the tree or of its mirror image.     *)
LEMMA WalkSteps ==
  ASSUME RbInv, NoNullIn(Tree), NEW n \in InTree
  PROVE  /\ NextNode(n) = FirstIn({m \in InTree : m > n}, TRUE)
         /\ PreviousNode(n) = FirstIn({m \in InTree : m < n}, FALSE)
<1>1. /\ Shaped(left, right, parent, root, Nodes, TRUE)
      /\ InTree = Nodes[root] /\ InTree \subseteq Keys
      /\ Loose(parent, Nodes, root)
  BY TreeFacts DEF RbInv, TreeInv, LooseNodes, Loose
<1>2. Shaped(right, left, parent, root, Nodes, FALSE)
  BY <1>1, MirrorShaped
<1>3. n \in Nodes[root] /\ left[n] # NULL /\ right[n] # NULL
  BY <1>1 DEF NoNullIn, Tree
<1>4. NextNode(n) = NextIn(left, right, parent, n)
  BY DEF NextNode, NextIn, Leftmost, Down, UpFrom
<1>5. PreviousNode(n) = NextIn(right, left, parent, n)
  BY DEF PreviousNode, NextIn, Rightmost, Down, UpFrom
<1>6. NextIn(left, right, parent, n) = FirstIn(After(Nodes, root, n, TRUE), TRUE)
  <2>1. \A up : Shaped(left, right, parent, root, Nodes, up)
              => NextIn(left, right, parent, n) = FirstIn(After(Nodes, root, n, up), up)
    BY <1>1, <1>3, NextInOrder
  <2> QED
    BY <1>1, <2>1
<1>7. NextIn(right, left, parent, n) = FirstIn(After(Nodes, root, n, FALSE), FALSE)
  <2>1. \A up : Shaped(right, left, parent, root, Nodes, up)
              => NextIn(right, left, parent, n) = FirstIn(After(Nodes, root, n, up), up)
    BY <1>1, <1>3, NextInOrder
  <2> QED
    BY <1>2, <2>1
<1>8. /\ After(Nodes, root, n, TRUE) = {m \in InTree : m > n}
      /\ After(Nodes, root, n, FALSE) = {m \in InTree : m < n}
  BY <1>1, KeysAreInts DEF After, Before
<1> QED
  BY <1>4, <1>5, <1>6, <1>7, <1>8

(* __rb_tree_next and __rb_tree_previous lead from a key to its            *)
(* neighbours, __rb_tree_first and __rb_tree_last to the ends, and         *)
(* __internal_search finds every key, in every tree insertions build       *)
(* without a refusal.                                                      *)
THEOREM WalkIsInOrder == Spec => []WalkInOrder
<1>1. RbInv /\ NoNulls => WalkInOrder
  <2> SUFFICES ASSUME RbInv, NoNullIn(Tree), NEW n \in InTree
               PROVE  LET above_n == {m \in InTree : m > n}
                          below_n == {m \in InTree : m < n}
                      IN /\ NextNode(n) = IF above_n = {} THEN NIL ELSE Min(above_n)
                         /\ PreviousNode(n) = IF below_n = {} THEN NIL ELSE Max(below_n)
                         /\ First = Min(InTree) /\ Last = Max(InTree)
                         /\ Found(n)
    BY DEF WalkInOrder, NoNulls
  <2> DEFINE A == {m \in InTree : m > n}
             B == {m \in InTree : m < n}
  <2>1. /\ Grown(left, right, Nodes, TRUE) /\ root \in Refs
        /\ InTree = Nodes[root] /\ InTree \in SUBSET Keys /\ A \in SUBSET Keys /\ B \in SUBSET Keys
        /\ \A m \in Refs \ Keys : Nodes[m] = {}
    BY TreeFacts DEF RbInv
  <2>2. Grown(right, left, Nodes, FALSE)
    BY MirrorShaped DEF RbInv, TreeInv, Shaped
  <2>3. root \in Keys /\ root # NIL /\ n \in Keys
    BY <2>1, CellsAndRefs
  <2>4. NextNode(n) = IF A = {} THEN NIL ELSE Min(A)
    <3>1. NextNode(n) = FirstIn(A, TRUE)
      BY WalkSteps
    <3>2. A \in SUBSET Nodes[root]
      BY <2>1
    <3> HIDE DEF A
    <3>3. CASE A # {}
      <4>1. IsFirst(FirstIn(A, TRUE), A, TRUE)
        BY <2>1, <3>2, <3>3, FirstInTree
      <4> QED
        BY <2>1, <3>1, <3>3, <4>1, FirstIsMin
    <3> QED
      BY <3>1, <3>3 DEF FirstIn
  <2>5. PreviousNode(n) = IF B = {} THEN NIL ELSE Max(B)
    <3>1. PreviousNode(n) = FirstIn(B, FALSE)
      BY WalkSteps
    <3>2. B \in SUBSET Nodes[root]
      BY <2>1
    <3> HIDE DEF B
    <3>3. CASE B # {}
      <4>1. IsFirst(FirstIn(B, FALSE), B, FALSE)
        BY <2>1, <2>2, <3>2, <3>3, FirstInTree
      <4> QED
        BY <2>1, <3>1, <3>3, <4>1, LastIsMax
    <3> QED
      BY <3>1, <3>3 DEF FirstIn
  <2>6. First = Min(InTree)
    <3>1. First = Down(left, root)
      BY <2>3 DEF First, Leftmost, Down
    <3>2. IsFirst(Down(left, root), InTree, TRUE)
      BY <2>1, <2>3, DownIsFirst
    <3> QED
      BY <2>1, <3>1, <3>2, FirstIsMin
  <2>7. Last = Max(InTree)
    <3>1. Last = Down(right, root)
      BY <2>3 DEF Last, Rightmost, Down
    <3>2. IsFirst(Down(right, root), InTree, FALSE)
      BY <2>1, <2>2, <2>3, DownIsFirst
    <3> QED
      BY <2>1, <3>1, <3>2, LastIsMax
  <2>8. Found(n)
    <3>1. FoundIn(left, right, n, root)
      BY <2>1, <2>3, SearchFinds
    <3> QED
      BY <2>3, <3>1 DEF Found, FoundIn
  <2> QED
    BY <2>4, <2>5, <2>6, <2>7, <2>8
<1> QED
  BY <1>1, NoNullsInvariant, PTL

-----------------------------------------------------------------------------
(* What the links of a tree over the keys N look like from either side.    *)
Joined(l, r, q, top, N) ==
  /\ N \in SUBSET Keys /\ top \in N
  /\ l \in [Cells -> Refs] /\ r \in [Cells -> Refs] /\ q \in [Cells -> Cells]
  /\ \A n \in Keys : l[n] \in Cells /\ r[n] \in Cells
  /\ \A n \in N : /\ l[n] # NIL => l[n] \in N /\ q[l[n]] = n /\ l[n] # n /\ l[n] # q[n]
                  /\ r[n] # NIL => r[n] \in N /\ q[r[n]] = n /\ r[n] # n /\ r[n] # q[n]
                  /\ l[n] = r[n] => l[n] = NIL
                  /\ q[n] = NIL <=> n = top
                  /\ n # top => q[n] \in N /\ (l[q[n]] = n \/ r[q[n]] = n) /\ q[n] # n
  /\ l[NIL] = NIL /\ r[NIL] = NIL

(* A tree is joined.                                                       *)
LEMMA ShapedIsJoined ==
  ASSUME NEW l, NEW r, NEW q, NEW top, NEW F, NEW up, Shaped(l, r, q, top, F, up),
         top \in Keys, \A n \in Keys : l[n] # NULL /\ r[n] # NULL
  PROVE  Joined(l, r, q, top, F[top])
<1>1. /\ q \in [Cells -> Cells] /\ top \in Refs /\ F[top] \in SUBSET Keys
      /\ l \in [Cells -> Refs] /\ r \in [Cells -> Refs] /\ Grown(l, r, F, up)
      /\ \A n \in F[top] : \A c \in {l[n], r[n]} \intersect Keys : q[c] = n
      /\ l[NIL] = NIL /\ r[NIL] = NIL
  BY DEF Shaped, Parented, Grown, Unfolds, LinkType
<1>2. top \in F[top]
  BY <1>1, KeysAreBelowThemselves
<1>3. \A n \in Keys : l[n] \in Cells /\ r[n] \in Cells
  BY <1>1, CellsAndRefs
<1>4. Hooked(l, r, q, top, F)
  BY NodesAreHooked
<1>5. ASSUME NEW n \in F[top]
      PROVE  /\ l[n] # NIL => l[n] \in F[top] /\ q[l[n]] = n /\ l[n] # n /\ l[n] # q[n]
             /\ r[n] # NIL => r[n] \in F[top] /\ q[r[n]] = n /\ r[n] # n /\ r[n] # q[n]
             /\ l[n] = r[n] => l[n] = NIL
             /\ q[n] = NIL <=> n = top
             /\ n # top => q[n] \in F[top] /\ (l[q[n]] = n \/ r[q[n]] = n) /\ q[n] # n
  <2>1. n \in Keys /\ l[n] \in Cells /\ r[n] \in Cells
    BY <1>1, <1>3
  <2>2. /\ F[n] = {n} \union F[l[n]] \union F[r[n]]
        /\ n \notin F[l[n]] /\ n \notin F[r[n]] /\ F[l[n]] \intersect F[r[n]] = {}
    BY <1>1, <2>1, ChildrenAreBelow
  <2>3. F[n] \subseteq F[top]
    BY <1>1, BelowIsClosed
  <2>4. \A m \in Keys : m \in F[m]
    BY <1>1, KeysAreBelowThemselves
  <2>5. /\ q[n] = NIL <=> n = top
        /\ n # top => q[n] \in F[top] /\ (l[q[n]] = n \/ r[q[n]] = n)
    BY <1>4 DEF Hooked
  <2>6. n # top => n \in F[q[n]] /\ q[n] # n
    <3> SUFFICES ASSUME n # top PROVE n \in F[q[n]] /\ q[n] # n
      OBVIOUS
    <3>1. q[n] \in Keys /\ (l[q[n]] = n \/ r[q[n]] = n)
      BY <1>1, <2>5
    <3>2. /\ F[q[n]] = {q[n]} \union F[l[q[n]]] \union F[r[q[n]]]
          /\ q[n] \notin F[l[q[n]]] /\ q[n] \notin F[r[q[n]]]
      BY <1>1, <3>1, ChildrenAreBelow
    <3> QED
      BY <2>1, <2>4, <3>1, <3>2
  <2>7. ASSUME NEW c \in {l[n], r[n]}, c # NIL
        PROVE  c \in F[top] /\ q[c] = n /\ c # n /\ c # q[n]
    <3>1. c \in Keys
      BY <2>1, <2>7, CellsAndRefs
    <3>2. c \in F[n] /\ c # n /\ n \notin F[c]
      BY <2>1, <2>2, <2>4, <3>1
    <3>3. q[c] = n
      BY <1>1, <3>1
    <3>4. c # q[n]
      BY <2>5, <2>6, <2>7, <3>2
    <3> QED
      BY <2>3, <3>2, <3>3, <3>4
  <2>8. l[n] = r[n] => l[n] = NIL
    BY <2>1, <2>2, <2>4, CellsAndRefs
  <2> QED
    BY <2>5, <2>6, <2>7, <2>8
<1> QED
  BY <1>1, <1>2, <1>3, <1>5 DEF Joined

(* Its mirror image is joined too.                                         *)
LEMMA JoinedEitherSide ==
  ASSUME NEW l, NEW r, NEW q, NEW top, NEW N, Joined(l, r, q, top, N)
  PROVE  Joined(r, l, q, top, N)
BY DEF Joined

-----------------------------------------------------------------------------
(* The heights when one black node is missing below p, on the side of l.   *)
Short(l, r, c, H, p) ==
  /\ H \in [Refs -> Nat]
  /\ \A m \in Refs \ Keys : H[m] = 0
  /\ \A n \in Keys \ {p} : H[l[n]] = H[r[n]] /\ H[n] = H[l[n]] + Shade(c, n)
  /\ p \in Keys => H[l[p]] + 1 = H[r[p]] /\ H[p] = H[r[p]] + Shade(c, p)

(* With one black node missing below p on the side of l, Short and Even    *)
(* say the same.                                                           *)
LEMMA ShortIsEven ==
  ASSUME NEW l, NEW r, LinkType(l, r), NEW c, NEW H, NEW p, NEW s \in BOOLEAN, s
  PROVE  Even(l, r, c, H, p, s) <=> Short(l, r, c, H, p)
<1> SUFFICES ASSUME H \in [Refs -> Nat]
             PROVE  Even(l, r, c, H, p, s) <=> Short(l, r, c, H, p)
  BY DEF Even, Short
<1>1. ASSUME NEW n \in Keys
      PROVE  /\ H[l[n]] \in Nat /\ H[r[n]] \in Nat /\ H[n] \in Nat /\ Shade(c, n) \in Nat
             /\ Extra(n, p, s) = (IF n = p THEN 1 ELSE 0) /\ Extra(n, p, ~s) = 0
  BY CellsAndRefs DEF LinkType, Shade, Extra
<1>2. ASSUME NEW n \in Keys
      PROVE  (/\ H[l[n]] + Extra(n, p, s) = H[r[n]] + Extra(n, p, ~s)
              /\ H[n] = H[l[n]] + Extra(n, p, s) + Shade(c, n))
             <=> IF n = p THEN H[l[n]] + 1 = H[r[n]] /\ H[n] = H[r[n]] + Shade(c, n)
                 ELSE H[l[n]] = H[r[n]] /\ H[n] = H[l[n]] + Shade(c, n)
  <2>1. /\ H[l[n]] \in Nat /\ H[r[n]] \in Nat /\ H[n] \in Nat /\ Shade(c, n) \in Nat
        /\ Extra(n, p, ~s) = 0
    BY <1>1
  <2>2. CASE n = p
    <3>1. Extra(n, p, s) = 1
      BY <1>1, <2>2
    <3>2. (/\ H[l[n]] + 1 = H[r[n]] + 0 /\ H[n] = H[l[n]] + 1 + Shade(c, n))
          <=> H[l[n]] + 1 = H[r[n]] /\ H[n] = H[r[n]] + Shade(c, n)
      BY <2>1
    <3> QED
      BY <2>1, <2>2, <3>1, <3>2
  <2>3. CASE n # p
    <3>1. Extra(n, p, s) = 0
      BY <1>1, <2>3
    <3>2. (/\ H[l[n]] + 0 = H[r[n]] + 0 /\ H[n] = H[l[n]] + 0 + Shade(c, n))
          <=> H[l[n]] = H[r[n]] /\ H[n] = H[l[n]] + Shade(c, n)
      BY <2>1
    <3> QED
      BY <2>1, <2>3, <3>1, <3>2
  <2> QED
    BY <2>2, <2>3
<1>3. Even(l, r, c, H, p, s) => Short(l, r, c, H, p)
  BY <1>2 DEF Even, Short
<1>4. Short(l, r, c, H, p) => Even(l, r, c, H, p, s)
  BY <1>2 DEF Even, Short
<1> QED
  BY <1>3, <1>4

(* The same of a tree seen from the side where the black node is missing.  *)
LEMMA SoundIsShort ==
  ASSUME NEW t, NEW F, NEW c, NEW H, NEW d, NEW s \in BOOLEAN
  PROVE  Sound(t, F, c, H, d, s)
         <=> TreeShaped(t, F, s) /\ Short(Hither(t, s), Yonder(t, s), c, H, d)
<1>1. TreeShaped(t, F, s) => LinkType(Hither(t, s), Yonder(t, s))
  BY DEF TreeShaped, Shaped, Grown
<1>2. Sound(t, F, c, H, d, s) => TreeShaped(t, F, s) /\ Even(Hither(t, s), Yonder(t, s), c, H, d, s = s)
  BY SidesOfSound
<1>3. TreeShaped(t, F, s) /\ Even(Hither(t, s), Yonder(t, s), c, H, d, s = s) => Sound(t, F, c, H, d, s)
  BY SoundFromSide
<1>4. TreeShaped(t, F, s) => (Even(Hither(t, s), Yonder(t, s), c, H, d, s = s)
                              <=> Short(Hither(t, s), Yonder(t, s), c, H, d))
  <2> DEFINE e == (s = s)
  <2>1. e \in BOOLEAN /\ e
    OBVIOUS
  <2> HIDE DEF e
  <2>2. TreeShaped(t, F, s) => (Even(Hither(t, s), Yonder(t, s), c, H, d, e)
                                <=> Short(Hither(t, s), Yonder(t, s), c, H, d))
    BY <1>1, <2>1, ShortIsEven
  <2> QED
    BY <2>2 DEF e
<1> QED
  BY <1>2, <1>3, <1>4

(* Nothing is missing: that holds from either side.                        *)
LEMMA ShortOfNothing ==
  ASSUME NEW l, NEW r, NEW c, NEW H
  PROVE  Short(l, r, c, H, NIL) <=> Short(r, l, c, H, NIL)
BY CellsAndRefs DEF Short

(* The same of a tree where none is missing, seen from either side.        *)
LEMMA SoundWithoutGap ==
  ASSUME NEW t, NEW F, NEW c, NEW H, NEW s \in BOOLEAN
  PROVE  Sound(t, F, c, H, NIL, TRUE)
         <=> TreeShaped(t, F, s) /\ Short(Hither(t, s), Yonder(t, s), c, H, NIL)
<1>1. \A e \in BOOLEAN : Sound(t, F, c, H, NIL, e)
                         <=> TreeShaped(t, F, e) /\ Short(Hither(t, e), Yonder(t, e), c, H, NIL)
  BY SoundIsShort
<1>2. TreeShaped(t, F, TRUE) <=> TreeShaped(t, F, s)
  <2>1. \A e \in BOOLEAN : TreeShaped(t, F, e) => TreeShaped(t, F, ~e)
    BY EitherSide
  <2>2. CASE s = TRUE
    BY <2>2
  <2>3. CASE s = FALSE
    BY <2>1, <2>3
  <2> QED
    BY <2>2, <2>3
<1>3. Short(t.left, t.right, c, H, NIL) <=> Short(Hither(t, s), Yonder(t, s), c, H, NIL)
  BY ShortOfNothing DEF Hither, Yonder
<1>4. Hither(t, TRUE) = t.left /\ Yonder(t, TRUE) = t.right
  BY DEF Hither, Yonder
<1>5. Sound(t, F, c, H, NIL, TRUE)
      <=> TreeShaped(t, F, TRUE) /\ Short(Hither(t, TRUE), Yonder(t, TRUE), c, H, NIL)
  BY <1>1
<1> QED
  BY <1>2, <1>3, <1>4, <1>5

-----------------------------------------------------------------------------
(* A tree over the keys N that lacks one black node below d, on the side   *)
(* s; nothing is missing when d is no node.                                *)
Lacking(t, N, c, d, s) ==
  /\ SoundOver(t, N, c, d, s) /\ NoNullIn(t)
  /\ c \in [Cells -> {"red", "black"}] /\ c[NIL] = "black"
  /\ t.root \in Keys /\ c[t.root] = "black"

(* It is missing at the node x, or at the sentinel in its place.           *)
LackingAt(t, N, c, x, s) ==
  /\ x \in Cells /\ t.parent[x] \in N /\ Hither(t, s)[t.parent[x]] = x
  /\ Lacking(t, N, c, t.parent[x], s)

(* Only at x two red nodes meet.                                           *)
RedApart(t, N, c, x) ==
  \A n \in N : c[n] = "red" /\ c[t.parent[n]] = "red" => x \in {n, t.parent[n]}

(* The keys outside the tree have no children, ...                         *)
Bare(t, N) == \A n \in Keys \ N : t.left[n] = NIL /\ t.right[n] = NIL

(* ... and what they link to is left alone.                                *)
SameOutside(t, u, N) ==
  \A n \in Keys \ N : u.left[n] = t.left[n] /\ u.right[n] = t.right[n] /\ u.parent[n] = t.parent[n]

(* No null link on either side.                                            *)
LEMMA SidesWithoutNull ==
  ASSUME NEW t, NoNullIn(t), NEW s \in BOOLEAN
  PROVE  \A n \in Keys : Hither(t, s)[n] # NULL /\ Yonder(t, s)[n] # NULL
BY DEF NoNullIn, Hither, Yonder

(* Bare, seen from either side.                                            *)
LEMMA SidesOfBare ==
  ASSUME NEW t, NEW N, NEW s \in BOOLEAN
  PROVE  Bare(t, N) <=> \A n \in Keys \ N : Hither(t, s)[n] = NIL /\ Yonder(t, s)[n] = NIL
BY DEF Bare, Hither, Yonder

(* SameOutside, seen from either side.                                     *)
LEMMA SidesOfOutside ==
  ASSUME NEW t, NEW u, NEW N, NEW s \in BOOLEAN
  PROVE  SameOutside(t, u, N)
         <=> \A n \in Keys \ N : /\ Hither(u, s)[n] = Hither(t, s)[n]
                                 /\ Yonder(u, s)[n] = Yonder(t, s)[n]
                                 /\ u.parent[n] = t.parent[n]
BY DEF SameOutside, Hither, Yonder

(* A tree that lacks a black node is joined, seen from either side.        *)
LEMMA LackingIsJoined ==
  ASSUME NEW t, NEW N, NEW c, NEW d, NEW e \in BOOLEAN, Lacking(t, N, c, d, e), NEW s \in BOOLEAN
  PROVE  Joined(Hither(t, s), Yonder(t, s), t.parent, t.root, N)
<1>1. PICK F, H : Sound(t, F, c, H, d, e) /\ F[t.root] = N
  BY DEF Lacking, SoundOver
<1>2. TreeShaped(t, F, s)
  BY <1>1, SidesOfSound
<1>3. t.root \in Keys /\ \A n \in Keys : Hither(t, s)[n] # NULL /\ Yonder(t, s)[n] # NULL
  BY SidesWithoutNull DEF Lacking
<1>4. Shaped(Hither(t, s), Yonder(t, s), t.parent, t.root, F, s)
  BY <1>2 DEF TreeShaped
<1>5. Joined(Hither(t, s), Yonder(t, s), t.parent, t.root, F[t.root])
  BY <1>3, <1>4, ShapedIsJoined
<1> QED
  BY <1>1, <1>5

(* There is a sibling, and it is one black node higher.                    *)
LEMMA SiblingIsThere ==
  ASSUME NEW t, NEW N, NEW c, NEW x, NEW s \in BOOLEAN, LackingAt(t, N, c, x, s)
  PROVE  LET p == t.parent[x]
             w == Yonder(t, s)[p]
         IN /\ w \in N /\ w # p /\ w # x /\ x # p /\ x # t.root /\ w # t.root /\ p \in N
            /\ t.parent[w] = p
            /\ x # NIL => x \in N
<1> DEFINE p == t.parent[x]
           l == Hither(t, s)
           r == Yonder(t, s)
           q == t.parent
           w == r[p]
<1>1. Joined(l, r, q, t.root, N)
  BY LackingIsJoined DEF LackingAt
<1>2. x \in Cells /\ p \in N /\ l[p] = x /\ q[x] = p
  BY DEF LackingAt
<1>3. PICK F, H : Sound(t, F, c, H, p, s) /\ F[t.root] = N
  BY DEF LackingAt, Lacking, SoundOver
<1>4. Short(l, r, c, H, p)
  BY <1>3, SoundIsShort
<1> HIDE DEF p, l, r, q, w
<1>5. p \in Keys /\ p \in Cells /\ p # NIL
  BY <1>1, <1>2, CellsAndRefs DEF Joined
<1>6. w \in Cells
  BY <1>1, <1>5 DEF Joined, w
<1>7. H[x] \in Nat /\ H[w] \in Nat /\ H[x] + 1 = H[w]
  BY <1>2, <1>4, <1>5, <1>6, CellsAndRefs DEF Short, w
<1>8. w # NIL
  <2>1. H[NIL] = 0
    BY <1>4, CellsAndRefs DEF Short
  <2> QED
    BY <1>7, <2>1
<1>9. w \in N /\ q[w] = p /\ w # p
  BY <1>1, <1>2, <1>8 DEF Joined, w
<1>10. w # x
  BY <1>1, <1>2, <1>8 DEF Joined, w
<1>11. x # NIL => x \in N /\ x # p
  BY <1>1, <1>2 DEF Joined
<1>12. x # p
  BY <1>5, <1>11
<1>13. t.root \in N /\ q[t.root] = NIL /\ NIL \notin N
  BY <1>1, CellsAndRefs DEF Joined
<1>14. x # t.root /\ w # t.root
  BY <1>2, <1>5, <1>9, <1>13
<1> QED
  BY <1>2, <1>9, <1>10, <1>11, <1>12, <1>14 DEF p, q, r, w

-----------------------------------------------------------------------------
(* A rotation beside the gap: the red node y goes up over the black node z *)
(* and they exchange their colors.                                         *)
GoesUp(t, N, c, x, s, z, y, e) ==
  /\ z \in N /\ y \in Keys /\ Yonder(t, e)[z] = y
  /\ c[y] = "red" /\ c[z] = "black" /\ c[Hither(t, e)[z]] = "black"
  /\ y # t.parent[x] /\ x # z /\ c[x] = "black"
  /\ z = t.parent[x] => e = s

(* The colors after the node y has gone up over z.                         *)
Traded(c, y, z) == [c EXCEPT ![y] = "black", ![z] = "red"]

(* The links after the rotation are those of a tree that lacks the same    *)
(* black node.                                                             *)
LEMMA GoingUpLinks ==
  ASSUME NEW t, NEW N, NEW c, NEW x, NEW s \in BOOLEAN, LackingAt(t, N, c, x, s), Bare(t, N),
         NEW z, NEW y, NEW e \in BOOLEAN, GoesUp(t, N, c, x, s, z, y, e)
  PROVE  LET u == Rotate(t, z, e)
             c2 == Traded(c, y, z)
         IN /\ RotatedLinks(t, u, z, e) /\ NoNullIn(u)
            /\ SoundOver(u, N, c2, t.parent[x], s)
<1> DEFINE u == Rotate(t, z, e)
           p == t.parent[x]
           c2 == Traded(c, y, z)
<1>1. PICK F, H : Sound(t, F, c, H, p, s) /\ F[t.root] = N
  BY DEF LackingAt, Lacking, SoundOver
<1>2. TreeShaped(t, F, e) /\ NoNullIn(t)
  BY <1>1, SidesOfSound DEF LackingAt, Lacking
<1>3. Joined(Hither(t, e), Yonder(t, e), t.parent, t.root, N)
  BY LackingIsJoined DEF LackingAt
<1>4. z \in N /\ z \in Keys /\ y \in Keys /\ z # y /\ y \in N
  BY <1>3, CellsAndRefs DEF GoesUp, Joined
<1>5. Rotatable(t, F, z, y, e)
  <2>1. Hither(t, e)[y] \in Cells
    BY <1>3, <1>4 DEF Joined
  <2>2. \A n \in Keys \ F[t.root] : {t.left[n], t.right[n]} \intersect {z, y} = {}
    BY <1>1, <1>4, CellsAndRefs DEF Bare
  <2> QED
    BY <1>1, <1>4, <2>1, <2>2 DEF Rotatable, GoesUp
<1>6. RotatedLinks(t, u, z, e) /\ NoNullIn(u)
  BY <1>2, <1>5, RotationFacts
<1>7. RedGoesUp(c, c2, z, y)
  <2>1. c \in [Cells -> {"red", "black"}] /\ z \in Cells /\ y \in Cells
    BY <1>4, CellsAndRefs DEF LackingAt, Lacking
  <2> QED
    BY <1>4, <2>1, CellsAndRefs DEF RedGoesUp, GoesUp, Traded
<1>8. p # y /\ (p = z => s = e)
  BY DEF GoesUp
<1> HIDE DEF u, c2, p
<1>9. SoundOver(Rotate(t, z, e), F[t.root], c2, p, s)
  BY <1>1, <1>5, <1>7, <1>8, RotateSound
<1> QED
  BY <1>1, <1>6, <1>9 DEF u, c2, p

(* A rotation that lifts a red node away from the gap leaves the gap where *)
(* it is: the tree is sound but for it, and red nodes stay apart.          *)
LEMMA GoingUp ==
  ASSUME NEW t, NEW N, NEW c, NEW x, NEW s \in BOOLEAN, LackingAt(t, N, c, x, s), Bare(t, N),
         RedApart(t, N, c, NIL),
         NEW z, NEW y, NEW e \in BOOLEAN, GoesUp(t, N, c, x, s, z, y, e)
  PROVE  LET u == Rotate(t, z, e)
             c2 == Traded(c, y, z)
         IN /\ RotatedLinks(t, u, z, e)
            /\ u.parent[x] = t.parent[x]
            /\ LackingAt(u, N, c2, x, s) /\ Bare(u, N) /\ RedApart(u, N, c2, NIL)
            /\ SameOutside(t, u, N)
            /\ c2[x] = "black" /\ c2[y] = "black" /\ c2[z] = "red"
            /\ \A n \in Cells \ {y, z} : c2[n] = c[n]
<1> DEFINE u == Rotate(t, z, e)
           c2 == Traded(c, y, z)
           l == Hither(t, e)
           r == Yonder(t, e)
           q == t.parent
           l2 == Hither(u, e)
           r2 == Yonder(u, e)
           q2 == u.parent
           b == l[y]
           p == q[x]
           g == q[z]
<1>1. Joined(l, r, q, t.root, N)
  BY LackingIsJoined DEF LackingAt
<1>2. RotatedLinks(t, u, z, e) /\ NoNullIn(u) /\ SoundOver(u, N, c2, p, s)
  BY GoingUpLinks
<1>3. /\ z \in N /\ y \in Keys /\ r[z] = y /\ x \in Cells /\ p \in N
      /\ c[y] = "red" /\ c[z] = "black" /\ c[l[z]] = "black"
      /\ y # p /\ x # z /\ c[x] = "black" /\ c[NIL] = "black"
      /\ c \in [Cells -> {"red", "black"}] /\ t.root \in Keys /\ c[t.root] = "black"
      /\ \A n \in N : c[n] = "red" => c[q[n]] # "red"
  <2>1. \A n \in N : c[n] = "red" /\ c[q[n]] = "red" => NIL \in {n, q[n]}
    BY DEF RedApart
  <2>2. c[NIL] = "black"
    BY DEF LackingAt, Lacking
  <2>3. \A n \in N : c[n] = "red" => c[q[n]] # "red"
    BY <2>1, <2>2
  <2> QED
    BY <2>2, <2>3 DEF GoesUp, LackingAt, Lacking
<1>4. /\ l2[y] = z /\ r2[y] = r[y] /\ l2[z] = l[z] /\ r2[z] = b
      /\ \A n \in Cells \ {z, y, g} : l2[n] = l[n] /\ r2[n] = r[n]
      /\ g # NIL => /\ l2[g] = IF l[g] = z THEN y ELSE l[g]
                    /\ r2[g] = IF l[g] # z THEN y ELSE r[g]
      /\ q2[z] = y /\ q2[y] = g /\ (b # NIL => q2[b] = z)
      /\ \A n \in Cells \ {z, y, b} : q2[n] = q[n]
      /\ q2[NIL] = q[NIL]
      /\ u.root = IF g = NIL THEN y ELSE t.root
  BY <1>2, <1>3 DEF RotatedLinks
<1>5. /\ x = l[p] \/ x = r[p]
      /\ s \in BOOLEAN /\ e \in BOOLEAN
      /\ Hither(t, s)[p] = x
      /\ p = z => e = s
  BY DEF LackingAt, GoesUp, Hither, Yonder
<1>6. /\ c2[x] = "black" /\ c2[y] = "black" /\ c2[z] = "red"
      /\ \A n \in Cells \ {y, z} : c2[n] = c[n]
      /\ c2 \in [Cells -> {"red", "black"}] /\ c2[NIL] = "black"
  BY <1>1, <1>3, CellsAndRefs DEF Joined, Traded
<1> HIDE DEF c2, u
<1>7. /\ N \in SUBSET Keys /\ z \in Keys /\ p \in Keys /\ z \in Cells /\ y \in Cells /\ p \in Cells
      /\ y \in N /\ y # z /\ q[y] = z /\ z # g /\ y # g /\ g \in Cells
      /\ b \in Cells /\ b # y /\ b # z /\ x # y
      /\ b # NIL => b \in N /\ q[b] = y
      /\ y # t.root /\ (g = NIL <=> z = t.root) /\ (g # NIL => g \in N)
  BY <1>1, <1>3, CellsAndRefs DEF Joined
<1>8. q2[x] = p
  <2>1. CASE x = NIL
    BY <1>4, <2>1
  <2>2. CASE x # NIL /\ x = b
    BY <1>3, <1>7, <2>2
  <2>3. CASE x # b
    BY <1>3, <1>4, <1>7, <2>3
  <2> QED
    BY <2>1, <2>2, <2>3
<1>9. Hither(u, s)[p] = x
  <2>1. CASE p = z
    BY <1>4, <1>5, <2>1
  <2>2. CASE p # z
    <3>1. /\ Hither(u, s)[p] = IF s = e THEN l2[p] ELSE r2[p]
          /\ Hither(t, s)[p] = IF s = e THEN l[p] ELSE r[p]
      BY DEF Hither, Yonder
    <3>2. CASE p # g
      BY <1>3, <1>4, <1>5, <1>7, <2>2, <3>1, <3>2
    <3>3. CASE p = g
      <4>1. p # NIL /\ (l[p] = z \/ r[p] = z)
        BY <1>1, <1>3, <1>7, <3>3, CellsAndRefs DEF Joined
      <4>2. l[p] = z => r[p] # z
        BY <1>1, <1>3, <1>7, CellsAndRefs DEF Joined
      <4>3. x # z
        BY <1>3
      <4>4. CASE l[p] = z
        <5>1. s # e
          BY <1>5, <3>1, <4>3, <4>4
        <5> QED
          BY <1>4, <1>5, <3>1, <3>3, <4>1, <4>4, <5>1
      <4>5. CASE l[p] # z
        <5>1. r[p] = z /\ s = e
          BY <1>5, <3>1, <4>1, <4>3, <4>5
        <5> QED
          BY <1>4, <1>5, <3>1, <3>3, <4>1, <4>5, <5>1
      <4> QED
        BY <4>4, <4>5
    <3> QED
      BY <3>2, <3>3
  <2> QED
    BY <2>1, <2>2
<1>10. u.root \in Keys /\ c2[u.root] = "black"
  <2>1. CASE g = NIL
    BY <1>4, <1>6, <1>7, <2>1
  <2>2. CASE g # NIL
    BY <1>3, <1>4, <1>6, <1>7, <2>2, CellsAndRefs
  <2> QED
    BY <2>1, <2>2
<1>11. LackingAt(u, N, c2, x, s)
  BY <1>2, <1>3, <1>6, <1>8, <1>9, <1>10 DEF LackingAt, Lacking
<1>12. SameOutside(t, u, N)
  <2>1. \A n \in Keys \ N : l2[n] = l[n] /\ r2[n] = r[n] /\ q2[n] = q[n]
    BY <1>3, <1>4, <1>7, CellsAndRefs
  <2> QED
    BY <2>1, SidesOfOutside
<1>13. Bare(u, N)
  BY <1>12 DEF Bare, SameOutside
<1>14. RedApart(u, N, c2, NIL)
  <2> SUFFICES ASSUME NEW n \in N, c2[n] = "red", c2[q2[n]] = "red"
               PROVE  FALSE
    BY DEF RedApart
  <2>1. n \in Keys /\ n \in Cells /\ n # NIL
    BY <1>7, CellsAndRefs
  <2>2. n # y
    BY <1>6
  <2>3. n # z
    BY <1>4, <1>6
  <2>4. c[n] = "red"
    BY <1>6, <2>1, <2>2, <2>3
  <2>5. n # b
    BY <1>3, <1>7, <2>1, <2>4
  <2>6. q2[n] = q[n] /\ q[n] \in Cells
    BY <1>1, <1>4, <2>1, <2>2, <2>3, <2>5 DEF Joined
  <2>7. q[n] # y
    BY <1>6, <2>6
  <2>8. q[n] # z
    <3> SUFFICES ASSUME q[n] = z PROVE FALSE
      OBVIOUS
    <3>1. l[z] = n \/ r[z] = n
      BY <1>1, <1>7, CellsAndRefs DEF Joined
    <3> QED
      BY <1>3, <2>2, <2>4, <3>1
  <2> QED
    BY <1>3, <1>6, <2>4, <2>6, <2>7, <2>8
<1> QED
  BY <1>2, <1>6, <1>8, <1>11, <1>12, <1>13, <1>14 DEF u, c2

-----------------------------------------------------------------------------
(* Heights are numbers, those of the children of a node included.          *)
LEMMA ShortNumbers ==
  ASSUME NEW l, NEW r, NEW c, NEW H, NEW p, Short(l, r, c, H, p),
         \A n \in Keys : l[n] \in Cells /\ r[n] \in Cells
  PROVE  \A n \in Keys : /\ H[n] \in Nat /\ H[l[n]] \in Nat /\ H[r[n]] \in Nat
                         /\ Shade(c, n) \in Nat
BY CellsAndRefs DEF Short, Shade

(* The heights after the sibling w of the gap has turned red: the gap is   *)
(* one node higher.                                                        *)
Painted(H, p, w) == [m \in Refs |-> IF m = w \/ m = p THEN H[m] - 1 ELSE H[m]]

(* A black sibling made red takes the gap one level up.                    *)
LEMMA PaintedHeights ==
  ASSUME NEW l, NEW r, NEW q, NEW top, NEW N, Joined(l, r, q, top, N),
         \A n \in Keys \ N : l[n] = NIL /\ r[n] = NIL,
         NEW c, NEW H, NEW p \in N, Short(l, r, c, H, p), r[p] \in N, c[r[p]] = "black",
         NEW c2, c2[r[p]] = "red", \A n \in Keys \ {r[p]} : c2[n] = c[n]
  PROVE  LET H2 == Painted(H, p, r[p])
             g == q[p]
         IN /\ p = top => Short(l, r, c2, H2, NIL)
            /\ p # top /\ l[g] = p => Short(l, r, c2, H2, g)
            /\ p # top /\ r[g] = p => Short(r, l, c2, H2, g)
<1> DEFINE w == r[p]
           g == q[p]
           H2 == Painted(H, p, w)
<1>1. /\ N \in SUBSET Keys /\ p \in Keys /\ w \in Keys /\ w \in N /\ w # p /\ q[w] = p /\ w # g
      /\ l[p] # w /\ l[p] # p /\ NIL \notin Keys
      /\ g = NIL <=> p = top
      /\ g # NIL => g \in N /\ g # p /\ g \in Keys /\ (l[g] # r[g])
  BY CellsAndRefs DEF Joined
<1>2. \A n \in Keys : l[n] \in Cells /\ r[n] \in Cells
  BY DEF Joined
<1>3. \A n \in Keys : /\ H[n] \in Nat /\ H[l[n]] \in Nat /\ H[r[n]] \in Nat /\ Shade(c, n) \in Nat
  BY <1>2, ShortNumbers
<1>4. /\ H[l[p]] + 1 = H[w] /\ H[p] = H[w] + Shade(c, p)
      /\ \A n \in Keys \ {p} : H[l[n]] = H[r[n]] /\ H[n] = H[l[n]] + Shade(c, n)
      /\ H \in [Refs -> Nat] /\ \A m \in Refs \ Keys : H[m] = 0
  BY <1>1 DEF Short
<1>5. /\ Shade(c, w) = 1 /\ Shade(c2, w) = 0
      /\ \A n \in Keys \ {w} : Shade(c2, n) = Shade(c, n)
  BY DEF Shade
<1>6. \A n \in Keys \ {p} : l[n] # w /\ r[n] # w
  BY <1>1, CellsAndRefs DEF Joined
<1>7. \A n \in Keys \ {g} : l[n] # p /\ r[n] # p
  BY <1>1, CellsAndRefs DEF Joined
<1>8. H[w] \in Nat /\ H[p] \in Nat /\ H[l[p]] \in Nat /\ H[w] >= 1 /\ H[p] >= 1
  BY <1>1, <1>3, <1>4
<1>9. /\ H2 \in [Refs -> Nat] /\ \A m \in Refs \ Keys : H2[m] = 0
      /\ H2[w] = H[w] - 1 /\ H2[p] = H[p] - 1
      /\ \A m \in Refs \ {p, w} : H2[m] = H[m]
  BY <1>1, <1>4, <1>8, CellsAndRefs DEF Painted
<1> HIDE DEF w, H2
<1>10. H2[l[p]] = H2[w] /\ H2[p] = H2[l[p]] + Shade(c2, p)
  <2>1. H2[l[p]] = H[l[p]] /\ Shade(c2, p) = Shade(c, p) /\ Shade(c, p) \in Nat
    BY <1>1, <1>2, <1>3, <1>5, <1>9, CellsAndRefs
  <2> QED
    BY <1>4, <1>8, <1>9, <2>1
<1>11. H2[l[w]] = H2[r[w]] /\ H2[w] = H2[l[w]] + Shade(c2, w)
  <2>1. H2[l[w]] = H[l[w]] /\ H2[r[w]] = H[r[w]]
    BY <1>1, <1>2, <1>6, <1>7, <1>9, CellsAndRefs
  <2>2. H[l[w]] = H[r[w]] /\ H[w] = H[l[w]] + 1 /\ H[l[w]] \in Nat
    BY <1>1, <1>3, <1>4, <1>5
  <2> QED
    BY <1>5, <1>8, <1>9, <2>1, <2>2
<1>12. ASSUME NEW n \in Keys \ {p, w, g}
       PROVE  H2[l[n]] = H2[r[n]] /\ H2[n] = H2[l[n]] + Shade(c2, n)
  <2>1. H2[l[n]] = H[l[n]] /\ H2[r[n]] = H[r[n]] /\ H2[n] = H[n]
    BY <1>2, <1>6, <1>7, <1>9, CellsAndRefs
  <2> QED
    BY <1>4, <1>5, <2>1
<1>13. ASSUME NEW m, NEW k, g # NIL, m = p, {m, k} = {l[g], r[g]}
       PROVE  H2[m] + 1 = H2[k] /\ H2[g] = H2[k] + Shade(c2, g)
  <2>1. g \in Keys /\ g # p /\ g # w
    BY <1>1, <1>13 DEF w
  <2>2. k # p /\ k # w /\ k \in Refs
    BY <1>1, <1>2, <1>6, <1>13, <2>1, CellsAndRefs
  <2>3. H2[k] = H[k] /\ H2[m] = H[p] - 1 /\ H2[g] = H[g] /\ Shade(c2, g) = Shade(c, g)
    BY <1>5, <1>9, <1>13, <2>1, <2>2, CellsAndRefs
  <2>4. H[l[g]] = H[r[g]] /\ H[g] = H[l[g]] + Shade(c, g)
    BY <1>4, <2>1
  <2>5. H[k] = H[p] /\ H[g] = H[k] + Shade(c, g)
    BY <1>13, <2>4
  <2> QED
    BY <1>8, <2>3, <2>5
<1>14. p = top => Short(l, r, c2, H2, NIL)
  BY <1>1, <1>9, <1>10, <1>11, <1>12 DEF Short, w
<1>15. p # top /\ l[g] = p => Short(l, r, c2, H2, g)
  <2> SUFFICES ASSUME p # top, l[g] = p PROVE Short(l, r, c2, H2, g)
    OBVIOUS
  <2>1. H2[l[g]] + 1 = H2[r[g]] /\ H2[g] = H2[r[g]] + Shade(c2, g)
    BY <1>1, <1>13
  <2>2. \A n \in Keys \ {g} : H2[l[n]] = H2[r[n]] /\ H2[n] = H2[l[n]] + Shade(c2, n)
    BY <1>10, <1>11, <1>12 DEF w
  <2> QED
    BY <1>9, <2>1, <2>2 DEF Short
<1>16. p # top /\ r[g] = p => Short(r, l, c2, H2, g)
  <2> SUFFICES ASSUME p # top, r[g] = p PROVE Short(r, l, c2, H2, g)
    OBVIOUS
  <2>1. H2[r[g]] + 1 = H2[l[g]] /\ H2[g] = H2[l[g]] + Shade(c2, g)
    BY <1>1, <1>13
  <2>2. \A n \in Keys \ {g} : H2[r[n]] = H2[l[n]] /\ H2[n] = H2[r[n]] + Shade(c2, n)
    BY <1>10, <1>11, <1>12 DEF w
  <2> QED
    BY <1>9, <2>1, <2>2 DEF Short
<1> QED
  BY <1>14, <1>15, <1>16 DEF w, H2

(* The sibling turns red.                                                  *)
PaintedRed(c, w) == [c EXCEPT ![w] = "red"]

(* So does the tree: at the root the gap is gone.                          *)
LEMMA PaintsSibling ==
  ASSUME NEW t, NEW N, NEW c, NEW x, NEW s \in BOOLEAN, LackingAt(t, N, c, x, s), Bare(t, N),
         c[Yonder(t, s)[t.parent[x]]] = "black"
  PROVE  LET p == t.parent[x]
             c2 == PaintedRed(c, Yonder(t, s)[p])
         IN /\ p = t.root => Lacking(t, N, c2, NIL, TRUE)
            /\ \A e \in BOOLEAN : p # t.root /\ Hither(t, e)[t.parent[p]] = p => LackingAt(t, N, c2, p, e)
<1> DEFINE l == Hither(t, s)
           r == Yonder(t, s)
           q == t.parent
           p == q[x]
           w == r[p]
           g == q[p]
           c2 == PaintedRed(c, w)
           H2(H) == Painted(H, p, w)
<1>1. Joined(l, r, q, t.root, N) /\ p \in N
  BY LackingIsJoined DEF LackingAt
<1>2. w \in N /\ w # p /\ w # t.root
  BY SiblingIsThere
<1>3. PICK F, H : Sound(t, F, c, H, p, s) /\ F[t.root] = N
  BY DEF LackingAt, Lacking, SoundOver
<1>4. Short(l, r, c, H, p) /\ TreeShaped(t, F, s)
  BY <1>3, SoundIsShort
<1>5. \A n \in Keys \ N : l[n] = NIL /\ r[n] = NIL
  BY SidesOfBare
<1>6. /\ c \in [Cells -> {"red", "black"}] /\ c[NIL] = "black" /\ NoNullIn(t)
      /\ t.root \in Keys /\ c[t.root] = "black"
  BY DEF LackingAt, Lacking
<1>7. /\ c2[w] = "red" /\ \A n \in Cells \ {w} : c2[n] = c[n]
      /\ c2 \in [Cells -> {"red", "black"}] /\ c2[NIL] = "black" /\ c2[t.root] = "black"
  BY <1>1, <1>2, <1>6, CellsAndRefs DEF Joined, PaintedRed
<1> HIDE DEF c2, l, r, q
<1>8. /\ p = t.root => Short(l, r, c2, H2(H), NIL)
      /\ p # t.root /\ l[g] = p => Short(l, r, c2, H2(H), g)
      /\ p # t.root /\ r[g] = p => Short(r, l, c2, H2(H), g)
  <2>1. c[r[p]] = "black" /\ \A n \in Keys \ {r[p]} : c2[n] = c[n]
    BY <1>7, CellsAndRefs DEF l, r, q
  <2> QED
    BY <1>1, <1>2, <1>4, <1>5, <1>7, <2>1, PaintedHeights
<1>9. p = t.root => Lacking(t, N, c2, NIL, TRUE)
  <2> SUFFICES ASSUME p = t.root PROVE Lacking(t, N, c2, NIL, TRUE)
    OBVIOUS
  <2> HIDE DEF H2
  <2>1. Sound(t, F, c2, H2(H), NIL, TRUE)
    BY <1>4, <1>8, SoundWithoutGap DEF l, r
  <2> QED
    BY <1>3, <1>6, <1>7, <2>1 DEF Lacking, SoundOver
<1>10. ASSUME NEW e \in BOOLEAN, p # t.root, Hither(t, e)[g] = p
       PROVE  LackingAt(t, N, c2, p, e)
  <2> HIDE DEF H2
  <2>1. TreeShaped(t, F, e)
    BY <1>3, SidesOfSound
  <2>2. Short(Hither(t, e), Yonder(t, e), c2, H2(H), g)
    <3>1. CASE e = s
      BY <1>8, <1>10, <3>1 DEF l, r
    <3>2. CASE e # s
      <4>1. Hither(t, e) = r /\ Yonder(t, e) = l
        BY <3>2 DEF l, r, Hither, Yonder
      <4> QED
        BY <1>8, <1>10, <4>1
    <3> QED
      BY <3>1, <3>2
  <2>3. Sound(t, F, c2, H2(H), g, e)
    BY <2>1, <2>2, SoundIsShort
  <2>4. g \in N /\ p \in Cells
    BY <1>1, <1>10, CellsAndRefs DEF Joined
  <2> QED
    BY <1>3, <1>6, <1>7, <1>10, <2>3, <2>4 DEF LackingAt, Lacking, SoundOver, q
<1> QED
  BY <1>9, <1>10 DEF l, r, q, c2

-----------------------------------------------------------------------------
(* The heights after the last rotation, of the parent p of the gap under   *)
(* its other child w: the red child f of w gives its place in the count.   *)
Refilled(H, x, p, w, f) ==
  [m \in Refs |-> IF m = w THEN H[p] ELSE IF m = p THEN H[x] + 1
                  ELSE IF m = f THEN H[f] + 1 ELSE H[m]]

(* The heights after the last rotation: nothing is missing any more.       *)
LEMMA RefilledHeights ==
  ASSUME NEW l, NEW r, NEW q, NEW top, NEW N, Joined(l, r, q, top, N),
         \A n \in Keys \ N : l[n] = NIL /\ r[n] = NIL,
         NEW c, NEW H, NEW p \in N, Short(l, r, c, H, p),
         NEW w \in N, w = r[p], NEW f \in N, f = r[w], f # q[p],
         c[w] = "black", c[f] = "red",
         NEW c2, c2[w] = c[p], c2[p] = "black", c2[f] = "black",
         \A n \in Keys \ {w, p, f} : c2[n] = c[n],
         NEW l2, NEW r2,
         l2[w] = p, r2[w] = f, l2[p] = l[p], r2[p] = l[w],
         \A n \in Keys \ {p, w, q[p]} : l2[n] = l[n] /\ r2[n] = r[n],
         q[p] # NIL => /\ l2[q[p]] = IF l[q[p]] = p THEN w ELSE l[q[p]]
                       /\ r2[q[p]] = IF l[q[p]] # p THEN w ELSE r[q[p]]
  PROVE  Short(l2, r2, c2, Refilled(H, l[p], p, w, f), NIL)
<1> DEFINE x == l[p]
           g == q[p]
           b == l[w]
           H2 == Refilled(H, x, p, w, f)
<1>1. /\ N \in SUBSET Keys /\ p \in Keys /\ w \in Keys /\ f \in Keys
      /\ w # p /\ q[w] = p /\ w # g /\ f # w /\ f # p /\ q[f] = w
      /\ x # w /\ x # p /\ b # w /\ b # f /\ b # p /\ x \in Cells /\ b \in Cells /\ x # f
      /\ NIL \notin Keys
      /\ g # NIL => g \in N /\ g # p /\ g \in Keys /\ l[g] # r[g] /\ (l[g] = p \/ r[g] = p)
  BY CellsAndRefs DEF Joined
<1>2. \A n \in Keys : l[n] \in Cells /\ r[n] \in Cells
  BY DEF Joined
<1>3. \A n \in Keys : /\ H[n] \in Nat /\ H[l[n]] \in Nat /\ H[r[n]] \in Nat /\ Shade(c, n) \in Nat
  BY <1>2, ShortNumbers
<1>4. /\ H[x] + 1 = H[w] /\ H[p] = H[w] + Shade(c, p)
      /\ \A n \in Keys \ {p} : H[l[n]] = H[r[n]] /\ H[n] = H[l[n]] + Shade(c, n)
      /\ H \in [Refs -> Nat] /\ \A m \in Refs \ Keys : H[m] = 0
  BY <1>1 DEF Short
<1>5. /\ Shade(c, w) = 1 /\ Shade(c, f) = 0 /\ Shade(c2, w) = Shade(c, p)
      /\ Shade(c2, p) = 1 /\ Shade(c2, f) = 1
      /\ \A n \in Keys \ {w, p, f} : Shade(c2, n) = Shade(c, n)
  BY DEF Shade
<1>6. \A n \in Keys : /\ l[n] = w \/ r[n] = w => n = p
                      /\ l[n] = p \/ r[n] = p => n = g
                      /\ l[n] = f \/ r[n] = f => n = w
  BY <1>1, CellsAndRefs DEF Joined
<1>7. /\ H[x] \in Nat /\ H[w] \in Nat /\ H[p] \in Nat /\ H[f] \in Nat /\ H[b] \in Nat
      /\ H[b] = H[f] /\ H[w] = H[b] + 1
  BY <1>1, <1>3, <1>4, <1>5
<1>8. /\ H2 \in [Refs -> Nat] /\ \A m \in Refs \ Keys : H2[m] = 0
      /\ H2[w] = H[p] /\ H2[p] = H[x] + 1 /\ H2[f] = H[f] + 1
      /\ \A m \in Refs \ {p, w, f} : H2[m] = H[m]
  BY <1>1, <1>4, <1>7, CellsAndRefs DEF Refilled
<1> HIDE DEF H2
<1>9. H2[l2[w]] = H2[r2[w]] /\ H2[w] = H2[l2[w]] + Shade(c2, w)
  <2>1. Shade(c, p) \in Nat
    BY <1>1, <1>3
  <2> QED
    BY <1>4, <1>5, <1>7, <1>8, <2>1
<1>10. H2[l2[p]] = H2[r2[p]] /\ H2[p] = H2[l2[p]] + Shade(c2, p)
  <2>1. H2[x] = H[x] /\ H2[b] = H[b]
    BY <1>1, <1>8, CellsAndRefs
  <2> QED
    BY <1>4, <1>5, <1>7, <1>8, <2>1
<1>11. H2[l2[f]] = H2[r2[f]] /\ H2[f] = H2[l2[f]] + Shade(c2, f)
  <2>1. l2[f] = l[f] /\ r2[f] = r[f]
    BY <1>1
  <2>2. H2[l[f]] = H[l[f]] /\ H2[r[f]] = H[r[f]]
    BY <1>1, <1>2, <1>6, <1>8, CellsAndRefs
  <2>3. H[l[f]] = H[r[f]] /\ H[f] = H[l[f]] + 0 /\ H[l[f]] \in Nat
    BY <1>1, <1>3, <1>4, <1>5
  <2> QED
    BY <1>5, <1>8, <2>1, <2>2, <2>3
<1>12. ASSUME g # NIL
       PROVE  H2[l2[g]] = H2[r2[g]] /\ H2[g] = H2[l2[g]] + Shade(c2, g)
  <2>1. g \in Keys /\ g \notin {p, w, f} /\ l[g] \in Refs /\ r[g] \in Refs
    BY <1>1, <1>2, <1>12, CellsAndRefs
  <2>2. /\ l[g] # p => l[g] \notin {p, w, f}
        /\ r[g] # p => r[g] \notin {p, w, f}
    BY <1>6, <2>1
  <2>3. /\ H2[l2[g]] = H[l[g]] /\ H2[r2[g]] = H[r[g]]
    BY <1>1, <1>8, <1>12, <2>1, <2>2
  <2>4. H2[g] = H[g] /\ Shade(c2, g) = Shade(c, g)
    BY <1>5, <1>8, <2>1, CellsAndRefs
  <2> QED
    BY <1>4, <2>1, <2>3, <2>4
<1>13. ASSUME NEW n \in Keys \ {p, w, f, g}
       PROVE  H2[l2[n]] = H2[r2[n]] /\ H2[n] = H2[l2[n]] + Shade(c2, n)
  <2>1. H2[l[n]] = H[l[n]] /\ H2[r[n]] = H[r[n]] /\ H2[n] = H[n]
    BY <1>2, <1>6, <1>8, CellsAndRefs
  <2> QED
    BY <1>4, <1>5, <2>1
<1>14. \A n \in Keys : H2[l2[n]] = H2[r2[n]] /\ H2[n] = H2[l2[n]] + Shade(c2, n)
  BY <1>1, <1>9, <1>10, <1>11, <1>12, <1>13
<1> QED
  BY <1>1, <1>8, <1>14 DEF Short, H2

-----------------------------------------------------------------------------
(* A rotation keeps the keys and their order, seen from its side.          *)
LEMMA RotationShape ==
  ASSUME NEW t, NEW F, NEW s \in BOOLEAN, TreeShaped(t, F, s), NEW x, NEW y,
         Rotatable(t, F, x, y, s)
  PROVE  \E G : TreeShaped(Rotate(t, x, s), G, s) /\ G[Rotate(t, x, s).root] = F[t.root]
<1> DEFINE u == Rotate(t, x, s)
           l == Hither(t, s)
           r == Yonder(t, s)
           l2 == Hither(u, s)
           r2 == Yonder(u, s)
<1>0. /\ x \in F[t.root] /\ y \in Keys /\ r[x] = y /\ l[y] \in Cells
      /\ \A n \in Keys \ F[t.root] : {t.left[n], t.right[n]} \intersect {x, y} = {}
  BY DEF Rotatable
<1>2. Shaped(l, r, t.parent, t.root, F, s)
  BY DEF TreeShaped
<1>3. \A n \in Keys \ F[t.root] : {l[n], r[n]} \intersect {x, r[x]} = {}
  BY <1>0 DEF Hither, Yonder
<1>4. IsTree(u) /\ Rotated(l, r, t.parent, t.root, l2, r2, u.parent, u.root, x)
  BY <1>0, RotateTurns
<1> HIDE DEF u, l, r, l2, r2
<1>6. r[x] \in Keys /\ l[r[x]] \in Cells
  BY <1>0
<1> DEFINE G == Turned(F, x, r[x], l[x], l[r[x]])
<1> HIDE DEF G
<1>7. Shaped(l2, r2, u.parent, u.root, G, s) /\ G[u.root] = F[t.root]
  BY <1>0, <1>2, <1>3, <1>4, <1>6, RotationKeepsShape DEF G
<1>8. TreeShaped(u, G, s)
  BY <1>4, <1>7 DEF TreeShaped, l2, r2
<1> QED
  BY <1>7, <1>8 DEF u

(* The parent of the gap, its other child and the far child of that.       *)
Around(t, s, x, p, w, f) == p = t.parent[x] /\ w = Yonder(t, s)[p] /\ f = Yonder(t, s)[w]

(* The rotation that ends the loop: the gap is filled.                     *)
HandedDown(c, w, p, f) == [c EXCEPT ![w] = c[p], ![p] = "black", ![f] = "black"]

(* The last rotation of the loop: the red far child of the sibling pays    *)
(* for the missing black node.                                             *)
LEMMA Refills ==
  ASSUME NEW t, NEW N, NEW c, NEW x, NEW s \in BOOLEAN, LackingAt(t, N, c, x, s), Bare(t, N),
         RedApart(t, N, c, NIL),
         NEW p, NEW w, NEW f, Around(t, s, x, p, w, f), c[w] = "black", c[f] = "red"
  PROVE  LET u == Rotate(t, p, s)
             c2 == HandedDown(c, w, p, f)
         IN /\ Lacking(u, N, c2, NIL, TRUE) /\ Bare(u, N) /\ RedApart(u, N, c2, NIL)
            /\ SameOutside(t, u, N)
<1> DEFINE u == Rotate(t, p, s)
           l == Hither(t, s)
           r == Yonder(t, s)
           q == t.parent
           l2 == Hither(u, s)
           r2 == Yonder(u, s)
           q2 == u.parent
           b == l[w]
           g == q[p]
           c2 == HandedDown(c, w, p, f)
<1>0. p = q[x] /\ w = r[p] /\ f = r[w]
  BY DEF Around
<1>1. Joined(l, r, q, t.root, N) /\ p \in N /\ l[p] = x
  BY <1>0, LackingIsJoined DEF LackingAt
<1>2. w \in N /\ w # p /\ w # t.root /\ q[w] = p
  BY <1>0, SiblingIsThere
<1>3. PICK F, H : Sound(t, F, c, H, p, s) /\ F[t.root] = N
  BY <1>0 DEF LackingAt, Lacking, SoundOver
<1>4. Short(l, r, c, H, p) /\ TreeShaped(t, F, s)
  BY <1>3, SoundIsShort
<1>5. \A n \in Keys \ N : l[n] = NIL /\ r[n] = NIL
  BY SidesOfBare
<1>6. /\ c \in [Cells -> {"red", "black"}] /\ c[NIL] = "black" /\ NoNullIn(t)
      /\ t.root \in Keys /\ c[t.root] = "black"
      /\ \A n \in N : c[n] = "red" => c[q[n]] # "red"
  BY CellsAndRefs DEF LackingAt, Lacking, RedApart, SoundOver
<1>7. /\ N \in SUBSET Keys /\ p \in Keys /\ w \in Keys /\ p \in Cells /\ w \in Cells
      /\ b \in Cells /\ b # w /\ b # p /\ w # g /\ p # g /\ g \in Cells
      /\ b # NIL => b \in N /\ q[b] = w
      /\ (g = NIL <=> p = t.root) /\ (g # NIL => g \in N /\ g \in Keys)
  BY <1>1, <1>2, CellsAndRefs DEF Joined
<1>8. f \in N /\ f \in Cells /\ q[f] = w /\ f # w /\ f # p /\ f # b
  BY <1>0, <1>1, <1>2, <1>6, <1>7, CellsAndRefs DEF Joined
<1>9. f # g
  <2>1. Grown(l, r, F, s)
    BY <1>4 DEF TreeShaped, Shaped
  <2>2. f \in Keys
    BY <1>7, <1>8
  <2>3. /\ F[p] = {p} \union F[l[p]] \union F[r[p]] /\ p \notin F[r[p]]
        /\ F[w] = {w} \union F[l[w]] \union F[r[w]] /\ r[w] \in Refs /\ p \in F[p]
    BY <1>7, <2>1, ChildrenAreBelow
  <2>4. F[f] \subseteq F[w] /\ p \notin F[f]
    BY <1>0, <2>3
  <2>5. g # NIL => p \in F[g]
    <3> SUFFICES ASSUME g # NIL PROVE p \in F[g]
      OBVIOUS
    <3>1. l[g] = p \/ r[g] = p
      BY <1>1, <1>7, CellsAndRefs DEF Joined
    <3>2. F[g] = {g} \union F[l[g]] \union F[r[g]]
      BY <1>7, <2>1, ChildrenAreBelow
    <3> QED
      BY <2>3, <3>1, <3>2
  <2> QED
    BY <2>2, <2>4, <2>5, CellsAndRefs
<1>10. Rotatable(t, F, p, w, s)
  <2>1. \A n \in Keys \ F[t.root] : {t.left[n], t.right[n]} \intersect {p, w} = {}
    BY <1>3, <1>7, CellsAndRefs DEF Bare
  <2> QED
    BY <1>0, <1>1, <1>3, <1>7, <2>1 DEF Rotatable
<1>11. RotatedLinks(t, u, p, s) /\ NoNullIn(u)
  BY <1>4, <1>6, <1>10, RotationFacts
<1>12. PICK G : TreeShaped(u, G, s) /\ G[u.root] = N
  <2> HIDE DEF u
  <2>1. \E G : TreeShaped(Rotate(t, p, s), G, s) /\ G[Rotate(t, p, s).root] = F[t.root]
    BY <1>4, <1>10, RotationShape
  <2> QED
    BY <1>3, <2>1 DEF u
<1>13. /\ l2[w] = p /\ r2[w] = f /\ l2[p] = x /\ r2[p] = b
       /\ \A n \in Cells \ {p, w, g} : l2[n] = l[n] /\ r2[n] = r[n]
       /\ g # NIL => /\ l2[g] = IF l[g] = p THEN w ELSE l[g]
                     /\ r2[g] = IF l[g] # p THEN w ELSE r[g]
       /\ q2[p] = w /\ q2[w] = g /\ (b # NIL => q2[b] = p)
       /\ \A n \in Cells \ {p, w, b} : q2[n] = q[n]
       /\ u.root = IF g = NIL THEN w ELSE t.root
  BY <1>0, <1>1, <1>11 DEF RotatedLinks
<1>14. /\ c2[w] = c[p] /\ c2[p] = "black" /\ c2[f] = "black"
       /\ \A n \in Cells \ {w, p, f} : c2[n] = c[n]
       /\ c2 \in [Cells -> {"red", "black"}] /\ c2[NIL] = "black"
  BY <1>6, <1>7, <1>8, CellsAndRefs DEF HandedDown
<1> HIDE DEF l, r, q, l2, r2, q2, u, c2
<1>15. Short(l2, r2, c2, Refilled(H, l[p], p, w, f), NIL)
  <2>1. w = r[p] /\ f = r[w]
    BY <1>0
  <2>2. \A n \in Keys \ {w, p, f} : c2[n] = c[n]
    BY <1>14, CellsAndRefs
  <2>3. \A n \in Keys \ {p, w, q[p]} : l2[n] = l[n] /\ r2[n] = r[n]
    BY <1>13, CellsAndRefs
  <2> QED
    BY <1>1, <1>2, <1>4, <1>5, <1>8, <1>9, <1>13, <1>14, <2>1, <2>2, <2>3, RefilledHeights
<1>16. SoundOver(u, N, c2, NIL, TRUE)
  <2>1. Short(Hither(u, s), Yonder(u, s), c2, Refilled(H, l[p], p, w, f), NIL)
    BY <1>15 DEF l2, r2
  <2>2. Sound(u, G, c2, Refilled(H, l[p], p, w, f), NIL, TRUE)
    BY <1>12, <2>1, SoundWithoutGap
  <2> QED
    BY <1>12, <2>2 DEF SoundOver
<1>17. u.root \in Keys /\ c2[u.root] = "black"
  <2>1. CASE g = NIL
    BY <1>6, <1>7, <1>13, <1>14, <2>1
  <2>2. CASE g # NIL
    <3>1. u.root = t.root /\ t.root # p /\ t.root # w /\ t.root # f
      BY <1>2, <1>6, <1>7, <1>13, <2>2
    <3> QED
      BY <1>6, <1>14, <3>1, CellsAndRefs
  <2> QED
    BY <2>1, <2>2
<1>18. Lacking(u, N, c2, NIL, TRUE)
  BY <1>11, <1>14, <1>16, <1>17 DEF Lacking
<1>19. SameOutside(t, u, N)
  <2>1. \A n \in Keys \ N : l2[n] = l[n] /\ r2[n] = r[n] /\ q2[n] = q[n]
    BY <1>1, <1>2, <1>7, <1>13, CellsAndRefs
  <2> QED
    BY <2>1, SidesOfOutside DEF l, r, q, l2, r2, q2
<1>20. Bare(u, N)
  BY <1>19 DEF Bare, SameOutside
<1>21. /\ q2[w] = g /\ (b # NIL => q2[b] = p)
       /\ \A n \in Cells \ {p, w, b} : q2[n] = q[n]
  BY <1>13
<1>22. /\ c2[w] = c[p] /\ c2[p] = "black" /\ c2[f] = "black"
       /\ \A n \in Cells \ {w, p, f} : c2[n] = c[n]
  BY <1>14
<1>23. RedApart(u, N, c2, NIL)
  <2> SUFFICES ASSUME NEW n \in N, c2[n] = "red", c2[q2[n]] = "red"
               PROVE  FALSE
    BY DEF RedApart, q2
  <2> HIDE DEF b, g
  <2>1. n \in Keys /\ n \in Cells /\ n # NIL
    BY <1>7, CellsAndRefs
  <2>2. n # p /\ n # f
    BY <1>22
  <2>3. n # b
    BY <1>21, <1>22, <2>1
  <2>4. CASE n = w
    <3>1. c[p] = "red" /\ c2[g] = "red" /\ q2[n] = g
      BY <1>21, <1>22, <2>4
    <3>2. c[g] = "red"
      BY <1>7, <1>9, <1>22, <3>1
    <3> QED
      BY <1>1, <1>6, <3>1, <3>2 DEF g
  <2>5. CASE n # w
    <3>1. c[n] = "red" /\ q2[n] = q[n] /\ q[n] \in Cells
      BY <1>1, <1>21, <1>22, <2>1, <2>2, <2>3, <2>5 DEF Joined
    <3>2. q[n] # p /\ q[n] # f
      BY <1>22, <3>1
    <3>3. q[n] # w
      <4> SUFFICES ASSUME q[n] = w PROVE FALSE
        OBVIOUS
      <4>1. l[w] = n \/ r[w] = n
        BY <1>1, <1>7, CellsAndRefs DEF Joined
      <4> QED
        BY <1>0, <2>2, <2>3, <4>1 DEF b
    <3> QED
      BY <1>6, <1>22, <3>1, <3>2, <3>3
  <2> QED
    BY <2>4, <2>5
<1> QED
  BY <1>18, <1>19, <1>20, <1>23 DEF u, c2

-----------------------------------------------------------------------------
(* A node outside the tree loses its children.                             *)
CutAt(t, y) == [t EXCEPT !.left[y] = NIL, !.right[y] = NIL]

(* The links of a tree with a node cut off.                                *)
LEMMA CutFields ==
  ASSUME NEW t, IsTree(t), NEW y, NEW s \in BOOLEAN
  PROVE  LET v == CutAt(t, y)
         IN /\ IsTree(v) /\ v.root = t.root /\ v.parent = t.parent
            /\ v.left = [t.left EXCEPT ![y] = NIL] /\ v.right = [t.right EXCEPT ![y] = NIL]
            /\ Hither(v, s) = [Hither(t, s) EXCEPT ![y] = NIL]
            /\ Yonder(v, s) = [Yonder(t, s) EXCEPT ![y] = NIL]
BY DEF IsTree, CutAt, Hither, Yonder

(* A node outside the tree that loses its links leaves the tree as it is.  *)
LEMMA CutShape ==
  ASSUME NEW l, NEW r, NEW q, NEW top, NEW F, NEW up, Shaped(l, r, q, top, F, up),
         Joined(l, r, q, top, F[top]),
         NEW y \in Keys \ F[top], \A n \in Keys \ (F[top] \union {y}) : l[n] = NIL /\ r[n] = NIL,
         NEW c, NEW H, NEW d, d # y, Short(l, r, c, H, d)
  PROVE  LET l2 == [l EXCEPT ![y] = NIL]
             r2 == [r EXCEPT ![y] = NIL]
             F2 == [F EXCEPT ![y] = {y}]
             H2 == [H EXCEPT ![y] = Shade(c, y)]
         IN /\ Shaped(l2, r2, q, top, F2, up) /\ F2[top] = F[top]
            /\ Short(l2, r2, c, H2, d)
<1> DEFINE l2 == [l EXCEPT ![y] = NIL]
           r2 == [r EXCEPT ![y] = NIL]
           F2 == [F EXCEPT ![y] = {y}]
           H2 == [H EXCEPT ![y] = Shade(c, y)]
<1>1. /\ Grown(l, r, F, up) /\ Parented(l, r, q, top, F)
      /\ l \in [Cells -> Refs] /\ r \in [Cells -> Refs]
      /\ F \in [Refs -> SUBSET Keys] /\ H \in [Refs -> Nat]
      /\ \A n \in Keys : l[n] \in Refs /\ r[n] \in Refs
      /\ top \in F[top] /\ top \in Keys /\ y \in Keys /\ y # top /\ y \in Cells /\ y \in Refs
      /\ NIL \in Cells /\ NIL \in Refs /\ NIL # y /\ NIL \notin Keys
      /\ F[NIL] = {} /\ H[NIL] = 0
  BY CellsAndRefs DEF Shaped, Grown, LinkType, Unfolds, Joined, Short
<1>2. \A n \in Keys \ {y} : l[n] # y /\ r[n] # y
  BY <1>1, CellsAndRefs DEF Joined
<1>3. /\ l2 \in [Cells -> Refs] /\ r2 \in [Cells -> Refs]
      /\ l2[y] = NIL /\ r2[y] = NIL
      /\ \A n \in Cells \ {y} : l2[n] = l[n] /\ r2[n] = r[n]
  BY <1>1
<1>4. /\ F2 \in [Refs -> SUBSET Keys] /\ F2[y] = {y}
      /\ \A m \in Refs \ {y} : F2[m] = F[m]
  BY <1>1
<1>5. Shade(c, y) \in Nat
  BY DEF Shade
<1>6. /\ H2 \in [Refs -> Nat] /\ H2[y] = Shade(c, y)
      /\ \A m \in Refs \ {y} : H2[m] = H[m]
  BY <1>1, <1>5
<1> HIDE DEF l2, r2, F2, H2
<1>7. /\ \A n \in Keys \ {y} : F2[l2[n]] = F[l[n]] /\ F2[r2[n]] = F[r[n]]
      /\ F2[l2[y]] = {} /\ F2[r2[y]] = {} /\ F2[top] = F[top]
  BY <1>1, <1>2, <1>3, <1>4, CellsAndRefs
<1>8. Unfolds(l2, r2, F2)
  <2>1. ASSUME NEW m \in Refs
        PROVE  F2[m] = IF m \in Keys THEN {m} \union F2[l2[m]] \union F2[r2[m]] ELSE {}
    <3>1. F[m] = IF m \in Keys THEN {m} \union F[l[m]] \union F[r[m]] ELSE {}
      BY <1>1 DEF Grown, Unfolds
    <3> QED
      BY <1>1, <1>4, <1>7, <3>1
  <2> QED
    BY <1>4, <2>1 DEF Unfolds
<1>9. Sorted(l2, r2, F2, up)
  <2>1. Sorted(l, r, F, up)
    BY <1>1 DEF Grown
  <2> QED
    BY <1>7, <2>1 DEF Sorted
<1>10. Parented(l2, r2, q, top, F2)
  <2>1. \A n \in F[top] : l2[n] = l[n] /\ r2[n] = r[n]
    BY <1>1, <1>3, CellsAndRefs DEF Joined
  <2>2. l2[NIL] = l[NIL] /\ r2[NIL] = r[NIL]
    BY <1>1, <1>3
  <2> QED
    BY <1>1, <1>7, <2>1, <2>2 DEF Parented
<1>11. Short(l2, r2, c, H2, d)
  <2>1. /\ \A n \in Keys \ {y} : /\ H2[l2[n]] = H[l[n]] /\ H2[r2[n]] = H[r[n]] /\ H2[n] = H[n]
        /\ H2[l2[y]] = 0 /\ H2[r2[y]] = 0
    BY <1>1, <1>2, <1>3, <1>6, CellsAndRefs
  <2>2. \A m \in Refs \ Keys : H2[m] = 0
    BY <1>1, <1>6 DEF Short
  <2>3. ASSUME NEW n \in Keys \ {d}
        PROVE  H2[l2[n]] = H2[r2[n]] /\ H2[n] = H2[l2[n]] + Shade(c, n)
    <3>1. CASE n = y
      BY <1>5, <1>6, <2>1, <3>1
    <3>2. CASE n # y
      BY <2>1, <3>2 DEF Short
    <3> QED
      BY <3>1, <3>2
  <2>4. d \in Keys => H2[l2[d]] + 1 = H2[r2[d]] /\ H2[d] = H2[r2[d]] + Shade(c, d)
    BY <2>1 DEF Short
  <2> QED
    BY <1>6, <2>2, <2>3, <2>4 DEF Short
<1> QED
  BY <1>3, <1>7, <1>8, <1>9, <1>10, <1>11 DEF Shaped, Grown, LinkType, l2, r2, F2, H2

(* So a tree lacks what it did when a node outside it loses its links.     *)
LEMMA CutOff ==
  ASSUME NEW t, NEW N, NEW c, NEW d, NEW s \in BOOLEAN, Lacking(t, N, c, d, s),
         NEW y \in Keys \ N, d # y, \A n \in Keys \ (N \union {y}) : t.left[n] = NIL /\ t.right[n] = NIL
  PROVE  LET v == CutAt(t, y)
         IN Lacking(v, N, c, d, s) /\ Bare(v, N)
<1> DEFINE v == CutAt(t, y)
           l == Hither(t, s)
           r == Yonder(t, s)
<1>1. PICK F, H : Sound(t, F, c, H, d, s) /\ F[t.root] = N
  BY DEF Lacking, SoundOver
<1>2. TreeShaped(t, F, s) /\ Short(l, r, c, H, d)
  BY <1>1, SoundIsShort
<1>3. Shaped(l, r, t.parent, t.root, F, s) /\ IsTree(t)
  BY <1>2 DEF TreeShaped
<1>4. Joined(l, r, t.parent, t.root, F[t.root])
  BY <1>1, LackingIsJoined
<1>5. \A n \in Keys \ (F[t.root] \union {y}) : l[n] = NIL /\ r[n] = NIL
  BY <1>1 DEF Hither, Yonder
<1> DEFINE F2 == [F EXCEPT ![y] = {y}]
           H2 == [H EXCEPT ![y] = Shade(c, y)]
           l2 == [l EXCEPT ![y] = NIL]
           r2 == [r EXCEPT ![y] = NIL]
<1> HIDE DEF l, r, v
<1>6. /\ Shaped(l2, r2, t.parent, t.root, F2, s) /\ F2[t.root] = F[t.root]
      /\ Short(l2, r2, c, H2, d)
  BY <1>1, <1>2, <1>3, <1>4, <1>5, CutShape
<1>7. /\ IsTree(v) /\ v.root = t.root /\ v.parent = t.parent
      /\ v.left = [t.left EXCEPT ![y] = NIL] /\ v.right = [t.right EXCEPT ![y] = NIL]
      /\ Hither(v, s) = l2 /\ Yonder(v, s) = r2
  BY <1>3, CutFields DEF v, l, r
<1> HIDE DEF F2, H2, l2, r2
<1>8. TreeShaped(v, F2, s) /\ Short(Hither(v, s), Yonder(v, s), c, H2, d)
  BY <1>6, <1>7 DEF TreeShaped
<1>9. SoundOver(v, N, c, d, s)
  <2>1. Sound(v, F2, c, H2, d, s)
    BY <1>8, SoundIsShort
  <2> QED
    BY <1>1, <1>6, <1>7, <2>1 DEF SoundOver
<1>10. /\ t.left \in [Cells -> Refs] /\ t.right \in [Cells -> Refs] /\ y \in Cells
  <2>1. l \in [Cells -> Refs] /\ r \in [Cells -> Refs]
    BY <1>4 DEF Joined
  <2> QED
    BY <2>1, CellsAndRefs DEF l, r, Hither, Yonder
<1>11. /\ v.left[y] = NIL /\ v.right[y] = NIL
       /\ \A n \in Cells \ {y} : v.left[n] = t.left[n] /\ v.right[n] = t.right[n]
  BY <1>7, <1>10
<1>12. NoNullIn(v)
  BY <1>7, <1>11, CellsAndRefs DEF NoNullIn, Lacking
<1>13. Bare(v, N)
  BY <1>11, CellsAndRefs DEF Bare
<1> QED
  BY <1>7, <1>9, <1>12, <1>13 DEF Lacking, v

-----------------------------------------------------------------------------
(* A red node at the gap turns black: nothing is missing any more.         *)
Raised(H, x) == [m \in Refs |-> IF m = x THEN H[m] + 1 ELSE H[m]]

(* A red node at the gap made black fills it.                              *)
LEMMA RaisedHeights ==
  ASSUME NEW l, NEW r, NEW q, NEW top, NEW N, Joined(l, r, q, top, N),
         \A n \in Keys \ N : l[n] = NIL /\ r[n] = NIL,
         NEW c, NEW H, NEW p \in N, Short(l, r, c, H, p), NEW x \in N, l[p] = x, c[x] = "red",
         NEW c2, c2[x] = "black", \A n \in Keys \ {x} : c2[n] = c[n]
  PROVE  Short(l, r, c2, Raised(H, x), NIL)
<1> DEFINE H2 == Raised(H, x)
<1>1. /\ x \in Keys /\ p \in Keys /\ x # p /\ r[p] # x /\ NIL \notin Keys /\ N \in SUBSET Keys
      /\ \A n \in Keys : l[n] \in Cells /\ r[n] \in Cells
  BY CellsAndRefs DEF Joined
<1>2. \A n \in Keys \ {p} : l[n] # x /\ r[n] # x
  BY <1>1, CellsAndRefs DEF Joined
<1>3. \A n \in Keys : /\ H[n] \in Nat /\ H[l[n]] \in Nat /\ H[r[n]] \in Nat /\ Shade(c, n) \in Nat
  BY <1>1, ShortNumbers
<1>4. /\ H[x] + 1 = H[r[p]] /\ H[p] = H[r[p]] + Shade(c, p)
      /\ \A n \in Keys \ {p} : H[l[n]] = H[r[n]] /\ H[n] = H[l[n]] + Shade(c, n)
      /\ H \in [Refs -> Nat] /\ \A m \in Refs \ Keys : H[m] = 0
  BY <1>1 DEF Short
<1>5. /\ Shade(c, x) = 0 /\ Shade(c2, x) = 1
      /\ \A n \in Keys \ {x} : Shade(c2, n) = Shade(c, n)
  BY DEF Shade
<1>6. /\ H2 \in [Refs -> Nat] /\ H2[x] = H[x] + 1 /\ \A m \in Refs \ {x} : H2[m] = H[m]
      /\ \A m \in Refs \ Keys : H2[m] = 0
  BY <1>1, <1>4, CellsAndRefs DEF Raised
<1> HIDE DEF H2
<1>7. H2[l[p]] = H2[r[p]] /\ H2[p] = H2[l[p]] + Shade(c2, p)
  <2>1. r[p] \in Refs /\ H2[r[p]] = H[r[p]] /\ H2[p] = H[p]
    BY <1>1, <1>6, CellsAndRefs
  <2> QED
    BY <1>1, <1>4, <1>5, <1>6, <2>1
<1>8. H2[l[x]] = H2[r[x]] /\ H2[x] = H2[l[x]] + Shade(c2, x)
  <2>1. H2[l[x]] = H[l[x]] /\ H2[r[x]] = H[r[x]]
    BY <1>1, <1>2, <1>6, CellsAndRefs
  <2>2. H[l[x]] = H[r[x]] /\ H[x] = H[l[x]] + 0 /\ H[l[x]] \in Nat
    BY <1>1, <1>3, <1>4, <1>5
  <2> QED
    BY <1>5, <1>6, <2>1, <2>2
<1>9. ASSUME NEW n \in Keys \ {x, p}
      PROVE  H2[l[n]] = H2[r[n]] /\ H2[n] = H2[l[n]] + Shade(c2, n)
  <2>1. H2[l[n]] = H[l[n]] /\ H2[r[n]] = H[r[n]] /\ H2[n] = H[n]
    BY <1>1, <1>2, <1>6, CellsAndRefs
  <2> QED
    BY <1>4, <1>5, <2>1
<1> QED
  BY <1>1, <1>6, <1>7, <1>8, <1>9 DEF Short, H2

(* The end of the loop makes its node black.                               *)
Blackened(c, x) == [c EXCEPT ![x] = "black"]

(* So the loop ends when the node it is at is red.                         *)
LEMMA Blackens ==
  ASSUME NEW t, NEW N, NEW c, NEW x, NEW s \in BOOLEAN, LackingAt(t, N, c, x, s), Bare(t, N),
         c[x] = "red", RedApart(t, N, c, x)
  PROVE  LET c2 == Blackened(c, x)
         IN Lacking(t, N, c2, NIL, TRUE) /\ RedApart(t, N, c2, NIL)
<1> DEFINE c2 == Blackened(c, x)
           l == Hither(t, s)
           r == Yonder(t, s)
           p == t.parent[x]
<1>1. Joined(l, r, t.parent, t.root, N) /\ p \in N /\ x \in Cells /\ l[p] = x
  BY LackingIsJoined DEF LackingAt
<1>2. PICK F, H : Sound(t, F, c, H, p, s) /\ F[t.root] = N
  BY DEF LackingAt, Lacking, SoundOver
<1>3. TreeShaped(t, F, s) /\ Short(l, r, c, H, p)
  BY <1>2, SoundIsShort
<1>4. /\ c \in [Cells -> {"red", "black"}] /\ c[NIL] = "black" /\ NoNullIn(t)
      /\ t.root \in Keys /\ c[t.root] = "black"
  BY DEF LackingAt, Lacking
<1>5. x # NIL /\ x \in N /\ x # t.root
  <2>1. x # NIL => x \in N
    BY SiblingIsThere
  <2> QED
    BY <1>4, <2>1
<1>6. /\ c2[x] = "black" /\ \A n \in Cells \ {x} : c2[n] = c[n]
      /\ c2 \in [Cells -> {"red", "black"}] /\ c2[NIL] = "black" /\ c2[t.root] = "black"
  BY <1>1, <1>4, <1>5, CellsAndRefs DEF Blackened
<1>7. \A n \in Keys \ N : l[n] = NIL /\ r[n] = NIL
  BY SidesOfBare
<1> HIDE DEF c2, l, r, p
<1>8. Short(l, r, c2, Raised(H, x), NIL)
  <2>1. \A n \in Keys \ {x} : c2[n] = c[n]
    BY <1>6, CellsAndRefs
  <2> QED
    BY <1>1, <1>3, <1>5, <1>6, <1>7, <2>1, RaisedHeights
<1>9. Sound(t, F, c2, Raised(H, x), NIL, TRUE)
  BY <1>3, <1>8, SoundWithoutGap DEF l, r
<1>10. Lacking(t, N, c2, NIL, TRUE)
  BY <1>2, <1>4, <1>6, <1>9 DEF Lacking, SoundOver
<1>11. RedApart(t, N, c2, NIL)
  <2> SUFFICES ASSUME NEW n \in N, c2[n] = "red", c2[t.parent[n]] = "red"
               PROVE  FALSE
    BY DEF RedApart
  <2>1. n \in Cells /\ t.parent[n] \in Cells
    BY <1>1, CellsAndRefs DEF Joined
  <2>2. n # x /\ t.parent[n] # x /\ c[n] = "red" /\ c[t.parent[n]] = "red"
    BY <1>6, <2>1
  <2> QED
    BY <2>2 DEF RedApart
<1> QED
  BY <1>10, <1>11 DEF c2

-----------------------------------------------------------------------------
(* x is the only child of y, or the sentinel.                              *)
OnlyChildIs(l, r, y, x) == (l[y] = NIL /\ r[y] = x) \/ (l[y] = x /\ r[y] = NIL)

(* A node y with at most one child, x, is passed over by its parent p.     *)
Passed(F, y) == [m \in Refs |-> IF m = y THEN F[y] ELSE F[m] \ {y}]

(* A node with one child at most, replaced by it, leaves a tree without    *)
(* its key.                                                                *)
LEMMA SplicedShape ==
  ASSUME NEW l, NEW r, NEW q, NEW top, NEW F, NEW up, Shaped(l, r, q, top, F, up),
         Joined(l, r, q, top, F[top]), \A n \in Keys \ F[top] : l[n] = NIL /\ r[n] = NIL,
         NEW y \in F[top], NEW p \in F[top], l[p] = y,
         NEW x \in Cells, OnlyChildIs(l, r, y, x),
         NEW l2, l2[p] = x, \A n \in Cells \ {p} : l2[n] = l[n], l2 \in [Cells -> Refs],
         NEW q2, q2[x] = p, \A n \in Cells \ {x} : q2[n] = q[n], q2 \in [Cells -> Cells]
  PROVE  /\ Shaped(l2, r, q2, top, Passed(F, y), up) /\ Passed(F, y)[top] = F[top] \ {y}
         /\ p # y /\ y # top /\ x # y
<1> DEFINE F2 == Passed(F, y)
<1>1. /\ Grown(l, r, F, up) /\ Parented(l, r, q, top, F) /\ Unfolds(l, r, F) /\ Sorted(l, r, F, up)
      /\ l \in [Cells -> Refs] /\ r \in [Cells -> Refs] /\ F \in [Refs -> SUBSET Keys]
  BY DEF Shaped, Grown, LinkType, Unfolds
<1>2. /\ y \in Keys /\ p \in Keys /\ q[y] = p /\ p # y /\ y # top /\ x # y /\ top \in Keys
      /\ NIL \notin Keys /\ F[top] \in SUBSET Keys
      /\ x # NIL => x \in F[top] /\ q[x] = y
  <2>1. /\ F[top] \in SUBSET Keys /\ top \in F[top] /\ NIL \notin Keys
    BY CellsAndRefs DEF Joined
  <2>2. y \in Keys /\ p \in Keys /\ y # NIL /\ p # NIL
    BY <2>1
  <2>3. q[y] = p /\ p # y
    BY <2>2 DEF Joined
  <2>4. q[top] = NIL
    BY <2>1 DEF Joined
  <2>5. x = l[y] \/ x = r[y]
    BY DEF OnlyChildIs
  <2>6. x # NIL => x \in F[top] /\ q[x] = y /\ x # y
    BY <2>5 DEF Joined
  <2> QED
    BY <2>1, <2>2, <2>3, <2>4, <2>6
<1>3. \A n \in Keys \ {p} : l[n] # y /\ r[n] # y
  BY <1>2, CellsAndRefs DEF Joined
<1>4. r[p] # y
  BY <1>2, CellsAndRefs DEF Joined
<1>5. /\ F[y] = {y} \union F[x] /\ y \notin F[x] /\ F[NIL] = {}
  <2>1. F[y] = {y} \union F[l[y]] \union F[r[y]] /\ y \notin F[l[y]] /\ y \notin F[r[y]]
    BY <1>1, <1>2, ChildrenAreBelow
  <2>2. F[NIL] = {}
    BY <1>1, <1>2, CellsAndRefs DEF Unfolds
  <2> QED
    BY <2>1, <2>2 DEF OnlyChildIs
<1>6. /\ F2 \in [Refs -> SUBSET Keys] /\ F2[y] = F[y]
      /\ \A m \in Refs \ {y} : F2[m] = F[m] \ {y}
  BY <1>1, <1>2, CellsAndRefs DEF Passed
<1>7. \A n \in Keys : l[n] \in Cells /\ r[n] \in Cells
  BY DEF Joined
<1> HIDE DEF F2
<1>8. F2[l2[p]] = F[x] /\ F2[r[p]] = F[r[p]] \ {y}
  <2>1. x \in Refs \ {y} /\ r[p] \in Refs \ {y}
    BY <1>2, <1>4, <1>7, CellsAndRefs
  <2>2. F2[x] = F[x] \ {y} /\ F2[r[p]] = F[r[p]] \ {y}
    BY <1>6, <2>1
  <2>3. F[x] \ {y} = F[x]
    BY <1>5
  <2> QED
    BY <2>2, <2>3
<1>9. \A n \in Keys \ {p} : /\ l2[n] = l[n] /\ F2[l2[n]] = F[l[n]] \ {y}
                            /\ F2[r[n]] = F[r[n]] \ {y}
  BY <1>2, <1>3, <1>6, <1>7, CellsAndRefs
<1>10. Unfolds(l2, r, F2)
  <2>1. ASSUME NEW m \in Refs
        PROVE  F2[m] = IF m \in Keys THEN {m} \union F2[l2[m]] \union F2[r[m]] ELSE {}
    <3>1. F[m] = IF m \in Keys THEN {m} \union F[l[m]] \union F[r[m]] ELSE {}
      BY <1>1 DEF Unfolds
    <3>2. CASE m \notin Keys
      BY <1>2, <1>6, <3>1, <3>2
    <3>3. CASE m = p
      <4>1. F[p] = {p} \union F[y] \union F[r[p]]
        BY <1>2, <3>1, <3>3
      <4>2. F2[p] = ({p} \union {y} \union F[x] \union F[r[p]]) \ {y}
        BY <1>2, <1>5, <1>6, <4>1, CellsAndRefs
      <4>3. F2[p] = {p} \union F[x] \union (F[r[p]] \ {y})
        BY <1>2, <1>5, <4>2
      <4> QED
        BY <1>2, <1>8, <3>3, <4>3
    <3>4. CASE m = y
      <4>1. y \notin F[l[y]] /\ y \notin F[r[y]]
        BY <1>1, <1>2, ChildrenAreBelow
      <4> QED
        BY <1>2, <1>6, <1>9, <3>1, <3>4, <4>1
    <3>5. CASE m \in Keys /\ m # p /\ m # y
      BY <1>6, <1>9, <3>1, <3>5
    <3> QED
      BY <3>2, <3>3, <3>4, <3>5
  <2> QED
    BY <1>6, <2>1 DEF Unfolds
<1>11. Sorted(l2, r, F2, up)
  <2>1. F[x] \subseteq F[l[p]]
    BY <1>5
  <2>2. \A n \in Keys : F2[l2[n]] \subseteq F[l[n]] /\ F2[r[n]] \subseteq F[r[n]]
    BY <1>2, <1>8, <1>9, <2>1
  <2> QED
    BY <1>1, <2>2 DEF Sorted
<1>12. Parented(l2, r, q2, top, F2)
  <2>1. F2[top] = F[top] \ {y} /\ top \in Refs
    BY <1>2, <1>6, CellsAndRefs
  <2>2. ASSUME NEW n \in F[top] \ {y}, NEW k \in {l2[n], r[n]} \intersect Keys
        PROVE  q2[k] = n
    <3>1. n \in Keys /\ k \in Cells /\ k # NIL
      BY <1>2, CellsAndRefs
    <3>2. CASE k = x
      <4>1. CASE n = p
        BY <3>2, <4>1
      <4>2. CASE n # p
        <5>1. k \in {l[n], r[n]}
          BY <1>9, <3>1, <4>2
        <5>2. q[k] = n
          BY <3>1, <5>1 DEF Joined
        <5> QED
          BY <1>2, <3>1, <3>2, <5>2
      <4> QED
        BY <4>1, <4>2
    <3>3. CASE k # x
      <4>1. k \in {l[n], r[n]}
        BY <1>9, <3>1, <3>3
      <4>2. q[k] = n
        BY <3>1, <4>1 DEF Joined
      <4> QED
        BY <3>1, <3>3, <4>2
    <3> QED
      BY <3>2, <3>3
  <2>3. q2[top] = NIL
    <3>1. q[top] = NIL
      BY DEF Joined
    <3>2. top # x
      BY <1>2, <3>1
    <3> QED
      BY <1>2, <3>1, <3>2, CellsAndRefs
  <2>4. l2[NIL] = NIL /\ r[NIL] = NIL
    BY <1>2, CellsAndRefs DEF Joined
  <2> QED
    BY <2>1, <2>2, <2>3, <2>4 DEF Parented
<1> QED
  BY <1>1, <1>2, <1>6, <1>10, <1>11, <1>12, CellsAndRefs DEF Shaped, Grown, LinkType, F2

(* The black node is missing where the child hangs now; a red node with    *)
(* one child at most has none.                                             *)
LEMMA SplicedHeights ==
  ASSUME NEW l, NEW r, NEW q, NEW top, NEW N, Joined(l, r, q, top, N),
         NEW y \in N, NEW p \in N, l[p] = y, NEW x \in Cells, OnlyChildIs(l, r, y, x),
         NEW l2, l2[p] = x, \A n \in Cells \ {p} : l2[n] = l[n],
         NEW c, NEW H, Short(l, r, c, H, NIL), c[NIL] = "black"
  PROVE  /\ c[y] = "black" => Short(l2, r, c, H, p)
         /\ c[y] = "red" /\ x = NIL => Short(l2, r, c, H, NIL)
         /\ c[x] = "black" => x = NIL
<1>1. p \in Keys /\ y \in Keys /\ p # y /\ NIL \notin Keys
  BY CellsAndRefs DEF Joined
<1>2. \A n \in Keys : l[n] \in Cells /\ r[n] \in Cells
  BY DEF Joined
<1>3. \A n \in Keys : /\ H[n] \in Nat /\ H[l[n]] \in Nat /\ H[r[n]] \in Nat /\ Shade(c, n) \in Nat
  BY <1>2, ShortNumbers
<1>4. /\ \A n \in Keys : H[l[n]] = H[r[n]] /\ H[n] = H[l[n]] + Shade(c, n)
      /\ H \in [Refs -> Nat] /\ \A m \in Refs \ Keys : H[m] = 0
  BY <1>1 DEF Short
<1>5. H[NIL] = 0 /\ H[x] = 0 /\ H[l[y]] = 0
  BY <1>1, <1>4, CellsAndRefs DEF OnlyChildIs
<1>6. H[y] = Shade(c, y)
  BY <1>1, <1>3, <1>4, <1>5
<1>7. \A n \in Keys \ {p} : l2[n] = l[n]
  BY CellsAndRefs
<1>8. c[y] = "black" => Short(l2, r, c, H, p)
  <2> SUFFICES ASSUME c[y] = "black" PROVE Short(l2, r, c, H, p)
    OBVIOUS
  <2>1. H[y] = 1
    BY <1>6 DEF Shade
  <2>2. H[y] = H[r[p]] /\ H[p] = H[y] + Shade(c, p)
    BY <1>1, <1>4
  <2> QED
    BY <1>1, <1>4, <1>5, <1>7, <2>1, <2>2 DEF Short
<1>9. c[y] = "red" /\ x = NIL => Short(l2, r, c, H, NIL)
  <2> SUFFICES ASSUME c[y] = "red", x = NIL PROVE Short(l2, r, c, H, NIL)
    OBVIOUS
  <2>1. H[y] = 0
    BY <1>6 DEF Shade
  <2>2. H[y] = H[r[p]] /\ H[p] = H[y] + Shade(c, p)
    BY <1>1, <1>4
  <2>3. \A n \in Keys : H[l2[n]] = H[l[n]]
    BY <1>1, <1>5, <1>7, <2>1
  <2> QED
    BY <1>1, <1>4, <2>3 DEF Short
<1>10. c[x] = "black" => x = NIL
  <2> SUFFICES ASSUME c[x] = "black", x # NIL PROVE FALSE
    OBVIOUS
  <2>1. x \in Keys /\ Shade(c, x) = 1
    BY CellsAndRefs DEF Shade
  <2> QED
    BY <1>3, <1>4, <1>5, <2>1
<1> QED
  BY <1>8, <1>9, <1>10

-----------------------------------------------------------------------------
(* u is t after y, which hangs on the side s of its parent, has been       *)
(* replaced there by x.                                                    *)
SpliceAt(t, u, s, y, x) ==
  LET p == t.parent[y]
  IN /\ IsTree(u) /\ u.root = t.root
     /\ Hither(u, s) = [Hither(t, s) EXCEPT ![p] = x] /\ Yonder(u, s) = Yonder(t, s)
     /\ u.parent = [t.parent EXCEPT ![x] = p]

(* What remove unlinks: a black node leaves a gap, a red one a red-black   *)
(* tree.                                                                   *)
LEMMA Splices ==
  ASSUME NEW t, NEW N, NEW c, Lacking(t, N, c, NIL, TRUE), RedApart(t, N, c, NIL), Bare(t, N),
         NEW y \in N, NEW s \in BOOLEAN, t.parent[y] \in N, Hither(t, s)[t.parent[y]] = y,
         NEW x \in Cells, OnlyChildIs(t.left, t.right, y, x),
         NEW u, SpliceAt(t, u, s, y, x)
  PROVE  /\ RedApart(u, N \ {y}, c, x)
         /\ c[y] = "black" => LackingAt(u, N \ {y}, c, x, s)
         /\ c[y] = "red" => x = NIL /\ Lacking(u, N \ {y}, c, NIL, TRUE)
         /\ c[x] = "black" => x = NIL
<1> DEFINE l == Hither(t, s)
           r == Yonder(t, s)
           q == t.parent
           p == q[y]
           l2 == Hither(u, s)
           q2 == u.parent
<1>1. Joined(l, r, q, t.root, N) /\ p \in N /\ l[p] = y
  BY LackingIsJoined
<1>2. PICK F, H : Sound(t, F, c, H, NIL, TRUE) /\ F[t.root] = N
  BY DEF Lacking, SoundOver
<1>3. TreeShaped(t, F, s) /\ Short(l, r, c, H, NIL)
  BY <1>2, SoundWithoutGap
<1>4. Shaped(l, r, q, t.root, F, s)
  BY <1>3 DEF TreeShaped
<1>5. /\ IsTree(u) /\ u.root = t.root /\ Yonder(u, s) = r
      /\ l2 = [l EXCEPT ![p] = x] /\ q2 = [q EXCEPT ![x] = p]
  BY DEF SpliceAt
<1>6. /\ c \in [Cells -> {"red", "black"}] /\ c[NIL] = "black" /\ NoNullIn(t)
      /\ t.root \in Keys /\ c[t.root] = "black"
      /\ \A n \in N : c[n] = "red" => c[q[n]] # "red"
  <2>1. \A n \in N : c[n] = "red" /\ c[q[n]] = "red" => NIL \in {n, q[n]}
    BY DEF RedApart
  <2>2. c[NIL] = "black"
    BY DEF Lacking
  <2>3. \A n \in N : c[n] = "red" => c[q[n]] # "red"
    BY <2>1, <2>2
  <2> QED
    BY <2>2, <2>3 DEF Lacking
<1>7. \A n \in Keys \ N : l[n] = NIL /\ r[n] = NIL
  BY SidesOfBare
<1>8. OnlyChildIs(l, r, y, x)
  BY DEF Hither, Yonder, OnlyChildIs
<1> HIDE DEF l, r, q, p, l2, q2
<1>9. /\ l2 \in [Cells -> Refs] /\ l2[p] = x /\ \A n \in Cells \ {p} : l2[n] = l[n]
      /\ q2 \in [Cells -> Cells] /\ q2[x] = p /\ \A n \in Cells \ {x} : q2[n] = q[n]
  <2>1. p \in Cells /\ x \in Cells /\ x \in Refs
    BY <1>1, CellsAndRefs DEF Joined
  <2>2. l \in [Cells -> Refs] /\ q \in [Cells -> Cells]
    BY <1>1 DEF Joined
  <2> QED
    BY <1>5, <2>1, <2>2
<1> DEFINE F2 == Passed(F, y)
<1> HIDE DEF F2
<1>10. Shaped(l2, r, q2, t.root, F2, s) /\ F2[t.root] = N \ {y} /\ p # y /\ y # t.root /\ x # y
  BY <1>1, <1>2, <1>4, <1>7, <1>8, <1>9, SplicedShape DEF F2
<1>11. TreeShaped(u, F2, s)
  BY <1>5, <1>10 DEF TreeShaped, l2, q2
<1>12. /\ c[y] = "black" => Short(l2, r, c, H, p)
       /\ c[y] = "red" /\ x = NIL => Short(l2, r, c, H, NIL)
       /\ c[x] = "black" => x = NIL
  BY <1>1, <1>3, <1>6, <1>8, <1>9, SplicedHeights
<1>13. NoNullIn(u)
  <2>1. \A n \in Keys : l[n] # NULL /\ r[n] # NULL
    BY <1>1, CellsAndRefs DEF Joined
  <2>2. \A n \in Keys : l2[n] # NULL
    BY <1>9, <2>1, CellsAndRefs
  <2>3. \A n \in Keys : u.left[n] # NULL /\ u.right[n] # NULL
    BY <1>5, <2>1, <2>2 DEF l2, Hither, Yonder
  <2> QED
    BY <1>5, <1>6, <2>3 DEF NoNullIn
<1>14. /\ x # NIL => x \in N /\ q[x] = y
       /\ p \in N \ {y} /\ p \in Keys /\ N \in SUBSET Keys /\ y \in Keys
  <2>1. x = l[y] \/ x = r[y]
    BY <1>8 DEF OnlyChildIs
  <2> QED
    BY <1>1, <1>10, <2>1 DEF Joined
<1>15. c[y] = "black" => LackingAt(u, N \ {y}, c, x, s)
  <2> SUFFICES ASSUME c[y] = "black" PROVE LackingAt(u, N \ {y}, c, x, s)
    OBVIOUS
  <2>1. Sound(u, F2, c, H, p, s)
    <3>1. Short(Hither(u, s), Yonder(u, s), c, H, p)
      BY <1>5, <1>12 DEF l2
    <3> QED
      BY <1>11, <3>1, SoundIsShort
  <2>2. Lacking(u, N \ {y}, c, p, s)
    BY <1>5, <1>6, <1>10, <1>13, <2>1 DEF Lacking, SoundOver
  <2> QED
    BY <1>9, <1>14, <2>2 DEF LackingAt, l2, q2
<1>16. c[y] = "red" => x = NIL /\ Lacking(u, N \ {y}, c, NIL, TRUE)
  <2> SUFFICES ASSUME c[y] = "red" PROVE x = NIL /\ Lacking(u, N \ {y}, c, NIL, TRUE)
    OBVIOUS
  <2>1. x = NIL
    <3>1. x # NIL => c[x] # "red"
      BY <1>6, <1>14
    <3> QED
      BY <1>6, <1>12, <3>1
  <2>2. Sound(u, F2, c, H, NIL, TRUE)
    <3>1. Short(Hither(u, s), Yonder(u, s), c, H, NIL)
      BY <1>5, <1>12, <2>1 DEF l2
    <3> QED
      BY <1>11, <3>1, SoundWithoutGap
  <2> QED
    BY <1>5, <1>6, <1>10, <1>13, <2>1, <2>2 DEF Lacking, SoundOver
<1>17. RedApart(u, N \ {y}, c, x)
  <2> SUFFICES ASSUME NEW n \in N \ {y}, c[n] = "red", c[q2[n]] = "red", n # x
               PROVE  FALSE
    BY DEF RedApart, q2
  <2>1. q2[n] = q[n]
    BY <1>9, <1>14, CellsAndRefs
  <2> QED
    BY <1>6, <2>1
<1> QED
  BY <1>12, <1>15, <1>16, <1>17

-----------------------------------------------------------------------------
(* The node y, which is outside the tree, takes the place of k.            *)
TakesPlace(l, r, q, y, k, l2, r2, q2) ==
  /\ l2 \in [Cells -> Refs] /\ r2 \in [Cells -> Refs] /\ q2 \in [Cells -> Cells]
  /\ l2[y] = l[k] /\ r2[y] = r[k] /\ l2[k] = NIL /\ r2[k] = NIL
  /\ \A n \in Keys \ {y, k} : /\ l2[n] = IF l[n] = k THEN y ELSE l[n]
                              /\ r2[n] = IF r[n] = k THEN y ELSE r[n]
  /\ l2[NIL] = NIL /\ r2[NIL] = NIL
  /\ q2[y] = q[k] /\ q2[k] = NIL
  /\ \A n \in Keys \ {y, k} : q2[n] = IF n \in {l[k], r[k]} THEN y ELSE q[n]

(* Its key is the next one after that of k.                                *)
IsNextAfter(y, k, N) == y > k /\ \A m \in N : m > k => m > y

(* The keys S with y in place of k.                                        *)
Renamed(S, y, k) == IF k \in S THEN (S \ {k}) \union {y} ELSE S

(* What is below every node then.                                          *)
Replaced(F, y, k) ==
  [m \in Refs |-> IF m = y THEN Renamed(F[k], y, k) ELSE IF m = k THEN {k} ELSE Renamed(F[m], y, k)]

(* The keys below every node, the new key in place of the old one.         *)
LEMMA PlaceTakenUnfolds ==
  ASSUME NEW l, NEW r, NEW q, NEW top, NEW F, NEW up, Shaped(l, r, q, top, F, up),
         Joined(l, r, q, top, F[top]), \A n \in Keys \ F[top] : l[n] = NIL /\ r[n] = NIL,
         NEW y \in Keys \ F[top], NEW k \in F[top],
         NEW l2, NEW r2, NEW q2, TakesPlace(l, r, q, y, k, l2, r2, q2)
  PROVE  LET F2 == Replaced(F, y, k)
         IN /\ Unfolds(l2, r2, F2)
            /\ \A n \in Keys \ {y, k} : /\ F2[l2[n]] = Renamed(F[l[n]], y, k)
                                        /\ F2[r2[n]] = Renamed(F[r[n]], y, k)
            /\ F2[l2[y]] = F[l[k]] /\ F2[r2[y]] = F[r[k]]
            /\ F2[l2[k]] = {} /\ F2[r2[k]] = {}
<1> DEFINE F2 == Replaced(F, y, k)
           Sw(S) == Renamed(S, y, k)
<1>1. /\ Grown(l, r, F, up) /\ Unfolds(l, r, F) /\ F \in [Refs -> SUBSET Keys]
      /\ k \in Keys /\ y \in Keys /\ y # k /\ NIL \notin Keys
      /\ \A n \in Keys : l[n] \in Cells /\ r[n] \in Cells
      /\ \A n \in Keys : l[n] # y /\ r[n] # y
  BY CellsAndRefs DEF Shaped, Grown, Unfolds, Joined
<1>2. F2 \in [Refs -> SUBSET Keys]
  <2>1. \A m \in Refs : Renamed(F[m], y, k) \in SUBSET Keys
    BY <1>1 DEF Unfolds, Renamed
  <2>2. k \in Refs
    BY <1>1, CellsAndRefs
  <2>3. F2 = [m \in Refs |-> IF m = y THEN Renamed(F[k], y, k) ELSE IF m = k THEN {k} ELSE Renamed(F[m], y, k)]
    BY DEF Replaced
  <2> QED
    BY <1>1, <2>1, <2>2, <2>3
<1>3. /\ F2[y] = Sw(F[k]) /\ F2[k] = {k} /\ \A m \in Refs \ {y, k} : F2[m] = Sw(F[m])
  BY <1>1, CellsAndRefs DEF Replaced
<1>4. F[NIL] = {} /\ Sw({}) = {} /\ F2[NIL] = {}
  <2>1. F[NIL] = {} /\ NIL # y /\ NIL # k
    BY <1>1, CellsAndRefs DEF Unfolds
  <2>2. Sw({}) = {}
    BY DEF Renamed
  <2> QED
    BY <1>3, <2>1, <2>2, CellsAndRefs
<1>5. /\ l2[y] = l[k] /\ r2[y] = r[k] /\ l2[k] = NIL /\ r2[k] = NIL
      /\ \A n \in Keys \ {y, k} : /\ l2[n] = IF l[n] = k THEN y ELSE l[n]
                                  /\ r2[n] = IF r[n] = k THEN y ELSE r[n]
  BY DEF TakesPlace
<1>6. /\ F[k] = {k} \union F[l[k]] \union F[r[k]] /\ k \notin F[l[k]] /\ k \notin F[r[k]]
  BY <1>1, ChildrenAreBelow
<1> HIDE DEF F2
<1>7. F2[l2[y]] = F[l[k]] /\ F2[r2[y]] = F[r[k]] /\ F2[l2[k]] = {} /\ F2[r2[k]] = {}
  <2>1. /\ l[k] # k /\ r[k] # k /\ l[k] # y /\ r[k] # y /\ l[k] \in Refs /\ r[k] \in Refs
    <3>1. l[k] # k /\ r[k] # k
      BY <1>1, CellsAndRefs DEF Joined
    <3> QED
      BY <1>1, <3>1, CellsAndRefs
  <2>2. F2[l[k]] = Sw(F[l[k]]) /\ F2[r[k]] = Sw(F[r[k]])
    BY <1>3, <2>1
  <2>3. Sw(F[l[k]]) = F[l[k]] /\ Sw(F[r[k]]) = F[r[k]]
    BY <1>6 DEF Renamed
  <2> QED
    BY <1>4, <1>5, <2>2, <2>3
<1>8. ASSUME NEW n \in Keys \ {y, k}
      PROVE  F2[l2[n]] = Sw(F[l[n]]) /\ F2[r2[n]] = Sw(F[r[n]])
  <2>1. l[n] \in Refs /\ r[n] \in Refs /\ l[n] # y /\ r[n] # y
    BY <1>1, CellsAndRefs
  <2>2. F2[l2[n]] = Sw(F[l[n]])
    BY <1>3, <1>5, <2>1
  <2>3. F2[r2[n]] = Sw(F[r[n]])
    BY <1>3, <1>5, <2>1
  <2> QED
    BY <2>2, <2>3
<1>9. Unfolds(l2, r2, F2)
  <2>1. ASSUME NEW m \in Refs
        PROVE  F2[m] = IF m \in Keys THEN {m} \union F2[l2[m]] \union F2[r2[m]] ELSE {}
    <3>1. F[m] = IF m \in Keys THEN {m} \union F[l[m]] \union F[r[m]] ELSE {}
      BY <1>1 DEF Unfolds
    <3>2. CASE m \notin Keys
      <4>1. m # y /\ m # k /\ F[m] = {}
        BY <1>1, <3>1, <3>2
      <4> QED
        BY <1>3, <1>4, <3>2, <4>1
    <3>3. CASE m = y
      <4>1. Sw(F[k]) = {y} \union F[l[k]] \union F[r[k]]
        BY <1>6 DEF Renamed
      <4> QED
        BY <1>1, <1>3, <1>7, <3>3, <4>1
    <3>4. CASE m = k
      BY <1>1, <1>3, <1>7, <3>4
    <3>5. CASE m \in Keys /\ m # y /\ m # k
      <4>1. Renamed(F[m], y, k) = {m} \union Renamed(F[l[m]], y, k) \union Renamed(F[r[m]], y, k)
        BY <3>1, <3>5 DEF Renamed
      <4>2. F2[m] = Sw(F[m]) /\ F2[l2[m]] = Sw(F[l[m]]) /\ F2[r2[m]] = Sw(F[r[m]])
        BY <1>3, <1>8, <3>5
      <4> QED
        BY <3>5, <4>1, <4>2
    <3> QED
      BY <3>2, <3>3, <3>4, <3>5
  <2> QED
    BY <1>2, <2>1 DEF Unfolds
<1> QED
  BY <1>7, <1>8, <1>9 DEF F2

(* The nodes outside N have no children.                                   *)
NoLinksBeyond(l, r, N) == \A n \in Keys \ N : l[n] = NIL /\ r[n] = NIL

(* The order is that of the integers.                                      *)
Upward(up) == \A m, n : Before(m, n, up) <=> m < n

(* When the new key is the next one the order stays.                       *)
LEMMA PlaceTakenShape ==
  ASSUME NEW l, NEW r, NEW q, NEW top, NEW F, NEW up, Upward(up), Shaped(l, r, q, top, F, up),
         Joined(l, r, q, top, F[top]), NoLinksBeyond(l, r, F[top]),
         NEW y \in Keys \ F[top], NEW k \in F[top], k # top, IsNextAfter(y, k, F[top]),
         NEW l2, NEW r2, NEW q2, TakesPlace(l, r, q, y, k, l2, r2, q2)
  PROVE  /\ Shaped(l2, r2, q2, top, Replaced(F, y, k), up)
         /\ Replaced(F, y, k)[top] = (F[top] \ {k}) \union {y}
<1> DEFINE F2 == Replaced(F, y, k)
           Sw(S) == Renamed(S, y, k)
<1>1. /\ Grown(l, r, F, up) /\ Sorted(l, r, F, up) /\ F[top] \in SUBSET Keys
      /\ k \in Keys /\ y \in Keys /\ y # k /\ NIL \notin Keys /\ top \in F[top] /\ top \in Keys
      /\ top # y /\ top # k
      /\ \A n \in Keys : l[n] \in Cells /\ r[n] \in Cells
      /\ \A n \in Keys : l[n] # y /\ r[n] # y
      /\ F[NIL] = {}
  <2>1. /\ Grown(l, r, F, up) /\ Sorted(l, r, F, up) /\ Unfolds(l, r, F) /\ F[top] \in SUBSET Keys
        /\ top \in F[top] /\ k \in Keys /\ y \in Keys
    BY DEF Shaped, Grown, Joined
  <2>2. y # k /\ top # y
    BY <2>1
  <2>3. \A n \in Keys : l[n] \in Cells /\ r[n] \in Cells
    BY DEF Joined
  <2>4. \A n \in Keys : l[n] # y /\ r[n] # y
    <3> TAKE n \in Keys
    <3>1. CASE n \in F[top]
      BY <2>1, <3>1, CellsAndRefs DEF Joined
    <3>2. CASE n \notin F[top]
      BY <3>2, CellsAndRefs DEF NoLinksBeyond
    <3> QED
      BY <3>1, <3>2
  <2>5. F[NIL] = {}
    BY <2>1, CellsAndRefs DEF Unfolds
  <2> QED
    BY <2>1, <2>2, <2>3, <2>4, <2>5, CellsAndRefs
<1>2. \A m, n : Before(m, n, up) <=> m < n
  BY DEF Upward
<1>3. /\ \A n \in Keys : /\ \A m \in F[l[n]] : m < n
                         /\ \A m \in F[r[n]] : n < m
  BY <1>1, <1>2 DEF Sorted
<1>4. /\ Unfolds(l2, r2, F2)
      /\ \A n \in Keys \ {y, k} : F2[l2[n]] = Sw(F[l[n]]) /\ F2[r2[n]] = Sw(F[r[n]])
      /\ F2[l2[y]] = F[l[k]] /\ F2[r2[y]] = F[r[k]]
      /\ F2[l2[k]] = {} /\ F2[r2[k]] = {}
  <2>1. LET G == Replaced(F, y, k)
        IN /\ Unfolds(l2, r2, G)
           /\ \A n \in Keys \ {y, k} : /\ G[l2[n]] = Renamed(F[l[n]], y, k)
                                       /\ G[r2[n]] = Renamed(F[r[n]], y, k)
           /\ G[l2[y]] = F[l[k]] /\ G[r2[y]] = F[r[k]]
           /\ G[l2[k]] = {} /\ G[r2[k]] = {}
    BY PlaceTakenUnfolds DEF NoLinksBeyond
  <2> QED
    BY <2>1
<1>5. k < y /\ \A m \in F[top] : m > k => m > y
  <2>1. k \in Int /\ y \in Int
    BY <1>1, KeysAreInts
  <2> QED
    BY <2>1 DEF IsNextAfter
<1>6. \A n \in F[top] : F[l[n]] \subseteq F[top] /\ F[r[n]] \subseteq F[top]
  <2> TAKE n \in F[top]
  <2>1. n \in Keys /\ top \in Refs
    BY <1>1, CellsAndRefs
  <2>3. F[n] \subseteq F[top]
    BY <1>1, <2>1, BelowIsClosed
  <2>2. F[n] = {n} \union F[l[n]] \union F[r[n]]
    BY <1>1, <2>1, CellsAndRefs DEF Grown, Unfolds
  <2> QED
    BY <2>2, <2>3
<1>7. F2[top] = (F[top] \ {k}) \union {y}
  BY <1>1, CellsAndRefs DEF Replaced, Renamed
<1> HIDE DEF F2
<1>8. \A m \in Keys : m \in Int
  BY KeysAreInts
<1>9. Sorted(l2, r2, F2, up)
  <2> SUFFICES ASSUME NEW n \in Keys
               PROVE  /\ \A m \in F2[l2[n]] : m < n
                      /\ \A m \in F2[r2[n]] : n < m
    BY <1>2 DEF Sorted
  <2>1. CASE n = k
    BY <1>4, <2>1
  <2>2. CASE n = y
    <3>1. \A m \in F[l[k]] : m < k /\ m \in Int
      BY <1>1, <1>3, <1>6, <1>8
    <3>2. \A m \in F[r[k]] : k < m /\ m \in F[top] /\ m \in Int
      BY <1>1, <1>3, <1>6, <1>8
    <3>3. k \in Int /\ y \in Int
      BY <1>1, <1>8
    <3>4. \A m \in F[l[k]] : m < y
      BY <1>5, <3>1, <3>3
    <3>5. \A m \in F[r[k]] : y < m
      BY <1>5, <3>2, <3>3
    <3> QED
      BY <1>4, <2>2, <3>4, <3>5
  <2>3. CASE n \in F[top] /\ n # k /\ n # y
    <3>1. n \in Int /\ k \in Int /\ y \in Int
      BY <1>1, <1>8
    <3>2. k \in F[l[n]] => y < n
      BY <1>3, <1>5, <2>3, <3>1
    <3>3. k \in F[r[n]] => n < y
      BY <1>3, <1>5, <2>3, <3>1
    <3>4. /\ \A m \in Sw(F[l[n]]) : m \in F[l[n]] \/ (m = y /\ k \in F[l[n]])
          /\ \A m \in Sw(F[r[n]]) : m \in F[r[n]] \/ (m = y /\ k \in F[r[n]])
      BY DEF Renamed
    <3> QED
      BY <1>3, <1>4, <2>3, <3>2, <3>3, <3>4
  <2>4. CASE n \notin F[top] /\ n # k /\ n # y
    <3>1. l[n] = NIL /\ r[n] = NIL
      BY <2>4 DEF NoLinksBeyond
    <3>2. F[l[n]] = {} /\ F[r[n]] = {}
      BY <1>1, <3>1
    <3>3. Sw(F[l[n]]) = {} /\ Sw(F[r[n]]) = {}
      BY <3>2 DEF Renamed
    <3>4. F2[l2[n]] = {} /\ F2[r2[n]] = {}
      BY <1>4, <2>4, <3>3
    <3> QED
      BY <3>4
  <2> QED
    BY <2>1, <2>2, <2>3, <2>4
<1>10. Parented(l2, r2, q2, top, F2)
  <2>1. /\ q2 \in [Cells -> Cells] /\ l2[NIL] = NIL /\ r2[NIL] = NIL
        /\ l2[y] = l[k] /\ r2[y] = r[k]
        /\ \A n \in Keys \ {y, k} : /\ l2[n] = IF l[n] = k THEN y ELSE l[n]
                                    /\ r2[n] = IF r[n] = k THEN y ELSE r[n]
        /\ q2[y] = q[k] /\ q2[k] = NIL
        /\ \A n \in Keys \ {y, k} : q2[n] = IF n \in {l[k], r[k]} THEN y ELSE q[n]
    BY DEF TakesPlace
  <2>2. ASSUME NEW n \in F2[top], NEW c \in {l2[n], r2[n]} \intersect Keys
        PROVE  q2[c] = n
    <3>1. n \in Keys /\ n # k /\ c # NIL
      BY <1>1, <1>7
    <3>2. CASE n = y
      <4>1. c \in {l[k], r[k]} /\ c # k /\ c # y
        BY <1>1, <2>1, <3>2, CellsAndRefs DEF Joined
      <4> QED
        BY <2>1, <3>2, <4>1
    <3>3. CASE n # y
      <4>1. n \in F[top]
        BY <1>7, <3>3
      <4>2. CASE c = y
        <5>1. l[n] = k \/ r[n] = k
          BY <1>1, <2>1, <3>1, <3>3, <4>2
        <5>2. q[k] = n
          BY <1>1, <4>1, <5>1 DEF Joined
        <5> QED
          BY <2>1, <4>2, <5>2
      <4>3. CASE c # y
        <5>1. c \in {l[n], r[n]} /\ c # k
          BY <2>1, <3>1, <3>3, <4>3
        <5>2. q[c] = n
          BY <3>1, <4>1, <5>1 DEF Joined
        <5>3. c \notin {l[k], r[k]}
          BY <3>1, <5>2 DEF Joined
        <5> QED
          BY <2>1, <4>3, <5>1, <5>2, <5>3
      <4> QED
        BY <4>2, <4>3
    <3> QED
      BY <3>2, <3>3
  <2>3. q2[top] = NIL
    <3>1. q[top] = NIL /\ q[top] # k
      BY <1>1 DEF Joined
    <3>2. top \notin {l[k], r[k]}
      BY <1>1, <3>1 DEF Joined
    <3> QED
      BY <1>1, <2>1, <3>1, <3>2
  <2> QED
    BY <1>1, <2>1, <2>2, <2>3, CellsAndRefs DEF Parented
<1> QED
  BY <1>4, <1>7, <1>9, <1>10 DEF Shaped, Grown, LinkType, TakesPlace, F2

-----------------------------------------------------------------------------
(* The height of the deleted node is that of the one that takes its place. *)
HandedOn(H, y, k) == [m \in Refs |-> IF m = y THEN H[k] ELSE IF m = k THEN 1 ELSE H[m]]

(* The heights stay: the new node has the color of the old one.            *)
LEMMA HandedOnHeights ==
  ASSUME NEW l, NEW r, NEW q, NEW top, NEW N, Joined(l, r, q, top, N),
         \A n \in Keys \ N : l[n] = NIL /\ r[n] = NIL,
         NEW y \in Keys \ N, NEW k \in N,
         NEW l2, NEW r2, NEW q2, TakesPlace(l, r, q, y, k, l2, r2, q2),
         NEW c, NEW H, Short(l, r, c, H, NIL),
         NEW c2, c2[y] = c[k], c2[k] = "black", \A n \in Keys \ {y, k} : c2[n] = c[n]
  PROVE  Short(l2, r2, c2, HandedOn(H, y, k), NIL)
<1> DEFINE H2 == HandedOn(H, y, k)
<1>1. /\ k \in Keys /\ y \in Keys /\ y # k /\ NIL \notin Keys /\ NIL \in Refs
      /\ k \in Refs /\ y \in Refs
      /\ H \in [Refs -> Nat] /\ \A m \in Refs \ Keys : H[m] = 0
      /\ \A n \in Keys : H[l[n]] = H[r[n]] /\ H[n] = H[l[n]] + Shade(c, n)
      /\ \A n \in Keys : l[n] \in Refs /\ r[n] \in Refs
  BY CellsAndRefs DEF Joined, Short
<1>2. \A n \in Keys : l[n] # y /\ r[n] # y
  BY <1>1, CellsAndRefs DEF Joined
<1>3. l[k] # k /\ r[k] # k
  BY <1>1 DEF Joined
<1>4. /\ H2 \in [Refs -> Nat] /\ H2[y] = H[k] /\ H2[k] = 1
      /\ \A m \in Refs \ {y, k} : H2[m] = H[m]
  BY <1>1 DEF HandedOn
<1>5. /\ l2[y] = l[k] /\ r2[y] = r[k] /\ l2[k] = NIL /\ r2[k] = NIL
      /\ \A n \in Keys \ {y, k} : /\ l2[n] = IF l[n] = k THEN y ELSE l[n]
                                  /\ r2[n] = IF r[n] = k THEN y ELSE r[n]
  BY DEF TakesPlace
<1> HIDE DEF H2
<1>6. H2[NIL] = 0 /\ \A m \in Refs \ Keys : H2[m] = 0
  BY <1>1, <1>4
<1>7. H2[l2[y]] = H[l[k]] /\ H2[r2[y]] = H[r[k]]
  BY <1>1, <1>2, <1>3, <1>4, <1>5
<1>8. \A n \in Keys \ {y, k} : H2[l2[n]] = H[l[n]] /\ H2[r2[n]] = H[r[n]]
  BY <1>1, <1>2, <1>4, <1>5
<1>9. /\ Shade(c2, y) = Shade(c, k) /\ Shade(c2, k) = 1
      /\ \A n \in Keys \ {y, k} : Shade(c2, n) = Shade(c, n)
  BY DEF Shade
<1>10. ASSUME NEW n \in Keys
       PROVE  H2[l2[n]] = H2[r2[n]] /\ H2[n] = H2[l2[n]] + Shade(c2, n)
  <2>1. CASE n = y
    BY <1>1, <1>4, <1>7, <1>9, <2>1
  <2>2. CASE n = k
    BY <1>1, <1>4, <1>5, <1>6, <1>9, <2>2
  <2>3. CASE n # y /\ n # k
    BY <1>1, <1>4, <1>8, <1>9, <2>3, CellsAndRefs
  <2> QED
    BY <2>1, <2>2, <2>3
<1> QED
  BY <1>1, <1>4, <1>6, <1>10 DEF Short, H2

(* The exchange does not move the root.                                    *)
LEMMA PlaceKeepsRoot ==
  ASSUME NEW t, IsTree(t), NEW y, NEW k
  PROVE  LET u == Delete(TakePlace(t, y, k), k) IN IsTree(u) /\ u.root = t.root
BY DEF IsTree, TakePlace, Delete

(* The links of t but for those of y.                                      *)
LinksBut(t, y, l, r) ==
  /\ t.left \in [Cells -> Refs] /\ t.right \in [Cells -> Refs]
  /\ \A n \in Cells \ {y} : t.left[n] = l[n] /\ t.right[n] = r[n]

(* The links after the exchange and the deletion: the node stands where    *)
(* the deleted one stood.                                                  *)
LEMMA TakesThePlace ==
  ASSUME NEW t, IsTree(t), NEW y, NEW k, NEW N, NEW l, NEW r, LinksBut(t, y, l, r),
         Joined(l, r, t.parent, t.root, N),
         NoLinksBeyond(l, r, N),
         y \in Keys \ N, k \in N, k # t.root
  PROVE  LET u == Delete(TakePlace(t, y, k), k)
         IN TakesPlace(l, r, t.parent, y, k, u.left, u.right, u.parent)
<1> DEFINE u == Delete(TakePlace(t, y, k), k)
           p == t.parent[k]
           q == t.parent
<1>0. /\ t.left \in [Cells -> Refs] /\ t.right \in [Cells -> Refs]
      /\ \A n \in Cells \ {y} : t.left[n] = l[n] /\ t.right[n] = r[n]
  BY DEF LinksBut
<1>1. /\ y \in Keys /\ k \in Keys /\ y # k /\ y \in Cells /\ k \in Cells /\ NIL \in Cells
      /\ NIL \notin Keys /\ y # NIL /\ k # NIL
      /\ l \in [Cells -> Refs] /\ r \in [Cells -> Refs] /\ q \in [Cells -> Cells]
      /\ p \in N /\ p \in Keys /\ p # k /\ p # y /\ p \in Cells /\ p # NIL
      /\ l[k] # k /\ r[k] # k /\ l[k] # y /\ r[k] # y /\ l[k] \in Cells /\ r[k] \in Cells
      /\ l[NIL] = NIL /\ r[NIL] = NIL
  BY CellsAndRefs DEF Joined
<1>2. /\ \A n \in Cells \ {y} : t.left[n] = l[n] /\ t.right[n] = r[n]
      /\ t.left[k] = l[k] /\ t.right[k] = r[k] /\ t.left[p] = l[p]
  BY <1>0, <1>1
<1>3. /\ k = l[p] => r[p] # k
      /\ k # l[p] => r[p] = k
      /\ \A n \in Keys \ {p} : l[n] # k /\ r[n] # k
  BY <1>1, CellsAndRefs DEF Joined, NoLinksBeyond
<1> DEFINE lm == [t.left EXCEPT ![y] = t.left[k]]
           rm == [t.right EXCEPT ![y] = t.right[k]]
           lp == IF k = t.left[p] THEN [lm EXCEPT ![p] = y] ELSE lm
           rp == IF k = t.left[p] THEN rm ELSE [rm EXCEPT ![p] = y]
<1>4. /\ u.left = [lp EXCEPT ![k] = NIL] /\ u.right = [rp EXCEPT ![k] = NIL]
      /\ u.parent = [q EXCEPT ![y] = p, ![t.left[k]] = y, ![t.right[k]] = y, ![k] = NIL]
  <2>1. k = t.left[p] => /\ u.left = [[lm EXCEPT ![p] = y] EXCEPT ![k] = NIL]
                         /\ u.right = [rm EXCEPT ![k] = NIL]
    BY ONLY IsTree(t) DEF u, lm, rm, p, IsTree, TakePlace, Delete
  <2>2. k # t.left[p] => /\ u.left = [lm EXCEPT ![k] = NIL]
                         /\ u.right = [[rm EXCEPT ![p] = y] EXCEPT ![k] = NIL]
    BY ONLY IsTree(t) DEF u, lm, rm, p, IsTree, TakePlace, Delete
  <2>3. u.parent = [q EXCEPT ![y] = p, ![t.left[k]] = y, ![t.right[k]] = y, ![k] = NIL]
    BY ONLY IsTree(t) DEF u, p, q, IsTree, TakePlace, Delete
  <2>4. /\ u.left = [lp EXCEPT ![k] = NIL] /\ u.right = [rp EXCEPT ![k] = NIL]
    <3> HIDE DEF u, lm, rm, q, p
    <3>1. CASE k = t.left[p]
      BY <2>1, <3>1
    <3>2. CASE k # t.left[p]
      BY <2>2, <3>2
    <3> QED
      BY <3>1, <3>2
  <2> QED
    BY <2>3, <2>4
<1>5. /\ lm \in [Cells -> Refs] /\ lm[y] = l[k] /\ \A n \in Cells \ {y} : lm[n] = l[n]
      /\ rm \in [Cells -> Refs] /\ rm[y] = r[k] /\ \A n \in Cells \ {y} : rm[n] = r[n]
  <2> DEFINE a == t.left[k]
             b == t.right[k]
  <2>1. a = l[k] /\ b = r[k] /\ a \in Refs /\ b \in Refs
    BY <1>1, <1>2, CellsAndRefs
  <2>2. t.left \in [Cells -> Refs] /\ t.right \in [Cells -> Refs]
    BY <1>0
  <2> HIDE DEF a, b
  <2>3. /\ lm \in [Cells -> Refs] /\ lm[y] = a /\ \A n \in Cells \ {y} : lm[n] = t.left[n]
        /\ rm \in [Cells -> Refs] /\ rm[y] = b /\ \A n \in Cells \ {y} : rm[n] = t.right[n]
    BY <1>1, <2>1, <2>2 DEF a, b
  <2> QED
    BY <1>2, <2>1, <2>3
<1> HIDE DEF lm, rm, u
<1>6. /\ lp \in [Cells -> Refs] /\ rp \in [Cells -> Refs]
      /\ lp[y] = l[k] /\ rp[y] = r[k] /\ lp[NIL] = NIL /\ rp[NIL] = NIL
      /\ \A n \in Keys \ {y, p} : lp[n] = l[n] /\ rp[n] = r[n]
      /\ lp[p] = IF l[p] = k THEN y ELSE l[p]
      /\ rp[p] = IF r[p] = k THEN y ELSE r[p]
  <2>1. CASE k = t.left[p]
    BY <1>1, <1>2, <1>3, <1>5, <2>1, CellsAndRefs
  <2>2. CASE k # t.left[p]
    BY <1>1, <1>2, <1>3, <1>5, <2>2, CellsAndRefs
  <2> QED
    BY <2>1, <2>2
<1> HIDE DEF lp, rp
<1>7. /\ u.left \in [Cells -> Refs] /\ u.right \in [Cells -> Refs]
      /\ u.left[k] = NIL /\ u.right[k] = NIL
      /\ \A n \in Cells \ {k} : u.left[n] = lp[n] /\ u.right[n] = rp[n]
  BY <1>1, <1>4, <1>6, CellsAndRefs
<1>8. \A n \in Keys \ {y, k} : /\ u.left[n] = IF l[n] = k THEN y ELSE l[n]
                               /\ u.right[n] = IF r[n] = k THEN y ELSE r[n]
  BY <1>1, <1>3, <1>6, <1>7, CellsAndRefs
<1>9. u.left[y] = l[k] /\ u.right[y] = r[k] /\ u.left[NIL] = NIL /\ u.right[NIL] = NIL
  BY <1>1, <1>6, <1>7
<1>10. /\ u.parent \in [Cells -> Cells] /\ u.parent[y] = p /\ u.parent[k] = NIL
       /\ \A n \in Keys \ {y, k} : u.parent[n] = IF n \in {l[k], r[k]} THEN y ELSE q[n]
  <2> DEFINE a == l[k]
             b == r[k]
             q1 == [q EXCEPT ![y] = p]
             q2 == [q1 EXCEPT ![a] = y]
             q3 == [q2 EXCEPT ![b] = y]
  <2>1. u.parent = [q3 EXCEPT ![k] = NIL]
    BY <1>2, <1>4
  <2>2. a \in Cells /\ b \in Cells /\ a # k /\ b # k /\ a # y /\ b # y
    BY <1>1
  <2> HIDE DEF a, b
  <2>3. q1 \in [Cells -> Cells] /\ q1[y] = p /\ \A n \in Cells \ {y} : q1[n] = q[n]
    BY <1>1
  <2> HIDE DEF q1
  <2>4. q2 \in [Cells -> Cells] /\ q2[y] = p /\ \A n \in Cells \ {y} : q2[n] = IF n = a THEN y ELSE q[n]
    BY <1>1, <2>2, <2>3
  <2> HIDE DEF q2
  <2>5. q3 \in [Cells -> Cells] /\ q3[y] = p
        /\ \A n \in Cells \ {y} : q3[n] = IF n = a \/ n = b THEN y ELSE q[n]
    BY <1>1, <2>2, <2>4
  <2> HIDE DEF q3
  <2>6. /\ u.parent \in [Cells -> Cells] /\ u.parent[y] = p /\ u.parent[k] = NIL
        /\ \A n \in Cells \ {y, k} : u.parent[n] = IF n = a \/ n = b THEN y ELSE q[n]
    BY <1>1, <2>1, <2>5
  <2> QED
    BY <2>6, CellsAndRefs DEF a, b
<1> QED
  BY <1>7, <1>8, <1>9, <1>10 DEF TakesPlace, u

-----------------------------------------------------------------------------
(* The color of k goes to y; what is deleted counts as black.              *)
GivesColor(c, y, k) == [c EXCEPT ![y] = c[k], ![k] = "black"]

(* The colors of all other nodes stay.                                     *)
LEMMA GivenColors ==
  ASSUME NEW c \in [Cells -> {"red", "black"}], NEW y \in Keys, NEW k \in Keys, y # k
  PROVE  LET c2 == GivesColor(c, y, k)
         IN /\ c2 \in [Cells -> {"red", "black"}] /\ c2[y] = c[k] /\ c2[k] = "black"
            /\ \A n \in Cells \ {y, k} : c2[n] = c[n]
BY CellsAndRefs DEF GivesColor

(* No two red nodes meet after the exchange.                               *)
LEMMA PlaceTakenReds ==
  ASSUME NEW l, NEW r, NEW q, NEW top, NEW N, Joined(l, r, q, top, N),
         NEW y \in Keys \ N, NEW k \in N, k # top,
         NEW l2, NEW r2, NEW q2, TakesPlace(l, r, q, y, k, l2, r2, q2),
         NEW c \in [Cells -> {"red", "black"}], c[NIL] = "black",
         \A n \in N : ~(c[n] = "red" /\ c[q[n]] = "red")
  PROVE  LET c2 == GivesColor(c, y, k)
         IN \A n \in (N \ {k}) \union {y} : ~(c2[n] = "red" /\ c2[q2[n]] = "red")
<1> DEFINE c2 == GivesColor(c, y, k)
<1>1. /\ k \in Keys /\ y \in Keys /\ y # k /\ NIL \notin Keys /\ NIL \in Cells
      /\ q[k] \in N /\ q[k] \in Cells /\ q[k] # k /\ q[k] # y
      /\ \A n \in N : n \in Keys /\ n \in Cells /\ q[n] \in Cells /\ q[n] # y
  BY CellsAndRefs DEF Joined
<1>2. /\ c2[y] = c[k] /\ \A n \in Cells \ {y, k} : c2[n] = c[n]
  BY <1>1, GivenColors
<1>3. /\ q2[y] = q[k]
      /\ \A n \in Keys \ {y, k} : q2[n] = IF n \in {l[k], r[k]} THEN y ELSE q[n]
  BY DEF TakesPlace
<1> HIDE DEF c2
<1> SUFFICES ASSUME NEW n \in (N \ {k}) \union {y} PROVE ~(c2[n] = "red" /\ c2[q2[n]] = "red")
  BY DEF c2
<1>4. CASE n = y
  BY <1>1, <1>2, <1>3, <1>4
<1>5. CASE n # y /\ n \in {l[k], r[k]}
  <2>1. q[n] = k
    BY <1>1, <1>5 DEF Joined
  <2> QED
    BY <1>1, <1>2, <1>3, <1>5, <2>1
<1>6. CASE n # y /\ n \notin {l[k], r[k]}
  <2>1. q[n] # k
    BY <1>1, <1>6 DEF Joined
  <2> QED
    BY <1>1, <1>2, <1>3, <1>6, <2>1
<1> QED
  BY <1>4, <1>5, <1>6

(* The near side is the left one.                                          *)
LeftFirst(s) == \A t : Hither(t, s) = t.left /\ Yonder(t, s) = t.right

(* What taking the place of k leaves.                                      *)
PlaceGiven(t, u, N, c, y, k) ==
  LET N2 == (N \ {k}) \union {y}
      c2 == GivesColor(c, y, k)
  IN /\ Lacking(u, N2, c2, NIL, TRUE) /\ Bare(u, N2) /\ RedApart(u, N2, c2, NIL)
     /\ u.parent[k] = NIL
     /\ \A n \in Keys \ (N \union {y}) : u.parent[n] = t.parent[n]

(* One of the two sides is the left one, and its order is that of the      *)
(* integers.                                                               *)
LEMMA OneSideIsLeft == \E s \in BOOLEAN : Upward(s) /\ LeftFirst(s)
<1>1. Upward(TRUE) /\ LeftFirst(TRUE)
  BY DEF Upward, LeftFirst, Before, Hither, Yonder
<1> QED
  BY <1>1

(* The end of remove: the next key takes the place of the deleted one,     *)
(* below the root, and the tree is a red-black tree without the deleted    *)
(* key.                                                                    *)
LEMMA PlacesLeaver ==
  ASSUME NEW t, IsTree(t), t.left \in [Cells -> Refs], t.right \in [Cells -> Refs],
         NEW N, NEW c, NEW y \in Keys \ N, NEW k \in N, k # t.root,
         Lacking(CutAt(t, y), N, c, NIL, TRUE), Bare(CutAt(t, y), N),
         RedApart(CutAt(t, y), N, c, NIL), IsNextAfter(y, k, N)
  PROVE  PlaceGiven(t, Delete(TakePlace(t, y, k), k), N, c, y, k)
<1> DEFINE v == CutAt(t, y)
           u == Delete(TakePlace(t, y, k), k)
           N2 == (N \ {k}) \union {y}
           c2 == GivesColor(c, y, k)
           l == v.left
           r == v.right
           q == v.parent
           top == v.root
<1> PICK s \in BOOLEAN : Upward(s) /\ LeftFirst(s)
  BY OneSideIsLeft
<1>1. /\ Hither(v, s) = l /\ Yonder(v, s) = r /\ Hither(u, s) = u.left /\ Yonder(u, s) = u.right
  BY DEF LeftFirst
<1>2. /\ IsTree(v) /\ top = t.root /\ q = t.parent
      /\ l = [t.left EXCEPT ![y] = NIL] /\ r = [t.right EXCEPT ![y] = NIL]
  BY CutFields
<1>3. /\ IsTree(u) /\ u.root = t.root
  BY PlaceKeepsRoot
<1> HIDE DEF v, u
<1>4. PICK F, H : Sound(v, F, c, H, NIL, TRUE) /\ F[top] = N
  BY DEF Lacking, SoundOver, v
<1>5. Shaped(l, r, q, top, F, s) /\ Short(l, r, c, H, NIL)
  <2>1. TreeShaped(v, F, s) /\ Short(Hither(v, s), Yonder(v, s), c, H, NIL)
    BY <1>4, SoundWithoutGap
  <2> QED
    BY <1>1, <2>1 DEF TreeShaped
<1>6. Joined(l, r, q, top, N)
  <2>1. Joined(Hither(v, s), Yonder(v, s), v.parent, v.root, N)
    BY LackingIsJoined DEF v
  <2> QED
    BY <1>1, <2>1
<1>7. \A n \in Keys \ N : l[n] = NIL /\ r[n] = NIL
  BY DEF Bare, v
<1>8. LinksBut(t, y, l, r)
  BY <1>2 DEF LinksBut
<1> HIDE DEF l, r, q, top
<1>9. TakesPlace(l, r, q, y, k, u.left, u.right, u.parent)
  <2>1. Joined(l, r, t.parent, t.root, N)
    BY <1>2, <1>6
  <2>3. NoLinksBeyond(l, r, N) /\ y \in Keys \ N /\ k \in N /\ k # t.root /\ IsTree(t)
    BY <1>7 DEF NoLinksBeyond
  <2>2. TakesPlace(l, r, t.parent, y, k, u.left, u.right, u.parent)
    BY ONLY <1>8, <2>1, <2>3, TakesThePlace DEF u
  <2> QED
    BY <1>2, <2>2
<1> DEFINE F2 == Replaced(F, y, k)
           H2 == HandedOn(H, y, k)
<1>10. Shaped(u.left, u.right, u.parent, top, F2, s) /\ F2[top] = N2
  <2>1. y \in Keys \ F[top] /\ k \in F[top] /\ k # top /\ IsNextAfter(y, k, F[top])
    BY <1>2, <1>4
  <2>2. Joined(l, r, q, top, F[top]) /\ NoLinksBeyond(l, r, F[top])
    BY <1>4, <1>6, <1>7 DEF NoLinksBeyond
  <2>4. Upward(s)
    OBVIOUS
  <2>3. Shaped(u.left, u.right, u.parent, top, F2, s) /\ F2[top] = (F[top] \ {k}) \union {y}
    BY <1>5, <1>9, <2>1, <2>2, <2>4, PlaceTakenShape
  <2> QED
    BY <1>4, <2>3
<1>11. /\ c \in [Cells -> {"red", "black"}] /\ c[NIL] = "black"
       /\ top \in Keys /\ c[top] = "black" /\ k \in Keys /\ y # k /\ top # y /\ top \in N
       /\ NIL \notin Keys /\ NIL \in Cells /\ top \in Cells
  BY <1>6, CellsAndRefs DEF Lacking, Joined, v, top
<1>12. /\ c2 \in [Cells -> {"red", "black"}] /\ c2[y] = c[k] /\ c2[k] = "black"
       /\ \A n \in Cells \ {y, k} : c2[n] = c[n]
  BY <1>11, GivenColors
<1> HIDE DEF c2, F2, H2
<1>13. Short(u.left, u.right, c2, H2, NIL)
  <2>1. \A n \in Keys \ {y, k} : c2[n] = c[n]
    BY <1>12, CellsAndRefs
  <2> QED
    BY <1>5, <1>6, <1>7, <1>9, <1>12, <2>1, HandedOnHeights DEF H2
<1>14. Sound(u, F2, c2, H2, NIL, TRUE)
  <2>1. TreeShaped(u, F2, s)
    BY <1>1, <1>2, <1>3, <1>10 DEF TreeShaped
  <2>2. Short(Hither(u, s), Yonder(u, s), c2, H2, NIL)
    BY <1>1, <1>13
  <2> QED
    BY <2>1, <2>2, SoundWithoutGap
<1>15. /\ u.left[y] = l[k] /\ u.right[y] = r[k] /\ u.left[k] = NIL /\ u.right[k] = NIL
       /\ \A n \in Keys \ {y, k} : /\ u.left[n] = IF l[n] = k THEN y ELSE l[n]
                                   /\ u.right[n] = IF r[n] = k THEN y ELSE r[n]
       /\ u.parent[k] = NIL
       /\ \A n \in Keys \ {y, k} : u.parent[n] = IF n \in {l[k], r[k]} THEN y ELSE q[n]
  BY <1>9 DEF TakesPlace
<1>16. \A n \in Keys : l[n] \in Cells /\ r[n] \in Cells /\ l[n] # NULL /\ r[n] # NULL
  BY <1>6, CellsAndRefs DEF Joined
<1>17. NoNullIn(u)
  <2>1. top # NULL /\ y # NULL
    BY <1>11, CellsAndRefs
  <2>2. ASSUME NEW n \in Keys PROVE u.left[n] # NULL /\ u.right[n] # NULL
    BY <1>11, <1>15, <1>16, <2>1, CellsAndRefs
  <2> QED
    BY <1>2, <1>3, <2>1, <2>2 DEF NoNullIn
<1>18. Bare(u, N2)
  <2> SUFFICES ASSUME NEW n \in Keys \ N2 PROVE u.left[n] = NIL /\ u.right[n] = NIL
    BY DEF Bare
  <2>1. CASE n = k
    BY <1>15, <2>1
  <2>2. CASE n # k
    <3>1. n \in Keys \ N /\ n # y
      BY <2>2
    <3> QED
      BY <1>7, <1>11, <1>15, <2>2, <3>1
  <2> QED
    BY <2>1, <2>2
<1>19. Lacking(u, N2, c2, NIL, TRUE)
  <2>1. c2[NIL] = "black" /\ c2[top] = "black"
    BY <1>2, <1>11, <1>12
  <2> QED
    BY <1>2, <1>3, <1>10, <1>11, <1>12, <1>14, <1>17, <2>1 DEF Lacking, SoundOver
<1>20. RedApart(u, N2, c2, NIL)
  <2>1. \A n \in N : ~(c[n] = "red" /\ c[q[n]] = "red")
    <3> SUFFICES ASSUME NEW n \in N, c[n] = "red", c[q[n]] = "red" PROVE FALSE
      OBVIOUS
    <3>1. NIL \in {n, q[n]}
      BY DEF RedApart, v, q
    <3> QED
      BY <1>11, <3>1
  <2>2. \A n \in N2 : ~(c2[n] = "red" /\ c2[u.parent[n]] = "red")
    BY <1>2, <1>6, <1>9, <1>11, <2>1, PlaceTakenReds DEF c2
  <2> QED
    BY <2>2 DEF RedApart
<1>21. \A n \in Keys \ (N \union {y}) : u.parent[n] = t.parent[n]
  <2> TAKE n \in Keys \ (N \union {y})
  <2>1. n \notin {l[k], r[k]} /\ n # k
    BY <1>6, <1>11, CellsAndRefs DEF Joined
  <2> QED
    BY <1>2, <1>15, <2>1
<1> QED
  BY <1>15, <1>18, <1>19, <1>20, <1>21 DEF PlaceGiven, u, c2

-----------------------------------------------------------------------------
(* What holds of a tree holds of another with the same links.              *)
SameTree(t, u) ==
  IsTree(u) /\ u.root = t.root /\ u.left = t.left /\ u.right = t.right /\ u.parent = t.parent

(* What lacks a black node, holds its red nodes apart or is bare does so   *)
(* under another name.                                                     *)
LEMMA SameTreeSame ==
  ASSUME NEW t, NEW u, SameTree(t, u), NEW N, NEW c
  PROVE  /\ \A d : \A s \in BOOLEAN : Lacking(t, N, c, d, s) => Lacking(u, N, c, d, s)
         /\ \A x : \A s \in BOOLEAN : LackingAt(t, N, c, x, s) => LackingAt(u, N, c, x, s)
         /\ \A x : RedApart(t, N, c, x) => RedApart(u, N, c, x)
         /\ Bare(t, N) => Bare(u, N)
<1>1. u.root = t.root /\ u.left = t.left /\ u.right = t.right /\ u.parent = t.parent /\ IsTree(u)
  BY DEF SameTree
<1>2. \A s : Hither(u, s) = Hither(t, s) /\ Yonder(u, s) = Yonder(t, s)
  BY <1>1 DEF Hither, Yonder
<1>3. \A F, s : TreeShaped(t, F, s) => TreeShaped(u, F, s)
  BY <1>1, <1>2 DEF TreeShaped
<1>4. \A F, H, d, s : \A c2 : Sound(t, F, c2, H, d, s) => Sound(u, F, c2, H, d, s)
  BY <1>1, <1>3 DEF Sound
<1>5. NoNullIn(t) => NoNullIn(u)
  BY <1>1 DEF NoNullIn
<1>6. \A d, s : Lacking(t, N, c, d, s) => Lacking(u, N, c, d, s)
  <2>1. \A d, s : SoundOver(t, N, c, d, s) => SoundOver(u, N, c, d, s)
    BY <1>1, <1>4 DEF SoundOver
  <2> QED
    BY <1>1, <1>5, <2>1 DEF Lacking
<1>7. \A x, s : LackingAt(t, N, c, x, s) => LackingAt(u, N, c, x, s)
  BY <1>1, <1>2, <1>6 DEF LackingAt
<1>8. \A x : RedApart(t, N, c, x) => RedApart(u, N, c, x)
  BY <1>1 DEF RedApart
<1>9. Bare(t, N) => Bare(u, N)
  BY <1>1 DEF Bare
<1> QED
  BY <1>6, <1>7, <1>8, <1>9

(* Red nodes that are apart everywhere are apart but for any one of them.  *)
LEMMA RedApartAnywhere ==
  ASSUME NEW t, NEW N \in SUBSET Keys, NEW c, c[NIL] = "black", NEW x, c[x] = "black"
  PROVE  /\ RedApart(t, N, c, NIL) <=> RedApart(t, N, c, x)
         /\ \A y : RedApart(t, N, c, NIL) => RedApart(t, N, c, y)
BY KeysAreInts DEF RedApart

-----------------------------------------------------------------------------
(* A red sibling is rotated over the parent: the gap stays where it was,   *)
(* beside a black sibling.                                                 *)
LEMMA BlackSibling ==
  ASSUME NEW t, NEW N, NEW c, NEW x, NEW s \in BOOLEAN, LackingAt(t, N, c, x, s), Bare(t, N),
         RedApart(t, N, c, x), c[x] = "black"
  PROVE  LET p == t.parent[x]
             w == Yonder(t, s)[p]
             u == IF c[w] = "red" THEN Rotate(t, p, s) ELSE t
             c2 == IF c[w] = "red" THEN Traded(c, w, p) ELSE c
         IN /\ u.parent[x] = p
            /\ LackingAt(u, N, c2, x, s) /\ Bare(u, N) /\ RedApart(u, N, c2, NIL)
            /\ SameOutside(t, u, N)
            /\ c2[x] = "black" /\ c2[Yonder(u, s)[p]] = "black"
<1> DEFINE p == t.parent[x]
           w == Yonder(t, s)[p]
           l == Hither(t, s)
           r == Yonder(t, s)
<1>1. /\ w \in N /\ w # p /\ w # x /\ x # p /\ p \in N /\ t.parent[w] = p
  BY SiblingIsThere
<1>2. /\ Lacking(t, N, c, p, s) /\ l[p] = x /\ x \in Cells
      /\ c \in [Cells -> {"red", "black"}] /\ c[NIL] = "black"
  BY DEF LackingAt, Lacking
<1>3. Joined(l, r, t.parent, t.root, N)
  BY <1>2, LackingIsJoined
<1>4. N \in SUBSET Keys /\ w \in Cells /\ p \in Cells /\ w \in Keys
  BY <1>1, <1>3, CellsAndRefs DEF Joined
<1>5. RedApart(t, N, c, NIL)
  BY <1>2, <1>4, RedApartAnywhere
<1>6. CASE c[w] # "red"
  <2>1. c[w] = "black"
    BY <1>2, <1>4, <1>6
  <2> QED
    BY <1>5, <1>6, <2>1 DEF SameOutside
<1>7. CASE c[w] = "red"
  <2> DEFINE u == Rotate(t, p, s)
             c2 == Traded(c, w, p)
  <2>1. c[p] = "black"
    <3>1. c[p] # "red"
      BY <1>1, <1>2, <1>4, <1>5, <1>7, CellsAndRefs DEF RedApart
    <3> QED
      BY <1>2, <1>4, <3>1
  <2>2. GoesUp(t, N, c, x, s, p, w, s)
    BY <1>1, <1>2, <1>4, <1>7, <2>1 DEF GoesUp
  <2> HIDE DEF p, w, l, r
  <2>3. /\ RotatedLinks(t, u, p, s)
        /\ u.parent[x] = t.parent[x]
        /\ LackingAt(u, N, c2, x, s) /\ Bare(u, N) /\ RedApart(u, N, c2, NIL)
        /\ SameOutside(t, u, N)
        /\ c2[x] = "black" /\ c2[w] = "black" /\ c2[p] = "red"
        /\ \A n \in Cells \ {w, p} : c2[n] = c[n]
    BY <1>5, <2>2, GoingUp
  <2> DEFINE b == l[w]
  <2> HIDE DEF u, c2
  <2>4. b \in Cells /\ b # w /\ b # p /\ c[b] = "black"
    <3>1. b \in Cells
      BY <1>3, <1>4 DEF Joined
    <3> HIDE DEF b
    <3>2. CASE b = NIL
      BY <1>1, <1>2, <1>4, <3>2, CellsAndRefs
    <3>3. CASE b # NIL
      <4>1. b \in N /\ t.parent[b] = w /\ b # w /\ b # p
        BY <1>1, <1>3, <3>3 DEF Joined, b
      <4>2. c[b] # "red"
        BY <1>2, <1>4, <1>5, <1>7, <4>1, CellsAndRefs DEF RedApart
      <4> QED
        BY <1>2, <3>1, <4>1, <4>2
    <3> QED
      BY <3>2, <3>3
  <2>5. Yonder(u, s)[p] = b
    BY <2>3 DEF RotatedLinks, w, l
  <2> HIDE DEF b
  <2>6. c2[Yonder(u, s)[p]] = "black"
    BY <2>3, <2>4, <2>5
  <2> QED
    BY <1>7, <2>3, <2>6 DEF u, c2, w, p
<1> QED
  BY <1>6, <1>7

-----------------------------------------------------------------------------
(* The sibling w of the gap at x, and whether its far child is the black   *)
(* one.                                                                    *)
Beside(t, s, x, p, w) == p = t.parent[x] /\ w = Yonder(t, s)[p]

(* The sibling w has a red child.                                          *)
OneChildRed(t, s, c, w) == ~(c[Hither(t, s)[w]] = "black" /\ c[Yonder(t, s)[w]] = "black")

(* Its red child, on the far side: the sibling is rotated if the far child *)
(* is black.                                                               *)
TurnedOut(t, s, c, w) == IF c[Yonder(t, s)[w]] = "black" THEN Rotate(t, w, ~s) ELSE t

(* The colors then.                                                        *)
TurnedColor(t, s, c, w) == IF c[Yonder(t, s)[w]] = "black" THEN Traded(c, Hither(t, s)[w], w) ELSE c

(* The tree v over N after the last rotation, from u.                      *)
GapFilled(t, u, v, N, c2, x, p) ==
  /\ u.parent[x] = p
  /\ Lacking(v, N, c2, NIL, TRUE) /\ Bare(v, N) /\ RedApart(v, N, c2, NIL)
  /\ SameOutside(t, v, N)

(* The far child of the black sibling is made red, if need be by a         *)
(* rotation of the sibling.                                                *)
LEMMA FarChildRed ==
  ASSUME NEW t, NEW N, NEW c, NEW x, NEW s \in BOOLEAN, LackingAt(t, N, c, x, s), Bare(t, N),
         RedApart(t, N, c, NIL), c[x] = "black",
         NEW p, NEW w, Beside(t, s, x, p, w), c[w] = "black", OneChildRed(t, s, c, w)
  PROVE  LET u == TurnedOut(t, s, c, w)
             c2 == TurnedColor(t, s, c, w)
             w2 == Yonder(u, s)[p]
         IN /\ u.parent[x] = p
            /\ LackingAt(u, N, c2, x, s) /\ Bare(u, N) /\ RedApart(u, N, c2, NIL)
            /\ SameOutside(t, u, N)
            /\ c2[w2] = "black" /\ c2[Yonder(u, s)[w2]] = "red"
<1> DEFINE l == Hither(t, s)
           r == Yonder(t, s)
           near == l[w]
           far == r[w]
<1>0. p = t.parent[x] /\ w = r[p]
  BY DEF Beside
<1>1. /\ w \in N /\ w # p /\ w # x /\ x # p /\ p \in N /\ t.parent[w] = p
  BY <1>0, SiblingIsThere
<1>2. /\ l[p] = x /\ x \in Cells
      /\ c \in [Cells -> {"red", "black"}] /\ c[NIL] = "black"
  BY <1>0 DEF LackingAt, Lacking
<1>3. Joined(l, r, t.parent, t.root, N)
  BY <1>0, LackingIsJoined DEF LackingAt
<1>4. /\ N \in SUBSET Keys /\ w \in Cells /\ p \in Cells /\ w \in Keys /\ p # NIL
      /\ near \in Cells /\ far \in Cells
  BY <1>1, <1>3, CellsAndRefs DEF Joined
<1>5. CASE c[far] # "black"
  <2>1. c[far] = "red"
    BY <1>2, <1>4, <1>5
  <2>2. TurnedOut(t, s, c, w) = t /\ TurnedColor(t, s, c, w) = c
    BY <1>5 DEF TurnedOut, TurnedColor
  <2> QED
    BY <1>0, <2>1, <2>2 DEF SameOutside
<1>6. CASE c[far] = "black"
  <2>1. c[near] = "red" /\ near # NIL
    BY <1>2, <1>4, <1>6 DEF OneChildRed
  <2>2. near \in Keys /\ near # p
    BY <1>1, <1>3, <1>4, <2>1, CellsAndRefs DEF Joined
  <2> DEFINE e == ~s
             u == Rotate(t, w, e)
             c2 == Traded(c, near, w)
  <2>3. e \in BOOLEAN /\ Hither(t, e) = r /\ Yonder(t, e) = l /\ Hither(u, e) = Yonder(u, s)
    BY OppositeSides
  <2> HIDE DEF e, l, r, near, far, u, c2
  <2>4. GoesUp(t, N, c, x, s, w, near, e)
    BY <1>0, <1>1, <1>6, <2>1, <2>2, <2>3 DEF GoesUp, near, far
  <2>5. /\ RotatedLinks(t, u, w, e)
        /\ u.parent[x] = t.parent[x]
        /\ LackingAt(u, N, c2, x, s) /\ Bare(u, N) /\ RedApart(u, N, c2, NIL)
        /\ SameOutside(t, u, N)
        /\ c2[near] = "black" /\ c2[w] = "red"
    BY <2>3, <2>4, GoingUp DEF u, c2
  <2>6. Hither(u, e)[near] = w /\ Hither(u, e)[p] = near
    <3>1. Hither(t, e)[p] = w /\ Yonder(t, e)[w] = near /\ t.parent[w] = p
      BY <1>0, <1>1, <2>3 DEF near
    <3> QED
      BY <1>4, <2>5, <3>1 DEF RotatedLinks
  <2>7. c2[Yonder(u, s)[p]] = "black" /\ c2[Yonder(u, s)[Yonder(u, s)[p]]] = "red"
    BY <2>3, <2>5, <2>6
  <2>8. u = TurnedOut(t, s, c, w) /\ c2 = TurnedColor(t, s, c, w)
    BY <1>6 DEF TurnedOut, TurnedColor, u, c2, e, near, far, l, r
  <2> QED
    BY <1>0, <2>5, <2>7, <2>8
<1> QED
  BY <1>5, <1>6

-----------------------------------------------------------------------------
(* The three rotations of a round of the loop, one after the other.        *)
LEMMA GapIsFilled ==
  ASSUME NEW t, NEW N, NEW c, NEW x, NEW s \in BOOLEAN, LackingAt(t, N, c, x, s), Bare(t, N),
         RedApart(t, N, c, NIL), c[x] = "black",
         NEW p, NEW w, Beside(t, s, x, p, w), c[w] = "black", OneChildRed(t, s, c, w)
  PROVE  LET u == TurnedOut(t, s, c, w)
             c2 == TurnedColor(t, s, c, w)
             w2 == Yonder(u, s)[p]
         IN GapFilled(t, u, Rotate(u, p, s), N, HandedDown(c2, w2, p, Yonder(u, s)[w2]), x, p)
<1> DEFINE u == TurnedOut(t, s, c, w)
           c2 == TurnedColor(t, s, c, w)
           w2 == Yonder(u, s)[p]
           f == Yonder(u, s)[w2]
           v == Rotate(u, p, s)
           c3 == HandedDown(c2, w2, p, f)
<1>1. /\ u.parent[x] = p
      /\ LackingAt(u, N, c2, x, s) /\ Bare(u, N) /\ RedApart(u, N, c2, NIL)
      /\ SameOutside(t, u, N)
      /\ c2[w2] = "black" /\ c2[f] = "red"
  BY FarChildRed
<1> HIDE DEF u, c2
<1>2. Around(u, s, x, p, w2, f)
  BY <1>1 DEF Around
<1> HIDE DEF w2, f
<1>3. /\ Lacking(v, N, c3, NIL, TRUE) /\ Bare(v, N) /\ RedApart(v, N, c3, NIL)
      /\ SameOutside(u, v, N)
  BY <1>1, <1>2, Refills
<1>4. SameOutside(t, v, N)
  BY <1>1, <1>3 DEF SameOutside
<1> QED
  BY <1>1, <1>3, <1>4 DEF u, c2, w2, f, GapFilled

-----------------------------------------------------------------------------
(* The sibling turns red: the gap is at the parent.                        *)
PassedUp(t, N, c, p) ==
  /\ p \in N /\ p \in Cells
  /\ p = t.root => Lacking(t, N, c, NIL, TRUE)
  /\ p # t.root => \A e \in BOOLEAN : Hither(t, e)[t.parent[p]] = p => LackingAt(t, N, c, p, e)
  /\ p # t.root => t.left[t.parent[p]] = p \/ t.right[t.parent[p]] = p
  /\ RedApart(t, N, c, p)

(* A sibling without a red child turns red, and the gap is one level up.   *)
LEMMA PassesUp ==
  ASSUME NEW t, NEW N, NEW c, NEW x, NEW s \in BOOLEAN, LackingAt(t, N, c, x, s), Bare(t, N),
         RedApart(t, N, c, NIL),
         NEW p, NEW w, Beside(t, s, x, p, w), c[w] = "black", ~OneChildRed(t, s, c, w)
  PROVE  PassedUp(t, N, PaintedRed(c, w), p)
<1> DEFINE c2 == PaintedRed(c, w)
           l == Hither(t, s)
           r == Yonder(t, s)
           q == t.parent
<1>0. p = q[x] /\ w = r[p]
  BY DEF Beside
<1>1. /\ w \in N /\ w # p /\ p \in N /\ q[w] = p
  BY <1>0, SiblingIsThere
<1>2. /\ c \in [Cells -> {"red", "black"}] /\ c[NIL] = "black"
  BY <1>0 DEF LackingAt, Lacking
<1>3. Joined(l, r, q, t.root, N)
  BY <1>0, LackingIsJoined DEF LackingAt
<1>4. p \in Cells /\ N \in SUBSET Keys /\ w \in Cells
  BY <1>1, <1>3, CellsAndRefs DEF Joined
<1>5. /\ p = t.root => Lacking(t, N, c2, NIL, TRUE)
      /\ p # t.root => \A e \in BOOLEAN : Hither(t, e)[q[p]] = p => LackingAt(t, N, c2, p, e)
  <2> HIDE DEF c2
  <2>1. c[Yonder(t, s)[t.parent[x]]] = "black"
    BY <1>0
  <2>2. LET m == t.parent[x]
            c3 == PaintedRed(c, Yonder(t, s)[m])
        IN /\ m = t.root => Lacking(t, N, c3, NIL, TRUE)
           /\ \A e \in BOOLEAN : m # t.root /\ Hither(t, e)[t.parent[m]] = m => LackingAt(t, N, c3, m, e)
    BY <2>1, PaintsSibling
  <2> HIDE DEF l, q
  <2> QED
    BY <1>0, <2>2 DEF c2, q, r
<1>6. p # t.root => t.left[q[p]] = p \/ t.right[q[p]] = p
  <2>1. p # t.root => l[q[p]] = p \/ r[q[p]] = p
    BY <1>1, <1>3 DEF Joined
  <2> QED
    BY <2>1 DEF Hither, Yonder
<1>7. RedApart(t, N, c2, p)
  <2> SUFFICES ASSUME NEW n \in N, c2[n] = "red", c2[q[n]] = "red", n # p, q[n] # p
               PROVE  FALSE
    BY DEF RedApart
  <2>1. /\ c2[w] = "red" /\ \A m \in Cells \ {w} : c2[m] = c[m]
    BY <1>2, <1>4 DEF PaintedRed
  <2> HIDE DEF c2, l, r
  <2>2. n # w /\ n \in Keys /\ n \in Cells /\ q[n] \in Cells /\ n # NIL
    BY <1>1, <1>3, <1>4, CellsAndRefs DEF Joined
  <2>3. c[n] = "red"
    BY <2>1, <2>2
  <2>4. q[n] # w
    <3> SUFFICES ASSUME q[n] = w PROVE FALSE
      OBVIOUS
    <3>1. l[w] = n \/ r[w] = n
      BY <1>1, <1>3, <1>4, <2>2, CellsAndRefs DEF Joined
    <3> QED
      BY <2>3, <3>1 DEF OneChildRed, l, r
  <2>5. c[q[n]] = "red"
    BY <2>1, <2>2, <2>4
  <2>6. NIL \in {n, q[n]}
    BY <2>3, <2>5 DEF RedApart
  <2> QED
    BY <1>2, <2>2, <2>5, <2>6
<1> QED
  BY <1>1, <1>4, <1>5, <1>6, <1>7 DEF PassedUp

-----------------------------------------------------------------------------
(* The nodes that stay, those in the tree while one is taken out of it.    *)
Kept == alive \ {spliced}

(* What holds of the call during a removal.                                *)
Removing ==
  /\ alive \in SUBSET Keys /\ size = Cardinality(alive) /\ refusals = 0
  /\ target \in alive /\ spliced \in alive
  /\ target # spliced => IsNextAfter(spliced, target, Kept)
  /\ left \in [Cells -> Refs] /\ right \in [Cells -> Refs]
  /\ \A n \in Keys \ alive : left[n] = NIL /\ right[n] = NIL /\ parent[n] = NIL

(* The loop is at the gap, on the way to the root.                         *)
Fixing ==
  /\ pc = "fix" /\ Removing /\ cur \in Cells
  /\ cur = root => Lacking(Tree, Kept, color, NIL, TRUE)
  /\ cur # root => LackingAt(Tree, Kept, color, cur, FixOnLeft)
  /\ RedApart(Tree, Kept, color, cur)
  /\ color[cur] = "black" => Bare(Tree, Kept)

(* The tree is whole again but for the node that was taken out, which may  *)
(* still have the links it had.                                            *)
Exchanging ==
  /\ pc = "exchange" /\ Removing
  /\ Lacking(CutAt(Tree, spliced), Kept, color, NIL, TRUE)
  /\ RedApart(CutAt(Tree, spliced), Kept, color, NIL)
  /\ Bare(CutAt(Tree, spliced), Kept)

(* The tree of a state, its links by name.                                 *)
LEMMA TreeFields ==
  /\ IsTree(Tree)
  /\ Tree.root = root /\ Tree.left = left /\ Tree.right = right /\ Tree.parent = parent
BY DEF IsTree, Tree

(* The tree of the next state.                                             *)
LEMMA BecomeSame ==
  ASSUME NEW t, Become(t)
  PROVE  SameTree(t, Tree')
BY DEF Become, SameTree, IsTree, Tree

(* What kind of thing its links and colors are.                            *)
LEMMA LackingTypes ==
  ASSUME NEW t, NEW N, NEW c, NEW d, NEW s \in BOOLEAN, Lacking(t, N, c, d, s)
  PROVE  /\ t.left \in [Cells -> Refs] /\ t.right \in [Cells -> Refs] /\ t.parent \in [Cells -> Cells]
         /\ \A n \in Keys : t.left[n] \in Cells /\ t.right[n] \in Cells
         /\ N \in SUBSET Keys /\ t.root \in N
         /\ c \in [Cells -> {"red", "black"}] /\ c[NIL] = "black"
         /\ IsTree(t)
<1>1. PICK e \in BOOLEAN : LeftFirst(e)
  BY OneSideIsLeft
<1>2. Joined(Hither(t, e), Yonder(t, e), t.parent, t.root, N)
  BY LackingIsJoined
<1>3. Joined(t.left, t.right, t.parent, t.root, N)
  BY <1>1, <1>2 DEF LeftFirst
<1>4. IsTree(t)
  BY DEF Lacking, SoundOver, Sound, TreeShaped
<1> QED
  BY <1>3, <1>4 DEF Joined, Lacking

(* A round that changes the links of the kept nodes only keeps what holds  *)
(* of the call.                                                            *)
LEMMA RemovingNext ==
  ASSUME Removing, NEW t, SameOutside(Tree, t, Kept), Become(t),
         t.left \in [Cells -> Refs], t.right \in [Cells -> Refs],
         UNCHANGED <<size, target, refusals, alive, spliced>>
  PROVE  Removing' /\ Kept' = Kept
<1>1. Kept' = Kept
  BY DEF Kept
<1>2. left' = t.left /\ right' = t.right /\ parent' = t.parent
  BY DEF Become
<1>3. \A n \in Keys \ alive : left'[n] = NIL /\ right'[n] = NIL /\ parent'[n] = NIL
  <2> TAKE n \in Keys \ alive
  <2>1. n \in Keys \ Kept
    BY DEF Kept
  <2>2. t.left[n] = left[n] /\ t.right[n] = right[n] /\ t.parent[n] = parent[n]
    BY <2>1, TreeFields DEF SameOutside
  <2> QED
    BY <1>2, <2>2 DEF Removing
<1> QED
  BY <1>1, <1>2, <1>3 DEF Removing

-----------------------------------------------------------------------------
(* The sides of the loop are the two sides of a tree.                      *)
LEMMA SiblingSide ==
  ASSUME NEW t
  PROVE  /\ FixOnLeft \in BOOLEAN
         /\ Sibling(t) = Yonder(t, FixOnLeft)[t.parent[cur]]
         /\ \A w : Near(t, w) = Hither(t, FixOnLeft)[w] /\ Far(t, w) = Yonder(t, FixOnLeft)[w]
BY DEF FixOnLeft, Sibling, Near, Far, Hither, Yonder

(* After the rotation of a red sibling, if there was one.                  *)
AtGap(t, c, p, w, s) ==
  /\ LackingAt(t, Kept, c, cur, s) /\ Bare(t, Kept) /\ RedApart(t, Kept, c, NIL)
  /\ SameOutside(Tree, t, Kept)
  /\ Beside(t, s, cur, p, w) /\ c[cur] = "black" /\ c[w] = "black"

(* After the rotation of a red sibling, if there was one, the sibling is   *)
(* black.                                                                  *)
LEMMA GapIsBesideBlack ==
  ASSUME Fixing, color[cur] = "black", cur # root
  PROVE  AtGap(AfterRedSibling, ColorAfterRedSibling, parent[cur], Sibling(AfterRedSibling), FixOnLeft)
<1> DEFINE s == FixOnLeft
           t == Tree
           p == t.parent[cur]
           w == Yonder(t, s)[p]
           u == IF color[w] = "red" THEN Rotate(t, p, s) ELSE t
           c2 == IF color[w] = "red" THEN Traded(color, w, p) ELSE color
<1>1. s \in BOOLEAN /\ Sibling(t) = w /\ p = parent[cur]
  BY SiblingSide, TreeFields
<1>2. u = AfterRedSibling
  <2> HIDE DEF t, s
  <2>1. AfterRedSibling = IF color[Sibling(t)] = "red" THEN Rotate(t, parent[cur], s) ELSE t
    BY DEF AfterRedSibling, t, s
  <2> HIDE DEF w, p
  <2> QED
    BY <1>1, <2>1
<1>3. c2 = ColorAfterRedSibling
  <2> HIDE DEF t, s
  <2>1. ColorAfterRedSibling = IF color[Sibling(t)] = "red" THEN Traded(color, Sibling(t), parent[cur]) ELSE color
    BY DEF ColorAfterRedSibling, t, Traded
  <2> HIDE DEF w, p
  <2> QED
    BY <1>1, <2>1
<1>4. LackingAt(t, Kept, color, cur, s) /\ Bare(t, Kept) /\ RedApart(t, Kept, color, cur)
  BY DEF Fixing
<1> HIDE DEF t, s
<1>5. /\ u.parent[cur] = p
      /\ LackingAt(u, Kept, c2, cur, s) /\ Bare(u, Kept) /\ RedApart(u, Kept, c2, NIL)
      /\ SameOutside(t, u, Kept)
      /\ c2[cur] = "black" /\ c2[Yonder(u, s)[p]] = "black"
  BY <1>1, <1>4, BlackSibling
<1> HIDE DEF u, c2, p
<1>6. Sibling(u) = Yonder(u, s)[p]
  BY <1>5, SiblingSide DEF s
<1> DEFINE v == Sibling(u)
<1>7. AtGap(u, c2, p, v, s)
  <2> HIDE DEF v
  <2>1. v = Yonder(u, s)[p]
    BY <1>6 DEF v
  <2> QED
    BY <1>5, <2>1 DEF AtGap, Beside, t
<1> QED
  BY <1>1, <1>2, <1>3, <1>7 DEF s

-----------------------------------------------------------------------------
(* A round of __tb_tree_fix_after_deletion that goes up passes the gap on. *)
LEMMA FixUpStep ==
  ASSUME Fixing, FixUp
  PROVE  Fixing'
<1> DEFINE t == AfterRedSibling
           c == ColorAfterRedSibling
           w == Sibling(t)
           p == parent[cur]
           s == FixOnLeft
           c2 == PaintedRed(c, w)
<1>1. /\ color[cur] = "black" /\ cur # root /\ pc' = "fix"
      /\ c[t.left[w]] = "black" /\ c[t.right[w]] = "black"
      /\ Become(t) /\ color' = c2 /\ cur' = t.parent[cur]
      /\ UNCHANGED <<size, target, refusals, alive, spliced>>
  BY DEF FixUp, Fixing, PaintedRed
<1>2. AtGap(t, c, p, w, s) /\ s \in BOOLEAN
  BY <1>1, GapIsBesideBlack, SiblingSide
<1> HIDE DEF t, c, w, p, s, c2
<1>3. /\ LackingAt(t, Kept, c, cur, s) /\ Bare(t, Kept) /\ RedApart(t, Kept, c, NIL)
      /\ SameOutside(Tree, t, Kept) /\ Beside(t, s, cur, p, w) /\ c[w] = "black"
      /\ p = t.parent[cur]
  BY <1>2 DEF AtGap, Beside
<1>4. ~OneChildRed(t, s, c, w)
  BY <1>1 DEF OneChildRed, Hither, Yonder
<1>5. /\ p \in Kept /\ p \in Cells
      /\ p = t.root => Lacking(t, Kept, c2, NIL, TRUE)
      /\ p # t.root => \A e \in BOOLEAN : Hither(t, e)[t.parent[p]] = p => LackingAt(t, Kept, c2, p, e)
      /\ p # t.root => t.left[t.parent[p]] = p \/ t.right[t.parent[p]] = p
      /\ RedApart(t, Kept, c2, p)
  <2>1. PassedUp(t, Kept, PaintedRed(c, w), p)
    BY <1>2, <1>3, <1>4, PassesUp
  <2> QED
    BY <2>1 DEF PassedUp, c2
<1>6. t.left \in [Cells -> Refs] /\ t.right \in [Cells -> Refs]
  <2>1. Lacking(t, Kept, c, p, s)
    BY <1>3 DEF LackingAt
  <2> QED
    BY <1>2, <2>1, LackingTypes
<1>7. Removing' /\ Kept' = Kept
  BY <1>1, <1>3, <1>6, RemovingNext DEF Fixing
<1>8. SameTree(t, Tree')
  BY <1>1, BecomeSame
<1>9. /\ left' = t.left /\ right' = t.right /\ parent' = t.parent /\ root' = t.root /\ cur' = p
  BY <1>1, <1>3 DEF Become
<1>10. cur' = root' => Lacking(Tree', Kept, c2, NIL, TRUE)
  BY <1>5, <1>8, <1>9, SameTreeSame
<1>11. cur' # root' => LackingAt(Tree', Kept, c2, cur', FixOnLeft')
  <2> SUFFICES ASSUME p # t.root PROVE LackingAt(Tree', Kept, c2, p, FixOnLeft')
    BY <1>9
  <2> DEFINE e == FixOnLeft'
  <2>1. e \in BOOLEAN /\ e = (p = t.left[t.parent[p]])
    BY <1>9 DEF FixOnLeft
  <2> HIDE DEF e
  <2>2. Hither(t, e)[t.parent[p]] = p
    BY <1>5, <2>1 DEF Hither
  <2>3. LackingAt(t, Kept, c2, p, e)
    BY <1>5, <2>1, <2>2
  <2>4. LackingAt(Tree', Kept, c2, p, e)
    BY <1>8, <2>1, <2>3, SameTreeSame
  <2> QED
    BY <2>4 DEF e
<1>12. RedApart(Tree', Kept, c2, cur') /\ Bare(Tree', Kept)
  BY <1>3, <1>5, <1>8, <1>9, SameTreeSame
<1> QED
  BY <1>1, <1>5, <1>7, <1>9, <1>10, <1>11, <1>12 DEF Fixing

-----------------------------------------------------------------------------
(* A round that rotates the parent fills the gap and goes to the root.     *)
LEMMA FixRotateStep ==
  ASSUME Fixing, FixRotate
  PROVE  Fixing'
<1> DEFINE t == AfterRedSibling
           c == ColorAfterRedSibling
           w == Sibling(t)
           p == parent[cur]
           s == FixOnLeft
           inner == c[Far(t, w)] = "black"
           t2 == IF inner THEN Rotate(t, w, ~s) ELSE t
           c2 == IF inner THEN [c EXCEPT ![Near(t, w)] = "black", ![w] = "red"] ELSE c
           w2 == Sibling(t2)
           p2 == t2.parent[cur]
           t3 == Rotate(t2, p2, s)
           c3 == HandedDown(c2, w2, p2, Far(t2, w2))
<1>1. /\ color[cur] = "black" /\ cur # root /\ pc' = "fix"
      /\ ~(c[t.left[w]] = "black" /\ c[t.right[w]] = "black")
      /\ Become(t3) /\ color' = c3 /\ cur' = t3.root
      /\ UNCHANGED <<size, target, refusals, alive, spliced>>
  BY DEF FixRotate, Fixing, HandedDown, EndAt
<1>2. AtGap(t, c, p, w, s) /\ s \in BOOLEAN
  BY <1>1, GapIsBesideBlack, SiblingSide
<1> HIDE DEF t, c, p, s, w
<1>3. /\ LackingAt(t, Kept, c, cur, s) /\ Bare(t, Kept) /\ RedApart(t, Kept, c, NIL)
      /\ SameOutside(Tree, t, Kept) /\ Beside(t, s, cur, p, w) /\ c[w] = "black" /\ c[cur] = "black"
  BY <1>2 DEF AtGap
<1>4. OneChildRed(t, s, c, w)
  BY <1>1 DEF OneChildRed, Hither, Yonder
<1>5. t2 = TurnedOut(t, s, c, w) /\ c2 = TurnedColor(t, s, c, w)
  BY SiblingSide DEF TurnedOut, TurnedColor, Traded, s
<1> HIDE DEF t2, c2
<1> DEFINE w3 == Yonder(t2, s)[p]
           c4 == HandedDown(c2, w3, p, Yonder(t2, s)[w3])
           t4 == Rotate(t2, p, s)
<1>6. GapFilled(t, t2, t4, Kept, c4, cur, p)
  BY <1>2, <1>3, <1>4, <1>5, GapIsFilled
<1>7. p2 = p
  BY <1>6 DEF GapFilled
<1>8. w2 = w3 /\ Far(t2, w2) = Yonder(t2, s)[w3]
  <2>1. w2 = Yonder(t2, s)[t2.parent[cur]]
    BY SiblingSide DEF s
  <2>2. w2 = w3
    BY <1>7, <2>1
  <2> HIDE DEF w2, w3
  <2>3. Far(t2, w2) = Yonder(t2, s)[w2]
    BY SiblingSide DEF s
  <2> QED
    BY <2>2, <2>3
<1>9. t3 = t4 /\ c3 = c4
  <2> HIDE DEF w2, w3, p2
  <2> QED
    BY <1>7, <1>8
<1> HIDE DEF w2, w3, p2, t3, c3, t4, c4
<1>10. /\ Lacking(t3, Kept, c3, NIL, TRUE) /\ Bare(t3, Kept) /\ RedApart(t3, Kept, c3, NIL)
       /\ SameOutside(t, t3, Kept)
  BY <1>6, <1>9 DEF GapFilled
<1>11. SameOutside(Tree, t3, Kept)
  BY <1>3, <1>10 DEF SameOutside
<1>12. /\ t3.left \in [Cells -> Refs] /\ t3.right \in [Cells -> Refs]
       /\ Kept \in SUBSET Keys /\ t3.root \in Kept /\ c3[NIL] = "black"
  <2> PICK e \in BOOLEAN : e = TRUE
    OBVIOUS
  <2> QED
    BY <1>10, LackingTypes
<1>13. Removing' /\ Kept' = Kept
  BY <1>1, <1>11, <1>12, RemovingNext DEF Fixing
<1>14. SameTree(t3, Tree')
  BY <1>1, BecomeSame
<1>15. root' = t3.root /\ cur' = root'
  BY <1>1 DEF Become
<1>16. /\ Lacking(Tree', Kept, c3, NIL, TRUE) /\ Bare(Tree', Kept) /\ RedApart(Tree', Kept, c3, NIL)
  BY <1>10, <1>14, SameTreeSame
<1>17. RedApart(Tree', Kept, c3, cur')
  BY <1>12, <1>16, RedApartAnywhere
<1> QED
  BY <1>1, <1>12, <1>13, <1>15, <1>16, <1>17, CellsAndRefs DEF Fixing

-----------------------------------------------------------------------------
(* The loop ends with nothing missing but the exchange.                    *)
LEMMA FixDoneStep ==
  ASSUME Fixing, FixDone
  PROVE  Exchanging'
<1> DEFINE y == spliced
           v == CutAt(Tree, y)
           c2 == Blackened(color, cur)
           N == Kept
           p == parent[cur]
           s == FixOnLeft
<1>1. /\ color[cur] = "red" \/ cur = root
      /\ color' = c2 /\ pc' = "exchange"
      /\ UNCHANGED <<links, size, target, refusals, alive, spliced>>
  BY DEF FixDone, Blackened
<1>2. Removing' /\ Kept' = Kept /\ Tree' = Tree
  BY <1>1 DEF Fixing, Removing, Kept, Tree, links
<1>3. /\ y \in Keys \ N /\ \A n \in Keys \ (N \union {y}) : Tree.left[n] = NIL /\ Tree.right[n] = NIL
      /\ N \in SUBSET Keys
  BY TreeFields DEF Fixing, Removing, Kept
<1>4. s \in BOOLEAN
  BY SiblingSide
<1>5. RedApart(v, N, color, cur)
  <2>1. RedApart(Tree, N, color, cur)
    BY DEF Fixing
  <2>2. v.parent = Tree.parent
    BY <1>4, TreeFields, CutFields
  <2> QED
    BY <2>1, <2>2 DEF RedApart
<1> HIDE DEF y, N, v
<1>6. CASE cur = root
  <2>1. Lacking(Tree, N, color, NIL, TRUE)
    BY <1>6 DEF Fixing, N
  <2>2. NIL # y
    BY <1>3, CellsAndRefs
  <2>3. Lacking(v, N, color, NIL, TRUE) /\ Bare(v, N)
    BY <1>3, <2>1, <2>2, CutOff DEF v
  <2>4. /\ color[root] = "black" /\ color \in [Cells -> {"red", "black"}]
        /\ color[NIL] = "black"
    BY <2>1, TreeFields DEF Lacking
  <2>5. c2 = color
    BY <1>6, <2>4 DEF Blackened
  <2>6. RedApart(v, N, color, NIL)
    BY <1>3, <1>5, <1>6, <2>4, RedApartAnywhere
  <2> QED
    BY <1>1, <1>2, <2>3, <2>5, <2>6 DEF Exchanging, v, N, y
<1>7. CASE cur # root
  <2>1. LackingAt(Tree, N, color, cur, s) /\ color[cur] = "red"
    BY <1>1, <1>7 DEF Fixing, N
  <2>2. /\ p \in N /\ Hither(Tree, s)[p] = cur /\ Lacking(Tree, N, color, p, s) /\ cur \in Cells
    BY <2>1, TreeFields DEF LackingAt
  <2>3. p # y /\ p \in Keys
    BY <1>3, <2>2
  <2>4. Lacking(v, N, color, p, s) /\ Bare(v, N)
    BY <1>3, <1>4, <2>2, <2>3, CutOff DEF v
  <2>5. v.parent[cur] = p /\ Hither(v, s)[p] = cur
    <3>1. v.parent = Tree.parent /\ Hither(v, s) = [Hither(Tree, s) EXCEPT ![y] = NIL]
      BY <1>4, TreeFields, CutFields DEF v
    <3>2. Hither(Tree, s) \in [Cells -> Refs]
      BY <1>4, <2>2, LackingTypes DEF Hither
    <3>3. p \in Cells
      BY <2>3, CellsAndRefs
    <3> QED
      BY <2>2, <2>3, <3>1, <3>2, <3>3, TreeFields
  <2>6. LackingAt(v, N, color, cur, s)
    BY <2>2, <2>4, <2>5 DEF LackingAt
  <2>7. Lacking(v, N, c2, NIL, TRUE) /\ RedApart(v, N, c2, NIL)
    BY <1>4, <1>5, <2>1, <2>4, <2>6, Blackens
  <2> QED
    BY <1>1, <1>2, <2>4, <2>7 DEF Exchanging, v, N, y
<1> QED
  BY <1>6, <1>7

-----------------------------------------------------------------------------
(* Between two removals, and during an insertion.                          *)
Whole == RbInv /\ NoNullIn(Tree) /\ alive = InTree /\ spliced = NIL /\ refusals = 0

(* Between two calls nothing is missing.                                   *)
LEMMA WholeIsLacking ==
  ASSUME Whole, pc = "idle", root \in Keys
  PROVE  /\ Lacking(Tree, alive, color, NIL, TRUE) /\ RedApart(Tree, alive, color, NIL)
         /\ Bare(Tree, alive)
         /\ size = Cardinality(alive) /\ alive \in SUBSET Keys /\ root \in alive
         /\ left \in [Cells -> Refs] /\ right \in [Cells -> Refs] /\ parent \in [Cells -> Cells]
         /\ \A n \in Keys \ alive : left[n] = NIL /\ right[n] = NIL /\ parent[n] = NIL
<1>1. /\ RbInv /\ NoNullIn(Tree) /\ alive = InTree
  BY DEF Whole
<1>2. /\ Sound(Tree, Nodes, color, Heights, NIL, TRUE) /\ Nodes[Tree.root] = InTree
  BY <1>1, TreeIsSound
<1>3. /\ color \in [Cells -> {"red", "black"}] /\ color[NIL] = "black"
      /\ color[root] = "black"
  <2>1. color[root] # "red"
    BY <1>1 DEF RbInv, ColorInv
  <2>2. color \in [Cells -> {"red", "black"}] /\ color[NIL] = "black"
    BY <1>1 DEF RbInv, TreeInv, ScalarType
  <2> QED
    BY <2>1, <2>2, CellsAndRefs
<1>4. Lacking(Tree, alive, color, NIL, TRUE)
  BY <1>1, <1>2, <1>3, TreeFields DEF Lacking, SoundOver
<1>5. RedApart(Tree, alive, color, NIL)
  BY <1>1, TreeFields DEF RedApart, RbInv, ColorInv
<1>6. \A n \in Keys \ alive : left[n] = NIL /\ right[n] = NIL /\ parent[n] = NIL
  BY <1>1 DEF RbInv, TreeInv, LooseNodes
<1>7. Bare(Tree, alive)
  BY <1>6, TreeFields DEF Bare
<1>8. /\ alive \in SUBSET Keys /\ root \in alive
      /\ left \in [Cells -> Refs] /\ right \in [Cells -> Refs] /\ parent \in [Cells -> Cells]
  BY <1>1, TreeFacts, LinkFacts DEF RbInv
<1>9. size = Cardinality(alive)
  BY <1>1 DEF RbInv, TreeInv
<1> QED
  BY <1>4, <1>5, <1>6, <1>7, <1>8, <1>9

(* A sound tree over the nodes alive, with red nodes apart, is what the    *)
(* next call may begin on.                                                 *)
LEMMA WholeAgain ==
  ASSUME NEW t, NEW N, NEW c, Lacking(t, N, c, NIL, TRUE), Bare(t, N), RedApart(t, N, c, NIL),
         \A n \in Keys \ N : t.parent[n] = NIL,
         Become(t), color' = c, size' = Cardinality(N), refusals' = 0, Return, alive' = N, spliced' = NIL
  PROVE  Whole'
<1>1. /\ root' = t.root /\ left' = t.left /\ right' = t.right /\ parent' = t.parent
      /\ pc' = "idle" /\ target' = NIL /\ cur' = NIL /\ above' = NIL
  BY DEF Become, Return
<1>2. PICK F, H : Sound(t, F, c, H, NIL, TRUE) /\ F[t.root] = N
  BY DEF Lacking, SoundOver
<1>3. /\ Shaped(left', right', parent', root', F, TRUE)
      /\ Even(left', right', color', H, NIL, TRUE)
  BY <1>1, <1>2 DEF Sound, TreeShaped, Hither, Yonder
<1>4. Grown(left', right', F, TRUE) /\ root' \in Refs
  BY <1>3 DEF Shaped, Parented
<1>5. Nodes' = F /\ InTree' = N
  BY <1>1, <1>2, <1>4, TreeNext
<1>6. Heights' = H
  BY <1>3, <1>4, HeightsNext
<1>7. Shaped(left, right, parent, root, Nodes, TRUE)'
  <2>1. Shaped(left', right', parent', root', Nodes', TRUE)
    BY <1>3, <1>5
  <2> QED
    BY <2>1 DEF Shaped, Grown, LinkType, Unfolds, Sorted, Parented, Before
<1>8. Even(left, right, color, Heights, NIL, TRUE)'
  <2>1. Even(left', right', color', Heights', NIL, TRUE)
    BY <1>3, <1>6
  <2> QED
    BY <2>1 DEF Even, Extra, Shade
<1>9. /\ c \in [Cells -> {"red", "black"}] /\ c[NIL] = "black" /\ c[t.root] = "black"
      /\ NoNullIn(t)
  BY DEF Lacking
<1>10. ScalarType'
  <2>1. Cardinality(N) \in Nat
    <3>1. N \in SUBSET Keys
      BY <1>4, <1>5, <1>1, <1>2 DEF Grown, Unfolds
    <3>2. IsFiniteSet(N)
      BY <3>1, KeysAssumption, FS_Subset
    <3> QED
      BY <3>2, FS_CardinalityType
  <2> QED
    BY <1>1, <1>9, <2>1, CellsAndRefs DEF ScalarType
<1>11. LooseNodes'
  BY <1>1, <1>5 DEF LooseNodes, Bare
<1>12. TreeInv'
  BY <1>1, <1>5, <1>7, <1>10, <1>11 DEF TreeInv
<1>13. ColorInv'
  <2>1. \A n \in N : ~(c[n] = "red" /\ c[t.parent[n]] = "red")
    <3> SUFFICES ASSUME NEW n \in N, c[n] = "red", c[t.parent[n]] = "red" PROVE FALSE
      OBVIOUS
    <3>1. NIL \in {n, t.parent[n]}
      BY DEF RedApart
    <3> QED
      BY <1>9, <3>1
  <2> QED
    BY <1>1, <1>5, <1>8, <1>9, <2>1 DEF ColorInv
<1>14. NoNullIn(Tree)'
  BY <1>1, <1>9 DEF NoNullIn, Tree
<1> QED
  BY <1>5, <1>12, <1>13, <1>14 DEF Whole, RbInv

-----------------------------------------------------------------------------
(* A search that succeeds has found a node of the tree.                    *)
LEMMA FoundIsInTree ==
  ASSUME Whole, NEW k \in Keys, Found(k)
  PROVE  k \in alive /\ root \in Keys
<1>1. root \in Keys /\ FoundIn(left, right, k, root)
  BY DEF Found, FoundIn
<1>2. Grown(left, right, Nodes, TRUE) /\ InTree = Nodes[root]
  BY TreeFacts DEF Whole, RbInv
<1>3. k \in Nodes[root]
  BY <1>1, <1>2, SearchFinds
<1> QED
  BY <1>1, <1>2, <1>3 DEF Whole

(* The first node of the subtree on one side of k has no child there.      *)
LEMMA DownFromChild ==
  ASSUME NEW l, NEW r, NEW F, NEW up, Grown(l, r, F, up), NEW k \in Keys, r[k] \in Keys
  PROVE  LET y == Down(l, r[k])
         IN /\ y \in Keys /\ y \in F[r[k]] /\ y \in F[k] /\ y # k /\ Before(k, y, up)
            /\ l[y] \notin Keys /\ k \notin F[r[k]] /\ F[r[k]] \subseteq F[k]
            /\ y # r[k] => \E p \in F[r[k]] : l[p] = y \/ r[p] = y
<1> DEFINE y == Down(l, r[k])
<1>1. IsFirst(y, F[r[k]], up)
  BY DownIsFirst
<1>2. /\ F[r[k]] \in SUBSET Keys /\ k \notin F[r[k]] /\ F[k] = {k} \union F[l[k]] \union F[r[k]]
      /\ F[l[k]] \in SUBSET Keys
  BY ChildrenAreBelow
<1> HIDE DEF y
<1>3. y \in F[r[k]] /\ y \in Keys /\ y # k /\ y \in F[k] /\ r[k] \in Refs
  BY <1>1, <1>2, CellsAndRefs DEF IsFirst
<1>4. Before(k, y, up)
  BY <1>3 DEF Grown, Sorted
<1>5. l[y] \notin Keys
  <2> SUFFICES ASSUME l[y] \in Keys PROVE FALSE
    OBVIOUS
  <2>1. F[y] \subseteq F[r[k]]
    BY <1>3, BelowIsClosed
  <2>2. l[y] \in F[l[y]]
    BY KeysAreBelowThemselves
  <2>3. F[y] = {y} \union F[l[y]] \union F[r[y]]
    BY <1>3, ChildrenAreBelow
  <2>4. Before(l[y], y, up)
    BY <1>3, <2>2 DEF Grown, Sorted
  <2>5. l[y] = y \/ Before(y, l[y], up)
    BY <1>1, <2>1, <2>2, <2>3 DEF IsFirst
  <2>6. l[y] # y
    BY <1>3, <2>4, BeforeOrders
  <2> QED
    BY <1>3, <2>4, <2>5, <2>6, BeforeOrders
<1>6. y # r[k] => \E p \in F[r[k]] : l[p] = y \/ r[p] = y
  BY <1>3, BelowHasParent
<1> QED
  BY <1>2, <1>3, <1>4, <1>5, <1>6 DEF y

(* The node that leaves its place has one child at most, and it is the     *)
(* deleted node or the next one.                                           *)
LEMMA LeaverIsNext ==
  ASSUME Whole, pc = "idle", NEW k \in alive, root \in Keys
  PROVE  LET y == Leaver(k)
             x == OnlyChild(y)
         IN /\ y \in alive /\ x \in Cells /\ OnlyChildIs(left, right, y, x)
            /\ y # k => IsNextAfter(y, k, alive \ {y})
            /\ y # k /\ parent[y] = root => k = root
            /\ y = root => k = root
<1> DEFINE y == Leaver(k)
           x == OnlyChild(y)
<1>1. RbInv /\ NoNullIn(Tree) /\ alive = InTree
  BY DEF Whole
<1>2. /\ Grown(left, right, Nodes, TRUE) /\ InTree = Nodes[root] /\ InTree \in SUBSET Keys
      /\ \A n \in Refs \ Keys : Nodes[n] = {}
  BY <1>1, TreeFacts DEF RbInv
<1>3. \A n \in Keys : left[n] \in Cells /\ right[n] \in Cells
  <2>1. \A n \in Keys : left[n] \in Refs /\ right[n] \in Refs /\ left[n] # NULL /\ right[n] # NULL
    BY <1>1, <1>2, CellsAndRefs, TreeFields DEF Grown, LinkType, NoNullIn
  <2> QED
    BY <2>1, CellsAndRefs
<1>4. /\ \A n \in InTree : \A c \in {left[n], right[n]} \intersect Keys : c \in InTree /\ parent[c] = n
      /\ root \in InTree
  BY <1>1, LinkFacts DEF RbInv
<1>5. k \in InTree /\ k \in Keys
  BY <1>1, <1>2
<1>6. CASE left[k] = NIL \/ right[k] = NIL
  <2>1. y = k
    BY <1>6 DEF Leaver
  <2> HIDE DEF y
  <2>2. OnlyChildIs(left, right, k, OnlyChild(k)) /\ OnlyChild(k) \in Cells
    BY <1>3, <1>5, <1>6 DEF OnlyChild, OnlyChildIs
  <2> QED
    BY <1>1, <1>5, <2>1, <2>2 DEF y
<1>7. CASE left[k] # NIL /\ right[k] # NIL
  <2> DEFINE c == right[k]
             A == {m \in InTree : m > k}
  <2>1. y = NextNode(k) /\ NextNode(k) = Down(left, c)
    BY <1>7 DEF Leaver, NextNode, Leftmost, Down
  <2>2. c \in Keys /\ c \in Refs
    BY <1>3, <1>5, <1>7, CellsAndRefs
  <2> HIDE DEF y
  <2>3. /\ y \in Keys /\ y \in Nodes[c] /\ y \in Nodes[k] /\ y # k /\ Before(k, y, TRUE)
        /\ left[y] \notin Keys /\ k \notin Nodes[c] /\ Nodes[c] \subseteq Nodes[k]
        /\ y # c => \E p \in Nodes[c] : left[p] = y \/ right[p] = y
    <3>1. \A up : Grown(left, right, Nodes, up) =>
            /\ y \in Keys /\ y \in Nodes[c] /\ y \in Nodes[k] /\ y # k /\ Before(k, y, up)
            /\ left[y] \notin Keys /\ k \notin Nodes[c] /\ Nodes[c] \subseteq Nodes[k]
            /\ y # c => \E p \in Nodes[c] : left[p] = y \/ right[p] = y
      BY <1>5, <2>1, <2>2, DownFromChild
    <3> QED
      BY <1>2, <3>1, Zenon
  <2>5. Nodes[k] \subseteq InTree
    BY <1>2, <1>4, <1>5, BelowIsClosed, CellsAndRefs
  <2>6. y \in InTree /\ y \in Int /\ k \in Int /\ k < y
    BY <1>2, <1>5, <2>3, <2>5, KeysAreInts DEF Before
  <2>7. y = FirstIn(A, TRUE) /\ A \in SUBSET InTree
    BY <1>1, <1>5, <2>1, WalkSteps
  <2>8. IsFirst(y, A, TRUE)
    <3>1. y \in A
      BY <2>6
    <3>2. A \in SUBSET Nodes[root] /\ root \in Refs /\ A # {}
      BY <1>2, <2>7, <3>1, CellsAndRefs
    <3> HIDE DEF A
    <3> QED
      BY <1>2, <2>7, <3>2, FirstInTree
  <2>9. IsNextAfter(y, k, alive \ {y})
    <3>1. y > k /\ \A m \in A : m = y \/ y < m
      BY <2>8 DEF IsFirst, Before
    <3>2. \A m \in alive \ {y} : m > k => m > y
      <4> TAKE m \in alive \ {y}
      <4>1. m \in Int /\ y \in Int
        BY <1>1, <1>2, <2>3, KeysAreInts
      <4> QED
        BY <1>1, <3>1, <4>1
    <3> QED
      BY <3>1, <3>2 DEF IsNextAfter
  <2>10. left[y] = NIL
    BY <1>3, <2>3, CellsAndRefs
  <2>11. OnlyChildIs(left, right, y, x) /\ x \in Cells
    BY <1>3, <2>3, <2>10 DEF OnlyChild, OnlyChildIs
  <2>12. parent[y] = root => k = root
    <3> SUFFICES ASSUME parent[y] = root PROVE k = root
      OBVIOUS
    <3>1. CASE y = c
      BY <1>4, <1>5, <2>2, <3>1
    <3>2. CASE y # c
      <4>1. PICK p \in Nodes[c] : left[p] = y \/ right[p] = y
        BY <2>3, <3>2
      <4>3. p \in InTree
        BY <2>3, <2>5
      <4>4. p = root
        BY <1>4, <2>3, <4>1, <4>3
      <4>5. Nodes[root] \subseteq Nodes[c]
        BY <1>2, <2>2, <4>4, BelowIsClosed
      <4> QED
        BY <1>2, <1>5, <2>3, <4>5
    <3> QED
      BY <3>1, <3>2
  <2>13. y # root
    <3> SUFFICES ASSUME y = root PROVE FALSE
      OBVIOUS
    <3>1. Nodes[root] \subseteq Nodes[c]
      BY <1>2, <2>2, <2>3, BelowIsClosed
    <3> QED
      BY <1>2, <1>5, <2>3, <3>1
  <2> QED
    BY <1>1, <2>3, <2>6, <2>9, <2>11, <2>12, <2>13 DEF y
<1> QED
  BY <1>3, <1>5, <1>6, <1>7, CellsAndRefs

-----------------------------------------------------------------------------
(* y leaves its place to its child x when k is removed.                    *)
TakenOut(k, y, x) == y = Leaver(k) /\ x = OnlyChild(y)

(* The node remove takes out, its child and its parent are in the tree.    *)
LEMMA LeaverFacts ==
  ASSUME Whole, pc = "idle", NEW k \in Keys, Found(k), NEW y, NEW x, TakenOut(k, y, x)
  PROVE  /\ k \in alive /\ root \in alive /\ y \in alive /\ x \in Cells
         /\ OnlyChildIs(Tree.left, Tree.right, y, x)
         /\ y # k => IsNextAfter(y, k, alive \ {y})
         /\ y # k /\ parent[y] = root => k = root
         /\ y = root => k = root
         /\ y # root => parent[y] \in alive /\ (left[parent[y]] = y \/ right[parent[y]] = y)
         /\ x # NIL => x \in alive
         /\ parent[y] # y
<1>1. k \in alive /\ root \in Keys
  BY FoundIsInTree
<1>2. /\ y \in alive /\ x \in Cells /\ OnlyChildIs(left, right, y, x)
      /\ y # k => IsNextAfter(y, k, alive \ {y})
      /\ y # k /\ parent[y] = root => k = root
      /\ y = root => k = root
  BY <1>1, LeaverIsNext DEF TakenOut
<1>3. Lacking(Tree, alive, color, NIL, TRUE) /\ root \in alive
  BY <1>1, WholeIsLacking
<1>4. Joined(left, right, parent, root, alive)
  <2>1. \A s \in BOOLEAN : Joined(Hither(Tree, s), Yonder(Tree, s), Tree.parent, Tree.root, alive)
    <3>1. \A e \in BOOLEAN : Lacking(Tree, alive, color, NIL, e)
                              => \A s \in BOOLEAN : Joined(Hither(Tree, s), Yonder(Tree, s), Tree.parent, Tree.root, alive)
      BY LackingIsJoined
    <3> QED
      BY <1>3, <3>1
  <2>2. PICK s \in BOOLEAN : Upward(s) /\ LeftFirst(s)
    BY OneSideIsLeft
  <2>3. Hither(Tree, s) = left /\ Yonder(Tree, s) = right
    BY <2>2, TreeFields DEF LeftFirst
  <2> QED
    BY <2>1, <2>3, TreeFields
<1> QED
  BY <1>1, <1>2, <1>3, <1>4, TreeFields, CellsAndRefs DEF Joined, OnlyChildIs

(* A node that is not the root is taken out of its place.                  *)
LEMMA SplicesOut ==
  ASSUME Whole, pc = "idle", NEW k \in Keys, Found(k), NEW y, NEW x, TakenOut(k, y, x), y # root,
         NEW s \in BOOLEAN, Hither(Tree, s)[parent[y]] = y, SpliceAt(Tree, Tree', s, y, x),
         target' = k, spliced' = y, UNCHANGED <<root, color, size, refusals, alive>>
  PROVE  /\ Removing' /\ Kept' = alive \ {y} /\ y \in Keys
         /\ RedApart(Tree', Kept', color', x)
         /\ color[y] = "black" => LackingAt(Tree', Kept', color', x, s)
         /\ color[y] = "red" => x = NIL /\ Lacking(Tree', Kept', color', NIL, TRUE)
         /\ color[x] = "black" => x = NIL /\ Bare(Tree', Kept')
<1> DEFINE p == parent[y]
           N == alive \ {y}
<1>1. /\ k \in alive /\ root \in alive /\ y \in alive /\ x \in Cells /\ p \in alive /\ p # y
      /\ OnlyChildIs(Tree.left, Tree.right, y, x)
      /\ y # k => IsNextAfter(y, k, N)
      /\ x # NIL => x \in alive
  BY LeaverFacts
<1>2. /\ Lacking(Tree, alive, color, NIL, TRUE) /\ RedApart(Tree, alive, color, NIL)
      /\ Bare(Tree, alive) /\ alive \in SUBSET Keys
      /\ size = Cardinality(alive)
      /\ left \in [Cells -> Refs] /\ right \in [Cells -> Refs] /\ parent \in [Cells -> Cells]
      /\ \A n \in Keys \ alive : left[n] = NIL /\ right[n] = NIL /\ parent[n] = NIL
  <2>1. root \in Keys
    BY FoundIsInTree
  <2> QED
    BY <2>1, WholeIsLacking
<1>3. Tree'.left = left' /\ Tree'.right = right' /\ Tree'.parent = parent' /\ Tree'.root = root'
  BY DEF Tree
<1>4. /\ RedApart(Tree', N, color, x)
      /\ color[y] = "black" => LackingAt(Tree', N, color, x, s)
      /\ color[y] = "red" => x = NIL /\ Lacking(Tree', N, color, NIL, TRUE)
      /\ color[x] = "black" => x = NIL
  <2>1. Tree.parent[y] \in alive /\ Hither(Tree, s)[Tree.parent[y]] = y
    BY <1>1, TreeFields
  <2>2. \A u : SpliceAt(Tree, u, s, y, x) =>
          /\ RedApart(u, N, color, x)
          /\ color[y] = "black" => LackingAt(u, N, color, x, s)
          /\ color[y] = "red" => x = NIL /\ Lacking(u, N, color, NIL, TRUE)
          /\ color[x] = "black" => x = NIL
    <3> SUFFICES ASSUME NEW u, SpliceAt(Tree, u, s, y, x)
                 PROVE  /\ RedApart(u, alive \ {y}, color, x)
                        /\ color[y] = "black" => LackingAt(u, alive \ {y}, color, x, s)
                        /\ color[y] = "red" => x = NIL /\ Lacking(u, alive \ {y}, color, NIL, TRUE)
                        /\ color[x] = "black" => x = NIL
      OBVIOUS
    <3> HIDE DEF p, N
    <3>1. /\ Lacking(Tree, alive, color, NIL, TRUE) /\ RedApart(Tree, alive, color, NIL)
          /\ Bare(Tree, alive) /\ y \in alive /\ x \in Cells /\ OnlyChildIs(Tree.left, Tree.right, y, x)
      BY <1>1, <1>2
    <3> QED
      BY <2>1, <3>1, Splices
  <2> QED
    BY <2>2
<1>5. Kept' = N /\ color' = color
  BY DEF Kept
<1>6. /\ left' \in [Cells -> Refs] /\ right' \in [Cells -> Refs] /\ parent' = [parent EXCEPT ![x] = p]
      /\ \A n \in Keys \ {p} : left'[n] = left[n] /\ right'[n] = right[n]
  <2>1. /\ Hither(Tree', s) = [Hither(Tree, s) EXCEPT ![p] = x] /\ Yonder(Tree', s) = Yonder(Tree, s)
        /\ Tree'.parent = [parent EXCEPT ![x] = p]
    BY TreeFields DEF SpliceAt
  <2>2. p \in Cells /\ x \in Refs
    BY <1>1, <1>2, CellsAndRefs
  <2>3. CASE s = TRUE
    <3>1. left' = [left EXCEPT ![p] = x] /\ right' = right
      BY <1>3, <2>1, <2>3, TreeFields DEF Hither, Yonder
    <3> QED
      BY <1>2, <1>3, <2>1, <2>2, <3>1, CellsAndRefs
  <2>4. CASE s = FALSE
    <3>1. right' = [right EXCEPT ![p] = x] /\ left' = left
      BY <1>3, <2>1, <2>4, TreeFields DEF Hither, Yonder
    <3> QED
      BY <1>2, <1>3, <2>1, <2>2, <3>1, CellsAndRefs
  <2> QED
    BY <2>3, <2>4
<1>7. Removing'
  <2>1. \A n \in Keys \ alive : left'[n] = NIL /\ right'[n] = NIL /\ parent'[n] = NIL
    <3> TAKE n \in Keys \ alive
    <3>1. n # p /\ n # x /\ n \in Cells
      BY <1>1, CellsAndRefs
    <3> QED
      BY <1>2, <1>6, <3>1
  <2>2. refusals' = 0
    BY DEF Whole
  <2> HIDE DEF N
  <2> QED
    BY <1>1, <1>2, <1>5, <1>6, <2>1, <2>2 DEF Removing
<1>8. x = NIL => Bare(Tree', N)
  <2> SUFFICES ASSUME x = NIL, NEW n \in Keys \ N
               PROVE  left'[n] = NIL /\ right'[n] = NIL
    BY <1>3 DEF Bare
  <2>1. n # p
    BY <1>1
  <2>2. left[y] = NIL /\ right[y] = NIL
    BY <1>1, TreeFields DEF OnlyChildIs
  <2> QED
    BY <1>2, <1>6, <2>1, <2>2
<1> QED
  BY <1>1, <1>2, <1>4, <1>5, <1>7, <1>8

-----------------------------------------------------------------------------
(* The loop starts, or the exchange follows at once.                       *)
LEMMA RemovalBegins ==
  ASSUME Whole, pc = "idle", NEW k \in Keys, Found(k), NEW y, NEW x, TakenOut(k, y, x), y # root,
         NEW s \in BOOLEAN, Hither(Tree, s)[parent[y]] = y, SpliceAt(Tree, Tree', s, y, x),
         target' = k, spliced' = y, UNCHANGED <<root, color, size, refusals, alive>>,
         cur' = x, pc' \in {"exchange", "fix"}, pc' = "exchange" <=> color[y] = "red"
  PROVE  Fixing' \/ Exchanging'
<1>1. /\ Removing' /\ Kept' = alive \ {y} /\ y \in Keys
      /\ RedApart(Tree', Kept', color', x)
      /\ color[y] = "black" => LackingAt(Tree', Kept', color', x, s)
      /\ color[y] = "red" => x = NIL /\ Lacking(Tree', Kept', color', NIL, TRUE)
      /\ color[x] = "black" => x = NIL /\ Bare(Tree', Kept')
  BY SplicesOut
<1>2. Tree'.left = left' /\ Tree'.right = right' /\ Tree'.parent = parent' /\ Tree'.root = root'
  BY DEF Tree
<1>3. color \in [Cells -> {"red", "black"}] /\ color[NIL] = "black" /\ color' = color /\ root' = root
  <2>1. root \in Keys
    BY FoundIsInTree
  <2>2. Lacking(Tree, alive, color, NIL, TRUE)
    BY <2>1, WholeIsLacking
  <2> QED
    BY <2>2 DEF Lacking
<1>4. CASE color[y] = "red"
  <2> DEFINE v == CutAt(Tree', y)
             N == Kept'
             c == color'
  <2>1. x = NIL /\ Lacking(Tree', N, c, NIL, TRUE) /\ RedApart(Tree', N, c, NIL) /\ Bare(Tree', N)
    BY <1>1, <1>3, <1>4
  <2>2. /\ y \in Keys \ N /\ NIL # y
        /\ \A n \in Keys \ (N \union {y}) : Tree'.left[n] = NIL /\ Tree'.right[n] = NIL
    BY <1>1, <2>1, CellsAndRefs DEF Bare
  <2>3. IsTree(Tree')
    BY DEF IsTree, Tree
  <2> HIDE DEF N, c
  <2>4. \A t : /\ Lacking(t, N, c, NIL, TRUE) /\ RedApart(t, N, c, NIL) /\ IsTree(t)
               /\ \A n \in Keys \ (N \union {y}) : t.left[n] = NIL /\ t.right[n] = NIL
               => /\ Lacking(CutAt(t, y), N, c, NIL, TRUE) /\ Bare(CutAt(t, y), N)
                  /\ RedApart(CutAt(t, y), N, c, NIL)
    <3> SUFFICES ASSUME NEW t, Lacking(t, N, c, NIL, TRUE), RedApart(t, N, c, NIL), IsTree(t),
                        \A n \in Keys \ (N \union {y}) : t.left[n] = NIL /\ t.right[n] = NIL
                 PROVE  /\ Lacking(CutAt(t, y), N, c, NIL, TRUE) /\ Bare(CutAt(t, y), N)
                        /\ RedApart(CutAt(t, y), N, c, NIL)
      OBVIOUS
    <3>1. Lacking(CutAt(t, y), N, c, NIL, TRUE) /\ Bare(CutAt(t, y), N)
      BY <2>2, CutOff
    <3>2. CutAt(t, y).parent = t.parent
      BY CutFields
    <3> QED
      BY <3>1, <3>2 DEF RedApart
  <2>5. /\ Lacking(v, N, c, NIL, TRUE) /\ Bare(v, N) /\ RedApart(v, N, c, NIL)
    BY <2>1, <2>2, <2>3, <2>4
  <2>6. pc' = "exchange"
    BY <1>4
  <2> QED
    BY <1>1, <2>5, <2>6 DEF Exchanging, N, c
<1>5. CASE color[y] # "red"
  <2>1. LackingAt(Tree', Kept', color', x, s) /\ pc' = "fix"
    <3>1. \A n \in Keys : color[n] \in {"red", "black"}
      BY <1>3, CellsAndRefs
    <3> QED
      BY <1>1, <1>5, <3>1
  <2>2. \A t, N, c : LackingAt(t, N, c, x, s) =>
          /\ x # t.root /\ Yonder(t, s)[t.parent[x]] # x
          /\ Hither(t, s)[t.parent[x]] = x /\ x \in Cells
    BY SiblingIsThere DEF LackingAt
  <2>3. /\ x # root /\ Yonder(Tree', s)[parent'[x]] # x /\ Hither(Tree', s)[parent'[x]] = x /\ x \in Cells
    BY <1>2, <1>3, <2>1, <2>2
  <2>4. FixOnLeft' = s
    <3>1. FixOnLeft' = (x = left'[parent'[x]])
      BY DEF FixOnLeft
    <3>2. CASE s = TRUE
      BY <1>2, <2>3, <3>1, <3>2 DEF Hither
    <3>3. CASE s = FALSE
      BY <1>2, <2>3, <3>1, <3>3 DEF Yonder
    <3> QED
      BY <3>2, <3>3
  <2>5. color'[cur'] = "black" => Bare(Tree', Kept')
    BY <1>1, <1>3
  <2> QED
    BY <1>1, <1>3, <2>1, <2>3, <2>4, <2>5 DEF Fixing
<1> QED
  BY <1>4, <1>5

-----------------------------------------------------------------------------
(* The right child of the root leaves its place, but it is the left link   *)
(* of the root that was changed.                                           *)
RightLinkKept ==
  /\ spliced # root /\ target \in {root, spliced} /\ right[root] = spliced
  /\ left[root] \in Kept \union {NIL}
  /\ \A n \in Kept \ {root} : left[n] \in Kept \union {NIL} /\ right[n] \in Kept \union {NIL}

(* The root leaves its place, but the root pointer was not changed.        *)
RootKept == spliced = root /\ target = root

(* The loop runs on wrong links: it turns the node that left red, or the   *)
(* sentinel, or finds a red node at once.                                  *)
WrongFixing ==
  /\ pc = "fix" /\ Removing /\ root \in alive
  /\ \/ /\ RootKept
        /\ color[cur] = "black" =>
             cur = NIL /\ left[NIL] = NIL /\ right[NIL] = NIL /\ parent[NIL] = NIL
     \/ /\ RightLinkKept
        /\ color[cur] = "black" /\ cur # root =>
             /\ cur = NIL /\ left[root] = NIL /\ parent[NIL] = root
             /\ left[spliced] = NIL /\ right[spliced] = NIL /\ color[spliced] = "black"

(* The exchange follows on wrong links.                                    *)
WrongExchange ==
  /\ pc = "exchange" /\ Removing /\ root \in alive
  /\ RootKept \/ RightLinkKept

(* A link to a deleted node: the root was, or its right child.             *)
Dead ==
  /\ pc = "idle" /\ root \in Keys /\ alive \in SUBSET Keys
  /\ \/ root \notin alive /\ left[root] = NIL /\ right[root] = NIL
     \/ /\ root \in alive /\ right[root] \in Keys \ alive
        /\ left[right[root]] = NIL /\ right[right[root]] = NIL
        /\ left[root] \in alive \union {NIL}
        /\ \A n \in alive \ {root} : left[n] \in alive \union {NIL} /\ right[n] \in alive \union {NIL}

(* Whatever state the program is in, it is one of these.                   *)
RemovalInv == Whole \/ Fixing \/ Exchanging \/ WrongFixing \/ WrongExchange \/ Dead

(* The near side is the right one.                                         *)
RightFirst(s) == \A t : Hither(t, s) = t.right /\ Yonder(t, s) = t.left

(* One of the two sides is the right one.                                  *)
LEMMA OtherSideIsRight == \E s \in BOOLEAN : RightFirst(s)
<1>1. RightFirst(FALSE)
  BY DEF RightFirst, Hither, Yonder
<1> QED
  BY <1>1

(* The only child of a node is red.                                        *)
LEMMA OnlyChildIsRed ==
  ASSUME RbInv, NEW y \in Keys, NEW x \in Cells, OnlyChildIs(left, right, y, x), color[x] = "black"
  PROVE  x = NIL
<1> SUFFICES ASSUME x \in Keys PROVE FALSE
  BY DEF Cells
<1>1. /\ left \in [Cells -> Refs] /\ right \in [Cells -> Refs]
      /\ Even(left, right, color, Heights, NIL, TRUE)
  BY TreeFacts DEF RbInv, ColorInv
<1>2. /\ Heights[NIL] = 0 /\ Heights[left[x]] \in Nat /\ y # NIL /\ x # NIL
      /\ left[x] \in Refs
  BY <1>1, CellsAndRefs DEF Even
<1> DEFINE H == Heights
<1>3. /\ H[left[y]] = H[right[y]]
      /\ H[x] = H[left[x]] + Shade(color, x)
  <2>1. /\ H[left[y]] \in Nat /\ H[right[y]] \in Nat /\ H[left[x]] \in Nat
    BY <1>1, CellsAndRefs DEF Even
  <2>2. \A n \in Keys : n # NIL /\ Shade(color, n) \in Nat
    BY CellsAndRefs DEF Shade
  <2> HIDE DEF H
  <2>3. /\ H[left[y]] + 0 = H[right[y]] + 0
        /\ H[x] = H[left[x]] + 0 + Shade(color, x)
    BY <1>1, <2>2 DEF Even, Extra, H
  <2> QED
    BY <2>1, <2>2, <2>3
<1>4. H[x] = 0
  BY <1>2, <1>3 DEF OnlyChildIs
<1>5. Shade(color, x) = 1
  BY DEF Shade
<1> QED
  BY <1>2, <1>3, <1>4, <1>5

(* Where the links of a whole tree lead, but for those to one of its       *)
(* nodes.                                                                  *)
LEMMA LinksOfWhole ==
  ASSUME Whole, NEW y
  PROVE  /\ \A n \in alive : left[n] \in alive \union {NIL} /\ right[n] \in alive \union {NIL}
         /\ \A n \in alive : y \in alive /\ n # parent[y] => left[n] # y /\ right[n] # y
         /\ root \in Keys => parent[root] = NIL /\ root \in alive
         /\ left[NIL] = NIL /\ right[NIL] = NIL
<1>1. /\ TreeInv /\ NoNullIn(Tree) /\ alive = InTree
  BY DEF Whole, RbInv
<1>2. /\ \A n \in InTree : \A c \in {left[n], right[n]} \intersect Keys : c \in InTree /\ parent[c] = n
      /\ \A n \in InTree : n \in Keys /\ (n = root <=> parent[n] = NIL)
      /\ root \in Keys => root \in InTree
  BY <1>1, LinkFacts
<1>3. /\ left \in [Cells -> Refs] /\ right \in [Cells -> Refs]
      /\ left[NIL] = NIL /\ right[NIL] = NIL
  BY <1>1, TreeFacts
<1>4. \A n \in Keys : left[n] # NULL /\ right[n] # NULL
  BY <1>1, TreeFields DEF NoNullIn
<1>5. \A n \in alive : left[n] \in alive \union {NIL} /\ right[n] \in alive \union {NIL}
  BY <1>1, <1>2, <1>3, <1>4, CellsAndRefs
<1> QED
  BY <1>1, <1>2, <1>3, <1>5

(* remove unlinks a node: the loop starts on a tree that lacks one black   *)
(* node, a red node leaves for the exchange at once, or the link that      *)
(* changed was not the one that led to the node.                           *)
LEMMA BeginRemoveStep ==
  ASSUME Whole, NEW k \in Keys, BeginRemove(k)
  PROVE  Fixing' \/ Exchanging' \/ WrongFixing' \/ WrongExchange'
<1> DEFINE y == Leaver(k)
           x == OnlyChild(y)
           p == parent[y]
<1>1. /\ pc = "idle" /\ Found(k) /\ target' = k /\ spliced' = y /\ cur' = x
      /\ Splice(y, x) /\ parent' = [parent EXCEPT ![x] = p]
      /\ pc' = IF color[y] = "red" THEN "exchange" ELSE "fix"
      /\ UNCHANGED <<root, color, size, refusals, alive>>
  BY DEF BeginRemove
<1>2. TakenOut(k, y, x)
  BY DEF TakenOut
<1> HIDE DEF y, x
<1>3. /\ k \in alive /\ root \in alive /\ y \in alive /\ x \in Cells
      /\ OnlyChildIs(Tree.left, Tree.right, y, x)
      /\ y # k => IsNextAfter(y, k, alive \ {y})
      /\ y # k /\ parent[y] = root => k = root
      /\ y # root => parent[y] \in alive /\ (left[parent[y]] = y \/ right[parent[y]] = y)
      /\ parent[y] # y /\ (x # NIL => x \in alive) /\ (y = root => k = root)
  BY <1>1, <1>2, LeaverFacts
<1>4. /\ color[root] = "black" /\ size = Cardinality(alive) /\ alive \in SUBSET Keys
      /\ left \in [Cells -> Refs] /\ right \in [Cells -> Refs] /\ parent \in [Cells -> Cells]
      /\ \A n \in Keys \ alive : left[n] = NIL /\ right[n] = NIL /\ parent[n] = NIL
  <2>1. root \in Keys
    BY <1>1, FoundIsInTree
  <2>2. Lacking(Tree, alive, color, NIL, TRUE)
    BY <1>1, <2>1, WholeIsLacking
  <2>3. color[root] = "black"
    BY <2>2, TreeFields DEF Lacking
  <2> QED
    BY <1>1, <2>1, <2>3, WholeIsLacking
<1>5. /\ pc' \in {"exchange", "fix"} /\ (pc' = "exchange" <=> color[y] = "red")
      /\ pc' = "fix" => color[y] = "black"
  <2>1. color \in [Cells -> {"red", "black"}] /\ y \in Cells
    BY <1>3, <1>4, CellsAndRefs DEF Whole, RbInv, TreeInv, ScalarType
  <2> QED
    BY <1>1, <2>1
<1>6. /\ \A n \in alive : left[n] \in alive \union {NIL} /\ right[n] \in alive \union {NIL}
      /\ \A n \in alive : n # p => left[n] # y /\ right[n] # y
      /\ parent[root] = NIL /\ left[NIL] = NIL /\ right[NIL] = NIL
  BY <1>3, <1>4, LinksOfWhole
<1>7. color[x] = "black" => x = NIL
  BY <1>3, <1>4, TreeFields, OnlyChildIsRed DEF Whole
<1>8. /\ root \in Keys /\ root \in Cells /\ y \in Keys /\ y \in Cells /\ NIL \notin Keys
      /\ NIL \in Refs /\ x \in Refs /\ Cells = Keys \union {NIL}
  BY <1>3, <1>4, CellsAndRefs DEF Cells
<1>9. Kept' = alive \ {y} /\ refusals' = 0
  BY <1>1 DEF Kept, Whole
<1>10. CASE y = root
  <2>1. p = NIL /\ k = root /\ left[NIL] # y
    BY <1>3, <1>6, <1>8, <1>10
  <2>2. /\ left' = left /\ right' = [right EXCEPT ![NIL] = x] /\ root' = root
        /\ parent' = [parent EXCEPT ![x] = NIL]
    BY <1>1, <1>8, <2>1 DEF Splice
  <2>3. right' \in [Cells -> Refs] /\ \A n \in Keys : right'[n] = right[n]
    BY <1>4, <1>8, <2>2
  <2>4. \A n \in Keys \ alive : left'[n] = NIL /\ right'[n] = NIL /\ parent'[n] = NIL
    BY <1>3, <1>4, <2>2, <2>3
  <2>5. Removing'
    BY <1>1, <1>3, <1>4, <1>9, <1>10, <2>1, <2>2, <2>3, <2>4 DEF Removing
  <2>6. RootKept'
    BY <1>1, <1>10, <2>1 DEF RootKept
  <2>7. color'[cur'] = "black" =>
          cur' = NIL /\ left'[NIL] = NIL /\ right'[NIL] = NIL /\ parent'[NIL] = NIL
    BY <1>1, <1>4, <1>6, <1>7, <1>8, <2>2
  <2>8. root' \in alive'
    BY <1>1, <1>3
  <2> QED
    BY <1>5, <2>5, <2>6, <2>7, <2>8 DEF WrongFixing, WrongExchange
<1>11. CASE y # root /\ y = left[p]
  <2>1. PICK s \in BOOLEAN : LeftFirst(s)
    BY OneSideIsLeft
  <2>2. Hither(Tree, s)[parent[y]] = y
    BY <1>11, <2>1, TreeFields DEF LeftFirst
  <2>3. left' = [left EXCEPT ![p] = x] /\ right' = right
    BY <1>1, <1>11 DEF Splice
  <2>4. SpliceAt(Tree, Tree', s, y, x)
    <3>1. IsTree(Tree') /\ Tree'.root = root' /\ Tree'.left = left' /\ Tree'.right = right' /\ Tree'.parent = parent'
      BY DEF IsTree, Tree
    <3> QED
      BY <1>1, <2>1, <2>3, <3>1, TreeFields DEF SpliceAt, LeftFirst
  <2> QED
    BY <1>1, <1>2, <1>5, <1>11, <2>2, <2>4, RemovalBegins
<1>12. CASE y # root /\ y # left[p] /\ p # root
  <2>1. PICK s \in BOOLEAN : RightFirst(s)
    BY OtherSideIsRight
  <2>2. Hither(Tree, s)[parent[y]] = y
    BY <1>3, <1>12, <2>1, TreeFields DEF RightFirst
  <2>3. right' = [right EXCEPT ![p] = x] /\ left' = left
    BY <1>1, <1>12 DEF Splice
  <2>4. SpliceAt(Tree, Tree', s, y, x)
    <3>1. IsTree(Tree') /\ Tree'.root = root' /\ Tree'.left = left' /\ Tree'.right = right' /\ Tree'.parent = parent'
      BY DEF IsTree, Tree
    <3> QED
      BY <1>1, <2>1, <2>3, <3>1, TreeFields DEF SpliceAt, RightFirst
  <2> QED
    BY <1>1, <1>2, <1>5, <1>12, <2>2, <2>4, RemovalBegins
<1>13. CASE y # root /\ y # left[p] /\ p = root
  <2>1. right[root] = y
    BY <1>3, <1>13
  <2>2. left' = [left EXCEPT ![root] = x] /\ right' = right /\ root' = root
        /\ parent' = [parent EXCEPT ![x] = root]
    BY <1>1, <1>13 DEF Splice
  <2>3. left' \in [Cells -> Refs] /\ left'[root] = x /\ \A n \in Cells \ {root} : left'[n] = left[n]
    BY <1>4, <1>8, <2>2
  <2>4. \A n \in Keys \ alive : left'[n] = NIL /\ right'[n] = NIL /\ parent'[n] = NIL
    BY <1>3, <1>4, <1>8, <2>2, <2>3
  <2>5. Removing'
    BY <1>1, <1>3, <1>4, <1>9, <2>2, <2>3, <2>4 DEF Removing
  <2>6. x # y /\ (x = NIL => left[y] = NIL /\ right[y] = NIL)
    <3>1. y # p
      BY <1>3
    <3>2. left[y] # y /\ right[y] # y /\ y # NIL
      BY <1>3, <1>6, <1>8, <3>1
    <3> QED
      BY <1>3, <3>2, TreeFields DEF OnlyChildIs
  <2>7. RightLinkKept'
    <3>1. k \in {root, y}
      BY <1>3, <1>13
    <3>2. x \in (alive \ {y}) \union {NIL}
      BY <1>3, <2>6
    <3>3. \A n \in (alive \ {y}) \ {root} : left[n] \in (alive \ {y}) \union {NIL} /\ right[n] \in (alive \ {y}) \union {NIL}
      BY <1>6, <1>13
    <3>4. \A n \in (alive \ {y}) \ {root} : left'[n] = left[n] /\ right'[n] = right[n]
      BY <1>4, <1>8, <2>2, <2>3
    <3> QED
      BY <1>1, <1>9, <1>13, <2>1, <2>2, <2>3, <3>1, <3>2, <3>3, <3>4 DEF RightLinkKept
  <2>8. pc' = "fix" /\ color'[cur'] = "black" /\ cur' # root' =>
          /\ cur' = NIL /\ left'[root'] = NIL /\ parent'[NIL] = root'
          /\ left'[spliced'] = NIL /\ right'[spliced'] = NIL /\ color'[spliced'] = "black"
    BY <1>1, <1>5, <1>4, <1>7, <1>8, <1>13, <2>2, <2>3, <2>6
  <2>9. root' \in alive'
    BY <1>1, <1>3
  <2> QED
    BY <1>5, <2>5, <2>7, <2>8, <2>9 DEF WrongFixing, WrongExchange
<1> QED
  BY <1>10, <1>11, <1>12, <1>13

(* The loop on wrong links changes no link.                                *)
LEMMA WrongFixingStep ==
  ASSUME WrongFixing, FixUp \/ FixRotate \/ FixDone
  PROVE  WrongFixing' \/ WrongExchange'
<1>1. /\ pc = "fix" /\ Removing /\ root \in alive /\ root # NIL
      /\ UNCHANGED <<size, target, refusals, alive, spliced>>
  BY KeysAreInts DEF WrongFixing, Removing, FixUp, FixRotate, FixDone
<1>2. SUFFICES /\ UNCHANGED <<root, left, right, parent>>
               /\ \/ pc' = "exchange"
                  \/ /\ pc' = "fix"
                     /\ \/ /\ RootKept /\ cur' = NIL
                           /\ left[NIL] = NIL /\ right[NIL] = NIL /\ parent[NIL] = NIL
                        \/ RightLinkKept /\ cur' = root
  <2>1. Kept' = Kept
    BY <1>1 DEF Kept
  <2>2. Removing' /\ root' \in alive'
    BY <1>1, <1>2, <2>1 DEF Removing
  <2>3. (RootKept <=> RootKept') /\ (RightLinkKept <=> RightLinkKept')
    BY <1>1, <1>2, <2>1 DEF RootKept, RightLinkKept
  <2> QED
    BY <1>2, <2>2, <2>3 DEF WrongFixing, WrongExchange
<1>3. CASE FixDone
  BY <1>3 DEF FixDone, links
<1>4. CASE (FixUp \/ FixRotate) /\ RootKept
  <2>1. /\ color[cur] = "black" /\ cur # root
        /\ cur = NIL /\ left[NIL] = NIL /\ right[NIL] = NIL /\ parent[NIL] = NIL
    BY <1>4 DEF WrongFixing, FixUp, FixRotate, RightLinkKept, RootKept
  <2>2. Sibling(Tree) = NIL /\ AfterRedSibling = Tree /\ ColorAfterRedSibling = color
    BY <2>1, TreeFields DEF Sibling, FixOnLeft, AfterRedSibling, ColorAfterRedSibling
  <2>3. ~FixRotate
    BY <2>1, <2>2, TreeFields DEF FixRotate
  <2>4. Become(Tree) /\ cur' = NIL /\ pc' = pc
    BY <1>4, <2>1, <2>2, <2>3, TreeFields DEF FixUp
  <2> QED
    BY <1>1, <1>4, <2>1, <2>4, TreeFields DEF Become
<1>5. CASE (FixUp \/ FixRotate) /\ ~RootKept
  <2>1. RightLinkKept
    BY <1>5 DEF WrongFixing
  <2>2. /\ color[cur] = "black" /\ cur # root
        /\ cur = NIL /\ left[root] = NIL /\ parent[NIL] = root
        /\ left[spliced] = NIL /\ right[spliced] = NIL /\ color[spliced] = "black"
        /\ right[root] = spliced
    BY <1>5, <2>1 DEF WrongFixing, FixUp, FixRotate, RightLinkKept
  <2>3. Sibling(Tree) = spliced /\ AfterRedSibling = Tree /\ ColorAfterRedSibling = color
    BY <2>2, TreeFields DEF Sibling, FixOnLeft, AfterRedSibling, ColorAfterRedSibling
  <2>4. ~FixRotate
    BY <2>2, <2>3, TreeFields DEF FixRotate
  <2>5. Become(Tree) /\ cur' = root /\ pc' = pc
    BY <1>5, <2>2, <2>3, <2>4, TreeFields DEF FixUp
  <2> QED
    BY <1>1, <2>1, <2>5, TreeFields DEF Become
<1> QED
  BY <1>3, <1>4, <1>5

-----------------------------------------------------------------------------
(* A tree with other parents outside the keys N.                           *)
OffParents(v, u, N) ==
  /\ IsTree(u) /\ u.root = v.root /\ u.left = v.left /\ u.right = v.right
  /\ u.parent \in [Cells -> Cells] /\ \A n \in N : u.parent[n] = v.parent[n]

(* c2 is c but for the node y, which is black.                             *)
Repainted(c, c2, y) ==
  c2 \in [Cells -> {"red", "black"}] /\ c2[y] = "black" /\ \A n \in Cells \ {y} : c2[n] = c[n]

(* The color of a node outside the tree changes no other height.           *)
LEMMA RepaintedHeights ==
  ASSUME NEW l, NEW r, NEW q, NEW top, NEW N, Joined(l, r, q, top, N), NoLinksBeyond(l, r, N),
         NEW y \in Keys \ N, NEW c, NEW c2, Repainted(c, c2, y), NEW H, Short(l, r, c, H, NIL)
  PROVE  Short(l, r, c2, [m \in Refs |-> IF m = y THEN 1 ELSE H[m]], NIL)
<1> DEFINE H2 == [m \in Refs |-> IF m = y THEN 1 ELSE H[m]]
<1>1. /\ H \in [Refs -> Nat] /\ \A m \in Refs \ Keys : H[m] = 0
      /\ \A n \in Keys : H[l[n]] = H[r[n]] /\ H[n] = H[l[n]] + Shade(c, n)
  BY CellsAndRefs DEF Short
<1>2. H2 \in [Refs -> Nat]
  BY <1>1
<1>3. H2[y] = 1 /\ \A m \in Refs \ {y} : H2[m] = H[m]
  BY CellsAndRefs
<1> HIDE DEF H2
<1>4. \A n \in Keys : l[n] \in Refs \ {y} /\ r[n] \in Refs \ {y}
  <2> TAKE n \in Keys
  <2>1. CASE n \in N
    BY <2>1, CellsAndRefs DEF Joined
  <2>2. CASE n \notin N
    BY <2>2, CellsAndRefs DEF NoLinksBeyond
  <2> QED
    BY <2>1, <2>2
<1>5. \A m \in Refs \ Keys : H2[m] = 0
  BY <1>1, <1>3
<1>6. ASSUME NEW n \in Keys
      PROVE  H2[l[n]] = H2[r[n]] /\ H2[n] = H2[l[n]] + Shade(c2, n)
  <2>1. H2[l[n]] = H[l[n]] /\ H2[r[n]] = H[r[n]] /\ H[l[n]] = H[r[n]]
    BY <1>1, <1>3, <1>4
  <2>2. CASE n = y
    <3>1. l[y] = NIL /\ Shade(c2, y) = 1
      BY DEF NoLinksBeyond, Repainted, Shade
    <3>2. H[NIL] = 0
      BY <1>1, CellsAndRefs
    <3> QED
      BY <1>3, <2>1, <2>2, <3>1, <3>2
  <2>3. CASE n # y
    <3>1. Shade(c2, n) = Shade(c, n)
      BY <2>3, CellsAndRefs DEF Repainted, Shade
    <3> QED
      BY <1>1, <1>3, <2>1, <2>3, <3>1, CellsAndRefs
  <2> QED
    BY <2>2, <2>3
<1>7. Short(l, r, c2, H2, NIL)
  BY <1>2, <1>5, <1>6, CellsAndRefs DEF Short
<1> QED
  BY <1>7 DEF H2

(* The node that was taken out is deleted.                                 *)
LEMMA DropsLeaver ==
  ASSUME NEW v, NEW N, NEW c, Lacking(v, N, c, NIL, TRUE), Bare(v, N), RedApart(v, N, c, NIL),
         NEW y \in Keys \ N, NEW u, OffParents(v, u, N), NEW c2, Repainted(c, c2, y)
  PROVE  Lacking(u, N, c2, NIL, TRUE) /\ Bare(u, N) /\ RedApart(u, N, c2, NIL)
<1>1. PICK F, H : Sound(v, F, c, H, NIL, TRUE) /\ F[v.root] = N
  BY DEF Lacking, SoundOver
<1>2. PICK s \in BOOLEAN : Upward(s) /\ LeftFirst(s)
  BY OneSideIsLeft
<1> DEFINE l == Hither(v, s)
           r == Yonder(v, s)
           H2 == [m \in Refs |-> IF m = y THEN 1 ELSE H[m]]
<1>3. TreeShaped(v, F, s) /\ Short(l, r, c, H, NIL)
  BY <1>1, SoundWithoutGap
<1>4. Joined(l, r, v.parent, v.root, N)
  <2>1. \A e \in BOOLEAN : Lacking(v, N, c, NIL, e) => Joined(l, r, v.parent, v.root, N)
    BY LackingIsJoined
  <2> QED
    BY <2>1
<1>5. l = v.left /\ r = v.right /\ Hither(u, s) = u.left /\ Yonder(u, s) = u.right
  BY <1>2 DEF LeftFirst
<1>6. NoLinksBeyond(l, r, N)
  BY <1>5 DEF Bare, NoLinksBeyond
<1>7. Shaped(l, r, v.parent, v.root, F, s)
  BY <1>3 DEF TreeShaped
<1> HIDE DEF l, r, H2
<1>8. Short(l, r, c2, H2, NIL)
  BY <1>3, <1>4, <1>6, RepaintedHeights DEF H2
<1>9. IsTree(u) /\ u.root = v.root /\ Hither(u, s) = l /\ Yonder(u, s) = r
      /\ u.parent \in [Cells -> Cells] /\ \A n \in N : u.parent[n] = v.parent[n]
  BY <1>5 DEF OffParents
<1>10. Shaped(l, r, u.parent, v.root, F, s)
  <2>1. \A n \in N : \A m \in {l[n], r[n]} \intersect Keys : m \in N
    BY <1>4, CellsAndRefs DEF Joined
  <2>2. v.root \in N
    BY <1>4 DEF Joined
  <2>3. Parented(l, r, u.parent, v.root, F)
    BY <1>1, <1>7, <1>9, <2>1, <2>2 DEF Shaped, Parented
  <2> QED
    BY <1>7, <2>3 DEF Shaped
<1>11. TreeShaped(u, F, s) /\ Short(Hither(u, s), Yonder(u, s), c2, H2, NIL)
  BY <1>8, <1>9, <1>10 DEF TreeShaped
<1>12. SoundOver(u, N, c2, NIL, TRUE)
  <2>1. Sound(u, F, c2, H2, NIL, TRUE)
    BY <1>11, SoundWithoutGap
  <2> QED
    BY <1>1, <1>9, <2>1 DEF SoundOver
<1>13. NoNullIn(u) /\ Bare(u, N)
  BY DEF Lacking, NoNullIn, Bare, OffParents
<1>14. c2[NIL] = "black" /\ u.root \in Keys /\ c2[u.root] = "black" /\ u.root \in N
  <2>1. v.root \in N
    BY <1>4 DEF Joined
  <2> QED
    BY <1>9, <2>1, CellsAndRefs DEF Lacking, Repainted
<1>15. Lacking(u, N, c2, NIL, TRUE)
  BY <1>12, <1>13, <1>14 DEF Lacking, Repainted
<1>16. RedApart(u, N, c2, NIL)
  <2> SUFFICES ASSUME NEW n \in N, c2[n] = "red", c2[u.parent[n]] = "red"
               PROVE  NIL \in {n, u.parent[n]}
    BY DEF RedApart
  <2>1. /\ n \in Cells /\ n # y /\ v.parent[n] \in Cells /\ u.parent[n] = v.parent[n]
    BY <1>4, <1>9, CellsAndRefs DEF Joined
  <2>2. v.parent[n] # y
    BY DEF Repainted, OffParents
  <2>3. c[n] = "red" /\ c[v.parent[n]] = "red"
    BY <2>1, <2>2 DEF Repainted
  <2> QED
    BY <2>1, <2>3 DEF RedApart
<1> QED
  BY <1>13, <1>15, <1>16

-----------------------------------------------------------------------------
(* A deleted node has no children, whoever took its place.                 *)
LEMMA PlaceIsCleared ==
  ASSUME NEW t, IsTree(t), t.left \in [Cells -> Refs], t.right \in [Cells -> Refs],
         NEW y, NEW k \in Cells
  PROVE  LET u == Delete(TakePlace(t, y, k), k) IN u.left[k] = NIL /\ u.right[k] = NIL
<1> DEFINE w == TakePlace(t, y, k)
<1>1. IsTree(w) /\ DOMAIN w.left = Cells /\ DOMAIN w.right = Cells
  BY DEF TakePlace, IsTree
<1> HIDE DEF w
<1>2. Delete(w, k).left[k] = NIL /\ Delete(w, k).right[k] = NIL
  BY <1>1 DEF Delete, IsTree
<1> QED
  BY <1>2 DEF w

(* What holds of the two nodes during a removal.                           *)
LEMMA RemovingFacts ==
  ASSUME Removing
  PROVE  /\ alive \in SUBSET Keys /\ target \in alive /\ spliced \in alive
         /\ Kept \in SUBSET Keys /\ spliced \in Keys \ Kept
         /\ size - 1 = Cardinality(alive \ {target})
         /\ target \in Cells /\ spliced \in Cells
<1>1. /\ alive \in SUBSET Keys /\ target \in alive /\ spliced \in alive /\ size = Cardinality(alive)
  BY DEF Removing
<1>2. IsFiniteSet(alive)
  BY <1>1, KeysAssumption, FS_Subset
<1>3. Cardinality(alive \ {target}) = Cardinality(alive) - 1
  BY <1>1, <1>2, FS_RemoveElement
<1> QED
  BY <1>1, <1>3, CellsAndRefs DEF Kept

(* The last step of remove, spelled out.                                   *)
LEMMA ExchangeFacts ==
  ASSUME Exchange, Removing
  PROVE  /\ Become(Delete(IF spliced = target THEN Tree ELSE TakePlace(Tree, spliced, target), target))
         /\ color' = GivesColor(color, spliced, target)
         /\ alive' = alive \ {target} /\ size' = Cardinality(alive \ {target})
         /\ Return /\ spliced' = NIL /\ refusals' = 0
<1>1. size' = size - 1 /\ refusals' = 0
  BY DEF Exchange, Removing
<1> QED
  BY <1>1, RemovingFacts DEF Exchange, GivesColor

(* The deleted node is the one that was unlinked.                          *)
LEMMA ExchangeSameStep ==
  ASSUME Exchanging, Exchange, spliced = target
  PROVE  Whole'
<1> DEFINE y == spliced
           N == Kept
           v == CutAt(Tree, y)
           u == Delete(Tree, y)
           c2 == GivesColor(color, y, y)
<1>1. /\ Become(u) /\ color' = c2 /\ alive' = N /\ size' = Cardinality(N)
      /\ Return /\ spliced' = NIL /\ refusals' = 0
  BY ExchangeFacts DEF Exchanging, Kept
<1>2. /\ y \in Keys \ N /\ N \in SUBSET Keys /\ y \in Cells
  BY RemovingFacts DEF Exchanging
<1>3. Lacking(v, N, color, NIL, TRUE) /\ RedApart(v, N, color, NIL) /\ Bare(v, N)
  BY DEF Exchanging
<1>4. /\ left \in [Cells -> Refs] /\ right \in [Cells -> Refs]
      /\ \A n \in Keys \ alive : parent[n] = NIL
  BY DEF Exchanging, Removing
<1>5. v.parent \in [Cells -> Cells] /\ color \in [Cells -> {"red", "black"}]
  <2>1. \A e \in BOOLEAN : Lacking(v, N, color, NIL, e) =>
          v.parent \in [Cells -> Cells] /\ color \in [Cells -> {"red", "black"}]
    BY LackingTypes
  <2> QED
    BY <1>3, <2>1
<1>6. /\ v.parent = parent /\ v.root = root
      /\ v.left = [left EXCEPT ![y] = NIL] /\ v.right = [right EXCEPT ![y] = NIL]
  BY DEF CutAt, Tree
<1>7. /\ IsTree(u) /\ u.root = root
      /\ u.left = [left EXCEPT ![y] = NIL] /\ u.right = [right EXCEPT ![y] = NIL]
      /\ u.parent = [parent EXCEPT ![y] = NIL]
  BY DEF Delete, Tree, IsTree
<1>8. c2 = [color EXCEPT ![y] = "black"]
  BY <1>5 DEF GivesColor
<1> HIDE DEF u, c2, v
<1>9. OffParents(v, u, N)
  BY <1>2, <1>5, <1>6, <1>7, CellsAndRefs DEF OffParents
<1>10. Repainted(color, c2, y)
  BY <1>2, <1>5, <1>8 DEF Repainted
<1>11. Lacking(u, N, c2, NIL, TRUE) /\ Bare(u, N) /\ RedApart(u, N, c2, NIL)
  BY <1>2, <1>3, <1>9, <1>10, DropsLeaver
<1>12. \A n \in Keys \ N : u.parent[n] = NIL
  <2> TAKE n \in Keys \ N
  <2>1. n = y \/ n \in Keys \ alive
    BY DEF Kept
  <2> QED
    BY <1>2, <1>4, <1>5, <1>6, <1>7, <2>1, CellsAndRefs
<1> QED
  BY <1>1, <1>11, <1>12, WholeAgain

(* The next node takes the place of the deleted one.                       *)
LEMMA ExchangeNextStep ==
  ASSUME Exchanging, Exchange, spliced # target, target # root
  PROVE  Whole'
<1> DEFINE y == spliced
           k == target
           N == Kept
           N2 == (N \ {k}) \union {y}
           u == Delete(TakePlace(Tree, y, k), k)
           c2 == GivesColor(color, y, k)
<1>1. /\ Become(u) /\ color' = c2 /\ alive' = alive \ {k} /\ size' = Cardinality(alive \ {k})
      /\ Return /\ spliced' = NIL /\ refusals' = 0
  BY ExchangeFacts DEF Exchanging
<1>2. /\ y \in Keys \ N /\ N \in SUBSET Keys /\ k \in N /\ alive \ {k} = N2
      /\ IsNextAfter(y, k, N) /\ alive = N \union {y}
      /\ left \in [Cells -> Refs] /\ right \in [Cells -> Refs]
      /\ \A n \in Keys \ alive : parent[n] = NIL
  <2>1. Removing
    BY DEF Exchanging
  <2> QED
    BY <2>1, RemovingFacts DEF Removing, Kept
<1>3. /\ Lacking(CutAt(Tree, y), N, color, NIL, TRUE) /\ RedApart(CutAt(Tree, y), N, color, NIL)
      /\ Bare(CutAt(Tree, y), N)
  BY DEF Exchanging
<1> HIDE DEF u, c2, N, N2, y, k
<1>4. /\ IsTree(Tree) /\ Tree.left \in [Cells -> Refs] /\ Tree.right \in [Cells -> Refs]
      /\ k # Tree.root
  BY <1>2, TreeFields DEF k
<1>5. /\ Lacking(u, N2, c2, NIL, TRUE) /\ Bare(u, N2) /\ RedApart(u, N2, c2, NIL)
      /\ u.parent[k] = NIL
      /\ \A n \in Keys \ (N \union {y}) : u.parent[n] = Tree.parent[n]
  <2>1. y \in Keys \ N /\ k \in N /\ IsNextAfter(y, k, N)
    BY <1>2
  <2> QED
    <3>1. PlaceGiven(Tree, u, N, color, y, k)
      BY <1>3, <1>4, <2>1, PlacesLeaver DEF u
    <3> QED
      BY <3>1 DEF PlaceGiven, N2, c2
<1>6. \A n \in Keys \ N2 : u.parent[n] = NIL
  <2> TAKE n \in Keys \ N2
  <2>1. n = k \/ n \in Keys \ alive
    BY <1>2 DEF N2
  <2> QED
    BY <1>2, <1>5, <2>1, TreeFields
<1> QED
  BY <1>1, <1>2, <1>5, <1>6, WholeAgain

(* The deleted node is the root, and the root pointer stays at it.         *)
LEMMA ExchangeRootStep ==
  ASSUME Removing, Exchange, spliced # target, target = root
  PROVE  Dead'
<1> DEFINE k == target
           u == Delete(TakePlace(Tree, spliced, k), k)
<1>1. /\ Become(u) /\ alive' = alive \ {k} /\ Return
  BY ExchangeFacts
<1>2. /\ left \in [Cells -> Refs] /\ right \in [Cells -> Refs]
      /\ alive \in SUBSET Keys /\ k \in alive /\ k \in Cells
  BY RemovingFacts DEF Removing
<1>3. IsTree(Tree) /\ Tree.left \in [Cells -> Refs] /\ Tree.right \in [Cells -> Refs]
      /\ Tree.root = k
  BY <1>2, TreeFields
<1>4. u.left[k] = NIL /\ u.right[k] = NIL /\ u.root = k
  BY <1>2, <1>3, PlaceIsCleared, PlaceKeepsRoot
<1> HIDE DEF u
<1>5. root' = k /\ left'[k] = NIL /\ right'[k] = NIL /\ pc' = "idle"
  BY <1>1, <1>4 DEF Become, Return
<1> QED
  BY <1>1, <1>2, <1>5 DEF Dead

(* The link to the right child of the root stays, or the root pointer      *)
(* does.                                                                   *)
LEMMA WrongExchangeStep ==
  ASSUME WrongExchange, Exchange
  PROVE  Dead'
<1>1. CASE spliced # target
  BY <1>1, ExchangeRootStep DEF WrongExchange, RootKept, RightLinkKept
<1>2. CASE spliced = target
  <2> DEFINE k == target
  <2>1. /\ Become(Delete(Tree, k)) /\ alive' = alive \ {k} /\ Return
    BY <1>2, ExchangeFacts DEF WrongExchange
  <2>2. /\ left \in [Cells -> Refs] /\ right \in [Cells -> Refs]
        /\ alive \in SUBSET Keys /\ k \in alive /\ k \in Keys /\ root \in alive
        /\ alive \ {k} = Kept
    BY <1>2, RemovingFacts DEF Removing, WrongExchange, Kept
  <2>3. root' = root /\ left' = [left EXCEPT ![k] = NIL] /\ right' = [right EXCEPT ![k] = NIL]
        /\ pc' = "idle"
    BY <2>1 DEF Become, Return, Delete, Tree
  <2>4. /\ left'[k] = NIL /\ right'[k] = NIL
        /\ \A n \in alive \ {k} : left'[n] = left[n] /\ right'[n] = right[n]
    BY <2>2, <2>3, CellsAndRefs
  <2>5. CASE k = root
    BY <2>1, <2>2, <2>3, <2>4, <2>5 DEF Dead
  <2>6. CASE k # root
    <3>1. RightLinkKept
      BY <1>2, <2>6 DEF WrongExchange, RootKept
    <3>2. /\ right[root] = k /\ left[root] \in Kept \union {NIL}
          /\ \A n \in Kept \ {root} : left[n] \in Kept \union {NIL} /\ right[n] \in Kept \union {NIL}
      BY <1>2, <3>1 DEF RightLinkKept
    <3>3. /\ root' \in alive' /\ right'[root'] = k /\ left'[root'] \in alive' \union {NIL}
          /\ alive' = Kept
      BY <2>1, <2>2, <2>3, <2>4, <2>6, <3>2
    <3>4. \A n \in alive' \ {root'} : left'[n] \in alive' \union {NIL} /\ right'[n] \in alive' \union {NIL}
      BY <2>2, <2>3, <2>4, <3>2, <3>3
    <3>5. k \in Keys \ alive' /\ alive' \in SUBSET Keys /\ root' \in Keys
      BY <2>1, <2>2, <2>3
    <3> QED
      BY <2>3, <2>4, <3>3, <3>4, <3>5 DEF Dead
  <2> QED
    BY <2>5, <2>6
<1> QED
  BY <1>1, <1>2

(* remove ends with a red-black tree without the key, or with a link to a  *)
(* deleted node at the root.                                               *)
LEMMA ExchangeStep ==
  ASSUME Exchanging \/ WrongExchange, Exchange
  PROVE  Whole' \/ Dead'
<1>1. CASE WrongExchange
  BY <1>1, WrongExchangeStep
<1>2. CASE Exchanging /\ spliced = target
  BY <1>2, ExchangeSameStep
<1>3. CASE Exchanging /\ spliced # target /\ target # root
  BY <1>3, ExchangeNextStep
<1>4. CASE Exchanging /\ spliced # target /\ target = root
  BY <1>4, ExchangeRootStep DEF Exchanging
<1> QED
  BY <1>1, <1>2, <1>3, <1>4

-----------------------------------------------------------------------------
(* What the links l and r lead to from the set A, after m rounds.          *)
Rounds(g, m, A, l, r) ==
  g = [i \in 0 .. m |-> IF i = 0 THEN A
                        ELSE g[i - 1] \union (({l[n] : n \in g[i - 1]} \union {r[n] : n \in g[i - 1]}) \ {NIL})]

(* Induction, over a set: one that holds 0 and the successors of its       *)
(* elements holds every natural.                                           *)
LEMMA NatInductionOnSets ==
  ASSUME NEW P, 0 \in P, \A n \in Nat : n \in P => n + 1 \in P
  PROVE  Nat \subseteq P
<1> DEFINE R == OpToRel(<, Nat)
           Bad == {n \in Nat : n \notin P}
<1>1. \A m, n \in Nat : <<m, n>> \in R <=> m < n
  BY DEF OpToRel
<1>2. IsWellFoundedOn(R, Nat)
  BY NatLessThanWellFounded
<1> HIDE DEF R
<1>3. SUFFICES ASSUME Bad # {} PROVE FALSE
  OBVIOUS
<1>4. PICK n \in Bad : \A m \in Bad : ~(<<m, n>> \in R)
  BY <1>2, <1>3, WFMin
<1>5. n \in Nat /\ n \notin P /\ n - 1 \in Nat /\ n - 1 < n /\ (n - 1) + 1 = n
  BY <1>4
<1>6. n - 1 \in P
  BY <1>1, <1>4, <1>5
<1> QED
  BY <1>5, <1>6

(* There are such rounds.                                                  *)
LEMMA RoundsExist ==
  ASSUME NEW A, NEW l, NEW r, NEW m \in Nat
  PROVE  \E g : Rounds(g, m, A, l, r)
<1> DEFINE P == {i \in Nat : \E g : Rounds(g, i, A, l, r)}
<1>1. 0 \in P
  <2> DEFINE g == [i \in 0 .. 0 |-> A]
  <2>1. Rounds(g, 0, A, l, r)
    BY DEF Rounds
  <2> QED
    BY <2>1
<1>2. ASSUME NEW i \in Nat, i \in P
      PROVE  i + 1 \in P
  <2>1. PICK g : Rounds(g, i, A, l, r)
    BY <1>2
  <2> DEFINE step(S) == S \union (({l[n] : n \in S} \union {r[n] : n \in S}) \ {NIL})
             h == [j \in 0 .. i + 1 |-> IF j = i + 1 THEN step(g[i]) ELSE g[j]]
  <2>2. g = [j \in 0 .. i |-> IF j = 0 THEN A ELSE step(g[j - 1])]
    BY <2>1 DEF Rounds
  <2> HIDE DEF step
  <2>3. \A j \in 0 .. i : h[j] = g[j]
    OBVIOUS
  <2>4. \A j \in 0 .. i + 1 : h[j] = IF j = 0 THEN A ELSE step(h[j - 1])
    <3> TAKE j \in 0 .. i + 1
    <3>1. CASE j = i + 1
      BY <2>3, <3>1
    <3>2. CASE j \in 0 .. i
      BY <2>2, <2>3, <3>2
    <3> QED
      BY <3>1, <3>2
  <2>5. h = [j \in 0 .. i + 1 |-> IF j = 0 THEN A ELSE step(h[j - 1])]
    <3>1. h = [j \in 0 .. i + 1 |-> h[j]]
      OBVIOUS
    <3> HIDE DEF h
    <3> QED
      BY <2>4, <3>1
  <2>6. Rounds(h, i + 1, A, l, r)
    BY <2>5 DEF Rounds, step
  <2> QED
    BY <2>6
<1>3. Nat \subseteq P
  <2> HIDE DEF P
  <2> QED
    BY <1>1, <1>2, NatInductionOnSets
<1> QED
  BY <1>3

(* Reached is the outcome of its last round.                               *)
LEMMA ReachedInRounds ==
  \E g : Rounds(g, Cardinality(Keys), {root} \ {NIL}, left, right) /\ Reached = g[Cardinality(Keys)]
<1> DEFINE step(S) == S \union (({left[n] : n \in S} \union {right[n] : n \in S}) \ {NIL})
           from[i \in 0 .. Cardinality(Keys)] ==
             IF i = 0 THEN {root} \ {NIL} ELSE step(from[i - 1])
<1>1. Cardinality(Keys) \in Nat
  BY KeysAssumption, FS_CardinalityType
<1>2. \E g : g = [i \in 0 .. Cardinality(Keys) |-> IF i = 0 THEN {root} \ {NIL} ELSE step(g[i - 1])]
  <2>1. \A m \in Nat : \E g : Rounds(g, m, {root} \ {NIL}, left, right)
    BY RoundsExist
  <2>2. PICK g : Rounds(g, Cardinality(Keys), {root} \ {NIL}, left, right)
    BY <1>1, <2>1
  <2> QED
    BY <2>2 DEF Rounds
<1>3. from = [i \in 0 .. Cardinality(Keys) |-> IF i = 0 THEN {root} \ {NIL} ELSE step(from[i - 1])]
  BY <1>2
<1>4. Reached = from[Cardinality(Keys)]
  BY DEF Reached
<1> HIDE DEF from
<1>5. Rounds(from, Cardinality(Keys), {root} \ {NIL}, left, right)
  BY <1>3 DEF Rounds
<1> QED
  BY <1>4, <1>5

(* What is closed under the links holds everything they lead to.           *)
LEMMA ReachedStays ==
  ASSUME NEW S, {root} \ {NIL} \subseteq S, \A n \in S : {left[n], right[n]} \ {NIL} \subseteq S
  PROVE  Reached \subseteq S
<1> DEFINE M == Cardinality(Keys)
<1>1. PICK g : Rounds(g, M, {root} \ {NIL}, left, right) /\ Reached = g[M]
  BY ReachedInRounds
<1>2. M \in Nat
  BY KeysAssumption, FS_CardinalityType
<1> HIDE DEF M
<1> DEFINE P == {i \in Nat : i \in 0 .. M => g[i] \subseteq S}
<1>3. 0 \in P
  <2>1. 0 \in 0 .. M /\ g[0] = {root} \ {NIL}
    BY <1>1, <1>2 DEF Rounds
  <2> QED
    BY <2>1
<1>4. ASSUME NEW i \in Nat, i \in P
      PROVE  i + 1 \in P
  <2> SUFFICES ASSUME i + 1 \in 0 .. M PROVE g[i + 1] \subseteq S
    OBVIOUS
  <2>1. g[i] \subseteq S
    BY <1>2, <1>4
  <2>2. (i + 1) - 1 = i /\ i + 1 # 0
    OBVIOUS
  <2>4. g[i + 1] = g[i] \union (({left[n] : n \in g[i]} \union {right[n] : n \in g[i]}) \ {NIL})
    BY <1>1, <1>2, <2>2 DEF Rounds
  <2>3. ASSUME NEW m \in g[i + 1]
        PROVE  m \in S
    <3>1. CASE m \in g[i]
      BY <2>1, <3>1
    <3>2. CASE m \notin g[i]
      <4>1. PICK n \in g[i] : m \in {left[n], right[n]} \ {NIL}
        BY <2>3, <2>4, <3>2
      <4> QED
        BY <2>1, <4>1
    <3> QED
      BY <3>1, <3>2
  <2> QED
    BY <2>3
<1>5. Nat \subseteq P
  <2> HIDE DEF P
  <2> QED
    BY <1>3, <1>4, NatInductionOnSets
<1> QED
  BY <1>1, <1>2, <1>5

(* The root is reached, and its right child.                               *)
LEMMA RootIsReached ==
  ASSUME root \in Keys
  PROVE  root \in Reached /\ (right[root] # NIL => right[root] \in Reached)
<1> DEFINE M == Cardinality(Keys)
<1>1. PICK g : Rounds(g, M, {root} \ {NIL}, left, right) /\ Reached = g[M]
  BY ReachedInRounds
<1>2. M \in Nat /\ M # 0
  BY KeysAssumption, FS_CardinalityType, FS_EmptySet
<1> HIDE DEF M
<1> DEFINE P == {i \in Nat : i \in 0 .. M => root \in g[i]}
<1>3. 0 \in P
  <2>1. 0 \in 0 .. M /\ g[0] = {root} \ {NIL}
    BY <1>1, <1>2 DEF Rounds
  <2> QED
    BY <2>1, KeysAreInts
<1>4. ASSUME NEW i \in 0 .. M, i # 0
      PROVE  g[i] = g[i - 1] \union (({left[n] : n \in g[i - 1]} \union {right[n] : n \in g[i - 1]}) \ {NIL})
  BY <1>1, <1>2, <1>4 DEF Rounds
<1>5. ASSUME NEW i \in Nat, i \in P
      PROVE  i + 1 \in P
  <2> SUFFICES ASSUME i + 1 \in 0 .. M PROVE root \in g[i + 1]
    OBVIOUS
  <2>1. root \in g[i] /\ (i + 1) - 1 = i /\ i + 1 # 0
    BY <1>2, <1>5
  <2> QED
    BY <1>4, <2>1
<1>6. Nat \subseteq P
  <2> HIDE DEF P
  <2> QED
    BY <1>3, <1>5, NatInductionOnSets
<1>7. root \in g[M] /\ root \in g[M - 1] /\ M \in 0 .. M
  BY <1>2, <1>6
<1>8. right[root] # NIL => right[root] \in g[M]
  BY <1>2, <1>4, <1>7
<1> QED
  BY <1>1, <1>7, <1>8

-----------------------------------------------------------------------------
(* The links of a tree lead to its nodes.                                  *)
LEMMA WholeReaches ==
  ASSUME Whole
  PROVE  Reached \subseteq alive
<1>1. RbInv /\ NoNullIn(Tree) /\ alive = InTree
  BY DEF Whole
<1>2. /\ InTree = Nodes[root] /\ root \in Refs /\ InTree \in SUBSET Keys
      /\ left \in [Cells -> Refs] /\ right \in [Cells -> Refs]
  BY <1>1, TreeFacts DEF RbInv
<1>3. root # NULL /\ \A n \in Keys : left[n] # NULL /\ right[n] # NULL
  BY <1>1, TreeFields DEF NoNullIn
<1>4. {root} \ {NIL} \subseteq InTree
  <2>1. root \in Keys => root \in InTree
    BY <1>1, LinkFacts DEF RbInv
  <2> QED
    BY <1>2, <1>3, <2>1, CellsAndRefs
<1>5. \A n \in InTree : {left[n], right[n]} \ {NIL} \subseteq InTree
  <2> TAKE n \in InTree
  <2>1. \A c \in {left[n], right[n]} \intersect Keys : c \in InTree
    BY <1>1, LinkFacts DEF RbInv
  <2>2. left[n] \in Refs /\ right[n] \in Refs /\ left[n] # NULL /\ right[n] # NULL
    BY <1>2, <1>3, CellsAndRefs
  <2> QED
    BY <2>1, <2>2, CellsAndRefs
<1> QED
  BY <1>1, <1>4, <1>5, ReachedStays

(* The links of a dead tree lead to a deleted node, and nowhere but to the *)
(* root and its right child.                                               *)
LEMMA DeadDangles ==
  ASSUME Dead
  PROVE  Dangling /\ Reached \ alive \subseteq {root, right[root]}
<1>1. /\ root \in Keys /\ alive \in SUBSET Keys
      /\ \/ root \notin alive /\ left[root] = NIL /\ right[root] = NIL
         \/ /\ root \in alive /\ right[root] \in Keys \ alive
            /\ left[right[root]] = NIL /\ right[right[root]] = NIL
            /\ left[root] \in alive \union {NIL}
            /\ \A n \in alive \ {root} : left[n] \in alive \union {NIL} /\ right[n] \in alive \union {NIL}
  BY DEF Dead
<1>2. root \in Reached /\ (right[root] # NIL => right[root] \in Reached)
  BY <1>1, RootIsReached
<1>3. Dangling
  BY <1>1, <1>2, KeysAreInts DEF Dangling
<1>4. CASE root \notin alive
  <2>1. \A n \in {root} : {left[n], right[n]} \ {NIL} \subseteq {root}
    BY <1>1, <1>4
  <2>2. Reached \subseteq {root}
    BY <2>1, ReachedStays
  <2> QED
    BY <1>3, <2>2
<1>5. CASE root \in alive
  <2> DEFINE S == alive \union {right[root]}
  <2>1. ASSUME NEW n \in S
        PROVE  {left[n], right[n]} \ {NIL} \subseteq S
    BY <1>1, <1>5
  <2>2. {root} \ {NIL} \subseteq S
    BY <1>5
  <2> HIDE DEF S
  <2>3. Reached \subseteq S
    BY <2>1, <2>2, ReachedStays
  <2> QED
    BY <1>3, <2>3 DEF S
<1> QED
  BY <1>4, <1>5

(* An empty tree is whole.                                                 *)
LEMMA RemovalStarts == RemovalInit => Whole
<1> SUFFICES ASSUME RemovalInit PROVE Whole
  OBVIOUS
<1>1. Init /\ alive = {} /\ spliced = NIL
  BY DEF RemovalInit
<1>2. RbInv
  BY <1>1, RbInit
<1>3. root = NIL /\ refusals = 0 /\ NoNullIn(Tree)
  BY <1>1, CellsAndRefs DEF Init, NoNullIn, Tree
<1>4. InTree = {}
  BY <1>2, <1>3, TreeFacts, CellsAndRefs DEF RbInv
<1> QED
  BY <1>1, <1>2, <1>3, <1>4 DEF Whole

(* The steps of insertion keep a tree whole.                               *)
LEMMA InsertionStep ==
  ASSUME Whole, Next, spliced' = spliced,
         \/ /\ (\E k \in Keys : Insert(k)) \/ StopDescent \/ Descend \/ Recolor \/ RotateUp \/ Balanced
            /\ alive' = alive
         \/ AttachNode /\ alive' = alive \union {target}
  PROVE  Whole'
<1>1. RbInv /\ NoNullIn(Tree) /\ alive = InTree /\ spliced = NIL /\ refusals = 0
  BY DEF Whole
<1>2. refusals' = 0
  BY <1>1 DEF Insert, StopDescent, Descend, Recolor, RotateUp, Balanced, AttachNode
<1>3. RbInv' /\ NoNullIn(Tree)'
  BY <1>1, <1>2, RbNext, NoNullsNext DEF NoNulls
<1>4. alive' = InTree'
  BY <1>1, InsertStep, StopDescentStep, DescendStep, RecolorStep, RotateUpStep, BalancedStep, AttachNodeStep
<1> QED
  BY <1>1, <1>2, <1>3, <1>4 DEF Whole

(* A step that changes nothing keeps the invariant of removal.             *)
LEMMA InvariantStutters ==
  ASSUME RemovalInv, UNCHANGED removalVars
  PROVE  RemovalInv'
<1>1. /\ UNCHANGED vars /\ alive' = alive /\ spliced' = spliced
      /\ root' = root /\ left' = left /\ right' = right /\ parent' = parent /\ color' = color
      /\ size' = size /\ pc' = pc /\ target' = target /\ cur' = cur /\ refusals' = refusals
  BY DEF removalVars, vars, links
<1>2. Tree' = Tree /\ Kept' = Kept /\ FixOnLeft' = FixOnLeft
  BY <1>1 DEF Tree, Kept, FixOnLeft
<1>3. Removing' <=> Removing
  BY <1>1, <1>2 DEF Removing
<1>4. CASE Whole
  <2>1. RbInv' /\ InTree' = InTree
    BY <1>1, <1>4, StutterStep DEF Whole
  <2> QED
    BY <1>1, <1>2, <1>4, <2>1 DEF Whole, RemovalInv
<1>5. CASE Fixing
  BY <1>1, <1>2, <1>3, <1>5 DEF Fixing, RemovalInv
<1>6. CASE Exchanging
  BY <1>1, <1>2, <1>3, <1>6 DEF Exchanging, RemovalInv
<1>7. CASE WrongFixing \/ WrongExchange
  <2>1. (RootKept <=> RootKept') /\ (RightLinkKept <=> RightLinkKept')
    BY <1>1, <1>2 DEF RootKept, RightLinkKept
  <2> QED
    BY <1>1, <1>3, <1>7, <2>1 DEF WrongFixing, WrongExchange, RemovalInv
<1>8. CASE Dead
  BY <1>1, <1>8 DEF Dead, RemovalInv
<1> QED
  BY <1>4, <1>5, <1>6, <1>7, <1>8 DEF RemovalInv

(* Every step keeps it: only the pc of a case allows its steps, and on a   *)
(* dead tree no call begins.                                               *)
LEMMA RemovalInvNext == RemovalInv /\ [RemovalNext]_removalVars => RemovalInv'
<1> SUFFICES ASSUME RemovalInv, [RemovalNext]_removalVars PROVE RemovalInv'
  OBVIOUS
<1>1. /\ Whole => pc \in {"idle", "descend", "balance", "crashed", "destroyed"}
      /\ Fixing \/ WrongFixing => pc = "fix"
      /\ Exchanging \/ WrongExchange => pc = "exchange"
      /\ Dead => pc = "idle" /\ Dangling
  BY DeadDangles DEF Whole, RbInv, TreeInv, ScalarType, Fixing, Exchanging, WrongFixing, WrongExchange, Dead
<1>2. ASSUME NEW k \in Keys, Insert(k), ~Dangling, UNCHANGED <<alive, spliced>>
      PROVE  RemovalInv'
  <2>1. Whole
    BY <1>1, <1>2 DEF Insert, RemovalInv
  <2> QED
    BY <1>2, <2>1, InsertionStep DEF Next, RemovalInv
<1>3. ASSUME NEW k \in Keys, BeginRemove(k)
      PROVE  RemovalInv'
  <2>1. Whole
    BY <1>1, <1>3 DEF BeginRemove, RemovalInv
  <2> QED
    BY <1>3, <2>1, BeginRemoveStep DEF RemovalInv
<1>4. ASSUME NEW k \in Keys, RemoveAbsent(k)
      PROVE  RemovalInv'
  BY <1>4, InvariantStutters DEF RemoveAbsent
<1>5. ASSUME StopDescent \/ Descend \/ Recolor \/ RotateUp \/ Balanced, UNCHANGED <<alive, spliced>>
      PROVE  RemovalInv'
  <2>1. Whole
    BY <1>1, <1>5 DEF StopDescent, Descend, Recolor, RotateUp, Balanced, RemovalInv
  <2> QED
    BY <1>5, <2>1, InsertionStep DEF Next, Continue, RemovalInv
<1>6. ASSUME AttachNode, alive' = alive \union {target}, UNCHANGED spliced
      PROVE  RemovalInv'
  <2>1. Whole
    BY <1>1, <1>6 DEF AttachNode, RemovalInv
  <2> QED
    BY <1>6, <2>1, InsertionStep DEF Next, Continue, RemovalInv
<1>7. CASE FixUp \/ FixRotate \/ FixDone
  <2>1. Fixing \/ WrongFixing
    BY <1>1, <1>7 DEF FixUp, FixRotate, FixDone, RemovalInv
  <2> QED
    BY <1>7, <2>1, FixUpStep, FixRotateStep, FixDoneStep, WrongFixingStep DEF RemovalInv
<1>8. CASE Exchange
  <2>1. Exchanging \/ WrongExchange
    BY <1>1, <1>8 DEF Exchange, RemovalInv
  <2> QED
    BY <1>8, <2>1, ExchangeStep DEF RemovalInv
<1>9. CASE UNCHANGED removalVars
  BY <1>9, InvariantStutters
<1>10. CASE RemovalContinue
  BY <1>5, <1>6, <1>7, <1>8, <1>10 DEF RemovalContinue
<1>11. CASE \E k \in Keys : Begin(k)
  BY <1>2, <1>3, <1>4, <1>11 DEF Begin
<1> QED
  BY <1>9, <1>10, <1>11 DEF RemovalNext

(* The inductive invariant of insertion and removal: the tree is whole, it *)
(* lacks one black node at the node __tb_tree_fix_after_deletion has come  *)
(* to, it waits for the exchange, the wrong link of the root was changed   *)
(* and the loop and the exchange run on it, or remove has left a link to a *)
(* deleted node at the root.                                               *)
THEOREM RemovalInvariant == RemovalSpec => []RemovalInv
<1>1. RemovalInit => RemovalInv
  BY RemovalStarts DEF RemovalInv
<1> QED
  BY <1>1, RemovalInvNext, PTL DEF RemovalSpec

(* The only links to deleted nodes that remove leaves behind are the root  *)
(* pointer and the right link of the root: everywhere else splicing,       *)
(* rotating and exchanging relink every node that stays.                   *)
THEOREM DanglingStaysAtRoot == RemovalSpec => []DanglingOnlyAtRoot
<1>1. RemovalInv => DanglingOnlyAtRoot
  <2> SUFFICES ASSUME RemovalInv, pc = "idle" PROVE Reached \ alive \subseteq {root, right[root]}
    BY DEF DanglingOnlyAtRoot
  <2>1. Whole \/ Dead
    BY DEF RemovalInv, Fixing, Exchanging, WrongFixing, WrongExchange
  <2> QED
    BY <2>1, WholeReaches, DeadDangles
<1> QED
  BY <1>1, RemovalInvariant, PTL

(* After any sequence of insertions and removals that left no link to a    *)
(* deleted node the links are a red-black search tree of the nodes alive,  *)
(* every child knows its parent, and m_size is right.                      *)
THEOREM TreeStaysTree == RemovalSpec => []StillTree
<1>1. RemovalInv => StillTree
  <2> SUFFICES ASSUME RemovalInv, pc = "idle", ~Dangling
               PROVE  /\ SearchOrder /\ BlackHeight(root) >= 0
                      /\ \A n \in InTree : color[n] = "red" => color[parent[n]] = "black"
                      /\ \A n \in InTree : \A c \in {left[n], right[n]} \ {NIL} : parent[c] = n
                      /\ InTree = alive /\ size = Cardinality(alive)
    BY DEF StillTree
  <2>1. Whole
    BY DeadDangles DEF RemovalInv, Fixing, Exchanging, WrongFixing, WrongExchange
  <2>2. RbInv /\ NoNullIn(Tree) /\ alive = InTree
    BY <2>1 DEF Whole
  <2>3. SearchOrder /\ BlackHeight(root) >= 0
    BY <2>2, RbIsOrdered, RbIsBalanced
  <2>4. /\ color \in [Cells -> {"red", "black"}] /\ parent \in [Cells -> Cells] /\ InTree \in SUBSET Keys
        /\ left \in [Cells -> Refs] /\ right \in [Cells -> Refs]
    BY <2>2, TreeFacts DEF RbInv, TreeInv, ScalarType
  <2>5. \A n \in InTree : color[n] = "red" => color[parent[n]] = "black"
    BY <2>2, <2>4, CellsAndRefs DEF RbInv, ColorInv
  <2>6. \A n \in InTree : \A c \in {left[n], right[n]} \ {NIL} : parent[c] = n
    <3> TAKE n \in InTree
    <3>1. \A c \in {left[n], right[n]} \intersect Keys : parent[c] = n
      BY <2>2, LinkFacts DEF RbInv
    <3>2. left[n] \in Refs /\ right[n] \in Refs /\ left[n] # NULL /\ right[n] # NULL
      BY <2>2, <2>4, CellsAndRefs, TreeFields DEF NoNullIn
    <3> QED
      BY <3>1, <3>2, CellsAndRefs
  <2>7. size = Cardinality(alive)
    BY <2>2 DEF RbInv, TreeInv
  <2> QED
    BY <2>2, <2>3, <2>5, <2>6, <2>7
<1> QED
  BY <1>1, RemovalInvariant, PTL

-----------------------------------------------------------------------------
(* The black nodes on a path, the one that is missing counted where it is  *)
(* missing.                                                                *)
LEMMA CountedHeight ==
  ASSUME NEW F, NEW up, Grown(left, right, F, up),
         \A n \in Keys : left[n] \in Cells /\ right[n] \in Cells, root \in Cells,
         NEW H, Even(left, right, color, H, parent[cur], FixOnLeft)
  PROVE  BlackHeightCounting(1) = H[root]
<1> DEFINE at(h, n, child, onLeft) ==
             h[child] + (IF n = parent[cur] /\ onLeft = FixOnLeft THEN 1 ELSE 0)
           from[n \in Cells] ==
             IF n = NIL THEN 0
             ELSE LET l == at(from, n, left[n], TRUE)
                      r == at(from, n, right[n], FALSE)
                  IN IF l # r \/ from[left[n]] = -1 \/ from[right[n]] = -1 THEN -1
                     ELSE l + (IF color[n] = "black" THEN 1 ELSE 0)
           extra(n, onLeft) == IF n = parent[cur] /\ onLeft = FixOnLeft THEN 1 ELSE 0
           value(h, n) ==
             IF n = NIL THEN 0
             ELSE IF h[left[n]] + extra(n, TRUE) # h[right[n]] + extra(n, FALSE)
                     \/ h[left[n]] = -1 \/ h[right[n]] = -1 THEN -1
                  ELSE (h[left[n]] + extra(n, TRUE)) + (IF color[n] = "black" THEN 1 ELSE 0)
           G == [n \in Cells |-> H[n]]
<1>1. BlackHeightCounting(1) = from[root]
  BY DEF BlackHeightCounting
<1>2. \A n \in Keys : /\ H[n] \in Nat /\ H[left[n]] \in Nat /\ H[right[n]] \in Nat
                      /\ H[left[n]] + extra(n, TRUE) = H[right[n]] + extra(n, FALSE)
                      /\ H[n] = (H[left[n]] + extra(n, TRUE)) + (IF color[n] = "black" THEN 1 ELSE 0)
  <2> TAKE n \in Keys
  <2>1. H[n] \in Nat /\ H[left[n]] \in Nat /\ H[right[n]] \in Nat
    BY CellsAndRefs DEF Even
  <2>2. FixOnLeft \in BOOLEAN
    BY SiblingSide
  <2>3. extra(n, TRUE) = Extra(n, parent[cur], FixOnLeft) /\ extra(n, FALSE) = Extra(n, parent[cur], ~FixOnLeft)
    BY <2>2 DEF Extra
  <2> HIDE DEF extra
  <2> QED
    BY <2>1, <2>3 DEF Even, Shade
<1>11. \A n \in Keys : H[left[n]] # -1 /\ H[right[n]] # -1
  <2> TAKE n \in Keys
  <2>1. H[left[n]] \in Nat /\ H[right[n]] \in Nat
    BY CellsAndRefs DEF Even
  <2>2. \A i \in Nat : i # -1
    OBVIOUS
  <2> QED
    BY <2>1, <2>2
<1>3. H[NIL] = 0
  BY CellsAndRefs DEF Even
<1>4. \A n \in Cells : G[n] = value(G, n)
  <2> TAKE n \in Cells
  <2>1. \A m \in Cells : G[m] = H[m]
    OBVIOUS
  <2> HIDE DEF G, extra
  <2>2. CASE n = NIL
    BY <1>3, <2>1, <2>2
  <2>3. CASE n \in Keys
    <3>1. n # NIL /\ left[n] \in Cells /\ right[n] \in Cells
      BY <2>3, CellsAndRefs
    <3>2. H[left[n]] # -1 /\ H[right[n]] # -1
      BY <1>11, <2>3
    <3> QED
      BY <1>2, <2>1, <2>3, <3>1, <3>2
  <2> QED
    BY <2>2, <2>3, CellsAndRefs
<1>5. \E g : g = [n \in Cells |-> value(g, n)]
  <2>1. G = [n \in Cells |-> G[n]]
    OBVIOUS
  <2> HIDE DEF value
  <2>2. G = [n \in Cells |-> value(G, n)]
    BY <1>4, <2>1
  <2> QED
    BY <2>2
<1>6. from = [n \in Cells |-> value(from, n)]
  BY <1>5
<1>7. \A n \in Cells : from[n] = value(from, n)
  <2> HIDE DEF from, value
  <2> QED
    BY <1>6
<1> HIDE DEF from, extra
<1> DEFINE P == {m \in Refs : m \in Cells => from[m] = H[m]}
<1>8. Refs \ Keys \subseteq P
  BY <1>3, <1>7, CellsAndRefs
<1>9. ASSUME NEW n \in Keys, left[n] \in P, right[n] \in P
      PROVE  n \in P
  <2>1. left[n] \in Cells /\ right[n] \in Cells /\ n # NIL /\ n \in Cells /\ n \in Refs
    BY CellsAndRefs
  <2>2. from[left[n]] = H[left[n]] /\ from[right[n]] = H[right[n]]
    BY <1>9, <2>1
  <2>3. H[left[n]] # -1 /\ H[right[n]] # -1
    BY <1>11
  <2>4. from[n] = value(from, n)
    BY <1>7, <2>1
  <2> QED
    BY <1>2, <2>1, <2>2, <2>3, <2>4
<1>10. Refs \subseteq P
  <2> HIDE DEF P
  <2> QED
    BY <1>8, <1>9, TreeInduction
<1> QED
  BY <1>1, <1>10, CellsAndRefs

(* The links of a tree that lacks a black node, with its heights.          *)
LEMMA LackingTree ==
  ASSUME NEW N, NEW d, NEW s, Lacking(Tree, N, color, d, s)
  PROVE  \E F, H : /\ Grown(left, right, F, TRUE) /\ F[root] = N
                   /\ Even(left, right, color, H, d, s)
                   /\ root \in Cells /\ \A n \in Keys : left[n] \in Cells /\ right[n] \in Cells
<1>1. PICK F, H : Sound(Tree, F, color, H, d, s) /\ F[Tree.root] = N
  BY DEF Lacking, SoundOver
<1>2. /\ Grown(left, right, F, TRUE) /\ F[root] = N
      /\ Even(left, right, color, H, d, s)
  BY <1>1, TreeFields DEF Sound, TreeShaped, Shaped, Hither, Yonder
<1>3. root \in Keys /\ \A n \in Keys : left[n] # NULL /\ right[n] # NULL
  BY TreeFields DEF Lacking, NoNullIn
<1>4. \A n \in Keys : left[n] \in Refs /\ right[n] \in Refs
  BY <1>2, CellsAndRefs DEF Grown, LinkType
<1>5. root \in Cells /\ \A n \in Keys : left[n] \in Cells /\ right[n] \in Cells
  BY <1>3, <1>4, CellsAndRefs
<1> QED
  BY <1>2, <1>5

(* Below is the set of nodes a tree has below a node.                      *)
LEMMA GrownNow ==
  ASSUME NEW F, NEW up, Grown(left, right, F, up), root \in Refs
  PROVE  InTree = F[root] /\ \A n \in Refs : Below(n) = F[n]
BY BelowOfTree, BelowIsBelowIn DEF InTree

(* A tree of links is in search order.                                     *)
LEMMA GrownIsOrdered ==
  ASSUME NEW F, Grown(left, right, F, TRUE), root \in Refs
  PROVE  InTree = F[root] /\ SearchOrder
<1>1. InTree = F[root] /\ \A n \in Refs : Below(n) = F[n]
  <2>1. \A up : Grown(left, right, F, up) => InTree = F[root] /\ \A n \in Refs : Below(n) = F[n]
    BY GrownNow
  <2> QED
    BY <2>1
<1>2. F \in [Refs -> SUBSET Keys] /\ \A n \in Keys : left[n] \in Refs /\ right[n] \in Refs
  BY CellsAndRefs DEF Grown, Unfolds, LinkType
<1>3. SearchOrder
  <2> SUFFICES ASSUME NEW n \in InTree
               PROVE  /\ \A m \in Below(left[n]) : m < n
                      /\ \A m \in Below(right[n]) : m > n
    BY DEF SearchOrder
  <2>1. n \in Keys
    BY <1>1, <1>2
  <2>2. /\ Below(left[n]) = F[left[n]] /\ Below(right[n]) = F[right[n]]
        /\ F[left[n]] \in SUBSET Keys /\ F[right[n]] \in SUBSET Keys
    BY <1>1, <1>2, <2>1
  <2>3. /\ \A m \in F[left[n]] : m < n
        /\ \A m \in F[right[n]] : n < m
    BY <2>1 DEF Grown, Sorted, Before
  <2>4. n \in Int /\ \A m \in Keys : m \in Int
    BY <2>1, KeysAreInts
  <2> QED
    BY <2>2, <2>3, <2>4
<1> QED
  BY <1>1, <1>3

(* In every round of __tb_tree_fix_after_deletion on a tree that no longer *)
(* leads to the node that left, the keys are in order,                     *)
(* the paths agree when the node the loop has come to counts twice, and    *)
(* two red nodes meet only there.                                          *)
THEOREM LoopLacksOneBlack == RemovalSpec => []OneBlackMissing
<1>1. RemovalInv => OneBlackMissing
  <2> SUFFICES ASSUME RemovalInv, pc = "fix", spliced \notin Reached
               PROVE  /\ SearchOrder
                      /\ cur = root \/ BlackHeightCounting(1) >= 0
                      /\ cur = root => BlackHeight(root) >= 0
                      /\ \A n \in InTree : color[n] = "red" /\ color[parent[n]] = "red"
                                           => cur \in {n, parent[n]}
    BY DEF OneBlackMissing
  <2>1. Fixing
    <3>1. ~WrongFixing
      <4> SUFFICES ASSUME WrongFixing PROVE FALSE
        OBVIOUS
      <4>1. root \in Keys /\ spliced \in Keys /\ spliced # NIL
        BY KeysAreInts DEF WrongFixing, Removing
      <4>2. spliced = root \/ spliced = right[root]
        BY DEF WrongFixing, RootKept, RightLinkKept
      <4> QED
        BY <4>1, <4>2, RootIsReached
    <3> QED
      BY <3>1 DEF RemovalInv, Whole, RbInv, TreeInv, ScalarType, Exchanging, WrongExchange, Dead
  <2>2. /\ cur = root => Lacking(Tree, Kept, color, NIL, TRUE)
        /\ cur # root => Lacking(Tree, Kept, color, parent[cur], FixOnLeft)
        /\ RedApart(Tree, Kept, color, cur)
    BY <2>1, TreeFields DEF Fixing, LackingAt
  <2>3. PICK F, H : /\ Grown(left, right, F, TRUE) /\ F[root] = Kept
                    /\ root \in Cells /\ \A n \in Keys : left[n] \in Cells /\ right[n] \in Cells
                    /\ cur = root => Even(left, right, color, H, NIL, TRUE)
                    /\ cur # root => Even(left, right, color, H, parent[cur], FixOnLeft)
    <3>1. CASE cur = root
      BY <2>2, <3>1, LackingTree
    <3>2. CASE cur # root
      BY <2>2, <3>2, LackingTree
    <3> QED
      BY <3>1, <3>2
  <2>4. InTree = Kept /\ SearchOrder /\ root \in Refs
    BY <2>3, GrownIsOrdered, CellsAndRefs
  <2>5. cur = root => BlackHeight(root) = H[root]
    BY <2>3, <2>4, HeightsNow
  <2>6. cur # root => BlackHeightCounting(1) = H[root]
    <3>1. \A up : Grown(left, right, F, up) /\ cur # root => BlackHeightCounting(1) = H[root]
      BY <2>3, CountedHeight
    <3> QED
      BY <2>3, <3>1
  <2>7. H[root] \in Nat
    BY <2>3, <2>4 DEF Even
  <2>8. \A n \in InTree : color[n] = "red" /\ color[parent[n]] = "red" => cur \in {n, parent[n]}
    BY <2>2, <2>4, TreeFields DEF RedApart
  <2> QED
    BY <2>4, <2>5, <2>6, <2>7, <2>8
<1> QED
  BY <1>1, RemovalInvariant, PTL
=============================================================================

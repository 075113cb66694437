-------------------------- MODULE LinkedListProofs --------------------------
(***************************************************************************)
(* Proofs about LinkedList: whatever m_size has become, the live nodes are *)
(* one chain from m_first to m_last, for any number of nodes.              *)
(***************************************************************************)
EXTENDS LinkedList, NaturalsInduction, WellFoundedInduction, TLAPS

(* The n live nodes in their order along the links, each of them once.     *)
ListOf(n, c) ==
  /\ \A i, j \in 1 .. n : c[i] = c[j] => i = j
  /\ \A i \in 1 .. n : next[c[i]] = IF i < n THEN c[i + 1] ELSE NULL
  /\ alive = {c[i] : i \in 1 .. n}
  /\ first = IF n = 0 THEN NULL ELSE c[1]
  /\ n > 0 => last = c[n]
  /\ n <= size

LinkType ==
  /\ next \in [Elems -> Elems \union {NULL}]
  /\ size \in Nat
  /\ phase \in {"running", "destroyed", "crashed"}

ListInv ==
  /\ LinkType
  /\ phase = "destroyed" => alive = {}
  /\ phase # "destroyed" =>
       \E n \in Nat : \E c \in [1 .. n -> Elems] : ListOf(n, c)

-----------------------------------------------------------------------------
LEMMA ListInit == Init => ListInv
<1> SUFFICES ASSUME Init PROVE ListInv
  OBVIOUS
<1> DEFINE c == [i \in 1 .. 0 |-> NULL]
<1>1. c \in [1 .. 0 -> Elems]
  OBVIOUS
<1>2. ListOf(0, c)
  BY DEF Init, ListOf
<1>3. \E d \in [1 .. 0 -> Elems] : ListOf(0, d)
  BY <1>1, <1>2
<1>4. LinkType /\ phase # "destroyed"
  BY DEF Init, LinkType
<1> QED
  BY <1>3, <1>4 DEF ListInv

(* What a push does to the chain when it appends.                          *)
LEMMA PushBackStep == ListInv /\ PushBack => ListInv'
<1> SUFFICES ASSUME ListInv, PushBack PROVE ListInv'
  OBVIOUS
<1>1. PICK n \in Nat : \E c \in [1 .. n -> Elems] : ListOf(n, c)
  BY DEF ListInv, PushBack
<1>2. PICK c \in [1 .. n -> Elems] : ListOf(n, c)
  BY <1>1
<1>3. PICK e \in Elems \ alive :
        /\ alive' = alive \union {e}
        /\ first' = (IF first = NULL THEN e ELSE first)
        /\ last' = e
        /\ next' = (IF first = NULL THEN [next EXCEPT ![e] = NULL]
                    ELSE [next EXCEPT ![e] = NULL, ![last] = e])
        /\ size' = size + 1
  BY DEF PushBack
<1>4. PICK d : d = [i \in 1 .. n + 1 |-> IF i <= n THEN c[i] ELSE e]
  OBVIOUS
<1>5. /\ d \in [1 .. n + 1 -> Elems]
      /\ \A i \in 1 .. n : d[i] = c[i]
      /\ d[n + 1] = e
  BY <1>2, <1>3, <1>4
<1>6. \A i \in 1 .. n : c[i] # e /\ c[i] # NULL /\ c[i] \in Elems
  BY <1>2, <1>3, ElemsAssumption DEF ListOf
<1>7. LinkType'
  BY <1>2, <1>3, <1>6, ElemsAssumption DEF ListInv, LinkType, PushBack, ListOf
<1>8. (first = NULL) <=> (n = 0)
  BY <1>2, <1>6 DEF ListOf
<1>9. ListOf(n + 1, d)'
  <2>1. \A i, j \in 1 .. n + 1 : d[i] = d[j] => i = j
    <3> SUFFICES ASSUME NEW i \in 1 .. n + 1, NEW j \in 1 .. n + 1, d[i] = d[j]
                 PROVE  i = j
      OBVIOUS
    <3>1. (i \in 1 .. n \/ i = n + 1) /\ (j \in 1 .. n \/ j = n + 1)
      OBVIOUS
    <3> QED
      BY <1>2, <1>5, <1>6, <3>1 DEF ListOf
  <2>2. \A i \in 1 .. n + 1 : next'[d[i]] = IF i < n + 1 THEN d[i + 1] ELSE NULL
    <3> SUFFICES ASSUME NEW i \in 1 .. n + 1
                 PROVE  next'[d[i]] = IF i < n + 1 THEN d[i + 1] ELSE NULL
      OBVIOUS
    <3>1. CASE i = n + 1
      <4>1. n > 0 => last = c[n] /\ n \in 1 .. n
        BY <1>2 DEF ListOf
      <4> QED
        BY <1>3, <1>5, <1>6, <1>8, <3>1, <4>1 DEF ListInv, LinkType
    <3>2. CASE i < n
      <4>1. i \in 1 .. n /\ i + 1 \in 1 .. n /\ n \in 1 .. n /\ i # n
        BY <3>2
      <4>2. c[i] # last /\ last \in Elems
        BY <1>2, <4>1 DEF ListOf
      <4>3. next'[c[i]] = next[c[i]]
        BY <1>3, <1>6, <4>1, <4>2 DEF ListInv, LinkType
      <4> QED
        BY <1>2, <1>5, <3>2, <4>1, <4>3 DEF ListOf
    <3>3. CASE i = n
      <4>1. n \in 1 .. n /\ n > 0
        BY <3>3
      <4>2. last = c[n] /\ first # NULL /\ c[n] \in Elems /\ c[n] # e
        BY <1>2, <1>6, <1>8, <4>1 DEF ListOf
      <4>3. next'[c[n]] = e
        BY <1>3, <4>2 DEF ListInv, LinkType
      <4> QED
        BY <1>5, <3>3, <4>1, <4>3
    <3> QED
      BY <3>1, <3>2, <3>3
  <2>3. alive' = {d[i] : i \in 1 .. n + 1}
    <3>1. alive = {c[i] : i \in 1 .. n}
      BY <1>2 DEF ListOf
    <3>2. \A i \in 1 .. n + 1 : i \in 1 .. n \/ i = n + 1
      OBVIOUS
    <3>3. (n + 1) \in 1 .. n + 1 /\ \A i \in 1 .. n : i \in 1 .. n + 1
      OBVIOUS
    <3> QED
      BY <1>3, <1>5, <3>1, <3>2, <3>3
  <2>4. first' = (IF n + 1 = 0 THEN NULL ELSE d[1])
    <3>1. n > 0 => 1 \in 1 .. n /\ first = c[1]
      BY <1>2 DEF ListOf
    <3> QED
      BY <1>3, <1>5, <1>8, <3>1
  <2>5. last' = d[n + 1] /\ n + 1 <= size'
    BY <1>2, <1>3, <1>5 DEF ListOf, ListInv, LinkType
  <2> QED
    BY <2>1, <2>2, <2>3, <2>4, <2>5 DEF ListOf
<1>10. phase' # "destroyed"
  BY DEF PushBack
<1>11. n + 1 \in Nat
  OBVIOUS
<1>12. \E b \in [1 .. n + 1 -> Elems] : ListOf(n + 1, b)'
  BY <1>5, <1>9
<1> QED
  BY <1>7, <1>10, <1>11, <1>12 DEF ListInv

(* What it does when it prepends.                                          *)
LEMMA PushFrontStep == ListInv /\ PushFront => ListInv'
<1> SUFFICES ASSUME ListInv, PushFront PROVE ListInv'
  OBVIOUS
<1>1. PICK n \in Nat : \E c \in [1 .. n -> Elems] : ListOf(n, c)
  BY DEF ListInv, PushFront
<1>2. PICK c \in [1 .. n -> Elems] : ListOf(n, c)
  BY <1>1
<1>3. PICK e \in Elems \ alive :
        /\ alive' = alive \union {e}
        /\ first' = e
        /\ last' = (IF first = NULL THEN e ELSE last)
        /\ next' = [next EXCEPT ![e] = first]
        /\ size' = size + 1
  BY DEF PushFront
<1>4. PICK d : d = [i \in 1 .. n + 1 |-> IF i = 1 THEN e ELSE c[i - 1]]
  OBVIOUS
<1>5. \A i \in 1 .. n + 1 : i = 1 \/ (i - 1 \in 1 .. n /\ i - 1 # 0)
  OBVIOUS
<1>6. /\ d \in [1 .. n + 1 -> Elems]
      /\ \A i \in 1 .. n : d[i + 1] = c[i]
      /\ d[1] = e
  <2>1. \A i \in 1 .. n : i + 1 \in 1 .. n + 1 /\ i + 1 # 1 /\ (i + 1) - 1 = i
    OBVIOUS
  <2>2. 1 \in 1 .. n + 1
    OBVIOUS
  <2> QED
    BY <1>2, <1>3, <1>4, <1>5, <2>1, <2>2
<1>7. \A i \in 1 .. n : c[i] # e /\ c[i] # NULL /\ c[i] \in Elems
  BY <1>2, <1>3, ElemsAssumption DEF ListOf
<1>8. (first = NULL) <=> (n = 0)
  BY <1>2, <1>7 DEF ListOf
<1>9. LinkType'
  <2>1. first \in Elems \union {NULL}
    BY <1>2, <1>7 DEF ListOf
  <2> QED
    BY <1>3, <2>1 DEF ListInv, LinkType, PushFront
<1>10. ListOf(n + 1, d)'
  <2>1. \A i \in 1 .. n + 1 : i = 1 \/ \E k \in 1 .. n : i = k + 1
    <3> SUFFICES ASSUME NEW i \in 1 .. n + 1, i # 1 PROVE \E k \in 1 .. n : i = k + 1
      OBVIOUS
    <3>1. i - 1 \in 1 .. n /\ i = (i - 1) + 1
      OBVIOUS
    <3> QED
      BY <3>1
  <2>2. \A i, j \in 1 .. n + 1 : d[i] = d[j] => i = j
    BY <1>2, <1>6, <1>7, <2>1 DEF ListOf
  <2>3. \A i \in 1 .. n : next'[c[i]] = next[c[i]]
    BY <1>3, <1>7 DEF ListInv, LinkType
  <2>4. next'[e] = first
    BY <1>3 DEF ListInv, LinkType
  <2>5. \A i \in 1 .. n + 1 : next'[d[i]] = IF i < n + 1 THEN d[i + 1] ELSE NULL
    <3> SUFFICES ASSUME NEW i \in 1 .. n + 1
                 PROVE  next'[d[i]] = IF i < n + 1 THEN d[i + 1] ELSE NULL
      OBVIOUS
    <3>1. CASE i = 1
      <4>1. n > 0 => 1 \in 1 .. n /\ first = c[1]
        BY <1>2 DEF ListOf
      <4> QED
        BY <1>6, <1>8, <2>4, <3>1, <4>1
    <3>2. CASE i # 1
      <4>1. PICK k \in 1 .. n : i = k + 1
        BY <2>1, <3>2
      <4>2. next'[d[i]] = IF k < n THEN c[k + 1] ELSE NULL
        BY <1>2, <1>6, <2>3, <4>1 DEF ListOf
      <4>3. k < n => k + 1 \in 1 .. n
        OBVIOUS
      <4>4. k < n => d[i + 1] = c[k + 1]
        BY <1>6, <4>1, <4>3
      <4> QED
        BY <4>1, <4>2, <4>4
    <3> QED
      BY <3>1, <3>2
  <2>6. alive' = {d[i] : i \in 1 .. n + 1}
    <3>1. alive = {c[i] : i \in 1 .. n}
      BY <1>2 DEF ListOf
    <3>2. 1 \in 1 .. n + 1 /\ \A i \in 1 .. n : i + 1 \in 1 .. n + 1
      OBVIOUS
    <3> QED
      BY <1>3, <1>6, <2>1, <3>1, <3>2
  <2>7. last' = d[n + 1]
    <3>1. n > 0 => n \in 1 .. n /\ last = c[n]
      BY <1>2 DEF ListOf
    <3> QED
      BY <1>3, <1>6, <1>8, <3>1
  <2>8. first' = d[1] /\ n + 1 # 0 /\ n + 1 <= size'
    BY <1>2, <1>3, <1>6 DEF ListOf, ListInv, LinkType
  <2> QED
    BY <2>2, <2>5, <2>6, <2>7, <2>8 DEF ListOf
<1>11. phase' # "destroyed" /\ n + 1 \in Nat
  BY DEF PushFront
<1>12. \E b \in [1 .. n + 1 -> Elems] : ListOf(n + 1, b)'
  BY <1>6, <1>10
<1> QED
  BY <1>9, <1>11, <1>12 DEF ListInv

-----------------------------------------------------------------------------
(* Induction, over a set: one that holds 1 and, up to n, the successors of *)
(* its elements holds 1 .. n.                                              *)
LEMMA IndexInduction ==
  ASSUME NEW n \in Nat, NEW S,
         n > 0 => 1 \in S,
         \A i \in 1 .. n : i \in S /\ i < n => i + 1 \in S
  PROVE  1 .. n \subseteq S
<1> DEFINE R == OpToRel(<, Nat)
<1>1. \A x, y \in Nat : <<x, y>> \in R <=> x < y
  BY DEF OpToRel
<1>2. IsWellFoundedOn(R, Nat)
  BY NatLessThanWellFounded
<1> HIDE DEF R
<1> DEFINE Left == (1 .. n) \ S
<1>3. SUFFICES ASSUME Left # {} PROVE FALSE
  OBVIOUS
<1>4. Left \subseteq Nat
  OBVIOUS
<1>5. PICK x \in Left : \A y \in Left : ~(<<y, x>> \in R)
  BY <1>2, <1>3, <1>4, WFMin
<1>6. x \in 1 .. n /\ x # 1 /\ x \notin S
  <2>1. x \in 1 .. n /\ x \notin S
    BY <1>5
  <2> QED
    BY <2>1
<1>7. x - 1 \in 1 .. n /\ x - 1 < x /\ x - 1 < n /\ (x - 1) + 1 = x
  BY <1>6
<1>8. x - 1 \notin Left
  BY <1>1, <1>4, <1>5, <1>7
<1> QED
  BY <1>6, <1>7, <1>8

(* The walk along m_next meets the nodes of the chain and no others.       *)
LEMMA WalkMeetsList ==
  ASSUME NEW n \in Nat, NEW c \in [1 .. n -> Elems], ListOf(n, c)
  PROVE  Reached(first) = alive
<1>1. alive = {c[i] : i \in 1 .. n} /\ alive \in SUBSET Elems
  BY DEF ListOf
<1>2. first # NULL => first \in alive
  <2>1. n # 0 => 1 \in 1 .. n
    OBVIOUS
  <2> QED
    BY <1>1, <2>1 DEF ListOf
<1>3. FollowsLinks(alive)
  <2> SUFFICES ASSUME NEW x \in alive, next[x] # NULL PROVE next[x] \in alive
    BY DEF FollowsLinks
  <2>1. PICK i \in 1 .. n : x = c[i]
    BY <1>1
  <2>2. i < n /\ next[x] = c[i + 1]
    BY <2>1 DEF ListOf
  <2>3. i + 1 \in 1 .. n
    BY <2>2
  <2> QED
    BY <1>1, <2>2, <2>3
<1>4. Reached(first) \subseteq alive
  BY <1>1, <1>2, <1>3 DEF Reached
<1>5. ASSUME NEW S \in SUBSET Elems, first # NULL => first \in S, FollowsLinks(S)
      PROVE  alive \subseteq S
  <2> DEFINE I == {i \in 1 .. n : c[i] \in S}
  <2>1. n > 0 => 1 \in I
    <3>1. n > 0 => 1 \in 1 .. n /\ first = c[1] /\ c[1] # NULL
      BY ElemsAssumption DEF ListOf
    <3> QED
      BY <1>5, <3>1
  <2>2. ASSUME NEW i \in 1 .. n, i \in I, i < n PROVE i + 1 \in I
    <3>1. i + 1 \in 1 .. n
      BY <2>2
    <3>2. next[c[i]] = c[i + 1] /\ c[i + 1] # NULL
      BY <2>2, <3>1, ElemsAssumption DEF ListOf
    <3> QED
      BY <1>5, <2>2, <3>1, <3>2 DEF FollowsLinks
  <2> HIDE DEF I
  <2>3. 1 .. n \subseteq I
    BY <2>1, <2>2, IndexInduction
  <2> QED
    BY <1>1, <2>3 DEF I
<1> QED
  BY <1>1, <1>4, <1>5 DEF Reached

(* The branch for one node leaves an empty list.                           *)
LEMMA PopOnlyStep ==
  ASSUME ListInv, phase = "running", PopOnly
  PROVE  ListInv'
<1>1. PICK n \in Nat : \E c \in [1 .. n -> Elems] : ListOf(n, c)
  BY DEF ListInv
<1>2. PICK c \in [1 .. n -> Elems] : ListOf(n, c)
  BY <1>1
<1>3. n = 0 \/ n = 1
  BY <1>2 DEF ListOf, PopOnly
<1>4. alive' = {}
  <2>1. CASE n = 0
    BY <1>2, <2>1 DEF ListOf, PopOnly
  <2>2. CASE n = 1
    <3>1. \A i \in 1 .. n : i = 1
      BY <2>2
    <3>2. alive \subseteq {last}
      BY <1>2, <2>2, <3>1 DEF ListOf
    <3> QED
      BY <3>2 DEF PopOnly
  <2> QED
    BY <1>3, <2>1, <2>2
<1>5. PICK d : d = [i \in 1 .. 0 |-> NULL]
  OBVIOUS
<1>6. d \in [1 .. 0 -> Elems]
  BY <1>5
<1>7. ListOf(0, d)'
  BY <1>4, <1>5 DEF ListOf, PopOnly
<1>8. LinkType' /\ phase' # "destroyed"
  BY DEF ListInv, LinkType, PopOnly
<1>9. \E b \in [1 .. 0 -> Elems] : ListOf(0, b)'
  BY <1>6, <1>7
<1> QED
  BY <1>8, <1>9 DEF ListInv

(* The walk of pop_back finds the node before the last one, and the chain  *)
(* ends there.                                                             *)
LEMMA PopBackStep == ListInv /\ PopBack => ListInv'
<1> SUFFICES ASSUME ListInv, PopBack PROVE ListInv'
  OBVIOUS
<1>1. PICK n \in Nat : \E c \in [1 .. n -> Elems] : ListOf(n, c)
  BY DEF ListInv, PopBack
<1>2. PICK c \in [1 .. n -> Elems] : ListOf(n, c)
  BY <1>1
<1>3. CASE PopOnly
  BY <1>3, PopOnlyStep DEF PopBack
<1>4. CASE /\ size > 1 /\ Before(last) # {}
           /\ it' \in Before(last)
           /\ next' = [next EXCEPT ![it'] = NULL]
           /\ alive' = alive \ {last}
           /\ last' = it'
           /\ size' = size - 1
           /\ UNCHANGED <<first, phase>>
  <2>1. it' \in alive /\ next[it'] = last
    BY <1>2, <1>4, WalkMeetsList DEF Before
  <2>2. PICK k \in 1 .. n : it' = c[k]
    BY <1>2, <2>1 DEF ListOf
  <2>3. n \in 1 .. n /\ last = c[n] /\ c[n] # NULL /\ n > 0
    BY <1>2, <2>2, ElemsAssumption DEF ListOf
  <2>4. k < n
    BY <1>2, <2>1, <2>2, <2>3 DEF ListOf
  <2>5. k + 1 \in 1 .. n /\ c[k + 1] = c[n]
    BY <1>2, <2>1, <2>2, <2>3, <2>4 DEF ListOf
  <2>6. k = n - 1 /\ n - 1 \in Nat /\ n - 1 \in 1 .. n - 1 /\ (n - 1) + 1 = n
    BY <1>2, <2>3, <2>5 DEF ListOf
  <2>7. PICK m \in Nat : m = n - 1
    BY <2>6
  <2>8. m + 1 = n /\ m \in 1 .. n /\ m \in 1 .. m /\ m > 0 /\ it' = c[m]
    BY <2>2, <2>6, <2>7
  <2>9. \A i \in 1 .. m : i \in 1 .. n /\ i # n /\ i + 1 \in 1 .. n
    BY <2>8
  <2>10. PICK d : d = [i \in 1 .. m |-> c[i]]
    OBVIOUS
  <2>11. d \in [1 .. m -> Elems] /\ \A i \in 1 .. m : d[i] = c[i]
    BY <2>9, <2>10
  <2>12. ListOf(m, d)'
    <3>1. \A i, j \in 1 .. m : d[i] = d[j] => i = j
      BY <1>2, <2>9, <2>11 DEF ListOf
    <3>2. \A i \in 1 .. m : next'[d[i]] = IF i < m THEN d[i + 1] ELSE NULL
      <4> SUFFICES ASSUME NEW i \in 1 .. m
                   PROVE  next'[d[i]] = IF i < m THEN d[i + 1] ELSE NULL
        OBVIOUS
      <4>1. CASE i = m
        <5>1. c[m] \in Elems /\ d[i] = c[m]
          BY <2>8, <2>11, <4>1
        <5> QED
          BY <1>4, <2>8, <4>1, <5>1 DEF ListInv, LinkType
      <4>2. CASE i < m
        <5>1. i \in 1 .. n /\ i + 1 \in 1 .. m /\ i < n /\ i # m
          BY <2>8, <4>2
        <5>2. c[i] # c[m] /\ c[i] \in Elems /\ next[c[i]] = c[i + 1]
          BY <1>2, <2>8, <5>1 DEF ListOf
        <5>3. next'[c[i]] = c[i + 1]
          BY <1>4, <2>8, <5>2 DEF ListInv, LinkType
        <5> QED
          BY <2>11, <4>2, <5>1, <5>3
      <4> QED
        BY <4>1, <4>2
    <3>3. alive' = {d[i] : i \in 1 .. m}
      <4>1. alive = {c[i] : i \in 1 .. n}
        BY <1>2 DEF ListOf
      <4>2. \A i \in 1 .. n : i \in 1 .. m \/ i = n
        BY <2>8
      <4>3. \A i \in 1 .. m : c[i] # c[n]
        BY <1>2, <2>3, <2>9 DEF ListOf
      <4> QED
        BY <1>4, <2>3, <2>9, <2>11, <4>1, <4>2, <4>3
    <3>4. first' = d[1] /\ m # 0
      <4>1. 1 \in 1 .. m /\ n # 0
        BY <2>8
      <4> QED
        BY <1>2, <1>4, <2>8, <2>11, <4>1 DEF ListOf
    <3>5. last' = d[m]
      BY <1>4, <2>8, <2>11
    <3>6. m <= size'
      BY <1>2, <1>4, <2>8 DEF ListOf, ListInv, LinkType
    <3> QED
      BY <3>1, <3>2, <3>3, <3>4, <3>5, <3>6 DEF ListOf
  <2>13. LinkType' /\ phase' # "destroyed"
    <3>1. phase = "running"
      BY DEF PopBack
    <3>2. NULL \in Elems \union {NULL} /\ next \in [Elems -> Elems \union {NULL}]
      BY DEF ListInv, LinkType
    <3>3. next' \in [Elems -> Elems \union {NULL}]
      BY <1>4, <3>2
    <3>4. size' \in Nat
      BY <1>4 DEF ListInv, LinkType
    <3> QED
      BY <1>4, <3>1, <3>3, <3>4 DEF LinkType
  <2>14. \E b \in [1 .. m -> Elems] : ListOf(m, b)'
    BY <2>11, <2>12
  <2> QED
    BY <2>13, <2>14 DEF ListInv
<1>5. CASE /\ size > 1 /\ Before(last) = {}
           /\ it' = NULL
           /\ phase' = "crashed"
           /\ UNCHANGED <<first, last, next, size, alive>>
  <2>1. ListOf(n, c)'
    BY <1>2, <1>5 DEF ListOf
  <2>2. LinkType' /\ phase' # "destroyed"
    BY <1>5 DEF ListInv, LinkType
  <2> QED
    BY <2>1, <2>2 DEF ListInv
<1> QED
  BY <1>3, <1>4, <1>5 DEF PopBack

(* pop_front leaves m_size too large, and the rest of the chain in order.  *)
LEMMA PopFrontStep == ListInv /\ PopFront => ListInv'
<1> SUFFICES ASSUME ListInv, PopFront PROVE ListInv'
  OBVIOUS
<1>1. PICK n \in Nat : \E c \in [1 .. n -> Elems] : ListOf(n, c)
  BY DEF ListInv, PopFront
<1>2. PICK c \in [1 .. n -> Elems] : ListOf(n, c)
  BY <1>1
<1>3. CASE PopOnly
  BY <1>3, PopOnlyStep DEF PopFront
<1>4. CASE /\ size > 1 /\ first # NULL
           /\ alive' = alive \ {first}
           /\ first' = next[first]
           /\ UNCHANGED <<last, it, next, size, phase>>
  <2>1. n # 0 /\ first = c[1]
    BY <1>2, <1>4 DEF ListOf
  <2>2. PICK m \in Nat : m + 1 = n
    <3>1. n - 1 \in Nat /\ (n - 1) + 1 = n
      BY <2>1
    <3> QED
      BY <3>1
  <2>3. 1 \in 1 .. n /\ \A i \in 1 .. m : i + 1 \in 1 .. n /\ i + 1 # 1
    BY <2>2
  <2>4. PICK d : d = [i \in 1 .. m |-> c[i + 1]]
    OBVIOUS
  <2>5. d \in [1 .. m -> Elems] /\ \A i \in 1 .. m : d[i] = c[i + 1]
    BY <2>3, <2>4
  <2>6. ListOf(m, d)'
    <3>1. \A i, j \in 1 .. m : d[i] = d[j] => i = j
      <4> SUFFICES ASSUME NEW i \in 1 .. m, NEW j \in 1 .. m, d[i] = d[j]
                   PROVE  i = j
        OBVIOUS
      <4>1. i + 1 \in 1 .. n /\ j + 1 \in 1 .. n /\ c[i + 1] = c[j + 1]
        BY <2>3, <2>5
      <4>2. i + 1 = j + 1
        BY <1>2, <4>1 DEF ListOf
      <4> QED
        BY <4>2
    <3>2. \A i \in 1 .. m : next'[d[i]] = IF i < m THEN d[i + 1] ELSE NULL
      <4> SUFFICES ASSUME NEW i \in 1 .. m
                   PROVE  next'[d[i]] = IF i < m THEN d[i + 1] ELSE NULL
        OBVIOUS
      <4>1. next'[d[i]] = IF i + 1 < n THEN c[(i + 1) + 1] ELSE NULL
        BY <1>2, <1>4, <2>3, <2>5 DEF ListOf
      <4>2. (i + 1 < n) <=> (i < m)
        BY <2>2
      <4>3. i < m => i + 1 \in 1 .. m
        OBVIOUS
      <4> QED
        BY <2>5, <4>1, <4>2, <4>3
    <3>3. alive' = {d[i] : i \in 1 .. m}
      <4>1. alive = {c[i] : i \in 1 .. n}
        BY <1>2 DEF ListOf
      <4>2. \A i \in 1 .. n : i = 1 \/ \E k \in 1 .. m : i = k + 1
        <5> SUFFICES ASSUME NEW i \in 1 .. n, i # 1 PROVE \E k \in 1 .. m : i = k + 1
          OBVIOUS
        <5>1. i - 1 \in 1 .. m /\ i = (i - 1) + 1
          BY <2>2
        <5> QED
          BY <5>1
      <4>3. \A i \in 1 .. m : c[i + 1] # c[1]
        BY <1>2, <2>3 DEF ListOf
      <4> QED
        BY <1>4, <2>1, <2>3, <2>5, <4>1, <4>2, <4>3
    <3>4. first' = IF m = 0 THEN NULL ELSE d[1]
      <4>1. first' = IF 1 < n THEN c[1 + 1] ELSE NULL
        BY <1>2, <1>4, <2>1, <2>3 DEF ListOf
      <4>2. m # 0 => 1 < n /\ 1 \in 1 .. m
        BY <2>2
      <4>3. m = 0 => ~(1 < n)
        BY <2>2
      <4> QED
        BY <2>5, <4>1, <4>2, <4>3
    <3>5. m > 0 => last' = d[m]
      <4>1. m > 0 => m \in 1 .. m /\ m + 1 = n /\ n > 0
        BY <2>2
      <4> QED
        BY <1>2, <1>4, <2>5, <4>1 DEF ListOf
    <3>6. m <= size'
      BY <1>2, <1>4, <2>2 DEF ListOf, ListInv, LinkType
    <3> QED
      BY <3>1, <3>2, <3>3, <3>4, <3>5, <3>6 DEF ListOf
  <2>7. LinkType' /\ phase' # "destroyed"
    BY <1>4 DEF ListInv, LinkType, PopFront
  <2>8. \E b \in [1 .. m -> Elems] : ListOf(m, b)'
    BY <2>5, <2>6
  <2> QED
    BY <2>7, <2>8 DEF ListInv
<1>5. CASE /\ size > 1 /\ first = NULL
           /\ phase' = "crashed"
           /\ UNCHANGED <<first, last, it, next, size, alive>>
  <2>1. ListOf(n, c)'
    BY <1>2, <1>5 DEF ListOf
  <2>2. LinkType' /\ phase' # "destroyed"
    BY <1>5 DEF ListInv, LinkType
  <2> QED
    BY <2>1, <2>2 DEF ListInv
<1> QED
  BY <1>3, <1>4, <1>5 DEF PopFront

(* The destructor deletes what it reaches, and that is everything.         *)
LEMMA DestroyStep == ListInv /\ Destroy => ListInv'
<1> SUFFICES ASSUME ListInv, Destroy PROVE ListInv'
  OBVIOUS
<1>1. Reached(first) = alive
  BY WalkMeetsList DEF ListInv, Destroy
<1>2. alive' = {}
  BY <1>1 DEF Destroy
<1> QED
  BY <1>2 DEF ListInv, LinkType, Destroy

LEMMA ListStep == ListInv /\ [Next]_vars => ListInv'
<1> SUFFICES ASSUME ListInv, [Next]_vars PROVE ListInv'
  OBVIOUS
<1>1. CASE UNCHANGED vars
  <2>1. LinkType' /\ (phase' = "destroyed" => alive' = {})
    BY <1>1 DEF ListInv, LinkType, vars
  <2>2. ASSUME phase # "destroyed"
        PROVE  \E n \in Nat : \E c \in [1 .. n -> Elems] : ListOf(n, c)'
    BY <1>1, <2>2 DEF ListInv, ListOf, vars
  <2> QED
    BY <1>1, <2>1, <2>2 DEF ListInv, vars
<1> QED
  BY <1>1, PushBackStep, PushFrontStep, PopBackStep, PopFrontStep, DestroyStep
  DEF Next

LEMMA ListInvariant == Spec => []ListInv
BY ListInit, ListStep, PTL DEF Spec

-----------------------------------------------------------------------------
(* However m_size and m_last have drifted, a list that shows nodes shows   *)
(* live ones, and m_last is their end: pushes and pops on it are sound.    *)
THEOREM ListStaysSound == Spec => []ChainSound
<1>1. ListInv => ChainSound
  <2> SUFFICES ASSUME ListInv, phase = "running", first # NULL
               PROVE  /\ Reached(first) \subseteq alive
                      /\ last \in Reached(first) /\ next[last] = NULL
    BY DEF ChainSound
  <2>1. PICK n \in Nat : \E c \in [1 .. n -> Elems] : ListOf(n, c)
    BY DEF ListInv
  <2>2. PICK c \in [1 .. n -> Elems] : ListOf(n, c)
    BY <2>1
  <2>3. Reached(first) = alive
    BY <2>2, WalkMeetsList
  <2>4. n \in 1 .. n /\ n > 0
    BY <2>2 DEF ListOf
  <2> QED
    BY <2>2, <2>3, <2>4 DEF ListOf
<1> QED
  BY <1>1, ListInvariant, PTL

(* Every node that was pushed and not deleted is on the chain, and the     *)
(* destructor leaves none behind.                                          *)
THEOREM NoNodeLeaks == Spec => []NothingLeaks
<1>1. ListInv => NothingLeaks
  BY WalkMeetsList DEF ListInv, NothingLeaks
<1> QED
  BY <1>1, ListInvariant, PTL

(* In every state, and so in the next one, the chain is what is alive.     *)
LEMMA ReachedIsAlive == ListInv /\ phase # "destroyed" => Reached(first) = alive
  BY WalkMeetsList DEF ListInv

LEMMA ReachedIsAliveNext ==
  (ListInv /\ phase # "destroyed" => Reached(first) = alive)'
  BY ReachedIsAlive, PTL

(* A pop takes the node at one end of the chain and writes the link of no  *)
(* node but the one before it.                                             *)
LEMMA PopStep ==
  ASSUME ListInv, [Next]_vars, phase' = "running",
         alive' # alive, alive' \subseteq alive
  PROVE  \E e \in {first, last} :
           /\ alive' = alive \ {e}
           /\ Reached(first)' = Reached(first) \ {e}
           /\ \A x \in Reached(first)' : next'[x] # next[x] => next[x] = e
<1>1. ListInv'
  BY ListStep
<1>2. phase = "running"
  BY DEF Next, vars, PushBack, PushFront, PopBack, PopFront, PopOnly, Destroy
<1>3. Reached(first) = alive
  BY <1>2, ReachedIsAlive
<1>4. Reached(first)' = alive'
  BY <1>1, ReachedIsAliveNext
<1>5. ~PushBack /\ ~PushFront /\ ~Destroy
  <2>1. ~PushBack
    BY DEF PushBack
  <2>2. ~PushFront
    BY DEF PushFront
  <2> QED
    BY <2>1, <2>2 DEF Destroy
<1> SUFFICES \E e \in {first, last} :
               /\ alive' = alive \ {e}
               /\ \A x \in alive' : next'[x] # next[x] => next[x] = e
  BY <1>3, <1>4
<1>6. CASE PopOnly
  BY <1>6 DEF PopOnly
<1>7. CASE PopBack /\ ~PopOnly
  <2>1. /\ it' \in Before(last) /\ alive' = alive \ {last}
        /\ next' = [next EXCEPT ![it'] = NULL]
    BY <1>7 DEF PopBack
  <2>2. next[it'] = last
    BY <2>1 DEF Before
  <2>3. \A x \in alive' : next'[x] # next[x] => x = it'
    BY <2>1 DEF ListInv, LinkType
  <2> QED
    BY <2>1, <2>2, <2>3
<1>8. CASE PopFront /\ ~PopOnly
  BY <1>8 DEF PopFront
<1>9. CASE UNCHANGED vars
  BY <1>9 DEF vars
<1> QED
  BY <1>5, <1>6, <1>7, <1>8, <1>9 DEF Next

(* However wrong m_size is, a pop deletes one node, at an end, and the     *)
(* rest of the chain keeps its order, in a list of any length.             *)
THEOREM PopsStayAtTheEnds == Spec => PopsTakeOneEnd
<1>1. ListInv /\ [Next]_vars =>
        [phase' = "running" /\ alive' # alive /\ alive' \subseteq alive =>
           \E e \in {first, last} :
             /\ alive' = alive \ {e}
             /\ Reached(first)' = Reached(first) \ {e}
             /\ \A x \in Reached(first)' : next'[x] # next[x] => next[x] = e]_vars
  BY PopStep
<1> QED
  BY <1>1, ListInvariant, PTL DEF Spec, PopsTakeOneEnd
=============================================================================

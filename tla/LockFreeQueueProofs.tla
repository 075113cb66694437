------------------------ MODULE LockFreeQueueProofs ------------------------
(***************************************************************************)
(* Proofs about LockFreeQueue: the nodes that were ever linked are one     *)
(* line, in which head and tail only move forward, and the queue           *)
(* implements AbstractFifo, for any threads, nodes and values.             *)
(***************************************************************************)
EXTENDS LockFreeQueue, SequenceTheorems, NaturalsInduction,
        WellFoundedInduction, TLAPS

NodeOrNull == Nodes \union {NULL}

(* The place of every node in the order in which they were linked, from 1  *)
(* to n: 0 for what has not been linked, and for NULL.  Links lead from a  *)
(* node to the one in the next place.                                      *)
InLine(n, pos, links) ==
  /\ n \in Nat
  /\ pos \in [NodeOrNull -> 0 .. n]
  /\ pos[NULL] = 0
  /\ \A a, b \in Nodes : pos[a] = pos[b] /\ pos[a] # 0 => a = b
  /\ \A k \in 1 .. n : \E a \in Nodes : pos[a] = k
  /\ links \in [Nodes -> NodeOrNull]
  /\ \A a \in Nodes : IF pos[a] \in {0, n} THEN links[a] = NULL
                      ELSE pos[links[a]] = pos[a] + 1

(* The node in place k.                                                    *)
Nth(pos, k) == CHOOSE a \in Nodes : pos[a] = k

LEMMA NthIs ==
  ASSUME NEW n, NEW pos, NEW links, InLine(n, pos, links)
  PROVE  /\ \A k \in 1 .. n : Nth(pos, k) \in Nodes /\ pos[Nth(pos, k)] = k
         /\ \A a \in Nodes : pos[a] # 0 => Nth(pos, pos[a]) = a
<1>1. \A k \in 1 .. n : Nth(pos, k) \in Nodes /\ pos[Nth(pos, k)] = k
  <2> SUFFICES ASSUME NEW k \in 1 .. n
               PROVE  Nth(pos, k) \in Nodes /\ pos[Nth(pos, k)] = k
    OBVIOUS
  <2>1. \E a \in Nodes : pos[a] = k
    BY DEF InLine
  <2> QED
    BY <2>1 DEF Nth
<1>2. \A a \in Nodes : pos[a] # 0 => Nth(pos, pos[a]) = a
  <2> SUFFICES ASSUME NEW a \in Nodes, pos[a] # 0 PROVE Nth(pos, pos[a]) = a
    OBVIOUS
  <2>1. pos[a] \in 1 .. n
    BY DEF InLine, NodeOrNull
  <2>2. Nth(pos, pos[a]) \in Nodes /\ pos[Nth(pos, pos[a])] = pos[a]
    BY <1>1, <2>1
  <2> QED
    BY <2>2 DEF InLine
<1> QED
  BY <1>1, <1>2

-----------------------------------------------------------------------------
(* ChainFrom and Waiting over links, data and head that are given.         *)
Unfolds(f, links) ==
  f = [m \in Nodes \union {NULL} |->
         IF m = NULL THEN <<>> ELSE <<m>> \o f[links[m]]]

ChainOn(links, a) == (CHOOSE f : Unfolds(f, links))[a]

WaitingOn(h, links, d) ==
  IF h = NULL THEN <<>>
  ELSE [i \in 1 .. Len(ChainOn(links, links[h])) |-> d[ChainOn(links, links[h])[i]]]

LEMMA ChainFromIs == \A a : ChainFrom(a) = ChainOn(next, a)
BY DEF ChainFrom, ChainOn, Unfolds

LEMMA ChainFromIsNext == \A a : ChainFrom(a)' = ChainOn(next', a)
BY DEF ChainFrom, ChainOn, Unfolds

LEMMA WaitingIs == Waiting = WaitingOn(head, next, data)
BY ChainFromIs DEF Waiting, WaitingOn

LEMMA WaitingIsNext == Waiting' = WaitingOn(head', next', data')
BY ChainFromIsNext DEF Waiting, WaitingOn

(* Induction, over a set: one that holds 1 and, up to n, the successors of *)
(* its elements holds 1 .. n.                                              *)
LEMMA IndexInduction ==
  ASSUME NEW n \in Nat, NEW S,
         n > 0 => 1 \in S,
         \A i \in 1 .. n : i \in S /\ i < n => i + 1 \in S
  PROVE  1 .. n \subseteq S
<1> DEFINE R == OpToRel(<, Nat)
<1>1. \A x, y \in Nat : <<x, y>> \in R <=> x < y
  BY DEF OpToRel
<1>2. IsWellFoundedOn(R, Nat)
  BY NatLessThanWellFounded
<1> HIDE DEF R
<1> DEFINE Left == (1 .. n) \ S
<1>3. SUFFICES ASSUME Left # {} PROVE FALSE
  OBVIOUS
<1>4. Left \subseteq Nat
  OBVIOUS
<1>5. PICK x \in Left : \A y \in Left : ~(<<y, x>> \in R)
  BY <1>2, <1>3, <1>4, WFMin
<1>6. x \in 1 .. n /\ x # 1 /\ x \notin S
  <2>1. x \in 1 .. n /\ x \notin S
    BY <1>5
  <2> QED
    BY <2>1
<1>7. x - 1 \in 1 .. n /\ x - 1 < x /\ x - 1 < n /\ (x - 1) + 1 = x
  BY <1>6
<1>8. x - 1 \notin Left
  BY <1>1, <1>4, <1>5, <1>7
<1> QED
  BY <1>6, <1>7, <1>8

(* A node before a sequence of nodes.                                      *)
LEMMA Cons ==
  ASSUME NEW a \in Nodes, NEW s \in Seq(Nodes)
  PROVE  /\ <<a>> \o s \in Seq(Nodes)
         /\ Len(<<a>> \o s) = Len(s) + 1
         /\ (<<a>> \o s)[1] = a
         /\ \A i \in 1 .. Len(s) : (<<a>> \o s)[i + 1] = s[i]
<1>1. <<a>> \in Seq(Nodes) /\ Len(<<a>>) = 1 /\ <<a>>[1] = a
  OBVIOUS
<1>2. Len(s) \in Nat
  OBVIOUS
<1>3. /\ <<a>> \o s \in Seq(Nodes)
      /\ Len(<<a>> \o s) = 1 + Len(s)
      /\ \A i \in 1 .. 1 + Len(s) :
           (<<a>> \o s)[i] = IF i <= 1 THEN <<a>>[i] ELSE s[i - 1]
  BY <1>1, ConcatProperties
<1>4. \A i \in 1 .. Len(s) : /\ i + 1 \in 1 .. 1 + Len(s)
                             /\ ~(i + 1 <= 1) /\ (i + 1) - 1 = i
  BY <1>2
<1>5. 1 \in 1 .. 1 + Len(s)
  BY <1>2
<1> QED
  BY <1>1, <1>2, <1>3, <1>4, <1>5

(* Because the linked nodes are in line, the recursive definition of the   *)
(* chain has the value its equation gives it ...                           *)
LEMMA ChainUnfolds ==
  ASSUME NEW n, NEW pos, NEW links, InLine(n, pos, links)
  PROVE  Unfolds(CHOOSE f : Unfolds(f, links), links)
<1> DEFINE Rest(a) == IF pos[a] = 0 THEN <<a>>
                      ELSE [i \in 1 .. (n - pos[a]) + 1 |-> Nth(pos, (pos[a] + i) - 1)]
           f == [m \in NodeOrNull |-> IF m = NULL THEN <<>> ELSE Rest(m)]
<1>1. \A a \in Nodes : a # NULL
  BY NullAssumption
<1>2. \A a \in Nodes : pos[a] \in 0 .. n /\ n \in Nat
  BY DEF InLine, NodeOrNull
<1>3. \A a \in Nodes : pos[a] # 0 =>
        /\ Rest(a) \in Seq(Nodes) /\ Len(Rest(a)) = (n - pos[a]) + 1
        /\ \A i \in 1 .. (n - pos[a]) + 1 : Rest(a)[i] = Nth(pos, (pos[a] + i) - 1)
  <2> SUFFICES ASSUME NEW a \in Nodes, pos[a] # 0
               PROVE  /\ Rest(a) \in Seq(Nodes) /\ Len(Rest(a)) = (n - pos[a]) + 1
                      /\ \A i \in 1 .. (n - pos[a]) + 1 :
                           Rest(a)[i] = Nth(pos, (pos[a] + i) - 1)
    OBVIOUS
  <2>1. PICK k : k = (n - pos[a]) + 1
    OBVIOUS
  <2>2. k \in Nat /\ pos[a] \in 1 .. n
    BY <1>2, <2>1
  <2>3. \A i \in 1 .. k : (pos[a] + i) - 1 \in 1 .. n
    BY <1>2, <2>1, <2>2
  <2>4. Rest(a) = [i \in 1 .. k |-> Nth(pos, (pos[a] + i) - 1)]
    BY <2>1
  <2>5. Rest(a) \in [1 .. k -> Nodes]
    BY <2>3, <2>4, NthIs
  <2>6. Rest(a) \in Seq(Nodes) /\ Len(Rest(a)) = k
    <3> HIDE DEF Rest
    <3> QED
      BY <2>2, <2>5
  <2> QED
    BY <2>1, <2>4, <2>6
<1>4. ASSUME NEW a \in Nodes PROVE f[a] = <<a>> \o f[links[a]]
  <2>1. f[a] = Rest(a) /\ f[NULL] = <<>>
    BY <1>1 DEF NodeOrNull
  <2>2. CASE pos[a] = 0
    <3>1. f[links[a]] = <<>> /\ f[a] = <<a>>
      BY <2>1, <2>2 DEF InLine
    <3>2. <<a>> \o <<>> = <<a>>
      OBVIOUS
    <3> HIDE DEF f
    <3> QED
      BY <3>1, <3>2
  <2>3. CASE pos[a] = n /\ n # 0
    <3>1. links[a] = NULL
      BY <2>3 DEF InLine
    <3>2. Len(Rest(a)) = 1 /\ Rest(a)[1] = a /\ Rest(a) \in Seq(Nodes)
      <4>1. (n - pos[a]) + 1 = 1 /\ (pos[a] + 1) - 1 = pos[a] /\ pos[a] # 0
        BY <1>2, <2>3
      <4>2. Nth(pos, pos[a]) = a
        BY <4>1, NthIs
      <4>3. Len(Rest(a)) = 1 /\ Rest(a)[1] = Nth(pos, (pos[a] + 1) - 1)
        BY <1>3, <4>1
      <4> QED
        BY <1>3, <4>1, <4>2, <4>3
    <3>3. Rest(a) = <<a>>
      <4> HIDE DEF Rest
      <4>1. <<a>> \in Seq(Nodes) /\ Len(<<a>>) = 1 /\ <<a>>[1] = a
        OBVIOUS
      <4>2. \A i \in 1 .. 1 : i = 1
        OBVIOUS
      <4> QED
        BY <3>2, <4>1, <4>2, SeqEqual
    <3>4. <<a>> \o <<>> = <<a>>
      OBVIOUS
    <3> QED
      BY <2>1, <3>1, <3>3, <3>4
  <2>4. CASE pos[a] # 0 /\ pos[a] # n
    <3>1. PICK b : b = links[a]
      OBVIOUS
    <3>2. b \in NodeOrNull /\ pos[b] = pos[a] + 1 /\ pos[a] \in 1 .. n
      BY <1>2, <2>4, <3>1 DEF InLine
    <3>3. b \in Nodes /\ pos[b] # 0
      BY <3>2 DEF NodeOrNull, InLine
    <3>4. f[b] = Rest(b)
      BY <1>1, <3>3 DEF NodeOrNull
    <3>5. PICK k : k = (n - pos[b]) + 1
      OBVIOUS
    <3>6. k \in Nat /\ (n - pos[a]) + 1 = k + 1
      BY <1>2, <3>2, <3>3, <3>5
    <3>7. /\ Rest(a) \in Seq(Nodes) /\ Len(Rest(a)) = k + 1
          /\ \A i \in 1 .. k + 1 : Rest(a)[i] = Nth(pos, (pos[a] + i) - 1)
      BY <1>3, <2>4, <3>6
    <3>8. /\ Rest(b) \in Seq(Nodes) /\ Len(Rest(b)) = k
          /\ \A i \in 1 .. k : Rest(b)[i] = Nth(pos, (pos[b] + i) - 1)
      BY <1>3, <3>3, <3>5
    <3>9. Nth(pos, (pos[a] + 1) - 1) = a
      <4>1. (pos[a] + 1) - 1 = pos[a]
        BY <3>2
      <4> QED
        BY <2>4, <4>1, NthIs
    <3> HIDE DEF Rest, f
    <3>10. \A i \in 1 .. k + 1 : Rest(a)[i] = (<<a>> \o Rest(b))[i]
      <4> SUFFICES ASSUME NEW i \in 1 .. k + 1 PROVE Rest(a)[i] = (<<a>> \o Rest(b))[i]
        OBVIOUS
      <4>1. CASE i = 1
        BY <3>7, <3>8, <3>9, <4>1, Cons
      <4>2. CASE i # 1
        <5>1. i - 1 \in 1 .. k /\ (i - 1) + 1 = i
          BY <3>6, <4>2
        <5>2. (<<a>> \o Rest(b))[(i - 1) + 1] = Rest(b)[i - 1]
          BY <3>8, <5>1, Cons
        <5>3. Rest(b)[i - 1] = Nth(pos, (pos[b] + (i - 1)) - 1)
          BY <3>8, <5>1
        <5>4. (pos[b] + (i - 1)) - 1 = (pos[a] + i) - 1
          BY <3>2, <3>6
        <5> QED
          BY <3>7, <5>1, <5>2, <5>3, <5>4
      <4> QED
        BY <4>1, <4>2
    <3>11. <<a>> \o Rest(b) \in Seq(Nodes) /\ Len(<<a>> \o Rest(b)) = k + 1
      BY <3>8, Cons
    <3>12. Rest(a) = <<a>> \o Rest(b)
      BY <3>7, <3>10, <3>11, SeqEqual
    <3> QED
      BY <2>1, <3>1, <3>4, <3>12
  <2> QED
    BY <1>2, <2>2, <2>3, <2>4
<1>5. f[NULL] = <<>>
  BY DEF NodeOrNull
<1>6. f = [m \in NodeOrNull |-> f[m]]
  OBVIOUS
<1> HIDE DEF f
<1>7. \A m \in NodeOrNull : f[m] = IF m = NULL THEN <<>> ELSE <<m>> \o f[links[m]]
  BY <1>4, <1>5 DEF NodeOrNull
<1>8. Unfolds(f, links)
  BY <1>6, <1>7 DEF Unfolds, NodeOrNull
<1> QED
  BY <1>8

(* ... and the chain from a linked node is what stands from its place on.  *)
LEMMA ChainIsLine ==
  ASSUME NEW n, NEW pos, NEW links, InLine(n, pos, links),
         NEW a \in Nodes, pos[a] # 0
  PROVE  /\ ChainOn(links, a) \in Seq(Nodes)
         /\ Len(ChainOn(links, a)) = (n - pos[a]) + 1
         /\ \A i \in 1 .. (n - pos[a]) + 1 :
              ChainOn(links, a)[i] = Nth(pos, (pos[a] + i) - 1)
<1> DEFINE g == CHOOSE f : Unfolds(f, links)
           Good(b) == /\ g[b] \in Seq(Nodes)
                      /\ Len(g[b]) = (n - pos[b]) + 1
                      /\ \A i \in 1 .. (n - pos[b]) + 1 :
                           g[b][i] = Nth(pos, (pos[b] + i) - 1)
           I == {j \in 1 .. n : Good(Nth(pos, (n - j) + 1))}
<1>1. Unfolds(g, links)
  BY ChainUnfolds
<1> HIDE DEF g
<1>2. n \in Nat /\ \A b \in Nodes : pos[b] \in 0 .. n
  BY DEF InLine, NodeOrNull
<1>3. g[NULL] = <<>> /\ \A b \in Nodes : g[b] = <<b>> \o g[links[b]]
  BY <1>1, NullAssumption DEF Unfolds
<1>4. n > 0 => 1 \in I
  <2> SUFFICES ASSUME n > 0 PROVE 1 \in I
    OBVIOUS
  <2>1. PICK b : b = Nth(pos, (n - 1) + 1)
    OBVIOUS
  <2>2. (n - 1) + 1 = n /\ n \in 1 .. n
    BY <1>2
  <2>3. b \in Nodes /\ pos[b] = n /\ b = Nth(pos, n)
    BY <2>1, <2>2, NthIs
  <2>4. links[b] = NULL
    BY <2>3 DEF InLine
  <2>5. g[b] = <<b>>
    <3>1. <<b>> \o <<>> = <<b>>
      OBVIOUS
    <3>2. g[b] = <<b>> \o g[links[b]]
      BY <1>3, <2>3
    <3> QED
      BY <1>3, <2>4, <3>1, <3>2
  <2>6. (n - pos[b]) + 1 = 1 /\ (pos[b] + 1) - 1 = n
    BY <1>2, <2>3
  <2>7. g[b] \in Seq(Nodes) /\ Len(g[b]) = 1 /\ g[b][1] = b
    BY <2>3, <2>5
  <2>8. \A i \in 1 .. 1 : i = 1
    OBVIOUS
  <2>9. Good(b)
    BY <2>3, <2>6, <2>7, <2>8
  <2> QED
    BY <1>2, <2>1, <2>9
<1>5. ASSUME NEW j \in 1 .. n, j \in I, j < n PROVE j + 1 \in I
  <2>1. PICK b : b = Nth(pos, (n - (j + 1)) + 1)
    OBVIOUS
  <2>2. PICK c : c = Nth(pos, (n - j) + 1)
    OBVIOUS
  <2>3. /\ (n - (j + 1)) + 1 \in 1 .. n /\ (n - j) + 1 \in 1 .. n
        /\ (n - j) + 1 = ((n - (j + 1)) + 1) + 1
        /\ (n - (j + 1)) + 1 # n
    BY <1>2, <1>5
  <2>4. b \in Nodes /\ c \in Nodes /\ pos[b] = (n - (j + 1)) + 1 /\ pos[c] = pos[b] + 1
    BY <2>1, <2>2, <2>3, NthIs
  <2>5. links[b] = c
    <3>1. pos[links[b]] = pos[c] /\ links[b] \in NodeOrNull
      BY <2>3, <2>4 DEF InLine
    <3>2. pos[c] # 0 /\ pos[NULL] = 0
      BY <1>2, <2>3, <2>4 DEF InLine
    <3> QED
      BY <2>4, <3>1, <3>2 DEF InLine, NodeOrNull
  <2>6. PICK k \in Nat : k = (n - pos[c]) + 1
    BY <1>2, <2>4
  <2>7. /\ g[c] \in Seq(Nodes) /\ Len(g[c]) = k
        /\ \A i \in 1 .. k : g[c][i] = Nth(pos, (pos[c] + i) - 1)
    BY <1>5, <2>2, <2>6
  <2>8. g[b] = <<b>> \o g[c]
    BY <1>3, <2>4, <2>5
  <2>9. (n - pos[b]) + 1 = k + 1
    BY <1>2, <2>4, <2>6
  <2>10. g[b] \in Seq(Nodes) /\ Len(g[b]) = k + 1
    BY <2>4, <2>7, <2>8, Cons
  <2>11. \A i \in 1 .. k + 1 : g[b][i] = Nth(pos, (pos[b] + i) - 1)
    <3> SUFFICES ASSUME NEW i \in 1 .. k + 1 PROVE g[b][i] = Nth(pos, (pos[b] + i) - 1)
      OBVIOUS
    <3>1. CASE i = 1
      <4>1. (pos[b] + 1) - 1 = pos[b] /\ pos[b] # 0
        BY <1>2, <2>3, <2>4
      <4>2. g[b][1] = b
        BY <2>4, <2>7, <2>8, Cons
      <4> QED
        BY <2>4, <3>1, <4>1, <4>2, NthIs
    <3>2. CASE i # 1
      <4>1. i - 1 \in 1 .. k /\ (i - 1) + 1 = i
        BY <3>2
      <4>2. (<<b>> \o g[c])[(i - 1) + 1] = g[c][i - 1]
        BY <2>4, <2>7, <4>1, Cons
      <4>3. g[c][i - 1] = Nth(pos, (pos[c] + (i - 1)) - 1)
        BY <2>7, <4>1
      <4>4. (pos[c] + (i - 1)) - 1 = (pos[b] + i) - 1
        BY <1>2, <2>4
      <4> QED
        BY <2>8, <4>1, <4>2, <4>3, <4>4
    <3> QED
      BY <3>1, <3>2
  <2>12. Good(b)
    BY <2>9, <2>10, <2>11
  <2>13. j + 1 \in 1 .. n
    BY <1>2, <1>5
  <2> QED
    BY <2>1, <2>12, <2>13
<1> HIDE DEF I
<1>6. 1 .. n \subseteq I
  BY <1>2, <1>4, <1>5, IndexInduction
<1>7. PICK j : j = (n - pos[a]) + 1
  OBVIOUS
<1>8. j \in 1 .. n /\ (n - j) + 1 = pos[a]
  <2>1. pos[a] \in 1 .. n
    BY <1>2
  <2> QED
    BY <1>2, <1>7, <2>1
<1>9. Nth(pos, (n - j) + 1) = a
  BY <1>8, NthIs
<1>10. Good(a)
  BY <1>6, <1>8, <1>9 DEF I
<1> QED
  BY <1>10 DEF ChainOn, g

(* What waits is what the nodes behind the head hold, in their order.      *)
LEMMA WaitingIsLine ==
  ASSUME NEW n, NEW pos, NEW links, InLine(n, pos, links),
         NEW h \in Nodes, pos[h] # 0, NEW d
  PROVE  WaitingOn(h, links, d) = [i \in 1 .. n - pos[h] |-> d[Nth(pos, pos[h] + i)]]
<1>1. n \in Nat /\ pos[h] \in 1 .. n /\ h # NULL
  BY NullAssumption DEF InLine, NodeOrNull
<1>2. PICK b : b = links[h]
  OBVIOUS
<1>3. CASE pos[h] = n
  <2>1. b = NULL
    BY <1>2, <1>3 DEF InLine
  <2>2. ChainOn(links, NULL) = <<>>
    <3> DEFINE g == CHOOSE f : Unfolds(f, links)
    <3>1. Unfolds(g, links)
      BY ChainUnfolds
    <3> HIDE DEF g
    <3>2. g[NULL] = <<>>
      BY <3>1 DEF Unfolds
    <3> QED
      BY <3>2 DEF ChainOn, g
  <2>3. Len(<<>>) = 0 /\ n - pos[h] = 0
    BY <1>1, <1>3
  <2>4. 1 .. 0 = {}
    OBVIOUS
  <2>5. WaitingOn(h, links, d) = [i \in 1 .. 0 |-> d[ChainOn(links, links[h])[i]]]
    BY <1>1, <1>2, <2>1, <2>2, <2>3 DEF WaitingOn
  <2> QED
    BY <2>3, <2>4, <2>5
<1>4. CASE pos[h] # n
  <2>1. b \in NodeOrNull /\ pos[b] = pos[h] + 1
    BY <1>1, <1>2, <1>4 DEF InLine
  <2>2. b \in Nodes /\ pos[b] # 0
    BY <1>1, <2>1 DEF NodeOrNull, InLine
  <2>3. (n - pos[b]) + 1 = n - pos[h]
    BY <1>1, <2>1
  <2>4. PICK s : s = ChainOn(links, b)
    OBVIOUS
  <2>5. /\ Len(s) = n - pos[h]
        /\ \A i \in 1 .. n - pos[h] : s[i] = Nth(pos, (pos[b] + i) - 1)
    BY <2>2, <2>3, <2>4, ChainIsLine
  <2>6. \A i \in 1 .. n - pos[h] : (pos[b] + i) - 1 = pos[h] + i
    BY <1>1, <2>1
  <2>7. \A i \in 1 .. n - pos[h] : s[i] = Nth(pos, pos[h] + i)
    BY <2>5, <2>6
  <2>8. WaitingOn(h, links, d) = [i \in 1 .. Len(s) |-> d[s[i]]]
    BY <1>1, <1>2, <2>4 DEF WaitingOn
  <2> QED
    BY <2>5, <2>7, <2>8
<1> QED
  BY <1>3, <1>4

-----------------------------------------------------------------------------
Starting == {"init_head", "init_tail", "init_cas", "ready"}
Linking == {"e_tail", "e_confirm", "e_next", "e_check", "e_help", "e_reload", "e_link"}
Behind == {"e_confirm", "e_next", "e_check", "e_help", "e_reload", "e_link", "e_swing"}
Leaving == {"d_next", "d_check", "d_help", "d_data", "d_cas"}
Labels == {"idle", "e_node", "d_head", "d_confirm", "d_tail"}
            \union Starting \union Linking \union Behind \union Leaving

Regs == [op : {"none", "enqueue", "dequeue"}, value : Values \union {NULL},
         new : NodeOrNull, h : NodeOrNull, t : NodeOrNull, next : NodeOrNull,
         last : NodeOrNull]

QueueType ==
  /\ head \in NodeOrNull /\ tail \in NodeOrNull
  /\ data \in [Nodes -> Values \union {NULL}]
  /\ fresh \subseteq Nodes
  /\ pc \in [Threads -> Labels]
  /\ reg \in [Threads -> Regs]

(* The tail is not behind the head, and at most one node before the end.   *)
Ends(n, pos) ==
  /\ head = NULL => n = 0
  /\ head # NULL => pos[head] # 0
  /\ tail = NULL => n <= 1
  /\ tail # NULL => head # NULL /\ pos[head] <= pos[tail] /\ n - 1 <= pos[tail]

(* Nobody operates before there is a tail; the node about to become it is  *)
(* the only one there is.                                                  *)
Begun(t, pos) ==
  /\ pc[t] \in {"init_tail", "init_cas"} => head # NULL
  /\ pc[t] = "init_cas" => pos[reg[t].h] # 0
  /\ pc[t] \notin Starting \union {"idle"} => tail # NULL
  /\ pc[t] \in Starting /\ reg[t].op = "enqueue" => reg[t].value \in Values
  /\ pc[t] = "e_node" => reg[t].value \in Values

(* A node on its way into the queue is linked nowhere.                     *)
Carries(t, pos) ==
  pc[t] \in Linking =>
    /\ reg[t].new \in Nodes \ fresh /\ pos[reg[t].new] = 0
    /\ data[reg[t].new] = reg[t].value /\ reg[t].value \in Values

(* The tail an enqueue has read is linked and was the tail, the one it has *)
(* read again is not before it, and its node comes right behind that.      *)
Enqueues(t, pos) ==
  /\ pc[t] \in Behind => pos[reg[t].t] # 0 /\ pos[reg[t].t] <= pos[tail]
  /\ pc[t] = "e_check" /\ reg[t].next # NULL => pos[reg[t].next] = pos[reg[t].t] + 1
  /\ pc[t] = "e_help" => pos[reg[t].next] = pos[reg[t].t] + 1
  /\ pc[t] \in {"e_link", "e_swing"} =>
       pos[reg[t].t] <= pos[reg[t].last] /\ pos[reg[t].last] <= pos[tail]
  /\ pc[t] = "e_swing" => pos[reg[t].new] = pos[reg[t].last] + 1

(* The head a dequeue has read was the head, the tail it read later is not *)
(* before it, and the link it read later still leads to the node behind.   *)
Dequeues(t, pos) ==
  /\ pc[t] \in Leaving \union {"d_confirm", "d_tail"} =>
       pos[reg[t].h] # 0 /\ pos[reg[t].h] <= pos[head]
  /\ pc[t] \in Leaving => pos[reg[t].h] <= pos[reg[t].t] /\ pos[reg[t].t] <= pos[tail]
  /\ pc[t] = "d_check" /\ reg[t].next # NULL => pos[reg[t].next] = pos[reg[t].h] + 1
  /\ pc[t] \in {"d_help", "d_data", "d_cas"} => pos[reg[t].next] = pos[reg[t].h] + 1
  /\ pc[t] = "d_help" => reg[t].h = reg[t].t
  /\ pc[t] \in {"d_data", "d_cas"} => reg[t].h # reg[t].t
  /\ pc[t] = "d_cas" => reg[t].value = data[reg[t].next]

Local(t, pos) == Begun(t, pos) /\ Carries(t, pos) /\ Enqueues(t, pos) /\ Dequeues(t, pos)

Apart == \A t, u \in Threads :
           pc[t] \in Linking /\ pc[u] \in Linking /\ reg[t].new = reg[u].new => t = u

LineInv(n, pos) ==
  /\ QueueType
  /\ InLine(n, pos, next)
  /\ Ends(n, pos)
  /\ \A a \in fresh : pos[a] = 0
  /\ \A t \in Threads : Local(t, pos)
  /\ Apart

QueueInv == \E n, pos : LineInv(n, pos)

-----------------------------------------------------------------------------
LEMMA QueueInit == Init => QueueInv
<1> SUFFICES ASSUME Init PROVE QueueInv
  OBVIOUS
<1> DEFINE pos == [a \in NodeOrNull |-> 0]
<1>1. \A a \in NodeOrNull : pos[a] = 0
  OBVIOUS
<1>2. pos \in [NodeOrNull -> 0 .. 0]
  OBVIOUS
<1> HIDE DEF pos
<1>3. InLine(0, pos, next)
  <2>1. \A k \in 1 .. 0 : \E a \in Nodes : pos[a] = k
    OBVIOUS
  <2>2. next \in [Nodes -> NodeOrNull] /\ \A a \in Nodes : next[a] = NULL
    BY DEF Init, NodeOrNull
  <2> QED
    BY <1>1, <1>2, <2>1, <2>2 DEF InLine, NodeOrNull
<1>4. NoReg \in Regs
  BY DEF NoReg, Regs, NodeOrNull
<1>5. QueueType
  BY <1>4 DEF QueueType, Init, Labels, NodeOrNull
<1>6. \A t \in Threads : pc[t] = "idle"
  BY DEF Init
<1>7. \A t \in Threads : Local(t, pos)
  BY <1>6 DEF Local, Begun, Carries, Enqueues, Dequeues, Starting, Linking, Behind, Leaving
<1>8. Apart
  BY <1>6 DEF Apart, Linking
<1>9. Ends(0, pos)
  BY DEF Ends, Init
<1>10. \A a \in fresh : pos[a] = 0
  BY <1>1 DEF Init, NodeOrNull
<1>11. LineInv(0, pos)
  BY <1>3, <1>5, <1>7, <1>8, <1>9, <1>10 DEF LineInv
<1> QED
  BY <1>11 DEF QueueInv

(* While head and tail move forward, nodes are appended and what is linked *)
(* keeps its data, what the other threads know stays true.                 *)
LEMMA OthersKnow ==
  ASSUME NEW n, NEW pos, LineInv(n, pos), NEW m, NEW after, InLine(m, after, next'),
         NEW t \in Threads,
         NEW u \in Threads \ {t}, pc'[u] = pc[u], reg'[u] = reg[u],
         pc[u] \in Linking => after[reg[u].new] = 0,
         \A a \in Nodes : pos[a] # 0 => after[a] = pos[a],
         head # NULL => head' # NULL /\ pos[head] <= after[head'],
         tail # NULL => tail' # NULL /\ pos[tail] <= after[tail'],
         head' \in NodeOrNull, tail' \in NodeOrNull,
         fresh' \subseteq fresh, \A a \in Nodes \ fresh : data'[a] = data[a]
  PROVE  Local(u, after)'
<1>1. /\ Local(u, pos) /\ reg[u] \in Regs
      /\ head \in NodeOrNull /\ tail \in NodeOrNull
  BY DEF LineInv, QueueType
<1>2. \A a \in NodeOrNull : pos[a] \in Nat /\ after[a] \in Nat
  BY DEF LineInv, InLine
<1>3. pos[NULL] = 0 /\ \A a \in NodeOrNull : pos[a] # 0 => after[a] = pos[a] /\ a \in Nodes
  BY DEF LineInv, InLine, NodeOrNull
<1>4. /\ reg[u].new \in NodeOrNull /\ reg[u].h \in NodeOrNull /\ reg[u].t \in NodeOrNull
      /\ reg[u].next \in NodeOrNull /\ reg[u].last \in NodeOrNull
  BY <1>1 DEF Regs
<1>5. Begun(u, after)'
  BY <1>1, <1>3, <1>4 DEF Local, Begun
<1>6. Carries(u, after)'
  BY <1>1 DEF Local, Carries
<1>7. \A a \in NodeOrNull : pos[a] # 0 /\ pos[a] <= pos[tail] =>
        after[a] # 0 /\ after[a] <= after[tail']
  <2> SUFFICES ASSUME NEW a \in NodeOrNull, pos[a] # 0, pos[a] <= pos[tail]
               PROVE  after[a] # 0 /\ after[a] <= after[tail']
    OBVIOUS
  <2>1. tail # NULL
    BY <1>1, <1>2, <1>3
  <2> QED
    BY <1>1, <1>2, <1>3, <2>1
<1>8. \A a \in NodeOrNull : pos[a] # 0 /\ pos[a] <= pos[head] =>
        after[a] # 0 /\ after[a] <= after[head']
  <2> SUFFICES ASSUME NEW a \in NodeOrNull, pos[a] # 0, pos[a] <= pos[head]
               PROVE  after[a] # 0 /\ after[a] <= after[head']
    OBVIOUS
  <2>1. head # NULL
    BY <1>1, <1>2, <1>3
  <2> QED
    BY <1>1, <1>2, <1>3, <2>1
<1>9. \A a, b \in NodeOrNull : pos[a] # 0 /\ pos[b] = pos[a] + 1 =>
        after[b] = after[a] + 1
  BY <1>2, <1>3
<1>10. \A a, b \in NodeOrNull : pos[a] # 0 /\ pos[a] <= pos[b] =>
         after[a] <= after[b] /\ pos[b] # 0
  BY <1>2, <1>3
<1>11. Enqueues(u, after)'
  <2>1. Enqueues(u, pos)
    BY <1>1 DEF Local
  <2>2. pc[u] \in Behind => after[reg[u].t] # 0 /\ after[reg[u].t] <= after[tail']
    BY <1>4, <1>7, <2>1 DEF Enqueues
  <2>3. pc[u] = "e_check" /\ reg[u].next # NULL => after[reg[u].next] = after[reg[u].t] + 1
    BY <1>4, <1>9, <2>1 DEF Enqueues, Behind
  <2>4. pc[u] = "e_help" => after[reg[u].next] = after[reg[u].t] + 1
    BY <1>4, <1>9, <2>1 DEF Enqueues, Behind
  <2>5. pc[u] \in {"e_link", "e_swing"} =>
          /\ after[reg[u].t] <= after[reg[u].last] /\ after[reg[u].last] <= after[tail']
          /\ pos[reg[u].last] # 0
    BY <1>4, <1>7, <1>10, <2>1 DEF Enqueues, Behind
  <2>6. pc[u] = "e_swing" => after[reg[u].new] = after[reg[u].last] + 1
    BY <1>4, <1>9, <2>1, <2>5 DEF Enqueues
  <2> QED
    BY <2>2, <2>3, <2>4, <2>5, <2>6 DEF Enqueues
<1>12. Dequeues(u, after)'
  <2>1. Dequeues(u, pos)
    BY <1>1 DEF Local
  <2>2. pc[u] \in Leaving \union {"d_confirm", "d_tail"} =>
          after[reg[u].h] # 0 /\ after[reg[u].h] <= after[head'] /\ pos[reg[u].h] # 0
    BY <1>4, <1>8, <2>1 DEF Dequeues
  <2>3. pc[u] \in Leaving =>
          after[reg[u].h] <= after[reg[u].t] /\ after[reg[u].t] <= after[tail']
    BY <1>4, <1>7, <1>10, <2>1, <2>2 DEF Dequeues
  <2>4. pc[u] = "d_check" /\ reg[u].next # NULL => after[reg[u].next] = after[reg[u].h] + 1
    BY <1>4, <1>9, <2>1, <2>2 DEF Dequeues, Leaving
  <2>5. pc[u] \in {"d_help", "d_data", "d_cas"} => after[reg[u].next] = after[reg[u].h] + 1
    BY <1>4, <1>9, <2>1, <2>2 DEF Dequeues, Leaving
  <2>6. pc[u] = "d_cas" => data'[reg[u].next] = data[reg[u].next]
    <3> SUFFICES ASSUME pc[u] = "d_cas" PROVE data'[reg[u].next] = data[reg[u].next]
      OBVIOUS
    <3>1. pos[reg[u].next] # 0
      BY <1>2, <1>4, <2>1 DEF Dequeues, Leaving
    <3>2. reg[u].next \in Nodes \ fresh
      BY <1>3, <1>4, <3>1 DEF LineInv
    <3> QED
      BY <3>2
  <2> QED
    BY <2>1, <2>2, <2>3, <2>4, <2>5, <2>6 DEF Dequeues
<1> QED
  BY <1>5, <1>6, <1>11, <1>12 DEF Local

-----------------------------------------------------------------------------
(* A step of one thread in which no node is linked.                        *)
LEMMA SameLine ==
  ASSUME NEW n, NEW pos, LineInv(n, pos), NEW t \in Threads,
         NEW l \in Labels, pc' = [pc EXCEPT ![t] = l],
         NEW r \in Regs, reg' = [reg EXCEPT ![t] = r],
         next' = next, fresh' \subseteq fresh,
         data' \in [Nodes -> Values \union {NULL}],
         \A a \in Nodes \ fresh : data'[a] = data[a],
         head' \in NodeOrNull, tail' \in NodeOrNull,
         head # NULL => head' # NULL /\ pos[head] <= pos[head'],
         tail # NULL => tail' # NULL /\ pos[tail] <= pos[tail'],
         Ends(n, pos)', Local(t, pos)',
         l \in Linking =>
           \/ pc[t] \in Linking /\ r.new = reg[t].new
           \/ r.new \in fresh
  PROVE  LineInv(n, pos)'
<1>1. pc \in [Threads -> Labels] /\ reg \in [Threads -> Regs] /\ fresh \subseteq Nodes
  BY DEF LineInv, QueueType
<1>2. /\ pc'[t] = l /\ reg'[t] = r
      /\ \A u \in Threads \ {t} : pc'[u] = pc[u] /\ reg'[u] = reg[u]
  BY <1>1
<1>3. QueueType'
  BY <1>1 DEF QueueType
<1>4. InLine(n, pos, next')
  BY DEF LineInv
<1>5. ASSUME NEW u \in Threads \ {t} PROVE Local(u, pos)'
  <2>1. pc[u] \in Linking => pos[reg[u].new] = 0
    BY DEF LineInv, Local, Carries
  <2> QED
    BY <1>2, <1>4, <2>1, OthersKnow
<1>6. \A u \in Threads : Local(u, pos)'
  BY <1>5
<1>7. \A u \in Threads : pc[u] \in Linking => reg[u].new \notin fresh
  BY DEF LineInv, Local, Carries
<1>8. Apart'
  <2> SUFFICES ASSUME NEW x \in Threads, NEW u \in Threads,
                      pc'[x] \in Linking, pc'[u] \in Linking, reg'[x].new = reg'[u].new
               PROVE  x = u
    BY DEF Apart
  <2>1. Apart
    BY DEF LineInv
  <2> QED
    BY <1>2, <1>7, <2>1 DEF Apart
<1>9. \A a \in fresh' : pos[a] = 0
  BY DEF LineInv
<1> QED
  BY <1>3, <1>4, <1>6, <1>8, <1>9 DEF LineInv

(* A step that changes nothing shared.                                     *)
LEMMA QuietStep ==
  ASSUME NEW n, NEW pos, LineInv(n, pos), NEW t \in Threads,
         NEW l \in Labels, pc' = [pc EXCEPT ![t] = l],
         NEW r \in Regs, reg' = [reg EXCEPT ![t] = r],
         UNCHANGED queueVars,
         Local(t, pos)',
         l \in Linking => pc[t] \in Linking /\ r.new = reg[t].new
  PROVE  LineInv(n, pos)'
<1>1. /\ head' = head /\ tail' = tail /\ next' = next /\ data' = data /\ fresh' = fresh
  BY DEF queueVars
<1>2. head \in NodeOrNull /\ tail \in NodeOrNull /\ data \in [Nodes -> Values \union {NULL}]
  BY DEF LineInv, QueueType
<1>3. pos[head] <= pos[head] /\ pos[tail] <= pos[tail]
  BY <1>2 DEF LineInv, InLine
<1>4. Ends(n, pos)'
  BY <1>1 DEF LineInv, Ends
<1> QED
  BY <1>1, <1>2, <1>3, <1>4, SameLine
-----------------------------------------------------------------------------
(* What the invariant says of one thread and of the places.                *)
LEMMA Facts ==
  ASSUME NEW n, NEW pos, LineInv(n, pos), NEW t \in Threads
  PROVE  /\ pc \in [Threads -> Labels] /\ reg \in [Threads -> Regs] /\ reg[t] \in Regs
         /\ Local(t, pos)
         /\ n \in Nat /\ pos[NULL] = 0 /\ \A a \in NodeOrNull : pos[a] \in 0 .. n
         /\ \A a \in NodeOrNull : pos[a] # 0 => a \in Nodes \ fresh
         /\ head \in NodeOrNull /\ tail \in NodeOrNull
         /\ next \in [Nodes -> NodeOrNull] /\ data \in [Nodes -> Values \union {NULL}]
BY DEF LineInv, QueueType, InLine, NodeOrNull

LEMMA CallKeeps ==
  ASSUME NEW n, NEW pos, LineInv(n, pos), NEW t \in Threads, Call(t)
  PROVE  LineInv(n, pos)'
<1>1. PICK r \in Regs : /\ reg' = [reg EXCEPT ![t] = r]
                        /\ r.op = "enqueue" => r.value \in Values
  <2>1. CASE reg' = [reg EXCEPT ![t].op = "dequeue"]
    <3>1. [reg[t] EXCEPT !.op = "dequeue"] \in Regs
      BY Facts DEF Regs
    <3> QED
      BY <2>1, <3>1, Facts DEF Regs
  <2>2. ASSUME NEW v \in Values, reg' = [reg EXCEPT ![t].op = "enqueue", ![t].value = v]
        PROVE  \E r \in Regs : /\ reg' = [reg EXCEPT ![t] = r]
                               /\ r.op = "enqueue" => r.value \in Values
    <3>1. PICK r : r = [reg[t] EXCEPT !.op = "enqueue", !.value = v]
      OBVIOUS
    <3>2. r \in Regs /\ r.value = v
      BY <3>1, Facts DEF Regs
    <3>3. reg' = [reg EXCEPT ![t] = r]
      BY <2>2, <3>1, Facts DEF Regs
    <3> QED
      BY <3>2, <3>3
  <2> QED
    BY <2>1, <2>2 DEF Call
<1>2. pc' = [pc EXCEPT ![t] = "init_head"] /\ UNCHANGED queueVars
  BY DEF Call, Goto
<1>3. pc'[t] = "init_head" /\ reg'[t] = r
  BY <1>1, <1>2, Facts
<1>4. Local(t, pos)'
  BY <1>1, <1>3 DEF Local, Begun, Carries, Enqueues, Dequeues, Starting, Linking, Behind, Leaving
<1>5. "init_head" \in Labels /\ "init_head" \notin Linking
  BY DEF Labels, Starting, Linking
<1> QED
  BY <1>1, <1>2, <1>4, <1>5, QuietStep

(* An operation ends, or gives up.                                         *)
LEMMA ReturnKeeps ==
  ASSUME NEW n, NEW pos, LineInv(n, pos), NEW t \in Threads, Return(t), UNCHANGED queueVars
  PROVE  LineInv(n, pos)'
<1>1. NoReg \in Regs
  BY DEF NoReg, Regs, NodeOrNull
<1>2. pc' = [pc EXCEPT ![t] = "idle"] /\ reg' = [reg EXCEPT ![t] = NoReg]
  BY DEF Return, Goto
<1>3. pc'[t] = "idle"
  BY <1>2, Facts
<1>4. Local(t, pos)'
  BY <1>3 DEF Local, Begun, Carries, Enqueues, Dequeues, Starting, Linking, Behind, Leaving
<1>5. "idle" \in Labels /\ "idle" \notin Linking
  BY DEF Labels, Linking
<1> QED
  BY <1>1, <1>2, <1>4, <1>5, QuietStep

(* A test moves the thread and changes none of its variables.              *)
LEMMA GotoKeeps ==
  ASSUME NEW n, NEW pos, LineInv(n, pos), NEW t \in Threads, NEW l \in Labels,
         Goto(t, l), UNCHANGED <<queueVars, reg>>,
         l \in Linking => pc[t] \in Linking,
         Local(t, pos)'
  PROVE  LineInv(n, pos)'
<1>1. PICK r \in Regs : r = reg[t]
  BY Facts
<1>2. reg' = [reg EXCEPT ![t] = r] /\ pc' = [pc EXCEPT ![t] = l]
  BY <1>1, Facts DEF Goto
<1>3. UNCHANGED queueVars
  OBVIOUS
<1> QED
  BY <1>1, <1>2, <1>3, QuietStep

LEMMA InitTailReadKeeps ==
  ASSUME NEW n, NEW pos, LineInv(n, pos), NEW t \in Threads, InitTailRead(t)
  PROVE  LineInv(n, pos)'
<1>1. CASE Goto(t, "ready") /\ UNCHANGED <<queueVars, reg>>
  <2>1. pc'[t] = "ready" /\ reg'[t] = reg[t] /\ pc[t] = "init_tail"
    BY <1>1, Facts DEF Goto, InitTailRead
  <2>2. Local(t, pos)'
    BY <2>1, Facts DEF Local, Begun, Carries, Enqueues, Dequeues, Starting, Linking, Behind, Leaving
  <2>3. "ready" \in Labels /\ "ready" \notin Linking
    BY DEF Labels, Starting, Linking
  <2> QED
    BY <1>1, <2>2, <2>3, GotoKeeps
<1>2. CASE Goto(t, "init_cas") /\ reg' = [reg EXCEPT ![t].h = head] /\ UNCHANGED queueVars
  <2>1. PICK r : r = [reg[t] EXCEPT !.h = head]
    OBVIOUS
  <2>2. r \in Regs /\ r.h = head /\ r.op = reg[t].op /\ r.value = reg[t].value
    BY <2>1, Facts DEF Regs
  <2>3. reg' = [reg EXCEPT ![t] = r] /\ pc' = [pc EXCEPT ![t] = "init_cas"]
    BY <1>2, <2>1, Facts DEF Regs, Goto
  <2>4. pc[t] = "init_tail" /\ pc'[t] = "init_cas" /\ reg'[t] = r
    BY <2>3, Facts DEF InitTailRead
  <2>5. head # NULL /\ pos[head] # 0 /\ head' = head
    BY <1>2, <2>4, Facts DEF Local, Begun, LineInv, Ends, queueVars
  <2>6. Local(t, pos)'
    BY <2>2, <2>4, <2>5, Facts
    DEF Local, Begun, Carries, Enqueues, Dequeues, Starting, Linking, Behind, Leaving
  <2>7. "init_cas" \in Labels /\ "init_cas" \notin Linking
    BY DEF Labels, Starting, Linking
  <2> QED
    BY <1>2, <2>2, <2>3, <2>6, <2>7, QuietStep
<1> QED
  BY <1>1, <1>2 DEF InitTailRead

LEMMA ReadyKeeps ==
  ASSUME NEW n, NEW pos, LineInv(n, pos), NEW t \in Threads, Ready(t)
  PROVE  LineInv(n, pos)'
<1>1. PICK r : r = [reg[t] EXCEPT !.h = NULL]
  OBVIOUS
<1>2. r \in Regs /\ r.op = reg[t].op /\ r.value = reg[t].value
  BY <1>1, Facts DEF Regs, NodeOrNull
<1>3. reg' = [reg EXCEPT ![t] = r] /\ UNCHANGED queueVars /\ pc[t] = "ready" /\ tail # NULL
  BY <1>1, Facts DEF Regs, Ready
<1>4. PICK l \in {"e_node", "d_head"} : /\ pc' = [pc EXCEPT ![t] = l]
                                        /\ l = "e_node" => reg[t].op = "enqueue"
  BY DEF Ready, Goto
<1>5. pc'[t] = l /\ reg'[t] = r /\ tail' = tail
  BY <1>3, <1>4, Facts DEF queueVars
<1>6. Local(t, pos)'
  BY <1>2, <1>3, <1>4, <1>5, Facts
  DEF Local, Begun, Carries, Enqueues, Dequeues, Starting, Linking, Behind, Leaving
<1>7. l \in Labels /\ l \notin Linking
  BY <1>4 DEF Labels, Linking
<1> QED
  BY <1>2, <1>3, <1>4, <1>6, <1>7, QuietStep

-----------------------------------------------------------------------------
LEMMA EnqueueTailKeeps ==
  ASSUME NEW n, NEW pos, LineInv(n, pos), NEW t \in Threads, EnqueueTail(t)
  PROVE  LineInv(n, pos)'
<1>1. PICK r : r = [reg[t] EXCEPT !.t = tail, !.next = NULL, !.last = NULL]
  OBVIOUS
<1>2. r \in Regs /\ r.value = reg[t].value /\ r.new = reg[t].new /\ r.t = tail
  BY <1>1, Facts DEF Regs, NodeOrNull
<1>3. reg' = [reg EXCEPT ![t] = r] /\ UNCHANGED queueVars /\ pc[t] = "e_tail"
  BY <1>1, Facts DEF Regs, EnqueueTail
<1>4. pc' = [pc EXCEPT ![t] = "e_confirm"]
  BY DEF EnqueueTail, Goto
<1>5. pc'[t] = "e_confirm" /\ reg'[t] = r
  BY <1>3, <1>4, Facts
<1>6. tail' = tail /\ data' = data /\ fresh' = fresh
  BY <1>3 DEF queueVars
<1>7. tail # NULL /\ Carries(t, pos) /\ pos[tail] # 0 /\ pos[tail] <= pos[tail]
  <2>1. tail # NULL /\ Carries(t, pos)
    BY <1>3, Facts DEF Local, Begun, Starting
  <2>2. pos[head] # 0 /\ pos[head] <= pos[tail]
    BY <2>1 DEF LineInv, Ends
  <2> QED
    BY <2>1, <2>2, Facts
<1>8. Local(t, pos)'
  BY <1>2, <1>3, <1>5, <1>6, <1>7
  DEF Local, Begun, Carries, Enqueues, Dequeues, Starting, Linking, Behind, Leaving
<1>9. "e_confirm" \in Labels /\ pc[t] \in Linking
  BY <1>3 DEF Labels, Linking
<1> QED
  BY <1>2, <1>3, <1>4, <1>8, <1>9, QuietStep

LEMMA EnqueueConfirmKeeps ==
  ASSUME NEW n, NEW pos, LineInv(n, pos), NEW t \in Threads, EnqueueConfirm(t)
  PROVE  LineInv(n, pos)'
<1>1. PICK l \in {"e_next", "e_tail"} : Goto(t, l)
  BY DEF EnqueueConfirm
<1>2. UNCHANGED <<queueVars, reg>> /\ pc[t] = "e_confirm"
  BY DEF EnqueueConfirm
<1>3. pc'[t] = l /\ reg' = reg /\ tail' = tail /\ data' = data /\ fresh' = fresh
  BY <1>1, <1>2, Facts DEF Goto, queueVars
<1>4. Local(t, pos)'
  BY <1>1, <1>2, <1>3, Facts
  DEF Local, Begun, Carries, Enqueues, Dequeues, Starting, Linking, Behind, Leaving
<1>5. l \in Labels /\ pc[t] \in Linking
  BY <1>1, <1>2 DEF Labels, Linking
<1> QED
  BY <1>1, <1>2, <1>4, <1>5, GotoKeeps

(* The link that is read leads to the next place, now and for good.        *)
LEMMA LinkLeadsOn ==
  ASSUME NEW n, NEW pos, LineInv(n, pos), NEW a \in NodeOrNull, pos[a] # 0
  PROVE  /\ a \in Nodes /\ next[a] \in NodeOrNull
         /\ next[a] # NULL => pos[next[a]] = pos[a] + 1
         /\ next[a] = NULL <=> pos[a] = n
BY NullAssumption DEF LineInv, InLine, NodeOrNull

LEMMA EnqueueNextKeeps ==
  ASSUME NEW n, NEW pos, LineInv(n, pos), NEW t \in Threads, EnqueueNext(t)
  PROVE  LineInv(n, pos)'
<1>1. PICK r : r = [reg[t] EXCEPT !.next = next[reg[t].t]]
  OBVIOUS
<1>2. pc[t] = "e_next" /\ UNCHANGED queueVars
  BY DEF EnqueueNext
<1>3. Local(t, pos) /\ reg[t].t \in NodeOrNull /\ pos[reg[t].t] # 0
  BY <1>2, Facts DEF Local, Enqueues, Behind, Regs
<1>4. /\ next[reg[t].t] \in NodeOrNull
      /\ next[reg[t].t] # NULL => pos[next[reg[t].t]] = pos[reg[t].t] + 1
  BY <1>3, LinkLeadsOn
<1>5. /\ r \in Regs /\ r.value = reg[t].value /\ r.new = reg[t].new /\ r.t = reg[t].t
      /\ r.next = next[reg[t].t]
  BY <1>1, <1>4, Facts DEF Regs
<1>6. reg' = [reg EXCEPT ![t] = r] /\ pc' = [pc EXCEPT ![t] = "e_check"]
  BY <1>1, Facts DEF Regs, EnqueueNext, Goto
<1>7. pc'[t] = "e_check" /\ reg'[t] = r
  BY <1>6, Facts
<1>8. tail' = tail /\ data' = data /\ fresh' = fresh
  BY <1>2 DEF queueVars
<1>9. Local(t, pos)'
  BY <1>2, <1>3, <1>4, <1>5, <1>7, <1>8
  DEF Local, Begun, Carries, Enqueues, Dequeues, Starting, Linking, Behind, Leaving
<1>10. "e_check" \in Labels /\ pc[t] \in Linking
  BY <1>2 DEF Labels, Linking
<1> QED
  BY <1>2, <1>5, <1>6, <1>9, <1>10, QuietStep

LEMMA EnqueueCheckKeeps ==
  ASSUME NEW n, NEW pos, LineInv(n, pos), NEW t \in Threads, EnqueueCheck(t)
  PROVE  LineInv(n, pos)'
<1>1. PICK l \in {"e_tail", "e_help", "e_reload"} :
        Goto(t, l) /\ (l = "e_help" => reg[t].next # NULL)
  BY DEF EnqueueCheck
<1>2. UNCHANGED <<queueVars, reg>> /\ pc[t] = "e_check"
  BY DEF EnqueueCheck
<1>3. pc'[t] = l /\ reg' = reg /\ tail' = tail /\ data' = data /\ fresh' = fresh
  BY <1>1, <1>2, Facts DEF Goto, queueVars
<1>4. Local(t, pos)'
  BY <1>1, <1>2, <1>3, Facts
  DEF Local, Begun, Carries, Enqueues, Dequeues, Starting, Linking, Behind, Leaving
<1>5. l \in Labels /\ pc[t] \in Linking
  BY <1>1, <1>2 DEF Labels, Linking
<1> QED
  BY <1>1, <1>2, <1>4, <1>5, GotoKeeps

LEMMA EnqueueReloadKeeps ==
  ASSUME NEW n, NEW pos, LineInv(n, pos), NEW t \in Threads, EnqueueReload(t)
  PROVE  LineInv(n, pos)'
<1>1. PICK r : r = [reg[t] EXCEPT !.last = tail]
  OBVIOUS
<1>2. /\ r \in Regs /\ r.value = reg[t].value /\ r.new = reg[t].new /\ r.t = reg[t].t
      /\ r.last = tail
  BY <1>1, Facts DEF Regs
<1>3. reg' = [reg EXCEPT ![t] = r] /\ UNCHANGED queueVars /\ pc[t] = "e_reload"
  BY <1>1, Facts DEF Regs, EnqueueReload
<1>4. pc' = [pc EXCEPT ![t] = "e_link"]
  BY DEF EnqueueReload, Goto
<1>5. pc'[t] = "e_link" /\ reg'[t] = r
  BY <1>3, <1>4, Facts
<1>6. tail' = tail /\ data' = data /\ fresh' = fresh
  BY <1>3 DEF queueVars
<1>7. Local(t, pos) /\ pos[tail] <= pos[tail]
  BY Facts
<1>8. Local(t, pos)'
  BY <1>2, <1>3, <1>5, <1>6, <1>7
  DEF Local, Begun, Carries, Enqueues, Dequeues, Starting, Linking, Behind, Leaving
<1>9. "e_link" \in Labels /\ pc[t] \in Linking
  BY <1>3 DEF Labels, Linking
<1> QED
  BY <1>2, <1>3, <1>4, <1>8, <1>9, QuietStep

-----------------------------------------------------------------------------
LEMMA DequeueHeadKeeps ==
  ASSUME NEW n, NEW pos, LineInv(n, pos), NEW t \in Threads, DequeueHead(t)
  PROVE  LineInv(n, pos)'
<1>1. PICK r : r = [reg[t] EXCEPT !.h = head, !.t = NULL, !.next = NULL, !.value = NULL]
  OBVIOUS
<1>2. r \in Regs /\ r.h = head
  BY <1>1, Facts DEF Regs, NodeOrNull
<1>3. reg' = [reg EXCEPT ![t] = r] /\ UNCHANGED queueVars /\ pc[t] = "d_head"
  BY <1>1, Facts DEF Regs, DequeueHead
<1>4. pc' = [pc EXCEPT ![t] = "d_confirm"]
  BY DEF DequeueHead, Goto
<1>5. pc'[t] = "d_confirm" /\ reg'[t] = r
  BY <1>3, <1>4, Facts
<1>6. tail' = tail /\ head' = head
  BY <1>3 DEF queueVars
<1>7. tail # NULL /\ pos[head] # 0 /\ pos[head] <= pos[head]
  <2>1. tail # NULL
    BY <1>3, Facts DEF Local, Begun, Starting
  <2>2. pos[head] # 0
    BY <2>1 DEF LineInv, Ends
  <2> QED
    BY <2>1, <2>2, Facts
<1>8. Local(t, pos)'
  BY <1>2, <1>5, <1>6, <1>7
  DEF Local, Begun, Carries, Enqueues, Dequeues, Starting, Linking, Behind, Leaving
<1>9. "d_confirm" \in Labels /\ "d_confirm" \notin Linking
  BY DEF Labels, Linking
<1> QED
  BY <1>2, <1>3, <1>4, <1>8, <1>9, QuietStep

LEMMA DequeueConfirmKeeps ==
  ASSUME NEW n, NEW pos, LineInv(n, pos), NEW t \in Threads, DequeueConfirm(t)
  PROVE  LineInv(n, pos)'
<1>1. PICK l \in {"d_tail", "d_head"} : Goto(t, l)
  BY DEF DequeueConfirm
<1>2. UNCHANGED <<queueVars, reg>> /\ pc[t] = "d_confirm"
  BY DEF DequeueConfirm
<1>3. pc'[t] = l /\ reg' = reg /\ tail' = tail /\ head' = head
  BY <1>1, <1>2, Facts DEF Goto, queueVars
<1>4. Local(t, pos)'
  BY <1>1, <1>2, <1>3, Facts
  DEF Local, Begun, Carries, Enqueues, Dequeues, Starting, Linking, Behind, Leaving
<1>5. l \in Labels /\ l \notin Linking
  BY <1>1 DEF Labels, Linking
<1> QED
  BY <1>1, <1>2, <1>4, <1>5, GotoKeeps

LEMMA DequeueTailKeeps ==
  ASSUME NEW n, NEW pos, LineInv(n, pos), NEW t \in Threads, DequeueTail(t)
  PROVE  LineInv(n, pos)'
<1>1. PICK r : r = [reg[t] EXCEPT !.t = tail]
  OBVIOUS
<1>2. r \in Regs /\ r.h = reg[t].h /\ r.t = tail
  BY <1>1, Facts DEF Regs
<1>3. reg' = [reg EXCEPT ![t] = r] /\ UNCHANGED queueVars /\ pc[t] = "d_tail"
  BY <1>1, Facts DEF Regs, DequeueTail
<1>4. pc' = [pc EXCEPT ![t] = "d_next"]
  BY DEF DequeueTail, Goto
<1>5. pc'[t] = "d_next" /\ reg'[t] = r
  BY <1>3, <1>4, Facts
<1>6. tail' = tail /\ head' = head
  BY <1>3 DEF queueVars
<1>7. /\ tail # NULL /\ reg[t].h \in NodeOrNull
      /\ pos[reg[t].h] # 0 /\ pos[reg[t].h] <= pos[head]
  BY <1>3, Facts DEF Local, Begun, Dequeues, Starting, Regs
<1>8. pos[reg[t].h] <= pos[tail] /\ pos[tail] <= pos[tail]
  <2>1. pos[head] <= pos[tail]
    BY <1>7 DEF LineInv, Ends
  <2>2. pos[head] \in Nat /\ pos[tail] \in Nat /\ pos[reg[t].h] \in Nat
    BY <1>7, Facts
  <2> QED
    BY <1>7, <2>1, <2>2
<1>9. Local(t, pos)'
  BY <1>2, <1>5, <1>6, <1>7, <1>8
  DEF Local, Begun, Carries, Enqueues, Dequeues, Starting, Linking, Behind, Leaving
<1>10. "d_next" \in Labels /\ "d_next" \notin Linking
  BY DEF Labels, Linking, Leaving
<1> QED
  BY <1>2, <1>3, <1>4, <1>9, <1>10, QuietStep

LEMMA DequeueNextKeeps ==
  ASSUME NEW n, NEW pos, LineInv(n, pos), NEW t \in Threads, DequeueNext(t)
  PROVE  LineInv(n, pos)'
<1>1. PICK r : r = [reg[t] EXCEPT !.next = next[reg[t].h]]
  OBVIOUS
<1>2. pc[t] = "d_next" /\ UNCHANGED queueVars
  BY DEF DequeueNext
<1>3. Local(t, pos) /\ reg[t].h \in NodeOrNull /\ pos[reg[t].h] # 0
  BY <1>2, Facts DEF Local, Dequeues, Leaving, Regs
<1>4. /\ next[reg[t].h] \in NodeOrNull
      /\ next[reg[t].h] # NULL => pos[next[reg[t].h]] = pos[reg[t].h] + 1
  BY <1>3, LinkLeadsOn
<1>5. r \in Regs /\ r.t = reg[t].t /\ r.h = reg[t].h /\ r.next = next[reg[t].h]
  BY <1>1, <1>4, Facts DEF Regs
<1>6. reg' = [reg EXCEPT ![t] = r] /\ pc' = [pc EXCEPT ![t] = "d_check"]
  BY <1>1, Facts DEF Regs, DequeueNext, Goto
<1>7. pc'[t] = "d_check" /\ reg'[t] = r
  BY <1>6, Facts
<1>8. tail' = tail /\ head' = head
  BY <1>2 DEF queueVars
<1>9. Local(t, pos)'
  BY <1>2, <1>3, <1>4, <1>5, <1>7, <1>8
  DEF Local, Begun, Carries, Enqueues, Dequeues, Starting, Linking, Behind, Leaving
<1>10. "d_check" \in Labels /\ "d_check" \notin Linking
  BY DEF Labels, Linking, Leaving
<1> QED
  BY <1>2, <1>5, <1>6, <1>9, <1>10, QuietStep

LEMMA DequeueCheckKeeps ==
  ASSUME NEW n, NEW pos, LineInv(n, pos), NEW t \in Threads, DequeueCheck(t)
  PROVE  LineInv(n, pos)'
<1>1. pc[t] = "d_check" /\ UNCHANGED queueVars
  BY DEF DequeueCheck
<1>2. CASE Return(t)
  BY <1>1, <1>2, ReturnKeeps
<1>3. ASSUME NEW l \in {"d_head", "d_help", "d_data"}, Goto(t, l), UNCHANGED reg,
             l # "d_head" => reg[t].next # NULL,
             l = "d_help" => reg[t].h = reg[t].t,
             l = "d_data" => reg[t].h # reg[t].t
      PROVE  LineInv(n, pos)'
  <2>1. pc'[t] = l /\ reg' = reg /\ tail' = tail /\ head' = head
    BY <1>1, <1>3, Facts DEF Goto, queueVars
  <2>2. Local(t, pos)'
    BY <1>1, <1>3, <2>1, Facts
    DEF Local, Begun, Carries, Enqueues, Dequeues, Starting, Linking, Behind, Leaving
  <2>3. l \in Labels /\ l \notin Linking
    BY <1>3 DEF Labels, Linking, Leaving
  <2> QED
    BY <1>1, <1>3, <2>2, <2>3, GotoKeeps
<1>4. \/ Return(t)
      \/ Goto(t, "d_head") /\ UNCHANGED reg
      \/ reg[t].next # NULL /\ reg[t].h = reg[t].t /\ Goto(t, "d_help") /\ UNCHANGED reg
      \/ reg[t].next # NULL /\ reg[t].h # reg[t].t /\ Goto(t, "d_data") /\ UNCHANGED reg
  BY DEF DequeueCheck
<1> QED
  BY <1>2, <1>3, <1>4

LEMMA DequeueDataKeeps ==
  ASSUME NEW n, NEW pos, LineInv(n, pos), NEW t \in Threads, DequeueData(t)
  PROVE  LineInv(n, pos)'
<1>1. PICK r : r = [reg[t] EXCEPT !.value = data[reg[t].next]]
  OBVIOUS
<1>2. pc[t] = "d_data" /\ UNCHANGED queueVars
  BY DEF DequeueData
<1>3. /\ Local(t, pos) /\ reg[t].h \in NodeOrNull /\ pos[reg[t].h] # 0
      /\ pos[reg[t].next] = pos[reg[t].h] + 1 /\ reg[t].next \in NodeOrNull
  BY <1>2, Facts DEF Local, Dequeues, Leaving, Regs
<1>4. reg[t].next \in Nodes
  BY <1>3, Facts
<1>5. /\ r \in Regs /\ r.t = reg[t].t /\ r.h = reg[t].h /\ r.next = reg[t].next
      /\ r.value = data[reg[t].next]
  BY <1>1, <1>4, Facts DEF Regs
<1>6. reg' = [reg EXCEPT ![t] = r] /\ pc' = [pc EXCEPT ![t] = "d_cas"]
  BY <1>1, Facts DEF Regs, DequeueData, Goto
<1>7. pc'[t] = "d_cas" /\ reg'[t] = r
  BY <1>6, Facts
<1>8. tail' = tail /\ head' = head /\ data' = data
  BY <1>2 DEF queueVars
<1>9. Local(t, pos)'
  BY <1>2, <1>3, <1>5, <1>7, <1>8
  DEF Local, Begun, Carries, Enqueues, Dequeues, Starting, Linking, Behind, Leaving
<1>10. "d_cas" \in Labels /\ "d_cas" \notin Linking
  BY DEF Labels, Linking, Leaving
<1> QED
  BY <1>2, <1>5, <1>6, <1>9, <1>10, QuietStep

-----------------------------------------------------------------------------
LEMMA NewNodeIsFresh == fresh # {} => NewNode \in fresh
BY DEF NewNode

(* A node is appended to the line.                                         *)
LEMMA LineGrows ==
  ASSUME NEW n, NEW pos, NEW links, InLine(n, pos, links), NEW a \in Nodes, pos[a] = 0,
         NEW after, after = [pos EXCEPT ![a] = n + 1],
         NEW linked \in [Nodes -> NodeOrNull],
         \A b \in Nodes : linked[b] = IF pos[b] = n /\ n # 0 THEN a ELSE links[b]
  PROVE  InLine(n + 1, after, linked)
<1>1. n \in Nat /\ pos \in [NodeOrNull -> 0 .. n] /\ pos[NULL] = 0
  BY DEF InLine
<1>2. after[a] = n + 1 /\ \A b \in NodeOrNull : b # a => after[b] = pos[b]
  BY <1>1 DEF NodeOrNull
<1>3. after \in [NodeOrNull -> 0 .. n + 1] /\ after[NULL] = 0
  <2>1. NULL # a /\ NULL \in NodeOrNull
    BY NullAssumption DEF NodeOrNull
  <2>2. n + 1 \in 0 .. n + 1 /\ \A i \in 0 .. n : i \in 0 .. n + 1
    BY <1>1
  <2>3. after[NULL] = 0
    BY <1>1, <1>2, <2>1
  <2> QED
    BY <1>1, <2>2, <2>3
<1>4. \A b \in Nodes : pos[b] \in 0 .. n
  BY <1>1 DEF NodeOrNull
<1>5. \A b, c \in Nodes : after[b] = after[c] /\ after[b] # 0 => b = c
  <2>1. \A b, c \in Nodes : pos[b] = pos[c] /\ pos[b] # 0 => b = c
    BY DEF InLine
  <2>2. \A b \in Nodes : b # a => after[b] = pos[b] /\ pos[b] # n + 1
    BY <1>1, <1>2, <1>4 DEF NodeOrNull
  <2> QED
    BY <1>2, <2>1, <2>2
<1>6. \A k \in 1 .. n + 1 : \E b \in Nodes : after[b] = k
  <2> SUFFICES ASSUME NEW k \in 1 .. n + 1 PROVE \E b \in Nodes : after[b] = k
    OBVIOUS
  <2>1. CASE k = n + 1
    BY <1>2, <2>1
  <2>2. CASE k \in 1 .. n
    <3>1. PICK b \in Nodes : pos[b] = k
      BY <2>2 DEF InLine
    <3>2. b # a
      BY <2>2, <3>1
    <3> QED
      BY <1>2, <3>1, <3>2 DEF NodeOrNull
  <2> QED
    BY <1>1, <2>1, <2>2
<1>7. \A b \in Nodes : IF after[b] \in {0, n + 1} THEN linked[b] = NULL
                       ELSE after[linked[b]] = after[b] + 1
  <2> SUFFICES ASSUME NEW b \in Nodes
               PROVE  IF after[b] \in {0, n + 1} THEN linked[b] = NULL
                      ELSE after[linked[b]] = after[b] + 1
    OBVIOUS
  <2>1. CASE b = a
    <3>1. links[a] = NULL
      BY DEF InLine
    <3> QED
      BY <1>2, <2>1, <3>1
  <2>2. CASE b # a /\ pos[b] = 0
    <3>1. after[b] = 0 /\ links[b] = NULL
      BY <1>2, <2>2 DEF InLine, NodeOrNull
    <3>2. linked[b] = links[b]
      BY <2>2
    <3> QED
      BY <3>1, <3>2
  <2>3. CASE b # a /\ pos[b] # 0 /\ pos[b] = n
    <3>1. after[b] = n /\ linked[b] = a
      BY <1>2, <2>3 DEF NodeOrNull
    <3>2. n \notin {0, n + 1}
      BY <1>1, <2>3
    <3> QED
      BY <1>2, <3>1, <3>2
  <2>4. CASE b # a /\ pos[b] # 0 /\ pos[b] # n
    <3>1. after[b] = pos[b] /\ linked[b] = links[b]
      BY <1>2, <2>4 DEF NodeOrNull
    <3>2. pos[links[b]] = pos[b] + 1 /\ links[b] \in NodeOrNull
      BY <2>4 DEF InLine
    <3>3. pos[b] \in 1 .. n /\ pos[b] # n + 1
      BY <1>1, <1>4, <2>4
    <3>4. links[b] # a
      BY <3>2, <3>3
    <3>5. after[links[b]] = pos[links[b]]
      BY <1>2, <3>2, <3>4
    <3> QED
      BY <3>1, <3>2, <3>3, <3>5
  <2> QED
    BY <2>1, <2>2, <2>3, <2>4
<1>8. n + 1 \in Nat
  BY <1>1
<1> QED
  BY <1>3, <1>5, <1>6, <1>7, <1>8 DEF InLine

-----------------------------------------------------------------------------
LEMMA InitHeadKeeps ==
  ASSUME NEW n, NEW pos, LineInv(n, pos), NEW t \in Threads, InitHead(t)
  PROVE  QueueInv'
<1>1. pc[t] = "init_head" /\ UNCHANGED <<tail, next, data, answer, reg>>
  BY DEF InitHead
<1>2. ASSUME NEW l \in {"init_tail", "ready"}, Goto(t, l), UNCHANGED <<head, fresh>>,
             l = "init_tail" => head # NULL
      PROVE  QueueInv'
  <2>1. pc'[t] = l /\ reg' = reg /\ head' = head
    BY <1>1, <1>2, Facts DEF Goto
  <2>2. Local(t, pos)'
    BY <1>1, <1>2, <2>1, Facts
    DEF Local, Begun, Carries, Enqueues, Dequeues, Starting, Linking, Behind, Leaving
  <2>3. l \in Labels /\ l \notin Linking
    BY <1>2 DEF Labels, Starting, Linking
  <2>4. UNCHANGED <<queueVars, reg>>
    BY <1>1, <1>2 DEF queueVars
  <2>5. LineInv(n, pos)'
    BY <1>2, <2>2, <2>3, <2>4, GotoKeeps
  <2> QED
    BY <2>5 DEF QueueInv
<1>3. ASSUME head = NULL, fresh # {}, head' = NewNode, fresh' = fresh \ {NewNode},
             Goto(t, "init_tail")
      PROVE  QueueInv'
  <2>1. PICK a \in fresh : a = NewNode
    BY <1>3, NewNodeIsFresh
  <2>2. PICK after : after = [pos EXCEPT ![a] = n + 1]
    OBVIOUS
  <2>3. n = 0 /\ tail = NULL /\ pos[a] = 0 /\ a \in Nodes
    BY <1>3, <2>1 DEF LineInv, Ends, QueueType
  <2>4. InLine(n, pos, next) /\ next[a] = NULL /\ next' = next
    BY <1>1, <2>3 DEF LineInv, InLine
  <2>5. next' \in [Nodes -> NodeOrNull]
    BY <2>4, Facts
  <2>6. \A b \in Nodes : next'[b] = IF pos[b] = n /\ n # 0 THEN a ELSE next[b]
    BY <2>3, <2>4
  <2>8. InLine(n + 1, after, next')
    BY <2>2, <2>3, <2>4, <2>5, <2>6, LineGrows
  <2>9. after[a] = 1 /\ a # NULL /\ head' = a /\ \A b \in NodeOrNull : b # a => after[b] = pos[b]
    <3>1. pos \in [NodeOrNull -> 0 .. n] /\ a \in NodeOrNull
      BY <2>3, <2>4 DEF InLine, NodeOrNull
    <3>2. a # NULL /\ n + 1 = 1
      BY <2>3, NullAssumption
    <3> QED
      BY <1>3, <2>1, <2>2, <3>1, <3>2
  <2>10. Ends(n + 1, after)'
    BY <1>1, <2>3, <2>9 DEF Ends
  <2>11. QueueType'
    <3>1. "init_tail" \in Labels
      BY DEF Labels, Starting
    <3> QED
      BY <1>1, <1>3, <2>3, <2>9, <3>1 DEF LineInv, QueueType, Goto, NodeOrNull
  <2>12. /\ pc'[t] = "init_tail" /\ reg' = reg
         /\ \A u \in Threads \ {t} : pc'[u] = pc[u]
    BY <1>1, <1>3, Facts DEF Goto
  <2>13. Local(t, after)'
    BY <1>1, <2>9, <2>12, Facts
    DEF Local, Begun, Carries, Enqueues, Dequeues, Starting, Linking, Behind, Leaving
  <2>14. ASSUME NEW u \in Threads \ {t} PROVE Local(u, after)'
    <3>1. pc[u] \in Linking => after[reg[u].new] = 0
      <4> SUFFICES ASSUME pc[u] \in Linking PROVE after[reg[u].new] = 0
        OBVIOUS
      <4>1. reg[u].new \in Nodes \ fresh /\ pos[reg[u].new] = 0
        BY DEF LineInv, Local, Carries
      <4> QED
        BY <2>1, <2>9, <4>1 DEF NodeOrNull
    <3>2. \A b \in Nodes : pos[b] # 0 => after[b] = pos[b]
      BY <2>3, <2>9 DEF NodeOrNull
    <3>3. head' \in NodeOrNull /\ tail' \in NodeOrNull
      BY <2>11 DEF QueueType
    <3>4. fresh' \subseteq fresh /\ \A b \in Nodes \ fresh : data'[b] = data[b]
      BY <1>1, <1>3
    <3>5. pc'[u] = pc[u] /\ reg'[u] = reg[u]
      BY <2>12
    <3> QED
      BY <1>3, <2>3, <2>8, <3>1, <3>2, <3>3, <3>4, <3>5, OthersKnow
  <2>15. \A u \in Threads : Local(u, after)'
    BY <2>13, <2>14
  <2>16. Apart'
    BY <2>12 DEF LineInv, Apart, Linking
  <2>17. \A b \in fresh' : after[b] = 0
    BY <1>3, <2>1, <2>9 DEF LineInv, QueueType, NodeOrNull
  <2>18. LineInv(n + 1, after)'
    BY <2>8, <2>10, <2>11, <2>15, <2>16, <2>17 DEF LineInv
  <2> QED
    BY <2>18 DEF QueueInv
<1> QED
  BY <1>2, <1>3 DEF InitHead

(* A step that moves the tail, by a swap that succeeds or does not.        *)
LEMMA TailMoves ==
  ASSUME NEW n, NEW pos, LineInv(n, pos), NEW t \in Threads,
         NEW l \in Labels \ Linking, pc' = [pc EXCEPT ![t] = l],
         NEW r \in Regs, reg' = [reg EXCEPT ![t] = r],
         UNCHANGED <<head, next, data, fresh>>,
         tail' \in NodeOrNull, tail' # NULL, head # NULL,
         pos[head] <= pos[tail'], n - 1 <= pos[tail'],
         tail # NULL => pos[tail] <= pos[tail'],
         Local(t, pos)'
  PROVE  LineInv(n, pos)'
<1>1. /\ head \in NodeOrNull /\ data \in [Nodes -> Values \union {NULL}]
      /\ pos[head] <= pos[head]
  BY Facts
<1>2. Ends(n, pos)'
  BY DEF LineInv, Ends
<1> QED
  BY <1>1, <1>2, SameLine

LEMMA InitTailCasKeeps ==
  ASSUME NEW n, NEW pos, LineInv(n, pos), NEW t \in Threads, InitTailCas(t)
  PROVE  LineInv(n, pos)'
<1>1. pc[t] = "init_cas" /\ UNCHANGED <<head, next, data, fresh, answer, reg>>
  BY DEF InitTailCas
<1>2. /\ pos[reg[t].h] # 0 /\ reg[t].h \in NodeOrNull /\ head # NULL
      /\ reg[t] \in Regs
  BY <1>1, Facts DEF Local, Begun, Regs
<1>3. "ready" \in Labels \ Linking
  BY DEF Labels, Starting, Linking
<1>4. pc' = [pc EXCEPT ![t] = "ready"] /\ reg' = [reg EXCEPT ![t] = reg[t]]
  BY <1>1, Facts DEF InitTailCas, Goto
<1>5. pc'[t] = "ready" /\ reg'[t] = reg[t]
  BY <1>1, <1>4, Facts
<1>6. Local(t, pos)'
  BY <1>1, <1>5, Facts
  DEF Local, Begun, Carries, Enqueues, Dequeues, Starting, Linking, Behind, Leaving
<1>7. CASE tail = NULL
  <2>1. tail' = reg[t].h
    BY <1>7 DEF InitTailCas
  <2>2. n <= 1 /\ pos[head] # 0
    BY <1>2, <1>7 DEF LineInv, Ends
  <2>3. /\ pos[reg[t].h] \in 0 .. n /\ pos[head] \in 0 .. n /\ n \in Nat
        /\ reg[t].h # NULL
    BY <1>2, Facts
  <2>4. pos[head] <= pos[reg[t].h] /\ n - 1 <= pos[reg[t].h]
    BY <1>2, <2>2, <2>3
  <2> QED
    BY <1>1, <1>2, <1>3, <1>4, <1>6, <1>7, <2>1, <2>3, <2>4, TailMoves
<1>8. CASE tail # NULL
  <2>1. tail' = tail /\ tail \in NodeOrNull /\ pos[tail] <= pos[tail]
    BY <1>8, Facts DEF InitTailCas
  <2>2. pos[head] <= pos[tail] /\ n - 1 <= pos[tail]
    BY <1>8 DEF LineInv, Ends
  <2> QED
    BY <1>1, <1>2, <1>3, <1>4, <1>6, <1>8, <2>1, <2>2, TailMoves
<1> QED
  BY <1>7, <1>8

(* What a swap of the tail from one node to the one right behind it does.  *)
LEMMA TailSwaps ==
  ASSUME NEW n, NEW pos, LineInv(n, pos), tail # NULL, NEW from, NEW to \in NodeOrNull,
         tail = from => pos[to] = pos[from] + 1,
         tail' = IF tail = from THEN to ELSE tail
  PROVE  /\ tail' \in NodeOrNull /\ tail' # NULL /\ head # NULL
         /\ pos[head] <= pos[tail'] /\ n - 1 <= pos[tail'] /\ pos[tail] <= pos[tail']
<1>1. /\ head # NULL /\ pos[head] # 0 /\ pos[head] <= pos[tail] /\ n - 1 <= pos[tail]
  BY DEF LineInv, Ends
<1>2. /\ tail \in NodeOrNull /\ head \in NodeOrNull
      /\ n \in Nat /\ pos[NULL] = 0 /\ \A a \in NodeOrNull : pos[a] \in Nat
  BY DEF LineInv, QueueType, InLine
<1>3. CASE tail = from
  <2>1. tail' = to /\ pos[to] = pos[tail] + 1
    BY <1>3
  <2>2. pos[to] # 0 /\ pos[tail] <= pos[to]
    BY <1>2, <2>1
  <2> QED
    BY <1>1, <1>2, <2>1, <2>2
<1>4. CASE tail # from
  BY <1>1, <1>2, <1>4
<1> QED
  BY <1>3, <1>4

LEMMA EnqueueHelpKeeps ==
  ASSUME NEW n, NEW pos, LineInv(n, pos), NEW t \in Threads, EnqueueHelp(t)
  PROVE  LineInv(n, pos)'
<1>1. /\ pc[t] = "e_help" /\ UNCHANGED <<head, next, data, fresh, answer, reg>>
      /\ tail' = IF tail = reg[t].t THEN reg[t].next ELSE tail
  BY DEF EnqueueHelp, Help
<1>2. /\ Local(t, pos) /\ tail # NULL /\ reg[t] \in Regs /\ reg[t].next \in NodeOrNull
      /\ pos[reg[t].next] = pos[reg[t].t] + 1
  BY <1>1, Facts DEF Local, Begun, Enqueues, Starting, Regs
<1>3. /\ tail' \in NodeOrNull /\ tail' # NULL /\ head # NULL
      /\ pos[head] <= pos[tail'] /\ n - 1 <= pos[tail'] /\ pos[tail] <= pos[tail']
  BY <1>1, <1>2, TailSwaps
<1>4. pc' = [pc EXCEPT ![t] = "e_tail"] /\ reg' = [reg EXCEPT ![t] = reg[t]]
  BY <1>1, Facts DEF EnqueueHelp, Help, Goto
<1>5. pc'[t] = "e_tail" /\ reg'[t] = reg[t]
  BY <1>1, <1>4, Facts
<1>6. Local(t, pos)'
  BY <1>1, <1>2, <1>3, <1>5
  DEF Local, Begun, Carries, Enqueues, Dequeues, Starting, Linking, Behind, Leaving
<1>7. PICK r \in Regs : r = reg[t]
  BY <1>2
<1>8. /\ "e_tail" \in Labels /\ pc[t] \in Linking
      /\ data \in [Nodes -> Values \union {NULL}] /\ head \in NodeOrNull
      /\ pos[head] <= pos[head]
  BY <1>1, Facts DEF Labels, Linking
<1>9. Ends(n, pos)'
  BY <1>1, <1>3 DEF LineInv, Ends
<1>10. fresh' \subseteq fresh /\ \A a \in Nodes \ fresh : data'[a] = data[a]
  BY <1>1
<1> QED
  BY <1>1, <1>3, <1>4, <1>6, <1>7, <1>8, <1>9, <1>10, SameLine

LEMMA DequeueHelpKeeps ==
  ASSUME NEW n, NEW pos, LineInv(n, pos), NEW t \in Threads, DequeueHelp(t)
  PROVE  LineInv(n, pos)'
<1>1. /\ pc[t] = "d_help" /\ UNCHANGED <<head, next, data, fresh, answer, reg>>
      /\ tail' = IF tail = reg[t].t THEN reg[t].next ELSE tail
  BY DEF DequeueHelp, Help
<1>2. /\ Local(t, pos) /\ tail # NULL /\ reg[t] \in Regs /\ reg[t].next \in NodeOrNull
      /\ pos[reg[t].next] = pos[reg[t].t] + 1
  BY <1>1, Facts DEF Local, Begun, Dequeues, Starting, Regs
<1>3. /\ tail' \in NodeOrNull /\ tail' # NULL /\ head # NULL
      /\ pos[head] <= pos[tail'] /\ n - 1 <= pos[tail'] /\ pos[tail] <= pos[tail']
  BY <1>1, <1>2, TailSwaps
<1>4. pc' = [pc EXCEPT ![t] = "d_head"] /\ reg' = [reg EXCEPT ![t] = reg[t]]
  BY <1>1, Facts DEF DequeueHelp, Help, Goto
<1>5. pc'[t] = "d_head" /\ reg'[t] = reg[t]
  BY <1>1, <1>4, Facts
<1>6. Local(t, pos)'
  BY <1>3, <1>5
  DEF Local, Begun, Carries, Enqueues, Dequeues, Starting, Linking, Behind, Leaving
<1>7. "d_head" \in Labels \ Linking
  BY DEF Labels, Linking
<1> QED
  BY <1>1, <1>2, <1>3, <1>4, <1>6, <1>7, TailMoves

(* The swap at the end of an enqueue: if the tail is still the one read    *)
(* first, it has also been the one read again, behind which the node is.   *)
LEMMA EnqueueSwingKeeps ==
  ASSUME NEW n, NEW pos, LineInv(n, pos), NEW t \in Threads, EnqueueSwing(t)
  PROVE  LineInv(n, pos)'
<1>1. /\ pc[t] = "e_swing" /\ UNCHANGED <<head, next, data, fresh, answer>>
      /\ tail' = IF tail = reg[t].t THEN reg[t].new ELSE tail
  BY DEF EnqueueSwing
<1>2. /\ Local(t, pos) /\ tail # NULL /\ reg[t] \in Regs /\ reg[t].new \in NodeOrNull
      /\ reg[t].t \in NodeOrNull /\ reg[t].last \in NodeOrNull
      /\ pos[reg[t].t] <= pos[reg[t].last] /\ pos[reg[t].last] <= pos[tail]
      /\ pos[reg[t].new] = pos[reg[t].last] + 1
  BY <1>1, Facts DEF Local, Begun, Enqueues, Starting, Regs
<1>3. tail = reg[t].t => pos[reg[t].new] = pos[reg[t].t] + 1
  <2>1. pos[reg[t].t] \in Nat /\ pos[reg[t].last] \in Nat
    BY <1>2, Facts
  <2> QED
    BY <1>2, <2>1
<1>4. /\ tail' \in NodeOrNull /\ tail' # NULL /\ head # NULL
      /\ pos[head] <= pos[tail'] /\ n - 1 <= pos[tail'] /\ pos[tail] <= pos[tail']
  BY <1>1, <1>2, <1>3, TailSwaps
<1>5. pc' = [pc EXCEPT ![t] = "idle"] /\ reg' = [reg EXCEPT ![t] = NoReg]
  BY DEF EnqueueSwing, Return, Goto
<1>6. pc'[t] = "idle"
  BY <1>5, Facts
<1>7. Local(t, pos)'
  BY <1>6 DEF Local, Begun, Carries, Enqueues, Dequeues, Starting, Linking, Behind, Leaving
<1>8. "idle" \in Labels \ Linking /\ NoReg \in Regs
  BY DEF Labels, Linking, NoReg, Regs, NodeOrNull
<1> QED
  BY <1>1, <1>4, <1>5, <1>7, <1>8, TailMoves

LEMMA EnqueueNodeKeeps ==
  ASSUME NEW n, NEW pos, LineInv(n, pos), NEW t \in Threads, EnqueueNode(t)
  PROVE  LineInv(n, pos)'
<1>1. PICK a \in fresh : a = NewNode
  BY NewNodeIsFresh DEF EnqueueNode
<1>2. /\ pc[t] = "e_node" /\ fresh' = fresh \ {a}
      /\ data' = [data EXCEPT ![a] = reg[t].value]
      /\ reg' = [reg EXCEPT ![t].new = a]
      /\ UNCHANGED <<head, tail, next, answer>>
  BY <1>1 DEF EnqueueNode
<1>3. PICK r : r = [reg[t] EXCEPT !.new = a]
  OBVIOUS
<1>4. /\ reg[t].value \in Values /\ tail # NULL /\ a \in Nodes /\ a \in NodeOrNull
      /\ pos[a] = 0
  <2>1. Begun(t, pos)
    BY Facts DEF Local
  <2>2. a \in Nodes /\ pos[a] = 0
    BY DEF LineInv, QueueType
  <2> QED
    BY <1>2, <2>1, <2>2 DEF Begun, Starting, NodeOrNull
<1>5. r \in Regs /\ r.new = a /\ r.value = reg[t].value
  BY <1>3, <1>4, Facts DEF Regs
<1>6. reg' = [reg EXCEPT ![t] = r] /\ pc' = [pc EXCEPT ![t] = "e_tail"]
  BY <1>2, <1>3, Facts DEF Regs, EnqueueNode, Goto
<1>7. pc'[t] = "e_tail" /\ reg'[t] = r
  BY <1>6, Facts
<1>8. /\ data' \in [Nodes -> Values \union {NULL}] /\ data'[a] = reg[t].value
      /\ \A b \in Nodes \ fresh : data'[b] = data[b]
  BY <1>2, <1>4, Facts
<1>9. Local(t, pos)'
  BY <1>2, <1>4, <1>5, <1>7, <1>8
  DEF Local, Begun, Carries, Enqueues, Dequeues, Starting, Linking, Behind, Leaving
<1>10. "e_tail" \in Labels /\ fresh' \subseteq fresh
  BY <1>2 DEF Labels, Linking
<1>11. /\ head \in NodeOrNull /\ tail \in NodeOrNull
       /\ pos[head] <= pos[head] /\ pos[tail] <= pos[tail]
  BY Facts
<1>12. Ends(n, pos)'
  BY <1>2 DEF LineInv, Ends
<1> QED
  BY <1>2, <1>5, <1>6, <1>8, <1>9, <1>10, <1>11, <1>12, SameLine

(* The link is made at the end of the line, or not at all.                 *)
LEMMA EnqueueLinkKeeps ==
  ASSUME NEW n, NEW pos, LineInv(n, pos), NEW t \in Threads, EnqueueLink(t)
  PROVE  QueueInv'
<1>1. pc[t] = "e_link" /\ UNCHANGED <<head, tail, data, fresh, answer, reg>>
  BY DEF EnqueueLink
<1>2. PICK a : a = reg[t].new
  OBVIOUS
<1>3. PICK b : b = reg[t].last
  OBVIOUS
<1>4. /\ Local(t, pos) /\ tail # NULL /\ reg[t] \in Regs
      /\ a \in Nodes \ fresh /\ pos[a] = 0 /\ data[a] = reg[t].value
      /\ b \in NodeOrNull /\ reg[t].t \in NodeOrNull
      /\ pos[reg[t].t] # 0 /\ pos[reg[t].t] <= pos[b] /\ pos[b] <= pos[tail]
  BY <1>1, <1>2, <1>3, Facts
  DEF Local, Begun, Carries, Enqueues, Starting, Linking, Behind, Regs
<1>5. n \in Nat /\ pos[tail] \in 0 .. n /\ pos[b] \in 1 .. n
  <2>1. pos[reg[t].t] \in Nat /\ pos[b] \in 0 .. n /\ pos[tail] \in 0 .. n /\ n \in Nat
    BY <1>4, Facts
  <2> QED
    BY <1>4, <2>1
<1>6. b \in Nodes /\ (next[b] = NULL <=> pos[b] = n)
  BY <1>4, <1>5, LinkLeadsOn
<1>7. CASE next[b] # NULL
  <2>1. Goto(t, "e_tail") /\ next' = next
    BY <1>3, <1>7 DEF EnqueueLink
  <2>2. pc'[t] = "e_tail" /\ reg' = reg
    BY <1>1, <2>1, Facts DEF Goto
  <2>3. Local(t, pos)'
    BY <1>1, <1>4, <2>2
    DEF Local, Begun, Carries, Enqueues, Dequeues, Starting, Linking, Behind, Leaving
  <2>4. "e_tail" \in Labels /\ pc[t] \in Linking /\ UNCHANGED <<queueVars, reg>>
    BY <1>1, <2>1 DEF Labels, Linking, queueVars
  <2>5. LineInv(n, pos)'
    BY <2>1, <2>3, <2>4, GotoKeeps
  <2> QED
    BY <2>5 DEF QueueInv
<1>8. CASE next[b] = NULL
  <2>1. Goto(t, "e_swing") /\ next' = [next EXCEPT ![b] = a]
    BY <1>2, <1>3, <1>8 DEF EnqueueLink
  <2>2. PICK after : after = [pos EXCEPT ![a] = n + 1]
    OBVIOUS
  <2>3. pos[b] = n /\ n # 0 /\ pos[tail] = n
    BY <1>4, <1>5, <1>6, <1>8
  <2>4. InLine(n, pos, next)
    BY DEF LineInv
  <2>5. a # b /\ next[a] = NULL /\ a \in NodeOrNull
    BY <1>4, <2>3, <2>4 DEF InLine, NodeOrNull
  <2>6. next' \in [Nodes -> NodeOrNull] /\ next'[b] = a
        /\ \A c \in Nodes : c # b => next'[c] = next[c]
    BY <1>6, <2>1, <2>5, Facts
  <2>7. \A c \in Nodes : pos[c] = n => c = b
    BY <1>6, <2>3, <2>4 DEF InLine
  <2>8. InLine(n + 1, after, next')
    <3>1. \A c \in Nodes : next'[c] = IF pos[c] = n /\ n # 0 THEN a ELSE next[c]
      BY <2>3, <2>6, <2>7
    <3>2. a \in Nodes /\ pos[a] = 0
      BY <1>4
    <3>3. next' \in [Nodes -> NodeOrNull]
      BY <2>6
    <3> QED
      BY <2>2, <2>4, <3>1, <3>2, <3>3, LineGrows
  <2>9. after[a] = n + 1 /\ \A c \in NodeOrNull : c # a => after[c] = pos[c]
    <3>1. pos \in [NodeOrNull -> 0 .. n]
      BY <2>4 DEF InLine
    <3> QED
      BY <2>2, <2>5, <3>1
  <2>10. \A c \in NodeOrNull : pos[c] # 0 => after[c] = pos[c]
    BY <1>4, <2>9
  <2>11. /\ head # NULL /\ head \in NodeOrNull /\ tail \in NodeOrNull
         /\ pos[head] # 0 /\ pos[head] <= pos[tail]
         /\ after[head] = pos[head] /\ after[tail] = pos[tail]
    <3>1. head # NULL /\ pos[head] # 0 /\ pos[head] <= pos[tail]
      BY <1>4 DEF LineInv, Ends
    <3> QED
      BY <2>3, <2>10, <3>1, Facts
  <2>12. Ends(n + 1, after)'
    <3>1. (n + 1) - 1 <= after[tail]
      BY <1>5, <2>3, <2>11
    <3> QED
      BY <1>1, <1>4, <2>11, <3>1 DEF Ends
  <2>13. QueueType'
    <3>1. "e_swing" \in Labels
      BY DEF Labels, Behind
    <3> QED
      BY <1>1, <2>1, <3>1 DEF LineInv, QueueType, Goto
  <2>14. /\ pc'[t] = "e_swing" /\ reg' = reg
         /\ \A u \in Threads \ {t} : pc'[u] = pc[u]
    BY <1>1, <2>1, Facts DEF Goto
  <2>15. Local(t, after)'
    <3>1. after[reg[t].t] = pos[reg[t].t] /\ after[b] = pos[b]
      BY <1>4, <1>6, <2>3, <2>10
    <3>2. /\ after[reg[t].t] # 0 /\ after[reg[t].t] <= after[b] /\ after[b] <= after[tail]
          /\ after[reg[t].t] <= after[tail]
      <4>1. pos[reg[t].t] \in Nat
        BY <1>4, Facts
      <4> QED
        BY <1>4, <1>5, <2>11, <3>1, <4>1
    <3>3. after[a] = after[b] + 1
      BY <2>3, <2>9, <3>1
    <3> QED
      BY <1>1, <1>2, <1>3, <1>4, <2>14, <3>2, <3>3
      DEF Local, Begun, Carries, Enqueues, Dequeues, Starting, Linking, Behind, Leaving
  <2>16. ASSUME NEW u \in Threads \ {t} PROVE Local(u, after)'
    <3>1. pc[u] \in Linking => after[reg[u].new] = 0
      <4> SUFFICES ASSUME pc[u] \in Linking PROVE after[reg[u].new] = 0
        OBVIOUS
      <4>1. reg[u].new \in Nodes /\ pos[reg[u].new] = 0
        BY DEF LineInv, Local, Carries
      <4>2. pc[t] \in Linking
        BY <1>1 DEF Linking
      <4>3. reg[u].new # a
        BY <1>2, <4>2 DEF LineInv, Apart
      <4> QED
        BY <2>9, <4>1, <4>3 DEF NodeOrNull
    <3>2. \A c \in Nodes : pos[c] # 0 => after[c] = pos[c]
      BY <2>10 DEF NodeOrNull
    <3>3. pos[head] <= after[head'] /\ pos[tail] <= after[tail'] /\ head' # NULL /\ tail' # NULL
      <4>1. pos[head] \in Nat /\ pos[tail] \in Nat
        BY <2>11, Facts
      <4> QED
        BY <1>1, <1>4, <2>11, <4>1
    <3>4. pc'[u] = pc[u] /\ reg'[u] = reg[u] /\ head' \in NodeOrNull /\ tail' \in NodeOrNull
      BY <1>1, <2>11, <2>14
    <3>5. fresh' \subseteq fresh /\ \A c \in Nodes \ fresh : data'[c] = data[c]
      BY <1>1
    <3> QED
      BY <2>8, <3>1, <3>2, <3>3, <3>4, <3>5, OthersKnow
  <2>17. \A u \in Threads : Local(u, after)'
    BY <2>15, <2>16
  <2>18. Apart'
    <3>1. Apart /\ pc'[t] \notin Linking
      BY <2>14 DEF LineInv, Linking
    <3> QED
      BY <2>14, <3>1 DEF Apart
  <2>19. \A c \in fresh' : after[c] = 0
    BY <1>1, <1>4, <2>9 DEF LineInv, QueueType, NodeOrNull
  <2>20. LineInv(n + 1, after)'
    BY <2>8, <2>12, <2>13, <2>17, <2>18, <2>19 DEF LineInv
  <2> QED
    BY <2>20 DEF QueueInv
<1> QED
  BY <1>7, <1>8

(* The head moves to the node behind it, which the tail has reached.       *)
LEMMA DequeueCasKeeps ==
  ASSUME NEW n, NEW pos, LineInv(n, pos), NEW t \in Threads, DequeueCas(t)
  PROVE  LineInv(n, pos)'
<1>1. pc[t] = "d_cas" /\ UNCHANGED <<tail, next, data, fresh>>
  BY DEF DequeueCas
<1>2. /\ Local(t, pos) /\ tail # NULL
      /\ reg[t].h \in NodeOrNull /\ reg[t].t \in NodeOrNull /\ reg[t].next \in NodeOrNull
      /\ pos[reg[t].h] # 0 /\ pos[reg[t].h] <= pos[reg[t].t] /\ pos[reg[t].t] <= pos[tail]
      /\ reg[t].h # reg[t].t /\ pos[reg[t].next] = pos[reg[t].h] + 1
  BY <1>1, Facts DEF Local, Begun, Dequeues, Starting, Leaving, Regs
<1>3. CASE head # reg[t].h
  <2>1. Goto(t, "d_head") /\ UNCHANGED <<head, reg>>
    BY <1>3 DEF DequeueCas
  <2>2. pc'[t] = "d_head" /\ reg' = reg
    BY <1>1, <2>1, Facts DEF Goto
  <2>3. Local(t, pos)'
    BY <1>1, <1>2, <2>2
    DEF Local, Begun, Carries, Enqueues, Dequeues, Starting, Linking, Behind, Leaving
  <2>4. "d_head" \in Labels /\ "d_head" \notin Linking /\ UNCHANGED <<queueVars, reg>>
    BY <1>1, <2>1 DEF Labels, Linking, queueVars
  <2> QED
    BY <2>1, <2>3, <2>4, GotoKeeps
<1>4. CASE head = reg[t].h
  <2>1. head' = reg[t].next /\ Return(t)
    BY <1>4 DEF DequeueCas
  <2>2. pc' = [pc EXCEPT ![t] = "idle"] /\ reg' = [reg EXCEPT ![t] = NoReg]
    BY <2>1 DEF Return, Goto
  <2>3. pc'[t] = "idle"
    BY <2>2, Facts
  <2>4. Local(t, pos)'
    BY <2>3 DEF Local, Begun, Carries, Enqueues, Dequeues, Starting, Linking, Behind, Leaving
  <2>5. /\ "idle" \in Labels /\ "idle" \notin Linking /\ NoReg \in Regs
    BY DEF Labels, Linking, NoReg, Regs, NodeOrNull
  <2>6. /\ pos[reg[t].h] \in Nat /\ pos[reg[t].t] \in Nat /\ pos[tail] \in Nat
        /\ pos[reg[t].next] \in Nat /\ pos[NULL] = 0 /\ tail \in NodeOrNull
        /\ reg[t].h \in Nodes
    BY <1>2, Facts
  <2>7. pos[reg[t].t] # pos[reg[t].h]
    <3>1. reg[t].t \in Nodes
      <4>1. pos[reg[t].t] # 0
        BY <1>2, <2>6
      <4> QED
        BY <1>2, <4>1, Facts
    <3> QED
      BY <1>2, <2>6, <3>1 DEF LineInv, InLine
  <2>8. /\ head' # NULL /\ pos[head] <= pos[head'] /\ pos[head'] <= pos[tail]
        /\ pos[head'] # 0 /\ head # NULL
    BY <1>2, <1>4, <2>1, <2>6, <2>7
  <2>9. Ends(n, pos)'
    BY <1>1, <1>2, <2>8 DEF LineInv, Ends
  <2>10. /\ data' \in [Nodes -> Values \union {NULL}] /\ head' \in NodeOrNull
         /\ tail' \in NodeOrNull /\ fresh' \subseteq fresh /\ next' = next
         /\ \A a \in Nodes \ fresh : data'[a] = data[a]
         /\ tail # NULL => tail' # NULL /\ pos[tail] <= pos[tail']
    BY <1>1, <1>2, <2>1, <2>6, Facts
  <2> QED
    BY <2>2, <2>4, <2>5, <2>8, <2>9, <2>10, SameLine
<1> QED
  BY <1>3, <1>4

-----------------------------------------------------------------------------
LEMMA QueueStep == QueueInv /\ [Next]_vars => QueueInv'
<1> SUFFICES ASSUME QueueInv, [Next]_vars PROVE QueueInv'
  OBVIOUS
<1>1. PICK n, pos : LineInv(n, pos)
  BY DEF QueueInv
<1>2. CASE UNCHANGED vars
  <2>1. QueueType'
    BY <1>1, <1>2 DEF LineInv, QueueType, vars, queueVars
  <2>2. InLine(n, pos, next') /\ Ends(n, pos)' /\ \A a \in fresh' : pos[a] = 0
    BY <1>1, <1>2 DEF LineInv, Ends, vars, queueVars
  <2>3. \A t \in Threads : Local(t, pos)'
    BY <1>1, <1>2
    DEF LineInv, Local, Begun, Carries, Enqueues, Dequeues, vars, queueVars
  <2>4. Apart'
    BY <1>1, <1>2 DEF LineInv, Apart, vars
  <2>5. LineInv(n, pos)'
    BY <2>1, <2>2, <2>3, <2>4 DEF LineInv
  <2> QED
    BY <2>5 DEF QueueInv
<1>3. ASSUME NEW t \in Threads, Call(t) \/ Step(t) PROVE QueueInv'
  <2>1. CASE InitHead(t)
    BY <1>1, <2>1, InitHeadKeeps
  <2>2. CASE EnqueueLink(t)
    BY <1>1, <2>2, EnqueueLinkKeeps
  <2>3. CASE GiveUp(t)
    <3>1. Return(t) /\ UNCHANGED queueVars
      BY <2>3 DEF GiveUp
    <3>2. LineInv(n, pos)'
      BY <1>1, <3>1, ReturnKeeps
    <3> QED
      BY <3>2 DEF QueueInv
  <2>4. CASE \/ Call(t) \/ InitTailRead(t) \/ InitTailCas(t) \/ Ready(t)
             \/ EnqueueNode(t) \/ EnqueueTail(t) \/ EnqueueConfirm(t) \/ EnqueueNext(t)
             \/ EnqueueCheck(t) \/ EnqueueHelp(t) \/ EnqueueReload(t) \/ EnqueueSwing(t)
    <3>1. LineInv(n, pos)'
      BY <1>1, <2>4, CallKeeps, InitTailReadKeeps, InitTailCasKeeps, ReadyKeeps,
         EnqueueNodeKeeps, EnqueueTailKeeps, EnqueueConfirmKeeps, EnqueueNextKeeps,
         EnqueueCheckKeeps, EnqueueHelpKeeps, EnqueueReloadKeeps, EnqueueSwingKeeps
    <3> QED
      BY <3>1 DEF QueueInv
  <2>5. CASE \/ DequeueHead(t) \/ DequeueConfirm(t) \/ DequeueTail(t) \/ DequeueNext(t)
             \/ DequeueCheck(t) \/ DequeueHelp(t) \/ DequeueData(t) \/ DequeueCas(t)
    <3>1. LineInv(n, pos)'
      BY <1>1, <2>5, DequeueHeadKeeps, DequeueConfirmKeeps, DequeueTailKeeps,
         DequeueNextKeeps, DequeueCheckKeeps, DequeueHelpKeeps, DequeueDataKeeps,
         DequeueCasKeeps
    <3> QED
      BY <3>1 DEF QueueInv
  <2> QED
    BY <1>3, <2>1, <2>2, <2>3, <2>4, <2>5 DEF Step
<1> QED
  BY <1>2, <1>3 DEF Next

LEMMA QueueInvariant == Spec => []QueueInv
BY QueueInit, QueueStep, PTL DEF Spec

(* Once there is a tail, it is on the chain of the head and at most one    *)
(* node before its end, however enqueues and dequeues interleave: QueueEnqueue *)
(* links through a tail read a second time, and its swing may fail.        *)
THEOREM TailStaysNearEnd == Spec => []TailNearEnd
<1>1. QueueInv => TailNearEnd
  <2> SUFFICES ASSUME QueueInv, tail # NULL
               PROVE  \E i \in 1 .. Len(ChainFrom(head)) :
                        ChainFrom(head)[i] = tail /\ i >= Len(ChainFrom(head)) - 1
    BY DEF TailNearEnd
  <2>1. PICK n, pos : LineInv(n, pos)
    BY DEF QueueInv
  <2>2. InLine(n, pos, next) /\ n \in Nat
    BY <2>1 DEF LineInv, InLine
  <2>3. /\ head \in Nodes /\ tail \in Nodes /\ pos[head] # 0
        /\ pos[head] <= pos[tail] /\ n - 1 <= pos[tail]
        /\ pos[head] \in 0 .. n /\ pos[tail] \in 0 .. n
    <3>1. head # NULL /\ pos[head] # 0 /\ pos[head] <= pos[tail] /\ n - 1 <= pos[tail]
      BY <2>1 DEF LineInv, Ends
    <3>2. head \in Nodes /\ tail \in Nodes
      BY <2>1, <3>1 DEF LineInv, QueueType, NodeOrNull
    <3> QED
      BY <2>2, <3>1, <3>2 DEF InLine, NodeOrNull
  <2>4. PICK s : s = ChainFrom(head)
    OBVIOUS
  <2>5. PICK k : k = (n - pos[head]) + 1
    OBVIOUS
  <2>6. Len(s) = k /\ \A i \in 1 .. k : s[i] = Nth(pos, (pos[head] + i) - 1)
    BY <2>2, <2>3, <2>4, <2>5, ChainIsLine, ChainFromIs
  <2>7. PICK i : i = (pos[tail] - pos[head]) + 1
    OBVIOUS
  <2>8. i \in 1 .. k /\ (pos[head] + i) - 1 = pos[tail] /\ i >= k - 1 /\ pos[tail] # 0
    BY <2>2, <2>3, <2>5, <2>7
  <2>9. s[i] = tail
    BY <2>2, <2>3, <2>6, <2>8, NthIs
  <2> QED
    BY <2>4, <2>6, <2>8, <2>9
<1> QED
  BY <1>1, QueueInvariant, PTL

-----------------------------------------------------------------------------
(* What waits, and that it is a sequence.                                  *)
LEMMA WaitingLine ==
  ASSUME NEW n, NEW pos, LineInv(n, pos)
  PROVE  /\ head = NULL => Waiting = <<>>
         /\ head # NULL =>
              /\ head \in Nodes /\ pos[head] \in 1 .. n /\ n \in Nat
              /\ Waiting = [i \in 1 .. n - pos[head] |-> data[Nth(pos, pos[head] + i)]]
<1>1. head = NULL => Waiting = <<>>
  BY DEF Waiting
<1>2. head # NULL => head \in Nodes /\ pos[head] \in 1 .. n /\ n \in Nat
  BY DEF LineInv, Ends, QueueType, InLine, NodeOrNull
<1>3. head # NULL => Waiting = [i \in 1 .. n - pos[head] |-> data[Nth(pos, pos[head] + i)]]
  BY <1>2, WaitingIs, WaitingIsLine DEF LineInv
<1> QED
  BY <1>1, <1>2, <1>3

LEMMA WaitingLineNext ==
  ASSUME NEW n, NEW pos, InLine(n, pos, next'), head' \in Nodes, pos[head'] # 0
  PROVE  Waiting' = [i \in 1 .. n - pos[head'] |-> data'[Nth(pos, pos[head'] + i)]]
BY WaitingIsNext, WaitingIsLine

(* A step that leaves head, links and the data of linked nodes alone.      *)
LEMMA WaitingStays ==
  ASSUME NEW n, NEW pos, LineInv(n, pos), head' = head, next' = next,
         \A a \in Nodes \ fresh : data'[a] = data[a]
  PROVE  Waiting' = Waiting
<1>1. CASE head = NULL
  BY <1>1 DEF Waiting
<1>2. CASE head # NULL
  <2>1. /\ head \in Nodes /\ pos[head] \in 1 .. n /\ n \in Nat
        /\ Waiting = [i \in 1 .. n - pos[head] |-> data[Nth(pos, pos[head] + i)]]
    BY <1>2, WaitingLine
  <2>2. InLine(n, pos, next)
    BY DEF LineInv
  <2>3. Waiting' = [i \in 1 .. n - pos[head] |-> data'[Nth(pos, pos[head] + i)]]
    BY <2>1, <2>2, WaitingLineNext
  <2>4. ASSUME NEW i \in 1 .. n - pos[head]
        PROVE  data'[Nth(pos, pos[head] + i)] = data[Nth(pos, pos[head] + i)]
    <3>1. pos[head] + i \in 1 .. n /\ pos[head] + i # 0
      BY <2>1
    <3>2. /\ Nth(pos, pos[head] + i) \in Nodes
          /\ pos[Nth(pos, pos[head] + i)] = pos[head] + i
      BY <2>2, <3>1, NthIs
    <3>3. Nth(pos, pos[head] + i) \notin fresh
      BY <3>1, <3>2 DEF LineInv
    <3> QED
      BY <3>2, <3>3
  <2> QED
    BY <2>1, <2>3, <2>4
<1> QED
  BY <1>1, <1>2

(* The first node leads to nothing: it has no data, and nothing waits.     *)
LEMMA HeadAppears ==
  ASSUME NEW n, NEW pos, LineInv(n, pos), NEW t \in Threads, InitHead(t)
  PROVE  Waiting' = Waiting
<1>1. CASE UNCHANGED <<head, fresh>>
  BY <1>1, WaitingStays DEF InitHead
<1>2. CASE head = NULL /\ fresh # {} /\ head' = NewNode
  <2>1. n = 0 /\ NewNode \in Nodes /\ next' = next
    BY <1>2, NewNodeIsFresh DEF LineInv, Ends, QueueType, InitHead
  <2>2. InLine(n, pos, next) /\ n = 0 /\ pos[head'] = 0 /\ next[head'] = NULL
    <3>1. pos[NewNode] = 0
      BY <1>2, NewNodeIsFresh DEF LineInv
    <3> QED
      BY <1>2, <2>1, <3>1 DEF LineInv, InLine
  <2>3. ChainOn(next, NULL) = <<>>
    <3> DEFINE g == CHOOSE f : Unfolds(f, next)
    <3>1. Unfolds(g, next)
      BY <2>2, ChainUnfolds
    <3> HIDE DEF g
    <3>2. g[NULL] = <<>>
      BY <3>1 DEF Unfolds
    <3> QED
      BY <3>2 DEF ChainOn, g
  <2>4. Len(<<>>) = 0 /\ 1 .. 0 = {}
    OBVIOUS
  <2>5. Waiting' = <<>>
    <3>1. head' # NULL
      BY <1>2, <2>1, NullAssumption
    <3>2. Waiting' = [i \in 1 .. 0 |-> data'[ChainOn(next', next'[head'])[i]]]
      BY <2>1, <2>2, <2>3, <2>4, <3>1, WaitingIsNext DEF WaitingOn
    <3> QED
      BY <2>4, <3>2
  <2> QED
    BY <1>2, <2>5 DEF Waiting
<1> QED
  BY <1>1, <1>2 DEF InitHead

(* The link of an enqueue is where its value is put.                       *)
LEMMA LinkPuts ==
  ASSUME NEW n, NEW pos, LineInv(n, pos), NEW t \in Threads, EnqueueLink(t)
  PROVE  \/ Waiting' = Waiting /\ answer' = answer
         \/ \E v \in Values : Fifo!Put(v)
<1>1. /\ pc[t] = "e_link" /\ head' = head /\ data' = data /\ answer' = answer
      /\ fresh' = fresh /\ tail' = tail
  BY DEF EnqueueLink
<1>2. PICK a : a = reg[t].new
  OBVIOUS
<1>3. PICK b : b = reg[t].last
  OBVIOUS
<1>4. CASE next' = next
  BY <1>1, <1>4, WaitingStays
<1>5. CASE next[b] = NULL /\ next' = [next EXCEPT ![b] = a]
  <2>1. /\ tail # NULL /\ a \in Nodes \ fresh /\ pos[a] = 0 /\ data[a] \in Values
        /\ b \in NodeOrNull /\ reg[t].t \in NodeOrNull
        /\ pos[reg[t].t] # 0 /\ pos[reg[t].t] <= pos[b]
    BY <1>1, <1>2, <1>3, Facts
    DEF Local, Begun, Carries, Enqueues, Starting, Linking, Behind, Regs
  <2>2. n \in Nat /\ pos[b] \in 0 .. n /\ pos[b] # 0
    <3>1. pos[reg[t].t] \in Nat /\ pos[b] \in 0 .. n /\ n \in Nat
      BY <2>1, Facts
    <3> QED
      BY <2>1, <3>1
  <2>3. b \in Nodes /\ pos[b] = n
    BY <1>5, <2>1, <2>2, LinkLeadsOn
  <2>4. InLine(n, pos, next)
    BY DEF LineInv
  <2>5. PICK after : after = [pos EXCEPT ![a] = n + 1]
    OBVIOUS
  <2>6. /\ next' \in [Nodes -> NodeOrNull]
        /\ \A c \in Nodes : next'[c] = IF pos[c] = n /\ n # 0 THEN a ELSE next[c]
    <3>1. \A c \in Nodes : pos[c] = n => c = b
      BY <2>2, <2>3, <2>4 DEF InLine
    <3> QED
      BY <1>5, <2>1, <2>2, <2>3, <3>1, Facts DEF NodeOrNull
  <2>7. InLine(n + 1, after, next')
    <3>1. a \in Nodes /\ pos[a] = 0
      BY <2>1
    <3>2. next' \in [Nodes -> NodeOrNull]
      BY <2>6
    <3>3. \A c \in Nodes : next'[c] = IF pos[c] = n /\ n # 0 THEN a ELSE next[c]
      BY <2>6
    <3> QED
      BY <2>4, <2>5, <3>1, <3>2, <3>3, LineGrows
  <2>8. after[a] = n + 1 /\ \A c \in NodeOrNull : c # a => after[c] = pos[c]
    <3>1. pos \in [NodeOrNull -> 0 .. n] /\ a \in NodeOrNull
      BY <2>1, <2>4 DEF InLine, NodeOrNull
    <3> QED
      BY <2>5, <3>1
  <2>9. head # NULL
    BY <2>1 DEF LineInv, Ends
  <2>10. PICK h : h = pos[head]
    OBVIOUS
  <2>11. /\ head \in Nodes /\ h \in 1 .. n
         /\ Waiting = [i \in 1 .. n - h |-> data[Nth(pos, h + i)]]
    BY <2>9, <2>10, WaitingLine
  <2>12. after[head] = h /\ h # 0
    BY <2>1, <2>8, <2>10, <2>11 DEF NodeOrNull
  <2>13. Waiting' = [i \in 1 .. (n + 1) - h |-> data[Nth(after, h + i)]]
    BY <1>1, <2>7, <2>11, <2>12, WaitingLineNext
  <2>14. PICK k \in Nat : k = n - h
    BY <2>2, <2>11
  <2>15. (n + 1) - h = k + 1 /\ h + (k + 1) = n + 1
    BY <2>2, <2>11, <2>14
  <2>16. ASSUME NEW i \in 1 .. k PROVE Nth(after, h + i) = Nth(pos, h + i)
    <3>1. h + i \in 1 .. n /\ h + i # n + 1 /\ h + i # 0
      BY <2>2, <2>11, <2>14
    <3>2. PICK c : c = Nth(pos, h + i)
      OBVIOUS
    <3>3. c \in Nodes /\ pos[c] = h + i
      BY <2>4, <3>1, <3>2, NthIs
    <3>4. c # a
      BY <2>1, <3>1, <3>3
    <3>5. after[c] = h + i
      BY <2>8, <3>3, <3>4 DEF NodeOrNull
    <3> QED
      BY <2>7, <3>1, <3>2, <3>3, <3>5, NthIs
  <2>17. Nth(after, h + (k + 1)) = a
    <3>1. after[a] # 0 /\ a \in Nodes
      BY <2>1, <2>2, <2>8
    <3> QED
      BY <2>7, <2>8, <2>15, <3>1, NthIs
  <2>18. PICK D : D = Values \union {NULL}
    OBVIOUS
  <2>19. /\ Waiting \in Seq(D) /\ Len(Waiting) = k
         /\ \A i \in 1 .. k : Waiting[i] = data[Nth(pos, h + i)]
    <3>1. ASSUME NEW i \in 1 .. k PROVE data[Nth(pos, h + i)] \in D
      <4>1. h + i \in 1 .. n
        BY <2>2, <2>11, <2>14
      <4>2. Nth(pos, h + i) \in Nodes
        BY <2>4, <4>1, NthIs
      <4> QED
        BY <2>18, <4>2, Facts
    <3>2. Waiting = [i \in 1 .. k |-> data[Nth(pos, h + i)]]
      BY <2>11, <2>14
    <3>3. Waiting \in [1 .. k -> D]
      BY <3>1, <3>2
    <3> QED
      BY <2>14, <3>2, <3>3
  <2>20. /\ Waiting' \in Seq(D) /\ Len(Waiting') = k + 1
         /\ \A i \in 1 .. k : Waiting'[i] = Waiting[i]
         /\ Waiting'[k + 1] = data[a]
    <3>1. Waiting' = [i \in 1 .. k + 1 |-> data[Nth(after, h + i)]]
      BY <2>13, <2>15
    <3>2. \A i \in 1 .. k + 1 : i \in 1 .. k \/ i = k + 1
      OBVIOUS
    <3>3. \A i \in 1 .. k : i \in 1 .. k + 1
      OBVIOUS
    <3>4. k + 1 \in 1 .. k + 1 /\ k + 1 \in Nat
      OBVIOUS
    <3>5. \A i \in 1 .. k : Waiting'[i] = Waiting[i]
      BY <2>16, <2>19, <3>1, <3>3
    <3>6. Waiting'[k + 1] = data[a]
      BY <2>17, <3>1, <3>4
    <3>7. \A i \in 1 .. k : Waiting[i] \in D
      BY <2>19
    <3>8. Waiting' \in [1 .. k + 1 -> D]
      <4>1. \A i \in 1 .. k + 1 : data[Nth(after, h + i)] \in D
        <5> SUFFICES ASSUME NEW i \in 1 .. k + 1 PROVE data[Nth(after, h + i)] \in D
          OBVIOUS
        <5>1. CASE i \in 1 .. k
          BY <2>16, <2>19, <3>7, <5>1
        <5>2. CASE i = k + 1
          BY <2>1, <2>17, <2>18, <5>2
        <5> QED
          BY <3>2, <5>1, <5>2
      <4> QED
        BY <3>1, <4>1
    <3>9. Waiting' \in Seq(D) /\ Len(Waiting') = k + 1
      BY <3>1, <3>4, <3>8
    <3> QED
      BY <3>5, <3>6, <3>9
  <2>21. Waiting' = Append(Waiting, data[a])
    <3>1. data[a] \in D
      BY <2>1, <2>18
    <3>2. PICK s : s = Append(Waiting, data[a])
      OBVIOUS
    <3>3. /\ s \in Seq(D) /\ Len(s) = k + 1
          /\ \A i \in 1 .. k : s[i] = Waiting[i]
          /\ s[k + 1] = data[a]
      BY <2>19, <3>1, <3>2, AppendProperties
    <3>4. \A i \in 1 .. k + 1 : i \in 1 .. k \/ i = k + 1
      OBVIOUS
    <3>5. \A i \in 1 .. k + 1 : Waiting'[i] = s[i]
      BY <2>20, <3>3, <3>4
    <3>6. Waiting' = s
      BY <2>20, <3>3, <3>5, SeqEqual
    <3> QED
      BY <3>2, <3>6
  <2> QED
    BY <1>1, <2>1, <2>21 DEF Fifo!Put
<1>6. \/ next' = next
      \/ next[b] = NULL /\ next' = [next EXCEPT ![b] = a]
  BY <1>2, <1>3 DEF EnqueueLink
<1> QED
  BY <1>4, <1>5, <1>6

(* A link that is missing is read from the last node, which is the head.   *)
LEMMA MissFindsNothing ==
  ASSUME NEW n, NEW pos, LineInv(n, pos), NEW t \in Threads, DequeueNext(t)
  PROVE  \/ Waiting' = Waiting /\ answer' = answer
         \/ Fifo!TakeNothing(t)
<1>1. /\ pc[t] = "d_next" /\ head' = head /\ next' = next /\ data' = data
      /\ answer' = IF next[reg[t].h] = NULL THEN [answer EXCEPT ![t] = NULL] ELSE answer
  BY DEF DequeueNext, queueVars
<1>2. Waiting' = Waiting
  BY <1>1, WaitingStays
<1>3. CASE next[reg[t].h] = NULL
  <2>1. reg[t].h \in NodeOrNull /\ pos[reg[t].h] # 0 /\ pos[reg[t].h] <= pos[head]
    BY <1>1, Facts DEF Local, Dequeues, Leaving, Regs
  <2>2. pos[reg[t].h] = n
    BY <1>3, <2>1, LinkLeadsOn
  <2>3. n \in Nat /\ pos[head] \in 0 .. n /\ n # 0
    BY <2>1, <2>2, Facts
  <2>4. pos[head] = n /\ head # NULL
    BY <2>1, <2>2, <2>3, Facts
  <2>5. Waiting = [i \in 1 .. n - n |-> data[Nth(pos, n + i)]]
    BY <2>4, WaitingLine
  <2>6. 1 .. n - n = {}
    BY <2>3
  <2>7. Waiting = <<>>
    BY <2>5, <2>6
  <2> QED
    BY <1>1, <1>2, <1>3, <2>7 DEF Fifo!TakeNothing
<1> QED
  BY <1>1, <1>2, <1>3

(* The swap of the head takes the oldest value.                            *)
LEMMA SwapTakes ==
  ASSUME NEW n, NEW pos, LineInv(n, pos), NEW t \in Threads, DequeueCas(t)
  PROVE  \/ Waiting' = Waiting /\ answer' = answer
         \/ Fifo!Take(t)
<1>1. pc[t] = "d_cas" /\ next' = next /\ data' = data /\ fresh' = fresh
  BY DEF DequeueCas
<1>2. CASE head' = head /\ answer' = answer
  BY <1>1, <1>2, WaitingStays
<1>3. CASE /\ head = reg[t].h /\ head' = reg[t].next
           /\ answer' = [answer EXCEPT ![t] = reg[t].value]
  <2>1. /\ pos[head] # 0 /\ pos[head'] = pos[head] + 1 /\ reg[t].value = data[head']
        /\ head' \in NodeOrNull
    BY <1>1, <1>3, Facts DEF Local, Dequeues, Leaving, Regs
  <2>2. PICK h : h = pos[head]
    OBVIOUS
  <2>3. head # NULL /\ head' \in Nodes /\ pos[head'] \in 0 .. n
    BY <2>1, Facts
  <2>4. /\ h \in 1 .. n /\ n \in Nat
        /\ Waiting = [i \in 1 .. n - h |-> data[Nth(pos, h + i)]]
    BY <2>2, <2>3, WaitingLine
  <2>5. InLine(n, pos, next) /\ InLine(n, pos, next')
    BY <1>1 DEF LineInv
  <2>6. PICK k : k = (n - h) - 1
    OBVIOUS
  <2>7. /\ k \in Nat /\ n - h = k + 1 /\ n - (h + 1) = k /\ pos[head'] = h + 1
        /\ pos[head'] # 0
    BY <2>1, <2>2, <2>3, <2>4, <2>6
  <2>8. Waiting' = [i \in 1 .. k |-> data[Nth(pos, (h + 1) + i)]]
    BY <1>1, <2>3, <2>5, <2>7, WaitingLineNext
  <2>9. PICK D : D = Values \union {NULL}
    OBVIOUS
  <2>10. \A i \in 1 .. k + 1 : data[Nth(pos, h + i)] \in D
    <3> SUFFICES ASSUME NEW i \in 1 .. k + 1 PROVE data[Nth(pos, h + i)] \in D
      OBVIOUS
    <3>1. h + i \in 1 .. n
      BY <2>4, <2>7
    <3>2. Nth(pos, h + i) \in Nodes
      BY <2>5, <3>1, NthIs
    <3> QED
      BY <2>9, <3>2, Facts
  <2>11. /\ Waiting \in Seq(D) /\ Len(Waiting) = k + 1
         /\ \A i \in 1 .. k + 1 : Waiting[i] = data[Nth(pos, h + i)]
    <3>1. Waiting = [i \in 1 .. k + 1 |-> data[Nth(pos, h + i)]]
      BY <2>4, <2>7
    <3>2. Waiting \in [1 .. k + 1 -> D] /\ k + 1 \in Nat
      BY <2>7, <2>10, <3>1
    <3> QED
      BY <3>1, <3>2
  <2>12. Waiting[1] = data[head']
    <3>1. 1 \in 1 .. k + 1
      BY <2>7
    <3>2. Nth(pos, h + 1) = head'
      BY <2>3, <2>5, <2>7, NthIs
    <3> QED
      BY <2>11, <3>1, <3>2
  <2>13. \A i \in 1 .. k : /\ i + 1 \in 1 .. k + 1 /\ (h + 1) + i = h + (i + 1)
    BY <2>4, <2>7
  <2>14. /\ Waiting' \in Seq(D) /\ Len(Waiting') = k
         /\ \A i \in 1 .. k : Waiting'[i] = Waiting[i + 1]
    <3>1. \A i \in 1 .. k : data[Nth(pos, (h + 1) + i)] \in D
      BY <2>10, <2>13
    <3>2. Waiting' \in [1 .. k -> D]
      BY <2>8, <3>1
    <3>3. Waiting' \in Seq(D) /\ Len(Waiting') = k
      BY <2>7, <2>8, <3>2
    <3> QED
      BY <2>8, <2>11, <2>13, <3>3
  <2>15. Waiting # <<>>
    <3>1. Len(<<>>) = 0
      OBVIOUS
    <3> QED
      BY <2>7, <2>11, <3>1
  <2>16. Waiting' = Tail(Waiting)
    <3>1. PICK s : s = Tail(Waiting)
      OBVIOUS
    <3>2. s \in Seq(D) /\ Len(s) = (k + 1) - 1 /\ \A i \in 1 .. Len(s) : s[i] = Waiting[i + 1]
      BY <2>11, <2>15, <3>1, HeadTailProperties
    <3>3. Len(s) = k
      BY <2>7, <3>2
    <3>4. Waiting' = s
      BY <2>14, <3>2, <3>3, SeqEqual
    <3> QED
      BY <3>1, <3>4
  <2>17. Head(Waiting) = reg[t].value
    <3>1. Head(Waiting) = Waiting[1]
      BY <2>11, <2>15
    <3> QED
      BY <2>1, <2>12, <3>1
  <2> QED
    BY <1>3, <2>15, <2>16, <2>17 DEF Fifo!Take
<1>4. \/ head' = head /\ answer' = answer
      \/ /\ head = reg[t].h /\ head' = reg[t].next
         /\ answer' = [answer EXCEPT ![t] = reg[t].value]
  BY DEF DequeueCas
<1> QED
  BY <1>2, <1>3, <1>4

(* Every step of the queue is one of the FIFO, or changes nothing there.   *)
LEMMA FifoStep == QueueInv /\ [Next]_vars => [Fifo!Next]_(Fifo!vars)
<1> SUFFICES ASSUME QueueInv, [Next]_vars PROVE [Fifo!Next]_(Fifo!vars)
  OBVIOUS
<1>1. PICK n, pos : LineInv(n, pos)
  BY DEF QueueInv
<1>2. ASSUME Waiting' = Waiting, answer' = answer PROVE [Fifo!Next]_(Fifo!vars)
  BY <1>2 DEF Fifo!vars
<1>3. CASE UNCHANGED vars
  <2>1. Waiting' = Waiting /\ answer' = answer
    BY <1>1, <1>3, WaitingStays DEF vars, queueVars
  <2> QED
    BY <1>2, <2>1
<1>4. ASSUME NEW t \in Threads, Call(t) \/ Step(t) PROVE [Fifo!Next]_(Fifo!vars)
  <2>1. CASE InitHead(t)
    <3>1. Waiting' = Waiting /\ answer' = answer
      BY <1>1, <2>1, HeadAppears DEF InitHead
    <3> QED
      BY <1>2, <3>1
  <2>2. CASE EnqueueLink(t)
    BY <1>1, <1>2, <2>2, LinkPuts DEF Fifo!Next
  <2>3. CASE DequeueNext(t)
    BY <1>1, <1>2, <2>3, MissFindsNothing DEF Fifo!Next
  <2>4. CASE DequeueCas(t)
    BY <1>1, <1>2, <2>4, SwapTakes DEF Fifo!Next
  <2>5. CASE EnqueueNode(t)
    <3>1. /\ head' = head /\ next' = next /\ answer' = answer
          /\ \A a \in Nodes \ fresh : data'[a] = data[a]
      BY <2>5, <1>1, NewNodeIsFresh DEF EnqueueNode, LineInv, QueueType
    <3>2. Waiting' = Waiting
      BY <1>1, <3>1, WaitingStays
    <3> QED
      BY <1>2, <3>1, <3>2
  <2>6. CASE \/ Call(t) \/ InitTailRead(t) \/ InitTailCas(t) \/ GiveUp(t) \/ Ready(t)
             \/ EnqueueTail(t) \/ EnqueueConfirm(t) \/ EnqueueNext(t) \/ EnqueueCheck(t)
             \/ EnqueueHelp(t) \/ EnqueueReload(t) \/ EnqueueSwing(t)
             \/ DequeueHead(t) \/ DequeueConfirm(t) \/ DequeueTail(t)
             \/ DequeueCheck(t) \/ DequeueHelp(t) \/ DequeueData(t)
    <3>1. head' = head /\ next' = next /\ data' = data /\ answer' = answer
      BY <2>6 DEF Call, InitTailRead, InitTailCas, GiveUp, Ready, EnqueueTail,
         EnqueueConfirm, EnqueueNext, EnqueueCheck, EnqueueHelp, EnqueueReload,
         EnqueueSwing, DequeueHead, DequeueConfirm, DequeueTail, DequeueCheck,
         DequeueHelp, DequeueData, Help, queueVars
    <3>2. Waiting' = Waiting
      BY <1>1, <3>1, WaitingStays
    <3> QED
      BY <1>2, <3>1, <3>2
  <2> QED
    BY <1>4, <2>1, <2>2, <2>3, <2>4, <2>5, <2>6 DEF Step
<1> QED
  BY <1>3, <1>4 DEF Next

(* The queue implements the FIFO: an enqueue takes effect at its link, a   *)
(* dequeue at its swap of the head, or where it reads that nothing follows *)
(* it, however many threads use the queue.                                 *)
THEOREM QueueImplementsFifo == Spec => ImplementsFifo
<1>1. Init => Fifo!Init
  BY DEF Init, Fifo!Init, Waiting
<1> QED
  BY <1>1, FifoStep, QueueInvariant, PTL DEF Spec, ImplementsFifo, Fifo!Spec
=============================================================================

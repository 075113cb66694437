-------------------------- MODULE FileStreamProofs --------------------------
(***************************************************************************)
(* Proofs about FileStream: for every size of the ring buffer and every    *)
(* number of bytes, the buffer holds the bytes that entered last in their  *)
(* order, and what leaves the stream leaves it in order, nothing twice.    *)
(***************************************************************************)
EXTENDS FileStream, SequenceTheorems, TLAPS

Places == 0 .. RingSize - 1

StreamTypes ==
  /\ ring \in [Places -> Nat] /\ head \in Places /\ tail \in Places
  /\ entered \in Nat /\ left \in Nat /\ out \in Seq(Int)
  /\ error \in BOOLEAN /\ short \in BOOLEAN

(* All a step does to the stream is in these variables.                    *)
StreamInv == StreamTypes /\ BytesInOrder

(* The place some steps ahead of another is found without wrapping twice.  *)
LEMMA Ahead ==
  ASSUME NEW x \in 0 .. 2 * RingSize - 1
  PROVE  x % RingSize = (IF x < RingSize THEN x ELSE x - RingSize)
<1>1. RingSize \in Nat /\ RingSize > 1
  BY StreamAssumption
<1>2. \A y \in 0 .. RingSize - 1 : y % RingSize = y
  BY <1>1, SMT
<1>3. \A y \in RingSize .. 2 * RingSize - 1 : y % RingSize = y - RingSize
  BY <1>1, SMT
<1> QED
  BY <1>1, <1>2, <1>3

LEMMA NextPlace ==
  ASSUME NEW i \in Places
  PROVE  Successor(i) = (IF i = RingSize - 1 THEN 0 ELSE i + 1) /\ Successor(i) \in Places
<1>1. i + 1 \in 0 .. 2 * RingSize - 1
  BY StreamAssumption DEF Places
<1> QED
  BY <1>1, Ahead, StreamAssumption DEF Successor, Places

LEMMA CountType ==
  ASSUME StreamTypes
  PROVE  Count \in Places /\ (Count = 0 <=> Empty) /\ (Full <=> Count = RingSize - 1)
<1>1. RingSize \in Nat /\ RingSize > 1 /\ head \in Places /\ tail \in Places
  BY StreamAssumption DEF StreamTypes
<1> QED
  BY <1>1, NextPlace DEF Count, Places, Empty, Full

(* The k-th byte waiting, without the modulus.                             *)
Place(k) == IF tail + k < RingSize THEN tail + k ELSE tail + k - RingSize

LEMMA WaitingPlaces ==
  ASSUME StreamTypes
  PROVE  /\ \A i \in Places : (tail + i) % RingSize = Place(i)
         /\ WaitingInOrder <=> \A i \in 0 .. Count - 1 : ring[Place(i)] = entered - Count + 1 + i
<1>1. RingSize \in Nat /\ RingSize > 1 /\ tail \in Places
  BY StreamAssumption DEF StreamTypes
<1>2. \A i \in Places : (tail + i) % RingSize = Place(i)
  BY <1>1, Ahead DEF Place, Places
<1>3. 0 .. Count - 1 \subseteq Places
  BY <1>1, CountType DEF Places
<1> QED
  BY <1>2, <1>3 DEF WaitingInOrder

(* What overflow() hands over is what waits, in its order.                 *)
LEMMA FlushedInOrder ==
  ASSUME StreamTypes, WaitingInOrder
  PROVE  /\ Flushed \in Seq(Nat) /\ Len(Flushed) = Count
         /\ \A k \in 1 .. Count : Flushed[k] = entered - Count + k
<1>1. RingSize \in Nat /\ RingSize > 1 /\ head \in Places /\ tail \in Places
      /\ ring \in [Places -> Nat] /\ Count \in Places
  BY StreamAssumption, CountType DEF StreamTypes
<1>2. \A i \in 0 .. Count - 1 : ring[Place(i)] = entered - Count + 1 + i
  BY WaitingPlaces
<1>3. ASSUME NEW from \in Nat, NEW n \in Nat, from + n <= RingSize
      PROVE  /\ Segment(from, n) \in Seq(Nat) /\ Len(Segment(from, n)) = n
             /\ \A k \in 1 .. n : Segment(from, n)[k] = ring[from + k - 1]
  <2>1. \A k \in 1 .. n : from + k - 1 \in Places
    BY <1>1, <1>3 DEF Places
  <2>2. Segment(from, n) \in [1 .. n -> Nat]
    BY <1>1, <2>1 DEF Segment
  <2>3. Segment(from, n) \in Seq(Nat)
    BY <2>2, SeqDef
  <2>4. DOMAIN Segment(from, n) = 1 .. n
    BY <2>2
  <2>5. Len(Segment(from, n)) = n
    BY <2>3, <2>4, LenProperties
  <2> QED
    BY <2>3, <2>5 DEF Segment
<1>4. CASE head < tail
  <2> DEFINE first == Segment(tail, RingSize - tail)
             second == Segment(0, head)
  <2>1. /\ first \in Seq(Nat) /\ Len(first) = RingSize - tail
        /\ \A k \in 1 .. RingSize - tail : first[k] = ring[tail + k - 1]
    <3>1. tail \in Nat /\ RingSize - tail \in Nat /\ tail + (RingSize - tail) <= RingSize
      BY <1>1 DEF Places
    <3> QED
      BY <1>3, <3>1
  <2>2. /\ second \in Seq(Nat) /\ Len(second) = head
        /\ \A k \in 1 .. head : second[k] = ring[k - 1]
    <3>1. head \in Nat /\ head <= RingSize /\ 0 + head = head /\ \A k \in 1 .. head : 0 + k - 1 = k - 1
      BY <1>1 DEF Places
    <3> QED
      BY <1>3, <3>1
  <2>3. Flushed = first \o second /\ Count = RingSize + head - tail
    BY <1>4 DEF Flushed, Count
  <2> HIDE DEF first, second
  <2>4. /\ Flushed \in Seq(Nat) /\ Len(Flushed) = Count
        /\ \A k \in 1 .. Count :
             Flushed[k] = IF k <= RingSize - tail THEN first[k] ELSE second[k - (RingSize - tail)]
    <3>1. RingSize - tail + head = Count
      BY <1>1, <2>3 DEF Places
    <3>2. /\ first \o second \in Seq(Nat)
          /\ Len(first \o second) = Len(first) + Len(second)
          /\ \A i \in 1 .. Len(first) + Len(second) :
               (first \o second)[i] = IF i <= Len(first) THEN first[i] ELSE second[i - Len(first)]
      BY <2>1, <2>2, ConcatProperties
    <3> QED
      BY <2>1, <2>2, <2>3, <3>1, <3>2
  <2>5. ASSUME NEW k \in 1 .. Count PROVE Flushed[k] = ring[Place(k - 1)]
    <3>1. CASE k <= RingSize - tail
      <4>1. k \in 1 .. RingSize - tail /\ Place(k - 1) = tail + k - 1
        BY <1>1, <3>1 DEF Place, Places
      <4> QED
        BY <2>1, <2>4, <4>1
    <3>2. CASE ~(k <= RingSize - tail)
      <4>1. /\ k - (RingSize - tail) \in 1 .. head
            /\ Place(k - 1) = k - (RingSize - tail) - 1
        BY <1>1, <2>3, <3>2 DEF Place, Places
      <4> QED
        BY <2>2, <2>4, <3>2, <4>1
    <3> QED
      BY <3>1, <3>2
  <2>6. \A k \in 1 .. Count : k - 1 \in 0 .. Count - 1
    BY <1>1 DEF Places
  <2>7. \A k \in 1 .. Count : entered - Count + 1 + (k - 1) = entered - Count + k
    BY <1>1 DEF Places, StreamTypes
  <2> QED
    BY <1>2, <2>4, <2>5, <2>6, <2>7
<1>5. CASE ~(head < tail)
  <2>1. Flushed = Segment(tail, head - tail) /\ Count = head - tail
    BY <1>5 DEF Flushed, Count
  <2>2. /\ Flushed \in Seq(Nat) /\ Len(Flushed) = Count
        /\ \A k \in 1 .. Count : Flushed[k] = ring[tail + k - 1]
    <3>1. /\ tail \in Nat /\ head - tail \in Nat /\ tail + (head - tail) <= RingSize
      BY <1>1, <1>5 DEF Places
    <3> QED
      BY <1>3, <2>1, <3>1
  <2>3. \A k \in 1 .. Count : k - 1 \in 0 .. Count - 1 /\ Place(k - 1) = tail + k - 1
    BY <1>1, <1>5, <2>1 DEF Place, Places
  <2>4. \A k \in 1 .. Count : entered - Count + 1 + (k - 1) = entered - Count + k
    BY <1>1 DEF Places, StreamTypes
  <2> QED
    BY <1>2, <2>2, <2>3, <2>4
<1> QED
  BY <1>4, <1>5
(* A write, short or not, continues the order of what has left the stream. *)
LEMMA WrittenInOrder ==
  ASSUME StreamInv, Written
  PROVE  /\ out' \in Seq(Int) /\ short' \in BOOLEAN
         /\ \A i, j \in DOMAIN out' : i < j => out'[i] < out'[j]
         /\ \A i \in DOMAIN out' : out'[i] <= entered
         /\ ~short' => Len(out') = entered
<1> USE DEF StreamInv, StreamTypes
<1>1. /\ Count \in Nat /\ entered \in Nat /\ out \in Seq(Int) /\ Len(out) \in Nat
      /\ DOMAIN out = 1 .. Len(out) /\ \A i \in 1 .. Len(out) : out[i] \in Int
  BY CountType, StreamAssumption, LenProperties, ElementOfSeq DEF Places
<1>2. /\ Flushed \in Seq(Nat) /\ Len(Flushed) = Count
      /\ \A k \in 1 .. Count : Flushed[k] = entered - Count + k
  BY FlushedInOrder DEF BytesInOrder
<1>3. PICK n \in 0 .. Count : /\ out' = out \o SubSeq(Flushed, 1, n)
                              /\ short' = (short \/ n < Count)
  BY <1>2 DEF Written
<1> DEFINE piece == SubSeq(Flushed, 1, n)
<1>4. /\ piece \in Seq(Int) /\ Len(piece) = n
      /\ \A k \in 1 .. n : piece[k] = entered - Count + k
  BY <1>1, <1>2
<1> HIDE DEF piece
<1>5. /\ out' \in Seq(Int) /\ Len(out') = Len(out) + n /\ DOMAIN out' = 1 .. Len(out) + n
      /\ \A i \in 1 .. Len(out) + n :
           out'[i] = IF i <= Len(out) THEN out[i] ELSE piece[i - Len(out)]
  BY <1>1, <1>3, <1>4, ConcatProperties, LenProperties DEF piece
<1>6. \A i \in 1 .. Len(out) : out'[i] = out[i]
  BY <1>1, <1>5
<1>7. ASSUME NEW i \in 1 .. Len(out) + n, i > Len(out)
      PROVE  out'[i] = entered - Count + (i - Len(out))
  <2>1. i - Len(out) \in 1 .. n /\ ~(i <= Len(out))
    BY <1>1, <1>7
  <2> QED
    BY <1>4, <1>5, <2>1
<1>8. \A i \in 1 .. Len(out) : out[i] <= entered - Count
  BY <1>1 DEF BytesInOrder
<1>9. ASSUME NEW i \in 1 .. Len(out) + n, NEW j \in 1 .. Len(out) + n, i < j
      PROVE  out'[i] < out'[j]
  <2>1. CASE j <= Len(out)
    <3>1. i \in 1 .. Len(out) /\ j \in 1 .. Len(out)
      BY <1>1, <1>9, <2>1
    <3> QED
      BY <1>1, <1>6, <1>9, <3>1 DEF BytesInOrder
  <2>2. CASE i <= Len(out) /\ j > Len(out)
    <3>1. i \in 1 .. Len(out)
      BY <1>1, <2>2
    <3>2. out'[i] <= entered - Count /\ out'[i] \in Int
      BY <1>1, <1>6, <1>8, <3>1
    <3>3. out'[j] = entered - Count + (j - Len(out))
      BY <1>7, <2>2
    <3> QED
      BY <1>1, <2>2, <3>2, <3>3
  <2>3. CASE i > Len(out)
    <3>1. j > Len(out)
      BY <1>1, <1>9, <2>3
    <3>2. /\ out'[i] = entered - Count + (i - Len(out))
          /\ out'[j] = entered - Count + (j - Len(out))
      BY <1>7, <2>3, <3>1
    <3>3. i \in Int /\ j \in Int /\ n \in Int
      BY <1>1
    <3> HIDE DEF StreamInv, StreamTypes
    <3> QED
      BY <1>1, <1>9, <3>2, <3>3
  <2> QED
    BY <1>1, <2>1, <2>2, <2>3
<1>10. ASSUME NEW i \in 1 .. Len(out) + n PROVE out'[i] <= entered
  <2>1. CASE i <= Len(out)
    <3>1. i \in 1 .. Len(out)
      BY <1>1, <2>1
    <3> QED
      BY <1>1, <1>6, <1>8, <3>1
  <2>2. CASE i > Len(out)
    BY <1>1, <1>7, <2>2
  <2> QED
    BY <1>1, <2>1, <2>2
<1>11. ASSUME ~short' PROVE Len(out') = entered
  <2>1. ~short /\ ~(n < Count)
    BY <1>3, <1>11, Zenon
  <2>2. n = Count /\ Len(out) = entered - Count
    BY <1>1, <2>1 DEF BytesInOrder
  <2> QED
    BY <1>1, <1>5, <2>2
<1>12. short' \in BOOLEAN
  BY <1>3
<1> QED
  BY <1>5, <1>9, <1>10, <1>11, <1>12
-----------------------------------------------------------------------------
(* Steps that move no byte: the conversions, the failures of the source    *)
(* and of the memory for a wrapped buffer, what begins or ends a call.     *)
LEMMA NoByteMoves ==
  ASSUME StreamInv, UNCHANGED <<mode, ring, head, tail, entered, out, short>>,
         left' \in Nat, error' = error \/ error' = TRUE,
         doing' = "closed" => doing = "closed" \/ ~CanWrite \/ error'
  PROVE  StreamInv'
<1>1. UNCHANGED <<Count, CanWrite, WaitingInOrder>>
  BY DEF Count, CanWrite, WaitingInOrder
<1>2. error' => error'
  OBVIOUS
<1>3. doing' = "closed" /\ CanWrite /\ ~error' => doing = "closed" /\ ~error
  OBVIOUS
<1>4. StreamTypes'
  BY DEF StreamInv, StreamTypes
<1> QED
  BY <1>1, <1>3, <1>4 DEF StreamInv, BytesInOrder

(* A byte is stored behind those that wait, ...                            *)
LEMMA StoreKeepsOrder ==
  ASSUME StreamInv, ~Full, Store(head, Successor(head)), UNCHANGED <<tail, out, short>>,
         UNCHANGED <<left, error>>, doing' # "closed"
  PROVE  StreamInv'
<1>1. /\ RingSize \in Nat /\ RingSize > 1 /\ head \in Places /\ tail \in Places
      /\ entered \in Nat /\ Count \in Places /\ Count # RingSize - 1
  BY StreamAssumption, CountType DEF StreamInv, StreamTypes
<1>2. StreamTypes'
  BY <1>1, NextPlace DEF StreamInv, StreamTypes, Store
<1>3. Count' = Count + 1 /\ entered' = entered + 1 /\ entered' - Count' = entered - Count
  BY <1>1, NextPlace DEF Count, Store, Places
<1>4. Place(Count) = head /\ \A i \in 0 .. Count - 1 : Place(i) # head /\ Place(i) \in Places
  BY <1>1 DEF Place, Places, Count
<1>5. \A i \in 0 .. Count - 1 : ring[Place(i)] = entered - Count + 1 + i
  BY WaitingPlaces DEF StreamInv, BytesInOrder
<1>6. ring' = [ring EXCEPT ![head] = entered + 1] /\ ring \in [Places -> Nat]
  BY DEF Store, StreamInv, StreamTypes
<1>7. ASSUME NEW i \in 0 .. Count' - 1
      PROVE  ring'[Place(i)] = entered' - Count' + 1 + i
  <2>1. CASE i = Count
    BY <1>1, <1>3, <1>4, <1>6, <2>1
  <2>2. CASE i # Count
    <3>1. i \in 0 .. Count - 1
      BY <1>1, <1>3, <2>2 DEF Places
    <3> QED
      BY <1>3, <1>4, <1>5, <1>6, <3>1
  <2> QED
    BY <2>1, <2>2
<1>8. \A i \in 0 .. Count' - 1 : (tail' + i) % RingSize = Place(i)
  BY <1>1, <1>3, WaitingPlaces DEF StreamInv, Places
<1>9. WaitingInOrder'
  BY <1>7, <1>8 DEF WaitingInOrder
<1> QED
  BY <1>2, <1>3, <1>9 DEF StreamInv, BytesInOrder

(* ... into an emptied buffer when it was full, ...                        *)
LEMMA FlushKeepsOrder ==
  ASSUME StreamInv, Written, tail' = 0, UNCHANGED <<left, error>>,
         \/ Store(0, Successor(0)) /\ doing' # "closed"
         \/ head' = 0 /\ UNCHANGED <<ring, entered>>
  PROVE  StreamInv'
<1>1. RingSize \in Nat /\ RingSize > 1 /\ entered \in Nat /\ 0 \in Places
  BY StreamAssumption DEF StreamInv, StreamTypes, Places
<1>2. CASE Store(0, Successor(0)) /\ doing' # "closed"
  <2>1. /\ ring' = [ring EXCEPT ![0] = entered + 1] /\ head' = 1 /\ entered' = entered + 1
    BY <1>1, <1>2, NextPlace DEF Store
  <2>2. Count' = 1 /\ entered' - Count' = entered
    BY <1>1, <2>1 DEF Count
  <2>3. StreamTypes'
    BY <1>1, <2>1, WrittenInOrder DEF StreamInv, StreamTypes, Places
  <2>4. WaitingInOrder'
    <3>1. (0 + 0) % RingSize = 0
      BY <1>1, Ahead
    <3>2. ring'[0] = entered + 1
      BY <1>1, <2>1 DEF StreamInv, StreamTypes
    <3> QED
      BY <1>1, <2>1, <2>2, <3>1, <3>2 DEF WaitingInOrder
  <2> QED
    BY <1>2, <2>2, <2>3, <2>4, WrittenInOrder DEF StreamInv, BytesInOrder
<1>3. CASE head' = 0 /\ UNCHANGED <<ring, entered>>
  <2>1. Count' = 0 /\ entered' - Count' = entered
    BY <1>1, <1>3 DEF Count
  <2>2. StreamTypes'
    BY <1>1, <1>3, WrittenInOrder DEF StreamInv, StreamTypes
  <2>3. WaitingInOrder'
    BY <2>1 DEF WaitingInOrder
  <2> QED
    BY <1>3, <2>1, <2>2, <2>3, WrittenInOrder DEF StreamInv, BytesInOrder
<1> QED
  BY <1>2, <1>3

(* ... and a read puts its bytes into an empty one.                        *)
LEMMA RefillKeepsOrder == StreamInv /\ Underflow => StreamInv'
<1> SUFFICES ASSUME StreamInv, Underflow PROVE StreamInv'
  OBVIOUS
<1>1. /\ RingSize \in Nat /\ RingSize > 1 /\ entered \in Nat /\ left \in Nat /\ Count = 0
      /\ ring \in [Places -> Nat]
  BY StreamAssumption, CountType DEF StreamInv, StreamTypes, Underflow
<1>2. PICK n \in 0 .. LesserOf(ReadSize, left) :
        /\ ring' = [i \in DOMAIN ring |-> IF i < n THEN entered + i + 1 ELSE ring[i]]
        /\ head' = n % RingSize /\ tail' = 0
        /\ entered' = entered + n /\ left' = left - n
  BY DEF Underflow
<1>3. n \in Nat /\ n <= RingSize - 1 /\ n <= left /\ n % RingSize = n
  <2>1. n \in Nat /\ n <= RingSize - 1 /\ n <= left
    BY <1>1 DEF LesserOf, ReadSize
  <2> QED
    BY <1>1, <2>1, Ahead
<1>4. Count' = n /\ entered' - Count' = entered
  BY <1>1, <1>2, <1>3 DEF Count
<1>5. ring' \in [Places -> Nat]
  BY <1>1, <1>2 DEF Places
<1>6. StreamTypes'
  BY <1>1, <1>2, <1>3, <1>5 DEF StreamInv, StreamTypes, Places, Underflow
<1>7. ASSUME NEW i \in 0 .. n - 1
      PROVE  ring'[(0 + i) % RingSize] = entered + 1 + i
  <2>1. i \in Places /\ i < n /\ i \in 0 .. 2 * RingSize - 1 /\ i < RingSize /\ 0 + i = i
    BY <1>1, <1>3 DEF Places
  <2>2. i % RingSize = i
    BY <2>1, Ahead
  <2>3. ring'[i] = entered + i + 1
    BY <1>1, <1>2, <2>1
  <2> QED
    BY <1>1, <2>1, <2>2, <2>3
<1>8. WaitingInOrder'
  BY <1>1, <1>2, <1>3, <1>4, <1>7 DEF WaitingInOrder
<1>9. UNCHANGED <<out, short>> /\ doing' # "closed" /\ entered - Count = entered
  BY <1>1 DEF Underflow
<1> QED
  BY <1>4, <1>6, <1>8, <1>9 DEF StreamInv, BytesInOrder

(* A pop takes the byte that entered first of those that wait.             *)
LEMMA PopKeepsOrder == StreamInv /\ PopByte => StreamInv'
<1> SUFFICES ASSUME StreamInv, PopByte PROVE StreamInv'
  OBVIOUS
<1>1. /\ RingSize \in Nat /\ RingSize > 1 /\ head \in Places /\ tail \in Places
      /\ entered \in Nat /\ Count \in Places /\ Count # 0 /\ ring \in [Places -> Nat]
      /\ out \in Seq(Int) /\ Len(out) \in Nat
  BY StreamAssumption, CountType, LenProperties DEF StreamInv, StreamTypes, PopByte
<1>2. /\ out' = Append(out, ring[tail]) /\ tail' = Successor(tail) /\ doing' = "idle"
      /\ UNCHANGED <<ring, head, entered, left, error, short>>
  BY DEF PopByte
<1>3. Count' = Count - 1
  <2>1. tail' = (IF tail = RingSize - 1 THEN 0 ELSE tail + 1) /\ head' = head /\ head # tail
    BY <1>1, <1>2, NextPlace DEF PopByte, Empty
  <2>2. Count' = IF head' < tail' THEN RingSize + head' - tail' ELSE head' - tail'
    BY DEF Count
  <2> QED
    BY <1>1, <2>1, <2>2 DEF Count, Places
<1>4. \A i \in 0 .. Count - 1 : ring[Place(i)] = entered - Count + 1 + i
  BY WaitingPlaces DEF StreamInv, BytesInOrder
<1>5. ring[tail] = entered - Count + 1
  <2>1. 0 \in 0 .. Count - 1 /\ Place(0) = tail
    BY <1>1 DEF Place, Places
  <2>2. ring[Place(0)] = entered - Count + 1 + 0
    BY <1>4, <2>1
  <2> QED
    BY <1>1, <2>1, <2>2 DEF Places
<1>6. ASSUME NEW i \in 0 .. Count - 2
      PROVE  ring[(tail' + i) % RingSize] = entered - (Count - 1) + 1 + i
  <2>1. i + 1 \in 0 .. Count - 1
    BY <1>1 DEF Places
  <2>2. (tail' + i) % RingSize = Place(i + 1)
    <3>1. tail' \in Places /\ tail' = IF tail = RingSize - 1 THEN 0 ELSE tail + 1
      BY <1>1, <1>2, NextPlace
    <3>2. tail' + i \in 0 .. 2 * RingSize - 1 /\ i \in 0 .. RingSize - 2
      BY <1>1, <3>1 DEF Places
    <3> DEFINE x == tail' + i
    <3>3. x \in 0 .. 2 * RingSize - 1
      BY <3>2
    <3> HIDE DEF x
    <3>4. x % RingSize = IF x < RingSize THEN x ELSE x - RingSize
      BY <3>3, Ahead
    <3> QED
      BY <1>1, <3>1, <3>2, <3>4 DEF Place, Places, x
  <2>3. ring[Place(i + 1)] = entered - Count + 1 + (i + 1)
    BY <1>4, <2>1
  <2> QED
    BY <1>1, <2>2, <2>3 DEF Places
<1>7. WaitingInOrder'
  <2>1. \A i \in 0 .. (Count - 1) - 1 : i \in 0 .. Count - 2
    BY <1>1 DEF Places
  <2> QED
    BY <1>2, <1>3, <1>6, <2>1 DEF WaitingInOrder
<1>8. StreamTypes'
  BY <1>1, <1>2, <1>5, NextPlace DEF StreamInv, StreamTypes, Places
<1>9. /\ Len(out') = Len(out) + 1 /\ DOMAIN out' = 1 .. Len(out) + 1 /\ DOMAIN out = 1 .. Len(out)
      /\ out'[Len(out) + 1] = entered - Count + 1
      /\ \A i \in 1 .. Len(out) : out'[i] = out[i] /\ out[i] \in Int /\ out[i] <= entered - Count
  BY <1>1, <1>2, <1>5 DEF StreamInv, BytesInOrder
<1>10. ASSUME NEW i \in DOMAIN out', NEW j \in DOMAIN out', i < j PROVE out'[i] < out'[j]
  <2>1. CASE j = Len(out) + 1
    <3>1. i \in 1 .. Len(out) /\ Count \in Int /\ entered \in Int
      BY <1>1, <1>9, <1>10, <2>1 DEF Places
    <3>2. out'[i] \in Int /\ out'[i] <= entered - Count
      BY <1>9, <3>1
    <3> QED
      BY <1>9, <2>1, <3>1, <3>2
  <2>2. CASE j # Len(out) + 1
    <3>1. i \in DOMAIN out /\ j \in DOMAIN out
      BY <1>1, <1>9, <1>10, <2>2
    <3> QED
      BY <1>9, <1>10, <3>1 DEF StreamInv, BytesInOrder
  <2> QED
    BY <2>1, <2>2
<1>11. ASSUME NEW i \in DOMAIN out' PROVE out'[i] <= entered - (Count - 1)
  <2>1. Count \in Int /\ entered \in Int
    BY <1>1 DEF Places
  <2>2. CASE i = Len(out) + 1
    BY <1>9, <2>1, <2>2
  <2>3. CASE i # Len(out) + 1
    <3>1. i \in 1 .. Len(out)
      BY <1>1, <1>9, <2>3
    <3>2. out'[i] \in Int /\ out'[i] <= entered - Count
      BY <1>9, <3>1
    <3> QED
      BY <2>1, <3>2
  <2> QED
    BY <2>2, <2>3
<1>12. ~short => Len(out') = entered - (Count - 1)
  <2>1. ~short => Len(out) = entered - Count
    BY DEF StreamInv, BytesInOrder
  <2>2. Count \in Int
    BY <1>1 DEF Places
  <2>3. Len(out) = entered - Count => Len(out') = entered - (Count - 1)
    BY <1>1, <1>9, <2>2
  <2> QED
    BY <2>1, <2>3, Zenon
<1> QED
  BY <1>2, <1>3, <1>7, <1>8, <1>10, <1>11, <1>12 DEF StreamInv, BytesInOrder
-----------------------------------------------------------------------------
LEMMA StreamStep == StreamInv /\ [StreamNext]_allVars => StreamInv'
<1> SUFFICES ASSUME StreamInv, [StreamNext]_allVars PROVE StreamInv'
  OBVIOUS
<1> USE DEF streamVars
<1>0. left \in Nat
  BY DEF StreamInv, StreamTypes
<1>1. CASE PutByte
  <2>1. CASE Push /\ UNCHANGED <<left, error>> /\ doing' # "closed"
    BY <2>1, StoreKeepsOrder, FlushKeepsOrder DEF Push
  <2>2. CASE Thrown /\ doing' = "idle" /\ mode' = mode
    BY <1>0, <2>2, NoByteMoves DEF Thrown
  <2>3. CASE NoBlock
    BY <1>0, <2>3, NoByteMoves DEF NoBlock
  <2> QED
    BY <1>1, <2>1, <2>2, <2>3 DEF PutByte
<1>2. CASE Flush \/ Close
  <2>1. CASE Written /\ head' = 0 /\ tail' = 0 /\ UNCHANGED <<ring, entered, left, error>>
    BY <2>1, FlushKeepsOrder
  <2>2. CASE Thrown /\ doing' = doing /\ mode' = mode
    BY <1>0, <2>2, NoByteMoves DEF Thrown
  <2>3. CASE /\ ~CanWrite \/ error
             /\ UNCHANGED <<mode, ring, head, tail, entered, out, left, error, short>>
    BY <1>0, <2>3, NoByteMoves
  <2> QED
    BY <1>2, <2>1, <2>2, <2>3 DEF Flush, Close
<1>3. CASE ReadFails
  BY <1>0, <1>3, NoByteMoves DEF ReadFails, Thrown
<1>4. CASE FlushFails
  BY <1>0, <1>4, NoByteMoves DEF FlushFails, NoBlock
<1>5. CASE \/ PutEnd \/ Put \/ SetPrecision \/ BeginPop \/ CloseFails \/ Format
           \/ UNCHANGED allVars
  <2>1. /\ UNCHANGED <<mode, ring, head, tail, entered, out, left, error, short>>
        /\ doing' = "closed" => doing = "closed"
    BY <1>5 DEF PutEnd, Put, SetPrecision, BeginPop, CloseFails, Format, allVars
  <2> QED
    BY <1>0, <2>1, NoByteMoves
<1> QED
  BY <1>1, <1>2, <1>3, <1>4, <1>5, RefillKeepsOrder, PopKeepsOrder DEF StreamNext, PopGoesOn

(* Bytes leave a stream in the order they came in, none twice, and none is *)
(* missing unless a write was short; and what waits in the buffer are the  *)
(* last that entered, whatever the size of the buffer and however often it *)
(* wraps, is flushed, refilled, or its source fails.                       *)
THEOREM BytesStayInOrder == StreamSpec => []BytesInOrder
<1>1. StreamInit => StreamInv
  <2> SUFFICES ASSUME StreamInit PROVE StreamInv
    OBVIOUS
  <2>1. StreamTypes /\ Count = 0
    BY StreamAssumption DEF StreamInit, StreamTypes, Places, Count
  <2> QED
    BY <2>1 DEF StreamInit, StreamInv, BytesInOrder, WaitingInOrder
<1>2. StreamInv => BytesInOrder
  BY DEF StreamInv
<1> QED
  BY <1>1, <1>2, StreamStep, PTL DEF StreamSpec
=============================================================================

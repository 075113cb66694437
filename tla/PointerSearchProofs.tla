------------------------ MODULE PointerSearchProofs ------------------------
(***************************************************************************)
(* Proofs about PointerSearch: the search is exact in every ascending      *)
(* array, of any length and over any addresses.                            *)
(***************************************************************************)
EXTENDS PointerSearch, TLAPS

(* Whatever equals the value in an ascending array lies between the bounds *)
(* of the search.                                                          *)
Narrowed ==
  Ascending => \A i \in Indices : array[i] = value => left <= i /\ i <= right

(* The bounds are the whole array before the search, have met after it.    *)
BoundsOfPhase ==
  /\ phase = "sort" => left = 0 /\ right = length - 1
  /\ phase = "missing" => left > right

SearchInv ==
  /\ SearchTypeOK
  /\ Narrowed
  /\ BoundsOfPhase
  /\ phase = "found" => Present

(* The addresses are numbers.                                              *)
LEMMA PointersAreNaturals == \A x \in Pointers : x \in Nat
  BY PointersAssumption

(* The array of an initial state is wholly inside the first bounds.        *)
LEMMA SearchBegins == SearchInit => SearchInv
<1> SUFFICES ASSUME SearchInit PROVE SearchInv
  OBVIOUS
<1>1. length \in Nat
  BY PointersAssumption DEF SearchInit
<1>2. SearchTypeOK
  BY <1>1 DEF SearchInit, SearchTypeOK, Arrays, Indices
<1>3. Narrowed
  BY <1>1 DEF SearchInit, Narrowed, Indices
<1> QED
  BY <1>2, <1>3 DEF SearchInv, BoundsOfPhase, SearchInit

(* Sorting moves elements about and leaves the bounds alone.               *)
LEMMA SortStep == SearchInv /\ Sort => SearchInv'
<1> SUFFICES ASSUME SearchInv, Sort PROVE SearchInv'
  OBVIOUS
<1>1. length \in Nat /\ array \in [Indices -> Pointers]
  BY DEF SearchInv, SearchTypeOK
<1>2. PICK q \in [0 .. length - 1 -> 0 .. length - 1] :
        array' = [i \in 0 .. length - 1 |-> array[q[i]]]
  BY DEF Sort, Rearranged
<1>3. SearchTypeOK'
  BY <1>1, <1>2 DEF SearchInv, SearchTypeOK, Sort, Indices
<1>4. left = 0 /\ right = length - 1
  BY DEF SearchInv, BoundsOfPhase, Sort
<1>5. Narrowed'
  BY <1>1, <1>4 DEF Narrowed, Sort, Indices
<1> QED
  BY <1>3, <1>5 DEF SearchInv, BoundsOfPhase, Sort

(* The probe lies between the bounds, so inside the array.                 *)
LEMMA ProbeInside ==
  ASSUME SearchTypeOK, left <= right
  PROVE  /\ Middle \in Indices
         /\ left <= Middle /\ Middle <= right
         /\ array[Middle] \in Nat /\ value \in Nat
<1>1. left \in Int /\ right \in Int /\ length \in Nat
  BY DEF SearchTypeOK
<1>2. Middle \in Int /\ left <= Middle /\ Middle <= right
  BY <1>1 DEF Middle
<1>3. Middle \in Indices
  BY <1>1, <1>2 DEF SearchTypeOK, Indices
<1> QED
  BY <1>2, <1>3, PointersAreNaturals DEF SearchTypeOK

(* A probe that is too small rules out itself and everything before it.    *)
LEMMA RightStep == SearchInv /\ GoRight => SearchInv'
<1> SUFFICES ASSUME SearchInv, GoRight PROVE SearchInv'
  OBVIOUS
<1>1. SearchTypeOK /\ left <= right
  BY DEF SearchInv, GoRight
<1>2. /\ Middle \in Indices /\ Middle <= right
      /\ array[Middle] \in Nat /\ value \in Nat
  BY <1>1, ProbeInside
<1>3. SearchTypeOK'
  BY <1>1, <1>2 DEF SearchTypeOK, GoRight, Indices
<1>4. ASSUME Ascending', NEW i \in Indices', (array[i] = value)'
      PROVE  (left <= i /\ i <= right)'
  <2>1. Ascending /\ i \in Indices /\ array[i] = value
    BY <1>4 DEF Ascending, GoRight, Indices
  <2>2. left <= i /\ i <= right
    BY <2>1 DEF SearchInv, Narrowed
  <2>3. ~(i < Middle) /\ i # Middle
    BY <1>2, <2>1 DEF Ascending, GoRight
  <2> QED
    BY <1>1, <1>2, <2>1, <2>2, <2>3 DEF GoRight, Indices, SearchTypeOK
<1> QED
  BY <1>3, <1>4 DEF SearchInv, Narrowed, BoundsOfPhase, GoRight

(* A probe that is too large rules out itself and everything behind it.    *)
LEMMA LeftStep == SearchInv /\ GoLeft => SearchInv'
<1> SUFFICES ASSUME SearchInv, GoLeft PROVE SearchInv'
  OBVIOUS
<1>1. SearchTypeOK /\ left <= right
  BY DEF SearchInv, GoLeft
<1>2. /\ Middle \in Indices /\ left <= Middle /\ Middle <= right
      /\ array[Middle] \in Nat /\ value \in Nat
  BY <1>1, ProbeInside
<1>3. SearchTypeOK'
  BY <1>1, <1>2 DEF SearchTypeOK, GoLeft, Indices
<1>4. ASSUME Ascending', NEW i \in Indices', (array[i] = value)'
      PROVE  (left <= i /\ i <= right)'
  <2>1. Ascending /\ i \in Indices /\ array[i] = value
    BY <1>4 DEF Ascending, GoLeft, Indices
  <2>2. left <= i /\ i <= right
    BY <2>1 DEF SearchInv, Narrowed
  <2>3. ~(Middle < i) /\ i # Middle
    BY <1>2, <2>1 DEF Ascending, GoLeft
  <2> QED
    BY <1>1, <1>2, <2>1, <2>2, <2>3 DEF GoLeft, Indices, SearchTypeOK
<1> QED
  BY <1>3, <1>4 DEF SearchInv, Narrowed, BoundsOfPhase, GoLeft

(* Every step keeps the invariant.                                         *)
LEMMA SearchStep == SearchInv /\ [SearchNext]_searchVars => SearchInv'
<1> SUFFICES ASSUME SearchInv, [SearchNext]_searchVars PROVE SearchInv'
  OBVIOUS
<1>1. CASE Sort
  BY <1>1, SortStep
<1>2. CASE Hit
  <2>1. Middle \in Indices
    BY <1>2, ProbeInside DEF SearchInv, Hit
  <2> QED
    BY <1>2, <2>1 DEF SearchInv, Hit, SearchTypeOK, Narrowed, Ascending, BoundsOfPhase, Present, Indices
<1>3. CASE GoRight
  BY <1>3, RightStep
<1>4. CASE GoLeft
  BY <1>4, LeftStep
<1>5. CASE Miss
  BY <1>5 DEF SearchInv, Miss, SearchTypeOK, Narrowed, Ascending, BoundsOfPhase, Present, Indices
<1>6. CASE UNCHANGED searchVars
  BY <1>6 DEF SearchInv, searchVars, SearchTypeOK, Narrowed, Ascending, BoundsOfPhase, Present, Indices
<1> QED
  BY <1>1, <1>2, <1>3, <1>4, <1>5, <1>6 DEF SearchNext

(* The invariant says what the search promises: bounds that have crossed   *)
(* leave no room for the value.                                            *)
LEMMA SearchInvImplies == SearchInv => SearchExact
<1> SUFFICES ASSUME SearchInv, phase = "missing", Ascending PROVE ~Present
  BY DEF SearchInv, SearchExact
<1> SUFFICES ASSUME NEW i \in Indices, array[i] = value PROVE FALSE
  BY DEF Present
<1>1. left <= i /\ i <= right /\ left > right
  BY DEF SearchInv, Narrowed, BoundsOfPhase
<1> QED
  BY <1>1 DEF SearchInv, SearchTypeOK, Indices

(* pointer_binary_search keeps every index it reads inside the array ...   *)
THEOREM SearchTypeCorrect == SearchSpec => []SearchTypeOK
<1>1. SearchInv => SearchTypeOK
  BY DEF SearchInv
<1> QED
  BY <1>1, SearchBegins, SearchStep, PTL DEF SearchSpec

(* ... and answers 1 exactly for the pointers of an ascending array.       *)
THEOREM SearchIsExact == SearchSpec => []SearchExact
  BY SearchBegins, SearchStep, SearchInvImplies, PTL DEF SearchSpec

(* A round that goes on has moved one bound past the probe.                *)
LEMMA ShrinkStep ==
  ASSUME SearchInv, [SearchNext]_searchVars
  PROVE  [phase = "search" /\ phase' = "search" => right' - left' < right - left]_searchVars
<1> SUFFICES ASSUME SearchNext, phase = "search", phase' = "search"
             PROVE  right' - left' < right - left
  OBVIOUS
<1>1. left \in Int /\ right \in Int
  BY DEF SearchInv, SearchTypeOK
<1>2. CASE GoRight
  <2>1. left <= Middle /\ Middle \in Int
    BY <1>1, <1>2 DEF GoRight, Middle
  <2> QED
    BY <1>1, <1>2, <2>1 DEF GoRight
<1>3. CASE GoLeft
  <2>1. Middle <= right /\ Middle \in Int
    BY <1>1, <1>3 DEF GoLeft, Middle
  <2> QED
    BY <1>1, <1>3, <2>1 DEF GoLeft
<1>4. CASE Sort \/ Hit \/ Miss
  BY <1>4 DEF Sort, Hit, Miss
<1> QED
  BY <1>2, <1>3, <1>4 DEF SearchNext

(* No search of any length lasts longer than its array: each round leaves  *)
(* fewer elements between the bounds.                                      *)
THEOREM SearchAlwaysShrinks == SearchSpec => SearchShrinks
  BY SearchBegins, SearchStep, ShrinkStep, PTL DEF SearchSpec, SearchShrinks

-----------------------------------------------------------------------------
(* Division with a remainder.                                              *)
LEMMA Division ==
  ASSUME NEW n \in Int, NEW m \in Nat \ {0}
  PROVE  /\ n % m \in 0 .. m - 1
         /\ \E q \in Int : n = m * q + (n % m)
<1>1. n = m * (n \div m) + (n % m)
  BY SMT
<1>2. n % m \in 0 .. m - 1 /\ n \div m \in Int
  BY SMT
<1> QED
  BY <1>1, <1>2

(* pointer_compare is the difference, cut to the range of an int: what it  *)
(* answers differs from the difference by a multiple of that range.        *)
LEMMA CompareCuts ==
  ASSUME NEW a \in Pointers, NEW b \in Pointers
  PROVE  /\ Compare(a, b) \in Int
         /\ 2 * Compare(a, b) < IntRange /\ -IntRange <= 2 * Compare(a, b)
         /\ \E m \in Int : a - b = Compare(a, b) + IntRange * m
<1>1. PICK k \in 1 .. WordRange : WordRange = k * IntRange
  BY PointersAssumption
<1>2. /\ a \in Nat /\ b \in Nat
      /\ WordRange \in Nat \ {0} /\ IntRange \in Nat \ {0} /\ k \in Int
  BY <1>1, PointersAssumption
<1> DEFINE w == (a - b) % WordRange
           low == w % IntRange
<1>3. PICK p \in Int : a - b = WordRange * p + w
  <2>1. a - b \in Int
    BY <1>2
  <2> QED
    BY <1>2, <2>1, Division
<1>4. /\ w \in Int /\ low \in 0 .. IntRange - 1
      /\ \E q \in Int : w = IntRange * q + low
  <2>1. w \in 0 .. WordRange - 1
    BY <1>2, Division
  <2> HIDE DEF w
  <2>2. w \in Int
    BY <1>2, <2>1
  <2> QED
    BY <1>2, <2>2, Division
<1>5. PICK q \in Int : w = IntRange * q + low
  BY <1>4
<1>6. Compare(a, b) = IF 2 * low < IntRange THEN low ELSE low - IntRange
  BY DEF Compare, ToInt
<1> HIDE DEF low, w
<1>7. a - b = IntRange * (k * p + q) + low /\ k * p + q \in Int
  <2>1. WordRange * p = IntRange * (k * p)
    BY <1>1, <1>2, <1>3
  <2>2. k * p \in Int
    BY <1>2, <1>3
  <2> QED
    BY <1>2, <1>3, <1>4, <1>5, <2>1, <2>2
<1> DEFINE r == k * p + q
<1>8. a - b = IntRange * r + low /\ r \in Int
  BY <1>7
<1> HIDE DEF r
<1>9. a - b = IntRange * (r + 1) + (low - IntRange) /\ r + 1 \in Int
  BY <1>2, <1>4, <1>8
<1>10. CASE 2 * low < IntRange
  <2>1. Compare(a, b) = low
    BY <1>6, <1>10
  <2>2. low \in Int /\ 2 * low < IntRange /\ -IntRange <= 2 * low
    BY <1>2, <1>4, <1>10
  <2>3. \E m \in Int : a - b = low + IntRange * m
    BY <1>2, <1>4, <1>8
  <2> QED
    BY <2>1, <2>2, <2>3
<1>11. CASE ~(2 * low < IntRange)
  <2>1. Compare(a, b) = low - IntRange
    BY <1>6, <1>11
  <2>2. low - IntRange \in Int /\ 2 * (low - IntRange) < IntRange /\ -IntRange <= 2 * (low - IntRange)
    BY <1>2, <1>4, <1>11
  <2>3. \E m \in Int : a - b = (low - IntRange) + IntRange * m
    BY <1>2, <1>4, <1>9
  <2> QED
    BY <2>1, <2>2, <2>3
<1> QED
  BY <1>10, <1>11

(* pointer_compare answers the difference of two addresses exactly when    *)
(* they are no further apart than an int reaches; whatever the address     *)
(* space, no other pair is compared by its distance.                       *)
THEOREM CompareIsDifference ==
  \A a, b \in Pointers :
    Compare(a, b) = a - b <=> 2 * (a - b) < IntRange /\ 2 * (b - a) <= IntRange
<1> SUFFICES ASSUME NEW a \in Pointers, NEW b \in Pointers
             PROVE  Compare(a, b) = a - b
                    <=> 2 * (a - b) < IntRange /\ 2 * (b - a) <= IntRange
  OBVIOUS
<1> DEFINE c == Compare(a, b)
<1>1. /\ c \in Int /\ 2 * c < IntRange /\ -IntRange <= 2 * c
      /\ \E m \in Int : a - b = c + IntRange * m
  BY CompareCuts
<1>2. a \in Nat /\ b \in Nat /\ IntRange \in Nat \ {0}
  BY PointersAssumption
<1> HIDE DEF c
<1>3. ASSUME 2 * (a - b) < IntRange, 2 * (b - a) <= IntRange
      PROVE  c = a - b
  <2>1. PICK m \in Int : a - b = c + IntRange * m
    BY <1>1
  <2>2. ~(m >= 1)
    <3>1. m >= 1 => IntRange * m >= IntRange
      BY <1>2
    <3> QED
      BY <1>1, <1>2, <1>3, <2>1, <3>1
  <2>3. ~(m <= -1)
    <3>1. m <= -1 => IntRange * m <= -IntRange
      BY <1>2
    <3> QED
      BY <1>1, <1>2, <1>3, <2>1, <3>1
  <2>4. m = 0
    BY <2>2, <2>3
  <2> QED
    BY <1>1, <1>2, <2>1, <2>4
<1>4. c = a - b => 2 * (a - b) < IntRange /\ 2 * (b - a) <= IntRange
  BY <1>1, <1>2
<1> QED
  BY <1>3, <1>4 DEF c

(* Two addresses further apart than half the range of an int, and less     *)
(* than the whole, are compared the wrong way round: qsort puts the larger *)
(* one first and the search may miss either.                               *)
THEOREM FarPairsAreReversed ==
  \A a, b \in Pointers :
    2 * (a - b) > IntRange /\ a - b < IntRange => Compare(a, b) < 0 /\ Compare(b, a) > 0
<1> SUFFICES ASSUME NEW a \in Pointers, NEW b \in Pointers,
                    2 * (a - b) > IntRange, a - b < IntRange
             PROVE  Compare(a, b) < 0 /\ Compare(b, a) > 0
  OBVIOUS
<1>1. a \in Nat /\ b \in Nat /\ IntRange \in Nat \ {0}
  BY PointersAssumption
<1>2. Compare(a, b) < 0
  <2> DEFINE c == Compare(a, b)
  <2>1. /\ c \in Int /\ 2 * c < IntRange /\ -IntRange <= 2 * c
        /\ \E m \in Int : a - b = c + IntRange * m
    BY CompareCuts
  <2> HIDE DEF c
  <2>2. PICK m \in Int : a - b = c + IntRange * m
    BY <2>1
  <2>3. m <= 0 => IntRange * m <= 0
    BY <1>1
  <2>4. m >= 1
    BY <1>1, <2>1, <2>2, <2>3
  <2>5. m >= 1 => IntRange * m >= IntRange
    BY <1>1
  <2> QED
    BY <1>1, <2>1, <2>2, <2>4, <2>5 DEF c
<1>3. Compare(b, a) > 0
  <2> DEFINE c == Compare(b, a)
  <2>1. /\ c \in Int /\ 2 * c < IntRange /\ -IntRange <= 2 * c
        /\ \E m \in Int : b - a = c + IntRange * m
    BY CompareCuts
  <2> HIDE DEF c
  <2>2. PICK m \in Int : b - a = c + IntRange * m
    BY <2>1
  <2>3. m >= 0 => IntRange * m >= 0
    BY <1>1
  <2>4. m <= -1
    BY <1>1, <2>1, <2>2, <2>3
  <2>5. m <= -1 => IntRange * m <= -IntRange
    BY <1>1
  <2> QED
    BY <1>1, <2>1, <2>2, <2>4, <2>5 DEF c
<1> QED
  BY <1>2, <1>3
=============================================================================

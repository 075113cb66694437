----------------------------- MODULE ArenaProofs -----------------------------
(***************************************************************************)
(* Proofs about Arena and the SizeClasses below it, for every granularity, *)
(* word, header, guard, alignment and address: every block granted fits    *)
(* its request, the parts of a block of the arena do not overlap, and what *)
(* is deleted is what aae_malloc answered.                                 *)
(***************************************************************************)
EXTENDS Arena, FiniteSetTheorems, TLAPS

(* There are words: 2 ^ SizeBits counts the subsets of SizeBits elements.  *)
LEMMA WordsExist == 2 ^ SizeBits \in Nat \ {0}
<1>1. IsFiniteSet(1 .. SizeBits) /\ Cardinality(1 .. SizeBits) = SizeBits
  BY FS_Interval, SizesAssumption
<1>2. /\ IsFiniteSet(SUBSET (1 .. SizeBits))
      /\ Cardinality(SUBSET (1 .. SizeBits)) = 2 ^ SizeBits
  BY <1>1, FS_SUBSET
<1>3. Cardinality(SUBSET (1 .. SizeBits)) \in Nat
  BY <1>2, FS_CardinalityType
<1>4. Cardinality(SUBSET (1 .. SizeBits)) # 0
  BY <1>2, FS_EmptySet
<1> QED
  BY <1>2, <1>3, <1>4

(* A number is cut to a word, and one that fits is kept.                   *)
LEMMA WordCuts ==
  ASSUME NEW n \in Nat
  PROVE  /\ Word(n) \in Nat
         /\ n < 2 ^ SizeBits => Word(n) = n
<1> DEFINE words == 2 ^ SizeBits
<1>1. words \in Nat \ {0}
  BY WordsExist
<1> HIDE DEF words
<1>2. n % words \in Nat /\ (n < words => n % words = n)
  BY <1>1, SMT
<1> QED
  BY <1>2 DEF Word, words

(* The class of a request that does not wrap is the smallest that fits.    *)
LEMMA ClassFits ==
  ASSUME NEW size \in Nat, size + HeaderBytes < 2 ^ SizeBits
  PROVE  /\ BlockSize(ClassOf(size)) \in Nat
         /\ BlockSize(ClassOf(size)) - Granularity < size + HeaderBytes
         /\ size + HeaderBytes <= BlockSize(ClassOf(size))
<1>1. size + HeaderBytes \in Nat /\ size + HeaderBytes - 1 \in Nat
  BY SizesAssumption
<1>2. WithHeader(size) = size + HeaderBytes
  BY <1>1, WordCuts DEF WithHeader
<1> DEFINE top == size + HeaderBytes - 1
<1>3. top \in Nat /\ top < 2 ^ SizeBits /\ WithHeader(size) - 1 = top
  BY <1>1, <1>2, WordsExist, SizesAssumption
<1> HIDE DEF top
<1>4. ClassOf(size) = top \div Granularity
  BY <1>3, WordCuts DEF ClassOf
<1>5. ASSUME NEW x \in Nat, NEW g \in Nat \ {0}
      PROVE  /\ (x \div g + 1) * g \in Nat
             /\ (x \div g + 1) * g - g <= x /\ x < (x \div g + 1) * g
  BY <1>5, SMT
<1>6. size + HeaderBytes = top + 1
  BY SizesAssumption DEF top
<1> QED
  BY <1>1, <1>3, <1>4, <1>5, <1>6, SizesAssumption DEF BlockSize

(* A block is a whole number of granules, whatever the request wraps to.   *)
LEMMA GrantedType ==
  ASSUME NEW size \in Nat
  PROVE  Granted(size) \in [asked : Nat, block : Nat]
<1>1. WithHeader(size) \in Nat
  BY WordCuts, SizesAssumption DEF WithHeader
<1>2. Word(WithHeader(size) - 1) \in Nat
  BY <1>1, WordsExist DEF Word
<1>3. Word(WithHeader(size) - 1) \div Granularity \in Nat
  BY <1>2, SizesAssumption
<1>4. BlockSize(ClassOf(size)) \in Nat
  BY <1>3, SizesAssumption DEF BlockSize, ClassOf
<1> QED
  BY <1>4 DEF Granted

-----------------------------------------------------------------------------
(* What a slot holds is nothing, or was granted for some request.          *)
HeldType == held \in [Slots -> [asked : Nat, block : Nat]]

(* The sizes asked for are naturals, and so are the products of aae_calloc. *)
LEMMA RequestsAreNaturals ==
  /\ Sizes \subseteq Nat
  /\ \A n \in Counts, size \in Sizes : n * size \in Nat /\ Word(n * size) \in Nat
<1>1. Sizes \subseteq Nat
  BY SizesAssumption, WordsExist
<1>2. ASSUME NEW n \in Counts, NEW size \in Sizes
      PROVE  n * size \in Nat /\ Word(n * size) \in Nat
  <2>1. n \in Nat /\ size \in Nat
    BY <1>1, SizesAssumption
  <2>2. n * size \in Nat
    BY <2>1, SMT
  <2> QED
    BY <2>2, WordCuts
<1> QED
  BY <1>1, <1>2

(* What one slot may turn into.                                            *)
Fits(new, old) ==
  new.block # old.block /\ new.block # 0 /\ new.asked + HeaderBytes < 2 ^ SizeBits =>
    /\ new.block - Granularity < new.asked + HeaderBytes
    /\ new.asked + HeaderBytes <= new.block

(* A call of aae_malloc touches one slot, and grants it a block that fits. *)
LEMMA AllocateStep ==
  ASSUME HeldType, NEW s \in Slots, NEW size \in Nat, Allocate(s, size)
  PROVE  /\ HeldType' /\ \A r \in Slots : Fits(held'[r], held[r])
         /\ \A r \in Slots \ {s} : held'[r] = held[r]
<1>1. CASE held' = held
  BY <1>1 DEF HeldType, Fits
<1>2. CASE held' = [held EXCEPT ![s] = Granted(size)]
  <2>1. Granted(size) \in [asked : Nat, block : Nat]
    BY GrantedType
  <2>2. size + HeaderBytes < 2 ^ SizeBits =>
          /\ Granted(size).block - Granularity < size + HeaderBytes
          /\ size + HeaderBytes <= Granted(size).block
    BY ClassFits DEF Granted
  <2>3. Granted(size).asked = size
    BY DEF Granted
  <2> QED
    BY <1>2, <2>1, <2>2, <2>3 DEF HeldType, Fits
<1> QED
  BY <1>1, <1>2 DEF Allocate

(* So does a reallocation.                                                 *)
LEMMA ReallocStep ==
  ASSUME HeldType, NEW s \in Slots, Realloc(s)
  PROVE  /\ HeldType' /\ \A r \in Slots : Fits(held'[r], held[r])
         /\ \A r \in Slots \ {s} : held'[r] = held[r]
<1>1. PICK size \in Sizes : Resize(s, size)
  BY DEF Realloc
<1>2. size \in Nat
  BY RequestsAreNaturals
<1>3. CASE held' = held
  BY <1>3 DEF HeldType, Fits
<1>4. CASE held' = [held EXCEPT ![s] = Nothing]
  BY <1>4 DEF HeldType, Fits, Nothing
<1>5. CASE held' = [held EXCEPT ![s].asked = size]
  BY <1>2, <1>5 DEF HeldType, Fits
<1>6. CASE held' = [held EXCEPT ![s] = Granted(size)]
  <2>1. Granted(size) \in [asked : Nat, block : Nat] /\ Granted(size).asked = size
    BY <1>2, GrantedType DEF Granted
  <2>2. size + HeaderBytes < 2 ^ SizeBits =>
          /\ Granted(size).block - Granularity < size + HeaderBytes
          /\ size + HeaderBytes <= Granted(size).block
    BY <1>2, ClassFits DEF Granted
  <2> QED
    BY <1>6, <2>1, <2>2 DEF HeldType, Fits
<1> QED
  BY <1>1, <1>3, <1>4, <1>5, <1>6 DEF Resize

(* Every call of the four entry points keeps this.                         *)
LEMMA CallStep ==
  ASSUME HeldType, NEW s \in Slots, Malloc(s) \/ Calloc(s) \/ Free(s) \/ Realloc(s)
  PROVE  /\ HeldType' /\ \A r \in Slots : Fits(held'[r], held[r])
         /\ \A r \in Slots \ {s} : held'[r] = held[r]
<1>1. CASE Malloc(s)
  BY <1>1, AllocateStep, RequestsAreNaturals DEF Malloc
<1>2. CASE Calloc(s)
  BY <1>2, AllocateStep, RequestsAreNaturals DEF Calloc
<1>3. CASE Free(s)
  BY <1>3 DEF Free, HeldType, Fits, Nothing
<1> QED
  BY <1>1, <1>2, <1>3, ReallocStep
(* Whatever the arena is asked for, it asks aae_malloc for a natural.      *)
Objects ==
  {Plain(size) : size \in Sizes} \union {ArrayOf(n, size) : n \in Counts, size \in Sizes}
    \union {Aligned(size, align) : size \in Sizes, align \in Alignments}

LEMMA ObjectsAsk ==
  \A object \in Objects : object.asked \in Nat /\ Adjusted(object.asked) \in Nat
<1>1. ASSUME NEW size \in Sizes PROVE Plain(size).asked \in Nat
  BY RequestsAreNaturals DEF Plain, Raw
<1>2. ASSUME NEW n \in Counts, NEW size \in Sizes PROVE ArrayOf(n, size).asked \in Nat
  <2>1. size * n \in Nat
    BY RequestsAreNaturals, SizesAssumption
  <2>2. Word(size * n + HeaderBytes) \in Nat
    BY <2>1, WordCuts, SizesAssumption
  <2> QED
    BY <2>2 DEF ArrayOf, Raw
<1>3. ASSUME NEW size \in Sizes, NEW align \in Alignments
      PROVE  Aligned(size, align).asked \in Nat
  <2>1. size + Offset(align) \in Nat
    BY RequestsAreNaturals, SizesAssumption, ArenaAssumption DEF Offset
  <2>2. Word(size + Offset(align)) \in Nat
    BY <2>1, WordCuts
  <2> QED
    BY <2>2 DEF Aligned, Raw
<1>4. \A object \in Objects : object.asked \in Nat
  BY <1>1, <1>2, <1>3 DEF Objects
<1>5. ASSUME NEW asked \in Nat PROVE Adjusted(asked) \in Nat
  BY WordCuts, SizesAssumption, ArenaAssumption DEF Adjusted
<1> QED
  BY <1>4, <1>5

(* The three ways to make an object.                                       *)
LEMMA MakingObjects ==
  ASSUME NEW s \in Slots, New(s) \/ NewArray(s) \/ NewAligned(s)
  PROVE  \E object \in Objects : Make(s, object)
<1>1. CASE New(s)
  BY <1>1 DEF New, Objects
<1>2. CASE NewArray(s)
  BY <1>2 DEF NewArray, Objects
<1>3. CASE NewAligned(s)
  BY <1>3 DEF NewAligned, Objects
<1> QED
  BY <1>1, <1>2, <1>3

(* Steps of the arena call aae_malloc and aae_free, or leave both alone.   *)
LEMMA ArenaStep ==
  ASSUME HeldType, [ArenaNext]_arenaVars
  PROVE  HeldType' /\ \A r \in Slots : Fits(held'[r], held[r])
<1>1. CASE UNCHANGED vars
  BY <1>1 DEF vars, HeldType, Fits
<1>2. ASSUME NEW s \in Slots, NEW object \in Objects, Make(s, object)
      PROVE  HeldType' /\ \A r \in Slots : Fits(held'[r], held[r])
  BY <1>1, <1>2, ObjectsAsk, AllocateStep DEF Make
<1>3. ASSUME NEW s \in Slots, Delete(s) PROVE UNCHANGED vars \/ Free(s)
  BY <1>3 DEF Delete
<1>4. ASSUME NEW s \in Slots, RawCall(s)
      PROVE  Malloc(s) \/ Calloc(s) \/ Free(s) \/ Realloc(s)
  BY <1>4 DEF RawCall
<1> QED
  BY <1>1, <1>2, <1>3, <1>4, CallStep, MakingObjects DEF ArenaNext, arenaVars

(* Every block granted is the smallest that fits, for every request whose  *)
(* header does not wrap it around.                                         *)
THEOREM BlocksFit == ArenaSpec => NewBlockFits
<1>1. ArenaInit => HeldType
  BY DEF ArenaInit, Init, HeldType, Nothing
<1>2. HeldType /\ [ArenaNext]_arenaVars => HeldType'
  BY ArenaStep
<1>3. HeldType /\ [ArenaNext]_arenaVars =>
        [\A s \in Slots :
           LET new == held'[s]
               need == new.asked + HeaderBytes
           IN new.block # held[s].block /\ new.block # 0 /\ need < 2 ^ SizeBits
              => new.block - Granularity < need /\ need <= new.block]_vars
  BY ArenaStep DEF Fits
<1> QED
  BY <1>1, <1>2, <1>3, PTL DEF ArenaSpec, NewBlockFits

-----------------------------------------------------------------------------
(* An object of the arena lies where its way of making puts it, ...        *)
AsPlaced(g) ==
  /\ g.base \in Nat /\ g.asked \in Nat /\ g.bytes \in Nat /\ g.align \in Nat \ {0}
  /\ \/ g.way = "plain" /\ g.align = 1 /\ g.start = StartOf(g.base) /\ g.asked = g.bytes
     \/ g.way = "array" /\ g.align = 1 /\ g.start = StartOf(g.base) + HeaderBytes
     \/ /\ g.way = "aligned" /\ g.link = StartOf(g.base)
        /\ g.start = RoundDown(StartOf(g.base), g.align)

(* ... in the block granted for it.                                        *)
PlacedInv ==
  /\ HeldType /\ DOMAIN given = Slots
  /\ \A s \in Slots :
       Made(given[s]) =>
         AsPlaced(given[s]) /\ held[s] = Granted(Adjusted(given[s].asked))

(* Where the answer of aae_malloc puts an object.                          *)
LEMMA PlacedObjects ==
  ASSUME NEW object \in Objects, NEW base \in Nat
  PROVE  AsPlaced(Placed(object, base)) /\ Placed(object, base).asked = object.asked
<1>1. object.asked \in Nat
  BY ObjectsAsk
<1>2. CASE \E size \in Sizes : object = Plain(size)
  BY <1>1, <1>2, RequestsAreNaturals DEF Plain, Raw, Placed, AsPlaced
<1>3. CASE \E n \in Counts, size \in Sizes : object = ArrayOf(n, size)
  <2>1. PICK n \in Counts, size \in Sizes : object = ArrayOf(n, size)
    BY <1>3
  <2>2. size * n \in Nat
    BY RequestsAreNaturals, SizesAssumption
  <2> QED
    BY <1>1, <2>1, <2>2 DEF ArrayOf, Raw, Placed, AsPlaced
<1>4. CASE \E size \in Sizes, align \in Alignments : object = Aligned(size, align)
  BY <1>1, <1>4, RequestsAreNaturals, ArenaAssumption DEF Aligned, Raw, Placed, AsPlaced
<1> QED
  BY <1>2, <1>3, <1>4 DEF Objects

LEMMA PlacedStep == PlacedInv /\ [ArenaNext]_arenaVars => PlacedInv'
<1> SUFFICES ASSUME PlacedInv, [ArenaNext]_arenaVars PROVE PlacedInv'
  OBVIOUS
<1>1. HeldType'
  BY ArenaStep DEF PlacedInv
<1>2. ASSUME NEW s \in Slots, NEW object \in Objects, Make(s, object) PROVE PlacedInv'
  <2>1. CASE UNCHANGED given
    <3>2. ~Made(given[s])
      BY <1>2 DEF Make, Raw, Made
    <3>3. \A r \in Slots \ {s} : held'[r] = held[r]
      BY <1>2, ObjectsAsk, AllocateStep DEF Make, PlacedInv, vars
    <3> QED
      BY <1>1, <2>1, <3>2, <3>3 DEF PlacedInv
  <2>2. CASE /\ Allocate(s, Adjusted(object.asked)) /\ held'[s] # Nothing
             /\ \E base \in Addresses : given' = [given EXCEPT ![s] = Placed(object, base)]
    <3>1. PICK base \in Addresses : given' = [given EXCEPT ![s] = Placed(object, base)]
      BY <2>2
    <3>2. AsPlaced(Placed(object, base)) /\ Placed(object, base).asked = object.asked
      BY PlacedObjects, ArenaAssumption
    <3>3. held'[s] = Granted(Adjusted(object.asked))
      BY <2>2 DEF Allocate, PlacedInv, HeldType
    <3>4. \A r \in Slots \ {s} : held'[r] = held[r]
      BY <2>2, ObjectsAsk, AllocateStep DEF PlacedInv
    <3>5. /\ given'[s] = Placed(object, base) /\ DOMAIN given' = Slots
          /\ \A r \in Slots \ {s} : given'[r] = given[r]
      BY <3>1 DEF PlacedInv
    <3> QED
      BY <1>1, <3>2, <3>3, <3>4, <3>5 DEF PlacedInv
  <2> QED
    BY <1>2, <2>1, <2>2 DEF Make
<1>3. ASSUME NEW s \in Slots, Delete(s) PROVE PlacedInv'
  <2>1. \A r \in Slots \ {s} : held'[r] = held[r]
    <3>1. CASE Free(s)
      BY <3>1 DEF Free, PlacedInv, HeldType
    <3>2. CASE UNCHANGED vars
      BY <3>2 DEF vars
    <3> QED
      BY <1>3, <3>1, <3>2 DEF Delete
  <2>2. PICK g : given' = [given EXCEPT ![s] = g] /\ ~Made(g)
    BY <1>3 DEF Delete, Raw, Made
  <2>3. DOMAIN given' = Slots /\ ~Made(given'[s]) /\ \A r \in Slots \ {s} : given'[r] = given[r]
    BY <2>2 DEF PlacedInv
  <2>4. ASSUME NEW r \in Slots, Made(given'[r])
        PROVE  AsPlaced(given'[r]) /\ held'[r] = Granted(Adjusted(given'[r].asked))
    <3>1. r \in Slots \ {s} /\ Made(given[r])
      BY <2>3, <2>4
    <3>2. AsPlaced(given[r]) /\ held[r] = Granted(Adjusted(given[r].asked))
      BY <3>1 DEF PlacedInv
    <3> QED
      BY <2>1, <2>3, <3>1, <3>2
  <2> QED
    BY <1>1, <2>3, <2>4 DEF PlacedInv
<1>4. ASSUME NEW s \in Slots, RawCall(s) PROVE PlacedInv'
  <2>1. \A r \in Slots \ {s} : held'[r] = held[r]
    BY <1>4, CallStep DEF RawCall, PlacedInv
  <2>2. given[s] = Raw /\ given' = given
    BY <1>4 DEF RawCall
  <2>3. ~Made(given[s])
    BY <2>2 DEF Raw, Made
  <2>4. DOMAIN given' = Slots
    BY <2>2 DEF PlacedInv
  <2>5. ASSUME NEW r \in Slots, Made(given'[r])
        PROVE  AsPlaced(given'[r]) /\ held'[r] = Granted(Adjusted(given'[r].asked))
    <3>1. r # s /\ Made(given[r])
      BY <2>2, <2>3, <2>5
    <3>2. AsPlaced(given[r]) /\ held[r] = Granted(Adjusted(given[r].asked))
      BY <3>1 DEF PlacedInv
    <3> QED
      BY <2>1, <2>2, <3>1, <3>2
  <2> QED
    BY <1>1, <2>4, <2>5 DEF PlacedInv
<1>5. CASE UNCHANGED arenaVars
  BY <1>1, <1>5 DEF arenaVars, vars, PlacedInv
<1> QED
  BY <1>2, <1>3, <1>4, <1>5, MakingObjects DEF ArenaNext

(* Rounding down to a power of two, or to any other number, leaves room    *)
(* for a pointer below and stays within what was asked for.                *)
LEMMA RoundDownSound ==
  ASSUME NEW address \in Nat, NEW align \in Nat \ {0}
  PROVE  /\ RoundDown(address, align) \in Nat
         /\ RoundDown(address, align) % align = 0
         /\ address + HeaderBytes <= RoundDown(address, align)
         /\ RoundDown(address, align) <= address + Offset(align)
<1> DEFINE end == address + Offset(align)
<1>1. end \in Nat /\ end = address + align - 1 + HeaderBytes
  BY SizesAssumption DEF Offset
<1> HIDE DEF end
<1>2. ASSUME NEW x \in Nat, NEW y \in Nat \ {0}
      PROVE  /\ x - (x % y) = y * (x \div y) /\ x \div y \in Nat
             /\ x % y \in 0 .. y - 1
  BY <1>2, SMT
<1>3. ASSUME NEW q \in Nat, NEW y \in Nat \ {0} PROVE (y * q) % y = 0
  BY <1>3, SMT
<1>4. RoundDown(address, align) = end - (end % align)
  BY DEF RoundDown, end
<1>5. PICK r \in 0 .. align - 1, q \in Nat : end % align = r /\ end - r = align * q
  BY <1>1, <1>2
<1>6. (end - r) % align = 0
  BY <1>3, <1>5
<1>7. end - r \in Nat /\ address + HeaderBytes <= end - r /\ end - r <= end
  BY <1>1, <1>5, SizesAssumption
<1> QED
  BY <1>4, <1>5, <1>6, <1>7 DEF end

LEMMA PlacedIsSound ==
  ASSUME NEW g, AsPlaced(g), Unwrapped(g)
  PROVE  /\ StartOf(g.base) <= Lowest(g)
         /\ g.start % g.align = 0
         /\ g.start + g.bytes <= BackGuard(g.base, g.asked)
         /\ BackGuard(g.base, g.asked) + BackBytes + HeaderBytes
              <= g.base + Granted(Adjusted(g.asked)).block
         /\ BackChecked(g.base, Adjusted(g.asked)) = BackGuard(g.base, g.asked)
<1> USE SizesAssumption, ArenaAssumption
<1>1. StartOf(g.base) \in Nat
  BY DEF AsPlaced, StartOf
<1>2. /\ StartOf(g.base) <= Lowest(g)
      /\ g.start % g.align = 0
      /\ g.start + g.bytes <= BackGuard(g.base, g.asked)
  <2>1. CASE g.way = "plain"
    BY <1>1, <2>1 DEF AsPlaced, Lowest, BackGuard
  <2>2. CASE g.way = "array"
    BY <1>1, <2>2 DEF AsPlaced, Unwrapped, Lowest, BackGuard
  <2>3. CASE g.way = "aligned"
    <3>1. /\ g.start = RoundDown(StartOf(g.base), g.align)
          /\ g.asked = g.bytes + Offset(g.align)
          /\ Lowest(g) = g.start - HeaderBytes /\ Offset(g.align) \in Int
      BY <2>3 DEF AsPlaced, Unwrapped, Lowest, Offset
    <3>2. g.align \in Nat \ {0} /\ g.bytes \in Nat
      BY DEF AsPlaced
    <3>3. /\ g.start \in Nat /\ g.start % g.align = 0
          /\ StartOf(g.base) + HeaderBytes <= g.start
          /\ g.start <= StartOf(g.base) + Offset(g.align)
      <4> HIDE SizesAssumption, ArenaAssumption
      <4>1. g.align \in Nat \ {0} /\ StartOf(g.base) \in Nat
        BY <1>1, <3>2
      <4> DEFINE address == StartOf(g.base)
                 align == g.align
      <4>2. address \in Nat /\ align \in Nat \ {0}
        BY <4>1
      <4> HIDE DEF address, align
      <4>3. /\ RoundDown(address, align) \in Nat
            /\ RoundDown(address, align) % align = 0
            /\ address + HeaderBytes <= RoundDown(address, align)
            /\ RoundDown(address, align) <= address + Offset(align)
        BY <4>2, RoundDownSound
      <4> QED
        BY <3>1, <4>3, Zenon DEF address, align
    <3> QED
      BY <1>1, <3>1, <3>2, <3>3 DEF BackGuard
  <2> QED
    BY <2>1, <2>2, <2>3 DEF AsPlaced
<1>3. Adjusted(g.asked) = FrontBytes + BackBytes + HeaderBytes + g.asked
  <2>1. FrontBytes + BackBytes + HeaderBytes + g.asked \in Nat
    BY DEF AsPlaced
  <2>2. FrontBytes + BackBytes + HeaderBytes + g.asked < 2 ^ SizeBits
    BY <2>1, WordsExist DEF Unwrapped, AsPlaced
  <2> QED
    BY <2>1, <2>2, WordCuts DEF Adjusted
<1>4. Adjusted(g.asked) + HeaderBytes <= Granted(Adjusted(g.asked)).block
      /\ Granted(Adjusted(g.asked)).block \in Nat
  <2>1. Adjusted(g.asked) \in Nat /\ Adjusted(g.asked) + HeaderBytes < 2 ^ SizeBits
    BY <1>3, WordsExist DEF Unwrapped, AsPlaced
  <2> QED
    BY <2>1, ClassFits DEF Granted
<1> QED
  BY <1>1, <1>2, <1>3, <1>4 DEF AsPlaced, BackGuard, BackChecked, StartOf

(* For every address, alignment and size whose sum is not cut: the parts   *)
(* of a block of the arena neither overlap nor leave it, and an aligned    *)
(* object is aligned.                                                      *)
THEOREM PartsDoNotOverlap == ArenaSpec => []LayoutSound
<1>1. ArenaInit => PlacedInv
  BY DEF ArenaInit, Init, PlacedInv, HeldType, Nothing, Raw, Made
<1>2. PlacedInv => LayoutSound
  BY PlacedIsSound DEF PlacedInv, LayoutSound
<1> QED
  BY <1>1, <1>2, PlacedStep, PTL DEF ArenaSpec

(* Whatever way an object was made, what is deleted is the answer of       *)
(* aae_malloc, and its back guard is looked for where it was written.      *)
THEOREM DeletedAsMade == ArenaSpec => []WayBack
<1>1. ArenaInit => PlacedInv
  BY DEF ArenaInit, Init, PlacedInv, HeldType, Nothing, Raw, Made
<1>2. PlacedInv => WayBack
  <2>1. ASSUME NEW g, AsPlaced(g) PROVE ActualStart(g) = g.base
    BY <2>1, SizesAssumption, ArenaAssumption DEF AsPlaced, ActualStart, Returned, StartOf
  <2> QED
    BY <2>1, PlacedIsSound DEF PlacedInv, WayBack
<1> QED
  BY <1>1, <1>2, PlacedStep, PTL DEF ArenaSpec
=============================================================================

----------------------------- MODULE FileStream -----------------------------
(***************************************************************************)
(* filestream (misc/aae_filestream.h): a ring buffer (misc/                *)
(* aae_ringbuffer.h) that empties itself into a source when it is full and *)
(* fills itself from it when it is empty, and the operators << that put    *)
(* the texts of NumberText into it, byte by byte.  The source may transfer *)
(* less than it is asked to, or fail, which is an exception.  A byte is    *)
(* its number in the order of entering; nothing here looks at its value.   *)
(* filesource reads or writes; a source of another kind may do both, and   *)
(* one opened in a third mode does neither.                                *)
(***************************************************************************)
EXTENDS NumberText

CONSTANTS
  RingSize,        (* m_size, one more than the buffer holds               *)
  Modes,           (* what the source can do                               *)
  InputBytes,      (* the bytes there are to read                          *)
  MaxBytes,        (* bound: bytes that enter the stream                   *)
  Streamed         (* bound: the numbers put into a stream that can move   *)

ASSUME StreamAssumption ==
  /\ RingSize \in Nat /\ RingSize > 1
  /\ Modes \subseteq SUBSET {"read", "write"}
  /\ InputBytes \in Nat /\ MaxBytes \in Nat /\ Streamed \subseteq Signed

VARIABLES
  mode,            (* can_read() and can_write()                           *)
  ring,            (* m_buffer                                             *)
  head, tail,      (* m_head, m_tail                                       *)
  entered,         (* bytes that were pushed or read so far                *)
  out,             (* bytes that were popped or written, in order          *)
  left,            (* bytes the source has still to be read                *)
  error,           (* m_is_error                                           *)
  short,           (* whether a write was short                            *)
  precision,       (* m_float_precision                                    *)
  doing,           (* "idle", "put", "pop" or "closed"                     *)
  it               (* bytes of the current text already put                *)

streamVars == <<mode, ring, head, tail, entered, out, left, error, short,
                precision, doing, it>>

allVars == <<textVars, streamVars>>

CanRead == "read" \in mode

CanWrite == "write" \in mode

StreamInit ==
  /\ TextInit
  /\ mode \in Modes
  /\ ring = [i \in 0 .. RingSize - 1 |-> 0]
  /\ head = 0 /\ tail = 0 /\ entered = 0 /\ out = <<>>
  /\ left = IF CanRead THEN InputBytes ELSE 0
  /\ error = FALSE /\ short = FALSE
  /\ precision = 3 /\ doing = "idle" /\ it = 0

-----------------------------------------------------------------------------
Successor(i) == (i + 1) % RingSize

Empty == head = tail

Full == Successor(head) = tail

Count == IF head < tail THEN RingSize + head - tail ELSE head - tail

Segment(from, n) == [k \in 1 .. n |-> ring[from + k - 1]]

(* Variant: the part before the wrap only.                                 *)
FlushedTail ==
  IF head < tail THEN Segment(tail, RingSize - tail) ELSE Segment(tail, head - tail)

(* What overflow() hands to the source; a buffer that wraps around is      *)
(* first put together in a block of its own.                               *)
Flushed ==
  IF head < tail THEN Segment(tail, RingSize - tail) \o Segment(0, head)
  ELSE Segment(tail, head - tail)

(* The write goes through: what it did not take is forgotten.              *)
Written ==
  \E n \in 0 .. Len(Flushed) :
    /\ out' = out \o SubSeq(Flushed, 1, n)
    /\ short' = (short \/ n < Len(Flushed))

(* filesource::write throws: the buffer stays as it is, and m_is_error is  *)
(* set for good.  The block of a wrapped buffer is not given back.         *)
Thrown ==
  /\ error' = TRUE
  /\ UNCHANGED <<ring, head, tail, entered, out, left, short>>

(* No memory for that block.                                               *)
NoBlock ==
  /\ head < tail
  /\ crashed' = TRUE
  /\ UNCHANGED <<conv, said, streamVars>>

Store(at, next) ==
  /\ ring' = [ring EXCEPT ![at] = entered + 1]
  /\ head' = next
  /\ entered' = entered + 1

(* ringbuffer::push: a full buffer is flushed and the push tried again.    *)
(* The function returns no value when it has stored the byte; nobody looks *)
(* at what it returns.                                                     *)
Push ==
  \/ /\ ~Full
     /\ Store(head, Successor(head))
     /\ UNCHANGED <<tail, out, short>>
  \/ /\ Full
     /\ Written
     /\ Store(0, Successor(0)) /\ tail' = 0

(* One round of the loop of operator<<.  An exception ends it.             *)
PutByte ==
  /\ doing = "put" /\ it < Len(said.text)
  /\ entered < MaxBytes
  /\ \/ /\ Push
        /\ it' = it + 1
        /\ UNCHANGED <<textVars, mode, left, error, precision, doing>>
     \/ /\ Full /\ Thrown
        /\ doing' = "idle"
        /\ UNCHANGED <<textVars, mode, precision, it>>
     \/ Full /\ NoBlock

PutEnd ==
  /\ doing = "put" /\ it = Len(said.text)
  /\ doing' = "idle"
  /\ UNCHANGED <<textVars, mode, ring, head, tail, entered, out, left, error,
                 short, precision, it>>

(* operator<< for numbers, strings and bytes.  All of them are put into a  *)
(* stream that can do nothing; where bytes move only their number counts.  *)
PutItems ==
  {i \in Items : CASE i.kind = "signed" -> mode = {} \/ i.v \in Streamed
                   [] i.kind = "unsigned" -> mode = {} /\ i.b = 10
                   [] i.kind = "real" -> mode = {} /\ i.prc = precision
                   [] OTHER -> i.kind = "string"}

(* A stream that cannot write refuses every byte.                          *)
Put ==
  /\ doing = "idle"
  /\ \E item \in PutItems : Convert(item)
  /\ doing' = IF CanWrite /\ ~crashed' THEN "put" ELSE "idle"
  /\ it' = 0
  /\ UNCHANGED <<mode, ring, head, tail, entered, out, left, error, short, precision>>

SetPrecision ==
  /\ mode = {} /\ doing = "idle"
  /\ precision' \in Precisions
  /\ UNCHANGED <<textVars, mode, ring, head, tail, entered, out, left, error,
                 short, doing, it>>

(* flush().                                                                *)
Flush ==
  /\ doing = "idle" /\ CanWrite
  /\ \/ /\ Written
        /\ head' = 0 /\ tail' = 0
        /\ UNCHANGED <<ring, entered, left, error>>
     \/ Thrown
  /\ UNCHANGED <<textVars, mode, precision, doing, it>>

FlushFails == doing = "idle" /\ CanWrite /\ NoBlock

-----------------------------------------------------------------------------
BeginPop ==
  /\ doing = "idle" /\ CanRead
  /\ doing' = "pop"
  /\ UNCHANGED <<textVars, mode, ring, head, tail, entered, out, left, error,
                 short, precision, it>>

PopByte ==
  /\ doing = "pop" /\ ~Empty
  /\ out' = Append(out, ring[tail])
  /\ tail' = Successor(tail)
  /\ doing' = "idle"
  /\ UNCHANGED <<textVars, mode, ring, head, entered, left, error, short,
                 precision, it>>

(* Variant: the buffer is filled to the last byte, and is empty then.      *)
ReadSizeWhole == RingSize

ReadSize == RingSize - 1

(* underflow(): a read answers with at least one byte unless it is at the  *)
(* end of the file, and pop is tried again in either case.                 *)
Underflow ==
  /\ doing = "pop" /\ Empty
  /\ \E n \in 0 .. LesserOf(ReadSize, left) :
       /\ n = 0 => left = 0
       /\ ring' = [i \in DOMAIN ring |-> IF i < n THEN entered + i + 1 ELSE ring[i]]
       /\ head' = n % RingSize /\ tail' = 0
       /\ entered' = entered + n /\ left' = left - n
  /\ UNCHANGED <<textVars, mode, out, error, short, precision, doing, it>>

ReadFails ==
  /\ doing = "pop" /\ Empty
  /\ Thrown
  /\ doing' = "idle"
  /\ UNCHANGED <<textVars, mode, precision, it>>

(* The destructor: a stream whose source has failed is not flushed, and an *)
(* exception of this last write, or of close(), ends the program.          *)
Close ==
  /\ doing = "idle"
  /\ \/ /\ CanWrite /\ ~error
        /\ Written
        /\ head' = 0 /\ tail' = 0
     \/ /\ ~CanWrite \/ error
        /\ UNCHANGED <<head, tail, out, short>>
  /\ crashed' \in {crashed, TRUE}
  /\ doing' = "closed"
  /\ UNCHANGED <<conv, said, mode, ring, entered, left, error, precision, it>>

CloseFails ==
  /\ doing = "idle" /\ CanWrite /\ ~error
  /\ crashed' = TRUE
  /\ UNCHANGED <<conv, said, streamVars>>

(* Formats are explored beside a stream that can do nothing.               *)
Format ==
  /\ mode = {} /\ doing = "idle"
  /\ \E item \in Items : Directive(item)
  /\ UNCHANGED streamVars

PopGoesOn == ~crashed /\ (PopByte \/ Underflow)

StreamNext ==
  \/ PopGoesOn
  \/ ~crashed /\ (\/ Put \/ PutByte \/ PutEnd \/ SetPrecision \/ Flush \/ FlushFails
                  \/ BeginPop \/ ReadFails \/ Close \/ CloseFails \/ Format)

StreamSpec == StreamInit /\ [][StreamNext]_allVars

(* A thread that has called pop goes on with it; no read has to fail.      *)
StreamFairSpec == StreamSpec /\ WF_allVars(PopGoesOn)

-----------------------------------------------------------------------------
(* The buffer holds the bytes that entered last, in the order they came    *)
(* in, over any number of wraps, refills, flushes and failed writes.       *)
WaitingInOrder ==
  \A i \in 0 .. Count - 1 : ring[(tail + i) % RingSize] = entered - Count + 1 + i

(* What has left the stream left it in the order it came in, each byte     *)
(* once; all bytes that are not in the buffer have left it unless a write  *)
(* was short, a write that failed and was tried again included; and when   *)
(* the stream is closed nothing stays behind but after an error.           *)
BytesInOrder ==
  /\ WaitingInOrder
  /\ \A i, j \in DOMAIN out : i < j => out[i] < out[j]
  /\ \A i \in DOMAIN out : out[i] <= entered - Count
  /\ ~short => Len(out) = entered - Count
  /\ doing = "closed" /\ CanWrite /\ ~error => Count = 0

(* A pop returns, or throws, while there is something in the buffer or in  *)
(* the source, however little each read brings.  At the end of the file it *)
(* tries again for ever.                                                   *)
PopReturns == (doing = "pop" /\ (left > 0 \/ ~Empty)) ~> (doing # "pop")
=============================================================================

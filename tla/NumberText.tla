----------------------------- MODULE NumberText -----------------------------
(***************************************************************************)
(* The texts of numbers (string/aae_string.c).  aae_ultoa, aae_ltoa and    *)
(* aae_dtoa write them into one static buffer, from its end downwards, and *)
(* aae_dtoa tells aae_ultoa through m_offset to write the whole part below *)
(* the fraction it has just written; what earlier texts left in the buffer *)
(* stays there.  A real is a multiple of 1 / Scale, so that no rounding of *)
(* a double takes part; it is scaled by the power of ten exactly, and what *)
(* is cut to an integer then may not fit the word.                         *)
(***************************************************************************)
EXTENDS Integers, Sequences

CONSTANTS
  BufferBytes,           (* the size of m_ultoa_buffer                     *)
  WordBits,              (* the width of u64 and i64                       *)
  MaxPrecision,          (* the most digits of a fraction                  *)
  Scale,                 (* a power of two                                 *)
  Signed, Unsigned,      (* the integers to be written,                    *)
  Bases,                 (* the bases of the unsigned ones in a format,    *)
  Reals, Precisions,     (* the reals, as multiples of 1 / Scale, and the  *)
                         (* digits asked for                               *)
  Overflows,             (* the words a build makes of a real that does    *)
                         (* not fit one, which is undefined                *)
  Strings                (* the strings of the caller                      *)

ASSUME TextAssumption ==
  /\ BufferBytes \in Nat /\ WordBits \in Nat \ {0} /\ Scale \in Nat \ {0}
  /\ Bases \subseteq 2 .. 16 /\ MaxPrecision \in Nat /\ 10 ^ MaxPrecision < 2 ^ WordBits
  /\ Precisions \subseteq Nat /\ Overflows \subseteq 0 .. 2 ^ WordBits - 1
  /\ Signed \subseteq -(2 ^ (WordBits - 1)) .. 2 ^ (WordBits - 1) - 1
  /\ Unsigned \subseteq 0 .. 2 ^ WordBits - 1 /\ Reals \subseteq Int

VARIABLES
  conv,        (* m_ultoa_buffer, m_offset, and where the last text starts *)
  said,        (* the last thing written as a text, and the text           *)
  crashed

textVars == <<conv, said, crashed>>

NUL == "nul"

Digits == <<"0", "1", "2", "3", "4", "5", "6", "7",
            "8", "9", "a", "b", "c", "d", "e", "f">>

isdigit(c) == \E i \in 1 .. 10 : Digits[i] = c

DigitValue(c) == (CHOOSE i \in 1 .. 16 : Digits[i] = c) - 1

Magnitude(v) == IF v < 0 THEN -v ELSE v

LesserOf(a, b) == IF a < b THEN a ELSE b

TextInit ==
  /\ conv = [buffer |-> [i \in 0 .. BufferBytes - 1 |-> NUL], offset |-> 0, at |-> 0]
  /\ said = [item |-> [kind |-> "string", text |-> <<>>], text |-> <<>>]
  /\ crashed = FALSE

-----------------------------------------------------------------------------
(* *--p for every character, the last one first.                           *)
Below(c, text) ==
  LET at == c.at - Len(text)
  IN [c EXCEPT !.at = at,
               !.buffer = [i \in DOMAIN c.buffer |->
                             IF at <= i /\ i < c.at THEN text[i - at + 1] ELSE c.buffer[i]]]

(* The characters up to the terminator: aae_strlen of them.                *)
TextAt(c) ==
  LET end == CHOOSE i \in c.at .. BufferBytes - 1 :
               /\ c.buffer[i] = NUL
               /\ \A j \in c.at .. i - 1 : c.buffer[j] # NUL
  IN [k \in 1 .. end - c.at |-> c.buffer[c.at + k - 1]]

DigitsOf(v, b) ==
  LET text[n \in 0 .. v] == IF n < b THEN <<Digits[n + 1]>>
                            ELSE Append(text[n \div b], Digits[(n % b) + 1])
  IN text[v]

(* Variant: m_offset survives, and the next text has no terminator.        *)
UltoaKeepingOffset(c, v, b) ==
  LET start == [c EXCEPT !.at = BufferBytes - c.offset]
      ended == IF c.offset = 0 THEN Below(start, <<NUL>>) ELSE start
  IN Below(ended, DigitsOf(v, LesserOf(b, 16)))

Ultoa(c, v, b) ==
  LET start == [c EXCEPT !.at = BufferBytes - c.offset]
      ended == IF c.offset = 0 THEN Below(start, <<NUL>>) ELSE start
  IN [Below(ended, DigitsOf(v, LesserOf(b, 16))) EXCEPT !.offset = 0]

Sign(c, v) == IF v < 0 THEN Below(c, <<"-">>) ELSE c

(* The least i64 is its own negation.                                      *)
Ltoa(c, v) == Sign(Ultoa(c, Magnitude(v) % (2 ^ WordBits), 10), v)

Fits(n) == n < 2 ^ WordBits

(* The conversion of a real to u64.                                        *)
WordsOf(n) == IF Fits(n) THEN {n} ELSE Overflows

(* v * p10, cut to an integer, and v.                                      *)
Scaled(v, prc) == (Magnitude(v) * 10 ^ prc) \div Scale

Whole(v) == Magnitude(v) \div Scale

DigitsAsked(prc) == LesserOf(prc, MaxPrecision)

(* The digits of the fraction, dp.                                         *)
FractionOf(c, word, prc) == Ultoa(c, word % 10 ^ prc, 10)

(* dp_s, the zeros in front of them.  A fraction of no digits is written   *)
(* as "0", one more than asked, and the unsigned difference counts zeros   *)
(* down through the memory below the buffer.                               *)
ZerosBefore(c, word, prc) == prc - Len(TextAt(FractionOf(c, word, prc)))

DtoaCrashes(c, word, asked) == ZerosBefore(c, word, DigitsAsked(asked)) < 0

(* aae_dtoa, with the words it makes of v * p10 and of v.                  *)
Dtoa(c, v, asked, word, whole) ==
  LET prc == DigitsAsked(asked)
      zeros == [i \in 1 .. ZerosBefore(c, word, prc) |-> "0"]
      point == Below(Below(FractionOf(c, word, prc), zeros), <<".">>)
  IN Sign(Ultoa([point EXCEPT !.offset = prc + 2], whole, 10), v)

(* aae_atol: an optional sign and the digits that follow it.               *)
Atol(s) ==
  LET negative == s # <<>> /\ s[1] = "-"
      from == IF negative THEN 2 ELSE 1
      value[k \in from - 1 .. Len(s)] ==
        IF k < from THEN 0 ELSE value[k - 1] * 10 + DigitValue(s[k])
      end == CHOOSE k \in from - 1 .. Len(s) :
               /\ \A i \in from .. k : isdigit(s[i])
               /\ k < Len(s) => ~isdigit(s[k + 1])
  IN IF negative THEN -value[end] ELSE value[end]

-----------------------------------------------------------------------------
(* %i and %I, %u %U %x %b %o, %f, %c and %s; any other letter prints       *)
(* nothing, and neither does the end of the format behind a %.             *)
Items ==
  [kind : {"signed"}, v : Signed] \union [kind : {"unsigned"}, v : Unsigned, b : Bases]
    \union [kind : {"real"}, v : Reals, prc : Precisions]
    \union [kind : {"char"}, char : {"?"}] \union [kind : {"string"}, text : Strings]
    \union [kind : {"other", "end"}]

(* %c puts a text of its own at the start of the buffer.                   *)
CharText(c, char) ==
  [c EXCEPT !.at = 0, !.buffer = [@ EXCEPT ![0] = char, ![1] = NUL]]

Converted(c, item) ==
  CASE item.kind = "signed" -> {Ltoa(c, item.v)}
    [] item.kind = "unsigned" -> {Ultoa(c, item.v, item.b)}
    [] item.kind = "real" ->
         {Dtoa(c, item.v, item.prc, word, whole) :
            word \in WordsOf(Scaled(item.v, DigitsAsked(item.prc))), whole \in WordsOf(Whole(item.v))}
    [] item.kind = "char" -> {CharText(c, item.char)}
    [] OTHER -> {c}

TextOf(c, item) ==
  CASE item.kind = "string" -> item.text
    [] item.kind \in {"other", "end"} -> <<>>
    [] OTHER -> TextAt(c)

(* A conversion that ends the program leaves no text.                      *)
Convert(item) ==
  IF /\ item.kind = "real"
     /\ \E word \in WordsOf(Scaled(item.v, DigitsAsked(item.prc))) : DtoaCrashes(conv, word, item.prc)
  THEN crashed' = TRUE /\ said' = [item |-> item, text |-> <<>>] /\ UNCHANGED conv
  ELSE /\ conv' \in Converted(conv, item)
       /\ said' = [item |-> item, text |-> TextOf(conv', item)]
       /\ UNCHANGED crashed

(* A lone % at the end of a format: its terminator is taken for a letter,  *)
(* and whatever follows it in memory for more of the format, until that    *)
(* ends or the program does.                                               *)
RunOff ==
  /\ said' = [item |-> [kind |-> "end"], text |-> <<>>]
  /\ crashed' \in BOOLEAN
  /\ UNCHANGED conv

(* One round of aae_vsprintf: the text is copied to the output at once.    *)
(* Where a format says no precision, three digits are meant.               *)
Directive(item) ==
  /\ ~crashed
  /\ IF item.kind = "end" THEN RunOff
     ELSE Convert(IF item.kind = "real" /\ item.prc = 0 THEN [item EXCEPT !.prc = 3] ELSE item)

-----------------------------------------------------------------------------
(* The text is digits of the base, and v is their value.                   *)
Reads(text, b, v) ==
  LET value[k \in 0 .. Len(text)] ==
        IF k = 0 THEN 0 ELSE value[k - 1] * b + DigitValue(text[k])
  IN /\ text # <<>> /\ \A k \in 1 .. Len(text) : \E i \in 1 .. b : Digits[i] = text[k]
     /\ value[Len(text)] = v

(* The text of a real with prc digits behind the point: its whole part is *)
(* right when that fits the word, and its fraction when v * p10 does.      *)
ReadsReal(text, prc, v) ==
  LET dot == Len(text) - prc
      whole == SubSeq(text, 1, dot - 1)
      fraction == SubSeq(text, dot + 1, Len(text))
  IN /\ dot > 1 /\ text[dot] = "."
     /\ \E n \in WordsOf(Whole(v)) : Reads(whole, 10, n)
     /\ Fits(Whole(v)) => Reads(whole, 10, Whole(v))
     /\ \E n \in 0 .. 10 ^ prc - 1 : Reads(fraction, 10, n)
     /\ Fits(Scaled(v, prc)) => Reads(fraction, 10, Scaled(v, prc) % 10 ^ prc)

Body(text, v) == IF v < 0 /\ text # <<>> /\ text[1] = "-" THEN Tail(text) ELSE text

(* Whatever was written before, a text means the number it was made from   *)
(* and nothing of an earlier text is behind it: an unsigned number in its  *)
(* base, a signed one with its sign, which aae_atol reads back, and a real *)
(* with as many digits as were asked for, zeros in front of the fraction,  *)
(* its whole part and its fraction right as long as the word holds v and   *)
(* v * p10.  No such conversion ends the program, but one of a real to no  *)
(* digits.                                                                 *)
TextMeansNumber ==
  LET item == said.item
      text == said.text
  IN CASE item.kind = "unsigned" -> Reads(text, item.b, item.v)
       [] item.kind = "signed" ->
            Atol(text) = item.v /\ Reads(Body(text, item.v), 10, Magnitude(item.v))
       [] item.kind = "real" /\ item.prc > 0 ->
            ReadsReal(Body(text, item.v), DigitsAsked(item.prc), item.v)
       [] OTHER -> TRUE
=============================================================================

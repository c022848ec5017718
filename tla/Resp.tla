-------------------------------- MODULE Resp --------------------------------
(***************************************************************************)
(* The bytes of a message (src/src/resp/types.rs), the two conversions     *)
(* the deserializer takes from the standard library, and, as a reference,  *)
(* the wire format of an array of bulk strings.                            *)
(*                                                                         *)
(* A byte is a string.  Of the bytes above 0x7F only two are told apart,   *)
(* one that starts a two-byte character and one that ends it.              *)
(***************************************************************************)
EXTENDS Integers, Sequences, SequencesExt

CONSTANTS
  Bytes,    \* the bytes that can occur
  MaxU32,   \* u32::MAX
  None      \* a text that is no number

ASSUME BytesAssumption == {"*", "$", "CR", "LF"} \subseteq Bytes
ASSUME U32Assumption == MaxU32 \in Nat
ASSUME NoNumberAssumption == None \notin Nat

ARRAY == "*"
BULK_STRING == "$"
CR == "CR"
LF == "LF"
CRLF == <<CR, LF>>

\* A two-byte character and its halves.
Lead == "C3"
Continuation == "A9"

Digits == <<"0", "1", "2", "3", "4", "5", "6", "7", "8", "9">>
DigitValue == [d \in ToSet(Digits) |-> CHOOSE n \in 0 .. 9 : Digits[n + 1] = d]

IsNumber(digits) == digits # <<>> /\ \A i \in DOMAIN digits : digits[i] \in DOMAIN DigitValue

\* The number that digits spell: of the first i of them, ten times that of those before.
ValueOf(digits) ==
  LET first[i \in 0 .. Len(digits)] ==
        IF i = 0 THEN 0 ELSE 10 * first[i - 1] + DigitValue[digits[i]]
  IN  first[Len(digits)]

\* str::parse::<u32>: an optional +, then one digit or more; None out of range.
U32(text) ==
  LET digits == IF text # <<>> /\ text[1] = "+" THEN Tail(text) ELSE text
  IN  IF IsNumber(digits) /\ ValueOf(digits) \in 0 .. MaxU32 THEN ValueOf(digits) ELSE None

\* str::from_utf8: every lead byte has its continuation, and no other byte is one.
IsUtf8(text) ==
  \A i \in DOMAIN text :
    /\ text[i] = Lead => i < Len(text) /\ text[i + 1] = Continuation
    /\ text[i] = Continuation => i > 1 /\ text[i - 1] = Lead

Strings == {s \in Seq(Bytes) : IsUtf8(s)}

-----------------------------------------------------------------------------
(* The reference: what a client sends. *)

BulkString(size, text) == <<BULK_STRING>> \o size \o CRLF \o text \o CRLF

\* The array of the strings ps, whose sizes are spelled as sizes says.
Encode(count, sizes, ps) ==
  <<ARRAY>> \o count \o CRLF \o FlattenSeq([i \in DOMAIN ps |-> BulkString(sizes[i], ps[i])])

\* The texts inside msg that are numbers.
NumeralsIn(msg) ==
  {t \in {SubSeq(msg, i, j) : i \in 1 .. Len(msg), j \in 1 .. Len(msg)} : U32(t) # None}

\* Is msg an encoding of ps that spells the sizes with numerals?
Encodes(msg, ps, numerals) ==
  \E count \in {t \in numerals : U32(t) = Len(ps)}, sizes \in [DOMAIN ps -> numerals] :
    /\ \A i \in DOMAIN ps : U32(sizes[i]) = Len(ps[i])
    /\ msg = Encode(count, sizes, ps)
=============================================================================

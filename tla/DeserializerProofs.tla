------------------------- MODULE DeserializerProofs -------------------------
(***************************************************************************)
(* For every sequence of bytes, of any length and with any sizes in it:    *)
(* the cursor of the deserializer stays in the message; what is accepted   *)
(* is the encoding of the strings that are returned; and an encoding of    *)
(* one string or more is accepted, and gives those strings.                *)
(***************************************************************************)
EXTENDS Deserializer, SequenceLemmas

(***************************************************************************)
(* CursorInMessage speaks of the bytes taken between two rounds only; in   *)
(* the middle of a round each function relies on how far the one before it *)
(* has gone, and on the round being one of those that array_size allows.   *)
(***************************************************************************)
Rounds ==
  /\ at = "start" => params = <<>>
  /\ at \in {"size", "data", "jump"} => left > 0
  /\ at = "size" => cursor >= 4 + 6 * Len(params)
  /\ at = "data" => cursor >= 8 + 6 * Len(params)
  /\ at = "jump" => cursor >= 2 + 6 * Len(params)

IInv == TypeOK /\ CursorInMessage /\ Rounds

\* A text that is a number has a digit.
LEMMA NumeralIsNotEmpty ==
  ASSUME NEW text, U32(text) # None
  PROVE  text # <<>> /\ U32(text) \in 0 .. MaxU32
BY DEF U32, IsNumber

\* A set of positions has a first one.
LEMMA FirstPosition ==
  ASSUME NEW S \in SUBSET Nat, S # {}
  PROVE  Min(S) \in S
BY LeastNatural DEF Min

\* The first CRLF from a position on is one, and inside the message.
LEMMA FirstCrLf ==
  ASSUME msg \in Seq(Bytes), NEW from \in Nat, CrLfs(from) # {}
  PROVE  /\ Min(CrLfs(from)) \in Nat
         /\ Min(CrLfs(from)) >= from
         /\ Min(CrLfs(from)) + 1 < Len(msg)
<1>1. CrLfs(from) \subseteq from .. Len(msg) - 2
  BY DEF CrLfs
<1>2. Min(CrLfs(from)) \in CrLfs(from)
  BY <1>1, FirstPosition
<1>3. QED
  BY <1>1, <1>2

\* A slice inside the message.
LEMMA SliceType ==
  ASSUME msg \in Seq(Bytes), NEW from \in Nat, NEW to \in Nat, from <= to, to <= Len(msg)
  PROVE  Slice(from, to) \in Seq(Bytes) /\ (from = to => Slice(from, to) = <<>>)
BY DEF Slice

-----------------------------------------------------------------------------
(* One lemma per action. *)

\* The initial state.
LEMMA InitInvariant == Init => IInv
<1> SUFFICES ASSUME Init PROVE IInv
  OBVIOUS
<1>1. msg \in Seq(Bytes) /\ Len(msg) \in Nat
  BY InputsAssumption DEF Init
<1>2. params \in Seq(Strings) /\ Len(params) = 0
  BY EmptySeq DEF Init
<1>3. QED
  BY <1>1, <1>2, U32Assumption DEF Init, IInv, TypeOK, CursorInMessage, Rounds

\* A message that is refused leaves everything else as it is.
LEMMA RefuseStep ==
  ASSUME IInv, NEW e \in Errors, Refuse(e)
  PROVE  IInv'
BY DEF IInv, TypeOK, CursorInMessage, Rounds, Refuse

\* The message does not begin as an array.
LEMMA InvalidStartStep == IInv /\ InvalidStart => IInv'
BY RefuseStep DEF InvalidStart, Errors

\* The number of elements, which has a digit, is in the message.
LEMMA ArraySizeStep == IInv /\ ArraySize => IInv'
<1> SUFFICES ASSUME IInv, ArraySize PROVE IInv'
  OBVIOUS
<1> DEFINE cr_pos == Min(CrLfs(1))
           n == U32(Slice(1, cr_pos))
<1>1. CASE Refuse("MalformedArray")
  BY <1>1, RefuseStep DEF Errors
<1>2. CASE ~Refuse("MalformedArray")
  <2> HIDE DEF cr_pos, n
  <2>1. /\ CrLfs(1) # {} /\ n # None
        /\ cursor' = 1 /\ lf_pos' = cr_pos + 1 /\ left' = n /\ at' = "element"
        /\ UNCHANGED <<msg, size, params, error>>
    BY <1>2 DEF ArraySize, cr_pos, n
  <2>2. cr_pos \in Nat /\ cr_pos >= 1 /\ cr_pos + 1 < Len(msg) /\ Len(msg) \in Nat
    BY <2>1, FirstCrLf DEF cr_pos, IInv, TypeOK
  <2>3. cr_pos > 1
    <3>1. msg \in Seq(Bytes) /\ 1 \in Nat /\ cr_pos <= Len(msg)
      BY <2>2 DEF IInv, TypeOK
    <3>2. Slice(1, cr_pos) # <<>>
      BY <2>1, NumeralIsNotEmpty DEF n
    <3>3. QED
      BY <2>2, <3>1, <3>2, SliceType
  <2>4. n \in 0 .. MaxU32
    BY <2>1, NumeralIsNotEmpty DEF n
  <2>5. Len(params) = 0
    BY EmptySeq DEF IInv, Rounds, ArraySize
  <2>6. TypeOK'
    BY <2>1, <2>2, <2>4 DEF IInv, TypeOK
  <2>7. CursorInMessage' /\ Rounds'
    BY <2>1, <2>2, <2>3, <2>5 DEF CursorInMessage, Rounds
  <2>8. QED
    BY <2>6, <2>7 DEF IInv
<1>3. QED
  BY <1>1, <1>2

\* The type of the next element.
LEMMA CheckBulkStringTypeStep == IInv /\ CheckBulkStringType => IInv'
<1> SUFFICES ASSUME IInv, CheckBulkStringType PROVE IInv'
  OBVIOUS
<1>1. CASE \E e \in Errors : Refuse(e)
  BY <1>1, RefuseStep
<1>2. CASE /\ Has(lf_pos + 1, BULK_STRING)
           /\ cursor' = lf_pos + 1
           /\ at' = "size"
           /\ UNCHANGED <<msg, lf_pos, left, size, params, error>>
  <2>1. lf_pos + 1 < Len(msg) /\ Len(msg) \in Nat /\ Len(params) \in Nat
    BY <1>2 DEF Has, IInv, TypeOK
  <2>2. TypeOK'
    BY <1>2, <2>1 DEF IInv, TypeOK
  <2>3. CursorInMessage' /\ Rounds'
    BY <1>2, <2>1 DEF IInv, TypeOK, CursorInMessage, Rounds, CheckBulkStringType
  <2>4. QED
    BY <2>2, <2>3 DEF IInv
<1>3. QED
  BY <1>1, <1>2 DEF CheckBulkStringType, Errors

\* The size of a string, which has a digit, is in the message.
LEMMA BulkStringSizeStep == IInv /\ BulkStringSize => IInv'
<1> SUFFICES ASSUME IInv, BulkStringSize PROVE IInv'
  OBVIOUS
<1> DEFINE from == cursor + 1
           cr_pos == Min(CrLfs(from))
           n == U32(Slice(from, cr_pos))
<1>1. CASE Refuse("MalformedBulkString")
  BY <1>1, RefuseStep DEF Errors
<1>2. CASE ~Refuse("MalformedBulkString")
  <2>1. msg \in Seq(Bytes) /\ from \in Nat /\ Len(params) \in Nat /\ Len(msg) \in Nat
    BY DEF IInv, TypeOK
  <2> HIDE DEF cr_pos, n
  <2>2. /\ CrLfs(from) # {} /\ n # None
        /\ size' = n /\ lf_pos' = cr_pos + 1 /\ cursor' = cr_pos + 2 /\ at' = "data"
        /\ UNCHANGED <<msg, left, params, error>>
    BY <1>2 DEF BulkStringSize, cr_pos, n
  <2>3. cr_pos \in Nat /\ cr_pos >= from /\ cr_pos + 1 < Len(msg)
    BY <2>1, <2>2, FirstCrLf DEF cr_pos
  <2>4. cr_pos > from
    <3>1. Slice(from, cr_pos) # <<>>
      BY <2>2, NumeralIsNotEmpty DEF n
    <3>2. cr_pos <= Len(msg)
      BY <2>1, <2>3
    <3>3. from = cr_pos => Slice(from, cr_pos) = <<>>
      BY <2>1, <2>3, <3>2, SliceType
    <3>4. QED
      BY <2>1, <2>3, <3>1, <3>3
  <2>5. n \in 0 .. MaxU32
    BY <2>2, NumeralIsNotEmpty DEF n
  <2>6. TypeOK'
    BY <2>1, <2>2, <2>3, <2>5 DEF IInv, TypeOK
  <2>7. CursorInMessage' /\ Rounds'
    BY <2>1, <2>2, <2>3, <2>4 DEF IInv, TypeOK, CursorInMessage, Rounds, BulkStringSize
  <2>8. QED
    BY <2>6, <2>7 DEF IInv
<1>3. QED
  BY <1>1, <1>2

\* The bytes of a string are in the message.
LEMMA BulkStringDataStep == IInv /\ BulkStringData => IInv'
<1> SUFFICES ASSUME IInv, BulkStringData PROVE IInv'
  OBVIOUS
<1> DEFINE text == Slice(cursor, cursor + size)
<1>1. CASE Refuse("MalformedBulkString")
  BY <1>1, RefuseStep DEF Errors
<1>2. CASE ~Refuse("MalformedBulkString")
  <2>1. /\ cursor < Len(msg) /\ Len(msg) - cursor >= size
        /\ IsUtf8(text)
        /\ params' = Append(params, text) /\ at' = "jump"
        /\ UNCHANGED <<msg, cursor, lf_pos, left, size, error>>
    BY <1>2 DEF BulkStringData
  <2>2. /\ msg \in Seq(Bytes) /\ Len(msg) \in Nat
        /\ cursor \in Nat /\ size \in Nat /\ cursor + size \in Nat
        /\ cursor + size <= Len(msg) /\ cursor <= cursor + size
    BY <2>1, U32Assumption DEF IInv, TypeOK
  <2>3. text \in Strings
    BY <2>1, <2>2, SliceType DEF Strings
  <2> HIDE DEF text
  <2>4. params \in Seq(Strings) /\ Len(params) \in Nat
    BY DEF IInv, TypeOK
  <2>5. params' \in Seq(Strings) /\ Len(params') = Len(params) + 1
    BY <2>1, <2>3, <2>4
  <2>6. TypeOK'
    BY <2>1, <2>5 DEF IInv, TypeOK
  <2>7. CursorInMessage' /\ Rounds'
    BY <2>1, <2>2, <2>4, <2>5 DEF IInv, CursorInMessage, Rounds, BulkStringData
  <2>8. QED
    BY <2>6, <2>7 DEF IInv
<1>3. QED
  BY <1>1, <1>2

\* So is the line break after them.
LEMMA JumpToLfStep == IInv /\ JumpToLf => IInv'
<1> SUFFICES ASSUME IInv, JumpToLf PROVE IInv'
  OBVIOUS
<1>1. CASE Refuse("MalformedBulkString")
  BY <1>1, RefuseStep DEF Errors
<1>2. CASE ~Refuse("MalformedBulkString")
  <2>1. /\ cursor + size + 1 < Len(msg)
        /\ cursor' = cursor + size + 1 /\ lf_pos' = cursor + size + 1
        /\ left' = left - 1 /\ at' = "element"
        /\ UNCHANGED <<msg, size, params, error>>
    BY <1>2 DEF JumpToLf, Has
  <2>2. /\ Len(params) \in Nat /\ Len(msg) \in Nat /\ cursor \in Nat /\ size \in Nat
        /\ left \in 1 .. MaxU32
        /\ cursor >= 2 + 6 * Len(params)
    BY U32Assumption DEF IInv, TypeOK, Rounds, JumpToLf
  <2>3. TypeOK'
    BY <2>1, <2>2, U32Assumption DEF IInv, TypeOK
  <2>4. CursorInMessage' /\ Rounds'
    BY <2>1, <2>2 DEF CursorInMessage, Rounds
  <2>5. QED
    BY <2>3, <2>4 DEF IInv
<1>3. QED
  BY <1>1, <1>2

\* There is no element left.
LEMMA EndOfMsgStep == IInv /\ EndOfMsg => IInv'
<1> SUFFICES ASSUME IInv, EndOfMsg PROVE IInv'
  OBVIOUS
<1>1. CASE Refuse("MalformedArray")
  BY <1>1, RefuseStep DEF Errors
<1>2. CASE ~Refuse("MalformedArray")
  BY <1>2 DEF EndOfMsg, IInv, TypeOK, CursorInMessage, Rounds
<1>3. QED
  BY <1>1, <1>2

-----------------------------------------------------------------------------

\* So every step keeps the invariant.
LEMMA InvariantStep == IInv /\ [Next]_vars => IInv'
<1>1. IInv /\ UNCHANGED vars => IInv'
  BY DEF vars, IInv, TypeOK, CursorInMessage, Rounds
<1>2. QED
  BY <1>1, InvalidStartStep, ArraySizeStep, CheckBulkStringTypeStep, BulkStringSizeStep,
     BulkStringDataStep, JumpToLfStep, EndOfMsgStep DEF Next

(***************************************************************************)
(* The invariant of the deserializer (deserializer.rs:30-119), for every   *)
(* set of inputs.                                                          *)
(***************************************************************************)
THEOREM InvariantHolds == Spec => []IInv
BY InitInvariant, InvariantStep, PTL DEF Spec

(***************************************************************************)
(* The cursor, the counters and the strings keep their types: in           *)
(* particular, left is never counted below 0 and every string is UTF-8.    *)
(***************************************************************************)
THEOREM TypeCorrect == Spec => []TypeOK
BY InvariantHolds, PTL DEF IInv

(***************************************************************************)
(* No message makes deserialize_msg index or slice out of range (lines 67, *)
(* 97, 100), nor go around its loop more often than it has bytes for.      *)
(***************************************************************************)
THEOREM CursorStaysInMessage == Spec => []CursorInMessage
BY InvariantHolds, PTL DEF IInv

-----------------------------------------------------------------------------
(* The message taken apart. *)

\* One byte of the message.
LEMMA CutByte ==
  ASSUME msg \in Seq(Bytes), NEW i \in Nat, NEW byte, Has(i, byte)
  PROVE  SubSeq(msg, i + 1, i + 1) = <<byte>>
<1> DEFINE m == i + 1
<1>1. m \in 1 .. Len(msg) /\ m \in m .. Len(msg) /\ msg[m] = byte /\ m \in Int
      /\ m + 1 \in Int /\ m < m + 1 /\ byte \in Bytes
  BY DEF Has
<1> HIDE DEF m
<1>2. SubSeq(msg, m, m) = <<msg[m]>> \o SubSeq(msg, m + 1, m)
  BY <1>1, SubSeqRecursiveFirst
<1>3. SubSeq(msg, m + 1, m) = <<>>
  BY <1>1, SubSeqEmpty
<1>4. <<byte>> \in Seq(Bytes)
  BY <1>1
<1>5. <<byte>> \o <<>> = <<byte>>
  BY <1>4, ConcatEmptySeq
<1>6. QED
  BY <1>1, <1>2, <1>3, <1>5 DEF m

\* The two of a line break.
LEMMA CutCrLf ==
  ASSUME msg \in Seq(Bytes), NEW i \in Nat, Has(i, CR), Has(i + 1, LF)
  PROVE  SubSeq(msg, i + 1, i + 2) = CRLF
<1>1. i + 1 \in Nat /\ i + 2 \in Nat /\ i + 2 <= Len(msg) /\ i + 1 + 1 = i + 2
  BY DEF Has
<1>2. SubSeq(msg, i + 1, i + 2) = SubSeq(msg, i + 1, i + 1) \o SubSeq(msg, i + 2, i + 2)
  BY <1>1, Cut
<1>3. SubSeq(msg, i + 1, i + 1) = <<CR>> /\ SubSeq(msg, i + 2, i + 2) = <<LF>>
  BY <1>1, CutByte
<1>4. <<CR>> \o <<LF>> = <<CR, LF>>
  <2>1. CR \in Bytes /\ LF \in Bytes
    BY BytesAssumption DEF CR, LF
  <2>2. QED
    BY <2>1, PairJoined
<1>5. QED
  BY <1>2, <1>3, <1>4 DEF CRLF

\* The texts that are numbers are made of the bytes of the message.
LEMMA NumeralsType ==
  ASSUME msg \in Seq(Bytes)
  PROVE  NumeralsIn(msg) \subseteq Seq(Bytes)
<1>1. ASSUME NEW i \in 1 .. Len(msg), NEW j \in 1 .. Len(msg)
      PROVE  SubSeq(msg, i, j) \in Seq(Bytes)
  OBVIOUS
<1>2. ASSUME NEW t \in NumeralsIn(msg) PROVE t \in Seq(Bytes)
  <2>1. PICK i \in 1 .. Len(msg), j \in 1 .. Len(msg) : t = SubSeq(msg, i, j)
    BY <1>2 DEF NumeralsIn
  <2>2. QED
    BY <1>1, <2>1
<1>3. QED
  BY <1>2

\* A slice that is a number is one of them.
LEMMA SliceNumeral ==
  ASSUME msg \in Seq(Bytes), NEW from \in Nat, NEW to \in Nat, from < to, to <= Len(msg),
         U32(Slice(from, to)) # None
  PROVE  Slice(from, to) \in NumeralsIn(msg)
<1>1. from + 1 \in 1 .. Len(msg) /\ to \in 1 .. Len(msg)
  OBVIOUS
<1>2. QED
  BY <1>1 DEF Slice, NumeralsIn

-----------------------------------------------------------------------------
(* Encodings, one element after the other. *)

\* What an array begins with.
Count(count) == <<ARRAY>> \o count \o CRLF

\* Its elements.
Elements(sizes, ps) == [i \in DOMAIN ps |-> BulkString(sizes[i], ps[i])]

\* The bytes of the types and of a line break.
LEMMA ByteTypes ==
  /\ <<ARRAY>> \in Seq(Bytes) /\ <<BULK_STRING>> \in Seq(Bytes) /\ CRLF \in Seq(Bytes)
  /\ Len(<<BULK_STRING>>) = 1 /\ Len(<<ARRAY>>) = 1 /\ Len(CRLF) = 2
BY BytesAssumption DEF ARRAY, BULK_STRING, CRLF, CR, LF

\* The length of what it begins with.
LEMMA CountType ==
  ASSUME NEW count \in Seq(Bytes)
  PROVE  Count(count) \in Seq(Bytes) /\ Len(Count(count)) = Len(count) + 3
<1> DEFINE a == <<ARRAY>>
<1>1. a \in Seq(Bytes) /\ CRLF \in Seq(Bytes)
  BY ByteTypes
<1>2. Len(a) = 1 /\ Len(CRLF) = 2
  BY ByteTypes
<1> HIDE DEF a
<1>3. a \o count \in Seq(Bytes) /\ Len(a \o count) = Len(a) + Len(count)
  BY <1>1
<1>4. /\ (a \o count) \o CRLF \in Seq(Bytes)
      /\ Len((a \o count) \o CRLF) = Len(a \o count) + Len(CRLF)
  BY <1>1, <1>3
<1>5. Len((a \o count) \o CRLF) = Len(count) + 3
  <2>1. Len(count) \in Nat
    OBVIOUS
  <2>2. QED
    BY <1>2, <1>3, <1>4, <2>1
<1>6. QED
  BY <1>4, <1>5 DEF Count, a

\* An encoding is what it begins with, and its elements.
LEMMA EncodeParts ==
  ASSUME NEW count \in Seq(Bytes), NEW ps \in Seq(Seq(Bytes)), NEW sizes,
         \A i \in 1 .. Len(ps) : sizes[i] \in Seq(Bytes)
  PROVE  /\ Encode(count, sizes, ps) = Count(count) \o FlattenSeq(Elements(sizes, ps))
         /\ Count(count) \in Seq(Bytes) /\ Len(Count(count)) = Len(count) + 3
         /\ Elements(sizes, ps) \in Seq(Seq(Bytes)) /\ Len(Elements(sizes, ps)) = Len(ps)
         /\ FlattenSeq(Elements(sizes, ps)) \in Seq(Bytes)
<1>1. Encode(count, sizes, ps) = Count(count) \o FlattenSeq(Elements(sizes, ps))
  BY DEF Encode, Count, Elements
<1>2. Count(count) \in Seq(Bytes) /\ Len(Count(count)) = Len(count) + 3
  BY CountType
<1>3. \A i \in 1 .. Len(ps) : BulkString(sizes[i], ps[i]) \in Seq(Bytes)
  BY ByteTypes DEF BulkString
<1>4. Elements(sizes, ps) \in Seq(Seq(Bytes)) /\ Len(Elements(sizes, ps)) = Len(ps)
  <2> DEFINE n == Len(ps)
             e == Elements(sizes, ps)
  <2>1. n \in Nat /\ DOMAIN ps = 1 .. n
    OBVIOUS
  <2>2. \A i \in 1 .. n : BulkString(sizes[i], ps[i]) \in Seq(Bytes)
    BY <1>3
  <2>3. e = [i \in 1 .. n |-> BulkString(sizes[i], ps[i])]
    BY <2>1 DEF Elements
  <2> HIDE DEF n, e
  <2>4. e \in Seq(Seq(Bytes)) /\ Len(e) = n
    BY <2>1, <2>2, <2>3
  <2>5. QED
    BY <2>4 DEF n, e
<1>5. QED
  BY <1>1, <1>2, <1>4, FlattenType

\* An array of nothing.
LEMMA EncodeNone ==
  ASSUME NEW count \in Seq(Bytes), NEW sizes
  PROVE  Encode(count, sizes, <<>>) = Count(count)
<1>1. Elements(sizes, <<>>) = <<>>
  BY DEF Elements
<1>2. <<>> \in Seq(Seq(Bytes)) /\ \A i \in 1 .. Len(<<>>) : sizes[i] \in Seq(Bytes)
  OBVIOUS
<1>3. /\ Encode(count, sizes, <<>>) = Count(count) \o FlattenSeq(Elements(sizes, <<>>))
      /\ Count(count) \in Seq(Bytes)
  BY <1>2, EncodeParts
<1>4. QED
  BY <1>1, <1>3, FlattenEmpty

\* An element more, at the end.
OneMore(count, sizes, ps, t, p) ==
  Encode(count, Append(sizes, t), Append(ps, p)) = Encode(count, sizes, ps) \o BulkString(t, p)

\* That is where the encoding of an array of one more has it.
LEMMA EncodeAppend ==
  ASSUME NEW count \in Seq(Bytes), NEW ps \in Seq(Seq(Bytes)), NEW sizes \in Seq(Seq(Bytes)),
         Len(sizes) = Len(ps), NEW t \in Seq(Bytes), NEW p \in Seq(Bytes)
  PROVE  OneMore(count, sizes, ps, t, p)
<1> DEFINE more == Append(sizes, t)
           qs == Append(ps, p)
           e == Elements(sizes, ps)
           b == BulkString(t, p)
<1>1. /\ more \in Seq(Seq(Bytes)) /\ qs \in Seq(Seq(Bytes))
      /\ Len(more) = Len(ps) + 1 /\ Len(qs) = Len(ps) + 1
      /\ \A i \in 1 .. Len(ps) : more[i] = sizes[i] /\ qs[i] = ps[i]
      /\ more[Len(ps) + 1] = t /\ qs[Len(ps) + 1] = p
      /\ Len(ps) \in Nat
  OBVIOUS
<1>2. b \in Seq(Bytes)
  BY ByteTypes DEF BulkString
<1>3. /\ Encode(count, sizes, ps) = Count(count) \o FlattenSeq(e)
      /\ Count(count) \in Seq(Bytes) /\ e \in Seq(Seq(Bytes)) /\ Len(e) = Len(ps)
      /\ FlattenSeq(e) \in Seq(Bytes)
  <2>1. \A i \in 1 .. Len(ps) : sizes[i] \in Seq(Bytes)
    OBVIOUS
  <2>2. QED
    BY <2>1, EncodeParts
<1>4. /\ Encode(count, more, qs) = Count(count) \o FlattenSeq(Elements(more, qs))
      /\ Elements(more, qs) \in Seq(Seq(Bytes)) /\ Len(Elements(more, qs)) = Len(ps) + 1
  <2>1. \A i \in 1 .. Len(qs) : more[i] \in Seq(Bytes)
    BY <1>1
  <2> HIDE DEF more, qs
  <2>2. QED
    BY <1>1, <2>1, EncodeParts
<1>5. Elements(more, qs) = Append(e, b)
  <2> DEFINE n == Len(ps)
  <2>1. n \in Nat /\ DOMAIN qs = 1 .. n + 1 /\ DOMAIN ps = 1 .. n
    BY <1>1
  <2>2. /\ \A i \in 1 .. n : BulkString(more[i], qs[i]) = BulkString(sizes[i], ps[i])
        /\ BulkString(more[n + 1], qs[n + 1]) = b
    BY <1>1
  <2> HIDE DEF more, qs, b, n
  <2>3. Elements(more, qs) = [i \in 1 .. n + 1 |-> BulkString(more[i], qs[i])]
    BY <2>1 DEF Elements
  <2>4. e = [i \in 1 .. n |-> BulkString(sizes[i], ps[i])]
    BY <2>1 DEF Elements
  <2>5. e \in Seq(Seq(Bytes)) /\ Len(e) = n
    BY <1>3 DEF n
  <2> HIDE DEF e
  <2> DEFINE f == Append(e, b)
             g == Elements(more, qs)
  <2>6. /\ f \in Seq(Seq(Bytes)) /\ Len(f) = n + 1 /\ f[n + 1] = b
        /\ \A i \in 1 .. n : f[i] = e[i]
    BY <1>2, <2>1, <2>5, AppendElements
  <2>7. g \in Seq(Seq(Bytes)) /\ Len(g) = n + 1
    BY <1>4 DEF n
  <2>8. \A i \in 1 .. n + 1 : g[i] = BulkString(more[i], qs[i])
    BY <2>3
  <2>9. \A i \in 1 .. n : e[i] = BulkString(sizes[i], ps[i])
    BY <2>4
  <2> HIDE DEF f, g
  <2>10. \A i \in 1 .. n + 1 : g[i] = f[i]
    <3>1. ASSUME NEW i \in 1 .. n + 1 PROVE g[i] = f[i]
      <4>1. CASE i = n + 1
        BY <2>2, <2>6, <2>8, <4>1
      <4>2. CASE i \in 1 .. n
        BY <2>2, <2>6, <2>8, <2>9, <4>2
      <4>3. QED
        BY <2>1, <4>1, <4>2
    <3>2. QED
      BY <3>1
  <2>11. g = f
    BY <2>6, <2>7, <2>10, SeqEqual
  <2>12. QED
    BY <2>11 DEF f, g
<1>6. FlattenSeq(Append(e, b)) = FlattenSeq(e) \o b
  <2> HIDE DEF e, b
  <2>1. QED
    BY <1>2, <1>3, FlattenAppend
<1>7. Count(count) \o (FlattenSeq(e) \o b) = (Count(count) \o FlattenSeq(e)) \o b
  <2> DEFINE x == Count(count)
             y == FlattenSeq(e)
  <2>1. x \in Seq(Bytes) /\ y \in Seq(Bytes) /\ b \in Seq(Bytes)
    BY <1>2, <1>3
  <2> HIDE DEF x, y, b
  <2>2. Shifts(x, y, b)
    BY <2>1, ConcatShifts
  <2>3. QED
    BY <2>2 DEF Shifts, x, y
<1>8. QED
  BY <1>3, <1>4, <1>5, <1>6, <1>7 DEF OneMore

-----------------------------------------------------------------------------
(* What has been read is the encoding of what is returned. *)

\* The spellings of the number of strings, n, and of their lengths.
Spells(m, count, sizes, ps, n) ==
  /\ count \in NumeralsIn(m) /\ U32(count) = n
  /\ sizes \in Seq(NumeralsIn(m)) /\ Len(sizes) = Len(ps)
  /\ \A i \in 1 .. Len(ps) : U32(sizes[i]) = Len(ps[i])

\* The first k bytes of m are those of the first strings, ps, of an array of n.
Begins(m, k, ps, n) ==
  \E count, sizes : Spells(m, count, sizes, ps, n) /\ SubSeq(m, 1, k) = Encode(count, sizes, ps)

\* Between the positions k and c the length of a string, n, is announced.
Sized(m, k, c, n) ==
  \E t \in NumeralsIn(m) : U32(t) = n /\ SubSeq(m, k + 1, c) = <<BULK_STRING>> \o t \o CRLF

(***************************************************************************)
(* Sound speaks of the end; this is what has been read at each place, and  *)
(* where the cursor is between two rounds, for the end to be told by it.   *)
(***************************************************************************)
Parsed ==
  /\ at = "element" =>
       /\ Begins(msg, lf_pos + 1, params, left + Len(params))
       /\ cursor = IF params = <<>> THEN 1 ELSE lf_pos
  /\ at = "size" =>
       /\ Begins(msg, lf_pos + 1, params, left + Len(params))
       /\ cursor = lf_pos + 1 /\ Has(cursor, BULK_STRING)
  /\ at = "data" =>
       \E k \in 0 .. cursor :
         Begins(msg, k, params, left + Len(params)) /\ Sized(msg, k, cursor, size)
  /\ at = "jump" =>
       \E k \in 0 .. cursor, before \in Seq(Strings) :
         /\ params = Append(before, Slice(cursor, cursor + size))
         /\ Begins(msg, k, before, left + Len(before)) /\ Sized(msg, k, cursor, size)
  /\ at = "accepted" => params # <<>> /\ Begins(msg, Len(msg), params, Len(params))

\* The first CRLF from a position on.
LEMMA FirstIsCrLf ==
  ASSUME msg \in Seq(Bytes), NEW from \in Nat, CrLfs(from) # {}
  PROVE  Has(Min(CrLfs(from)), CR) /\ Has(Min(CrLfs(from)) + 1, LF)
<1>1. CrLfs(from) \in SUBSET Nat
  BY DEF CrLfs
<1>2. Min(CrLfs(from)) \in CrLfs(from)
  BY <1>1, FirstPosition
<1>3. QED
  BY <1>2 DEF CrLfs

\* A byte that announces a type, a numeral and a line break.
LEMMA Announced ==
  ASSUME msg \in Seq(Bytes), NEW k \in Nat, NEW c \in Nat, k < c, NEW byte, Has(k, byte),
         Has(c, CR), Has(c + 1, LF)
  PROVE  SubSeq(msg, k + 1, c + 2) = <<byte>> \o Slice(k + 1, c) \o CRLF
<1>1. /\ k + 1 \in Nat /\ c + 2 \in Nat /\ c <= Len(msg) /\ c + 2 <= Len(msg)
      /\ k <= k + 1 /\ k + 1 <= c /\ k <= c /\ c <= c + 2
  BY DEF Has
<1>2. SubSeq(msg, k + 1, c + 2) = SubSeq(msg, k + 1, c) \o SubSeq(msg, c + 1, c + 2)
  BY <1>1, Cut
<1>3. SubSeq(msg, k + 1, c) = SubSeq(msg, k + 1, k + 1) \o SubSeq(msg, k + 1 + 1, c)
  BY <1>1, Cut
<1>4. SubSeq(msg, k + 1, k + 1) = <<byte>>
  BY CutByte
<1>5. SubSeq(msg, c + 1, c + 2) = CRLF
  BY CutCrLf
<1>6. QED
  BY <1>2, <1>3, <1>4, <1>5 DEF Slice

\* The spelling of one length more.
LEMMA SpellsMore ==
  ASSUME NEW m, NEW count, NEW sizes, NEW n, NEW ps \in Seq(Seq(Bytes)), NEW p \in Seq(Bytes),
         NEW t \in NumeralsIn(m), U32(t) = Len(p), Spells(m, count, sizes, ps, n)
  PROVE  Spells(m, count, Append(sizes, t), Append(ps, p), n)
<1> DEFINE more == Append(sizes, t)
           qs == Append(ps, p)
<1>1. /\ more \in Seq(NumeralsIn(m)) /\ Len(more) = Len(sizes) + 1
      /\ more[Len(sizes) + 1] = t
      /\ \A i \in 1 .. Len(sizes) : more[i] = sizes[i]
  BY AppendElements DEF Spells
<1>2. /\ Len(qs) = Len(ps) + 1 /\ qs[Len(ps) + 1] = p
      /\ \A i \in 1 .. Len(ps) : qs[i] = ps[i]
  BY AppendElements
<1>3. Len(ps) \in Nat
  OBVIOUS
<1>4. Len(sizes) = Len(ps) /\ \A i \in 1 .. Len(ps) : U32(sizes[i]) = Len(ps[i])
  BY DEF Spells
<1> HIDE DEF more, qs
<1>5. \A i \in 1 .. Len(ps) + 1 : i = Len(ps) + 1 \/ i \in 1 .. Len(ps)
  BY <1>3
<1>6. \A i \in 1 .. Len(qs) : U32(more[i]) = Len(qs[i])
  BY <1>1, <1>2, <1>3, <1>4, <1>5
<1>7. QED
  BY <1>1, <1>2, <1>4, <1>6 DEF Spells, more, qs

\* Nothing but the count has been read.
LEMMA BeginsEmpty ==
  ASSUME msg \in Seq(Bytes), NEW count \in NumeralsIn(msg), NEW k,
         SubSeq(msg, 1, k) = <<ARRAY>> \o count \o CRLF
  PROVE  Begins(msg, k, <<>>, U32(count))
<1>1. count \in Seq(Bytes)
  BY NumeralsType
<1>2. Spells(msg, count, <<>>, <<>>, U32(count))
  BY EmptySeq DEF Spells
<1>3. Encode(count, <<>>, <<>>) = <<ARRAY>> \o count \o CRLF
  BY <1>1, EncodeNone DEF Count
<1>4. QED
  BY <1>2, <1>3 DEF Begins

\* One string more has been.
LEMMA BeginsMore ==
  ASSUME msg \in Seq(Bytes), NEW ps \in Seq(Strings), NEW n, NEW k \in Nat, NEW c \in Nat,
         NEW s \in Nat, k <= c, Begins(msg, k, ps, n), Sized(msg, k, c, s),
         Slice(c, c + s) \in Strings, Has(c + s, CR), Has(c + s + 1, LF)
  PROVE  Begins(msg, c + s + 2, Append(ps, Slice(c, c + s)), n)
<1> DEFINE p == Slice(c, c + s)
           m == c + s
<1>1. /\ m \in Nat /\ m + 2 \in Nat /\ c <= m /\ m <= m + 2 /\ m <= Len(msg) /\ m + 2 <= Len(msg)
      /\ 0 <= k /\ 0 <= c /\ 0 <= m /\ c <= Len(msg)
  BY DEF Has
<1>2. PICK count, sizes :
        Spells(msg, count, sizes, ps, n) /\ SubSeq(msg, 1, k) = Encode(count, sizes, ps)
  BY DEF Begins
<1>3. PICK t \in NumeralsIn(msg) :
        U32(t) = s /\ SubSeq(msg, k + 1, c) = <<BULK_STRING>> \o t \o CRLF
  BY DEF Sized
<1>4. /\ count \in Seq(Bytes) /\ t \in Seq(Bytes) /\ sizes \in Seq(Seq(Bytes))
      /\ p \in Seq(Bytes) /\ ps \in Seq(Seq(Bytes)) /\ Len(sizes) = Len(ps)
  <2>1. Strings \subseteq Seq(Bytes)
    BY DEF Strings
  <2>2. QED
    BY <1>2, <1>3, <2>1, NumeralsType, SeqMonotonic DEF Spells
<1>5. Len(p) = s
  <2>1. 0 \in Nat /\ SubSeq(msg, c + 1, m) = p /\ m - c = s
    BY DEF Slice
  <2> HIDE DEF p, m
  <2>2. QED
    BY <1>1, <2>1, Cut
<1>6. Spells(msg, count, Append(sizes, t), Append(ps, p), n)
  <2> HIDE DEF p
  <2>1. QED
    BY <1>2, <1>3, <1>4, <1>5, SpellsMore, Zenon
<1>7. SubSeq(msg, 1, m + 2) = SubSeq(msg, 1, k) \o BulkString(t, p)
  <2> DEFINE a == SubSeq(msg, 1, k)
             b == SubSeq(msg, k + 1, c)
  <2>1. SubSeq(msg, 0 + 1, m + 2) = SubSeq(msg, 0 + 1, m) \o SubSeq(msg, m + 1, m + 2)
    BY <1>1, Cut
  <2>2. SubSeq(msg, 0 + 1, m) = SubSeq(msg, 0 + 1, c) \o SubSeq(msg, c + 1, m)
    BY <1>1, Cut
  <2>3. SubSeq(msg, 0 + 1, c) = SubSeq(msg, 0 + 1, k) \o SubSeq(msg, k + 1, c)
    BY <1>1, Cut
  <2>4. SubSeq(msg, m + 1, m + 2) = CRLF
    BY <1>1, CutCrLf
  <2>5. 0 + 1 = 1 /\ p = SubSeq(msg, c + 1, m)
    BY DEF Slice
  <2>6. SubSeq(msg, 1, m + 2) = ((a \o b) \o p) \o CRLF
    BY <2>1, <2>2, <2>3, <2>4, <2>5
  <2>7. a \in Seq(Bytes) /\ b \in Seq(Bytes) /\ CRLF \in Seq(Bytes)
    <3>1. SubSeq(msg, 0 + 1, k) \in Seq(Bytes) /\ SubSeq(msg, k + 1, c) \in Seq(Bytes)
      <4>1. 0 \in Nat /\ k <= k /\ k <= Len(msg)
        BY <1>1
      <4>2. QED
        BY <1>1, <4>1, Cut
    <3>2. QED
      BY <2>5, <3>1, ByteTypes
  <2>8. BulkString(t, p) = (b \o p) \o CRLF
    BY <1>3 DEF BulkString
  <2> HIDE DEF a, b, p
  <2>9. ((a \o b) \o p) \o CRLF = a \o ((b \o p) \o CRLF)
    <3>1. Regroups(a, b, p, CRLF)
      BY <1>4, <2>7, FourJoined
    <3>2. QED
      BY <3>1 DEF Regroups
  <2>10. QED
    BY <2>6, <2>8, <2>9 DEF a
<1>8. Encode(count, Append(sizes, t), Append(ps, p)) = Encode(count, sizes, ps) \o BulkString(t, p)
  <2> HIDE DEF p
  <2>1. OneMore(count, sizes, ps, t, p)
    BY <1>4, EncodeAppend
  <2>2. QED
    BY <2>1 DEF OneMore
<1>9. QED
  BY <1>2, <1>6, <1>7, <1>8 DEF Begins

-----------------------------------------------------------------------------
(* One lemma per action. *)

\* The invariant that Sound follows from.
Inv == IInv /\ Parsed

\* What the initial state says of it.
LEMMA InitParsed == Init => Parsed
BY DEF Init, Parsed

\* A message that is refused has nothing to show for it.
LEMMA RefuseParsed ==
  ASSUME NEW e, Refuse(e)
  PROVE  Parsed'
BY DEF Refuse, Parsed

\* The count has been read.
LEMMA ArraySizeParsed == Inv /\ ArraySize => Parsed'
<1> SUFFICES ASSUME Inv, ArraySize PROVE Parsed'
  OBVIOUS
<1> DEFINE c == Min(CrLfs(1))
           t == Slice(1, c)
<1>1. CASE Refuse("MalformedArray")
  BY <1>1, RefuseParsed
<1>2. CASE ~Refuse("MalformedArray")
  <2> HIDE DEF c, t
  <2>1. /\ Has(0, ARRAY) /\ CrLfs(1) # {} /\ U32(t) # None
        /\ cursor' = 1 /\ lf_pos' = c + 1 /\ left' = U32(t) /\ at' = "element"
        /\ UNCHANGED <<msg, size, params, error>>
    BY <1>2 DEF ArraySize, c, t
  <2>2. msg \in Seq(Bytes) /\ params = <<>>
    BY DEF Inv, IInv, TypeOK, Rounds, ArraySize
  <2>3. c \in Nat /\ c >= 1 /\ c + 1 < Len(msg) /\ Has(c, CR) /\ Has(c + 1, LF)
    BY <2>1, <2>2, FirstCrLf, FirstIsCrLf DEF c
  <2>4. c > 1
    <3>1. c = 1 => t = <<>>
      <4>1. 1 \in Nat /\ 1 <= 1 /\ 1 <= Len(msg)
        BY <2>2, <2>3
      <4>2. QED
        BY <2>2, <4>1, SliceType DEF t
    <3>2. QED
      BY <2>1, <2>3, <3>1, NumeralIsNotEmpty
  <2>5. t \in NumeralsIn(msg)
    <3>1. 1 \in Nat /\ 1 < c /\ c <= Len(msg)
      BY <2>2, <2>3, <2>4
    <3>2. QED
      BY <2>1, <2>2, <2>3, <3>1, SliceNumeral DEF t
  <2>6. SubSeq(msg, 1, c + 2) = <<ARRAY>> \o t \o CRLF
    <3>1. 0 \in Nat /\ 0 < c /\ 0 + 1 = 1
      BY <2>3
    <3>2. SubSeq(msg, 0 + 1, c + 2) = <<ARRAY>> \o Slice(0 + 1, c) \o CRLF
      BY <2>1, <2>2, <2>3, <3>1, Announced
    <3>3. QED
      BY <3>1, <3>2 DEF t
  <2>7. Begins(msg, c + 2, <<>>, U32(t))
    BY <2>2, <2>5, <2>6, BeginsEmpty
  <2>8. /\ lf_pos' + 1 = c + 2 /\ params' = <<>> /\ msg' = msg
        /\ left' + Len(params') = U32(t)
    <3>1. U32(t) \in Nat /\ Len(<<>>) = 0
      BY <2>1, NumeralIsNotEmpty, EmptySeq, U32Assumption
    <3>2. QED
      BY <2>1, <2>2, <2>3, <3>1
  <2>9. Begins(msg', lf_pos' + 1, params', left' + Len(params'))
    BY <2>7, <2>8
  <2>10. QED
    BY <2>1, <2>8, <2>9 DEF Parsed
<1>3. QED
  BY <1>1, <1>2

\* The type of the next string is where it must be.
LEMMA CheckBulkStringTypeParsed == Inv /\ CheckBulkStringType => Parsed'
<1> SUFFICES ASSUME Inv, CheckBulkStringType PROVE Parsed'
  OBVIOUS
<1>1. CASE \E e \in Errors : Refuse(e)
  BY <1>1, RefuseParsed
<1>2. CASE /\ Has(lf_pos + 1, BULK_STRING)
           /\ cursor' = lf_pos + 1
           /\ at' = "size"
           /\ UNCHANGED <<msg, lf_pos, left, size, params, error>>
  <2>1. Begins(msg, lf_pos + 1, params, left + Len(params))
    BY DEF Inv, Parsed, CheckBulkStringType
  <2>2. Begins(msg', lf_pos' + 1, params', left' + Len(params')) /\ cursor' = lf_pos' + 1
    BY <1>2, <2>1
  <2>3. Has(cursor, BULK_STRING)'
    BY <1>2 DEF Has
  <2>4. QED
    BY <1>2, <2>2, <2>3 DEF Parsed
<1>3. QED
  BY <1>1, <1>2 DEF CheckBulkStringType, Errors

\* The length of the string has been read.
LEMMA BulkStringSizeParsed == Inv /\ BulkStringSize => Parsed'
<1> SUFFICES ASSUME Inv, BulkStringSize PROVE Parsed'
  OBVIOUS
<1> DEFINE from == cursor + 1
           c == Min(CrLfs(from))
           t == Slice(from, c)
<1>1. CASE Refuse("MalformedBulkString")
  BY <1>1, RefuseParsed
<1>2. CASE ~Refuse("MalformedBulkString")
  <2>1. msg \in Seq(Bytes) /\ cursor \in Nat /\ from \in Nat /\ Len(msg) \in Nat
    BY DEF Inv, IInv, TypeOK
  <2> HIDE DEF c, t
  <2>2. /\ CrLfs(from) # {} /\ U32(t) # None
        /\ size' = U32(t) /\ lf_pos' = c + 1 /\ cursor' = c + 2 /\ at' = "data"
        /\ UNCHANGED <<msg, left, params, error>>
    BY <1>2 DEF BulkStringSize, c, t
  <2>3. /\ cursor = lf_pos + 1 /\ Has(cursor, BULK_STRING)
        /\ Begins(msg, cursor, params, left + Len(params))
    BY DEF Inv, Parsed, BulkStringSize
  <2>4. c \in Nat /\ c >= from /\ c + 1 < Len(msg) /\ Has(c, CR) /\ Has(c + 1, LF)
    BY <2>1, <2>2, FirstCrLf, FirstIsCrLf DEF c
  <2>5. c > from
    <3>1. Slice(from, c) # <<>>
      BY <2>2, NumeralIsNotEmpty DEF t
    <3>2. c <= Len(msg)
      BY <2>1, <2>4
    <3>3. from = c => Slice(from, c) = <<>>
      BY <2>1, <2>4, <3>2, SliceType
    <3>4. QED
      BY <2>1, <2>4, <3>1, <3>3
  <2>6. t \in NumeralsIn(msg)
    <3>1. from < c /\ c <= Len(msg)
      BY <2>1, <2>4, <2>5
    <3>2. QED
      BY <2>1, <2>2, <2>4, <3>1, SliceNumeral DEF t
  <2>7. SubSeq(msg, cursor + 1, c + 2) = <<BULK_STRING>> \o t \o CRLF
    <3>1. cursor < c
      BY <2>1, <2>4
    <3>2. QED
      BY <2>1, <2>3, <2>4, <3>1, Announced DEF t
  <2>8. Sized(msg, cursor, c + 2, U32(t))
    BY <2>6, <2>7 DEF Sized
  <2>9. /\ cursor \in 0 .. cursor'
        /\ Begins(msg', cursor, params', left' + Len(params'))
        /\ Sized(msg', cursor, cursor', size')
    <3>1. cursor \in 0 .. c + 2
      BY <2>1, <2>4
    <3>2. QED
      BY <2>2, <2>3, <2>8, <3>1
  <2>10. QED
    BY <2>2, <2>9 DEF Parsed
<1>3. QED
  BY <1>1, <1>2

\* The string is what stands after it.
LEMMA BulkStringDataParsed == Inv /\ BulkStringData => Parsed'
<1> SUFFICES ASSUME Inv, BulkStringData PROVE Parsed'
  OBVIOUS
<1> DEFINE text == Slice(cursor, cursor + size)
<1>1. CASE Refuse("MalformedBulkString")
  BY <1>1, RefuseParsed
<1>2. CASE ~Refuse("MalformedBulkString")
  <2>1. /\ params' = Append(params, text) /\ at' = "jump"
        /\ UNCHANGED <<msg, cursor, lf_pos, left, size, error>>
    BY <1>2 DEF BulkStringData
  <2>2. PICK k \in 0 .. cursor :
          Begins(msg, k, params, left + Len(params)) /\ Sized(msg, k, cursor, size)
    BY DEF Inv, Parsed, BulkStringData
  <2>3. params \in Seq(Strings)
    BY DEF Inv, IInv, TypeOK
  <2>4. Slice(cursor, cursor + size)' = text
    BY <2>1 DEF Slice
  <2>5. /\ k \in 0 .. cursor' /\ params' = Append(params, Slice(cursor, cursor + size)')
        /\ Begins(msg', k, params, left' + Len(params)) /\ Sized(msg', k, cursor', size')
    BY <2>1, <2>2, <2>4
  <2> HIDE DEF text
  <2>6. QED
    BY <2>1, <2>3, <2>5 DEF Parsed
<1>3. QED
  BY <1>1, <1>2

\* The string is read to its end.
LEMMA JumpToLfParsed == Inv /\ JumpToLf => Parsed'
<1> SUFFICES ASSUME Inv, JumpToLf PROVE Parsed'
  OBVIOUS
<1>1. CASE Refuse("MalformedBulkString")
  BY <1>1, RefuseParsed
<1>2. CASE ~Refuse("MalformedBulkString")
  <2>1. /\ Has(cursor + size, CR) /\ Has(cursor + size + 1, LF)
        /\ cursor' = cursor + size + 1 /\ lf_pos' = cursor + size + 1
        /\ left' = left - 1 /\ at' = "element"
        /\ UNCHANGED <<msg, size, params, error>>
    BY <1>2 DEF JumpToLf
  <2>2. PICK k \in 0 .. cursor, before \in Seq(Strings) :
          /\ params = Append(before, Slice(cursor, cursor + size))
          /\ Begins(msg, k, before, left + Len(before)) /\ Sized(msg, k, cursor, size)
    BY DEF Inv, Parsed, JumpToLf
  <2> DEFINE text == Slice(cursor, cursor + size)
  <2>3. /\ msg \in Seq(Bytes) /\ cursor \in Nat /\ size \in Nat /\ left \in Nat
        /\ params \in Seq(Strings)
    BY U32Assumption DEF Inv, IInv, TypeOK
  <2>4. text \in Strings /\ Len(params) = Len(before) + 1 /\ Len(before) \in Nat /\ params # <<>>
    <3> HIDE DEF text
    <3>1. params = Append(before, text)
      BY <2>2 DEF text
    <3>2. Len(params) = Len(before) + 1 /\ params[Len(before) + 1] = text /\ Len(before) \in Nat
      BY <3>1
    <3>3. QED
      BY <2>3, <3>2
  <2>5. Begins(msg, cursor + size + 2, params, left + Len(before))
    <3>1. k \in Nat /\ k <= cursor
      BY <2>3
    <3>2. QED
      BY <2>1, <2>2, <2>3, <2>4, <3>1, BeginsMore
  <2>6. lf_pos' + 1 = cursor + size + 2 /\ left' + Len(params) = left + Len(before)
    BY <2>1, <2>3, <2>4
  <2>7. /\ Begins(msg', lf_pos' + 1, params', left' + Len(params'))
        /\ cursor' = lf_pos' /\ params' # <<>>
    BY <2>1, <2>4, <2>5, <2>6
  <2>8. QED
    BY <2>1, <2>7 DEF Parsed
<1>3. QED
  BY <1>1, <1>2

\* The last string ends where the message does.
LEMMA EndOfMsgParsed == Inv /\ EndOfMsg => Parsed'
<1> SUFFICES ASSUME Inv, EndOfMsg PROVE Parsed'
  OBVIOUS
<1>1. CASE Refuse("MalformedArray")
  BY <1>1, RefuseParsed
<1>2. CASE ~Refuse("MalformedArray")
  <2>1. /\ at = "element" /\ left = 0 /\ cursor + 1 >= Len(msg) /\ at' = "accepted"
        /\ UNCHANGED <<msg, cursor, lf_pos, left, size, params, error>>
    BY <1>2 DEF EndOfMsg
  <2>2. /\ Begins(msg, lf_pos + 1, params, left + Len(params))
        /\ cursor = IF params = <<>> THEN 1 ELSE lf_pos
    BY <2>1 DEF Inv, Parsed
  <2>3. /\ lf_pos \in Nat /\ Len(msg) \in Nat /\ Len(params) \in Nat
        /\ lf_pos < Len(msg) /\ lf_pos + 1 >= 4 + 6 * Len(params)
    BY <2>1 DEF Inv, IInv, TypeOK, CursorInMessage
  <2>4. params # <<>>
    BY <2>1, <2>2, <2>3
  <2>5. lf_pos + 1 = Len(msg) /\ left + Len(params) = Len(params)
    BY <2>1, <2>2, <2>3, <2>4
  <2>6. Begins(msg', Len(msg'), params', Len(params')) /\ params' # <<>>
    BY <2>1, <2>2, <2>4, <2>5
  <2>7. QED
    BY <2>1, <2>6 DEF Parsed
<1>3. QED
  BY <1>1, <1>2

\* So every step keeps it.
LEMMA ParsedStep == Inv /\ [Next]_vars => Parsed'
<1>1. Inv /\ UNCHANGED vars => Parsed'
  BY DEF vars, Inv, Parsed, Has, Slice
<1>2. InvalidStart => Parsed'
  BY RefuseParsed DEF InvalidStart
<1>3. QED
  BY <1>1, <1>2, ArraySizeParsed, CheckBulkStringTypeParsed, BulkStringSizeParsed,
     BulkStringDataParsed, JumpToLfParsed, EndOfMsgParsed DEF Next

-----------------------------------------------------------------------------

\* What it says at the end.
LEMMA ParsedIsSound == Inv => Sound
<1> SUFFICES ASSUME Inv, at = "accepted"
             PROVE  params # <<>> /\ Encodes(msg, params, NumeralsIn(msg))
  BY DEF Sound
<1>1. PICK count, sizes : /\ Spells(msg, count, sizes, params, Len(params))
                          /\ SubSeq(msg, 1, Len(msg)) = Encode(count, sizes, params)
  BY DEF Inv, Parsed, Begins
<1>2. msg \in Seq(Bytes) /\ params \in Seq(Strings)
  BY DEF Inv, IInv, TypeOK
<1>3. msg = Encode(count, sizes, params)
  BY <1>1, <1>2, SubSeqFull
<1>4. DOMAIN params = 1 .. Len(params) /\ sizes \in [DOMAIN params -> NumeralsIn(msg)]
  BY <1>1, <1>2 DEF Spells
<1>5. QED
  BY <1>1, <1>3, <1>4 DEF Encodes, Spells, Inv, Parsed

(***************************************************************************)
(* What the deserializer accepts (deserializer.rs:30-119) is the encoding  *)
(* of the strings it returns, whatever the message: nothing of it is       *)
(* skipped, added or left over, and an array of none is not accepted.      *)
(***************************************************************************)
THEOREM AcceptedIsSound == Spec => []Sound
<1>1. Init => Inv
  BY InitInvariant, InitParsed DEF Inv
<1>2. Inv /\ [Next]_vars => Inv'
  BY InvariantStep, ParsedStep DEF Inv
<1>3. QED
  BY <1>1, <1>2, ParsedIsSound, PTL DEF Spec

-----------------------------------------------------------------------------
(* Where the parts of an encoding stand in the message. *)

\* A line break that stands there.
LEMMA BreakStands ==
  ASSUME NEW k \in Nat, msg \in Seq(Bytes), StandsAt(msg, k, CRLF)
  PROVE  Has(k, CR) /\ Has(k + 1, LF)
<1>1. Len(CRLF) = 2 /\ CRLF[1] = CR /\ CRLF[2] = LF
  BY DEF CRLF
<1>2. k + 2 <= Len(msg) /\ msg[k + 1] = CR /\ msg[k + 2] = LF
  BY <1>1 DEF StandsAt
<1>3. Len(msg) \in Nat /\ k + 1 + 1 = k + 2
  OBVIOUS
<1>4. QED
  BY <1>2, <1>3 DEF Has

\* A byte that stands there.
LEMMA ByteStands ==
  ASSUME NEW k \in Nat, msg \in Seq(Bytes), NEW byte, StandsAt(msg, k, <<byte>>)
  PROVE  Has(k, byte)
<1>1. k + 1 <= Len(msg) /\ msg[k + 1] = byte
  BY DEF StandsAt
<1>2. QED
  BY <1>1 DEF Has

\* A numeral is digits, one sign at most before them, and no line break.
LEMMA NumeralHasNoBreak ==
  ASSUME NEW text \in Seq(Bytes), U32(text) # None
  PROVE  \A i \in 1 .. Len(text) : text[i] # CR
<1> DEFINE digits == IF text # <<>> /\ text[1] = "+" THEN Tail(text) ELSE text
<1>1. \A i \in DOMAIN digits : digits[i] \in DOMAIN DigitValue
  <2>1. ASSUME NEW i \in DOMAIN digits, digits[i] \notin DOMAIN DigitValue
        PROVE  U32(text) = None
    BY <2>1 DEF U32, IsNumber
  <2>2. QED
    BY <2>1
<1>2. CR \notin DOMAIN DigitValue
  <2>1. DOMAIN DigitValue = {Digits[i] : i \in DOMAIN Digits}
    BY DEF DigitValue, ToSet
  <2>2. DOMAIN Digits = 1 .. 10
    BY DEF Digits
  <2>3. ASSUME NEW i \in 1 .. 10 PROVE Digits[i] # "CR"
    BY DEF Digits
  <2>4. QED
    BY <2>1, <2>2, <2>3 DEF CR
<1>3. CASE text # <<>> /\ text[1] = "+"
  <2>1. /\ DOMAIN digits = 1 .. Len(text) - 1
        /\ \A i \in 1 .. Len(text) - 1 : digits[i] = text[i + 1]
    BY <1>3
  <2> HIDE DEF digits
  <2>2. ASSUME NEW i \in 1 .. Len(text), i # 1 PROVE text[i] # CR
    <3>1. i - 1 \in 1 .. Len(text) - 1 /\ (i - 1) + 1 = i
      BY <2>2
    <3>2. QED
      BY <1>1, <1>2, <2>1, <3>1
  <2>3. QED
    BY <1>3, <2>2 DEF CR
<1>4. CASE ~ (text # <<>> /\ text[1] = "+")
  <2>1. digits = text /\ DOMAIN text = 1 .. Len(text)
    BY <1>4
  <2> HIDE DEF digits
  <2>2. QED
    BY <1>1, <1>2, <2>1
<1>5. QED
  BY <1>3, <1>4

\* The first of a set of numbers, when it is known.
LEMMA FirstIs ==
  ASSUME NEW T \in SUBSET Nat, NEW x \in T, \A y \in T : x <= y
  PROVE  Min(T) = x
<1>1. Min(T) \in T /\ \A y \in T : Min(T) <= y
  <2>1. \E y \in T : \A z \in T : y <= z
    OBVIOUS
  <2>2. QED
    BY <2>1 DEF Min
<1>2. Min(T) <= x /\ x <= Min(T) /\ x \in Nat /\ Min(T) \in Nat
  BY <1>1
<1>3. QED
  BY <1>2

\* A numeral with a line break after it is what is read from where it stands.
LEMMA NumeralRead ==
  ASSUME msg \in Seq(Bytes), NEW k \in Nat, NEW t \in Seq(Bytes), U32(t) # None,
         StandsAt(msg, k, t), StandsAt(msg, k + Len(t), CRLF)
  PROVE  /\ CrLfs(k) # {} /\ Min(CrLfs(k)) = k + Len(t)
         /\ Slice(k, k + Len(t)) = t
<1> DEFINE c == k + Len(t)
<1>1. c \in Nat /\ c >= k /\ Len(msg) \in Nat
  OBVIOUS
<1>2. Has(c, CR) /\ Has(c + 1, LF) /\ c + 1 < Len(msg)
  BY <1>1, BreakStands DEF Has
<1>3. c \in CrLfs(k)
  BY <1>1, <1>2 DEF CrLfs
<1>4. ASSUME NEW i \in CrLfs(k), i < c PROVE FALSE
  <2>1. i \in Nat /\ i >= k /\ msg[i + 1] = CR
    BY DEF CrLfs, Has
  <2>2. (i - k) + 1 \in 1 .. Len(t) /\ k + ((i - k) + 1) = i + 1
    BY <1>4, <2>1
  <2>3. msg[i + 1] = t[(i - k) + 1]
    BY <2>2 DEF StandsAt
  <2>4. QED
    BY <2>1, <2>2, <2>3, NumeralHasNoBreak
<1>5. \A i \in CrLfs(k) : c <= i
  <2>1. \A i \in CrLfs(k) : i \in Nat
    BY DEF CrLfs
  <2>2. QED
    BY <1>1, <1>4, <2>1
<1>6. Min(CrLfs(k)) = c
  <2>1. CrLfs(k) \in SUBSET Nat
    BY DEF CrLfs
  <2> HIDE DEF c
  <2>2. QED
    BY <1>3, <1>5, <2>1, FirstIs
<1>7. QED
  BY <1>3, <1>6, StandingSlice DEF Slice

-----------------------------------------------------------------------------
(* An encoding, as it is read. *)

\* The message is an encoding of ps.
IsEncoding(ps, count, sizes) ==
  /\ ps \in Seq(Strings) /\ ps # <<>>
  /\ count \in Seq(Bytes) /\ U32(count) = Len(ps)
  /\ sizes \in Seq(Seq(Bytes)) /\ Len(sizes) = Len(ps)
  /\ \A i \in 1 .. Len(ps) : U32(sizes[i]) = Len(ps[i])
  /\ msg = Encode(count, sizes, ps)

\* The bytes before the string of index j, counted from 0.
Before(ps, count, sizes, j) ==
  Len(count) + 3 + Len(FlattenSeq(SubSeq(Elements(sizes, ps), 1, j)))

\* What stands where in it.
LEMMA Layout ==
  ASSUME msg \in Seq(Bytes), NEW ps, NEW count, NEW sizes, IsEncoding(ps, count, sizes)
  PROVE  /\ StandsAt(msg, 0, Count(count))
         /\ Before(ps, count, sizes, 0) = Len(count) + 3
         /\ Before(ps, count, sizes, Len(ps)) = Len(msg)
         /\ \A j \in 0 .. Len(ps) - 1 :
              LET p == ps[j + 1]
                  t == sizes[j + 1]
                  k == Before(ps, count, sizes, j)
              IN  /\ k \in Nat /\ t \in Seq(Bytes) /\ p \in Strings /\ U32(t) = Len(p)
                  /\ Before(ps, count, sizes, j + 1) = k + Len(BulkString(t, p))
                  /\ StandsAt(msg, k, BulkString(t, p))
<1> DEFINE e == Elements(sizes, ps)
           head == Count(count)
           F(j) == FlattenSeq(SubSeq(e, 1, j))
<1>1. /\ ps \in Seq(Seq(Bytes)) /\ count \in Seq(Bytes) /\ Len(ps) \in Nat
      /\ \A i \in 1 .. Len(ps) : /\ sizes[i] \in Seq(Bytes) /\ ps[i] \in Seq(Bytes)
                                /\ ps[i] \in Strings /\ U32(sizes[i]) = Len(ps[i])
  <2>1. Strings \subseteq Seq(Bytes)
    BY DEF Strings
  <2>2. /\ ps \in Seq(Strings) /\ count \in Seq(Bytes)
        /\ sizes \in Seq(Seq(Bytes)) /\ Len(sizes) = Len(ps)
        /\ \A i \in 1 .. Len(ps) : U32(sizes[i]) = Len(ps[i])
    BY DEF IsEncoding
  <2>3. ps \in Seq(Seq(Bytes))
    BY <2>1, <2>2, SeqMonotonic
  <2>4. \A i \in 1 .. Len(ps) : ps[i] \in Strings
    BY <2>2
  <2>5. \A i \in 1 .. Len(ps) : sizes[i] \in Seq(Bytes)
    BY <2>2
  <2>6. Len(ps) \in Nat
    BY <2>2
  <2>7. QED
    BY <2>1, <2>2, <2>3, <2>4, <2>5, <2>6
<1>2. /\ msg = head \o FlattenSeq(e) /\ head \in Seq(Bytes) /\ Len(head) = Len(count) + 3
      /\ e \in Seq(Seq(Bytes)) /\ Len(e) = Len(ps) /\ FlattenSeq(e) \in Seq(Bytes)
  BY <1>1, EncodeParts DEF IsEncoding
<1>3. Len(head) = Len(count) + 3 /\ Len(e) = Len(ps) /\ Len(ps) \in Nat /\ Len(count) \in Nat
  <2> HIDE DEF e, head
  <2>1. QED
    BY <1>1, <1>2
<1>4. \A j \in 0 .. Len(ps) - 1 : e[j + 1] = BulkString(sizes[j + 1], ps[j + 1])
  <2>1. e = [i \in 1 .. Len(ps) |-> BulkString(sizes[i], ps[i])]
    BY <1>1 DEF Elements
  <2>2. \A i \in 1 .. Len(ps) : e[i] = BulkString(sizes[i], ps[i])
    BY <2>1
  <2>3. QED
    BY <1>1, <2>2
<1> HIDE DEF e, head
<1>5. Joins(msg, head, FlattenSeq(e)) /\ StandsAt(msg, 0, msg)
  BY <1>2 DEF Joins, StandsAt
<1>6. StandsAt(msg, 0, head)
  <2>1. 0 \in Nat
    OBVIOUS
  <2>2. QED
    BY <1>2, <1>5, <2>1, PartsStand
<1>7. \A j \in 0 .. Len(ps) : SubSeq(e, 1, j) \in Seq(Seq(Bytes))
  BY <1>1, <1>2
<1>8. \A j \in 0 .. Len(ps) : F(j) \in Seq(Bytes) /\ Len(F(j)) \in Nat
  <2>1. ASSUME NEW j \in 0 .. Len(ps) PROVE F(j) \in Seq(Bytes)
    BY <1>7, FlattenType
  <2> HIDE DEF F
  <2>2. QED
    BY <2>1
<1>9. F(0) = <<>> /\ F(Len(ps)) = FlattenSeq(e)
  <2>1. SubSeq(e, 1, 0) = <<>>
    BY SubSeqEmpty
  <2>2. SubSeq(e, 1, Len(ps)) = e
    BY <1>2, SubSeqFull
  <2>3. QED
    BY <2>1, <2>2, FlattenEmpty
<1>10. Before(ps, count, sizes, 0) = Len(count) + 3
  <2>1. Before(ps, count, sizes, 0) = Len(count) + 3 + Len(<<>>)
    BY <1>9 DEF Before, e
  <2>2. Len(<<>>) = 0 /\ Len(count) \in Nat
    BY <1>1
  <2>3. QED
    BY <2>1, <2>2
<1>11. Before(ps, count, sizes, Len(ps)) = Len(msg)
  <2>1. Before(ps, count, sizes, Len(ps)) = Len(count) + 3 + Len(FlattenSeq(e))
    BY <1>9 DEF Before, e
  <2>2. Len(msg) = Len(head) + Len(FlattenSeq(e)) /\ Len(FlattenSeq(e)) \in Nat
    <3> DEFINE all == FlattenSeq(e)
    <3>1. all \in Seq(Bytes) /\ head \in Seq(Bytes) /\ Joins(msg, head, all)
      BY <1>2, <1>5
    <3> HIDE DEF all
    <3>2. Len(msg) = Len(head) + Len(all) /\ Len(all) \in Nat
      BY <3>1, JoinsElements
    <3>3. QED
      BY <3>2 DEF all
  <2>3. QED
    BY <1>3, <2>1, <2>2
<1>12. ASSUME NEW j \in 0 .. Len(ps) - 1
       PROVE  /\ Before(ps, count, sizes, j) \in Nat
              /\ Before(ps, count, sizes, j + 1) = Before(ps, count, sizes, j) + Len(e[j + 1])
              /\ StandsAt(msg, Before(ps, count, sizes, j), e[j + 1])
  <2> DEFINE f == F(j)
             b == e[j + 1]
             k == Before(ps, count, sizes, j)
  <2>1. /\ j \in 0 .. Len(ps) /\ j \in Nat /\ j < Len(e)
        /\ j + 1 \in 0 .. Len(ps) /\ j + 1 \in 0 .. Len(e)
        /\ j + 1 \in 1 .. Len(e)
    BY <1>3
  <2>2. f \in Seq(Bytes) /\ Len(f) \in Nat
    BY <1>8, <2>1
  <2>3. b \in Seq(Bytes)
    BY <1>2, <2>1
  <2>4. F(j + 1) = f \o b
    <3>1. SubSeq(e, 1, j + 1) = Append(SubSeq(e, 1, j), b)
      BY <1>2, <2>1, PrefixAndNext
    <3>2. SubSeq(e, 1, j) \in Seq(Seq(Bytes))
      BY <1>7, <2>1
    <3>3. FlattenSeq(Append(SubSeq(e, 1, j), b)) = FlattenSeq(SubSeq(e, 1, j)) \o b
      <4> HIDE DEF b
      <4>1. QED
        BY <2>3, <3>2, FlattenAppend
    <3>4. QED
      BY <3>1, <3>3
  <2>5. PICK r \in Seq(Bytes) : FlattenSeq(e) = F(j + 1) \o r
    BY <1>2, <2>1, FlattenPrefix
  <2>6. k = Len(head) + Len(f) /\ k \in Nat
    <3>1. k = Len(count) + 3 + Len(f)
      BY DEF Before, e
    <3>2. QED
      BY <1>3, <2>2, <3>1
  <2>7. Before(ps, count, sizes, j + 1) = k + Len(b)
    <3> DEFINE more == F(j + 1)
               k1 == Before(ps, count, sizes, j + 1)
    <3>1. k1 = Len(count) + 3 + Len(more)
      BY DEF Before, e
    <3>2. Joins(more, f, b)
      BY <2>4 DEF Joins
    <3> HIDE DEF F, f, b, k, more, k1
    <3>3. Len(more) = Len(f) + Len(b)
      BY <2>2, <2>3, <3>2, JoinsElements
    <3>4. Len(b) \in Nat /\ Len(f) \in Nat
      BY <2>2, <2>3
    <3>5. k1 = k + Len(b)
      BY <1>3, <2>6, <3>1, <3>3, <3>4
    <3>6. QED
      BY <3>5 DEF k1
  <2> HIDE DEF F, f, b, k
  <2>8. Joins(msg, (head \o f) \o b, r)
    <3>1. msg = head \o ((f \o b) \o r)
      BY <1>2, <2>4, <2>5
    <3>2. QED
      BY <1>2, <2>2, <2>3, <2>5, <3>1, Together
  <2>9. StandsAt(msg, k, b)
    <3> DEFINE hf == head \o f
               hfb == hf \o b
    <3>1. Joins(hf, head, f) /\ Joins(hfb, hf, b)
      BY DEF Joins
    <3>2. Joins(msg, hfb, r)
      BY <2>8
    <3> HIDE DEF hf, hfb
    <3>3. hf \in Seq(Bytes) /\ Len(hf) = k
      BY <1>2, <2>2, <2>6, <3>1, JoinsElements
    <3>4. hfb \in Seq(Bytes)
      BY <2>3, <3>1, <3>3, JoinsElements
    <3>5. 0 \in Nat /\ 0 + k = k
      BY <2>6
    <3>6. StandsAt(msg, 0, hfb)
      BY <1>5, <2>5, <3>2, <3>4, <3>5, PartsStand
    <3>7. StandsAt(msg, 0 + Len(hf), b)
      BY <2>3, <3>1, <3>3, <3>5, <3>6, PartsStand
    <3>8. QED
      BY <3>3, <3>5, <3>7
  <2>10. QED
    BY <2>6, <2>7, <2>9 DEF k, b
<1>13. QED
  <2>1. \A j \in 0 .. Len(ps) - 1 : j + 1 \in 1 .. Len(ps)
    BY <1>1
  <2>2. QED
    BY <1>1, <1>4, <1>6, <1>10, <1>11, <1>12, <2>1 DEF head
\* A string as it is sent, part by part.
LEMMA BulkParts ==
  ASSUME msg \in Seq(Bytes), NEW k \in Nat, NEW t \in Seq(Bytes), NEW p \in Seq(Bytes),
         StandsAt(msg, k, BulkString(t, p))
  PROVE  /\ Has(k, BULK_STRING)
         /\ StandsAt(msg, k + 1, t) /\ StandsAt(msg, k + 1 + Len(t), CRLF)
         /\ StandsAt(msg, k + Len(t) + 3, p) /\ StandsAt(msg, k + Len(t) + 3 + Len(p), CRLF)
         /\ Len(BulkString(t, p)) = Len(t) + Len(p) + 5
<1> DEFINE s1 == <<BULK_STRING>>
           s2 == s1 \o t
           s3 == s2 \o CRLF
           s4 == s3 \o p
           s5 == s4 \o CRLF
           n == Len(t)
           m == Len(p)
<1>1. s1 \in Seq(Bytes) /\ CRLF \in Seq(Bytes)
  BY ByteTypes
<1>2. Len(s1) = 1 /\ Len(CRLF) = 2
  BY ByteTypes
<1>3. Joins(s2, s1, t) /\ Joins(s3, s2, CRLF) /\ Joins(s4, s3, p) /\ Joins(s5, s4, CRLF)
  BY DEF Joins
<1>4. StandsAt(msg, k, s5) /\ BulkString(t, p) = s5
  BY DEF BulkString
<1>5. n \in Nat /\ m \in Nat
  OBVIOUS
<1>6. StandsAt(msg, k, s1) => Has(k, BULK_STRING)
  BY ByteStands
<1> HIDE DEF s1, s2, s3, s4, s5
<1>7. s2 \in Seq(Bytes) /\ Len(s2) = Len(s1) + Len(t)
  BY <1>1, <1>3, JoinsElements
<1>8. s3 \in Seq(Bytes) /\ Len(s3) = Len(s2) + Len(CRLF)
  BY <1>1, <1>3, <1>7, JoinsElements
<1>9. s4 \in Seq(Bytes) /\ Len(s4) = Len(s3) + Len(p)
  BY <1>3, <1>8, JoinsElements
<1>10. Len(s5) = Len(s4) + Len(CRLF)
  BY <1>1, <1>3, <1>9, JoinsElements
<1>11. StandsAt(msg, k, s4) /\ StandsAt(msg, k + Len(s4), CRLF)
  BY <1>1, <1>3, <1>4, <1>9, PartsStand
<1>12. StandsAt(msg, k, s3) /\ StandsAt(msg, k + Len(s3), p)
  BY <1>3, <1>8, <1>11, PartsStand
<1>13. StandsAt(msg, k, s2) /\ StandsAt(msg, k + Len(s2), CRLF)
  BY <1>1, <1>3, <1>7, <1>12, PartsStand
<1>14. StandsAt(msg, k, s1) /\ StandsAt(msg, k + Len(s1), t)
  BY <1>1, <1>3, <1>13, PartsStand
<1>15. Len(s2) = n + 1 /\ Len(s3) = n + 3 /\ Len(s4) = n + m + 3 /\ Len(s5) = n + m + 5
  <2>1. Len(s2) = 1 + n /\ Len(s3) = Len(s2) + 2 /\ Len(s4) = Len(s3) + m /\ Len(s5) = Len(s4) + 2
    BY <1>2, <1>7, <1>8, <1>9, <1>10
  <2> HIDE DEF n, m
  <2>2. QED
    BY <1>5, <2>1
<1>16. /\ k + Len(s1) = k + 1 /\ k + Len(s2) = k + 1 + n /\ k + Len(s3) = k + n + 3
       /\ k + Len(s4) = k + n + 3 + m
  <2> HIDE DEF n, m
  <2>1. QED
    BY <1>2, <1>5, <1>15
<1>17. QED
  BY <1>4, <1>6, <1>11, <1>12, <1>13, <1>14, <1>15, <1>16

\* A string is bytes.
LEMMA StringBytes == Strings \subseteq Seq(Bytes)
BY DEF Strings

\* The position k is that of a string p of the length that t spells; it ends at the position e.
ReadableAt(k, t, p, e) ==
  /\ k \in Nat /\ Len(t) \in Nat /\ Len(p) \in Nat
  /\ Has(k, BULK_STRING)
  /\ CrLfs(k + 1) # {} /\ Min(CrLfs(k + 1)) = k + 1 + Len(t)
  /\ Slice(k + 1, k + 1 + Len(t)) = t
  /\ Slice(k + Len(t) + 3, k + Len(t) + 3 + Len(p)) = p
  /\ Has(k + Len(t) + 3 + Len(p), CR) /\ Has(k + Len(t) + 3 + Len(p) + 1, LF)
  /\ e = k + Len(t) + Len(p) + 5

\* So does the deserializer come upon it.
LEMMA StringRead ==
  ASSUME msg \in Seq(Bytes), NEW k \in Nat, NEW t \in Seq(Bytes), NEW p \in Seq(Bytes),
         U32(t) # None, StandsAt(msg, k, BulkString(t, p))
  PROVE  ReadableAt(k, t, p, k + Len(BulkString(t, p)))
<1> DEFINE c == k + Len(t) + 3
<1>1. Len(p) \in Nat /\ Len(t) \in Nat
  OBVIOUS
<1>2. /\ Has(k, BULK_STRING)
      /\ StandsAt(msg, k + 1, t) /\ StandsAt(msg, k + 1 + Len(t), CRLF)
      /\ StandsAt(msg, c, p) /\ StandsAt(msg, c + Len(p), CRLF)
      /\ Len(BulkString(t, p)) = Len(t) + Len(p) + 5
  BY BulkParts
<1>3. k + 1 \in Nat /\ c \in Nat /\ c + Len(p) \in Nat
  BY <1>1
<1> HIDE DEF c
<1>4. /\ CrLfs(k + 1) # {} /\ Min(CrLfs(k + 1)) = k + 1 + Len(t)
      /\ Slice(k + 1, k + 1 + Len(t)) = t
  BY <1>2, <1>3, NumeralRead
<1>5. SubSeq(msg, c + 1, c + Len(p)) = p
  BY <1>2, <1>3, StandingSlice
<1>6. Has(c + Len(p), CR) /\ Has(c + Len(p) + 1, LF)
  BY <1>2, <1>3, BreakStands
<1>7. k + Len(BulkString(t, p)) = k + Len(t) + Len(p) + 5
  <2>1. Len(BulkString(t, p)) = Len(t) + Len(p) + 5
    BY <1>2
  <2>2. QED
    BY <1>1, <2>1
<1>8. QED
  BY <1>1, <1>2, <1>4, <1>5, <1>6, <1>7 DEF ReadableAt, Slice, c

\* The string of index j, from 0.
LEMMA NextString ==
  ASSUME msg \in Seq(Bytes), NEW ps, NEW count, NEW sizes, IsEncoding(ps, count, sizes),
         NEW j \in 0 .. Len(ps) - 1
  PROVE  /\ ReadableAt(Before(ps, count, sizes, j), sizes[j + 1], ps[j + 1],
                       Before(ps, count, sizes, j + 1))
         /\ ps[j + 1] \in Strings /\ U32(sizes[j + 1]) = Len(ps[j + 1])
<1> DEFINE k == Before(ps, count, sizes, j)
           t == sizes[j + 1]
           p == ps[j + 1]
<1>1. /\ k \in Nat /\ t \in Seq(Bytes) /\ p \in Strings /\ U32(t) = Len(p)
      /\ Before(ps, count, sizes, j + 1) = k + Len(BulkString(t, p))
      /\ StandsAt(msg, k, BulkString(t, p))
  BY Layout
<1> HIDE DEF k, t, p
<1>2. p \in Seq(Bytes)
  BY <1>1, StringBytes
<1>3. U32(t) # None
  <2>1. Len(p) \in Nat
    BY <1>2
  <2>2. QED
    BY <1>1, <2>1, NoNumberAssumption
<1>4. ReadableAt(k, t, p, k + Len(BulkString(t, p)))
  BY <1>1, <1>2, <1>3, StringRead
<1>5. QED
  BY <1>1, <1>4 DEF k, t, p

\* The count, as the deserializer comes upon it.
LEMMA CountRead ==
  ASSUME msg \in Seq(Bytes), NEW ps, NEW count, NEW sizes, IsEncoding(ps, count, sizes)
  PROVE  /\ Has(0, ARRAY) /\ Len(count) \in Nat
         /\ CrLfs(1) # {} /\ Min(CrLfs(1)) = 1 + Len(count) /\ Slice(1, 1 + Len(count)) = count
<1> DEFINE s1 == <<ARRAY>>
           s2 == s1 \o count
           s3 == s2 \o CRLF
<1>1. s1 \in Seq(Bytes) /\ CRLF \in Seq(Bytes) /\ count \in Seq(Bytes) /\ 0 \in Nat /\ 1 \in Nat
  BY ByteTypes DEF IsEncoding
<1>2. Len(s1) = 1 /\ Len(CRLF) = 2
  BY ByteTypes
<1>3. U32(count) # None
  <2>1. U32(count) = Len(ps) /\ Len(ps) \in Nat
    BY DEF IsEncoding
  <2>2. QED
    BY <2>1, NoNumberAssumption
<1>4. Joins(s2, s1, count) /\ Joins(s3, s2, CRLF)
  BY DEF Joins
<1>5. StandsAt(msg, 0, s3)
  BY Layout DEF Count
<1>6. StandsAt(msg, 0, s1) => Has(0, ARRAY)
  BY <1>1, ByteStands
<1> HIDE DEF s1, s2, s3
<1>7. s2 \in Seq(Bytes) /\ Len(s2) = Len(s1) + Len(count)
  BY <1>1, <1>4, JoinsElements
<1>8. StandsAt(msg, 0, s2) /\ StandsAt(msg, 0 + Len(s2), CRLF)
  BY <1>1, <1>4, <1>5, <1>7, PartsStand
<1>9. StandsAt(msg, 0, s1) /\ StandsAt(msg, 0 + Len(s1), count)
  BY <1>1, <1>4, <1>8, PartsStand
<1>10. Len(count) \in Nat
  BY <1>1
<1>11. 0 + Len(s1) = 1 /\ 0 + Len(s2) = 1 + Len(count)
  BY <1>2, <1>7, <1>10
<1>12. StandsAt(msg, 1, count) /\ StandsAt(msg, 1 + Len(count), CRLF)
  BY <1>8, <1>9, <1>11
<1>13. /\ CrLfs(1) # {} /\ Min(CrLfs(1)) = 1 + Len(count) /\ Slice(1, 1 + Len(count)) = count
  BY <1>1, <1>3, <1>12, NumeralRead
<1>14. QED
  BY <1>6, <1>9, <1>10, <1>13

-----------------------------------------------------------------------------
(* An encoding is never refused. *)

(***************************************************************************)
(* Complete speaks of the end.  Until then, in a message that is an        *)
(* encoding of ps, the strings read are its first, and the cursor is where *)
(* the next one is to be looked for.                                       *)
(***************************************************************************)
Follows(ps, count, sizes) ==
  LET j == Len(params)
      P(i) == Before(ps, count, sizes, i)
  IN  /\ at # "refused"
      /\ j <= Len(ps) /\ \A i \in 1 .. j : params[i] = ps[i]
      /\ at = "element" =>
           left = Len(ps) - j /\ lf_pos + 1 = P(j) /\ (j > 0 => cursor = lf_pos)
      /\ at = "size" =>
           left = Len(ps) - j /\ j < Len(ps) /\ cursor = P(j)
      /\ at = "data" =>
           /\ left = Len(ps) - j /\ j < Len(ps)
           /\ cursor = P(j) + Len(sizes[j + 1]) + 3 /\ size = Len(ps[j + 1])
      /\ at = "jump" =>
           /\ left = Len(ps) - j + 1 /\ j > 0
           /\ cursor = P(j - 1) + Len(sizes[j]) + 3 /\ size = Len(ps[j])
      /\ at = "accepted" => j = Len(ps)

\* The count is read, and it is the number of strings.
LEMMA ArraySizeFollows ==
  ASSUME NEW ps, NEW count, NEW sizes, IInv, IsEncoding(ps, count, sizes),
         Follows(ps, count, sizes), ArraySize
  PROVE  Follows(ps, count, sizes)'
<1>1. msg \in Seq(Bytes) /\ params = <<>> /\ Len(params) = 0
  BY EmptySeq DEF IInv, TypeOK, Rounds, ArraySize
<1>2. /\ Has(0, ARRAY) /\ Len(count) \in Nat
      /\ CrLfs(1) # {} /\ Min(CrLfs(1)) = 1 + Len(count) /\ Slice(1, 1 + Len(count)) = count
  BY <1>1, CountRead
<1>3. U32(count) = Len(ps) /\ Len(ps) \in Nat /\ U32(count) # None
  <2>1. U32(count) = Len(ps) /\ Len(ps) \in Nat
    BY DEF IsEncoding
  <2>2. QED
    BY <2>1, NoNumberAssumption
<1>4. /\ cursor' = 1 /\ lf_pos' = 1 + Len(count) + 1 /\ left' = Len(ps) /\ at' = "element"
      /\ params' = <<>> /\ Len(params') = 0
  BY <1>1, <1>2, <1>3 DEF ArraySize
<1>5. Before(ps, count, sizes, 0) = Len(count) + 3
  BY <1>1, Layout
<1>6. lf_pos' + 1 = Before(ps, count, sizes, Len(params')) /\ left' = Len(ps) - Len(params')
  BY <1>2, <1>3, <1>4, <1>5
<1>7. Len(params') <= Len(ps) /\ \A i \in 1 .. Len(params') : params'[i] = ps[i]
  BY <1>3, <1>4
<1>8. QED
  BY <1>4, <1>6, <1>7 DEF Follows

\* Another string follows, and its type is where it is looked for.
LEMMA CheckBulkStringTypeFollows ==
  ASSUME NEW ps, NEW count, NEW sizes, IInv, IsEncoding(ps, count, sizes),
         Follows(ps, count, sizes), CheckBulkStringType
  PROVE  Follows(ps, count, sizes)'
<1> DEFINE j == Len(params)
<1>1. msg \in Seq(Bytes) /\ j \in Nat /\ Len(msg) \in Nat /\ lf_pos \in Nat
  BY DEF IInv, TypeOK
<1>2. Len(ps) \in Nat
  BY DEF IsEncoding
<1>3. /\ left > 0 /\ left = Len(ps) - j /\ lf_pos + 1 = Before(ps, count, sizes, j)
      /\ j <= Len(ps) /\ \A i \in 1 .. j : params[i] = ps[i]
  BY DEF Follows, CheckBulkStringType
<1>4. j \in 0 .. Len(ps) - 1 /\ j < Len(ps)
  BY <1>1, <1>2, <1>3
<1>5. Has(lf_pos + 1, BULK_STRING)
  BY <1>1, <1>3, <1>4, NextString DEF ReadableAt
<1>6. lf_pos + 1 < Len(msg)
  BY <1>5 DEF Has
<1>7. /\ cursor' = lf_pos + 1 /\ at' = "size" /\ left' = left /\ params' = params
  BY <1>1, <1>5, <1>6 DEF CheckBulkStringType
<1>8. QED
  BY <1>3, <1>4, <1>7 DEF Follows

\* Its length is read.
LEMMA BulkStringSizeFollows ==
  ASSUME NEW ps, NEW count, NEW sizes, IInv, IsEncoding(ps, count, sizes),
         Follows(ps, count, sizes), BulkStringSize
  PROVE  Follows(ps, count, sizes)'
<1> DEFINE j == Len(params)
           t == sizes[j + 1]
<1>1. msg \in Seq(Bytes) /\ j \in Nat
  BY DEF IInv, TypeOK
<1>2. Len(ps) \in Nat
  BY DEF IsEncoding
<1>3. /\ left = Len(ps) - j /\ cursor = Before(ps, count, sizes, j) /\ j < Len(ps)
      /\ j <= Len(ps) /\ \A i \in 1 .. j : params[i] = ps[i]
  BY DEF Follows, BulkStringSize
<1>4. j \in 0 .. Len(ps) - 1
  BY <1>1, <1>2, <1>3
<1>5. /\ CrLfs(cursor + 1) # {} /\ Min(CrLfs(cursor + 1)) = cursor + 1 + Len(t)
      /\ Slice(cursor + 1, cursor + 1 + Len(t)) = t
      /\ U32(t) = Len(ps[j + 1]) /\ Len(ps[j + 1]) \in Nat /\ cursor \in Nat /\ Len(t) \in Nat
  BY <1>1, <1>3, <1>4, NextString DEF ReadableAt
<1>6. U32(t) # None
  BY <1>5, NoNumberAssumption
<1>7. /\ cursor' = cursor + 1 + Len(t) + 2 /\ size' = Len(ps[j + 1]) /\ at' = "data"
      /\ left' = left /\ params' = params
  BY <1>5, <1>6 DEF BulkStringSize
<1>8. cursor' = Before(ps, count, sizes, j) + Len(t) + 3
  <2> DEFINE k == Before(ps, count, sizes, j)
             n == Len(t)
  <2>1. cursor' = cursor + 1 + n + 2 /\ cursor = k /\ k \in Nat /\ n \in Nat
    BY <1>3, <1>5, <1>7
  <2> HIDE DEF k, n
  <2>2. cursor' = k + n + 3
    BY <2>1
  <2>3. QED
    BY <2>2 DEF k, n
<1>9. QED
  BY <1>3, <1>7, <1>8 DEF Follows

\* It is what stands there.
LEMMA BulkStringDataFollows ==
  ASSUME NEW ps, NEW count, NEW sizes, IInv, IsEncoding(ps, count, sizes),
         Follows(ps, count, sizes), BulkStringData
  PROVE  Follows(ps, count, sizes)'
<1> DEFINE j == Len(params)
           p == ps[j + 1]
<1>1. msg \in Seq(Bytes) /\ j \in Nat /\ params \in Seq(Strings) /\ Len(msg) \in Nat
  BY DEF IInv, TypeOK
<1>2. Len(ps) \in Nat
  BY DEF IsEncoding
<1>3. /\ left = Len(ps) - j /\ j < Len(ps) /\ size = Len(p)
      /\ cursor = Before(ps, count, sizes, j) + Len(sizes[j + 1]) + 3
      /\ j <= Len(ps) /\ \A i \in 1 .. j : params[i] = ps[i]
  BY DEF Follows, BulkStringData
<1>4. j \in 0 .. Len(ps) - 1
  BY <1>1, <1>2, <1>3
<1>5. /\ Slice(cursor, cursor + size) = p /\ p \in Strings
      /\ Has(cursor + size, CR) /\ cursor \in Nat /\ size \in Nat
  <2> DEFINE k == Before(ps, count, sizes, j)
             t == sizes[j + 1]
  <2>1. p \in Strings /\ ReadableAt(k, t, p, Before(ps, count, sizes, j + 1))
    BY <1>1, <1>4, NextString
  <2>2. cursor = k + Len(t) + 3 /\ size = Len(p)
    BY <1>3
  <2> HIDE DEF k, t, p
  <2>3. k \in Nat /\ Len(t) \in Nat /\ Len(p) \in Nat
    BY <2>1 DEF ReadableAt
  <2>4. cursor \in Nat /\ size \in Nat
    BY <2>2, <2>3
  <2>5. Slice(cursor, cursor + size) = p /\ Has(cursor + size, CR)
    BY <2>1, <2>2 DEF ReadableAt
  <2>6. QED
    BY <2>1, <2>4, <2>5
<1>6. cursor < Len(msg) /\ Len(msg) - cursor >= size
  <2>1. cursor + size < Len(msg)
    BY <1>5 DEF Has
  <2>2. QED
    BY <1>1, <1>5, <2>1
<1>7. IsUtf8(p)
  BY <1>5 DEF Strings
<1>8. /\ params' = Append(params, p) /\ at' = "jump"
      /\ left' = left /\ cursor' = cursor /\ size' = size
  BY <1>1, <1>5, <1>6, <1>7 DEF BulkStringData
<1>9. /\ Len(params') = j + 1 /\ params'[j + 1] = p
      /\ \A i \in 1 .. j : params'[i] = params[i]
  <2> HIDE DEF p
  <2>1. QED
    BY <1>1, <1>5, <1>8, AppendElements
<1>10. \A i \in 1 .. j + 1 : params'[i] = ps[i]
  <2> HIDE DEF j
  <2>1. \A i \in 1 .. j + 1 : i \in 1 .. j \/ i = j + 1
    BY <1>1
  <2>2. QED
    BY <1>3, <1>9, <2>1
<1>11. j + 1 <= Len(ps) /\ left = Len(ps) - (j + 1) + 1 /\ j + 1 > 0 /\ (j + 1) - 1 = j
  BY <1>1, <1>2, <1>3
<1>12. QED
  <2> HIDE DEF j
  <2>1. QED
    BY <1>3, <1>8, <1>9, <1>10, <1>11 DEF Follows

\* So does the line break after it, and the next string begins there.
LEMMA JumpToLfFollows ==
  ASSUME NEW ps, NEW count, NEW sizes, IInv, IsEncoding(ps, count, sizes),
         Follows(ps, count, sizes), JumpToLf
  PROVE  Follows(ps, count, sizes)'
<1> DEFINE j == Len(params)
           k == Before(ps, count, sizes, j - 1)
           t == sizes[j]
<1>1. msg \in Seq(Bytes) /\ j \in Nat
  BY DEF IInv, TypeOK
<1>2. Len(ps) \in Nat
  BY DEF IsEncoding
<1>3. /\ left = Len(ps) - j + 1 /\ j > 0 /\ size = Len(ps[j])
      /\ cursor = k + Len(t) + 3
      /\ j <= Len(ps) /\ \A i \in 1 .. j : params[i] = ps[i]
  BY DEF Follows, JumpToLf
<1>4. j - 1 \in 0 .. Len(ps) - 1 /\ (j - 1) + 1 = j
  BY <1>1, <1>2, <1>3
<1>5. ReadableAt(k, t, ps[j], Before(ps, count, sizes, j))
  BY <1>1, <1>4, NextString
<1>6. /\ Has(cursor + size, CR) /\ Has(cursor + size + 1, LF)
      /\ k \in Nat /\ Len(t) \in Nat /\ size \in Nat
      /\ Before(ps, count, sizes, j) = k + Len(t) + size + 5
  BY <1>3, <1>5 DEF ReadableAt
<1>7. /\ cursor' = cursor + size + 1 /\ lf_pos' = cursor + size + 1
      /\ left' = left - 1 /\ at' = "element" /\ params' = params
  BY <1>6 DEF JumpToLf
<1>8. lf_pos' + 1 = Before(ps, count, sizes, j) /\ left' = Len(ps) - j
  <2> DEFINE n == Len(t)
             e == Before(ps, count, sizes, j)
  <2>1. /\ cursor = k + n + 3 /\ e = k + n + size + 5 /\ lf_pos' = cursor + size + 1
        /\ k \in Nat /\ n \in Nat /\ size \in Nat
    BY <1>3, <1>6, <1>7
  <2>2. left = Len(ps) - j + 1 /\ left' = left - 1 /\ j \in Nat /\ Len(ps) \in Nat
    BY <1>1, <1>2, <1>3, <1>7
  <2> HIDE DEF j, k, n, e
  <2>3. lf_pos' + 1 = e
    BY <2>1
  <2>4. left' = Len(ps) - j
    BY <2>2
  <2>5. QED
    BY <2>3, <2>4 DEF e
<1>9. cursor' = lf_pos'
  BY <1>7
<1>10. QED
  BY <1>3, <1>7, <1>8, <1>9 DEF Follows

\* After the last one the message ends.
LEMMA EndOfMsgFollows ==
  ASSUME NEW ps, NEW count, NEW sizes, IInv, IsEncoding(ps, count, sizes),
         Follows(ps, count, sizes), EndOfMsg
  PROVE  Follows(ps, count, sizes)'
<1> DEFINE j == Len(params)
<1>1. msg \in Seq(Bytes) /\ j \in Nat /\ Len(msg) \in Nat /\ lf_pos \in Nat
  BY DEF IInv, TypeOK
<1>2. Len(ps) \in Nat /\ Len(ps) > 0
  <2>1. ps \in Seq(Strings) /\ ps # <<>>
    BY DEF IsEncoding
  <2>2. QED
    BY <2>1, EmptySeq
<1>3. /\ left = 0 /\ left = Len(ps) - j /\ lf_pos + 1 = Before(ps, count, sizes, j)
      /\ (j > 0 => cursor = lf_pos)
      /\ j <= Len(ps) /\ \A i \in 1 .. j : params[i] = ps[i]
  BY DEF Follows, EndOfMsg
<1>4. j = Len(ps) /\ cursor = lf_pos
  BY <1>1, <1>2, <1>3
<1>5. Before(ps, count, sizes, Len(ps)) = Len(msg)
  BY <1>1, Layout
<1>6. cursor + 1 >= Len(msg)
  BY <1>1, <1>3, <1>4, <1>5
<1>7. at' = "accepted" /\ params' = params
  BY <1>1, <1>4, <1>6 DEF EndOfMsg
<1>8. QED
  BY <1>3, <1>4, <1>7 DEF Follows

\* In no encoding does the deserializer leave the way.
Followed ==
  \A ps \in Seq(Strings), count \in Seq(Bytes), sizes \in Seq(Seq(Bytes)) :
    IsEncoding(ps, count, sizes) => Follows(ps, count, sizes)

\* It is on it at the beginning.
LEMMA InitFollowed == Init => Followed
<1> SUFFICES ASSUME Init, NEW ps, NEW count, NEW sizes, IsEncoding(ps, count, sizes)
             PROVE  Follows(ps, count, sizes)
  BY DEF Followed
<1>1. at = "start" /\ params = <<>> /\ Len(params) = 0
  BY EmptySeq DEF Init
<1>2. Len(ps) \in Nat
  BY DEF IsEncoding
<1>3. Len(params) <= Len(ps) /\ \A i \in 1 .. Len(params) : params[i] = ps[i]
  BY <1>1, <1>2
<1>4. QED
  BY <1>1, <1>3 DEF Follows

\* Every step keeps it there.
LEMMA FollowedStep == IInv /\ Followed /\ [Next]_vars => Followed'
<1> SUFFICES ASSUME IInv, Followed, [Next]_vars,
                    NEW ps \in Seq(Strings), NEW count \in Seq(Bytes),
                    NEW sizes \in Seq(Seq(Bytes)),
                    IsEncoding(ps, count, sizes)'
             PROVE  Follows(ps, count, sizes)'
  BY DEF Followed
<1>1. msg' = msg
  BY DEF Next, vars, InvalidStart, ArraySize, CheckBulkStringType, BulkStringSize, BulkStringData,
         JumpToLf, EndOfMsg, Refuse
<1>2. IsEncoding(ps, count, sizes)
  BY <1>1 DEF IsEncoding
<1>3. Follows(ps, count, sizes)
  BY <1>2 DEF Followed
<1>4. CASE InvalidStart
  <2>1. Has(0, ARRAY)
    BY <1>2, CountRead DEF IInv, TypeOK
  <2>2. QED
    BY <1>4, <2>1 DEF InvalidStart
<1>5. CASE UNCHANGED vars
  BY <1>3, <1>5 DEF vars, Follows, Before
<1>6. QED
  BY <1>2, <1>3, <1>4, <1>5, ArraySizeFollows, CheckBulkStringTypeFollows, BulkStringSizeFollows,
     BulkStringDataFollows, JumpToLfFollows, EndOfMsgFollows DEF Next

\* At the end of it the strings of the encoding are returned.
LEMMA FollowedToTheEnd ==
  ASSUME IInv, Followed, at \in {"accepted", "refused"}, NEW ps \in Seq(Strings) \ {<<>>},
         NEW numerals \in SUBSET Seq(Bytes), Encodes(msg, ps, numerals)
  PROVE  at = "accepted" /\ params = ps
<1>1. msg \in Seq(Bytes) /\ params \in Seq(Strings)
  BY DEF IInv, TypeOK
<1>2. ps \in Seq(Strings) /\ ps # <<>>
  OBVIOUS
<1>3. PICK count \in {t \in numerals : U32(t) = Len(ps)},
           sizes \in [DOMAIN ps -> numerals] :
        /\ \A i \in DOMAIN ps : U32(sizes[i]) = Len(ps[i])
        /\ msg = Encode(count, sizes, ps)
  BY DEF Encodes
<1>4. count \in Seq(Bytes) /\ U32(count) = Len(ps)
  BY <1>3
<1>5. DOMAIN ps = 1 .. Len(ps) /\ Len(ps) \in Nat
  BY <1>2
<1>6. sizes \in Seq(Seq(Bytes)) /\ Len(sizes) = Len(ps)
  <2>1. sizes \in [1 .. Len(ps) -> Seq(Bytes)]
    BY <1>3, <1>5
  <2>2. QED
    BY <1>5, <2>1
<1>7. IsEncoding(ps, count, sizes)
  BY <1>2, <1>3, <1>4, <1>5, <1>6 DEF IsEncoding
<1>8. Follows(ps, count, sizes)
  BY <1>2, <1>4, <1>6, <1>7 DEF Followed
<1>9. at = "accepted" /\ Len(params) = Len(ps) /\ \A i \in 1 .. Len(params) : params[i] = ps[i]
  BY <1>8 DEF Follows
<1>10. params = ps
  BY <1>1, <1>2, <1>9, SeqEqual
<1>11. QED
  BY <1>9, <1>10

(***************************************************************************)
(* An array of one string or more is never refused (deserializer.rs:       *)
(* 30-119) and its strings are returned, however long it is, however its   *)
(* sizes are spelled (+3, 003) and whatever bytes its strings hold.        *)
(***************************************************************************)
THEOREM EncodingsAreAccepted == Spec => []Complete
<1>1. IInv /\ Followed => Complete
  <2> SUFFICES ASSUME IInv, Followed, at \in {"accepted", "refused"}, NEW ps \in Arrays,
                      Encodes(msg, ps, NumeralsIn(msg))
               PROVE  at = "accepted" /\ params = ps
    BY DEF Complete
  <2>1. msg \in Seq(Bytes) /\ ps \in Seq(Strings) \ {<<>>}
    BY InputsAssumption DEF IInv, TypeOK
  <2>2. NumeralsIn(msg) \in SUBSET Seq(Bytes)
    BY <2>1, NumeralsType
  <2>3. QED
    BY <2>1, <2>2, FollowedToTheEnd
<1>2. Init => IInv /\ Followed
  BY InitInvariant, InitFollowed
<1>3. IInv /\ Followed /\ [Next]_vars => (IInv /\ Followed)'
  BY InvariantStep, FollowedStep
<1>4. QED
  BY <1>1, <1>2, <1>3, PTL DEF Spec
=============================================================================

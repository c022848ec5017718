------------------------------- MODULE Replies -------------------------------
(***************************************************************************)
(* The bytes of a reply: Response::serialize (src/src/cmd/response.rs),    *)
(* and, as a reference, how a client reads replies off a stream of bytes.  *)
(* A response is its kind and the bytes of its text.                       *)
(***************************************************************************)
EXTENDS Resp, FiniteSetsExt

SIMPLE_STRING == "+"
ERROR == "-"
INTEGER == ":"
NULL == "_"
Lines == {SIMPLE_STRING, ERROR, INTEGER, NULL}   \* a reply that is one line

Null == [kind |-> NULL, text |-> <<>>]
SimpleString(text) == [kind |-> SIMPLE_STRING, text |-> text]
BulkStringReply(text) == [kind |-> BULK_STRING, text |-> text]
Integer(text) == [kind |-> INTEGER, text |-> text]
SimpleError(text) == [kind |-> ERROR, text |-> text]

\* usize::to_string.
Decimal(n) ==
  LET text[k \in 0 .. n] ==
        (IF k < 10 THEN <<>> ELSE text[k \div 10]) \o <<Digits[(k % 10) + 1]>>
  IN  text[n]

\* Mutant: the length of a bulk string counts characters.
SerializeCharacters(r) ==
  IF r.kind = BULK_STRING
  THEN BulkString(Decimal(Len(SelectSeq(r.text, LAMBDA b : b # Continuation))), r.text)
  ELSE <<r.kind>> \o r.text \o CRLF

\* Only a bulk string says how long it is; any other reply ends with the line.
Serialize(r) ==
  IF r.kind = BULK_STRING THEN BulkString(Decimal(Len(r.text)), r.text)
  ELSE <<r.kind>> \o r.text \o CRLF

\* The tests of serialize; the letters of a word make no difference.
SerializeTests ==
  LET Word(n) == [i \in 1 .. n |-> "x"]
      fourBytes == <<Lead, Continuation, Lead, Continuation>>
  IN  {<<Null, <<NULL>> \o CRLF>>}
        \cup {<<SimpleString(t), <<SIMPLE_STRING>> \o t \o CRLF>> :
                t \in {<<>>, Word(9), Word(11), fourBytes}}
        \cup {<<Integer(t), <<INTEGER>> \o t \o CRLF>> : t \in {<<"0">>, <<"4", "2">>, <<"-", "1">>}}
        \cup {<<SimpleError(Word(n)), <<ERROR>> \o Word(n) \o CRLF>> : n \in {5, 19}}
        \cup { <<BulkStringReply(<<>>), <<BULK_STRING, "0">> \o CRLF \o CRLF>>,
               <<BulkStringReply(Word(11)),
                 <<BULK_STRING, "1", "1">> \o CRLF \o Word(11) \o CRLF>>,
               <<BulkStringReply(fourBytes),
                 <<BULK_STRING, "4">> \o CRLF \o fourBytes \o CRLF>> }

-----------------------------------------------------------------------------
(* The reference: what a client makes of a stream of replies. *)

From(stream, i) == SubSeq(stream, i, Len(stream))

\* The line breaks after the first i bytes, and the line that ends with the first of them.
Breaks(stream, i) == {j \in i + 1 .. Len(stream) - 1 : stream[j] = CR /\ stream[j + 1] = LF}
LineEnd(stream, i) == Min(Breaks(stream, i))
Line(stream, i) == SubSeq(stream, i + 2, LineEnd(stream, i) - 1)

\* Does the line announce a text, and if so of what length?
Announces(stream, i) == stream[i + 1] = BULK_STRING /\ IsNumber(Line(stream, i))
Announced(stream, i) == ValueOf(Line(stream, i))

\* The reply that begins after the first i bytes: how many bytes there are up to its end, and
\* whether it has arrived in full; "?" is what is no reply.
ReplyEnd(stream, i) ==
  LineEnd(stream, i) + 1 + IF Announces(stream, i) THEN Announced(stream, i) + 2 ELSE 0
Arrived(stream, i) == Breaks(stream, i) # {} /\ ReplyEnd(stream, i) <= Len(stream)
ReplyAt(stream, i) ==
  IF Announces(stream, i)
  THEN BulkStringReply(SubSeq(stream, LineEnd(stream, i) + 2, ReplyEnd(stream, i) - 2))
  ELSE [kind |-> IF stream[i + 1] \in Lines THEN stream[i + 1] ELSE "?", text |-> Line(stream, i)]

\* The replies in a stream, from its beginning.
Decode(stream) ==
  LET after[i \in 0 .. Len(stream)] ==
        IF Arrived(stream, i) THEN <<ReplyAt(stream, i)>> \o after[ReplyEnd(stream, i)] ELSE <<>>
  IN  after[0]
=============================================================================

--------------------------- MODULE MCDeserializer ---------------------------
(* The deserializer, for the model checker: arrays, and what becomes of them. *)
EXTENDS DeserializerTests

EditBytes == {"*", "$", "CR", "LF", "+", "0", "1", "2", "x", Lead, Continuation}
MCBytes == EditBytes \cup {"3", "4", "5", "["}

Character == <<Lead, Continuation>>
Nested == Encode(<<"1">>, <<<<"0">>>>, << <<>> >>)

MCArrays == { << <<>> >>, << <<"x">> >>, << Character >>, << CRLF >>,
              << <<"x">>, <<>> >>, << <<>>, <<>> >>, << Nested >> }

Size(n) == CASE n < 3 -> <<ToString(n)>> [] n < 10 -> <<"x">> [] OTHER -> <<"1", ToString(n - 10)>>
Canonical(ps) == Encode(Size(Len(ps)), [i \in DOMAIN ps |-> Size(Len(ps[i]))], ps)

\* A byte at position i is inserted, replaced or deleted, up to behind the last byte of
\* the longest message; elsewhere the message stays.
Edits(bytes) == {"insert", "replace", "delete"} \X (1 .. 22) \X bytes
Edit(m, e) ==
  CASE e[1] = "insert" /\ e[2] <= Len(m) + 1 -> InsertAt(m, e[2], e[3])
    [] e[1] = "replace" /\ e[2] <= Len(m) -> ReplaceAt(m, e[2], e[3])
    [] e[1] = "delete" /\ e[2] <= Len(m) -> RemoveAt(m, e[2])
    [] OTHER -> m

Read(stream, i, j) == SubSeq(stream, i, Min({j, Len(stream)}))

Encodings == {Canonical(ps) : ps \in MCArrays}
Shortest == Canonical(<< <<>> >>)

\* One edit of each encoding, two of the shortest, and whatever a read of a stream of
\* two messages can return; and the messages of the tests.
MCInputs ==
  {Edit(m, e) : m \in Encodings, e \in Edits(EditBytes)}
    \cup {Edit(Edit(Shortest, e), f) : e \in Edits({"1", "2"}), f \in Edits(EditBytes)}
    \cup {Read(m \o Shortest, i, j) : m \in Encodings, i \in 1 .. 32, j \in 1 .. 32}
    \cup {t.message : t \in Tests}
=============================================================================

-------------------------- MODULE DeserializerTests --------------------------
(***************************************************************************)
(* The tests of the repository on deserialize_msg                          *)
(* (src/src/deserializer.rs): messages, each with the strings or the error *)
(* the test expects.  The letters of a word make no difference, and a      *)
(* four-byte character is two of two bytes.                                *)
(***************************************************************************)
EXTENDS Deserializer

Word(n) == [i \in 1 .. n |-> "x"]
Line(text) == text \o CRLF
Array(n) == Line(<<ARRAY, Digits[n + 1]>>)
Sized(n, text) == Line(<<BULK_STRING, Digits[n + 1]>>) \o text

Accepts(message, strings) == [message |-> message, at |-> "accepted", params |-> strings]
Refuses(message, e) == [message |-> message, at |-> "refused", error |-> e]

FourBytes == <<Lead, Continuation, Lead, Continuation>>

\* Four letters, as PING and ECHO.
Ping == Line(Word(4))

Tests ==
  { Accepts(Array(3) \o Sized(3, Line(Word(3))) \o Sized(3, Line(Word(3))) \o Sized(5, Line(Word(5))),
            <<Word(3), Word(3), Word(5)>>),
    Accepts(Array(1) \o Sized(0, CRLF), << <<>> >>),
    Accepts(Array(1) \o Sized(4, Line(FourBytes)), <<FourBytes>>),
    Refuses(Sized(3, Line(Word(3))), "InvalidStartOfMsg"),
    Refuses(<<>>, "InvalidStartOfMsg"),
    Refuses(Line(<<ARRAY, "x">>) \o Sized(4, Ping), "MalformedArray"),
    Refuses(Array(2) \o Sized(4, Ping), "MalformedBulkString"),
    Refuses(Array(1) \o Sized(4, Ping) \o Sized(5, Line(Word(5))), "MalformedArray"),
    Refuses(<<ARRAY, "1">> \o Sized(4, Ping), "MalformedArray"),
    Refuses(Array(1) \o Line(<<"[", "1", "2", "3">>), "BulkStringExpected"),
    Refuses(Array(1) \o Line(<<BULK_STRING, "x">>) \o Ping, "MalformedBulkString"),
    Refuses(Array(1) \o Line(<<BULK_STRING, "1", "0">>) \o Ping, "MalformedBulkString"),
    Refuses(Array(1) \o Sized(1, Ping), "MalformedBulkString"),
    Refuses(Array(1) \o Sized(4, Word(4)), "MalformedBulkString"),
    Refuses(Array(1) \o <<BULK_STRING, "4">> \o Ping, "MalformedBulkString"),
    Refuses(Array(1) \o Sized(4, Ping) \o Word(5), "MalformedArray") }

(***************************************************************************)
(* The deserializer passes the tests of the repository: their messages are *)
(* accepted with the strings, or refused with the error, that each expects.*)
(***************************************************************************)
DeserializerTestsPass ==
  at \in {"accepted", "refused"} =>
    \A t \in {u \in Tests : u.message = msg} :
      /\ at = t.at
      /\ IF at = "accepted" THEN params = t.params ELSE error = t.error
=============================================================================

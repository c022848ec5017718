---------------------------- MODULE Deserializer ----------------------------
(***************************************************************************)
(* Deserializer::deserialize_msg (src/src/deserializer.rs): a cursor that  *)
(* walks over the bytes of one message, and the place of the last LF it    *)
(* has passed, from which the next element is looked for.  One action per  *)
(* function, or per half of one where a later half depends on what an      *)
(* earlier one has left in the cursor.  Positions count from 0.            *)
(***************************************************************************)
EXTENDS Resp, FiniteSetsExt

CONSTANTS
  Inputs,   \* the byte sequences the deserializer is given
  Arrays    \* arrays of strings whose encodings are among them

ASSUME InputsAssumption ==
  Inputs \subseteq Seq(Bytes) /\ Arrays \subseteq Seq(Strings) \ {<<>>}

VARIABLES
  msg,       \* the slice of the read buffer
  cursor,    \* self.cursor
  lf_pos,    \* self.lf_pos
  at,        \* where deserialize_msg is
  left,      \* rounds of its loop still to come
  size,      \* bulk_string_size of the round
  params,    \* the strings so far
  error      \* the error it ended with, or None

vars == <<msg, cursor, lf_pos, at, left, size, params, error>>

Errors == {"InvalidStartOfMsg", "MalformedArray", "BulkStringExpected", "MalformedBulkString"}

TypeOK ==
  /\ msg \in Seq(Bytes)
  /\ cursor \in 0 .. Len(msg)
  /\ lf_pos \in 0 .. Len(msg)
  /\ at \in {"start", "element", "size", "data", "jump", "accepted", "refused"}
  /\ left \in 0 .. MaxU32
  /\ size \in 0 .. MaxU32
  /\ params \in Seq(Strings)
  /\ error \in Errors \cup {None}

Init ==
  /\ msg \in Inputs
  /\ cursor = 0 /\ lf_pos = 0
  /\ at = "start"
  /\ left = 0 /\ size = 0
  /\ params = <<>>
  /\ error = None

Has(i, byte) == i < Len(msg) /\ msg[i + 1] = byte

\* msg[from..to]
Slice(from, to) == SubSeq(msg, from + 1, to)

\* Where update_cr_lf looks for CRLF, from a position on; it takes the first.
CrLfs(from) == {i \in from .. Len(msg) - 2 : Has(i, CR) /\ Has(i + 1, LF)}

Refuse(e) ==
  /\ at' = "refused"
  /\ error' = e
  /\ UNCHANGED <<msg, cursor, lf_pos, left, size, params>>

-----------------------------------------------------------------------------

InvalidStart ==
  /\ at = "start"
  /\ ~Has(0, ARRAY)
  /\ Refuse("InvalidStartOfMsg")

\* The number of elements is what stands between the first byte and the first CRLF.
ArraySize ==
  /\ at = "start"
  /\ Has(0, ARRAY)
  /\ \/ CrLfs(1) = {} /\ Refuse("MalformedArray")
     \/ /\ CrLfs(1) # {}
        /\ LET cr_pos == Min(CrLfs(1))
               n == U32(Slice(1, cr_pos))
           IN  \/ n = None /\ Refuse("MalformedArray")
               \/ /\ n # None
                  /\ cursor' = 1
                  /\ lf_pos' = cr_pos + 1
                  /\ left' = n
                  /\ at' = "element"
                  /\ UNCHANGED <<msg, size, params, error>>

CheckBulkStringType ==
  /\ at = "element"
  /\ left > 0
  /\ \/ lf_pos + 1 >= Len(msg) /\ Refuse("MalformedBulkString")
     \/ /\ lf_pos + 1 < Len(msg)
        /\ ~Has(lf_pos + 1, BULK_STRING)
        /\ Refuse("BulkStringExpected")
     \/ /\ Has(lf_pos + 1, BULK_STRING)
        /\ cursor' = lf_pos + 1
        /\ at' = "size"
        /\ UNCHANGED <<msg, lf_pos, left, size, params, error>>

\* The first half of extract_bulk_string.
BulkStringSize ==
  /\ at = "size"
  /\ \/ CrLfs(cursor + 1) = {} /\ Refuse("MalformedBulkString")
     \/ /\ CrLfs(cursor + 1) # {}
        /\ LET cr_pos == Min(CrLfs(cursor + 1))
               n == U32(Slice(cursor + 1, cr_pos))
           IN  \/ n = None /\ Refuse("MalformedBulkString")
               \/ /\ n # None
                  /\ size' = n
                  /\ lf_pos' = cr_pos + 1
                  /\ cursor' = cr_pos + 2
                  /\ at' = "data"
                  /\ UNCHANGED <<msg, left, params, error>>

\* Mutant: the bytes of a string are not checked.
BulkStringUnchecked ==
  /\ at = "data"
  /\ \/ /\ cursor >= Len(msg) \/ Len(msg) - cursor < size
        /\ Refuse("MalformedBulkString")
     \/ /\ cursor < Len(msg) /\ Len(msg) - cursor >= size
        /\ params' = Append(params, Slice(cursor, cursor + size))
        /\ at' = "jump"
        /\ UNCHANGED <<msg, cursor, lf_pos, left, size, error>>

\* The second half of extract_bulk_string.
BulkStringData ==
  /\ at = "data"
  /\ \/ /\ cursor >= Len(msg) \/ Len(msg) - cursor < size
        /\ Refuse("MalformedBulkString")
     \/ /\ cursor < Len(msg) /\ Len(msg) - cursor >= size
        /\ LET text == Slice(cursor, cursor + size)
           IN  \/ ~IsUtf8(text) /\ Refuse("MalformedBulkString")
               \/ /\ IsUtf8(text)
                  /\ params' = Append(params, text)
                  /\ at' = "jump"
                  /\ UNCHANGED <<msg, cursor, lf_pos, left, size, error>>

\* Mutants: the end of a string need not be CRLF; the place of its LF is not kept.
JumpUnterminated ==
  /\ at = "jump"
  /\ cursor' = cursor + size - 1
  /\ lf_pos' = cursor'
  /\ left' = left - 1
  /\ at' = "element"
  /\ UNCHANGED <<msg, size, params, error>>
JumpForgetsLf ==
  /\ at = "jump"
  /\ Has(cursor + size, CR) /\ Has(cursor + size + 1, LF)
  /\ cursor' = cursor + size + 1
  /\ left' = left - 1
  /\ at' = "element"
  /\ UNCHANGED <<msg, lf_pos, size, params, error>>

JumpToLf ==
  /\ at = "jump"
  /\ \/ /\ ~(Has(cursor + size, CR) /\ Has(cursor + size + 1, LF))
        /\ Refuse("MalformedBulkString")
     \/ /\ Has(cursor + size, CR) /\ Has(cursor + size + 1, LF)
        /\ cursor' = cursor + size + 1
        /\ lf_pos' = cursor'
        /\ left' = left - 1
        /\ at' = "element"
        /\ UNCHANGED <<msg, size, params, error>>

\* Mutant: what follows the last element is not looked at.
EndOfArray ==
  /\ at = "element"
  /\ left = 0
  /\ at' = "accepted"
  /\ UNCHANGED <<msg, cursor, lf_pos, left, size, params, error>>

\* The cursor is on the last LF, or still on the count of an array of no elements.
EndOfMsg ==
  /\ at = "element"
  /\ left = 0
  /\ \/ cursor + 1 < Len(msg) /\ Refuse("MalformedArray")
     \/ /\ cursor + 1 >= Len(msg)
        /\ at' = "accepted"
        /\ UNCHANGED <<msg, cursor, lf_pos, left, size, params, error>>

Next ==
  \/ InvalidStart \/ ArraySize
  \/ CheckBulkStringType \/ BulkStringSize \/ BulkStringData \/ JumpToLf
  \/ EndOfMsg

Spec == Init /\ [][Next]_vars

-----------------------------------------------------------------------------

(***************************************************************************)
(* No index of the message is out of range, whatever sizes it announces    *)
(* (a slice out of range would end the connection's task, lines 97, 100),  *)
(* and each element read has taken six bytes of it or more: the loop over  *)
(* array_size ends with the message, however large the array claims to be. *)
(***************************************************************************)
CursorInMessage ==
  /\ at = "element" => lf_pos < Len(msg) /\ lf_pos + 1 >= 4 + 6 * Len(params)
  /\ at = "size" => cursor < Len(msg)
  /\ at = "data" => cursor <= Len(msg)
  /\ at = "jump" => cursor + size <= Len(msg)

(***************************************************************************)
(* Whatever is accepted is, byte for byte, an array of the strings that    *)
(* are returned, and not of an array of none: nothing is skipped, added or *)
(* left over at the end.                                                   *)
(***************************************************************************)
Sound == at = "accepted" => params # <<>> /\ Encodes(msg, params, NumeralsIn(msg))

(***************************************************************************)
(* An array of one string or more is accepted and its strings returned,    *)
(* however its sizes are spelled and whatever bytes its strings hold.      *)
(***************************************************************************)
Complete ==
  at \in {"accepted", "refused"} =>
    LET numerals == NumeralsIn(msg)
    IN  \A ps \in Arrays : Encodes(msg, ps, numerals) => at = "accepted" /\ params = ps
=============================================================================

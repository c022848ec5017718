-------------------------------- MODULE Wire --------------------------------
(***************************************************************************)
(* One connection byte by byte: the read loop of src/src/main.rs, the      *)
(* deserializer that runs on each read, what ECHO and an unknown command   *)
(* put into their replies, and the serialized replies on their way back.   *)
(* It composes Deserializer and Replies, and implements Connection, in     *)
(* which a message is not looked into.                                     *)
(*                                                                         *)
(* The other commands answer with a response of any kind: what it says is  *)
(* up to Server.  The client here stays to the end.                        *)
(***************************************************************************)
EXTENDS Replies

CONSTANTS
  Echo, Other,           \* the names of ECHO and of another command
  OtherResponses,        \* the responses to that one
  Requests,              \* arrays of strings the client sends
  Refused,               \* the reply to what is not a message, as Connection has it
  Capacity,              \* bytes the read buffer takes (1024 in main)
  MaxSent, MaxReads      \* bounds: messages sent, reads

ASSUME NamesAssumption == {Echo, Other} \subseteq Strings
ASSUME LimitsAssumption == Capacity \in Nat \ {0} /\ {MaxSent, MaxReads} \subseteq Nat
ASSUME RefusedAssumption == Refused \notin Seq(Bytes)
ASSUME ResponsesAssumption ==
  \A r \in OtherResponses :
    r = [kind |-> r.kind, text |-> r.text] /\ r.kind \in Lines \cup {BULK_STRING} /\ r.text \in Seq(Bytes)

\* What a client sends; it has arrays of one string or more, no larger than a u32 can say.
Sizes(ps) == [i \in DOMAIN ps |-> Decimal(Len(ps[i]))]
Message(ps) == Encode(Decimal(Len(ps)), Sizes(ps), ps)

ASSUME RequestsAssumption ==
  \A ps \in Requests :
    /\ ps \in Seq(Strings) \ {<<>>}
    /\ \A n \in {Len(ps)} \cup {Len(ps[i]) : i \in DOMAIN ps} :
         n <= MaxU32 /\ Decimal(n) \in Seq(Bytes)

VARIABLES
  sent,      \* the messages the client has sent
  wire,      \* the bytes of them that were not read yet
  pc,        \* where the task is
  buf,       \* the read buffer
  handled,   \* the buffers that were handed to the deserializer so far
  answers,   \* the response to each, and whether it is one to a message
  stream,    \* the bytes written to the client
  whole,     \* did each read up to now return one message, as it was sent?
  msg, cursor, lf_pos, at, left, size, params, error   \* the deserializer

loopVars == <<sent, wire, pc, buf, handled, answers, stream, whole>>
desVars == <<msg, cursor, lf_pos, at, left, size, params, error>>
vars == <<loopVars, desVars>>

Deserialize == INSTANCE Deserializer WITH Inputs <- {}, Arrays <- {}

Init ==
  /\ sent = <<>> /\ wire = <<>>
  /\ pc = "reading"
  /\ buf = <<>>
  /\ handled = <<>> /\ answers = <<>> /\ stream = <<>>
  /\ whole = TRUE
  /\ msg = <<>> /\ cursor = 0 /\ lf_pos = 0 /\ at = "start"
  /\ left = 0 /\ size = 0 /\ params = <<>> /\ error = None

\* What a client sends while the task is busy is read no earlier than what it sends then.
Send ==
  /\ pc = "reading"
  /\ Len(sent) < MaxSent
  /\ \E ps \in Requests : sent' = Append(sent, Message(ps)) /\ wire' = wire \o Message(ps)
  /\ UNCHANGED <<pc, buf, handled, answers, stream, whole, desVars>>

\* A new deserializer for each read (Deserializer::default()).
Read ==
  /\ pc = "reading"
  /\ Len(handled) < MaxReads
  /\ \E n \in 1 .. Len(wire) :
       /\ n <= Capacity - Len(buf)
       /\ buf' = buf \o SubSeq(wire, 1, n)
       /\ wire' = From(wire, n + 1)
       /\ whole' = (whole /\ n = Len(sent[Len(handled) + 1]))
  /\ pc' = "handling"
  /\ msg' = buf' /\ cursor' = 0 /\ lf_pos' = 0 /\ at' = "start"
  /\ left' = 0 /\ size' = 0 /\ params' = <<>> /\ error' = None
  /\ UNCHANGED <<sent, handled, answers, stream>>

Parse ==
  /\ pc = "handling"
  /\ Deserialize!Next
  /\ UNCHANGED loopVars

\* The texts of errors are lines, but for the name that one of them repeats.
AnError == SimpleError(<<"x">>)
Unknown(name) == SimpleError(<<"x">> \o name \o <<"x">>)

\* What try_from and execute answer to an array.
Responses(ps) ==
  LET name == IF ps = <<>> THEN <<>> ELSE ps[1]
  IN  CASE name = Echo -> {IF Len(ps) = 2 THEN BulkStringReply(ps[2]) ELSE AnError}
        [] name = Other -> OtherResponses
        [] OTHER -> {Unknown(name)}

Answer(to, responses) ==
  /\ \E r \in responses : answers' = Append(answers, [to |-> to, response |-> r])
  /\ handled' = Append(handled, buf)
  /\ pc' = "writing"
  /\ UNCHANGED <<sent, wire, buf, stream, whole, desVars>>

\* deserialize_and_execute.
Execute == pc = "handling" /\ at = "accepted" /\ Answer(buf, Responses(params))
RefuseMessage == pc = "handling" /\ at = "refused" /\ Answer(Refused, {AnError})

\* Mutant: the buffer is not cleared.
WriteKeepsBuffer ==
  /\ pc = "writing"
  /\ stream' = stream \o Serialize(Last(answers).response)
  /\ pc' = "reading"
  /\ UNCHANGED <<sent, wire, buf, handled, answers, whole, desVars>>

Write ==
  /\ pc = "writing"
  /\ stream' = stream \o Serialize(Last(answers).response)
  /\ buf' = <<>>
  /\ pc' = "reading"
  /\ UNCHANGED <<sent, wire, handled, answers, whole, desVars>>

Next == Send \/ Read \/ Parse \/ Execute \/ RefuseMessage \/ Write

Spec == Init /\ [][Next]_vars

-----------------------------------------------------------------------------

OneLine(text) == \A i \in 1 .. Len(text) - 1 : ~(text[i] = CR /\ text[i + 1] = LF)
IsLine(r) == r.kind # BULK_STRING => OneLine(r.text)

Written == IF pc = "writing" THEN Front(answers) ELSE answers
Replied == [i \in DOMAIN Written |-> Written[i].response]

(***************************************************************************)
(* The client finds the replies in the stream, each where it ends and with *)
(* the text it was given, whatever bytes the text has, up to the first     *)
(* error that repeats the name of an unknown command (error.rs:5) in which *)
(* there is a CRLF: from there on it may take one reply for several.       *)
(***************************************************************************)
RepliesReadBack ==
  LET broken == {i \in DOMAIN Replied : ~IsLine(Replied[i])}
  IN  IF broken = {} THEN Decode(stream) = Replied
      ELSE IsPrefix(SubSeq(Replied, 1, Min(broken) - 1), Decode(stream))

(***************************************************************************)
(* From end to end: as long as each read is a message, the replies the     *)
(* client finds answer its messages one by one, and the text of an ECHO    *)
(* comes back byte for byte, through the deserializer and the serializer.  *)
(***************************************************************************)
EndToEnd ==
  whole /\ (\A i \in DOMAIN Replied : IsLine(Replied[i])) =>
    LET replies == Decode(stream)
    IN  /\ Len(replies) <= Len(sent)
        /\ \A i \in DOMAIN replies :
             \E ps \in Requests : sent[i] = Message(ps) /\ replies[i] \in Responses(ps)

\* Response::serialize passes its tests (response.rs:57-109).
SerializeTestsPass == \A t \in SerializeTests : Serialize(t[1]) = t[2]

-----------------------------------------------------------------------------

Task == INSTANCE Connection WITH
  Pieces <- Bytes,
  Messages <- {Message(ps) : ps \in Requests},
  Panicking <- {},
  peer <- "open",
  reply <- IF answers = <<>> THEN Refused ELSE Last(answers).to,
  replies <- [i \in DOMAIN Written |-> Written[i].to]

(***************************************************************************)
(* The loop over bytes is the loop over pieces of messages: whatever a     *)
(* read cuts out of the stream, it is answered as a message exactly when   *)
(* the bytes are those of one.                                             *)
(***************************************************************************)
ConnectionSpec == Task!Spec
=============================================================================

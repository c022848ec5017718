----------------------------- MODULE Connection -----------------------------
(***************************************************************************)
(* The task of one connection (src/src/main.rs:45-96) between its client   *)
(* and the commands: a stream of bytes that arrives in reads of any        *)
(* length, a read buffer, one reply to each read.                          *)
(*                                                                         *)
(* A stream is a sequence of pieces, each as many bytes as no read         *)
(* divides.  What the deserializer makes of a buffer is all that matters:  *)
(* it accepts those that are one message.  What Server does with the       *)
(* message is a reply that names it.                                       *)
(***************************************************************************)
EXTENDS Integers, Sequences, SequencesExt

CONSTANTS
  Pieces,      \* the pieces messages are made of
  Messages,    \* the messages, as sequences of pieces
  Panicking,   \* messages whose execution may panic, as with a poisoned mutex
  Capacity,    \* pieces the read buffer takes (1024 bytes in main)
  MaxSent,     \* bound: messages the client sends
  Refused      \* the reply to what is not a message

ASSUME PiecesAssumption == Messages \subseteq Seq(Pieces) \ {<<>>} /\ Panicking \subseteq Messages
ASSUME CapacityAssumption == Capacity \in Nat \ {0} /\ MaxSent \in Nat
ASSUME RefusedAssumption == Refused \notin Messages

VARIABLES
  sent,      \* the messages the client has sent
  wire,      \* the pieces of them that were not read yet
  peer,      \* the client: open, done sending (half), or gone
  pc,        \* where the task is
  buf,       \* the read buffer
  handled,   \* the buffers that deserialize_and_execute has answered so far
  reply,     \* the reply to be written
  replies,   \* the replies written to a client that was there
  whole      \* did each read up to now return one message, as it was sent?

vars == <<sent, wire, peer, pc, buf, handled, reply, replies, whole>>

Reply == Messages \cup {Refused}

TypeOK ==
  /\ sent \in Seq(Messages)
  /\ wire \in Seq(Pieces)
  /\ peer \in {"open", "half", "gone"}
  /\ pc \in {"reading", "handling", "writing", "closed", "panicked"}
  /\ buf \in Seq(Pieces) /\ Len(buf) <= Capacity
  /\ handled \in Seq(Seq(Pieces))
  /\ reply \in Reply
  /\ replies \in Seq(Reply)
  /\ whole \in BOOLEAN

Init ==
  /\ sent = <<>> /\ wire = <<>>
  /\ peer = "open"
  /\ pc = "reading"
  /\ buf = <<>>
  /\ handled = <<>>
  /\ reply = Refused
  /\ replies = <<>>
  /\ whole = TRUE

-----------------------------------------------------------------------------
(* The client, which need not wait for a reply before it sends again. *)

Send(m) ==
  /\ peer = "open"
  /\ Len(sent) < MaxSent
  /\ sent' = Append(sent, m)
  /\ wire' = wire \o m
  /\ UNCHANGED <<peer, pc, buf, handled, reply, replies, whole>>

\* The client sends no more, or takes no more replies either.
HangUp ==
  /\ \/ peer = "open" /\ peer' \in {"half", "gone"}
     \/ peer = "half" /\ peer' = "gone"
  /\ UNCHANGED <<sent, wire, pc, buf, handled, reply, replies, whole>>

-----------------------------------------------------------------------------
(* The task. *)

\* The next n pieces are taken off the wire: exactly the next message?
IsWhole(n) == n = Len(sent[Len(handled) + 1])

\* Mutants: what the buffer has no room for is lost; the buffer has room for everything.
ReadLosesRest ==
  /\ pc = "reading"
  /\ \E n \in 1 .. Len(wire) :
       /\ n <= Capacity - Len(buf)
       /\ buf' = buf \o SubSeq(wire, 1, n)
       /\ whole' = (whole /\ IsWhole(n))
  /\ wire' = <<>>
  /\ pc' = "handling"
  /\ UNCHANGED <<sent, peer, handled, reply, replies>>
ReadGrows ==
  /\ pc = "reading"
  /\ wire # <<>>
  /\ buf' = buf \o wire
  /\ whole' = (whole /\ IsWhole(Len(wire)))
  /\ wire' = <<>>
  /\ pc' = "handling"
  /\ UNCHANGED <<sent, peer, handled, reply, replies>>

\* read_buf appends what has arrived, as far as there is room (the buffer grows only
\* when it is full at the call, and it was cleared).
Read ==
  /\ pc = "reading"
  /\ \E n \in 1 .. Len(wire) :
       /\ n <= Capacity - Len(buf)
       /\ buf' = buf \o SubSeq(wire, 1, n)
       /\ wire' = SubSeq(wire, n + 1, Len(wire))
       /\ whole' = (whole /\ IsWhole(n))
  /\ pc' = "handling"
  /\ UNCHANGED <<sent, peer, handled, reply, replies>>

\* Ok(0) after the last byte of a client that sends no more.
EndOfStream ==
  /\ pc = "reading"
  /\ peer # "open"
  /\ wire = <<>>
  /\ pc' = "closed"
  /\ UNCHANGED <<sent, wire, peer, buf, handled, reply, replies, whole>>

\* A client that is gone may have reset the connection, and what was not read is lost.
ReadError ==
  /\ pc = "reading"
  /\ peer = "gone"
  /\ pc' = "closed"
  /\ wire' = <<>>
  /\ UNCHANGED <<sent, peer, buf, handled, reply, replies, whole>>

\* Mutant: a buffer that is not a message is left without a reply.
HandleSilently ==
  /\ pc = "handling"
  /\ handled' = Append(handled, buf)
  /\ \/ buf \in Messages /\ reply' = buf /\ pc' = "writing" /\ buf' = buf
     \/ buf \notin Messages /\ reply' = reply /\ pc' = "reading" /\ buf' = <<>>
  /\ UNCHANGED <<sent, wire, peer, replies, whole>>

\* deserialize_and_execute.
Handle ==
  /\ pc = "handling"
  /\ handled' = Append(handled, buf)
  /\ reply' = IF buf \in Messages THEN buf ELSE Refused
  /\ pc' = "writing"
  /\ UNCHANGED <<sent, wire, peer, buf, replies, whole>>

\* The task ends in the middle of a command, and its socket is closed.
HandlePanics ==
  /\ pc = "handling"
  /\ buf \in Panicking
  /\ pc' = "panicked"
  /\ UNCHANGED <<sent, wire, peer, buf, handled, reply, replies, whole>>

\* Mutants: the buffer is not cleared; the task serves one message and ends.
WriteKeepsBuffer ==
  /\ pc = "writing"
  /\ replies' = IF peer = "gone" THEN replies ELSE Append(replies, reply)
  /\ pc' = "reading"
  /\ UNCHANGED <<sent, wire, peer, buf, handled, reply, whole>>
WriteOnce ==
  /\ pc = "writing"
  /\ replies' = IF peer = "gone" THEN replies ELSE Append(replies, reply)
  /\ buf' = <<>>
  /\ pc' = "closed"
  /\ UNCHANGED <<sent, wire, peer, handled, reply, whole>>

\* write_all and flush; a write that fails is logged, and the loop goes on.
Write ==
  /\ pc = "writing"
  /\ replies' = IF peer = "gone" THEN replies ELSE Append(replies, reply)
  /\ buf' = <<>>
  /\ pc' = "reading"
  /\ UNCHANGED <<sent, wire, peer, handled, reply, whole>>

Task == Read \/ EndOfStream \/ ReadError \/ Handle \/ HandlePanics \/ Write

Next == (\E m \in Messages : Send(m)) \/ HangUp \/ Task

Spec == Init /\ [][Next]_vars

\* The task runs when it can; nothing obliges the client.
FairSpec == Spec /\ WF_vars(Task)

-----------------------------------------------------------------------------

(***************************************************************************)
(* The deserializer sees each byte of the stream once and in order, none   *)
(* is lost between two reads or seen again by the next one                 *)
(* (buf.clear(), main.rs:69), as long as the client is there.              *)
(***************************************************************************)
StreamPartitioned ==
  LET inHand == IF pc \in {"handling", "panicked"} THEN buf ELSE <<>>
      seen == FlattenSeq(handled) \o inHand
  IN  IF pc = "closed" THEN IsPrefix(seen, FlattenSeq(sent))
      ELSE seen \o wire = FlattenSeq(sent)

(***************************************************************************)
(* Each read is answered once, whether it was a message or not: a client   *)
(* that is there gets as many replies as there were reads, which may be    *)
(* more than it sent messages, or fewer.                                   *)
(***************************************************************************)
OneReplyPerRead ==
  peer # "gone" =>
    Len(handled) = Len(replies) + IF pc = "writing" THEN 1 ELSE 0

(***************************************************************************)
(* As long as each read returns one message, the replies answer the        *)
(* messages one by one in the order they were sent.  One read that is      *)
(* less or more than a message is enough to put them out of step.          *)
(***************************************************************************)
InStep == whole => IsPrefix(replies, sent)

(***************************************************************************)
(* Then each message is also answered in the end, unless the client hangs  *)
(* up or the task panics.                                                  *)
(***************************************************************************)
Served ==
  []whole =>
    \A n \in 1 .. MaxSent :
      Len(sent) >= n ~> (Len(replies) >= n \/ peer # "open" \/ pc = "panicked")
=============================================================================

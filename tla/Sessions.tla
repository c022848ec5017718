------------------------------ MODULE Sessions ------------------------------
(***************************************************************************)
(* All of the server: Server, where the messages of each connection are    *)
(* what its reads cut out of the stream of its own client                  *)
(* (src/src/main.rs:45-96).  Clients need not wait for a reply before they *)
(* send again, stop sending, go away, or leave their replies in the socket *)
(* until the write of the next one blocks.                                 *)
(*                                                                         *)
(* A message travels as its texts between an opening and a closing piece.  *)
(***************************************************************************)
EXTENDS Server

CONSTANTS
  Start, End,   \* what a message begins and ends with
  Refused,      \* the reply to what is no message, as Connection has it
  Capacity,     \* pieces the read buffer takes
  Observed,     \* the connection that is compared with Connection
  Departures,   \* how clients may leave: "half" (send no more), "gone", or both
  MaxSent,      \* bound: messages all the clients send
  Window        \* replies the socket takes from the task before the client takes one

ASSUME PiecesDiffer == Start # End /\ {Start, End} \cap Texts = {}
ASSUME SocketAssumption == {Capacity, Window} \subseteq Nat \ {0} /\ MaxSent \in Nat
ASSUME DeparturesAssumption == Departures \subseteq {"half", "gone"}
ASSUME ObservedAssumption == Observed \in Conns

VARIABLE link   \* each connection's client, socket, read buffer and past

sessionVars == <<vars, link>>

Frame(m) == <<Start>> \o m \o <<End>>
Frames == {Frame(m) : m \in Messages}

NewLink ==
  [accepted |-> FALSE,   \* has accept() returned it?
   sent |-> <<>>,        \* the messages its client has sent
   wire |-> <<>>,        \* the pieces of them that were not read yet
   peer |-> "open",      \* its client: open, done sending (half), or gone
   buf |-> <<>>,         \* the read buffer
   handled |-> <<>>,     \* the buffers that were answered so far
   replies |-> <<>>,     \* what the replies written to its client answer
   unread |-> 0,         \* replies its client has not taken
   whole |-> TRUE]       \* did each read up to now return one message, as it was sent?

SessionInit == Init /\ link = [c \in Conns |-> NewLink]

-----------------------------------------------------------------------------
(* The clients. *)

Send(c) ==
  /\ link[c].peer = "open"
  /\ MapThenSumSet(LAMBDA d : Len(link[d].sent), Conns) < MaxSent
  /\ \E m \in Messages :
       link' = [link EXCEPT ![c].sent = Append(@, Frame(m)), ![c].wire = @ \o Frame(m)]
  /\ UNCHANGED vars

HangUp(c) ==
  /\ \E peer \in Departures :
       /\ link[c].peer \in {"open", "half"} /\ peer # link[c].peer
       /\ link' = [link EXCEPT ![c].peer = peer]
  /\ UNCHANGED vars

TakeReply(c) ==
  /\ link[c].unread > 0
  /\ link' = [link EXCEPT ![c].unread = @ - 1]
  /\ UNCHANGED vars

-----------------------------------------------------------------------------
(* The task of a connection. *)

\* Each member of Conns is one connection: it is accepted once.
AcceptStream(c) ==
  /\ Accept(c)
  /\ ~link[c].accepted
  /\ link' = [link EXCEPT ![c].accepted = TRUE]

Awaits(c) == pc[c] = "reading" /\ link[c].buf = <<>>

InHand == {c \in Conns : pc[c] = "reading" /\ link[c].buf # <<>>}

Read(c) ==
  /\ Awaits(c)
  /\ budget > Cardinality(InHand)
  /\ LET l == link[c]
     IN  \E n \in 1 .. Len(l.wire) :
           /\ n <= Capacity
           /\ link' = [link EXCEPT
                         ![c].buf = SubSeq(l.wire, 1, n),
                         ![c].wire = SubSeq(l.wire, n + 1, Len(l.wire)),
                         ![c].whole = @ /\ n = Len(l.sent[Len(l.handled) + 1])]
  /\ UNCHANGED vars

\* Mutant: the task also notices that its client is gone while it has a command.
EndOfStreamDrops(c) ==
  \/ /\ Awaits(c) /\ Close(c)
     /\ \/ link[c].peer # "open" /\ link[c].wire = <<>> /\ link' = link
        \/ link[c].peer = "gone" /\ link' = [link EXCEPT ![c].wire = <<>>]
  \/ /\ link[c].peer = "gone" /\ pc[c] \in {"waiting", "scanning"}
     /\ pc' = [pc EXCEPT ![c] = "closed"]
     /\ req' = [req EXCEPT ![c] = None]
     /\ lock' = IF lock = c THEN None ELSE lock
     /\ scan' = IF lock = c THEN NoScan ELSE scan
     /\ UNCHANGED <<now, db, poisoned, reply, expiry, budget, link>>

\* Ok(0), or a read that fails and leaves unread what was sent.
EndOfStream(c) ==
  /\ Awaits(c) /\ Close(c)
  /\ \/ link[c].peer # "open" /\ link[c].wire = <<>> /\ link' = link
     \/ link[c].peer = "gone" /\ link' = [link EXCEPT ![c].wire = <<>>]

\* A buffer is answered when the task has its reply.
NoteAnswer(c) ==
  link' = IF pc'[c] = "replying" THEN [link EXCEPT ![c].handled = Append(@, link[c].buf)] ELSE link

Outcome(m) == TryFrom(m, now)

\* deserialize_and_execute, up to the mutex.
Receive(c) ==
  /\ link[c].buf # <<>>
  /\ \/ link[c].buf \notin Frames /\ ReceiveMalformed(c)
     \/ \E m \in Messages :
          /\ link[c].buf = Frame(m)
          /\ \/ /\ ReceiveInvalid(c)
                /\ ~Outcome(m).ok /\ reply'[c] = SimpleError(Outcome(m).val)
             \/ /\ ReceiveLocal(c)
                /\ Outcome(m).ok /\ Outcome(m).val.cmd \in {"ping", "echo"}
                /\ reply'[c] = LocalReply(Outcome(m).val)
             \/ /\ ReceiveRequest(c)
                /\ Outcome(m).ok /\ req'[c] = Outcome(m).val
  /\ NoteAnswer(c)

\* The commands on the map, from the mutex on.
Command(c) == (Locks(c) \/ ExistsLook(c) \/ ExistsEnd(c)) /\ NoteAnswer(c)

\* Mutant: the buffer is not cleared when the write fails.
ReplyKeepsBuffer(c) ==
  /\ WriteReply(c)
  /\ LET l == link[c]
         to == IF Last(l.handled) \in Frames THEN Last(l.handled) ELSE Refused
     IN  \/ l.peer = "gone" /\ link' = link
         \/ /\ l.peer # "gone" /\ l.unread < Window
            /\ link' = [link EXCEPT ![c].buf = <<>>, ![c].unread = @ + 1,
                                    ![c].replies = Append(@, to)]

\* write_all waits for room in the socket, and fails at once when the client is gone.
Reply(c) ==
  /\ WriteReply(c)
  /\ LET l == link[c]
         to == IF Last(l.handled) \in Frames THEN Last(l.handled) ELSE Refused
     IN  \/ l.peer = "gone" /\ link' = [link EXCEPT ![c].buf = <<>>]
         \/ /\ l.peer # "gone" /\ l.unread < Window
            /\ link' = [link EXCEPT ![c].buf = <<>>, ![c].unread = @ + 1,
                                    ![c].replies = Append(@, to)]

SessionTask(c) == Read(c) \/ EndOfStream(c) \/ Receive(c) \/ Command(c) \/ Reply(c)
Client(c) == Send(c) \/ HangUp(c) \/ TakeReply(c)

SessionNext ==
  \/ \E c \in Conns : AcceptStream(c) \/ SessionTask(c) \/ Client(c)
  \/ (ExpiryTask \/ Tick) /\ link' = link

SessionSpec == SessionInit /\ [][SessionNext]_sessionVars

-----------------------------------------------------------------------------

own == link[Observed]

Place ==
  CASE ~own.accepted -> "reading"
    [] own.accepted /\ pc[Observed] = "closed" ->
         IF own.buf # <<>> /\ poisoned THEN "panicked" ELSE "closed"
    [] pc[Observed] = "reading" -> IF own.buf = <<>> THEN "reading" ELSE "handling"
    [] pc[Observed] \in {"waiting", "scanning"} -> "handling"
    [] pc[Observed] = "replying" -> "writing"

Task == INSTANCE Connection WITH
  Pieces <- Texts \cup {Start, End},
  Messages <- Frames,
  Panicking <- Frames,
  sent <- own.sent, wire <- own.wire, peer <- own.peer, pc <- Place,
  buf <- own.buf, handled <- own.handled,
  reply <- IF own.handled = <<>> \/ Last(own.handled) \notin Frames
           THEN Refused ELSE Last(own.handled),
  replies <- own.replies, whole <- own.whole

(***************************************************************************)
(* Each of the connections is a Connection, whatever the others and the    *)
(* expiry task do to the map.  A command it has begun ends with a reply or *)
(* a panic that poisons the mutex, though its client leaves while it waits *)
(* or is in the middle of the map (main.rs:61).  (TLC compares one of the  *)
(* connections; the others are its like.)                                  *)
(***************************************************************************)
ConnectionSpec == Task!Spec

-----------------------------------------------------------------------------
(***************************************************************************)
(* Liveness.  Tasks run as in Server; a write goes on once there is room   *)
(* in the socket, where only the task itself takes room.  Nothing obliges  *)
(* a client to send or to take its replies.                                *)
(***************************************************************************)
FairSessions ==
  /\ SessionSpec
  /\ \A c \in Conns :
       /\ SF_sessionVars(Locks(c) /\ NoteAnswer(c))
       /\ WF_sessionVars((ExistsLook(c) \/ ExistsEnd(c)) /\ NoteAnswer(c))
       /\ WF_sessionVars(Read(c) \/ EndOfStream(c) \/ Receive(c) \/ Reply(c))
  /\ WF_sessionVars(ExpiryTask /\ link' = link)

(***************************************************************************)
(* A client that leaves its replies in the socket harms nobody but itself: *)
(* while its task waits to write (main.rs:63), the commands of the others  *)
(* get the mutex, and a client that takes its replies has all it sends     *)
(* read, to the end of the connection or of the model's budget.            *)
(***************************************************************************)
StalledHarmsNobody ==
  \A c \in Conns :
    /\ pc[c] = "waiting" ~> pc[c] \in {"replying", "closed"}
    /\ []<>(link[c].unread < Window) =>
         (link[c].wire # <<>> ~>
            link[c].wire = <<>> \/ pc[c] = "closed" \/ budget <= Cardinality(InHand))
=============================================================================

-------------------------- MODULE ConnectionProofs --------------------------
(***************************************************************************)
(* Proofs about Connection, for any pieces, messages and read buffer.  The *)
(* types are inductive, and so is the count of replies once the types are  *)
(* known: between two reads each answered buffer has one reply, and the    *)
(* one that is being written is the only answer without.  The partition of *)
(* the stream is inductive with an empty buffer between two reads; and as  *)
(* long as reads return whole messages, what is handled are the first of   *)
(* the messages sent.                                                      *)
(***************************************************************************)
EXTENDS Connection, SequenceLemmas

USE PiecesAssumption, CapacityAssumption DEF Reply

\* Each piece of the loop keeps the types (main.rs:49-77).
LEMMA TypeStep == TypeOK /\ [Next]_vars => TypeOK'
<1> SUFFICES ASSUME TypeOK, [Next]_vars PROVE TypeOK'
  OBVIOUS
<1>1. CASE \E m \in Messages : Send(m)
  <2>1. PICK m \in Messages : Send(m)
    BY <1>1
  <2>2. m \in Seq(Pieces)
    OBVIOUS
  <2> QED
    BY <2>1, <2>2 DEF TypeOK, Send
<1>2. CASE HangUp
  BY <1>2 DEF TypeOK, HangUp
<1>3. CASE Read
  <2>1. PICK n \in 1 .. Len(wire) :
          /\ n <= Capacity - Len(buf)
          /\ buf' = buf \o SubSeq(wire, 1, n)
          /\ wire' = SubSeq(wire, n + 1, Len(wire))
          /\ whole' = (whole /\ IsWhole(n))
    BY <1>3 DEF Read
  <2>2. /\ wire \in Seq(Pieces) /\ buf \in Seq(Pieces)
        /\ Len(wire) \in Nat /\ Len(buf) \in Nat
    BY DEF TypeOK
  <2>3. SubSeq(wire, 1, n) \in Seq(Pieces) /\ Len(SubSeq(wire, 1, n)) = n
    BY <2>2
  <2>4. buf' \in Seq(Pieces) /\ Len(buf') <= Capacity
    BY <2>1, <2>2, <2>3
  <2>5. wire' \in Seq(Pieces)
    BY <2>1, <2>2
  <2>6. whole' \in BOOLEAN
    BY <2>1, Zenon
  <2> QED
    BY <1>3, <2>4, <2>5, <2>6 DEF TypeOK, Read
<1>4. CASE EndOfStream
  BY <1>4 DEF TypeOK, EndOfStream
<1>5. CASE ReadError
  BY <1>5 DEF TypeOK, ReadError
<1>6. CASE Handle
  BY <1>6 DEF TypeOK, Handle
<1>7. CASE HandlePanics
  BY <1>7 DEF TypeOK, HandlePanics
<1>8. CASE Write
  BY <1>8 DEF TypeOK, Write
<1>9. CASE UNCHANGED vars
  BY <1>9 DEF TypeOK, vars
<1> QED
  BY <1>1, <1>2, <1>3, <1>4, <1>5, <1>6, <1>7, <1>8, <1>9 DEF Next, Task

\* The read buffer is never asked to hold more than it has room for, and every variable
\* keeps its type, whatever the client sends and wherever the reads cut it.
THEOREM TypeCorrect == Spec => []TypeOK
<1>1. Init => TypeOK
  BY DEF Init, TypeOK
<1> QED
  BY <1>1, TypeStep, PTL DEF Spec

\* A step of the client or of the task that keeps both sides of the count in step.
LEMMA CountStep == TypeOK /\ OneReplyPerRead /\ [Next]_vars => OneReplyPerRead'
<1> SUFFICES ASSUME TypeOK, OneReplyPerRead, [Next]_vars PROVE OneReplyPerRead'
  OBVIOUS
<1> USE DEF TypeOK, OneReplyPerRead
<1>1. CASE \E m \in Messages : Send(m)
  BY <1>1 DEF Send
<1>2. CASE HangUp
  BY <1>2 DEF HangUp
<1>3. CASE Read \/ EndOfStream \/ ReadError \/ HandlePanics
  BY <1>3 DEF Read, EndOfStream, ReadError, HandlePanics
<1>4. CASE Handle
  <2>1. Len(handled') = Len(handled) + 1
    BY <1>4 DEF Handle
  <2> QED
    BY <1>4, <2>1 DEF Handle
<1>5. CASE Write
  <2>1. peer # "gone" => Len(replies') = Len(replies) + 1
    BY <1>5 DEF Write
  <2> QED
    BY <1>5, <2>1 DEF Write
<1>6. CASE UNCHANGED vars
  BY <1>6 DEF vars
<1> QED
  BY <1>1, <1>2, <1>3, <1>4, <1>5, <1>6 DEF Next, Task

\* Each read is answered exactly once as long as the client is there (main.rs:58-69),
\* whether it was a message or not.
THEOREM RepliesMatchReads == Spec => []OneReplyPerRead
<1>1. Init => OneReplyPerRead
  BY DEF Init, OneReplyPerRead
<1> QED
  BY <1>1, TypeCorrect, CountStep, PTL DEF Spec

-----------------------------------------------------------------------------
\* The buffer is empty when the task reads, which is why nothing is seen twice, and the
\* task closes only after a client that sends no more.
BetweenReads ==
  /\ pc = "reading" => buf = <<>>
  /\ pc = "closed" => peer # "open"

PartitionInv == TypeOK /\ BetweenReads /\ StreamPartitioned

\* Each step keeps it.
LEMMA BetweenReadsStep == TypeOK /\ BetweenReads /\ [Next]_vars => BetweenReads'
BY DEF BetweenReads, Next, Task, Send, HangUp, Read, EndOfStream, ReadError, Handle,
       HandlePanics, Write, vars

\* What the client has sent and what the task has handled, as pieces.
LEMMA Streams ==
  TypeOK => /\ sent \in Seq(Seq(Pieces)) /\ FlattenSeq(sent) \in Seq(Pieces)
            /\ handled \in Seq(Seq(Pieces)) /\ FlattenSeq(handled) \in Seq(Pieces)
            /\ buf \in Seq(Pieces) /\ wire \in Seq(Pieces)
<1> SUFFICES ASSUME TypeOK
             PROVE  /\ sent \in Seq(Seq(Pieces)) /\ FlattenSeq(sent) \in Seq(Pieces)
                    /\ handled \in Seq(Seq(Pieces)) /\ FlattenSeq(handled) \in Seq(Pieces)
                    /\ buf \in Seq(Pieces) /\ wire \in Seq(Pieces)
  OBVIOUS
<1>1. Messages \subseteq Seq(Pieces)
  OBVIOUS
<1>2. sent \in Seq(Seq(Pieces)) /\ handled \in Seq(Seq(Pieces))
  BY <1>1 DEF TypeOK
<1>3. QED
  BY <1>2, FlattenType DEF TypeOK

\* No step loses bytes of the stream or puts some in twice.
LEMMA PartitionStep == PartitionInv /\ [Next]_vars => StreamPartitioned'
<1> SUFFICES ASSUME PartitionInv, [Next]_vars PROVE StreamPartitioned'
  OBVIOUS
<1> DEFINE past == FlattenSeq(handled)
           stream == FlattenSeq(sent)
<1>1. /\ sent \in Seq(Seq(Pieces)) /\ stream \in Seq(Pieces)
      /\ handled \in Seq(Seq(Pieces)) /\ past \in Seq(Pieces)
      /\ buf \in Seq(Pieces) /\ wire \in Seq(Pieces)
  BY Streams DEF PartitionInv
<1>2. past \o <<>> = past
  BY <1>1
<1>3. /\ pc \in {"handling", "panicked"} => (past \o buf) \o wire = stream
      /\ pc \in {"reading", "writing"} => past \o wire = stream
      /\ pc = "closed" => IsPrefix(past, stream)
  BY <1>2 DEF StreamPartitioned, PartitionInv
<1> HIDE DEF past, stream
<1>4. past \in Seq(Pieces) /\ buf \in Seq(Pieces) /\ wire \in Seq(Pieces)
  BY <1>1
<1> HIDE PiecesAssumption, CapacityAssumption
<1>5. CASE \E m \in Messages : Send(m)
  <2>1. PICK m \in Messages : Send(m)
    BY <1>5
  <2>2. m \in Seq(Pieces) /\ pc \in {"reading", "handling", "writing", "panicked"}
    BY <2>1, PiecesAssumption DEF Send, PartitionInv, BetweenReads, TypeOK
  <2>3. FlattenSeq(sent') = stream \o m
    BY <1>1, <2>1, <2>2, FlattenAppend DEF Send, stream
  <2>4. wire' = wire \o m /\ handled' = handled /\ buf' = buf /\ pc' = pc
    BY <2>1 DEF Send
  <2>5. CASE pc \in {"handling", "panicked"}
    <3>1. (past \o buf) \o (wire \o m) = ((past \o buf) \o wire) \o m
      BY <1>4, <2>2, ConcatRegroup
    <3>2. QED
      BY <1>3, <2>3, <2>4, <2>5, <3>1 DEF StreamPartitioned, past
  <2>6. CASE pc \in {"reading", "writing"}
    <3>1. past \o (wire \o m) = (past \o wire) \o m
      <4>1. Shifts(past, wire, m)
        BY <1>4, <2>2, ConcatShifts
      <4>2. QED
        BY <4>1 DEF Shifts
    <3>2. QED
      BY <1>2, <1>3, <2>3, <2>4, <2>6, <3>1 DEF StreamPartitioned, past
  <2>7. QED
    BY <2>2, <2>5, <2>6
<1>6. CASE HangUp \/ HandlePanics \/ UNCHANGED vars
  BY <1>6 DEF HangUp, HandlePanics, vars, StreamPartitioned, PartitionInv
<1>7. CASE Read
  <2>1. PICK n \in 1 .. Len(wire) :
          buf' = buf \o SubSeq(wire, 1, n) /\ wire' = SubSeq(wire, n + 1, Len(wire))
    BY <1>7 DEF Read
  <2>2. pc = "reading" /\ pc' = "handling" /\ UNCHANGED <<sent, handled>> /\ buf = <<>>
    BY <1>7 DEF Read, PartitionInv, BetweenReads
  <2>3. buf' \in Seq(Pieces) /\ wire' \in Seq(Pieces) /\ buf' = SubSeq(wire, 1, n)
    BY <1>1, <2>1, <2>2
  <2>4. buf' \o wire' = wire
    <3>1. n \in 0 .. Len(wire)
      OBVIOUS
    <3>2. SubSeq(wire, 1, n) \o SubSeq(wire, n + 1, Len(wire)) = wire
      BY <1>4, <3>1, SplitAt
    <3>3. QED
      BY <2>1, <2>3, <3>2
  <2>5. (past \o buf') \o wire' = past \o (buf' \o wire')
    <3>1. Shifts(past, buf', wire')
      BY <1>4, <2>3, ConcatShifts
    <3>2. QED
      BY <3>1 DEF Shifts
  <2>6. QED
    BY <1>3, <2>2, <2>4, <2>5 DEF StreamPartitioned, past, stream
<1>8. CASE EndOfStream \/ ReadError
  <2>1. /\ pc = "reading" /\ pc' = "closed" /\ UNCHANGED <<sent, handled>>
    BY <1>8 DEF EndOfStream, ReadError
  <2>2. IsPrefix(past, stream)
    BY <1>1, <1>3, <2>1, PrefixOfConcat
  <2>3. QED
    BY <1>2, <2>1, <2>2 DEF StreamPartitioned, past, stream
<1>9. CASE Handle
  <2>1. /\ pc = "handling" /\ pc' = "writing" /\ UNCHANGED <<sent, wire>>
        /\ handled' = Append(handled, buf)
    BY <1>9 DEF Handle
  <2>2. FlattenSeq(handled') = past \o buf
    BY <1>1, <2>1, FlattenAppend DEF past
  <2>3. (past \o buf) \o <<>> = past \o buf
    BY <1>1
  <2>4. QED
    BY <1>3, <2>1, <2>2, <2>3 DEF StreamPartitioned, stream
<1>10. CASE Write
  <2>1. pc = "writing" /\ pc' = "reading" /\ UNCHANGED <<sent, wire, handled>>
    BY <1>10 DEF Write
  <2>2. QED
    BY <1>2, <1>3, <2>1 DEF StreamPartitioned, past, stream
<1>11. QED
  BY <1>5, <1>6, <1>7, <1>8, <1>9, <1>10 DEF Next, Task

\* However the reads cut the stream, the deserializer sees every byte of it once and in
\* order: what was handled, what is in hand and what is still to be read make it up.
THEOREM NothingLostOrSeenTwice == Spec => []StreamPartitioned
<1>1. Init => PartitionInv
  <2>1. FlattenSeq(<<>>) = <<>> /\ <<>> \o <<>> = <<>>
    BY FlattenEmpty
  <2>2. QED
    BY <2>1 DEF Init, PartitionInv, TypeOK, BetweenReads, StreamPartitioned
<1>2. PartitionInv /\ [Next]_vars => PartitionInv'
  BY TypeStep, BetweenReadsStep, PartitionStep DEF PartitionInv
<1>3. PartitionInv => StreamPartitioned
  BY DEF PartitionInv
<1>4. QED
  BY <1>1, <1>2, <1>3, PTL DEF Spec

-----------------------------------------------------------------------------
\* As long as each read returns one message: the messages handled are those sent, from
\* the first on, the one in hand is the next, and the replies are those to the first of
\* them, the last one that is still to be written not counted.
OneByOne ==
  whole =>
    /\ Len(handled) <= Len(sent)
    /\ \A i \in 1 .. Len(handled) : handled[i] = sent[i]
    /\ pc \in {"handling", "panicked"} =>
         Len(handled) < Len(sent) /\ buf = sent[Len(handled) + 1]
    /\ pc = "writing" => handled # <<>> /\ reply = handled[Len(handled)]
    /\ Len(replies) <= Len(handled)
    /\ \A i \in 1 .. Len(replies) : replies[i] = handled[i]

StepInv == PartitionInv /\ OneReplyPerRead /\ OneByOne

\* A read that takes the length of the next message off the wire takes that message.
LEMMA WholeRead ==
  ASSUME PartitionInv, OneByOne, Read, whole'
  PROVE  Len(handled) < Len(sent) /\ buf' = sent[Len(handled) + 1]
<1> DEFINE k == Len(handled)
<1>1. PICK n \in 1 .. Len(wire) :
        /\ buf' = buf \o SubSeq(wire, 1, n)
        /\ whole' = (whole /\ IsWhole(n))
  BY DEF Read
<1>2. whole /\ n = Len(sent[k + 1])
  BY <1>1 DEF IsWhole
<1>3. /\ sent \in Seq(Seq(Pieces)) /\ handled \in Seq(Seq(Pieces))
      /\ wire \in Seq(Pieces) /\ FlattenSeq(handled) \in Seq(Pieces)
  BY Streams DEF PartitionInv
<1>4. pc = "reading" /\ buf = <<>>
  BY DEF Read, PartitionInv, BetweenReads
<1>5. FlattenSeq(handled) \o wire = FlattenSeq(sent)
  <2>1. FlattenSeq(handled) \o <<>> = FlattenSeq(handled)
    BY <1>3
  <2>2. QED
    BY <1>4, <2>1 DEF PartitionInv, StreamPartitioned
<1>6. k \in 0 .. Len(sent) /\ handled = SubSeq(sent, 1, k)
  BY <1>2, <1>3 DEF OneByOne
<1>7. k < Len(sent)
  <2>1. SUFFICES ASSUME k = Len(sent) PROVE FALSE
    BY <1>3, <1>6
  <2>2. handled = sent
    BY <1>3, <1>6, <2>1, SubSeqFull
  <2>3. wire = <<>>
    BY <1>3, <1>5, <2>2, ConcatEqualIffEmpty
  <2>4. QED
    BY <2>3
<1>8. SubSeq(wire, 1, n) = sent[k + 1]
  <2>1. PICK m \in Seq(Pieces) : m = sent[k + 1]
    BY <1>3, <1>6, <1>7
  <2>2. FlattenSeq(SubSeq(sent, 1, k + 1)) = FlattenSeq(handled) \o m
    <3>1. SubSeq(sent, 1, k + 1) = Append(SubSeq(sent, 1, k), sent[k + 1])
      <4>1. k \in Nat
        BY <1>6
      <4>2. QED
        BY <1>3, <1>7, <4>1, PrefixAndNext
    <3>2. SubSeq(sent, 1, k + 1) = Append(handled, m)
      BY <1>6, <2>1, <3>1
    <3>3. QED
      BY <1>3, <3>2, FlattenAppend
  <2>3. PICK r \in Seq(Pieces) : FlattenSeq(sent) = FlattenSeq(SubSeq(sent, 1, k + 1)) \o r
    <3>1. k + 1 \in 0 .. Len(sent)
      BY <1>3, <1>6, <1>7
    <3>2. QED
      BY <1>3, <3>1, FlattenPrefix
  <2>4. PICK past \in Seq(Pieces) : past = FlattenSeq(handled)
    BY <1>3
  <2>5. PICK next : next = FlattenSeq(SubSeq(sent, 1, k + 1))
    OBVIOUS
  <2>6. PICK stream : stream = FlattenSeq(sent)
    OBVIOUS
  <2>7. Joins(stream, past, wire) /\ Joins(next, past, m) /\ Joins(stream, next, r)
    BY <1>5, <2>2, <2>3, <2>4, <2>5, <2>6 DEF Joins
  <2>8. n = Len(m) /\ n \in 1 .. Len(wire)
    BY <1>2, <2>1
  <2>9. \A i \in 1 .. Len(m) : wire[i] = m[i]
    <3> HIDE PiecesAssumption, CapacityAssumption
    <3>1. wire \in Seq(Pieces) /\ Len(m) <= Len(wire)
      BY <1>3, <2>8
    <3>2. QED
      BY <2>7, <3>1, NextPart
  <2>10. QED
    BY <1>3, <2>1, <2>8, <2>9
<1>9. QED
  BY <1>1, <1>3, <1>4, <1>7, <1>8

\* Each step keeps messages and replies one to one.
LEMMA OneByOneStep == StepInv /\ [Next]_vars => OneByOne'
<1> SUFFICES ASSUME StepInv, [Next]_vars, whole' PROVE OneByOne'
  BY DEF OneByOne
<1>1. whole
  BY DEF Next, Task, Send, HangUp, Read, EndOfStream, ReadError, Handle, HandlePanics,
         Write, vars
<1>2. /\ sent \in Seq(Messages) /\ handled \in Seq(Seq(Pieces)) /\ replies \in Seq(Reply)
      /\ Len(sent) \in Nat /\ Len(handled) \in Nat /\ Len(replies) \in Nat
  BY DEF StepInv, PartitionInv, TypeOK
<1>3. OneByOne /\ OneReplyPerRead /\ PartitionInv
  BY DEF StepInv
<1>4. CASE \E m \in Messages : Send(m)
  <2>1. PICK m \in Messages : Send(m)
    BY <1>4
  <2>2. Len(sent') = Len(sent) + 1 /\ \A i \in 1 .. Len(sent) : sent'[i] = sent[i]
    BY <1>2, <2>1 DEF Send
  <2>3. QED
    BY <1>1, <1>2, <1>3, <2>1, <2>2 DEF Send, OneByOne
<1>5. CASE HangUp \/ EndOfStream \/ ReadError \/ UNCHANGED vars
  BY <1>1, <1>2, <1>3, <1>5 DEF HangUp, EndOfStream, ReadError, vars, OneByOne
<1>6. CASE Read
  <2>1. Len(handled) < Len(sent) /\ buf' = sent[Len(handled) + 1]
    BY <1>3, <1>6, WholeRead
  <2>2. QED
    BY <1>1, <1>2, <1>3, <1>6, <2>1 DEF Read, OneByOne
<1>7. CASE HandlePanics
  BY <1>1, <1>2, <1>3, <1>7 DEF HandlePanics, OneByOne
<1>8. CASE Handle
  <2>1. /\ Len(handled) < Len(sent) /\ buf = sent[Len(handled) + 1]
        /\ buf \in Messages
    BY <1>1, <1>2, <1>3, <1>8 DEF Handle, OneByOne
  <2>2. /\ Len(handled') = Len(handled) + 1 /\ handled'[Len(handled) + 1] = buf
        /\ \A i \in 1 .. Len(handled) : handled'[i] = handled[i]
    BY <1>2, <1>8 DEF Handle, StepInv, PartitionInv, TypeOK
  <2>3. reply' = buf /\ pc' = "writing" /\ UNCHANGED <<sent, replies>>
    BY <1>8, <2>1 DEF Handle
  <2>4. handled' # <<>>
    BY <1>2, <2>2
  <2>5. \A i \in 1 .. Len(handled') : handled'[i] = sent'[i]
    <3>1. \A i \in 1 .. Len(handled) : handled[i] = sent[i]
      BY <1>1, <1>3 DEF OneByOne
    <3>2. \A i \in 1 .. Len(handled') : i \in 1 .. Len(handled) \/ i = Len(handled) + 1
      BY <1>2, <2>2
    <3>3. QED
      BY <2>1, <2>2, <2>3, <3>1, <3>2
  <2>6. \A i \in 1 .. Len(replies') : replies'[i] = handled'[i]
    BY <1>1, <1>2, <1>3, <2>2, <2>3 DEF OneByOne
  <2>7. Len(handled') <= Len(sent') /\ Len(replies') <= Len(handled')
    BY <1>1, <1>2, <1>3, <2>1, <2>2, <2>3 DEF OneByOne
  <2>8. QED
    BY <2>2, <2>3, <2>4, <2>5, <2>6, <2>7 DEF OneByOne
<1>9. CASE Write
  <2>1. /\ handled # <<>> /\ reply = handled[Len(handled)] /\ pc' = "reading"
        /\ UNCHANGED <<sent, handled>>
    BY <1>1, <1>3, <1>9 DEF Write, OneByOne
  <2>2. CASE peer = "gone"
    BY <1>1, <1>2, <1>3, <1>9, <2>1, <2>2 DEF Write, OneByOne
  <2>3. CASE peer # "gone"
    <3>1. Len(handled) = Len(replies) + 1
      BY <1>2, <1>3, <1>9, <2>3 DEF Write, OneReplyPerRead
    <3>2. /\ Len(replies') = Len(replies) + 1 /\ replies'[Len(replies) + 1] = reply
          /\ \A i \in 1 .. Len(replies) : replies'[i] = replies[i]
      BY <1>2, <1>9, <2>3 DEF Write, StepInv, PartitionInv, TypeOK
    <3>3. \A i \in 1 .. Len(replies') : replies'[i] = handled'[i]
      <4>1. \A i \in 1 .. Len(replies) : replies[i] = handled[i]
        BY <1>1, <1>3 DEF OneByOne
      <4>2. \A i \in 1 .. Len(replies') : i \in 1 .. Len(replies) \/ i = Len(replies) + 1
        BY <1>2, <3>2
      <4>3. QED
        BY <2>1, <3>1, <3>2, <4>1, <4>2
    <3>4. QED
      BY <1>1, <1>2, <1>3, <2>1, <3>1, <3>2, <3>3 DEF OneByOne
  <2>4. QED
    BY <2>2, <2>3
<1>10. QED
  BY <1>4, <1>5, <1>6, <1>7, <1>8, <1>9 DEF Next, Task

\* What is known between any two steps, for the proofs of this and of what implements it.
THEOREM StepInvHolds == Spec => []StepInv
<1>1. Init => StepInv
  <2>1. FlattenSeq(<<>>) = <<>> /\ <<>> \o <<>> = <<>>
    BY FlattenEmpty
  <2>2. QED
    BY <2>1 DEF Init, StepInv, PartitionInv, TypeOK, BetweenReads, StreamPartitioned,
                OneReplyPerRead, OneByOne
<1>2. StepInv /\ [Next]_vars => StepInv'
  BY TypeStep, BetweenReadsStep, PartitionStep, CountStep, OneByOneStep
     DEF StepInv, PartitionInv
<1>3. QED
  BY <1>1, <1>2, PTL DEF Spec

\* As long as each read returns one message, whatever the client sends before it has its
\* replies, these answer its messages one by one in the order they were sent.
THEOREM RepliesInStep == Spec => []InStep
<1>1. StepInv => InStep
  <2> SUFFICES ASSUME StepInv, whole PROVE IsPrefix(replies, sent)
    BY DEF InStep
  <2>1. sent \in Seq(Messages) /\ replies \in Seq(Reply) /\ handled \in Seq(Seq(Pieces))
    BY DEF StepInv, PartitionInv, TypeOK
  <2>2. Len(replies) <= Len(sent) /\ \A i \in 1 .. Len(replies) : replies[i] = sent[i]
    BY <2>1 DEF StepInv, OneByOne
  <2>3. QED
    BY <2>1, <2>2 DEF IsPrefix
<1>2. QED
  BY <1>1, StepInvHolds, PTL
=============================================================================

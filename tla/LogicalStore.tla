---------------------------- MODULE LogicalStore ----------------------------
(***************************************************************************)
(* What the server promises its clients: a store in which an object is     *)
(* gone the moment its expiration has passed, every command of a           *)
(* connection takes effect at one instant between its arrival and its      *)
(* reply, and arithmetic is exact on a missing key that counts as 0.       *)
(* There is no mutex, no expired entry, no lazy or periodic removal here.  *)
(* Two commands show that the server is not quite such a store, and the    *)
(* promise makes room for them: DEL may count keys that are gone, and      *)
(* EXISTS judges each of its keys at an instant of its own (no other       *)
(* command takes effect in between, but time passes).                      *)
(* The promise is one of safety: a connection may be dropped at any time.  *)
(***************************************************************************)
EXTENDS Execution

CONSTANT Conns

VARIABLES
  now,       \* the wall clock, which only goes forward
  live,      \* the objects that have not expired
  scanning,  \* the connection whose EXISTS is under way, or None
  pc, req, reply, scan

vars == <<now, live, scanning, pc, req, reply, scan>>

\* At the very instant of its expiration an object is still there.
Gone(o, t) == o.expiration # None /\ t > o.expiration

Unexpired(m, t) == Restrict(m, {k \in DOMAIN m : ~Gone(m[k], t)})

NoScan == [left |-> <<>>, count |-> 0]

Init ==
  /\ now \in Instants
  /\ live = EmptyMap
  /\ scanning = None
  /\ pc = [c \in Conns |-> "closed"]
  /\ req = [c \in Conns |-> None]
  /\ reply = [c \in Conns |-> None]
  /\ scan = NoScan

Answer(c, response) ==
  /\ pc' = [pc EXCEPT ![c] = "replying"]
  /\ req' = [req EXCEPT ![c] = None]
  /\ reply' = [reply EXCEPT ![c] = response]

-----------------------------------------------------------------------------

Connect(c) ==
  /\ pc[c] = "closed"
  /\ pc' = [pc EXCEPT ![c] = "reading"]
  /\ UNCHANGED <<now, live, scanning, req, reply, scan>>

\* The connection is lost, and with it a command that has not taken effect.
Drop(c) ==
  /\ pc[c] \in {"reading", "waiting"}
  /\ pc' = [pc EXCEPT ![c] = "closed"]
  /\ req' = [req EXCEPT ![c] = None]
  /\ UNCHANGED <<now, live, scanning, reply, scan>>

Arrive(c) ==
  /\ pc[c] = "reading"
  /\ pc' = [pc EXCEPT ![c] = "waiting"]
  /\ req'[c] \in DbRequest
  /\ req' = [req EXCEPT ![c] = req'[c]]
  /\ UNCHANGED <<now, live, scanning, reply, scan>>

\* A message that is no command on the store is answered at once.
AnswerLocally(c) ==
  /\ pc[c] = "reading"
  /\ reply'[c] \in LocalResponse
  /\ Answer(c, reply'[c])
  /\ UNCHANGED <<now, live, scanning, scan>>

Replied(c) ==
  /\ pc[c] = "replying"
  /\ pc' = [pc EXCEPT ![c] = "reading"]
  /\ reply' = [reply EXCEPT ![c] = None]
  /\ UNCHANGED <<now, live, scanning, req, scan>>

-----------------------------------------------------------------------------

\* The command of c takes effect.
Perform(c, cmds) ==
  /\ pc[c] = "waiting"
  /\ scanning = None
  /\ req[c].cmd \in cmds
  /\ UNCHANGED <<now, scanning, scan>>

Set(c) ==
  /\ Perform(c, {"set"})
  /\ LET o == NewObject(req[c].value, req[c].expiration)
     IN  live' = Unexpired(Insert(live, req[c].key, o), now)
  /\ Answer(c, SimpleString)

Get(c) ==
  /\ Perform(c, {"get"})
  /\ live' = live
  /\ Answer(c, IF req[c].key \in DOMAIN live
               THEN BulkString(Display(live[req[c].key].value)) ELSE Null)

Del(c) ==
  /\ Perform(c, {"del"})
  /\ live' = SwapRemove(live, ToSet(req[c].keys))
  /\ \E n \in Cardinality(DOMAIN live \cap ToSet(req[c].keys))
                .. Cardinality(ToSet(req[c].keys)) :
       Answer(c, IntegerReply(n))

Delta(r) == IF Adds(r) THEN r.by ELSE -r.by

\* On a number, or on 0 where there is nothing; the expiration stays.
Arithmetic(c) ==
  /\ Perform(c, ArithmeticCommands)
  /\ LET r == req[c]
         old == IF r.key \in DOMAIN live THEN live[r.key]
                ELSE NewObject(IntegerValue(0), None)
         sum == old.value.integer + Delta(r)
     IN  \/ /\ old.value.kind = "integer" /\ sum \in Int64
            /\ live' = Insert(live, r.key, NewObject(IntegerValue(sum), old.expiration))
            /\ Answer(c, IntegerReply(sum))
         \/ /\ old.value.kind = "integer" /\ sum \notin Int64
            /\ live' = live
            /\ Answer(c, SimpleError(OverflowError))
         \/ /\ old.value.kind # "integer"
            /\ live' = live
            /\ Answer(c, SimpleError(IntegerError))

\* On a list, or on the empty one where there is nothing; the expiration stays.
Push(c) ==
  /\ Perform(c, PushCommands)
  /\ LET r == req[c]
         old == IF r.key \in DOMAIN live THEN live[r.key]
                ELSE NewObject(ListValue(<<>>), None)
         l == Pushed(r, old.value.list)
     IN  \/ /\ old.value.kind = "list"
            /\ live' = Insert(live, r.key, NewObject(ListValue(l), old.expiration))
            /\ Answer(c, IntegerReply(Len(l)))
         \/ /\ old.value.kind # "list"
            /\ live' = live
            /\ Answer(c, SimpleError(WrongType))

ExistsBegin(c) ==
  /\ pc[c] = "waiting"
  /\ scanning = None
  /\ req[c].cmd = "exists"
  /\ scanning' = c
  /\ scan' = [left |-> req[c].keys, count |-> 0]
  /\ pc' = [pc EXCEPT ![c] = "scanning"]
  /\ UNCHANGED <<now, live, req, reply>>

ExistsLook(c) ==
  /\ pc[c] = "scanning"
  /\ scan.left # <<>>
  /\ scan' = [left |-> Tail(scan.left),
              count |-> IF Head(scan.left) \in DOMAIN live THEN scan.count + 1 ELSE scan.count]
  /\ UNCHANGED <<now, live, scanning, pc, req, reply>>

ExistsEnd(c) ==
  /\ pc[c] = "scanning"
  /\ scan.left = <<>>
  /\ Answer(c, IntegerReply(scan.count))
  /\ scanning' = None
  /\ scan' = NoScan
  /\ UNCHANGED <<now, live>>

\* Time passes, and takes the objects whose expiration it passes.
Advance ==
  /\ \E t \in Instants : t > now /\ now' = t
  /\ live' = Unexpired(live, now')
  /\ UNCHANGED <<scanning, pc, req, reply, scan>>

Serve(c) ==
  \/ Connect(c) \/ Drop(c) \/ Arrive(c) \/ AnswerLocally(c) \/ Replied(c)
  \/ Set(c) \/ Get(c) \/ Del(c) \/ Arithmetic(c) \/ Push(c)
  \/ ExistsBegin(c) \/ ExistsLook(c) \/ ExistsEnd(c)

Next == (\E c \in Conns : Serve(c)) \/ Advance

Spec == Init /\ [][Next]_vars
=============================================================================

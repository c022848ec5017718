--------------------------- MODULE RepositoryTests ---------------------------
(***************************************************************************)
(* The tests of the repository, run against the modules: those of parsing  *)
(* on Requests, those of commands and of the expiry task on Positions,     *)
(* whose steps the clock interrupts as it does the code's.                 *)
(*                                                                         *)
(* Objects that expire `now' are stored with the instant at which the map  *)
(* is made, and the clock has moved on before the first request: the tests *)
(* rely on it, for an object is still there at the instant of its          *)
(* expiration (db.rs:41).                                                  *)
(***************************************************************************)
EXTENDS ExpiryTests

VARIABLES test, replies   \* the test that runs, and the replies it has got so far

testVars == <<vars, test, replies>>

Tests == CommandTests \cup PassTests

\* The map of the test is made.
TestInit ==
  /\ test \in Tests
  /\ replies = <<>>
  /\ now = Start
  /\ db = test.map /\ order = test.order
  /\ pass = Waiting("ready")
  /\ lock = None /\ poisoned = FALSE /\ budget = 0 /\ scan = Clients!NoScan
  /\ pc = [c \in Conns |-> "reading"]
  /\ req = [c \in Conns |-> None] /\ reply = [c \in Conns |-> None]

\* The request that comes next, once there is one.
Due == now > Start /\ Len(replies) < Len(test.requests)
NextRequest == test.requests[Len(replies) + 1]

\* PING and ECHO need no mutex.
Execute(c) ==
  /\ pc[c] = "reading"
  /\ Due /\ NextRequest # APass
  /\ IF NextRequest.cmd \in {"ping", "echo"}
     THEN Clients!Answer(c, Clients!LocalReply(NextRequest))
     ELSE /\ req' = [req EXCEPT ![c] = NextRequest]
          /\ pc' = [pc EXCEPT ![c] = "waiting"]
          /\ reply' = reply
  /\ UNCHANGED <<now, db, lock, poisoned, scan, budget, order, pass, test, replies>>

\* The command itself, in one step or several.
Works(c) ==
  /\ pc[c] \in {"waiting", "scanning"}
  /\ Connection(c)
  /\ UNCHANGED <<test, replies>>

Takes(c) ==
  /\ Clients!WriteReply(c)
  /\ replies' = Append(replies, reply[c])
  /\ UNCHANGED <<order, pass, test>>

RunPass ==
  /\ Due /\ NextRequest = APass
  /\ \/ (PassBegin \/ PassLook) /\ replies' = replies
     \/ (PassIdle \/ PassEnd) /\ replies' = Append(replies, Collected(Len(pass.keys)))
  /\ test' = test

TestTick == Tick /\ now' <= Start + Advance /\ UNCHANGED <<test, replies>>

TestNext == (\E c \in Conns : Execute(c) \/ Works(c) \/ Takes(c)) \/ RunPass \/ TestTick

TestSpec == TestInit /\ [][TestNext]_testVars /\ WF_testVars(TestNext)

-----------------------------------------------------------------------------

Finished == Len(replies) = Len(test.requests)

(***************************************************************************)
(* The commands and the passes get through the tests of the repository at  *)
(* whatever pace the clock moves between and inside them: none panics or   *)
(* is left without a reply, and the replies and the lists are those that   *)
(* the tests accept.                                                       *)
(***************************************************************************)
ExecutionTestsPass ==
  <>(/\ Finished
     /\ \A i \in DOMAIN replies : replies[i] \in test.replies[i]
     /\ \A k \in DOMAIN test.lists : k \in DOMAIN db /\ db[k].value = ListValue(test.lists[k]))

(***************************************************************************)
(* What a pass of the tests of db.rs removes had expired, whichever        *)
(* positions it samples, and it removes as many entries as it says.        *)
(***************************************************************************)
ExpiryTestsPass ==
  /\ \A t \in ObjectTests : IsExpired(ObjectOf(t[1]), now) = t[2]
  /\ test.kept \subseteq DOMAIN db
  /\ Finished /\ test.requests = <<APass>> =>
       Cardinality(DOMAIN test.map) - Cardinality(DOMAIN db) = replies[1].removed

Parsers == INSTANCE ParserTests

(***************************************************************************)
(* Requests passes the tests of the repository whenever a function is      *)
(* called and reads the clock between the two readings of its test.        *)
(***************************************************************************)
ParserTestsPass ==
  \A at \in Start .. now : \A t \in Parsers!Tests(Start, now) : Parsers!Passes(t, at)
=============================================================================

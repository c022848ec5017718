------------------------------- MODULE Server -------------------------------
(***************************************************************************)
(* The running server (src/src/main.rs, Request::execute in                *)
(* src/src/cmd/request.rs, remove_expired_entries in src/src/db.rs): one   *)
(* task per connection and one expiry task share the keyspace behind a     *)
(* std::sync::Mutex, and read a wall clock that runs on while they work.   *)
(*                                                                         *)
(* A step is what a task does between two points at which another task or  *)
(* the clock can interfere.  A command that reads the clock at most once   *)
(* is one step: nothing else reaches the map while it holds the mutex.     *)
(* EXISTS and the expiry task read the clock once per key, and take one    *)
(* step per key with the mutex held.  A message is parsed, and the         *)
(* deadline of SET computed, in a step before the one that locks.          *)
(*                                                                         *)
(* A message is a whole sequence of parameters or a text the deserializer  *)
(* refuses; how bytes become messages is not part of this module.          *)
(***************************************************************************)
EXTENDS Execution, FiniteSetsExt

CONSTANTS
  Conns,           \* the connections that can be open at the same time
  Messages,        \* the well-formed messages the clients send
  MaxMessages,     \* bound: messages received by all the connections together
  SampleSize,      \* sample_size of the expiry task (100 in main)
  ClockStepsBack,  \* may the wall clock be set back?
  Expiry           \* the expiry task, as the holder of the mutex

ASSUME MessagesAssumption == Messages \subseteq Seq(Texts)
ASSUME BoundAssumption == MaxMessages \in Nat
ASSUME SampleAssumption == SampleSize \in Nat \ {0}
ASSUME ClockAssumption == ClockStepsBack \in BOOLEAN
ASSUME TasksAssumption == Expiry \notin Conns /\ None \notin Conns \cup {Expiry}

VARIABLES
  now,        \* what SystemTime::now() returns
  db,         \* the map behind the mutex
  lock,       \* the task that holds the mutex between two steps, or None
  poisoned,   \* did a task panic while it held the mutex?
  pc,         \* where each connection's task is
  req,        \* the parsed request of a connection that waits for the mutex
  reply,      \* the reply a connection is about to write
  scan,       \* the locals of the EXISTS that holds the mutex
  expiry,     \* the expiry task: where it is, and the locals of its pass
  budget      \* messages still to come

vars == <<now, db, lock, poisoned, pc, req, reply, scan, expiry, budget>>

-----------------------------------------------------------------------------
Status == {"closed", "reading", "waiting", "scanning", "replying"}
NoScan == [left |-> <<>>, count |-> 0]
Resting(at) == [at |-> at, left |-> {}, doomed |-> {}, size |-> 0]

TypeOK ==
  /\ now \in Instants
  /\ IsMap(db)
  /\ lock \in Conns \cup {Expiry, None}
  /\ poisoned \in BOOLEAN
  /\ pc \in [Conns -> Status]
  /\ req \in [Conns -> DbRequest \cup {None}]
  /\ reply \in [Conns -> Response \cup {None}]
  /\ scan \in [left: Seq(Texts), count: Nat]
  /\ expiry \in [at: {"ready", "sampling", "asleep", "dead"},
                 left: SUBSET Texts, doomed: SUBSET Texts, size: Nat]
  /\ budget \in 0 .. MaxMessages

Init ==
  /\ now \in Instants
  /\ db = EmptyMap
  /\ lock = None
  /\ poisoned = FALSE
  /\ pc = [c \in Conns |-> "closed"]
  /\ req = [c \in Conns |-> None]
  /\ reply = [c \in Conns |-> None]
  /\ scan = NoScan
  /\ expiry = Resting("ready")
  /\ budget = MaxMessages

\* Mutant: the expiration of an entry is not looked at.
Present(k) == k \in DOMAIN db

Live(k) == k \in DOMAIN db /\ ~IsExpired(db[k], now)

-----------------------------------------------------------------------------
(* A connection outside the mutex: accept, read, parse, write. *)

Accept(c) ==
  /\ pc[c] = "closed"
  /\ pc' = [pc EXCEPT ![c] = "reading"]
  /\ UNCHANGED <<now, db, lock, poisoned, req, reply, scan, expiry, budget>>

\* End of the stream or a read error: the task ends.
Close(c) ==
  /\ pc[c] = "reading"
  /\ pc' = [pc EXCEPT ![c] = "closed"]
  /\ UNCHANGED <<now, db, lock, poisoned, req, reply, scan, expiry, budget>>

Answer(c, response) ==
  /\ pc' = [pc EXCEPT ![c] = "replying"]
  /\ req' = [req EXCEPT ![c] = None]
  /\ reply' = [reply EXCEPT ![c] = response]

CanReceive(c) ==
  /\ pc[c] = "reading"
  /\ budget > 0
  /\ budget' = budget - 1
  /\ UNCHANGED <<now, db, lock, poisoned, scan, expiry>>

ReceiveMalformed(c) ==
  /\ CanReceive(c)
  /\ Answer(c, SimpleError(DeserializeError))

ReceiveInvalid(c) ==
  /\ CanReceive(c)
  /\ \E m \in Messages :
       /\ ~TryFrom(m, now).ok
       /\ Answer(c, SimpleError(TryFrom(m, now).val))

LocalReply(r) ==
  IF r.text = None THEN SimpleString ELSE BulkString([text |-> r.text])

\* PING and ECHO are answered without the mutex.
ReceiveLocal(c) ==
  /\ CanReceive(c)
  /\ \E m \in Messages :
       /\ TryFrom(m, now).ok
       /\ TryFrom(m, now).val.cmd \in {"ping", "echo"}
       /\ Answer(c, LocalReply(TryFrom(m, now).val))

\* The deadline of SET ... EX is fixed here, before the mutex is asked for.
ReceiveRequest(c) ==
  /\ CanReceive(c)
  /\ \E m \in Messages :
       /\ TryFrom(m, now).ok
       /\ TryFrom(m, now).val.cmd \notin {"ping", "echo"}
       /\ req' = [req EXCEPT ![c] = TryFrom(m, now).val]
  /\ pc' = [pc EXCEPT ![c] = "waiting"]
  /\ UNCHANGED reply

\* write_all and flush; the loop goes on whether or not they succeed.
WriteReply(c) ==
  /\ pc[c] = "replying"
  /\ pc' = [pc EXCEPT ![c] = "reading"]
  /\ reply' = [reply EXCEPT ![c] = None]
  /\ UNCHANGED <<now, db, lock, poisoned, req, scan, expiry, budget>>

-----------------------------------------------------------------------------
(* The commands, each from the lock of the mutex on. *)

\* Mutants: the mutex excludes nobody; it is held until the reply is written; a
\* poisoned mutex can be locked.
CanIntrude(c) == pc[c] = "waiting" /\ ~poisoned
CanLockOnceWritten(c) ==
  pc[c] = "waiting" /\ lock = None /\ ~poisoned /\ \A d \in Conns : pc[d] # "replying"
CanLockPoisoned(c) == pc[c] = "waiting" /\ lock = None

CanLock(c) == pc[c] = "waiting" /\ lock = None /\ ~poisoned

\* A command that locks and unlocks within the step.
Run(c, cmds) ==
  /\ CanLock(c)
  /\ req[c].cmd \in cmds
  /\ UNCHANGED <<now, lock, poisoned, scan, expiry, budget>>

Set(c) ==
  /\ Run(c, {"set"})
  /\ db' = Insert(db, req[c].key, NewObject(req[c].value, req[c].expiration))
  /\ Answer(c, SimpleString)

GetLive(c) ==
  /\ Run(c, {"get"})
  /\ Live(req[c].key)
  /\ db' = db
  /\ Answer(c, BulkString(Display(db[req[c].key].value)))

\* Mutant: an expired entry is reported missing and left in the map.
GetMissingKeeps(c) ==
  /\ Run(c, {"get"})
  /\ ~Live(req[c].key)
  /\ db' = db
  /\ Answer(c, Null)

\* The entry of an expired key is removed; there is none to remove under a missing one.
GetMissing(c) ==
  /\ Run(c, {"get"})
  /\ ~Live(req[c].key)
  /\ db' = SwapRemove(db, {req[c].key})
  /\ Answer(c, Null)

\* Mutant: a key is counted as often as it is named.
DelCountsAgain(c) ==
  /\ Run(c, {"del"})
  /\ db' = SwapRemove(db, ToSet(req[c].keys))
  /\ Answer(c, IntegerReply(Cardinality({i \in DOMAIN req[c].keys : req[c].keys[i] \in DOMAIN db})))

\* DEL does not look at expirations: it counts whatever it removes.
Del(c) ==
  /\ Run(c, {"del"})
  /\ db' = SwapRemove(db, ToSet(req[c].keys))
  /\ Answer(c, IntegerReply(Cardinality(DOMAIN db \cap ToSet(req[c].keys))))

ArithmeticNew(c) ==
  /\ Run(c, ArithmeticCommands)
  /\ ~Panics(req[c])
  /\ ~Live(req[c].key)
  /\ LET v == InitialValue(req[c])
     IN  /\ db' = Insert(db, req[c].key, NewObject(IntegerValue(v), None))
         /\ Answer(c, IntegerReply(v))

\* Mutant: the new value loses the expiration of the old one.
ArithmeticForgetsDeadline(c) ==
  /\ Run(c, ArithmeticCommands)
  /\ ~Panics(req[c])
  /\ Live(req[c].key)
  /\ LET result == Operation(req[c], db[req[c].key].value.integer)
     IN  /\ db[req[c].key].value.kind = "integer"
         /\ result.ok
         /\ db' = Insert(db, req[c].key, NewObject(IntegerValue(result.val), None))
         /\ Answer(c, IntegerReply(result.val))

\* The new value keeps the expiration of the old one.
ArithmeticUpdate(c) ==
  /\ Run(c, ArithmeticCommands)
  /\ ~Panics(req[c])
  /\ Live(req[c].key)
  /\ LET o == db[req[c].key]
         result == Operation(req[c], o.value.integer)
     IN  /\ o.value.kind = "integer"
         /\ result.ok
         /\ db' = Insert(db, req[c].key,
                         NewObject(IntegerValue(result.val), o.expiration))
         /\ Answer(c, IntegerReply(result.val))

ArithmeticFails(c) ==
  /\ Run(c, ArithmeticCommands)
  /\ ~Panics(req[c])
  /\ Live(req[c].key)
  /\ LET v == db[req[c].key].value
     IN  \/ /\ v.kind # "integer"
            /\ Answer(c, SimpleError(IntegerError))
         \/ /\ v.kind = "integer"
            /\ ~Operation(req[c], v.integer).ok
            /\ Answer(c, SimpleError(OverflowError))
  /\ db' = db

\* The negation panics while the mutex is held: the map is untouched, the mutex
\* poisoned, and the connection's task ends.
ArithmeticPanics(c) ==
  /\ CanLock(c)
  /\ req[c].cmd \in ArithmeticCommands
  /\ Panics(req[c])
  /\ poisoned' = TRUE
  /\ pc' = [pc EXCEPT ![c] = "closed"]
  /\ req' = [req EXCEPT ![c] = None]
  /\ UNCHANGED <<now, db, lock, reply, scan, expiry, budget>>

PushNew(c) ==
  /\ Run(c, PushCommands)
  /\ ~Live(req[c].key)
  /\ LET l == Pushed(req[c], <<>>)
     IN  /\ db' = Insert(db, req[c].key, NewObject(ListValue(l), None))
         /\ Answer(c, IntegerReply(Len(l)))

\* The list is extended in place: the object keeps its expiration.
PushMore(c) ==
  /\ Run(c, PushCommands)
  /\ Live(req[c].key)
  /\ LET o == db[req[c].key]
         l == Pushed(req[c], o.value.list)
     IN  /\ o.value.kind = "list"
         /\ db' = Insert(db, req[c].key, NewObject(ListValue(l), o.expiration))
         /\ Answer(c, IntegerReply(Len(l)))

PushFails(c) ==
  /\ Run(c, PushCommands)
  /\ Live(req[c].key)
  /\ db[req[c].key].value.kind # "list"
  /\ db' = db
  /\ Answer(c, SimpleError(WrongType))

ExistsBegin(c) ==
  /\ CanLock(c)
  /\ req[c].cmd = "exists"
  /\ lock' = c
  /\ scan' = [left |-> req[c].keys, count |-> 0]
  /\ pc' = [pc EXCEPT ![c] = "scanning"]
  /\ UNCHANGED <<now, db, poisoned, req, reply, expiry, budget>>

\* Mutant: an expired entry is not counted and left in the map.
ExistsLookKeeps(c) ==
  /\ pc[c] = "scanning"
  /\ scan.left # <<>>
  /\ scan' = [left |-> Tail(scan.left),
              count |-> scan.count + IF Live(Head(scan.left)) THEN 1 ELSE 0]
  /\ UNCHANGED <<now, db, lock, poisoned, pc, req, reply, expiry, budget>>

\* Mutant: a missing key is looked for again and again.
ExistsLookAgain(c) ==
  /\ pc[c] = "scanning"
  /\ scan.left # <<>>
  /\ LET k == Head(scan.left)
     IN  \/ /\ Live(k)
            /\ scan' = [left |-> Tail(scan.left), count |-> scan.count + 1]
            /\ db' = db
         \/ /\ ~Live(k)
            /\ scan' = scan
            /\ db' = SwapRemove(db, {k})
  /\ UNCHANGED <<now, lock, poisoned, pc, req, reply, expiry, budget>>

\* The next key is counted if it is live; an expired one is removed.
ExistsLook(c) ==
  /\ pc[c] = "scanning"
  /\ scan.left # <<>>
  /\ LET k == Head(scan.left)
     IN  \/ /\ Live(k)
            /\ scan' = [left |-> Tail(scan.left), count |-> scan.count + 1]
            /\ db' = db
         \/ /\ ~Live(k)
            /\ scan' = [scan EXCEPT !.left = Tail(scan.left)]
            /\ db' = SwapRemove(db, {k})
  /\ UNCHANGED <<now, lock, poisoned, pc, req, reply, expiry, budget>>

ExistsEnd(c) ==
  /\ pc[c] = "scanning"
  /\ scan.left = <<>>
  /\ Answer(c, IntegerReply(scan.count))
  /\ lock' = None
  /\ scan' = NoScan
  /\ UNCHANGED <<now, db, poisoned, expiry, budget>>

\* lock().unwrap() on a poisoned mutex panics: the connection's task ends.
LockPoisoned(c) ==
  /\ pc[c] = "waiting"
  /\ lock = None
  /\ poisoned
  /\ pc' = [pc EXCEPT ![c] = "closed"]
  /\ req' = [req EXCEPT ![c] = None]
  /\ UNCHANGED <<now, db, lock, poisoned, reply, scan, expiry, budget>>

\* What a connection that waits for the mutex does when it gets it.
Locks(c) ==
  \/ Set(c) \/ GetLive(c) \/ GetMissing(c) \/ Del(c)
  \/ ArithmeticNew(c) \/ ArithmeticUpdate(c) \/ ArithmeticFails(c) \/ ArithmeticPanics(c)
  \/ PushNew(c) \/ PushMore(c) \/ PushFails(c)
  \/ ExistsBegin(c) \/ LockPoisoned(c)

\* What a connection does from a message it has read to the next read.
Proceed(c) == ExistsLook(c) \/ ExistsEnd(c) \/ WriteReply(c)

Connection(c) ==
  \/ Accept(c) \/ Close(c)
  \/ ReceiveMalformed(c) \/ ReceiveInvalid(c) \/ ReceiveLocal(c) \/ ReceiveRequest(c)
  \/ Locks(c) \/ Proceed(c)

-----------------------------------------------------------------------------
(* The expiry task. *)

\* An empty map has ratio 0.0: the loop ends.
ExpiryIdle ==
  /\ expiry.at = "ready"
  /\ lock = None
  /\ ~poisoned
  /\ DOMAIN db = {}
  /\ expiry' = Resting("asleep")
  /\ UNCHANGED <<now, db, lock, poisoned, pc, req, reply, scan, budget>>

ExpiryBegin ==
  /\ expiry.at = "ready"
  /\ lock = None
  /\ ~poisoned
  /\ DOMAIN db # {}
  /\ LET size == Min({SampleSize, Cardinality(DOMAIN db)})
     IN  \E sample \in kSubset(size, DOMAIN db) :
           expiry' = [at |-> "sampling", left |-> sample, doomed |-> {}, size |-> size]
  /\ lock' = Expiry
  /\ UNCHANGED <<now, db, poisoned, pc, req, reply, scan, budget>>

\* Mutants: every key of the sample is collected, or those that have not expired; the
\* mutex is released between the last look and the removal.
ExpiryLookTakesAll ==
  /\ expiry.at = "sampling"
  /\ \E k \in expiry.left :
       expiry' = [expiry EXCEPT !.left = @ \ {k}, !.doomed = @ \cup {k}]
  /\ UNCHANGED <<now, db, lock, poisoned, pc, req, reply, scan, budget>>
ExpiryLookInverted ==
  /\ expiry.at = "sampling"
  /\ \E k \in expiry.left :
       expiry' = [expiry EXCEPT
                    !.left = @ \ {k},
                    !.doomed = IF IsExpired(db[k], now) THEN @ ELSE @ \cup {k}]
  /\ UNCHANGED <<now, db, lock, poisoned, pc, req, reply, scan, budget>>
ExpiryLookUnlocks ==
  /\ expiry.at = "sampling"
  /\ \E k \in expiry.left :
       /\ expiry' = [expiry EXCEPT
                       !.left = @ \ {k},
                       !.doomed = IF IsExpired(db[k], now) THEN @ \cup {k} ELSE @]
       /\ lock' = IF expiry.left = {k} THEN None ELSE lock
  /\ UNCHANGED <<now, db, poisoned, pc, req, reply, scan, budget>>

\* The keys of the expired entries are collected, the map left alone.
ExpiryLook ==
  /\ expiry.at = "sampling"
  /\ \E k \in expiry.left :
       expiry' = [expiry EXCEPT
                    !.left = @ \ {k},
                    !.doomed = IF IsExpired(db[k], now) THEN @ \cup {k} ELSE @]
  /\ UNCHANGED <<now, db, lock, poisoned, pc, req, reply, scan, budget>>

\* Mutant: the comparison with the threshold is inverted.
AnotherPassInverted(removed, size) == 4 * removed <= size

\* stop_threshold is 0.25: another pass follows when more of the sample had expired.
AnotherPass(removed, size) == 4 * removed > size

ExpiryEnd ==
  /\ expiry.at = "sampling"
  /\ expiry.left = {}
  /\ db' = SwapRemove(db, expiry.doomed)
  /\ expiry' = Resting(IF AnotherPass(Cardinality(expiry.doomed), expiry.size)
                       THEN "ready" ELSE "asleep")
  /\ lock' = None
  /\ UNCHANGED <<now, poisoned, pc, req, reply, scan, budget>>

\* The second of sleep is over.
ExpiryWake ==
  /\ expiry.at = "asleep"
  /\ expiry' = Resting("ready")
  /\ UNCHANGED <<now, db, lock, poisoned, pc, req, reply, scan, budget>>

\* lock().unwrap() on a poisoned mutex ends the task for good.
ExpiryPanics ==
  /\ expiry.at = "ready"
  /\ lock = None
  /\ poisoned
  /\ expiry' = Resting("dead")
  /\ UNCHANGED <<now, db, lock, poisoned, pc, req, reply, scan, budget>>

ExpiryTask ==
  \/ ExpiryIdle \/ ExpiryBegin \/ ExpiryLook \/ ExpiryEnd \/ ExpiryWake \/ ExpiryPanics

-----------------------------------------------------------------------------

Tick ==
  /\ \E t \in Instants : (ClockStepsBack \/ t > now) /\ now' = t
  /\ UNCHANGED <<db, lock, poisoned, pc, req, reply, scan, expiry, budget>>

Next == (\E c \in Conns : Connection(c)) \/ ExpiryTask \/ Tick

Spec == Init /\ [][Next]_vars

-----------------------------------------------------------------------------
(* Safety. *)

(***************************************************************************)
(* The mutex is held between two steps by the one task that is in the      *)
(* middle of an EXISTS or of a pass over the map, by nobody else, and by   *)
(* nobody at all once it is poisoned; a connection has the request or the  *)
(* reply in hand that its place in the loop calls for.                     *)
(***************************************************************************)
MutexDiscipline ==
  /\ \A c \in Conns :
       /\ pc[c] = "scanning" <=> lock = c
       /\ pc[c] \in {"waiting", "scanning"} => req[c] \in DbRequest
       /\ pc[c] = "scanning" => req[c].cmd = "exists"
       /\ pc[c] = "replying" => reply[c] \in Response
  /\ expiry.at = "sampling" <=> lock = Expiry
  /\ poisoned => lock = None

(***************************************************************************)
(* What SET, INCR..., LPUSH... store: no string that i64 could parse, for  *)
(* which INCR would answer IntegerError, and no empty list, which EXISTS   *)
(* would count (set.rs:27-29, list.rs:29-36); and the requests that wait   *)
(* for the mutex carry neither.                                            *)
(***************************************************************************)
WellFormedStore ==
  /\ \A k \in DOMAIN db : WellFormedValue(db[k].value)
  /\ \A c \in Conns : pc[c] = "waiting" => WellFormedRequest(req[c])

(***************************************************************************)
(* A panic while the mutex is held ends the store for everyone: no command *)
(* on the map is carried out from then on, not even a removal of the       *)
(* expiry task (lock().unwrap(): request.rs:41,47,60,77, db.rs:49).        *)
(***************************************************************************)
PoisonedServesNobody ==
  [][poisoned =>
       /\ db' = db
       /\ \A c \in Conns : pc[c] = "waiting" => pc'[c] \in {"waiting", "closed"}]_vars

=============================================================================

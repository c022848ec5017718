-------------------------- MODULE RefinementProofs --------------------------
(***************************************************************************)
(* Server implements LogicalStore, for all the values of the constants     *)
(* under which it can: a clock that is not set back, and no amount to      *)
(* subtract that has no negative.                                          *)
(*                                                                         *)
(* What the maps have in common is said by lemmas on maps; each step of    *)
(* Server is then one step of the store, or none.                          *)
(*                                                                         *)
(* Sessions implements Server, and with it the store; and each of its      *)
(* connections implements Connection, whatever the others do.              *)
(***************************************************************************)
EXTENDS ServerRefinement, Sessions, ServerProofs, SequenceLemmas

-----------------------------------------------------------------------------
(* The store is specified with the operators of the server, under names of its own. *)

\* The maps and the instants.
LEMMA SameMaps ==
  /\ \A m, ks : Logical!Restrict(m, ks) = Restrict(m, ks)
  /\ \A o, t : Logical!IsExpired(o, t) <=> IsExpired(o, t)
  /\ \A m, k, o : Logical!Insert(m, k, o) = Insert(m, k, o)
  /\ \A m, ks : Logical!SwapRemove(m, ks) = SwapRemove(m, ks)
  /\ \A s : Logical!ToSet(s) = ToSet(s)
  /\ Logical!EmptyMap = EmptyMap
  /\ Logical!Instants = Instants
  /\ Logical!Int64 = Int64
BY DEF Logical!Restrict, Restrict, Logical!IsExpired, IsExpired, Logical!Insert, Insert,
       Logical!SwapRemove, SwapRemove, Logical!ToSet, ToSet, Logical!EmptyMap, EmptyMap,
       Logical!Instants, Instants, Logical!Int64, Int64

\* The count of a set.
LEMMA SameCardinality == \A s : Logical!Cardinality(s) = Cardinality(s)
BY DEF Logical!Cardinality, Cardinality

\* Values and objects.
LEMMA SameObjects ==
  /\ \A v, e : Logical!NewObject(v, e) = NewObject(v, e)
  /\ \A i : Logical!IntegerValue(i) = IntegerValue(i)
  /\ \A l : Logical!ListValue(l) = ListValue(l)
  /\ Logical!Value = Value
BY DEF Logical!NewObject, NewObject, Logical!IntegerValue, IntegerValue, Logical!ListValue,
       ListValue, Logical!Value, Value, Logical!Int64, Int64

\* Requests, and what a push makes of a list.
LEMMA SameRequests ==
  /\ Logical!ArithmeticCommands = ArithmeticCommands
  /\ Logical!PushCommands = PushCommands
  /\ Logical!DbRequest = DbRequest
  /\ \A r : Logical!Adds(r) <=> Adds(r)
  /\ \A r, l : Logical!Pushed(r, l) = Pushed(r, l)
BY SameObjects, SameMaps
DEF Logical!ArithmeticCommands, ArithmeticCommands, Logical!PushCommands, PushCommands,
    Logical!DbRequest, DbRequest, Logical!MultiKeyCommands, MultiKeyCommands,
    Logical!Adds, Adds, Logical!Pushed, Pushed, Logical!Reverse, Reverse

\* Responses.
LEMMA SameResponses ==
  /\ Logical!Null = Null /\ Logical!SimpleString = SimpleString
  /\ \A v : Logical!Display(v) = Display(v)
  /\ \A r : Logical!BulkString(r) = BulkString(r)
  /\ \A n : Logical!IntegerReply(n) = IntegerReply(n)
  /\ \A e : Logical!SimpleError(e) = SimpleError(e)
  /\ Logical!OverflowError = OverflowError /\ Logical!IntegerError = IntegerError
  /\ Logical!WrongType = WrongType
  /\ Logical!LocalResponse = LocalResponse
BY DEF Logical!Null, Null, Logical!SimpleString, SimpleString, Logical!Display, Display,
       Logical!BulkString, BulkString, Logical!IntegerReply, IntegerReply,
       Logical!SimpleError, SimpleError, Logical!OverflowError, OverflowError,
       Logical!IntegerError, IntegerError, Logical!WrongType, WrongType,
       Logical!LocalResponse, LocalResponse, Logical!ClientError, ClientError,
       Logical!ErrorKinds, ErrorKinds, Logical!Commands, Commands,
       Logical!DeserializeError, DeserializeError

-----------------------------------------------------------------------------
(* What has not expired of a map. *)

Fresh(m, t) == Restrict(m, {k \in DOMAIN m : ~IsExpired(m[k], t)})

\* The two names of it in the specifications.
LEMMA FreshNames ==
  /\ live = Fresh(db, now)
  /\ \A m, t : Logical!Unexpired(m, t) = Fresh(m, t)
BY SameMaps DEF live, Fresh, IsExpired, Logical!Unexpired, Logical!Gone

\* A key is live in the server exactly if it is in the store.
LEMMA FreshKeys ==
  /\ \A k : Live(k) <=> k \in DOMAIN live
  /\ \A k \in DOMAIN live : k \in DOMAIN db /\ live[k] = db[k]
BY DEF live, Live, Restrict

\* What a write leaves unexpired depends on what was unexpired before, alone.
LEMMA FreshInsert ==
  ASSUME NEW m, NEW k, NEW o, NEW t
  PROVE  /\ Fresh(Insert(m, k, o), t) = Fresh(Insert(Fresh(m, t), k, o), t)
         /\ ~IsExpired(o, t) => Fresh(Insert(m, k, o), t) = Insert(Fresh(m, t), k, o)
BY DEF Fresh, Insert, Restrict

\* A removal takes from what has not expired the same keys, and nothing if they have.
LEMMA FreshRemove ==
  ASSUME NEW m, NEW ks, NEW t
  PROVE  /\ Fresh(SwapRemove(m, ks), t) = SwapRemove(Fresh(m, t), ks)
         /\ (\A k \in ks : k \in DOMAIN m => IsExpired(m[k], t))
              => Fresh(SwapRemove(m, ks), t) = Fresh(m, t)
BY DEF Fresh, SwapRemove, Restrict

\* Time only takes away.
LEMMA FreshLater ==
  ASSUME NEW m, IsMap(m), NEW t \in Instants, NEW u \in Instants, t <= u
  PROVE  Fresh(m, u) = Fresh(Fresh(m, t), u)
<1>1. ASSUME NEW k \in DOMAIN m, IsExpired(m[k], t)
      PROVE  IsExpired(m[k], u)
  <2>1. m[k].expiration \in Instants \cup {None}
    BY DEF IsMap, Object
  <2>2. QED
    BY <1>1, <2>1, InstantAssumption DEF IsExpired, Instants
<1>2. QED
  BY <1>1 DEF Fresh, Restrict

-----------------------------------------------------------------------------
(* The inductive invariant. *)

\* Only a task that waits for the mutex, or that holds it, has a request.
Idle == \A c \in Conns : pc[c] \notin {"waiting", "scanning"} => req[c] = None

\* The amounts of those that wait have negatives.
Negatable ==
  \A c \in Conns :
    pc[c] = "waiting" /\ req[c].cmd \in ArithmeticCommands /\ ~Adds(req[c]) => req[c].by # MinI64

\* What a pass has collected has expired, for good.
Collected ==
  /\ expiry.at # "sampling" => expiry.doomed = {}
  /\ \A k \in expiry.doomed : k \in DOMAIN db => IsExpired(db[k], now)

RInv == IInv /\ Idle /\ Negatable /\ Collected

\* What a step of a connection does to its request.
LEMMA RequestMoves ==
  ASSUME IInv, NEW c \in Conns, Connection(c)
  PROVE  \/ /\ pc[c] \notin {"waiting", "scanning"}
            /\ \E s \in {"closed", "reading"} : pc' = [pc EXCEPT ![c] = s]
            /\ req' = req
         \/ /\ \E s \in {"closed", "replying"} : pc' = [pc EXCEPT ![c] = s]
            /\ req' = [req EXCEPT ![c] = None]
         \/ /\ pc' = pc \/ pc' = [pc EXCEPT ![c] = "scanning"]
            /\ req' = req
         \/ ReceiveRequest(c)
BY DEF Connection, Locks, Proceed, Accept, Close, ReceiveMalformed, ReceiveInvalid, ReceiveLocal,
       CanReceive, WriteReply, Answer, Run, Set, GetLive, GetMissing, Del, ArithmeticNew,
       ArithmeticUpdate, ArithmeticFails, ArithmeticPanics, PushNew, PushMore, PushFails,
       ExistsBegin, ExistsLook, ExistsEnd, LockPoisoned

\* The request that arrives is one of a message.
LEMMA RequestArrives ==
  ASSUME AmountsHaveNegatives, IInv, NEW c \in Conns, ReceiveRequest(c)
  PROVE  \E r \in DbRequest :
           /\ r.cmd \in ArithmeticCommands /\ ~Adds(r) => r.by # MinI64
           /\ req' = [req EXCEPT ![c] = r]
           /\ pc[c] = "reading" /\ pc' = [pc EXCEPT ![c] = "waiting"]
<1>1. PICK m \in Messages :
        /\ TryFrom(m, now).ok
        /\ TryFrom(m, now).val.cmd \notin {"ping", "echo"}
        /\ req' = [req EXCEPT ![c] = TryFrom(m, now).val]
  BY DEF ReceiveRequest
<1> DEFINE r == TryFrom(m, now).val
<1>2. r \in LocalRequest \cup GoodRequest
  BY <1>1, ReceivedResult
<1>3. r \in DbRequest
  BY <1>1, <1>2 DEF LocalRequest, GoodRequest
<1>4. r.cmd \in ArithmeticCommands /\ ~Adds(r) => r.by # MinI64
  BY <1>1 DEF AmountsHaveNegatives, IInv, TypeOK
<1>5. QED
  BY <1>1, <1>3, <1>4 DEF ReceiveRequest, CanReceive

\* Requests stay what they are while they wait, and go when they are answered.
LEMMA RequestsStep ==
  ASSUME AmountsHaveNegatives, RInv, NEW c \in Conns, Connection(c)
  PROVE  Idle' /\ Negatable'
<1> USE DEF RInv, Idle, Negatable
<1>1. pc \in [Conns -> Status] /\ req \in [Conns -> DbRequest \cup {None}]
  BY DEF IInv, TypeOK
<1>2. CASE ReceiveRequest(c)
  <2>1. PICK r \in DbRequest :
          /\ r.cmd \in ArithmeticCommands /\ ~Adds(r) => r.by # MinI64
          /\ req' = [req EXCEPT ![c] = r]
          /\ pc[c] = "reading" /\ pc' = [pc EXCEPT ![c] = "waiting"]
    BY <1>2, RequestArrives
  <2>2. QED
    BY <1>1, <2>1
<1>3. CASE ~ReceiveRequest(c)
  BY <1>1, <1>3, RequestMoves
<1>4. QED
  BY <1>2, <1>3

\* No connection touches the map during a pass.
LEMMA PassIsAlone ==
  ASSUME IInv, NEW c \in Conns, Connection(c)
  PROVE  /\ now' = now /\ expiry' = expiry
         /\ expiry.at = "sampling" => db' = db
<1>1. now' = now /\ expiry' = expiry
  BY DEF Connection, Locks, Proceed, Accept, Close, ReceiveMalformed, ReceiveInvalid, ReceiveLocal,
         ReceiveRequest, CanReceive, WriteReply, Run, Set, GetLive, GetMissing, Del, ArithmeticNew,
         ArithmeticUpdate, ArithmeticFails, ArithmeticPanics, PushNew, PushMore, PushFails,
         ExistsBegin, ExistsLook, ExistsEnd, LockPoisoned
<1>2. ASSUME expiry.at = "sampling"
      PROVE  db' = db
  <2>1. lock # None /\ lock # c
    BY <1>2, TasksAssumption DEF IInv, MutexDiscipline
  <2>2. ~CanLock(c) /\ pc[c] # "scanning"
    BY <2>1 DEF CanLock, IInv, MutexDiscipline
  <2>3. QED
    BY <2>2
    DEF Connection, Locks, Proceed, Accept, Close, ReceiveMalformed, ReceiveInvalid, ReceiveLocal,
        ReceiveRequest, CanReceive, WriteReply, Run, Set, GetLive, GetMissing, Del, ArithmeticNew,
        ArithmeticUpdate, ArithmeticFails, ArithmeticPanics, PushNew, PushMore, PushFails,
        ExistsBegin, ExistsLook, ExistsEnd, LockPoisoned
<1>3. QED
  BY <1>1, <1>2

\* What has expired of a map stays so under a clock that goes forward.
LEMMA CollectedStep ==
  ASSUME ~ClockStepsBack, RInv, Next
  PROVE  Collected'
<1> USE DEF RInv, Collected
<1>1. CASE \E c \in Conns : Connection(c)
  BY <1>1, PassIsAlone
<1>2. CASE Tick
  <2>1. db' = db /\ expiry' = expiry /\ now \in Instants /\ now' \in Instants /\ now <= now'
    BY <1>2, InstantAssumption DEF Tick, IInv, TypeOK, Instants
  <2>2. ASSUME NEW k \in DOMAIN db, IsExpired(db[k], now)
        PROVE  IsExpired(db[k], now')
    <3>1. db[k].expiration \in Instants \cup {None}
      BY StoredObject
    <3>2. QED
      BY <2>1, <2>2, <3>1, InstantAssumption DEF IsExpired, Instants
  <2>3. QED
    BY <2>1, <2>2
<1>3. CASE ExpiryIdle \/ ExpiryEnd \/ ExpiryWake \/ ExpiryPanics
  <2>1. \E at \in {"ready", "asleep", "dead"} : expiry' = Resting(at)
    BY <1>3 DEF ExpiryIdle, ExpiryEnd, ExpiryWake, ExpiryPanics
  <2>2. QED
    BY <2>1 DEF Resting
<1>4. CASE ExpiryBegin
  <2>1. \E sample, size :
          expiry' = [at |-> "sampling", left |-> sample, doomed |-> {}, size |-> size]
    BY <1>4 DEF ExpiryBegin
  <2>2. QED
    BY <2>1
<1>5. CASE ExpiryLook
  <2>1. PICK k \in expiry.left :
          expiry' = [expiry EXCEPT
                       !.left = expiry.left \ {k},
                       !.doomed = IF IsExpired(db[k], now) THEN expiry.doomed \cup {k}
                                  ELSE expiry.doomed]
    BY <1>5 DEF ExpiryLook
  <2>2. expiry \in [at: {"ready", "sampling", "asleep", "dead"},
                    left: SUBSET Texts, doomed: SUBSET Texts, size: Nat]
    BY DEF IInv, TypeOK
  <2>3. expiry.at = "sampling" /\ db' = db /\ now' = now
    BY <1>5 DEF ExpiryLook
  <2>4. expiry'.at = "sampling"
        /\ \A x \in expiry'.doomed : x \in expiry.doomed \/ (x = k /\ IsExpired(db[k], now))
    BY <2>1, <2>2, <2>3
  <2>5. QED
    BY <2>3, <2>4
<1>6. QED
  BY <1>1, <1>2, <1>3, <1>4, <1>5 DEF Next, ExpiryTask

\* Every step keeps the invariant.
LEMMA RStep ==
  ASSUME ~ClockStepsBack, AmountsHaveNegatives
  PROVE  RInv /\ [Next]_vars => RInv'
<1>1. ASSUME RInv, Next
      PROVE  RInv'
  <2>1. IInv'
    BY <1>1, ConnectionStep, ExpiryStep, TickStep DEF RInv, Next
  <2>2. Idle' /\ Negatable'
    <3>1. CASE \E c \in Conns : Connection(c)
      BY <1>1, <3>1, RequestsStep
    <3>2. CASE ExpiryTask \/ Tick
      <4>1. pc' = pc /\ req' = req
        BY <3>2 DEF ExpiryTask, ExpiryIdle, ExpiryBegin, ExpiryLook, ExpiryEnd, ExpiryWake,
                    ExpiryPanics, Tick
      <4>2. QED
        BY <1>1, <4>1 DEF RInv, Idle, Negatable
    <3>3. QED
      BY <1>1, <3>1, <3>2 DEF Next
  <2>3. QED
    BY <1>1, <2>1, <2>2, CollectedStep DEF RInv
<1>2. ASSUME RInv, UNCHANGED vars
      PROVE  RInv'
  BY <1>2, StutterStep DEF RInv, vars, Idle, Negatable, Collected
<1>3. QED
  BY <1>1, <1>2

\* The initial states satisfy it.
LEMMA RInit == Init => RInv
<1> SUFFICES ASSUME Init PROVE RInv
  OBVIOUS
<1>1. IInv
  BY InitInvariant
<1>2. Idle /\ Negatable /\ Collected
  BY DEF Init, Idle, Negatable, Collected, Resting
<1>3. QED
  BY <1>1, <1>2 DEF RInv

-----------------------------------------------------------------------------
(* Steps that are none of the store's business, or that do not touch its objects. *)

\* The objects change with the map and the clock, the one who scans with the mutex.
LEMMA SameStore ==
  ASSUME UNCHANGED <<now, db, lock>>
  PROVE  UNCHANGED <<live, scanning>>
BY DEF live, scanning

\* An empty map is an empty store.
LEMMA StoreInit == Init => Logical!Init
<1> SUFFICES ASSUME Init PROVE Logical!Init
  OBVIOUS
<1>1. live = EmptyMap
  BY DEF Init, live, EmptyMap, Restrict
<1>2. scanning = None
  BY TasksAssumption DEF Init, scanning
<1>3. QED
  BY <1>1, <1>2, SameMaps DEF Init, NoScan, Logical!Init, Logical!NoScan

\* The expiry task does nothing to the store: what it removes is not there.
LEMMA ExpiryIsUnseen ==
  ASSUME RInv, ExpiryTask
  PROVE  UNCHANGED <<now, live, scanning, pc, req, reply, scan>>
<1>1. UNCHANGED <<now, pc, req, reply, scan>>
  BY DEF ExpiryTask, ExpiryIdle, ExpiryBegin, ExpiryLook, ExpiryEnd, ExpiryWake, ExpiryPanics
<1>2. /\ lock' = lock \/ {lock, lock'} = {None, Expiry}
      /\ db' = db \/ db' = SwapRemove(db, expiry.doomed)
  BY DEF ExpiryTask, ExpiryIdle, ExpiryBegin, ExpiryLook, ExpiryEnd, ExpiryWake, ExpiryPanics,
         RInv, IInv, MutexDiscipline
<1>3. scanning' = scanning
  BY <1>2, TasksAssumption DEF scanning
<1>4. live' = live
  <2>1. live = Fresh(db, now) /\ live' = Fresh(db', now')
    BY DEF live, Fresh
  <2>2. Fresh(db', now) = Fresh(db, now)
    <3>1. \A k \in expiry.doomed : k \in DOMAIN db => IsExpired(db[k], now)
      BY DEF RInv, Collected
    <3>2. Fresh(SwapRemove(db, expiry.doomed), now) = Fresh(db, now)
      BY <3>1, FreshRemove
    <3>3. QED
      BY <1>2, <3>2
  <2>3. QED
    BY <1>1, <2>1, <2>2
<1>5. QED
  BY <1>1, <1>3, <1>4

\* When time passes, it passes for the store.
LEMMA TickAdvances ==
  ASSUME ~ClockStepsBack, RInv, Tick
  PROVE  Logical!Advance
<1>1. /\ now \in Instants /\ now' \in Instants /\ now' > now
      /\ UNCHANGED <<db, lock, pc, req, reply, scan>>
  BY DEF Tick, RInv, IInv, TypeOK
<1>2. IsMap(db)
  BY DEF RInv, IInv, TypeOK
<1>3. Fresh(db, now') = Fresh(Fresh(db, now), now')
  BY <1>1, <1>2, FreshLater, InstantAssumption DEF Instants
<1>4. live' = Fresh(live, now')
  BY <1>1, <1>3 DEF live, Fresh
<1>5. scanning' = scanning
  BY <1>1 DEF scanning
<1>6. QED
  BY <1>1, <1>4, <1>5, FreshNames, SameMaps DEF Logical!Advance

\* A connection outside the mutex.
LEMMA OutsideStep ==
  ASSUME RInv, NEW c \in Conns
  PROVE  /\ Accept(c) => Logical!Connect(c)
         /\ Close(c) \/ ArithmeticPanics(c) \/ LockPoisoned(c) => Logical!Drop(c)
         /\ WriteReply(c) => Logical!Replied(c)
<1>1. Accept(c) => Logical!Connect(c)
  BY SameStore DEF Accept, Logical!Connect
<1>2. Close(c) => Logical!Drop(c)
  <2>1. pc[c] = "reading" => req[c] = None
    BY DEF RInv, Idle
  <2>2. req \in [Conns -> DbRequest \cup {None}]
    BY DEF RInv, IInv, TypeOK
  <2>3. QED
    BY <2>1, <2>2, SameStore DEF Close, Logical!Drop
<1>3. ArithmeticPanics(c) \/ LockPoisoned(c) => Logical!Drop(c)
  BY SameStore DEF ArithmeticPanics, LockPoisoned, CanLock, Logical!Drop
<1>4. WriteReply(c) => Logical!Replied(c)
  BY SameStore DEF WriteReply, Logical!Replied
<1>5. QED
  BY <1>1, <1>2, <1>3, <1>4

\* A message that is answered at once.
LEMMA LocalSimulates ==
  ASSUME RInv, NEW c \in Conns, ReceiveMalformed(c) \/ ReceiveInvalid(c) \/ ReceiveLocal(c)
  PROVE  Logical!AnswerLocally(c)
<1>1. IInv /\ reply \in [Conns -> Response \cup {None}] /\ CanReceive(c)
  BY DEF RInv, IInv, TypeOK, ReceiveMalformed, ReceiveInvalid, ReceiveLocal
<1>2. ASSUME NEW response \in LocalResponse, Answer(c, response)
      PROVE  Logical!AnswerLocally(c)
  BY <1>1, <1>2, SameStore, SameResponses DEF CanReceive, Answer, Logical!AnswerLocally, Logical!Answer
<1>3. CASE ReceiveMalformed(c) \/ ReceiveInvalid(c)
  <2>1. \A e \in ClientError \cup {DeserializeError} : SimpleError(e) \in LocalResponse
    BY DEF SimpleError, LocalResponse
  <2>2. \E e \in ClientError \cup {DeserializeError} : Answer(c, SimpleError(e))
    BY <1>1, <1>3, ReceivedResult DEF ReceiveMalformed, ReceiveInvalid
  <2>3. QED
    BY <1>2, <2>1, <2>2
<1>4. CASE ReceiveLocal(c)
  <2>1. PICK m \in Messages :
          /\ TryFrom(m, now).ok
          /\ TryFrom(m, now).val.cmd \in {"ping", "echo"}
          /\ Answer(c, LocalReply(TryFrom(m, now).val))
    BY <1>4 DEF ReceiveLocal
  <2>2. TryFrom(m, now).val \in LocalRequest \cup GoodRequest
    BY <1>1, <2>1, ReceivedResult
  <2>3. ASSUME NEW r \in LocalRequest \cup GoodRequest, r.cmd \in {"ping", "echo"}
        PROVE  LocalReply(r) \in LocalResponse
    <3>1. r.text \in Texts \cup {None}
      BY <2>3 DEF LocalRequest, GoodRequest, DbRequest, MultiKeyCommands, ArithmeticCommands,
                  PushCommands
    <3>2. QED
      BY <3>1 DEF LocalReply, SimpleString, BulkString, LocalResponse
  <2>4. QED
    BY <1>2, <2>1, <2>2, <2>3
<1>5. QED
  BY <1>3, <1>4

\* A request that will wait for the mutex.
LEMMA RequestSimulates ==
  ASSUME AmountsHaveNegatives, RInv, NEW c \in Conns, ReceiveRequest(c)
  PROVE  Logical!Arrive(c)
<1>1. IInv /\ req \in [Conns -> DbRequest \cup {None}]
  BY DEF RInv, IInv, TypeOK
<1>2. PICK r \in DbRequest : req' = [req EXCEPT ![c] = r]
  BY <1>1, RequestArrives
<1>3. req'[c] = r
  BY <1>1, <1>2
<1>4. /\ pc[c] = "reading" /\ pc' = [pc EXCEPT ![c] = "waiting"]
      /\ UNCHANGED <<now, db, lock, reply, scan>>
  BY DEF ReceiveRequest, CanReceive
<1>5. UNCHANGED <<live, scanning>>
  BY <1>4, SameStore
<1>6. req'[c] \in Logical!DbRequest /\ req' = [req EXCEPT ![c] = req'[c]]
  <2>1. req'[c] \in Logical!DbRequest
    BY <1>3, SameRequests
  <2>2. req' = [req EXCEPT ![c] = req'[c]]
    BY <1>2, <1>3
  <2>3. QED
    BY <2>1, <2>2
<1>7. QED
  BY <1>4, <1>5, <1>6 DEF Logical!Arrive

-----------------------------------------------------------------------------
(* The commands on the map: each is the store's. *)

\* What they have in common.
LEMMA CommandRuns ==
  ASSUME RInv, NEW c \in Conns, NEW cmds, Run(c, cmds), NEW response, Answer(c, response)
  PROVE  Logical!Perform(c, cmds) /\ Logical!Answer(c, response)
<1>1. scanning = None /\ scanning' = scanning
  BY TasksAssumption DEF Run, CanLock, scanning
<1>2. QED
  BY <1>1 DEF Run, CanLock, Answer, Logical!Perform, Logical!Answer

\* SET: an object with a deadline that has passed is stored, and not seen.
LEMMA SetSimulates ==
  ASSUME RInv, NEW c \in Conns, Set(c)
  PROVE  Logical!Set(c)
<1> DEFINE o == NewObject(req[c].value, req[c].expiration)
<1>1. Run(c, {"set"}) /\ Answer(c, SimpleString) /\ db' = Insert(db, req[c].key, o) /\ now' = now
  BY DEF Set, Run
<1> HIDE DEF o
<1>2. live' = Fresh(Insert(db, req[c].key, o), now)
  BY <1>1 DEF live, Fresh
<1>3. live' = Fresh(Insert(live, req[c].key, o), now)
  BY <1>2, FreshInsert, FreshNames
<1>4. Logical!Perform(c, {"set"}) /\ Logical!Answer(c, SimpleString)
  BY <1>1, CommandRuns
<1>5. live' = Logical!Unexpired(Logical!Insert(live, req[c].key, o), now)
  BY <1>3, FreshNames, SameMaps
<1>6. o = Logical!NewObject(req[c].value, req[c].expiration)
  BY SameObjects DEF o
<1>7. QED
  BY <1>4, <1>5, <1>6, SameResponses DEF Logical!Set

\* GET: the expired entry it removes was not there.
LEMMA GetSimulates ==
  ASSUME RInv, NEW c \in Conns, GetLive(c) \/ GetMissing(c)
  PROVE  Logical!Get(c)
<1> DEFINE k == req[c].key
           response == IF k \in DOMAIN live THEN BulkString(Display(live[k].value)) ELSE Null
<1>1. Run(c, {"get"}) /\ now' = now
  BY DEF GetLive, GetMissing, Run
<1>2. Answer(c, response)
  BY FreshKeys DEF GetLive, GetMissing
<1>3. live' = live
  <2>1. live = Fresh(db, now) /\ live' = Fresh(db', now)
    BY <1>1 DEF live, Fresh
  <2>2. CASE GetLive(c)
    BY <2>1, <2>2 DEF GetLive
  <2>3. CASE GetMissing(c)
    <3>1. \A x \in {k} : x \in DOMAIN db => IsExpired(db[x], now)
      BY <2>3 DEF GetMissing, Live
    <3>2. Fresh(SwapRemove(db, {k}), now) = Fresh(db, now)
      BY <3>1, FreshRemove
    <3>3. QED
      BY <2>1, <2>3, <3>2 DEF GetMissing
  <2>4. QED
    BY <2>2, <2>3
<1>4. Logical!Perform(c, {"get"}) /\ Logical!Answer(c, response)
  BY <1>1, <1>2, CommandRuns
<1>5. QED
  BY <1>3, <1>4, SameResponses DEF Logical!Get

\* DEL: it may count expired entries, hence the range of its reply.
LEMMA DelSimulates ==
  ASSUME RInv, NEW c \in Conns, Del(c)
  PROVE  Logical!Del(c)
<1> DEFINE ks == ToSet(req[c].keys)
           n == Cardinality(DOMAIN db \cap ks)
<1>1. Run(c, {"del"}) /\ Answer(c, IntegerReply(n)) /\ db' = SwapRemove(db, ks) /\ now' = now
  BY DEF Del, Run
<1>2. req[c].keys \in Seq(Texts)
  <2>1. req[c] \in DbRequest /\ req[c].cmd = "del"
    BY <1>1, PendingRequest DEF Run, CanLock, RInv
  <2>2. QED
    BY <2>1 DEF DbRequest, ArithmeticCommands, PushCommands
<1>3. n \in Cardinality(DOMAIN live \cap ks) .. Cardinality(ks)
  <2>1. IsFiniteSet(ks)
    BY <1>2, TextsFinite
  <2>2. DOMAIN live \cap ks \subseteq DOMAIN db \cap ks
    BY FreshKeys
  <2>3. IsFiniteSet(DOMAIN db \cap ks) /\ n <= Cardinality(ks) /\ Cardinality(ks) \in Nat
    BY <2>1, FS_Subset, FS_CardinalityType
  <2>4. /\ Cardinality(DOMAIN live \cap ks) <= n
        /\ Cardinality(DOMAIN live \cap ks) \in Nat /\ n \in Nat
    BY <2>2, <2>3, FS_Subset, FS_CardinalityType
  <2>5. QED
    BY <2>3, <2>4
<1> HIDE DEF ks, n
<1>4. live' = SwapRemove(live, ks)
  <2>1. live' = Fresh(SwapRemove(db, ks), now)
    BY <1>1 DEF live, Fresh
  <2>2. QED
    BY <2>1, FreshRemove, FreshNames
<1>5. Logical!Perform(c, {"del"}) /\ Logical!Answer(c, IntegerReply(n))
  BY <1>1, CommandRuns
<1>6. ks = Logical!ToSet(req[c].keys) /\ live' = Logical!SwapRemove(live, ks)
  BY <1>4, SameMaps DEF ks
<1>7. \E x \in Cardinality(DOMAIN live \cap Logical!ToSet(req[c].keys))
              .. Cardinality(Logical!ToSet(req[c].keys)) :
        Logical!Answer(c, Logical!IntegerReply(x))
  BY <1>3, <1>5, <1>6, SameResponses
<1>8. \E x \in Logical!Cardinality(DOMAIN live \cap Logical!ToSet(req[c].keys))
              .. Logical!Cardinality(Logical!ToSet(req[c].keys)) :
        Logical!Answer(c, Logical!IntegerReply(x))
  BY <1>7, SameCardinality
<1>9. live' = Logical!SwapRemove(live, Logical!ToSet(req[c].keys))
  BY <1>6
<1>10. QED
  BY <1>5, <1>8, <1>9 DEF Logical!Del

\* An object that is written and has not expired is seen.
LEMMA LiveInsert ==
  ASSUME NEW k, NEW o, ~IsExpired(o, now), now' = now, db' = Insert(db, k, o)
  PROVE  live' = Logical!Insert(live, k, o)
<1>1. live = Fresh(db, now) /\ live' = Fresh(db', now')
  BY DEF live, Fresh
<1>2. live' = Insert(live, k, o)
  BY <1>1, FreshInsert
<1>3. QED
  BY <1>2, SameMaps

\* What waits with an arithmetic command is an amount that has a negative.
LEMMA PendingAmount ==
  ASSUME RInv, NEW c \in Conns, Run(c, ArithmeticCommands)
  PROVE  /\ req[c].by \in Int64
         /\ ~Adds(req[c]) => req[c].by # MinI64
<1>1. pc[c] = "waiting" /\ req[c].cmd \in ArithmeticCommands
  BY DEF Run, CanLock
<1>2. req[c] \in DbRequest
  BY <1>1, PendingRequest DEF RInv
<1>3. req[c].by \in Int64
  BY <1>1, <1>2 DEF DbRequest, ArithmeticCommands, MultiKeyCommands, PushCommands
<1>4. QED
  BY <1>1, <1>3 DEF RInv, Negatable

\* The first amount is what the store adds to 0.
LEMMA ArithmeticNewSimulates ==
  ASSUME RInv, NEW c \in Conns, ArithmeticNew(c)
  PROVE  Logical!Arithmetic(c)
<1> DEFINE k == req[c].key
           v == InitialValue(req[c])
           old == NewObject(IntegerValue(0), None)
<1>1. /\ Run(c, ArithmeticCommands) /\ Answer(c, IntegerReply(v))
      /\ db' = Insert(db, k, NewObject(IntegerValue(v), None))
      /\ ~Live(k) /\ now' = now
  BY DEF ArithmeticNew, Run
<1>2. v \in Int64 /\ v = 0 + Logical!Delta(req[c])
  BY <1>1, PendingAmount, WidthAssumption, SameRequests
  DEF InitialValue, WrappingNeg, Int64, Logical!Delta
<1> HIDE DEF v
<1>3. live' = Logical!Insert(live, k, NewObject(IntegerValue(v), None))
  <2>1. ~IsExpired(NewObject(IntegerValue(v), None), now)
    BY DEF IsExpired, NewObject
  <2>2. QED
    BY <1>1, <2>1, LiveInsert
<1>4. Logical!Perform(c, ArithmeticCommands) /\ Logical!Answer(c, IntegerReply(v))
  BY <1>1, CommandRuns
<1>5. k \notin DOMAIN live
  BY <1>1, FreshKeys
<1>6. old.value.kind = "integer" /\ old.value.integer = 0 /\ old.expiration = None
  BY DEF NewObject, IntegerValue
<1>7. old = Logical!NewObject(Logical!IntegerValue(0), None)
  BY SameObjects
<1> HIDE DEF old
<1>8. /\ old.value.integer + Logical!Delta(req[c]) = v
      /\ old.value.integer + Logical!Delta(req[c]) \in Logical!Int64
  BY <1>2, <1>6, SameMaps
<1>9. live' = Logical!Insert(live, k,
                Logical!NewObject(Logical!IntegerValue(v), old.expiration))
  BY <1>3, <1>6, SameObjects
<1>10. Logical!Perform(c, Logical!ArithmeticCommands) /\ Logical!Answer(c, Logical!IntegerReply(v))
  BY <1>4, SameRequests, SameResponses
<1>11. QED
  BY <1>5, <1>6, <1>7, <1>8, <1>9, <1>10 DEF Logical!Arithmetic

\* A checked operation is the exact sum, or an overflow.
LEMMA OperationSums ==
  ASSUME NEW r, r.by \in Int64, NEW i \in Int64
  PROVE  /\ Operation(r, i).ok <=> i + Logical!Delta(r) \in Int64
         /\ Operation(r, i).ok => Operation(r, i).val = i + Logical!Delta(r)
<1>1. (IF Adds(r) THEN i + r.by ELSE i - r.by) = i + Logical!Delta(r)
  BY WidthAssumption, SameRequests DEF Int64, Logical!Delta
<1>2. Operation(r, i) = Checked(i + Logical!Delta(r))
  BY <1>1 DEF Operation
<1>3. QED
  BY <1>2 DEF Checked, Ok, Err

\* A sum that fits is stored with the expiration of the old value.
LEMMA ArithmeticUpdateSimulates ==
  ASSUME RInv, NEW c \in Conns, ArithmeticUpdate(c)
  PROVE  Logical!Arithmetic(c)
<1> DEFINE k == req[c].key
           o == db[k]
           v == Operation(req[c], o.value.integer).val
<1>1. /\ Run(c, ArithmeticCommands) /\ Answer(c, IntegerReply(v))
      /\ db' = Insert(db, k, NewObject(IntegerValue(v), o.expiration))
      /\ Live(k) /\ now' = now
      /\ o.value.kind = "integer" /\ Operation(req[c], o.value.integer).ok
  BY DEF ArithmeticUpdate, Run
<1>2. k \in DOMAIN live /\ live[k] = o /\ ~IsExpired(o, now) /\ o.value.integer \in Int64
  BY <1>1, FreshKeys, StoredObject DEF Live, RInv
<1>3. v = o.value.integer + Logical!Delta(req[c]) /\ v \in Int64
  BY <1>1, <1>2, PendingAmount, OperationSums
<1> HIDE DEF o, v
<1>4. live' = Logical!Insert(live, k, NewObject(IntegerValue(v), o.expiration))
  <2>1. ~IsExpired(NewObject(IntegerValue(v), o.expiration), now)
    BY <1>2 DEF IsExpired, NewObject
  <2>2. QED
    BY <1>1, <2>1, LiveInsert
<1>5. Logical!Perform(c, Logical!ArithmeticCommands) /\ Logical!Answer(c, Logical!IntegerReply(v))
  BY <1>1, CommandRuns, SameRequests, SameResponses
<1>6. live' = Logical!Insert(live, k, Logical!NewObject(Logical!IntegerValue(v), o.expiration))
  BY <1>4, SameObjects
<1>7. v \in Logical!Int64
  BY <1>3, SameMaps
<1>8. QED
  BY <1>1, <1>2, <1>3, <1>5, <1>6, <1>7 DEF Logical!Arithmetic

\* No number, or a sum that does not fit, changes nothing.
LEMMA ArithmeticFailsSimulates ==
  ASSUME RInv, NEW c \in Conns, ArithmeticFails(c)
  PROVE  Logical!Arithmetic(c)
<1> DEFINE k == req[c].key
           o == db[k]
<1>1. Run(c, ArithmeticCommands) /\ Live(k) /\ db' = db /\ now' = now
  BY DEF ArithmeticFails, Run
<1>2. k \in DOMAIN live /\ live[k] = o /\ (o.value.kind = "integer" => o.value.integer \in Int64)
  BY <1>1, FreshKeys, StoredObject DEF Live, RInv
<1>3. live' = live
  BY <1>1 DEF live
<1>4. CASE o.value.kind # "integer" /\ Answer(c, SimpleError(IntegerError))
  <2>1. Logical!Perform(c, Logical!ArithmeticCommands)
        /\ Logical!Answer(c, Logical!SimpleError(Logical!IntegerError))
    BY <1>1, <1>4, CommandRuns, SameRequests, SameResponses
  <2>2. QED
    BY <1>2, <1>3, <1>4, <2>1 DEF Logical!Arithmetic
<1>5. CASE /\ o.value.kind = "integer" /\ ~Operation(req[c], o.value.integer).ok
           /\ Answer(c, SimpleError(OverflowError))
  <2>1. Logical!Perform(c, Logical!ArithmeticCommands)
        /\ Logical!Answer(c, Logical!SimpleError(Logical!OverflowError))
    BY <1>1, <1>5, CommandRuns, SameRequests, SameResponses
  <2>2. o.value.integer + Logical!Delta(req[c]) \notin Logical!Int64
    BY <1>1, <1>2, <1>5, PendingAmount, OperationSums, SameMaps
  <2>3. QED
    BY <1>2, <1>3, <1>5, <2>1, <2>2 DEF Logical!Arithmetic
<1>6. QED
  BY <1>4, <1>5 DEF ArithmeticFails

\* A push on nothing is one on the empty list.
LEMMA PushNewSimulates ==
  ASSUME RInv, NEW c \in Conns, PushNew(c)
  PROVE  Logical!Push(c)
<1> DEFINE k == req[c].key
           l == Pushed(req[c], <<>>)
           old == NewObject(ListValue(<<>>), None)
<1>1. /\ Run(c, PushCommands) /\ Answer(c, IntegerReply(Len(l)))
      /\ db' = Insert(db, k, NewObject(ListValue(l), None))
      /\ ~Live(k) /\ now' = now
  BY DEF PushNew, Run
<1>2. l = Logical!Pushed(req[c], <<>>)
  BY SameRequests
<1> HIDE DEF l
<1>3. live' = Logical!Insert(live, k, NewObject(ListValue(l), None))
  <2>1. ~IsExpired(NewObject(ListValue(l), None), now)
    BY DEF IsExpired, NewObject
  <2>2. QED
    BY <1>1, <2>1, LiveInsert
<1>4. Logical!Perform(c, Logical!PushCommands) /\ Logical!Answer(c, Logical!IntegerReply(Len(l)))
  BY <1>1, CommandRuns, SameRequests, SameResponses
<1>5. k \notin DOMAIN live
  BY <1>1, FreshKeys
<1>6. old.value.kind = "list" /\ old.value.list = <<>> /\ old.expiration = None
  BY DEF NewObject, ListValue
<1>7. old = Logical!NewObject(Logical!ListValue(<<>>), None)
  BY SameObjects
<1> HIDE DEF old
<1>8. live' = Logical!Insert(live, k, Logical!NewObject(Logical!ListValue(l), old.expiration))
  BY <1>3, <1>6, SameObjects
<1>9. l = Logical!Pushed(req[c], old.value.list)
  BY <1>2, <1>6
<1>10. QED
  BY <1>4, <1>5, <1>6, <1>7, <1>8, <1>9 DEF Logical!Push

\* A list is extended, and keeps its expiration.
LEMMA PushMoreSimulates ==
  ASSUME RInv, NEW c \in Conns, PushMore(c)
  PROVE  Logical!Push(c)
<1> DEFINE k == req[c].key
           o == db[k]
           l == Pushed(req[c], o.value.list)
<1>1. /\ Run(c, PushCommands) /\ Answer(c, IntegerReply(Len(l)))
      /\ db' = Insert(db, k, NewObject(ListValue(l), o.expiration))
      /\ Live(k) /\ now' = now /\ o.value.kind = "list"
  BY DEF PushMore, Run
<1>2. k \in DOMAIN live /\ live[k] = o /\ ~IsExpired(o, now)
  BY <1>1, FreshKeys DEF Live
<1>3. l = Logical!Pushed(req[c], o.value.list)
  BY SameRequests
<1> HIDE DEF o, l
<1>4. live' = Logical!Insert(live, k, NewObject(ListValue(l), o.expiration))
  <2>1. ~IsExpired(NewObject(ListValue(l), o.expiration), now)
    BY <1>2 DEF IsExpired, NewObject
  <2>2. QED
    BY <1>1, <2>1, LiveInsert
<1>5. Logical!Perform(c, Logical!PushCommands) /\ Logical!Answer(c, Logical!IntegerReply(Len(l)))
  BY <1>1, CommandRuns, SameRequests, SameResponses
<1>6. live' = Logical!Insert(live, k, Logical!NewObject(Logical!ListValue(l), o.expiration))
  BY <1>4, SameObjects
<1>7. QED
  BY <1>1, <1>2, <1>3, <1>5, <1>6 DEF Logical!Push

\* Nothing is pushed on what is no list.
LEMMA PushFailsSimulates ==
  ASSUME RInv, NEW c \in Conns, PushFails(c)
  PROVE  Logical!Push(c)
<1>1. /\ Run(c, PushCommands) /\ Answer(c, SimpleError(WrongType))
      /\ Live(req[c].key) /\ db' = db /\ now' = now
  BY DEF PushFails, Run
<1>2. /\ req[c].key \in DOMAIN live
      /\ live[req[c].key].value.kind # "list"
  BY <1>1, FreshKeys DEF PushFails
<1>3. live' = live
  BY <1>1 DEF live
<1>4. Logical!Perform(c, Logical!PushCommands)
      /\ Logical!Answer(c, Logical!SimpleError(Logical!WrongType))
  BY <1>1, CommandRuns, SameRequests, SameResponses
<1>5. QED
  BY <1>2, <1>3, <1>4 DEF Logical!Push

\* The scan of an EXISTS: from the lock of the mutex, key by key, to its release.
LEMMA ExistsSimulates ==
  ASSUME RInv, NEW c \in Conns
  PROVE  /\ ExistsBegin(c) => Logical!ExistsBegin(c)
         /\ ExistsLook(c) => Logical!ExistsLook(c)
         /\ ExistsEnd(c) => Logical!ExistsEnd(c)
<1>1. ExistsBegin(c) => Logical!ExistsBegin(c)
  <2>1. ExistsBegin(c) => scanning = None /\ scanning' = c /\ live' = live
    BY TasksAssumption DEF ExistsBegin, CanLock, scanning, live
  <2>2. QED
    BY <2>1 DEF ExistsBegin, CanLock, Logical!ExistsBegin
<1>2. ASSUME ExistsLook(c)
      PROVE  Logical!ExistsLook(c)
  <2> DEFINE k == Head(scan.left)
  <2>1. /\ pc[c] = "scanning" /\ scan.left # <<>>
        /\ UNCHANGED <<now, lock, pc, req, reply>>
    BY <1>2 DEF ExistsLook
  <2>2. scan' = [left |-> Tail(scan.left),
                 count |-> IF k \in DOMAIN live THEN scan.count + 1 ELSE scan.count]
    <3>1. scan \in [left: Seq(Texts), count: Nat]
      BY DEF RInv, IInv, TypeOK
    <3>2. CASE Live(k)
      BY <1>2, <3>2, FreshKeys DEF ExistsLook
    <3>3. CASE ~Live(k)
      <4>1. scan' = [scan EXCEPT !.left = Tail(scan.left)]
        BY <1>2, <3>3 DEF ExistsLook
      <4>2. k \notin DOMAIN live
        BY <3>3, FreshKeys
      <4>3. QED
        BY <3>1, <4>1, <4>2
    <3>4. QED
      BY <3>2, <3>3
  <2>3. live' = live
    <3>1. live = Fresh(db, now) /\ live' = Fresh(db', now)
      BY <2>1 DEF live, Fresh
    <3>2. CASE db' = db
      BY <3>1, <3>2
    <3>3. CASE ~Live(k) /\ db' = SwapRemove(db, {k})
      <4>1. \A x \in {k} : x \in DOMAIN db => IsExpired(db[x], now)
        BY <3>3 DEF Live
      <4>2. Fresh(SwapRemove(db, {k}), now) = Fresh(db, now)
        BY <4>1, FreshRemove
      <4>3. QED
        BY <3>1, <3>3, <4>2
    <3>4. QED
      BY <1>2, <3>2, <3>3 DEF ExistsLook
  <2>4. scanning' = scanning
    BY <2>1 DEF scanning
  <2>5. QED
    BY <2>1, <2>2, <2>3, <2>4 DEF Logical!ExistsLook
<1>3. ASSUME ExistsEnd(c)
      PROVE  Logical!ExistsEnd(c)
  <2>1. scanning' = None /\ live' = live
    BY <1>3, TasksAssumption DEF ExistsEnd, scanning, live
  <2>2. Answer(c, IntegerReply(scan.count)) => Logical!Answer(c, Logical!IntegerReply(scan.count))
    BY SameResponses DEF Answer, Logical!Answer
  <2>3. scan' = Logical!NoScan
    BY <1>3 DEF ExistsEnd, NoScan, Logical!NoScan
  <2>4. QED
    BY <1>3, <2>1, <2>2, <2>3 DEF ExistsEnd, Logical!ExistsEnd
<1>4. QED
  BY <1>1, <1>2, <1>3

-----------------------------------------------------------------------------
(* Each step of the server is one of the store, or none. *)

\* A connection's step is the same connection's in the store.
LEMMA ConnectionServes ==
  ASSUME AmountsHaveNegatives, RInv, NEW c \in Conns, Connection(c)
  PROVE  Logical!Serve(c)
<1> USE DEF Logical!Serve
<1>1. CASE Accept(c) \/ Close(c) \/ WriteReply(c) \/ ArithmeticPanics(c) \/ LockPoisoned(c)
  BY <1>1, OutsideStep
<1>2. CASE ReceiveMalformed(c) \/ ReceiveInvalid(c) \/ ReceiveLocal(c)
  BY <1>2, LocalSimulates
<1>3. CASE ReceiveRequest(c)
  BY <1>3, RequestSimulates
<1>4. CASE Set(c) \/ GetLive(c) \/ GetMissing(c) \/ Del(c)
  BY <1>4, SetSimulates, GetSimulates, DelSimulates
<1>5. CASE ArithmeticNew(c) \/ ArithmeticUpdate(c) \/ ArithmeticFails(c)
  BY <1>5, ArithmeticNewSimulates, ArithmeticUpdateSimulates, ArithmeticFailsSimulates
<1>6. CASE PushNew(c) \/ PushMore(c) \/ PushFails(c)
  BY <1>6, PushNewSimulates, PushMoreSimulates, PushFailsSimulates
<1>7. CASE ExistsBegin(c) \/ ExistsLook(c) \/ ExistsEnd(c)
  BY <1>7, ExistsSimulates
<1>8. QED
  BY <1>1, <1>2, <1>3, <1>4, <1>5, <1>6, <1>7 DEF Connection, Locks, Proceed

\* All the steps together.
LEMMA StepSimulates ==
  ASSUME ~ClockStepsBack, AmountsHaveNegatives
  PROVE  RInv /\ [Next]_vars => [Logical!Next]_(Logical!vars)
<1>1. ASSUME RInv, NEW c \in Conns, Connection(c)
      PROVE  Logical!Next
  BY <1>1, ConnectionServes DEF Logical!Next
<1>2. ASSUME RInv, ExpiryTask
      PROVE  UNCHANGED Logical!vars
  BY <1>2, ExpiryIsUnseen DEF Logical!vars
<1>3. ASSUME RInv, Tick
      PROVE  Logical!Next
  BY <1>3, TickAdvances DEF Logical!Next
<1>4. ASSUME UNCHANGED vars
      PROVE  UNCHANGED Logical!vars
  BY <1>4, SameStore DEF vars, Logical!vars
<1>5. QED
  BY <1>1, <1>2, <1>3, <1>4 DEF Next

\* The server is a store that knows no mutex, no expired entry and no expiry task: each
\* command takes effect at one instant, on exactly the objects that have not expired.
THEOREM ImplementsLogicalStore ==
  ASSUME ~ClockStepsBack, AmountsHaveNegatives
  PROVE  Spec => LogicalSpec
<1>1. Init => RInv
  BY RInit
<1>2. RInv /\ [Next]_vars => RInv'
  BY RStep
<1>3. Init => Logical!Init
  BY StoreInit
<1>4. RInv /\ [Next]_vars => [Logical!Next]_(Logical!vars)
  BY StepSimulates
<1>5. QED
  BY <1>1, <1>2, <1>3, <1>4, PTL DEF Spec, LogicalSpec, Logical!Spec
-----------------------------------------------------------------------------
(* What the sessions do to the store. *)

\* What a connection does in Sessions is the same connection's step in Server, or none.
LEMMA SessionTaskStep ==
  ASSUME NEW c \in Conns, SessionTask(c)
  PROVE  Connection(c) \/ UNCHANGED vars
<1>1. CASE Read(c)
  BY <1>1 DEF Read
<1>2. CASE EndOfStream(c)
  BY <1>2 DEF EndOfStream, Connection
<1>3. CASE Receive(c)
  BY <1>3 DEF Receive, Connection
<1>4. CASE Command(c)
  BY <1>4 DEF Command, Connection, Proceed
<1>5. CASE Reply(c)
  BY <1>5 DEF Reply, Connection, Proceed
<1>6. QED
  BY <1>1, <1>2, <1>3, <1>4, <1>5 DEF SessionTask

\* A step of Sessions is a step of Server or leaves it alone.
LEMMA SessionStepServes == [SessionNext]_sessionVars => [Next]_vars
<1>1. ASSUME NEW c \in Conns, AcceptStream(c) \/ SessionTask(c) \/ Client(c)
      PROVE  Connection(c) \/ UNCHANGED vars
  <2>1. CASE AcceptStream(c)
    BY <2>1 DEF AcceptStream, Connection
  <2>2. CASE SessionTask(c)
    BY <2>2, SessionTaskStep
  <2>3. CASE Client(c)
    BY <2>3 DEF Client, Send, HangUp, TakeReply
  <2>4. QED
    BY <1>1, <2>1, <2>2, <2>3
<1>2. ASSUME UNCHANGED sessionVars
      PROVE  UNCHANGED vars
  BY <1>2 DEF sessionVars
<1>3. QED
  BY <1>1, <1>2 DEF SessionNext, Next

\* The steps of Sessions have those of Server in them.
LEMMA SessionsServe == SessionSpec => Spec
<1>1. SessionInit => Init
  BY DEF SessionInit
<1>2. QED
  BY <1>1, SessionStepServes, PTL DEF SessionSpec, Spec

\* So what clients see of the map through their sockets is the logical store.
THEOREM SessionsImplementLogicalStore ==
  ASSUME ~ClockStepsBack, AmountsHaveNegatives
  PROVE  SessionSpec => LogicalSpec
BY SessionsServe, ImplementsLogicalStore

-----------------------------------------------------------------------------
(* The invariant of the links, which the place of a task and its buffer keep. *)

\* What travels on a wire.
LinkPieces == Texts \cup {Start, End}

\* What a connection's link is made of.
Links ==
  [accepted: BOOLEAN, sent: Seq(Frames), wire: Seq(LinkPieces), peer: {"open", "half", "gone"},
   buf: Seq(LinkPieces), handled: Seq(Seq(LinkPieces)), replies: Seq(Frames \cup {Refused}),
   unread: Nat, whole: BOOLEAN]

\* The place of a connection's task (pc) and its buffer belong together.
LinkInStep(at, l) ==
  /\ ~l.accepted => at = "closed" /\ l.buf = <<>>
  /\ at \in {"waiting", "scanning"} => l.buf \in Frames
  /\ at = "replying" => l.buf # <<>> /\ l.handled # <<>> /\ Last(l.handled) = l.buf

\* All the links are.
LinksInv ==
  /\ pc \in [Conns -> Status]
  /\ link \in [Conns -> Links]
  /\ \A c \in Conns : LinkInStep(pc[c], link[c])

\* The pieces of a message.
LEMMA FramesArePieces == Frames \subseteq Seq(LinkPieces) \ {<<>>}
<1>1. ASSUME NEW m \in Messages PROVE Frame(m) \in Seq(LinkPieces) /\ Frame(m) # <<>>
  <2>1. m \in Seq(LinkPieces) /\ <<Start>> \in Seq(LinkPieces) /\ <<End>> \in Seq(LinkPieces)
    BY <1>1, MessagesAssumption DEF LinkPieces
  <2>2. Frame(m) \in Seq(LinkPieces) /\ Len(Frame(m)) = 1 + Len(m) + 1 /\ Len(m) \in Nat
    BY <2>1 DEF Frame
  <2>3. QED
    BY <2>2
<1>2. QED
  BY <1>1 DEF Frames

\* The initial state.
LEMMA LinksInit == SessionInit => LinksInv
<1> SUFFICES ASSUME SessionInit PROVE LinksInv
  OBVIOUS
<1>1. NewLink \in Links
  BY DEF NewLink, Links
<1>2. QED
  BY <1>1 DEF SessionInit, Init, LinksInv, LinkInStep, NewLink, Status

\* A step that changes one connection.
LEMMA LinksStep ==
  ASSUME LinksInv, NEW c \in Conns, NEW at \in Status, NEW l \in Links, LinkInStep(at, l),
         pc' = [pc EXCEPT ![c] = at], link' = [link EXCEPT ![c] = l]
  PROVE  LinksInv'
<1>1. pc' \in [Conns -> Status] /\ link' \in [Conns -> Links]
  BY DEF LinksInv
<1>2. \A d \in Conns : LinkInStep(pc'[d], link'[d])
  <2>1. ASSUME NEW d \in Conns PROVE LinkInStep(pc'[d], link'[d])
    <3>1. CASE d = c
      <4>1. pc'[c] = at /\ link'[c] = l
        BY DEF LinksInv
      <4>2. QED
        BY <3>1, <4>1
    <3>2. CASE d # c
      <4>1. pc'[d] = pc[d] /\ link'[d] = link[d]
        BY <3>2 DEF LinksInv
      <4>2. QED
        BY <4>1 DEF LinksInv
    <3>3. QED
      BY <3>1, <3>2
  <2>2. QED
    BY <2>1
<1>3. QED
  BY <1>1, <1>2 DEF LinksInv

\* A step of c that keeps the invariant.
Moves(c, at, l) ==
  /\ at \in Status /\ l \in Links /\ LinkInStep(at, l)
  /\ pc' = [pc EXCEPT ![c] = at]
  /\ link' = [link EXCEPT ![c] = l]

\* A client.
LEMMA ClientMoves ==
  ASSUME LinksInv, NEW c \in Conns, Client(c)
  PROVE  \E at, l : Moves(c, at, l)
<1>1. /\ pc[c] \in Status /\ link[c] \in Links /\ LinkInStep(pc[c], link[c])
      /\ pc' = [pc EXCEPT ![c] = pc[c]]
  BY DEF LinksInv, Client, Send, HangUp, TakeReply, vars
<1>2. CASE Send(c)
  <2>1. PICK m \in Messages :
          link' = [link EXCEPT ![c].sent = Append(@, Frame(m)), ![c].wire = @ \o Frame(m)]
    BY <1>2 DEF Send
  <2>2. Frame(m) \in Frames /\ Frame(m) \in Seq(LinkPieces)
    BY FramesArePieces DEF Frames
  <2> DEFINE l == [link[c] EXCEPT !.sent = Append(link[c].sent, Frame(m)),
                                  !.wire = link[c].wire \o Frame(m)]
  <2>3. l \in Links /\ LinkInStep(pc[c], l)
    <3>1. Append(link[c].sent, Frame(m)) \in Seq(Frames) /\ link[c].wire \o Frame(m) \in Seq(LinkPieces)
      BY <1>1, <2>2 DEF Links
    <3>2. l \in Links
      BY <1>1, <3>1 DEF Links
    <3>3. l.accepted = link[c].accepted /\ l.buf = link[c].buf /\ l.handled = link[c].handled
      BY <1>1 DEF Links
    <3>4. QED
      BY <1>1, <3>2, <3>3 DEF LinkInStep
  <2>4. link' = [link EXCEPT ![c] = l]
    BY <2>1 DEF LinksInv
  <2>5. QED
    BY <1>1, <2>3, <2>4 DEF Moves
<1>3. CASE HangUp(c)
  <2>1. PICK peer \in Departures : link' = [link EXCEPT ![c].peer = peer]
    BY <1>3 DEF HangUp
  <2> DEFINE l == [link[c] EXCEPT !.peer = peer]
  <2>2. l \in Links /\ LinkInStep(pc[c], l)
    <3>1. peer \in {"half", "gone"}
      BY DeparturesAssumption
    <3>2. l \in Links
      BY <1>1, <3>1 DEF Links
    <3>3. l.accepted = link[c].accepted /\ l.buf = link[c].buf /\ l.handled = link[c].handled
      BY <1>1 DEF Links
    <3>4. QED
      BY <1>1, <3>2, <3>3 DEF LinkInStep
  <2>3. link' = [link EXCEPT ![c] = l]
    BY <2>1 DEF LinksInv
  <2>4. QED
    BY <1>1, <2>2, <2>3 DEF Moves
<1>4. CASE TakeReply(c)
  <2> DEFINE l == [link[c] EXCEPT !.unread = link[c].unread - 1]
  <2>1. l \in Links /\ LinkInStep(pc[c], l)
    <3>1. link[c].unread - 1 \in Nat
      BY <1>1, <1>4 DEF Links, TakeReply
    <3>2. l \in Links
      BY <1>1, <3>1 DEF Links
    <3>3. l.accepted = link[c].accepted /\ l.buf = link[c].buf /\ l.handled = link[c].handled
      BY <1>1 DEF Links
    <3>4. QED
      BY <1>1, <3>2, <3>3 DEF LinkInStep
  <2>2. link' = [link EXCEPT ![c] = l]
    BY <1>4 DEF LinksInv, TakeReply
  <2>3. QED
    BY <1>1, <2>1, <2>2 DEF Moves
<1>5. QED
  BY <1>2, <1>3, <1>4 DEF Client

\* A task as far as its next message, and after its reply.
LEMMA StreamMoves ==
  ASSUME LinksInv, NEW c \in Conns, AcceptStream(c) \/ Read(c) \/ EndOfStream(c) \/ Reply(c)
  PROVE  \E at, l : Moves(c, at, l)
<1>1. /\ pc[c] \in Status /\ link[c] \in Links /\ LinkInStep(pc[c], link[c])
      /\ pc \in [Conns -> Status] /\ link \in [Conns -> Links]
  BY DEF LinksInv
<1>2. CASE AcceptStream(c)
  <2> DEFINE l == [link[c] EXCEPT !.accepted = TRUE]
  <2>1. l \in Links /\ LinkInStep("reading", l)
    BY <1>1 DEF Links, LinkInStep
  <2>2. pc' = [pc EXCEPT ![c] = "reading"] /\ link' = [link EXCEPT ![c] = l]
    BY <1>1, <1>2 DEF AcceptStream, Accept
  <2>3. QED
    BY <2>1, <2>2 DEF Moves, Status
<1>3. CASE Read(c)
  <2>1. PICK n \in 1 .. Len(link[c].wire) :
          link' = [link EXCEPT
                     ![c].buf = SubSeq(link[c].wire, 1, n),
                     ![c].wire = SubSeq(link[c].wire, n + 1, Len(link[c].wire)),
                     ![c].whole = @ /\ n = Len(link[c].sent[Len(link[c].handled) + 1])]
    BY <1>3 DEF Read
  <2> DEFINE w == link[c].whole /\ n = Len(link[c].sent[Len(link[c].handled) + 1])
             l == [link[c] EXCEPT
                     !.buf = SubSeq(link[c].wire, 1, n),
                     !.wire = SubSeq(link[c].wire, n + 1, Len(link[c].wire)),
                     !.whole = w]
  <2>2. link[c].wire \in Seq(LinkPieces)
    BY <1>1 DEF Links
  <2>3. /\ SubSeq(link[c].wire, 1, n) \in Seq(LinkPieces)
        /\ SubSeq(link[c].wire, n + 1, Len(link[c].wire)) \in Seq(LinkPieces)
    BY <2>2
  <2>4. w \in BOOLEAN
    OBVIOUS
  <2>5. pc[c] = "reading" /\ pc' = pc
    BY <1>3 DEF Read, Awaits, vars
  <2>6. link' = [link EXCEPT ![c] = l]
    BY <1>1, <2>1
  <2>7. l \in Links /\ LinkInStep("reading", l)
    <3> HIDE DEF w
    <3>1. l \in Links
      BY <1>1, <2>3, <2>4 DEF Links
    <3>2. l.accepted = link[c].accepted
      BY <1>1 DEF Links
    <3>3. QED
      BY <1>1, <2>5, <3>1, <3>2 DEF LinkInStep
  <2>8. pc' = [pc EXCEPT ![c] = "reading"]
    BY <1>1, <2>5
  <2>9. QED
    BY <2>6, <2>7, <2>8 DEF Moves, Status
<1>4. CASE EndOfStream(c)
  <2>1. pc' = [pc EXCEPT ![c] = "closed"]
    BY <1>4 DEF EndOfStream, Close
  <2>2. CASE link' = link
    <3>1. LinkInStep("closed", link[c]) /\ link' = [link EXCEPT ![c] = link[c]]
      BY <1>1, <2>2 DEF LinkInStep
    <3>2. QED
      BY <1>1, <2>1, <3>1 DEF Moves, Status
  <2>3. CASE link' = [link EXCEPT ![c].wire = <<>>]
    <3> DEFINE l == [link[c] EXCEPT !.wire = <<>>]
    <3>1. l \in Links
      <4>1. <<>> \in Seq(LinkPieces)
        OBVIOUS
      <4>2. QED
        BY <1>1, <4>1 DEF Links
    <3>2. LinkInStep("closed", l)
      <4>1. l.accepted = link[c].accepted /\ l.buf = link[c].buf
        BY <1>1 DEF Links
      <4>2. QED
        BY <1>1, <4>1 DEF LinkInStep
    <3>3. link' = [link EXCEPT ![c] = l]
      BY <1>1, <2>3
    <3>4. QED
      BY <2>1, <3>1, <3>2, <3>3 DEF Moves, Status
  <2>4. QED
    BY <1>4, <2>2, <2>3 DEF EndOfStream
<1>5. CASE Reply(c)
  <2>1. pc[c] = "replying" /\ pc' = [pc EXCEPT ![c] = "reading"]
    BY <1>5 DEF Reply, WriteReply
  <2>2. link[c].accepted
    BY <1>1, <2>1 DEF LinkInStep
  <2>3. CASE link' = [link EXCEPT ![c].buf = <<>>]
    <3> DEFINE l == [link[c] EXCEPT !.buf = <<>>]
    <3>1. l \in Links
      <4>1. <<>> \in Seq(LinkPieces)
        OBVIOUS
      <4>2. QED
        BY <1>1, <4>1 DEF Links
    <3>2. LinkInStep("reading", l)
      <4>1. l.accepted = link[c].accepted
        BY <1>1 DEF Links
      <4>2. QED
        BY <2>2, <4>1 DEF LinkInStep
    <3>3. link' = [link EXCEPT ![c] = l]
      BY <1>1, <2>3
    <3>4. QED
      BY <2>1, <3>1, <3>2, <3>3 DEF Moves, Status
  <2>4. ASSUME NEW to \in Frames \cup {Refused},
               link' = [link EXCEPT ![c].buf = <<>>, ![c].unread = @ + 1,
                                    ![c].replies = Append(@, to)]
        PROVE  \E at, l : Moves(c, at, l)
    <3> DEFINE l == [link[c] EXCEPT !.buf = <<>>, !.unread = link[c].unread + 1,
                                    !.replies = Append(link[c].replies, to)]
    <3>1. l \in Links
      <4>1. link[c].unread + 1 \in Nat /\ Append(link[c].replies, to) \in Seq(Frames \cup {Refused})
        BY <1>1 DEF Links
      <4>2. <<>> \in Seq(LinkPieces)
        OBVIOUS
      <4>3. QED
        BY <1>1, <4>1, <4>2 DEF Links
    <3>2. LinkInStep("reading", l)
      <4>1. l.accepted = link[c].accepted
        BY <1>1 DEF Links
      <4>2. QED
        BY <2>2, <4>1 DEF LinkInStep
    <3>3. link' = [link EXCEPT ![c] = l]
      BY <1>1, <2>4
    <3>4. QED
      BY <2>1, <3>1, <3>2, <3>3 DEF Moves, Status
  <2>5. QED
    BY <1>5, <2>3, <2>4 DEF Reply
<1>6. QED
  BY <1>2, <1>3, <1>4, <1>5

\* What a task does with a message in its buffer, and where that takes it.
Goes(c, at) ==
  /\ pc[c] \in {"reading", "waiting", "scanning"}
  /\ link[c].accepted
  /\ link[c].buf # <<>>
  /\ at \in {"waiting", "scanning", "replying", "closed"}
  /\ at # "replying" => link[c].buf \in Frames
  /\ at = "closed" => pc[c] = "waiting"
  /\ pc' = [pc EXCEPT ![c] = at]
  /\ NoteAnswer(c)

\* A buffer is handed to the deserializer.
LEMMA ReceiveGoes ==
  ASSUME LinksInv, NEW c \in Conns, Receive(c)
  PROVE  \E at : Goes(c, at)
<1>1. pc[c] = "reading" /\ link[c].buf # <<>> /\ NoteAnswer(c)
  BY DEF Receive, ReceiveMalformed, ReceiveInvalid, ReceiveLocal, ReceiveRequest, CanReceive
<1>2. link[c].accepted
  BY <1>1 DEF LinksInv, LinkInStep
<1>3. \/ pc' = [pc EXCEPT ![c] = "replying"]
      \/ pc' = [pc EXCEPT ![c] = "waiting"] /\ link[c].buf \in Frames
  BY DEF Receive, ReceiveMalformed, ReceiveInvalid, ReceiveLocal, ReceiveRequest, Answer, Frames
<1>4. QED
  BY <1>1, <1>2, <1>3 DEF Goes

\* A command is run, or the task panics.
LEMMA CommandGoes ==
  ASSUME LinksInv, NEW c \in Conns, Command(c)
  PROVE  \E at : Goes(c, at)
<1>1. /\ NoteAnswer(c)
      /\ \/ pc[c] = "waiting" /\ \E at \in {"scanning", "replying", "closed"} : pc' = [pc EXCEPT ![c] = at]
         \/ pc[c] = "scanning" /\ (pc' = pc \/ pc' = [pc EXCEPT ![c] = "replying"])
  BY DEF Command, Locks, Run, CanLock, Answer, Set, GetLive, GetMissing, Del, ArithmeticNew,
         ArithmeticUpdate, ArithmeticFails, ArithmeticPanics, PushNew, PushMore, PushFails,
         ExistsBegin, ExistsLook, ExistsEnd, LockPoisoned
<1>2. pc[c] \in {"waiting", "scanning"} /\ pc \in [Conns -> Status]
  BY <1>1 DEF LinksInv
<1>3. link[c].accepted /\ link[c].buf \in Frames
  BY <1>2 DEF LinksInv, LinkInStep
<1>4. link[c].buf # <<>>
  BY <1>3, FramesArePieces
<1>5. CASE pc[c] = "waiting"
  <2>1. PICK at \in {"scanning", "replying", "closed"} : pc' = [pc EXCEPT ![c] = at]
    BY <1>1, <1>5
  <2>2. NoteAnswer(c)
    BY <1>1
  <2>3. Goes(c, at)
    BY <1>3, <1>4, <1>5, <2>1, <2>2 DEF Goes
  <2>4. QED
    BY <2>3
<1>6. CASE pc[c] = "scanning"
  <2>1. PICK at \in {"scanning", "replying"} : pc' = [pc EXCEPT ![c] = at]
    <3>1. pc = [pc EXCEPT ![c] = "scanning"]
      BY <1>2, <1>6
    <3>2. QED
      BY <1>1, <1>6, <3>1
  <2>2. NoteAnswer(c)
    BY <1>1
  <2>3. Goes(c, at)
    BY <1>3, <1>4, <1>6, <2>1, <2>2 DEF Goes
  <2>4. QED
    BY <2>3
<1>7. QED
  BY <1>2, <1>5, <1>6

\* Both keep the invariant.
LEMMA GoesMoves ==
  ASSUME LinksInv, NEW c \in Conns, NEW at, Goes(c, at)
  PROVE  \E l : Moves(c, at, l)
<1>1. /\ pc[c] \in Status /\ link[c] \in Links /\ LinkInStep(pc[c], link[c])
      /\ pc \in [Conns -> Status] /\ link \in [Conns -> Links]
  BY DEF LinksInv
<1>2. pc'[c] = at /\ pc' = [pc EXCEPT ![c] = at]
  BY <1>1 DEF Goes
<1>3. CASE at = "replying"
  <2> DEFINE l == [link[c] EXCEPT !.handled = Append(link[c].handled, link[c].buf)]
  <2>1. link' = [link EXCEPT ![c].handled = Append(@, link[c].buf)]
    BY <1>2, <1>3 DEF Goes, NoteAnswer
  <2>2. link' = [link EXCEPT ![c] = l]
    BY <1>1, <2>1
  <2>3. link[c].handled \in Seq(Seq(LinkPieces)) /\ link[c].buf \in Seq(LinkPieces)
    BY <1>1 DEF Links
  <2>4. /\ Append(link[c].handled, link[c].buf) \in Seq(Seq(LinkPieces))
        /\ Append(link[c].handled, link[c].buf) # <<>>
        /\ Last(Append(link[c].handled, link[c].buf)) = link[c].buf
    BY <2>3, LastAppended
  <2>5. l \in Links
    BY <1>1, <2>4 DEF Links
  <2>6. LinkInStep("replying", l)
    <3>1. /\ l.accepted = link[c].accepted /\ l.buf = link[c].buf
          /\ l.handled = Append(link[c].handled, link[c].buf)
      BY <1>1 DEF Links
    <3>2. QED
      BY <2>4, <3>1 DEF LinkInStep, Goes
  <2>7. QED
    BY <1>2, <1>3, <2>2, <2>5, <2>6 DEF Moves, Status
<1>4. CASE at # "replying"
  <2>1. link' = [link EXCEPT ![c] = link[c]]
    BY <1>1, <1>2, <1>4 DEF Goes, NoteAnswer
  <2>2. LinkInStep(at, link[c])
    BY <1>1, <1>4 DEF LinkInStep, Goes
  <2>3. QED
    BY <1>1, <1>2, <2>1, <2>2 DEF Moves, Status, Goes
<1>5. QED
  BY <1>3, <1>4

\* LinksInv is inductive.
LEMMA LinksInvariant == LinksInv /\ [SessionNext]_sessionVars => LinksInv'
<1>1. ASSUME LinksInv, NEW c \in Conns, AcceptStream(c) \/ SessionTask(c) \/ Client(c)
      PROVE  LinksInv'
  <2>1. \E at, l : Moves(c, at, l)
    BY <1>1, ClientMoves, StreamMoves, ReceiveGoes, CommandGoes, GoesMoves DEF SessionTask
  <2>2. QED
    BY <1>1, <2>1, LinksStep DEF Moves
<1>2. ASSUME LinksInv, UNCHANGED <<pc, link>>
      PROVE  LinksInv'
  BY <1>2 DEF LinksInv
<1>3. (ExpiryTask \/ Tick) /\ link' = link => UNCHANGED <<pc, link>>
  BY DEF ExpiryTask, ExpiryIdle, ExpiryBegin, ExpiryLook, ExpiryEnd, ExpiryWake, ExpiryPanics, Tick
<1>4. UNCHANGED sessionVars => UNCHANGED <<pc, link>>
  BY DEF sessionVars, vars
<1>5. QED
  BY <1>1, <1>2, <1>3, <1>4 DEF SessionNext

\* A task that ended with a message in its hands has found the mutex poisoned, or left it so.
EndedInPanic == \A c \in Conns : pc[c] = "closed" /\ link[c].buf # <<>> => poisoned

\* A command ends its task by a panic alone.
LEMMA CommandPanics ==
  ASSUME LinksInv, NEW c \in Conns, Command(c), pc'[c] = "closed"
  PROVE  poisoned'
<1>1. pc \in [Conns -> Status]
  BY DEF LinksInv
<1>2. CASE ArithmeticPanics(c) \/ LockPoisoned(c)
  BY <1>2 DEF ArithmeticPanics, LockPoisoned
<1>3. CASE ExistsBegin(c) \/ ExistsLook(c) \/ ExistsEnd(c)
  BY <1>1, <1>3 DEF ExistsBegin, ExistsLook, ExistsEnd, Answer
<1>4. CASE ~(ArithmeticPanics(c) \/ LockPoisoned(c) \/ ExistsBegin(c) \/ ExistsLook(c) \/ ExistsEnd(c))
  BY <1>1, <1>4 DEF Command, Locks, Set, GetLive, GetMissing, Del, ArithmeticNew, ArithmeticUpdate,
                    ArithmeticFails, PushNew, PushMore, PushFails, Answer
<1>5. QED
  BY <1>2, <1>3, <1>4

\* The mutex stays poisoned.
LEMMA StaysPoisoned == poisoned /\ [Next]_vars => poisoned'
<1>1. ASSUME poisoned, NEW c \in Conns, Connection(c)
      PROVE  poisoned'
  BY <1>1 DEF Connection, Locks, Proceed, Accept, Close, ReceiveMalformed, ReceiveInvalid,
     ReceiveLocal, ReceiveRequest, CanReceive, WriteReply, Run, Set, GetLive, GetMissing, Del,
     ArithmeticNew, ArithmeticUpdate, ArithmeticFails, ArithmeticPanics, PushNew, PushMore,
     PushFails, ExistsBegin, ExistsLook, ExistsEnd, LockPoisoned
<1>2. ASSUME poisoned, ExpiryTask \/ Tick
      PROVE  poisoned'
  BY <1>2 DEF ExpiryTask, ExpiryIdle, ExpiryBegin, ExpiryLook, ExpiryEnd, ExpiryWake, ExpiryPanics,
              Tick
<1>3. QED
  BY <1>1, <1>2 DEF Next, vars

\* Each step of a connection keeps it.
LEMMA EndedStep ==
  ASSUME LinksInv, EndedInPanic, NEW c \in Conns,
         AcceptStream(c) \/ SessionTask(c) \/ Client(c), [Next]_vars
  PROVE  EndedInPanic'
<1> SUFFICES ASSUME NEW d \in Conns, pc'[d] = "closed", link'[d].buf # <<>>
             PROVE  poisoned'
  BY DEF EndedInPanic
<1>1. pc \in [Conns -> Status] /\ link \in [Conns -> Links]
  BY DEF LinksInv
<1>2. CASE pc[d] = "closed" /\ link[d].buf # <<>>
  BY <1>2, StaysPoisoned DEF EndedInPanic
<1>3. CASE d # c /\ ~(pc[d] = "closed" /\ link[d].buf # <<>>)
  <2>1. PICK at, l : Moves(c, at, l)
    BY ClientMoves, StreamMoves, ReceiveGoes, CommandGoes, GoesMoves DEF SessionTask
  <2>2. pc'[d] = pc[d] /\ link'[d] = link[d]
    BY <1>1, <1>3, <2>1 DEF Moves
  <2>3. QED
    BY <1>3, <2>2
<1>4. CASE d = c /\ ~(pc[d] = "closed" /\ link[d].buf # <<>>)
  <2>1. CASE Command(c)
    BY <1>4, <2>1, CommandPanics
  <2>2. ~AcceptStream(c) /\ ~Read(c) /\ ~Receive(c) /\ ~Reply(c)
    BY <1>1, <1>4 DEF AcceptStream, Accept, Read, Awaits, vars, Receive, ReceiveMalformed,
                      ReceiveInvalid, ReceiveLocal, ReceiveRequest, Answer, Reply, WriteReply
  <2>3. ASSUME EndOfStream(c) PROVE FALSE
    <3>1. link[c].buf = <<>> /\ (link' = link \/ link' = [link EXCEPT ![c].wire = <<>>])
      BY <2>3 DEF EndOfStream, Awaits
    <3>2. link'[c].buf = link[c].buf
      BY <1>1, <3>1 DEF Links
    <3>3. QED
      BY <1>4, <3>1, <3>2
  <2>4. ASSUME Client(c) PROVE FALSE
    <3>1. link'[c].buf = link[c].buf /\ pc' = pc
      BY <1>1, <2>4 DEF Client, Send, HangUp, TakeReply, Links, vars
    <3>2. QED
      BY <1>4, <3>1
  <2>5. QED
    BY <2>1, <2>2, <2>3, <2>4 DEF SessionTask
<1>5. QED
  BY <1>2, <1>3, <1>4

\* EndedInPanic is inductive.
LEMMA EndedInvariant == LinksInv /\ EndedInPanic /\ [SessionNext]_sessionVars => EndedInPanic'
<1>1. [SessionNext]_sessionVars => [Next]_vars
  BY SessionStepServes
<1>2. ASSUME EndedInPanic, UNCHANGED <<pc, link>>, [Next]_vars
      PROVE  EndedInPanic'
  BY <1>2, StaysPoisoned DEF EndedInPanic
<1>3. (ExpiryTask \/ Tick) /\ link' = link => UNCHANGED <<pc, link>>
  BY DEF ExpiryTask, ExpiryIdle, ExpiryBegin, ExpiryLook, ExpiryEnd, ExpiryWake, ExpiryPanics, Tick
<1>4. UNCHANGED sessionVars => UNCHANGED <<pc, link>>
  BY DEF sessionVars, vars
<1>5. QED
  BY <1>1, <1>2, <1>3, <1>4, EndedStep DEF SessionNext

-----------------------------------------------------------------------------
(* The steps of the observed connection. *)

\* The sums of Sessions bound what the observed client sends.
LEMMA SendSimulates ==
  ASSUME IsFiniteSet(Conns), LinksInv, Send(Observed)
  PROVE  \E m \in Frames : Task!Send(m)
<1>1. \A c \in Conns : Len(link[c].sent) \in Nat
  BY DEF LinksInv, Links
<1>2. Len(own.sent) < MaxSent
  <2> DEFINE total == TotalSent(link, Conns)
  <2>1. total \in Nat /\ Len(link[Observed].sent) <= total
    BY <1>1, ObservedAssumption, SumOfSent
  <2>2. total < MaxSent
    BY DEF Send, TotalSent
  <2> HIDE DEF total
  <2>3. QED
    BY <1>1, <2>1, <2>2, SocketAssumption, ObservedAssumption DEF own
<1>3. PICK m \in Messages :
        link' = [link EXCEPT ![Observed].sent = Append(@, Frame(m)),
                             ![Observed].wire = @ \o Frame(m)]
  BY DEF Send
<1>4. own \in Links /\ Observed \in DOMAIN link
  BY ObservedAssumption DEF LinksInv, own
<1>5. own' = [own EXCEPT !.sent = Append(own.sent, Frame(m)), !.wire = own.wire \o Frame(m)]
  BY <1>3, <1>4 DEF own
<1>6. /\ own'.sent = Append(own.sent, Frame(m)) /\ own'.wire = own.wire \o Frame(m)
      /\ own'.peer = own.peer /\ own'.buf = own.buf /\ own'.handled = own.handled
      /\ own'.replies = own.replies /\ own'.whole = own.whole /\ own'.accepted = own.accepted
  BY <1>4, <1>5 DEF Links
<1>7. own.peer = "open" /\ pc' = pc
  BY DEF Send, own, vars
<1>8. Place' = Place
  BY <1>6, <1>7 DEF Place
<1>9. Frame(m) \in Frames
  BY DEF Frames
<1>10. QED
  BY <1>2, <1>6, <1>7, <1>8, <1>9 DEF Task!Send

\* The observed connection's link, and its place.
LEMMA OwnLink ==
  ASSUME LinksInv
  PROVE  /\ own \in Links /\ own = link[Observed] /\ LinkInStep(pc[Observed], own)
         /\ Observed \in Conns
         /\ pc \in [Conns -> Status] /\ link \in [Conns -> Links]
BY ObservedAssumption DEF LinksInv, own

\* What Connection does not see.
LEMMA OwnStutters ==
  ASSUME Place' = Place, own'.sent = own.sent, own'.wire = own.wire, own'.peer = own.peer,
         own'.buf = own.buf, own'.handled = own.handled, own'.replies = own.replies,
         own'.whole = own.whole
  PROVE  UNCHANGED Task!vars
BY DEF Task!vars

\* The client hangs up.
LEMMA HangUpSimulates ==
  ASSUME LinksInv, HangUp(Observed)
  PROVE  Task!HangUp
<1>1. PICK peer \in Departures :
        /\ own.peer \in {"open", "half"} /\ peer # own.peer
        /\ link' = [link EXCEPT ![Observed].peer = peer]
  BY DEF HangUp, own
<1>2. own' = [own EXCEPT !.peer = peer]
  BY <1>1, OwnLink DEF own
<1>3. /\ own'.peer = peer
      /\ own'.sent = own.sent /\ own'.wire = own.wire /\ own'.buf = own.buf
      /\ own'.handled = own.handled
      /\ own'.replies = own.replies /\ own'.whole = own.whole /\ own'.accepted = own.accepted
  BY <1>2, OwnLink DEF Links
<1>4. Place' = Place
  BY <1>3 DEF Place, HangUp, vars
<1>5. \/ own.peer = "open" /\ peer \in {"half", "gone"}
      \/ own.peer = "half" /\ peer = "gone"
  BY <1>1, DeparturesAssumption
<1>6. QED
  BY <1>3, <1>4, <1>5 DEF Task!HangUp

\* Connection knows no replies in the socket.
LEMMA TakeReplySimulates ==
  ASSUME LinksInv, TakeReply(Observed)
  PROVE  UNCHANGED Task!vars
<1>1. own' = [own EXCEPT !.unread = own.unread - 1]
  BY OwnLink DEF TakeReply, own
<1>2. /\ own'.peer = own.peer
      /\ own'.sent = own.sent /\ own'.wire = own.wire /\ own'.buf = own.buf
      /\ own'.handled = own.handled
      /\ own'.replies = own.replies /\ own'.whole = own.whole /\ own'.accepted = own.accepted
  BY <1>1, OwnLink DEF Links
<1>3. Place' = Place
  BY <1>2 DEF Place, TakeReply, vars
<1>4. QED
  BY <1>2, <1>3, OwnStutters

\* Connection begins where the stream is accepted.
LEMMA AcceptSimulates ==
  ASSUME LinksInv, AcceptStream(Observed)
  PROVE  UNCHANGED Task!vars
<1>1. own' = [own EXCEPT !.accepted = TRUE] /\ ~own.accepted
  BY OwnLink DEF AcceptStream, own
<1>2. /\ own'.peer = own.peer
      /\ own'.sent = own.sent /\ own'.wire = own.wire /\ own'.buf = own.buf
      /\ own'.handled = own.handled
      /\ own'.replies = own.replies /\ own'.whole = own.whole /\ own'.accepted
  BY <1>1, OwnLink DEF Links
<1>3. pc'[Observed] = "reading"
  BY OwnLink DEF AcceptStream, Accept
<1>4. own.buf = <<>>
  BY <1>1, OwnLink DEF LinkInStep
<1>5. Place = "reading"
  <2>1. pc[Observed] = "closed"
    BY DEF AcceptStream, Accept
  <2>2. QED
    BY <1>1, <2>1 DEF Place
<1>6. Place' = "reading"
  BY <1>2, <1>3, <1>4 DEF Place
<1>7. QED
  BY <1>2, <1>5, <1>6, OwnStutters

\* A read of any length (main.rs:54).
LEMMA ReadSimulates ==
  ASSUME LinksInv, Read(Observed)
  PROVE  Task!Read
<1>1. PICK n \in 1 .. Len(own.wire) :
        /\ n <= Capacity
        /\ link' = [link EXCEPT
                     ![Observed].buf = SubSeq(own.wire, 1, n),
                     ![Observed].wire = SubSeq(own.wire, n + 1, Len(own.wire)),
                     ![Observed].whole = @ /\ n = Len(own.sent[Len(own.handled) + 1])]
  BY DEF Read, own
<1>2. own' = [own EXCEPT
                !.buf = SubSeq(own.wire, 1, n),
                !.wire = SubSeq(own.wire, n + 1, Len(own.wire)),
                !.whole = own.whole /\ n = Len(own.sent[Len(own.handled) + 1])]
  BY <1>1, OwnLink DEF own
<1>3. /\ own'.buf = SubSeq(own.wire, 1, n)
      /\ own'.wire = SubSeq(own.wire, n + 1, Len(own.wire))
      /\ own'.peer = own.peer /\ own'.sent = own.sent
      /\ own'.handled = own.handled
      /\ own'.replies = own.replies /\ own'.accepted = own.accepted
  BY <1>2, OwnLink DEF Links
<1>4. own'.whole = (own.whole /\ n = Len(own.sent[Len(own.handled) + 1]))
  BY <1>2, OwnLink DEF Links
<1>5. pc' = pc /\ pc[Observed] = "reading" /\ own.buf = <<>>
  BY DEF Read, Awaits, vars, own
<1>6. own.accepted /\ own.wire \in Seq(LinkPieces)
  BY <1>5, OwnLink DEF LinkInStep, Links
<1>7. SubSeq(own.wire, 1, n) = <<>> \o SubSeq(own.wire, 1, n) /\ SubSeq(own.wire, 1, n) # <<>>
  BY <1>6
<1>8. Place = "reading" /\ Place' = "handling"
  BY <1>3, <1>5, <1>6, <1>7 DEF Place
<1>9. n <= Capacity - Len(own.buf)
  BY <1>1, <1>5, SocketAssumption
<1>10. QED
  BY <1>3, <1>4, <1>5, <1>7, <1>8, <1>9 DEF Task!Read, Task!IsWhole

\* The end of the stream, or an error (main.rs:55-57, 71-74).
LEMMA EndSimulates ==
  ASSUME LinksInv, EndOfStream(Observed)
  PROVE  Task!EndOfStream \/ Task!ReadError
<1>1. pc[Observed] = "reading" /\ own.buf = <<>> /\ pc'[Observed] = "closed"
  BY OwnLink DEF EndOfStream, Awaits, Close, own
<1>2. own.accepted
  BY <1>1, OwnLink DEF LinkInStep
<1>3. CASE own.peer # "open" /\ own.wire = <<>> /\ link' = link
  <2>1. own' = own
    BY <1>3 DEF own
  <2>2. Place = "reading" /\ Place' = "closed"
    BY <1>1, <1>2, <2>1 DEF Place
  <2>3. QED
    BY <1>3, <2>1, <2>2 DEF Task!EndOfStream
<1>4. CASE own.peer = "gone" /\ link' = [link EXCEPT ![Observed].wire = <<>>]
  <2>1. own' = [own EXCEPT !.wire = <<>>]
    BY <1>4, OwnLink DEF own
  <2>2. /\ own'.wire = <<>>
        /\ own'.peer = own.peer /\ own'.sent = own.sent /\ own'.buf = own.buf
        /\ own'.handled = own.handled /\ own'.whole = own.whole
        /\ own'.replies = own.replies /\ own'.accepted = own.accepted
    BY <2>1, OwnLink DEF Links
  <2>3. Place = "reading" /\ Place' = "closed"
    BY <1>1, <1>2, <2>2 DEF Place
  <2>4. QED
    BY <1>4, <2>2, <2>3 DEF Task!ReadError
<1>5. QED
  BY <1>3, <1>4 DEF EndOfStream, own

\* The commands are the one step in which Connection answers a buffer, or panics.
LEMMA GoesSimulates ==
  ASSUME LinksInv, NEW at, Goes(Observed, at), at = "closed" => poisoned'
  PROVE  Task!Handle \/ Task!HandlePanics \/ UNCHANGED Task!vars
<1>1. pc'[Observed] = at
  BY OwnLink DEF Goes
<1>2. own.accepted /\ own.buf # <<>> /\ pc[Observed] \in {"reading", "waiting", "scanning"}
  BY DEF Goes, own
<1>3. Place = "handling"
  BY <1>2 DEF Place
<1>4. CASE at = "replying"
  <2>1. link' = [link EXCEPT ![Observed].handled = Append(@, own.buf)]
    BY <1>1, <1>4 DEF Goes, NoteAnswer, own
  <2>2. own' = [own EXCEPT !.handled = Append(own.handled, own.buf)]
    BY <2>1, OwnLink DEF own
  <2>3. /\ own'.handled = Append(own.handled, own.buf)
        /\ own'.peer = own.peer /\ own'.sent = own.sent /\ own'.buf = own.buf
        /\ own'.wire = own.wire /\ own'.whole = own.whole
        /\ own'.replies = own.replies /\ own'.accepted = own.accepted
    BY <2>2, OwnLink DEF Links
  <2>4. Place' = "writing"
    BY <1>1, <1>2, <1>4, <2>3 DEF Place
  <2>5. own.handled \in Seq(Seq(LinkPieces)) /\ own.buf \in Seq(LinkPieces)
    BY OwnLink DEF Links
  <2>6. own'.handled # <<>> /\ Last(own'.handled) = own.buf
    BY <2>3, <2>5, LastAppended
  <2>7. QED
    BY <1>3, <2>3, <2>4, <2>6 DEF Task!Handle
<1>5. CASE at # "replying"
  <2>1. own' = own
    BY <1>1, <1>5 DEF Goes, NoteAnswer, own
  <2>2. own.buf \in Frames
    BY <1>5 DEF Goes, own
  <2>3. CASE at = "closed"
    <3>1. Place' = "panicked"
      BY <1>1, <1>2, <2>1, <2>3 DEF Place
    <3>2. QED
      BY <1>3, <2>1, <2>2, <3>1 DEF Task!HandlePanics
  <2>4. CASE at # "closed"
    <3>1. at \in {"waiting", "scanning"}
      BY <1>5, <2>4 DEF Goes
    <3>2. Place' = "handling"
      BY <1>1, <1>2, <2>1, <3>1 DEF Place
    <3>3. QED
      BY <1>3, <2>1, <3>2, OwnStutters
  <2>5. QED
    BY <2>3, <2>4
<1>6. QED
  BY <1>4, <1>5

\* The reply is written, or the write fails (main.rs:62-69).
LEMMA ReplySimulates ==
  ASSUME LinksInv, Reply(Observed)
  PROVE  Task!Write
<1> DEFINE to == IF Last(own.handled) \in Frames THEN Last(own.handled) ELSE Refused
<1>1. pc[Observed] = "replying" /\ pc'[Observed] = "reading"
  BY OwnLink DEF Reply, WriteReply
<1>2. own.accepted /\ own.handled # <<>>
  BY <1>1, OwnLink DEF LinkInStep
<1>3. Place = "writing"
  BY <1>1, <1>2 DEF Place
<1>4. CASE own.peer = "gone" /\ link' = [link EXCEPT ![Observed].buf = <<>>]
  <2>1. own' = [own EXCEPT !.buf = <<>>]
    BY <1>4, OwnLink DEF own
  <2>2. /\ own'.buf = <<>> /\ own'.handled = own.handled
        /\ own'.peer = own.peer /\ own'.sent = own.sent
        /\ own'.wire = own.wire /\ own'.whole = own.whole
        /\ own'.replies = own.replies /\ own'.accepted = own.accepted
    BY <2>1, OwnLink DEF Links
  <2>3. Place' = "reading"
    BY <1>1, <1>2, <2>2 DEF Place
  <2>4. QED
    BY <1>3, <1>4, <2>2, <2>3 DEF Task!Write
<1>5. CASE /\ own.peer # "gone"
           /\ link' = [link EXCEPT ![Observed].buf = <<>>, ![Observed].unread = @ + 1,
                                   ![Observed].replies = Append(@, to)]
  <2>1. own' = [own EXCEPT !.buf = <<>>, !.unread = own.unread + 1,
                           !.replies = Append(own.replies, to)]
    BY <1>5, OwnLink DEF own
  <2>2. /\ own'.buf = <<>> /\ own'.handled = own.handled
        /\ own'.peer = own.peer /\ own'.sent = own.sent
        /\ own'.wire = own.wire /\ own'.whole = own.whole
        /\ own'.replies = Append(own.replies, to) /\ own'.accepted = own.accepted
    <3> HIDE DEF to
    <3>1. QED
      BY <2>1, OwnLink DEF Links
  <2>3. Place' = "reading"
    BY <1>1, <1>2, <2>2 DEF Place
  <2>4. to = IF own.handled = <<>> \/ Last(own.handled) \notin Frames
             THEN Refused ELSE Last(own.handled)
    BY <1>2
  <2>5. QED
    <3> HIDE DEF to
    <3>1. QED
      BY <1>2, <1>3, <1>5, <2>2, <2>3, <2>4 DEF Task!Write
<1>6. QED
  BY <1>4, <1>5 DEF Reply, own

\* A place that stays where it is.
LEMMA PlaceStays ==
  ASSUME EndedInPanic, EndedInPanic', own' = own, pc'[Observed] = pc[Observed]
  PROVE  Place' = Place
<1>1. pc[Observed] = "closed" /\ own.buf # <<>> => poisoned /\ poisoned'
  BY ObservedAssumption DEF EndedInPanic, own
<1>2. QED
  BY <1>1 DEF Place

\* The other connections.
LEMMA OthersStutter ==
  ASSUME LinksInv, EndedInPanic, EndedInPanic', NEW c \in Conns, c # Observed,
         AcceptStream(c) \/ SessionTask(c) \/ Client(c)
  PROVE  UNCHANGED Task!vars
<1>1. PICK at, l : Moves(c, at, l)
  BY ClientMoves, StreamMoves, ReceiveGoes, CommandGoes, GoesMoves DEF SessionTask
<1>2. own' = own /\ pc'[Observed] = pc[Observed]
  BY <1>1, OwnLink DEF Moves, own
<1>3. QED
  BY <1>2, PlaceStays, OwnStutters

\* Each step of Sessions is one of the observed connection, or none.
LEMMA SessionStepSimulates ==
  ASSUME IsFiniteSet(Conns)
  PROVE  LinksInv /\ EndedInPanic /\ EndedInPanic' /\ [SessionNext]_sessionVars
           => [Task!Next]_(Task!vars)
<1>1. ASSUME LinksInv, AcceptStream(Observed) \/ SessionTask(Observed) \/ Client(Observed)
      PROVE  Task!Next \/ UNCHANGED Task!vars
  <2>1. CASE AcceptStream(Observed)
    BY <1>1, <2>1, AcceptSimulates
  <2>2. CASE Client(Observed)
    BY <1>1, <2>2, SendSimulates, HangUpSimulates, TakeReplySimulates DEF Client, Task!Next
  <2>3. CASE SessionTask(Observed)
    <3>1. CASE Receive(Observed)
      <4>1. PICK at : Goes(Observed, at)
        BY <1>1, <3>1, OwnLink, ReceiveGoes
      <4>2. at # "closed"
        BY <1>1, <3>1, <4>1, OwnLink
        DEF Goes, Receive, ReceiveMalformed, ReceiveInvalid, ReceiveLocal, ReceiveRequest, CanReceive
      <4>3. QED
        BY <1>1, <4>1, <4>2, GoesSimulates DEF Task!Next, Task!Task
    <3>2. CASE Command(Observed)
      <4>1. PICK at : Goes(Observed, at)
        BY <1>1, <3>2, OwnLink, CommandGoes
      <4>2. pc'[Observed] = at
        BY <1>1, <4>1, OwnLink DEF Goes
      <4>3. at = "closed" => poisoned'
        BY <1>1, <3>2, <4>2, OwnLink, CommandPanics
      <4>4. QED
        BY <1>1, <4>1, <4>3, GoesSimulates DEF Task!Next, Task!Task
    <3>3. QED
      BY <1>1, <2>3, <3>1, <3>2, ReadSimulates, EndSimulates, ReplySimulates
      DEF SessionTask, Task!Next, Task!Task
  <2>4. QED
    BY <1>1, <2>1, <2>2, <2>3
<1>2. ASSUME EndedInPanic, EndedInPanic', UNCHANGED <<pc, link>>
      PROVE  UNCHANGED Task!vars
  <2>1. own' = own /\ Place' = Place
    BY <1>2, PlaceStays DEF own
  <2>2. QED
    BY <2>1, OwnStutters
<1>3. (ExpiryTask \/ Tick) /\ link' = link => UNCHANGED <<pc, link>>
  BY DEF ExpiryTask, ExpiryIdle, ExpiryBegin, ExpiryLook, ExpiryEnd, ExpiryWake, ExpiryPanics, Tick
<1>4. UNCHANGED sessionVars => UNCHANGED <<pc, link>>
  BY DEF sessionVars, vars
<1>5. QED
  BY <1>1, <1>2, <1>3, <1>4, OthersStutter DEF SessionNext

\* The initial states.
LEMMA TaskInit == SessionInit => Task!Init
<1> SUFFICES ASSUME SessionInit PROVE Task!Init
  OBVIOUS
<1>1. own = NewLink
  BY ObservedAssumption DEF SessionInit, own
<1>2. Place = "reading"
  <2>1. pc[Observed] = "closed"
    BY ObservedAssumption DEF SessionInit, Init
  <2>2. QED
    BY <1>1, <2>1 DEF Place, NewLink
<1>3. QED
  BY <1>1, <1>2 DEF Task!Init, NewLink

\* Each connection is a Connection (main.rs:45-96), whatever the others, their clients and
\* the expiry task do to the map and the mutex.
THEOREM SessionsAreConnections ==
  ASSUME IsFiniteSet(Conns)
  PROVE  SessionSpec => ConnectionSpec
<1>1. LinksInv /\ EndedInPanic /\ EndedInPanic' /\ [SessionNext]_sessionVars
        => [Task!Next]_(Task!vars)
  BY SessionStepSimulates
<1>2. SessionInit => EndedInPanic
  BY DEF SessionInit, NewLink, EndedInPanic
<1>3. QED
  BY <1>1, <1>2, LinksInit, LinksInvariant, EndedInvariant, TaskInit, PTL DEF SessionSpec, ConnectionSpec, Task!Spec
=============================================================================

---------------------------- MODULE HistoryProofs ----------------------------
(***************************************************************************)
(* Proofs of ServerHistory, for a clock that may be set back at any time.  *)
(* What every step does to the map is said once, in four lemmas; the       *)
(* theorems follow from them and from the inductive invariant.             *)
(***************************************************************************)
EXTENDS ServerHistory, ServerProofs

\* What a pass has collected and has still to look at are entries of the map, and no
\* instant is later than the latest.
Past ==
  /\ latest \in Instants /\ now <= latest
  /\ expiry.at # "sampling" => expiry.left = {} /\ expiry.doomed = {}
  /\ expiry.left \subseteq DOMAIN db

HInv == IInv /\ Past /\ DoomedHaveExpired /\ MissingStaysMissing

-----------------------------------------------------------------------------
(* What a step does to the map. *)

\* c's command gives its key the object o.
Stores(c, o) ==
  /\ Ran(c, WriteCommands) /\ reply'[c].type # "error"
  /\ db' = Insert(db, req[c].key, o)

\* o has the deadline of the object it replaces, but for SET and after an expired one.
KeepsDeadline(c, o) ==
  req[c].key \in DOMAIN db =>
    \/ o.expiration = db[req[c].key].expiration
    \/ req[c].cmd = "set"
    \/ IsExpired(db[req[c].key], now) /\ o.expiration = None

\* The change a connection makes: a write, a DEL, or the removal of an expired entry.
Changes(c) ==
  \/ lock = None /\ \E o : Stores(c, o) /\ KeepsDeadline(c, o)
  \/ lock = None /\ Ran(c, {"del"}) /\ db' = SwapRemove(db, ToSet(req[c].keys))
  \/ lock \in {None, c} /\ \E k : ~Live(k) /\ db' = SwapRemove(db, {k})

\* A command that runs within one step and answers.
LEMMA RanAnswer ==
  ASSUME IInv, NEW c \in Conns, NEW cmds, Run(c, cmds), NEW response, Answer(c, response)
  PROVE  Ran(c, cmds) /\ lock = None /\ reply'[c] = response
BY DEF IInv, TypeOK, Run, CanLock, Answer, Ran

\* The commands that write (request.rs:40-44, arithmetic.rs, list.rs).
LEMMA WriteChanges ==
  ASSUME IInv, NEW c \in Conns,
         \/ Set(c) \/ ArithmeticNew(c) \/ ArithmeticUpdate(c)
         \/ PushNew(c) \/ PushMore(c)
  PROVE  Changes(c)
<1> USE DEF WriteCommands
<1>1. CASE Set(c)
  <2>1. Run(c, {"set"}) /\ Answer(c, SimpleString)
    BY <1>1 DEF Set
  <2>2. Ran(c, {"set"}) /\ lock = None /\ reply'[c].type # "error" /\ req[c].cmd = "set"
    BY <2>1, RanAnswer DEF SimpleString, Run
  <2>3. Ran(c, WriteCommands)
    BY <2>2 DEF Ran
  <2>4. QED
    BY <1>1, <2>2, <2>3 DEF Set, Changes, Stores, KeepsDeadline
<1>2. ASSUME NEW cmds \in SUBSET (ArithmeticCommands \cup PushCommands),
             NEW n, Run(c, cmds), Answer(c, IntegerReply(n))
      PROVE  Ran(c, WriteCommands) /\ lock = None /\ reply'[c].type # "error"
  <2>1. Ran(c, cmds) /\ lock = None /\ reply'[c].type # "error"
    BY <1>2, RanAnswer DEF IntegerReply
  <2>2. QED
    BY <2>1 DEF Ran
<1>3. ASSUME NEW o, o.expiration = None, ~Live(req[c].key)
      PROVE  KeepsDeadline(c, o)
  BY <1>3 DEF KeepsDeadline, Live
<1>4. ASSUME NEW o, o.expiration = db[req[c].key].expiration
      PROVE  KeepsDeadline(c, o)
  BY <1>4 DEF KeepsDeadline
<1>5. CASE ArithmeticNew(c)
  <2> DEFINE v == InitialValue(req[c])
             o == NewObject(IntegerValue(v), None)
  <2>1. Run(c, ArithmeticCommands) /\ Answer(c, IntegerReply(v)) /\ db' = Insert(db, req[c].key, o)
    BY <1>5 DEF ArithmeticNew
  <2>2. KeepsDeadline(c, o)
    BY <1>3, <1>5 DEF ArithmeticNew, NewObject
  <2> HIDE DEF v, o
  <2>3. QED
    BY <1>2, <2>1, <2>2 DEF Changes, Stores
<1>6. CASE ArithmeticUpdate(c)
  <2> DEFINE n == Operation(req[c], db[req[c].key].value.integer).val
             o == NewObject(IntegerValue(n), db[req[c].key].expiration)
  <2>1. Run(c, ArithmeticCommands) /\ Answer(c, IntegerReply(n)) /\ db' = Insert(db, req[c].key, o)
    BY <1>6 DEF ArithmeticUpdate
  <2>2. KeepsDeadline(c, o)
    BY <1>4 DEF NewObject
  <2> HIDE DEF n, o
  <2>3. QED
    BY <1>2, <2>1, <2>2 DEF Changes, Stores
<1>7. CASE PushNew(c)
  <2> DEFINE l == Pushed(req[c], <<>>)
             o == NewObject(ListValue(l), None)
  <2>1. Run(c, PushCommands) /\ Answer(c, IntegerReply(Len(l))) /\ db' = Insert(db, req[c].key, o)
    BY <1>7 DEF PushNew
  <2>2. KeepsDeadline(c, o)
    BY <1>3, <1>7 DEF PushNew, NewObject
  <2> HIDE DEF l, o
  <2>3. QED
    BY <1>2, <2>1, <2>2 DEF Changes, Stores
<1>8. CASE PushMore(c)
  <2> DEFINE l == Pushed(req[c], db[req[c].key].value.list)
             o == NewObject(ListValue(l), db[req[c].key].expiration)
  <2>1. Run(c, PushCommands) /\ Answer(c, IntegerReply(Len(l))) /\ db' = Insert(db, req[c].key, o)
    BY <1>8 DEF PushMore
  <2>2. KeepsDeadline(c, o)
    BY <1>4 DEF NewObject
  <2> HIDE DEF l, o
  <2>3. QED
    BY <1>2, <2>1, <2>2 DEF Changes, Stores
<1>9. QED
  BY <1>1, <1>5, <1>6, <1>7, <1>8

\* A step of a connection changes the map by what its command says, or not at all.
LEMMA ConnectionChanges ==
  ASSUME IInv, NEW c \in Conns, Connection(c)
  PROVE  /\ now' = now /\ expiry' = expiry
         /\ db' = db \/ Changes(c)
<1>1. now' = now /\ expiry' = expiry
  BY DEF Connection, Locks, Proceed, Accept, Close, ReceiveMalformed, ReceiveInvalid, ReceiveLocal,
         ReceiveRequest, CanReceive, WriteReply, Run, Set, GetLive, GetMissing, Del, ArithmeticNew,
         ArithmeticUpdate, ArithmeticFails, ArithmeticPanics, PushNew, PushMore, PushFails,
         ExistsBegin, ExistsLook, ExistsEnd, LockPoisoned
<1>2. CASE GetMissing(c)
  BY <1>2 DEF GetMissing, Run, CanLock, Changes
<1>3. CASE Del(c)
  <2>1. PICK response : Run(c, {"del"}) /\ Answer(c, response)
    BY <1>3 DEF Del
  <2>2. Ran(c, {"del"}) /\ lock = None
    BY <2>1, RanAnswer
  <2>3. QED
    BY <1>1, <1>3, <2>2 DEF Del, Changes
<1>4. CASE ExistsLook(c)
  <2>1. lock = c
    BY <1>4 DEF ExistsLook, IInv, MutexDiscipline
  <2>2. QED
    BY <1>1, <1>4, <2>1 DEF ExistsLook, Changes
<1>5. CASE \/ Accept(c) \/ Close(c) \/ ReceiveMalformed(c) \/ ReceiveInvalid(c)
           \/ ReceiveLocal(c) \/ ReceiveRequest(c) \/ WriteReply(c)
  BY <1>1, <1>5 DEF Accept, Close, ReceiveMalformed, ReceiveInvalid, ReceiveLocal, ReceiveRequest,
                    CanReceive, WriteReply
<1>6. CASE \/ GetLive(c) \/ ArithmeticFails(c) \/ ArithmeticPanics(c) \/ PushFails(c)
           \/ ExistsBegin(c) \/ ExistsEnd(c) \/ LockPoisoned(c)
  BY <1>1, <1>6 DEF GetLive, ArithmeticFails, ArithmeticPanics, PushFails, ExistsBegin, ExistsEnd,
                    LockPoisoned
<1>7. QED
  BY <1>1, <1>2, <1>3, <1>4, <1>5, <1>6, WriteChanges DEF Connection, Locks, Proceed

\* So does the expiry task by what it has collected, and the clock never does.
LEMMA OtherChanges ==
  ASSUME IInv, ExpiryTask \/ Tick
  PROVE  /\ db' = db \/ db' = SwapRemove(db, expiry.doomed)
         /\ UNCHANGED <<pc, scan>>
BY DEF ExpiryTask, ExpiryIdle, ExpiryBegin, ExpiryLook, ExpiryEnd, ExpiryWake, ExpiryPanics, Tick

\* An object that has expired at one instant has at every later one.
LEMMA ExpiredLater ==
  ASSUME IInv, NEW k \in DOMAIN db, NEW t \in Instants, NEW u \in Instants, t <= u,
         IsExpired(db[k], t)
  PROVE  IsExpired(db[k], u)
<1>1. db[k].expiration \in Instants \cup {None}
  BY StoredObject
<1>2. QED
  BY <1>1, InstantAssumption DEF IsExpired, Instants

\* A connection is the only one to move its own task.
LEMMA WhoMoves ==
  ASSUME IInv, Next, NEW c \in Conns, pc'[c] # pc[c]
  PROVE  Connection(c)
<1>1. PICK d \in Conns : Connection(d)
  BY OtherChanges DEF Next
<1>2. pc \in [Conns -> Status]
  BY DEF IInv, TypeOK
<1>3. pc' = pc \/ \E s : pc' = [pc EXCEPT ![d] = s]
  BY <1>1 DEF Connection, Locks, Proceed, Accept, Close, ReceiveMalformed, ReceiveInvalid,
     ReceiveLocal, ReceiveRequest, WriteReply, Answer, Set, GetLive, GetMissing, Del, ArithmeticNew,
     ArithmeticUpdate, ArithmeticFails, ArithmeticPanics, PushNew, PushMore, PushFails,
     ExistsBegin, ExistsLook, ExistsEnd, LockPoisoned
<1>4. d = c
  BY <1>2, <1>3
<1>5. QED
  BY <1>1, <1>4

\* What a client is told is missing is gone when the step is over (request.rs:50-54, 64-66).
LEMMA FoundMissingIsGone ==
  ASSUME IInv, Next, NEW k, FoundMissing(k)
  PROVE  k \notin DOMAIN db'
<1>1. ASSUME NEW c \in Conns, Ran(c, {"get"}), req[c].key = k, reply'[c] = Null
      PROVE  k \notin DOMAIN db'
  <2>1. pc[c] = "waiting" /\ pc'[c] = "replying" /\ req[c].cmd = "get"
    BY <1>1 DEF Ran
  <2>2. Connection(c)
    BY <2>1, WhoMoves
  <2>3. pc \in [Conns -> Status] /\ reply \in [Conns -> Response \cup {None}]
    BY DEF IInv, TypeOK
  <2>4. GetLive(c) \/ GetMissing(c)
    BY <2>1, <2>2, <2>3
    DEF Connection, Locks, Proceed, Accept, Close, ReceiveMalformed, ReceiveInvalid, ReceiveLocal,
        ReceiveRequest, CanReceive, WriteReply, Run, Set, Del, ArithmeticNew, ArithmeticUpdate,
        ArithmeticFails, ArithmeticPanics, PushNew, PushMore, PushFails, ExistsBegin, ExistsLook,
        ExistsEnd, LockPoisoned, ArithmeticCommands, PushCommands
  <2>5. ~GetLive(c)
    <3>1. ASSUME GetLive(c) PROVE FALSE
      <4>1. PICK r : reply' = [reply EXCEPT ![c] = BulkString(r)]
        BY <3>1 DEF GetLive, Answer
      <4>2. reply'[c].type = "bulk"
        BY <2>3, <4>1 DEF BulkString
      <4>3. QED
        BY <1>1, <4>2 DEF Null
    <3>2. QED
      BY <3>1
  <2>6. db' = SwapRemove(db, {k})
    BY <1>1, <2>4, <2>5 DEF GetMissing
  <2>7. QED
    BY <2>6 DEF Insert, SwapRemove, Restrict
<1>2. ASSUME NEW c \in Conns, pc[c] = "scanning",
             scan.left # <<>>, scan'.left = Tail(scan.left), Head(scan.left) = k,
             scan'.count = scan.count
      PROVE  k \notin DOMAIN db'
  <2>1. scan.left \in Seq(Texts) /\ scan.count \in Nat
    BY DEF IInv, TypeOK
  <2>2. scan'.left # scan.left
    <3>1. Len(Tail(scan.left)) = Len(scan.left) - 1 /\ Len(scan.left) \in Nat
      BY <1>2, <2>1, HeadTailProperties, LenProperties
    <3>2. Len(Tail(scan.left)) # Len(scan.left)
      BY <3>1
    <3>3. Tail(scan.left) # scan.left
      BY <3>2, Zenon
    <3>4. QED
      BY <1>2, <3>3
  <2>3. PICK d \in Conns : Connection(d)
    BY <2>2, OtherChanges DEF Next
  <2>4. lock = c /\ \A e \in Conns : pc[e] = "scanning" => e = c
    BY <1>2 DEF IInv, MutexDiscipline
  <2>5. ~CanLock(d)
    BY <2>4, TasksAssumption DEF CanLock
  <2>6. ExistsLook(d)
    BY <1>2, <2>2, <2>3, <2>4, <2>5
    DEF Connection, Locks, Proceed, Accept, Close, ReceiveMalformed, ReceiveInvalid, ReceiveLocal,
        ReceiveRequest, CanReceive, WriteReply, Run, Set, GetLive, GetMissing, Del, ArithmeticNew,
        ArithmeticUpdate, ArithmeticFails, ArithmeticPanics, PushNew, PushMore, PushFails,
        ExistsBegin, ExistsEnd, LockPoisoned
  <2>7. \/ scan' = [left |-> Tail(scan.left), count |-> scan.count + 1]
        \/ db' = SwapRemove(db, {k})
    BY <1>2, <2>6 DEF ExistsLook
  <2>8. scan' # [left |-> Tail(scan.left), count |-> scan.count + 1]
    BY <1>2, <2>1
  <2>9. QED
    BY <2>7, <2>8 DEF Insert, SwapRemove, Restrict
<1>3. QED
  BY <1>1, <1>2 DEF FoundMissing

-----------------------------------------------------------------------------
(* The inductive invariant. *)

\* The initial state.
LEMMA HInitInvariant == HInit => HInv
<1> SUFFICES ASSUME HInit PROVE HInv
  OBVIOUS
<1>1. IInv
  BY InitInvariant DEF HInit
<1>2. Past /\ DoomedHaveExpired
  BY InstantAssumption DEF HInit, Init, Past, Resting, DoomedHaveExpired, Instants
<1>3. MissingStaysMissing
  BY DEF HInit, MissingStaysMissing
<1>4. QED
  BY <1>1, <1>2, <1>3 DEF HInv

\* What a pass holds stays in the map while it does, and stays expired.
LEMMA PastStep ==
  ASSUME HInv, HNext, IInv'
  PROVE  Past' /\ DoomedHaveExpired'
<1>1. /\ now \in Instants /\ now' \in Instants /\ latest \in Instants /\ now <= latest
      /\ expiry.at # "sampling" => expiry.left = {} /\ expiry.doomed = {}
      /\ expiry.left \subseteq DOMAIN db
      /\ \A k \in expiry.doomed : k \in DOMAIN db /\ IsExpired(db[k], latest)
  BY DEF HInv, IInv, TypeOK, Past, DoomedHaveExpired
<1>2. latest' \in Instants /\ now' <= latest' /\ latest <= latest'
  BY <1>1, InstantAssumption DEF HNext, Instants
<1>3. ASSUME NEW k \in DOMAIN db, NEW t \in Instants, t <= latest', IsExpired(db[k], t)
      PROVE  IsExpired(db[k], latest')
  BY <1>2, <1>3, ExpiredLater DEF HInv
<1>4. SUFFICES /\ expiry'.at # "sampling" => expiry'.left = {} /\ expiry'.doomed = {}
               /\ expiry'.left \subseteq DOMAIN db'
               /\ \A k \in expiry'.doomed : k \in DOMAIN db' /\ IsExpired(db'[k], latest')
  BY <1>2 DEF Past, DoomedHaveExpired
<1>5. CASE expiry' = expiry /\ db' = db
  BY <1>1, <1>2, <1>3, <1>5
<1>6. ASSUME NEW c \in Conns, Connection(c)
      PROVE  expiry'.at = "sampling" => expiry' = expiry /\ db' = db
  <2>1. expiry' = expiry /\ (db' = db \/ Changes(c))
    BY <1>6, ConnectionChanges DEF HInv
  <2>2. expiry.at = "sampling" => lock = Expiry /\ Expiry # c /\ Expiry # None
    BY TasksAssumption DEF HInv, IInv, MutexDiscipline
  <2>3. QED
    BY <2>1, <2>2 DEF Changes
<1>7. ASSUME NEW c \in Conns, Connection(c)
      PROVE  expiry' = expiry
  BY <1>7, ConnectionChanges DEF HInv
<1>8. CASE \E c \in Conns : Connection(c)
  <2>1. expiry' = expiry
    BY <1>7, <1>8
  <2>2. CASE expiry.at # "sampling"
    BY <1>1, <2>1, <2>2
  <2>3. QED
    BY <1>5, <1>6, <1>8, <2>1, <2>2
<1>9. CASE Tick
  BY <1>5, <1>9 DEF Tick
<1>10. CASE ExpiryIdle \/ ExpiryEnd \/ ExpiryWake \/ ExpiryPanics
  <2>1. \E at \in {"ready", "asleep", "dead"} : expiry' = Resting(at)
    BY <1>10 DEF ExpiryIdle, ExpiryEnd, ExpiryWake, ExpiryPanics
  <2>2. QED
    BY <2>1 DEF Resting
<1>11. CASE ExpiryBegin
  <2> DEFINE size == Min({SampleSize, Cardinality(DOMAIN db)})
  <2>1. PICK sample \in kSubset(size, DOMAIN db) :
          expiry' = [at |-> "sampling", left |-> sample, doomed |-> {}, size |-> size]
    BY <1>11 DEF ExpiryBegin
  <2> HIDE DEF size
  <2>2. sample \subseteq DOMAIN db
    BY <2>1 DEF kSubset
  <2>3. QED
    BY <1>11, <2>1, <2>2 DEF ExpiryBegin
<1>12. CASE ExpiryLook
  <2>1. PICK k \in expiry.left :
          expiry' = [expiry EXCEPT
                       !.left = expiry.left \ {k},
                       !.doomed = IF IsExpired(db[k], now) THEN expiry.doomed \cup {k}
                                  ELSE expiry.doomed]
    BY <1>12 DEF ExpiryLook
  <2>2. expiry.at = "sampling" /\ db' = db
    BY <1>12 DEF ExpiryLook
  <2>3. expiry \in [at: {"ready", "sampling", "asleep", "dead"},
                    left: SUBSET Texts, doomed: SUBSET Texts, size: Nat]
    BY DEF HInv, IInv, TypeOK
  <2>4. /\ expiry'.at = "sampling" /\ expiry'.left \subseteq expiry.left
        /\ \A x \in expiry'.doomed : x \in expiry.doomed \/ (x = k /\ IsExpired(db[k], now))
    BY <2>1, <2>2, <2>3
  <2>5. now <= latest'
    BY <1>1, <1>2, InstantAssumption DEF Instants
  <2>6. ASSUME NEW x \in expiry'.doomed
        PROVE  x \in DOMAIN db /\ IsExpired(db[x], latest')
    BY <1>1, <1>2, <1>3, <2>1, <2>4, <2>5
  <2>7. QED
    BY <1>1, <2>2, <2>4, <2>6
<1>13. QED
  BY <1>8, <1>9, <1>10, <1>11, <1>12 DEF HNext, Next, ExpiryTask

\* A key that was reported missing comes back by a write alone.
LEMMA MissingStep ==
  ASSUME HInv, HNext
  PROVE  MissingStaysMissing'
<1> SUFFICES ASSUME NEW k \in missing'
             PROVE  k \notin DOMAIN db'
  BY DEF MissingStaysMissing
<1>1. (k \in missing \/ FoundMissing(k)) /\ ~Wrote(k)
  BY DEF HNext
<1>2. IInv /\ Next
  BY DEF HInv, HNext
<1>3. CASE FoundMissing(k)
  BY <1>2, <1>3, FoundMissingIsGone
<1>4. CASE k \in missing
  <2>1. k \notin DOMAIN db
    BY <1>4 DEF HInv, MissingStaysMissing
  <2>2. CASE ExpiryTask \/ Tick
    BY <1>2, <2>1, <2>2, OtherChanges DEF Insert, SwapRemove, Restrict
  <2>3. ASSUME NEW c \in Conns, Connection(c)
        PROVE  k \notin DOMAIN db'
    <3>1. db' = db \/ Changes(c)
      BY <1>2, <2>3, ConnectionChanges
    <3>2. ASSUME NEW o, Stores(c, o)
          PROVE  k \notin DOMAIN db'
      <4>1. k # req[c].key
        BY <1>1, <3>2 DEF Stores, Wrote
      <4>2. QED
        BY <2>1, <3>2, <4>1 DEF Stores, Insert, SwapRemove, Restrict
    <3>3. QED
      BY <2>1, <3>1, <3>2 DEF Changes, Insert, SwapRemove, Restrict
  <2>4. QED
    BY <1>2, <2>2, <2>3 DEF Next
<1>5. QED
  BY <1>1, <1>3, <1>4

\* Each step keeps it.
LEMMA HistoryStep == HInv /\ [HNext]_hvars => HInv'
<1>1. ASSUME HInv, HNext
      PROVE  HInv'
  <2>1. IInv'
    BY <1>1, ConnectionStep, ExpiryStep, TickStep DEF HInv, HNext, Next
  <2>2. QED
    BY <1>1, <2>1, PastStep, MissingStep DEF HInv
<1>2. ASSUME HInv, UNCHANGED hvars
      PROVE  HInv'
  <2>1. IInv'
    BY <1>2, StutterStep DEF HInv, hvars
  <2>2. QED
    BY <1>2, <2>1 DEF HInv, hvars, vars, Past, DoomedHaveExpired, MissingStaysMissing
<1>3. QED
  BY <1>1, <1>2

\* Whatever the clock does, what a pass holds has expired, and what was missing is.
THEOREM HistoryHolds == HSpec => []HInv
<1>1. HInit => HInv
  BY HInitInvariant
<1>2. HInv /\ [HNext]_hvars => HInv'
  BY HistoryStep
<1>3. QED
  BY <1>1, <1>2, PTL DEF HSpec

\* A key a client was told is missing is not in the map until it is written again
\* (request.rs:50-54, 64-66), even if the clock is set back.
THEOREM MissingIsGone == HSpec => []MissingStaysMissing
BY HistoryHolds, PTL DEF HInv

\* What a pass has collected is in the map and has expired (db.rs:60-71).
THEOREM CollectedHaveExpired == HSpec => []DoomedHaveExpired
BY HistoryHolds, PTL DEF HInv

-----------------------------------------------------------------------------
(* The steps. *)

\* An object a step loses was named by a client or had expired.
LEMMA LossStep ==
  ASSUME HInv, HNext, NEW k \in DOMAIN db
  PROVE  \/ k \in DOMAIN db' /\ db'[k] = db[k]
         \/ Named(k)
         \/ IsExpired(db[k], latest)
<1>1. IInv /\ Next /\ now \in Instants /\ latest \in Instants /\ now <= latest
  BY DEF HInv, HNext, IInv, TypeOK, Past
<1>2. CASE ExpiryTask \/ Tick
  <2>1. db' = db \/ db' = SwapRemove(db, expiry.doomed)
    BY <1>1, <1>2, OtherChanges
  <2>2. k \in expiry.doomed => IsExpired(db[k], latest)
    BY DEF HInv, DoomedHaveExpired
  <2>3. QED
    BY <2>1, <2>2 DEF Insert, SwapRemove, Restrict
<1>3. ASSUME NEW c \in Conns, Connection(c)
      PROVE  \/ k \in DOMAIN db' /\ db'[k] = db[k]
             \/ Named(k)
             \/ IsExpired(db[k], latest)
  <2>1. db' = db \/ Changes(c)
    BY <1>1, <1>3, ConnectionChanges
  <2>2. CASE \E o : Stores(c, o)
    <3>1. PICK o : Stores(c, o)
      BY <2>2
    <3>2. k = req[c].key => Named(k)
      BY <3>1 DEF Stores, Named
    <3>3. k # req[c].key => k \in DOMAIN db' /\ db'[k] = db[k]
      BY <3>1 DEF Stores, Insert, SwapRemove, Restrict
    <3>4. QED
      BY <3>2, <3>3
  <2>3. CASE Ran(c, {"del"}) /\ db' = SwapRemove(db, ToSet(req[c].keys))
    <3>1. k \in ToSet(req[c].keys) => Named(k)
      BY <2>3 DEF Named
    <3>2. QED
      BY <2>3, <3>1 DEF Insert, SwapRemove, Restrict
  <2>4. ASSUME NEW x, ~Live(x), db' = SwapRemove(db, {x})
        PROVE  (k \in DOMAIN db' /\ db'[k] = db[k]) \/ IsExpired(db[k], latest)
    <3>1. CASE k = x
      <4>1. IsExpired(db[k], now)
        BY <2>4, <3>1 DEF Live
      <4>2. QED
        BY <1>1, <4>1, ExpiredLater
    <3>2. CASE k # x
      BY <2>4, <3>2 DEF Insert, SwapRemove, Restrict
    <3>3. QED
      BY <3>1, <3>2
  <2>5. QED
    BY <2>1, <2>2, <2>3, <2>4 DEF Changes
<1>4. QED
  BY <1>1, <1>2, <1>3 DEF Next

\* No object is lost or changed behind the clients' backs.
THEOREM NothingLiveIsLost == HSpec => NoLiveLoss
<1>1. HInv /\ [HNext]_hvars =>
        [\A k \in DOMAIN db :
           \/ k \in DOMAIN db' /\ db'[k] = db[k]
           \/ Named(k)
           \/ IsExpired(db[k], latest)]_hvars
  BY LossStep
<1>2. QED
  BY <1>1, HistoryHolds, PTL DEF HSpec, NoLiveLoss

\* A step that changes the deadline of a key is a SET, or finds an expired object.
LEMMA DeadlineStep ==
  ASSUME HInv, HNext, NEW k \in DOMAIN db \cap DOMAIN db',
         db'[k].expiration # db[k].expiration
  PROVE  \/ \E c \in Conns : Ran(c, {"set"}) /\ req[c].key = k
         \/ IsExpired(db[k], now) /\ db'[k].expiration = None
<1>1. IInv /\ Next
  BY DEF HInv, HNext
<1>2. \A ks : db' # SwapRemove(db, ks)
  <2>1. ASSUME NEW ks, db' = SwapRemove(db, ks)
        PROVE  FALSE
    BY <2>1 DEF Insert, SwapRemove, Restrict
  <2>2. QED
    BY <2>1
<1>3. PICK c \in Conns : Connection(c)
  BY <1>1, <1>2, OtherChanges DEF Next
<1>4. PICK o : Stores(c, o) /\ KeepsDeadline(c, o)
  BY <1>1, <1>2, <1>3, ConnectionChanges DEF Changes
<1>5. k = req[c].key /\ db'[k] = o
  BY <1>4 DEF Stores, Insert, SwapRemove, Restrict
<1>6. req[c].cmd = "set" => Ran(c, {"set"})
  BY <1>4 DEF Stores, Ran
<1>7. QED
  BY <1>4, <1>5, <1>6 DEF KeepsDeadline

\* A deadline is changed by SET alone.
THEOREM DeadlinesAreKept == HSpec => DeadlineDiscipline
<1>1. HInv /\ [HNext]_hvars =>
        [\A k \in DOMAIN db \cap DOMAIN db' :
           db'[k].expiration # db[k].expiration =>
             \/ \E c \in Conns : Ran(c, {"set"}) /\ req[c].key = k
             \/ IsExpired(db[k], now) /\ db'[k].expiration = None]_hvars
  BY DeadlineStep
<1>2. QED
  BY <1>1, HistoryHolds, PTL DEF HSpec, DeadlineDiscipline

-----------------------------------------------------------------------------
(* The count of DEL. *)

\* What DEL counts are the entries of the map, live ones and others, that it names.
LEMMA DelCounts ==
  ASSUME HInv, HNext, NEW c \in Conns, Ran(c, {"del"})
  PROVE  reply'[c].number \in
           Cardinality({k \in ToSet(req[c].keys) : Live(k)})
             .. Cardinality(ToSet(req[c].keys) \ missing)
<1> DEFINE ks == ToSet(req[c].keys)
           alive == {k \in ks : Live(k)}
           found == DOMAIN db \cap ks
<1>1. /\ IInv /\ Next /\ pc[c] = "waiting" /\ pc'[c] = "replying" /\ req[c].cmd = "del"
      /\ pc \in [Conns -> Status] /\ reply \in [Conns -> Response \cup {None}]
  BY DEF HInv, HNext, Ran, IInv, TypeOK
<1>2. Connection(c)
  BY <1>1, WhoMoves
<1>3. Del(c)
  BY <1>1, <1>2
  DEF Connection, Locks, Proceed, Accept, Close, ReceiveMalformed, ReceiveInvalid, ReceiveLocal,
      ReceiveRequest, CanReceive, WriteReply, Run, Set, GetLive, GetMissing, ArithmeticNew,
      ArithmeticUpdate, ArithmeticFails, ArithmeticPanics, PushNew, PushMore, PushFails,
      ExistsBegin, ExistsLook, ExistsEnd, LockPoisoned, ArithmeticCommands, PushCommands
<1>4. reply'[c].number = Cardinality(found)
  BY <1>1, <1>3 DEF Del, Answer, IntegerReply
<1>5. IsFiniteSet(ks)
  <2>1. req[c] \in DbRequest
    BY <1>1, PendingRequest
  <2>2. req[c].keys \in Seq(Texts)
    BY <1>1, <2>1 DEF DbRequest, ArithmeticCommands, PushCommands
  <2>3. QED
    BY <2>2, TextsFinite
<1>6. alive \subseteq found /\ found \subseteq ks \ missing /\ ks \ missing \subseteq ks
  BY DEF Live, HInv, MissingStaysMissing
<1> HIDE DEF ks, alive, found
<1>7. IsFiniteSet(ks \ missing) /\ Cardinality(ks \ missing) \in Nat
  BY <1>5, <1>6, FS_Subset, FS_CardinalityType
<1>8. IsFiniteSet(found) /\ Cardinality(found) \in Nat /\ Cardinality(found) <= Cardinality(ks \ missing)
  BY <1>6, <1>7, FS_Subset, FS_CardinalityType
<1>9. Cardinality(alive) \in Nat /\ Cardinality(alive) <= Cardinality(found)
  BY <1>6, <1>8, FS_Subset, FS_CardinalityType
<1>10. Cardinality(found) \in Cardinality(alive) .. Cardinality(ks \ missing)
  BY <1>7, <1>8, <1>9
<1>11. QED
  BY <1>4, <1>10 DEF ks, alive

\* The count of DEL (request.rs:81-85) has every live key in it, once, and none of which a
\* client was told that it is missing.
THEOREM DelCountsWhatReadsFind == HSpec => DelAgreesWithReads
<1>1. HInv /\ [HNext]_hvars =>
        [\A c \in Conns : Ran(c, {"del"}) =>
           LET keys == ToSet(req[c].keys)
           IN  reply'[c].number \in
                 Cardinality({k \in keys : Live(k)}) .. Cardinality(keys \ missing)]_hvars
  BY DelCounts
<1>2. QED
  BY <1>1, HistoryHolds, PTL DEF HSpec, DelAgreesWithReads

-----------------------------------------------------------------------------
(* The count of EXISTS. *)

\* The occurrences of keys that an EXISTS has looked at, and those in the map of them.
Looked(c) == 1 .. (Len(req[c].keys) - Len(scan.left))
FoundIn(keys, n, D) == {i \in 1 .. n : keys[i] \in D}
LookedPresent(c) == {i \in Looked(c) : req[c].keys[i] \in DOMAIN db}

\* What EXISTS has still to look at are the last of its keys, in their order.
Scanned ==
  \A c \in Conns : pc[c] = "scanning" =>
    /\ req[c].keys \in Seq(Texts) /\ Len(scan.left) <= Len(req[c].keys)
    /\ \A i \in 1 .. Len(scan.left) :
         scan.left[i] = req[c].keys[Len(req[c].keys) - Len(scan.left) + i]

ScanInv == IInv /\ Scanned /\ ScanCountsWhatStays

\* Counts of subsets of an interval.
LEMMA CountsBelow ==
  ASSUME NEW n \in Nat, NEW A \in SUBSET (1 .. n)
  PROVE  /\ IsFiniteSet(A) /\ Cardinality(A) \in 0 .. n /\ Cardinality(1 .. n) = n
         /\ \A B \in SUBSET A : Cardinality(B) \in 0 .. Cardinality(A)
         /\ \A x : Cardinality(A \cup {x}) \in 0 .. Cardinality(A) + 1
<1>1. IsFiniteSet(1 .. n) /\ Cardinality(1 .. n) = n
  BY FS_Interval
<1>2. IsFiniteSet(A) /\ Cardinality(A) \in Nat /\ Cardinality(A) <= n
  BY <1>1, FS_Subset, FS_CardinalityType
<1>3. ASSUME NEW B \in SUBSET A PROVE Cardinality(B) \in 0 .. Cardinality(A)
  <2>1. IsFiniteSet(B) /\ Cardinality(B) <= Cardinality(A)
    BY <1>2, FS_Subset
  <2>2. Cardinality(B) \in Nat
    BY <2>1, FS_CardinalityType
  <2>3. QED
    BY <1>2, <2>1, <2>2
<1>4. ASSUME NEW x PROVE Cardinality(A \cup {x}) \in 0 .. Cardinality(A) + 1
  <2>1. Cardinality(A \cup {x}) = IF x \in A THEN Cardinality(A) ELSE Cardinality(A) + 1
    BY <1>2, FS_AddElement
  <2>2. QED
    BY <1>2, <2>1
<1>5. Cardinality(A) \in 0 .. n
  BY <1>2
<1>6. QED
  BY <1>1, <1>2, <1>3, <1>4, <1>5

\* As many keys have been looked at as are no longer to be looked at.
LEMMA CountRange ==
  ASSUME IInv, Scanned, NEW c \in Conns, pc[c] = "scanning"
  PROVE  /\ Len(req[c].keys) \in Nat /\ Len(scan.left) \in Nat
         /\ Len(req[c].keys) - Len(scan.left) \in Nat
         /\ Cardinality(Looked(c)) = Len(req[c].keys) - Len(scan.left)
         /\ Cardinality(LookedPresent(c)) \in Nat
<1>1. /\ Len(req[c].keys) \in Nat /\ Len(scan.left) \in Nat
      /\ Len(req[c].keys) - Len(scan.left) \in Nat
  BY LenProperties DEF Scanned, IInv, TypeOK
<1>2. PICK n \in Nat : n = Len(req[c].keys) - Len(scan.left)
  BY <1>1
<1>3. Looked(c) = 1 .. n /\ LookedPresent(c) \in SUBSET (1 .. n)
  BY <1>2 DEF Looked, LookedPresent
<1>4. Cardinality(Looked(c)) = n /\ Cardinality(LookedPresent(c)) \in 0 .. n
  BY <1>3, CountsBelow
<1>5. QED
  BY <1>1, <1>2, <1>4

\* Nobody else moves an EXISTS on, adds to the map, or changes its request.
LEMMA ScanLeftAlone ==
  ASSUME IInv, [Next]_vars, NEW c \in Conns, pc[c] = "scanning", ~Connection(c)
  PROVE  scan' = scan /\ req'[c] = req[c] /\ DOMAIN db' \subseteq DOMAIN db
<1>1. lock = c /\ lock # None /\ req \in [Conns -> DbRequest \cup {None}]
  BY TasksAssumption DEF IInv, MutexDiscipline, TypeOK
<1>2. ASSUME NEW d \in Conns, Connection(d)
      PROVE  scan' = scan /\ req'[c] = req[c] /\ db' = db
  <2>1. d # c /\ pc[d] # "scanning" /\ ~CanLock(d)
    BY <1>1, <1>2 DEF IInv, MutexDiscipline, CanLock
  <2>2. db' = db
    BY <1>1, <1>2, <2>1, ConnectionChanges DEF Changes
  <2>3. scan' = scan /\ (req' = req \/ \E r : req' = [req EXCEPT ![d] = r])
    BY <1>1, <1>2, <2>1 DEF Connection, Locks, Proceed, Accept, Close, ReceiveMalformed,
       ReceiveInvalid, ReceiveLocal, ReceiveRequest, CanReceive, WriteReply, Answer, Run, Set,
       GetLive, GetMissing, Del, ArithmeticNew, ArithmeticUpdate, ArithmeticFails,
       ArithmeticPanics, PushNew, PushMore, PushFails, ExistsBegin, ExistsLook, ExistsEnd,
       LockPoisoned
  <2>4. QED
    BY <1>1, <2>1, <2>2, <2>3
<1>3. CASE ExpiryTask \/ Tick
  <2>1. DOMAIN db' \subseteq DOMAIN db /\ scan' = scan
    BY <1>3, OtherChanges DEF SwapRemove, Restrict
  <2>2. req' = req
    BY <1>3 DEF ExpiryTask, ExpiryIdle, ExpiryBegin, ExpiryLook, ExpiryEnd, ExpiryWake,
                ExpiryPanics, Tick
  <2>3. QED
    BY <2>1, <2>2
<1>4. QED
  BY <1>2, <1>3 DEF Next, vars

\* A connection that is in the middle of EXISTS and stays there looks at a key.
LEMMA OwnScanStep ==
  ASSUME IInv, NEW c \in Conns, Connection(c), pc'[c] = "scanning"
  PROVE  \/ pc[c] = "scanning" /\ ExistsLook(c)
         \/ pc[c] = "waiting" /\ ExistsBegin(c)
<1>1. pc \in [Conns -> Status]
  BY DEF IInv, TypeOK
<1>2. QED
  BY <1>1 DEF Connection, Locks, Proceed, Accept, Close, ReceiveMalformed, ReceiveInvalid,
     ReceiveLocal, ReceiveRequest, CanReceive, WriteReply, Answer, Run, CanLock, Set, GetLive,
     GetMissing, Del, ArithmeticNew, ArithmeticUpdate, ArithmeticFails, ArithmeticPanics,
     PushNew, PushMore, PushFails, ExistsBegin, ExistsLook, ExistsEnd, LockPoisoned

\* One more key: it is counted, or no longer in the map.
LEMMA OneMoreLooked ==
  ASSUME NEW n \in Nat, NEW keys, NEW D, NEW E, NEW count, NEW next,
         count \in Cardinality(FoundIn(keys, n, D)) .. n,
         \/ next = count + 1 /\ E = D
         \/ next = count /\ E = D \ {keys[n + 1]}
  PROVE  next \in Cardinality(FoundIn(keys, n + 1, E)) .. n + 1
<1> DEFINE P == FoundIn(keys, n, D)
           Q == FoundIn(keys, n + 1, E)
<1>1. P \in SUBSET (1 .. n) /\ Q \in SUBSET (1 .. n + 1) /\ n + 1 \in Nat
  BY DEF FoundIn
<1>2. Cardinality(P) \in Nat /\ count \in Nat /\ Cardinality(P) <= count /\ count <= n
  <2>1. Cardinality(P) \in 0 .. n
    BY <1>1, CountsBelow
  <2>2. QED
    BY <2>1
<1>3. Cardinality(Q) \in 0 .. n + 1
  BY <1>1, CountsBelow
<1>4. CASE next = count + 1 /\ E = D
  <2>1. P \cup {n + 1} \in SUBSET (1 .. n + 1) /\ Q \in SUBSET (P \cup {n + 1})
    BY <1>4 DEF FoundIn
  <2>2. Cardinality(P \cup {n + 1}) \in 0 .. Cardinality(P) + 1
    BY <1>1, CountsBelow
  <2>3. Cardinality(Q) \in 0 .. Cardinality(P \cup {n + 1})
    BY <1>1, <2>1, CountsBelow
  <2> HIDE DEF P, Q
  <2>4. Cardinality(Q) <= next /\ next <= n + 1 /\ next \in Nat
    BY <1>2, <1>3, <1>4, <2>2, <2>3
  <2>5. QED
    BY <1>3, <2>4 DEF Q
<1>5. CASE next = count /\ E = D \ {keys[n + 1]}
  <2>1. Q \in SUBSET P
    BY <1>5 DEF FoundIn
  <2>2. Cardinality(Q) \in 0 .. Cardinality(P)
    BY <1>1, <2>1, CountsBelow
  <2> HIDE DEF P, Q
  <2>3. Cardinality(Q) <= next /\ next <= n + 1 /\ next \in Nat
    BY <1>2, <1>3, <1>5, <2>2
  <2>4. QED
    BY <1>3, <2>3 DEF Q
<1>6. QED
  BY <1>4, <1>5

\* Each look leaves the count between the keys that are in the map and those looked at.
LEMMA LookCounts ==
  ASSUME ScanInv, NEW c \in Conns, pc[c] = "scanning", ExistsLook(c)
  PROVE  /\ req'[c].keys \in Seq(Texts) /\ Len(scan'.left) <= Len(req'[c].keys)
         /\ \A i \in 1 .. Len(scan'.left) :
              scan'.left[i] = req'[c].keys[Len(req'[c].keys) - Len(scan'.left) + i]
         /\ scan'.count \in Cardinality(LookedPresent(c)') .. Cardinality(Looked(c)')
<1>1. PICK keys \in Seq(Texts), left \in Seq(Texts) : keys = req[c].keys /\ left = scan.left
  BY DEF ScanInv, IInv, TypeOK, Scanned
<1>2. PICK n \in Nat : n = Len(keys) - Len(left) /\ Len(left) = Len(keys) - n
  <2>1. Len(keys) - Len(left) \in Nat /\ Len(keys) \in Nat /\ Len(left) \in Nat
    BY <1>1, CountRange DEF ScanInv
  <2>2. QED
    BY <2>1
<1>3. /\ left # <<>> /\ req' = req /\ scan' = [left |-> Tail(left), count |-> scan'.count]
      /\ \/ scan'.count = scan.count + 1 /\ DOMAIN db' = DOMAIN db
         \/ scan'.count = scan.count /\ DOMAIN db' = DOMAIN db \ {Head(left)}
  <2>1. scan \in [left: Seq(Texts), count: Nat]
    BY DEF ScanInv, IInv, TypeOK
  <2>2. DOMAIN SwapRemove(db, {Head(left)}) = DOMAIN db \ {Head(left)}
    BY DEF SwapRemove, Restrict
  <2>3. QED
    BY <1>1, <2>1, <2>2 DEF ExistsLook
<1>4. \A i \in 1 .. Len(left) : left[i] = keys[n + i]
  BY <1>1, <1>2 DEF ScanInv, Scanned
<1>5. Head(left) = keys[n + 1]
  BY <1>2, <1>3, <1>4
<1>6. /\ Len(Tail(left)) = Len(left) - 1 /\ Len(keys) - Len(Tail(left)) = n + 1
      /\ Len(left) \in Nat /\ Len(keys) \in Nat /\ Len(Tail(left)) <= Len(keys)
  BY <1>2, <1>3
<1>7. ASSUME NEW i \in 1 .. Len(Tail(left)) PROVE Tail(left)[i] = keys[n + 1 + i]
  <2>1. i + 1 \in 1 .. Len(left) /\ n + (i + 1) = n + 1 + i /\ i \in 1 .. Len(left) - 1
    BY <1>6
  <2>2. Tail(left)[i] = left[i + 1]
    BY <1>3, <2>1
  <2>3. QED
    BY <1>4, <2>1, <2>2
<1>8. req'[c].keys = keys /\ scan'.left = Tail(left)
  BY <1>1, <1>3
<1>9. Looked(c) = 1 .. n /\ LookedPresent(c) = FoundIn(keys, n, DOMAIN db)
  BY <1>1, <1>2 DEF Looked, LookedPresent, FoundIn
<1>10. Looked(c)' = 1 .. n + 1
  BY <1>6, <1>8 DEF Looked
<1>11. LookedPresent(c)' = FoundIn(keys, n + 1, DOMAIN db')
  BY <1>8, <1>10 DEF LookedPresent, FoundIn
<1>12. scan'.count \in Cardinality(LookedPresent(c)') .. Cardinality(Looked(c)')
  <2>1. Cardinality(1 .. n) = n /\ Cardinality(1 .. n + 1) = n + 1
    BY CountsBelow
  <2>2. scan.count \in Cardinality(FoundIn(keys, n, DOMAIN db)) .. n
    BY <1>9, <2>1 DEF ScanInv, ScanCountsWhatStays, Looked, LookedPresent
  <2>3. scan'.count \in Cardinality(FoundIn(keys, n + 1, DOMAIN db')) .. n + 1
    BY <1>3, <1>5, <2>2, OneMoreLooked
  <2>4. QED
    BY <1>10, <1>11, <2>1, <2>3
<1>13. QED
  BY <1>6, <1>7, <1>8, <1>12

\* Each step keeps the count of an EXISTS between those that stay and those looked at.
LEMMA ScanStep ==
  ASSUME ScanInv, [Next]_vars
  PROVE  Scanned' /\ ScanCountsWhatStays'
<1> SUFFICES ASSUME NEW c \in Conns, pc'[c] = "scanning"
             PROVE  /\ req'[c].keys \in Seq(Texts) /\ Len(scan'.left) <= Len(req'[c].keys)
                    /\ \A i \in 1 .. Len(scan'.left) :
                         scan'.left[i] = req'[c].keys[Len(req'[c].keys) - Len(scan'.left) + i]
                    /\ scan'.count \in Cardinality(LookedPresent(c)') .. Cardinality(Looked(c)')
  BY DEF Scanned, ScanCountsWhatStays, Looked, LookedPresent
<1>1. CASE pc[c] = "scanning" /\ ExistsLook(c)
  BY <1>1, LookCounts
<1>2. CASE pc[c] = "waiting" /\ ExistsBegin(c)
  <2>1. req[c] \in DbRequest /\ req[c].cmd = "exists"
    BY <1>2 DEF ScanInv, IInv, MutexDiscipline, ExistsBegin
  <2>2. PICK keys \in Seq(Texts) : keys = req[c].keys
    BY <2>1 DEF DbRequest, MultiKeyCommands, ArithmeticCommands, PushCommands
  <2>3. scan' = [left |-> keys, count |-> 0] /\ req'[c].keys = keys
    BY <1>2, <2>2 DEF ExistsBegin
  <2>4. Len(keys) \in Nat /\ Len(keys) - Len(keys) = 0
    OBVIOUS
  <2>5. Looked(c)' = {} /\ LookedPresent(c)' = {}
    BY <2>3, <2>4 DEF Looked, LookedPresent
  <2>6. scan'.count \in Cardinality(LookedPresent(c)') .. Cardinality(Looked(c)')
    BY <2>3, <2>5, FS_EmptySet
  <2>7. \A i \in 1 .. Len(keys) : keys[i] = keys[Len(keys) - Len(keys) + i]
    BY <2>4
  <2>8. QED
    BY <2>3, <2>4, <2>6, <2>7
<1>3. CASE pc[c] = "scanning" /\ ~Connection(c)
  <2>1. scan' = scan /\ req'[c] = req[c] /\ DOMAIN db' \subseteq DOMAIN db
    BY <1>3, ScanLeftAlone DEF ScanInv
  <2>2. Looked(c)' = Looked(c) /\ LookedPresent(c)' \in SUBSET LookedPresent(c)
    BY <2>1 DEF Looked, LookedPresent
  <2>3. PICK n \in Nat : LookedPresent(c) \in SUBSET (1 .. n)
    BY <1>3, CountRange DEF ScanInv, Looked, LookedPresent
  <2>4. Cardinality(LookedPresent(c)') \in 0 .. Cardinality(LookedPresent(c))
    BY <2>2, <2>3, CountsBelow
  <2>5. scan.count \in Cardinality(LookedPresent(c)) .. Cardinality(Looked(c))
    BY <1>3 DEF ScanInv, ScanCountsWhatStays, Looked, LookedPresent
  <2>6. /\ Cardinality(Looked(c)) \in Nat /\ Cardinality(LookedPresent(c)) \in Nat
    BY <1>3, CountRange DEF ScanInv
  <2>7. scan'.count \in Cardinality(LookedPresent(c)') .. Cardinality(Looked(c)')
    BY <2>1, <2>2, <2>4, <2>5, <2>6
  <2>8. QED
    BY <1>3, <2>1, <2>7 DEF ScanInv, Scanned
<1>4. CASE Connection(c)
  BY <1>1, <1>2, <1>4, OwnScanStep DEF ScanInv
<1>5. CASE pc[c] # "scanning" /\ ~Connection(c)
  BY <1>5, WhoMoves DEF ScanInv, vars
<1>6. QED
  BY <1>3, <1>4, <1>5

\* The reply of EXISTS is not short of a key that was in the map all the time it looked
\* (request.rs:59-73), though the clock moves between two looks.
THEOREM ExistsIsNotShort == HSpec => []ScanCountsWhatStays
<1>1. HInit => ScanInv
  <2>1. HInit => IInv
    BY InitInvariant DEF HInit
  <2>2. HInit => \A c \in Conns : pc[c] # "scanning"
    BY DEF HInit, Init
  <2>3. QED
    BY <2>1, <2>2 DEF ScanInv, Scanned, ScanCountsWhatStays
<1>2. ScanInv /\ [HNext]_hvars => ScanInv'
  <2>1. [HNext]_hvars => [Next]_vars
    BY DEF HNext, hvars
  <2>2. IInv /\ [Next]_vars => IInv'
    BY InvariantStep
  <2>3. QED
    BY <2>1, <2>2, ScanStep DEF ScanInv
<1>3. ScanInv => ScanCountsWhatStays
  BY DEF ScanInv
<1>4. QED
  BY <1>1, <1>2, <1>3, PTL DEF HSpec
=============================================================================

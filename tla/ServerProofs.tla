---------------------------- MODULE ServerProofs ----------------------------
(***************************************************************************)
(* TypeOK, MutexDiscipline and WellFormedStore are invariants of Server,   *)
(* and PoisonedServesNobody holds of its steps, for all the values of the  *)
(* constants.  First come the lemmas about the operators the server is     *)
(* built from: the map, the parsing of requests, and what the commands     *)
(* compute.                                                                *)
(***************************************************************************)
EXTENDS Server, FiniteSetTheorems, SequenceTheorems, TLAPS

-----------------------------------------------------------------------------
(* The map. *)

\* Insert gives one key a new object and leaves the other keys alone.
LEMMA InsertMap ==
  ASSUME NEW m, IsMap(m), NEW k \in Texts, NEW o \in Object
  PROVE  /\ IsMap(Insert(m, k, o))
         /\ DOMAIN Insert(m, k, o) = DOMAIN m \cup {k}
         /\ Insert(m, k, o)[k] = o
         /\ \A x \in DOMAIN m : x # k => Insert(m, k, o)[x] = m[x]
<1>1. IsFiniteSet(DOMAIN m \cup {k})
  BY FS_AddElement DEF IsMap
<1>2. QED
  BY <1>1 DEF IsMap, Insert

\* SwapRemove keeps the objects of the keys it does not name.
LEMMA SwapRemoveMap ==
  ASSUME NEW m, IsMap(m), NEW ks
  PROVE  /\ IsMap(SwapRemove(m, ks))
         /\ DOMAIN SwapRemove(m, ks) = DOMAIN m \ ks
         /\ \A x \in DOMAIN m \ ks : SwapRemove(m, ks)[x] = m[x]
<1>1. IsFiniteSet(DOMAIN m \ ks)
  BY FS_Difference DEF IsMap
<1>2. QED
  BY <1>1 DEF IsMap, SwapRemove, Restrict

\* The map the server starts with.
LEMMA EmptyIsMap == IsMap(EmptyMap)
BY FS_EmptySet DEF IsMap, EmptyMap

-----------------------------------------------------------------------------
(* Results: what a parser returns is Ok of a member of S, or Err of an error. *)

IsResult(r, S) == (\E v \in S : r = Ok(v)) \/ (\E e \in ClientError : r = Err(e))

\* The two sides of a result.
LEMMA ResultSides ==
  ASSUME NEW S, NEW r, IsResult(r, S)
  PROVE  /\ r.ok => r.val \in S
         /\ ~r.ok => r.val \in ClientError
<1>1. \A v : Ok(v).ok /\ Ok(v).val = v
  BY DEF Ok
<1>2. \A e : ~Err(e).ok /\ Err(e).val = e
  BY DEF Err
<1>3. QED
  BY <1>1, <1>2 DEF IsResult

\* The errors the parsers construct are client errors.
LEMMA ErrorTypes ==
  /\ UnknownCommand("") \in ClientError
  /\ \A t \in Texts : UnknownCommand(Lower[t]) \in ClientError
  /\ \A cmd \in Commands : WrongNumberOfArguments(cmd) \in ClientError
  /\ SyntaxError \in ClientError /\ IntegerError \in ClientError
  /\ OverflowError \in ClientError /\ WrongType \in ClientError
BY DEF UnknownCommand, WrongNumberOfArguments, SyntaxError, IntegerError, OverflowError,
       WrongType, ClientError, ErrorKinds, Commands

-----------------------------------------------------------------------------
(* Requests. *)

\* What a parser may hand over to the store.
GoodRequest == {r \in DbRequest : WellFormedRequest(r)}

\* What SET stores for a text is a value, and no string an i64 could parse.
LEMMA ParsedValueType ==
  ASSUME NEW text \in Texts
  PROVE  ParsedValue(text) \in Value /\ WellFormedValue(ParsedValue(text))
BY ParseAssumption
DEF ParsedValue, Value, IntegerValue, StringValue, WellFormedValue

\* A deadline the server accepts is an instant SystemTime can represent.
LEMMA ExpirationType ==
  ASSUME NEW option \in Texts, NEW amount \in Texts, NEW t \in Instants
  PROVE  IsResult(Expiration(option, amount, t), Instants)
<1> DEFINE base == IF Lower[option] \in {"ex", "px"} THEN t ELSE 0
           unit == IF Lower[option] \in {"ex", "exat"} THEN TicksPerSecond ELSE 1
<1>1. base \in Nat /\ unit \in Nat
  BY InstantAssumption, SecondAssumption DEF Instants
<1>2. \A n \in Nat : base + unit * n \in Nat
  BY <1>1
<1>3. U64Of[amount] # None => base + unit * U64Of[amount] \in Nat
  BY <1>2, ParseAssumption
<1> DEFINE desired == base + unit * U64Of[amount]
<1>4. Expiration(option, amount, t) =
        IF U64Of[amount] = None THEN Err(IntegerError)
        ELSE IF Lower[option] \notin {"ex", "px", "exat", "pxat"} THEN Err(SyntaxError)
        ELSE IF desired > MaxInstant THEN Err(IntegerError)
        ELSE Ok(desired)
  BY DEF Expiration
<1>5. U64Of[amount] # None => desired \in Nat
  BY <1>3
<1> HIDE DEF desired
<1>6. \/ Expiration(option, amount, t) \in {Err(IntegerError), Err(SyntaxError)}
      \/ desired \in Instants /\ Expiration(option, amount, t) = Ok(desired)
  BY <1>4, <1>5, InstantAssumption DEF Instants
<1>7. QED
  BY <1>6, ErrorTypes DEF IsResult

\* SET parses to a request that carries a well-formed value, or to an error.
LEMMA SetParseType ==
  ASSUME NEW args \in Seq(Texts), NEW t \in Instants
  PROVE  IsResult(SetParse(args, t), GoodRequest)
<1> DEFINE n == Len(args)
           expiration == IF n = 4 THEN Expiration(args[3], args[4], t) ELSE Ok(None)
           request(e) == [cmd |-> "set", key |-> args[1], value |-> ParsedValue(args[2]),
                          expiration |-> e]
<1>1. n \in Nat /\ \A i \in 1 .. n : args[i] \in Texts
  BY ElementOfSeq, LenProperties
<1>2. SetParse(args, t) =
        CASE n < 2 -> Err(WrongNumberOfArguments("set"))
          [] n = 3 \/ n > 4 -> Err(SyntaxError)
          [] OTHER -> IF expiration.ok THEN Ok(request(expiration.val)) ELSE expiration
  BY DEF SetParse
<1> HIDE DEF n, request
<1>3. CASE n < 2
  <2>1. SetParse(args, t) = Err(WrongNumberOfArguments("set"))
    BY <1>1, <1>2, <1>3
  <2>2. QED
    BY <2>1, ErrorTypes DEF IsResult, Commands
<1>4. CASE n = 3 \/ n > 4
  <2>1. SetParse(args, t) = Err(SyntaxError)
    BY <1>1, <1>2, <1>4
  <2>2. QED
    BY <2>1, ErrorTypes DEF IsResult
<1>5. CASE n = 2 \/ n = 4
  <2>1. args[1] \in Texts /\ args[2] \in Texts
    BY <1>1, <1>5
  <2>2. IsResult(expiration, Instants \cup {None})
    <3>1. CASE n = 2
      BY <3>1 DEF IsResult
    <3>2. CASE n = 4
      BY <1>1, <3>2, ExpirationType DEF IsResult
    <3>3. QED
      BY <1>5, <3>1, <3>2
  <2>3. ASSUME NEW e \in Instants \cup {None}
        PROVE  request(e) \in GoodRequest
    <3>1. request(e) \in DbRequest
      BY <2>1, ParsedValueType DEF DbRequest, request
    <3>2. WellFormedRequest(request(e))
      BY <2>1, ParsedValueType DEF WellFormedRequest, PushCommands, request
    <3>3. QED
      BY <3>1, <3>2 DEF GoodRequest
  <2> HIDE DEF expiration
  <2>4. SetParse(args, t) = IF expiration.ok THEN Ok(request(expiration.val)) ELSE expiration
    BY <1>1, <1>2, <1>5
  <2>5. ASSUME NEW e \in Instants \cup {None}, expiration = Ok(e)
        PROVE  SetParse(args, t) = Ok(request(e))
    BY <2>4, <2>5 DEF Ok
  <2>6. ASSUME NEW e \in ClientError, expiration = Err(e)
        PROVE  SetParse(args, t) = Err(e)
    BY <2>4, <2>6 DEF Err
  <2>7. QED
    BY <2>2, <2>3, <2>5, <2>6 DEF IsResult
<1>6. QED
  BY <1>1, <1>3, <1>4, <1>5

\* INCRBY and DECRBY parse to a request with an amount, or to an error...
LEMMA IntegerParseType ==
  ASSUME NEW cmd \in {"incrby", "decrby"}, NEW args \in Seq(Texts)
  PROVE  IsResult(IntegerParse(cmd, args), GoodRequest)
<1>1. Len(args) \in Nat /\ \A i \in 1 .. Len(args) : args[i] \in Texts
  BY ElementOfSeq, LenProperties
<1>2. CASE Len(args) # 2
  <2>1. IntegerParse(cmd, args) = Err(WrongNumberOfArguments("incrby"))
    BY <1>2 DEF IntegerParse
  <2>2. QED
    BY <2>1, ErrorTypes DEF IsResult, Commands
<1>3. CASE Len(args) = 2 /\ I64Of[args[2]] = None
  <2>1. IntegerParse(cmd, args) = Err(IntegerError)
    BY <1>3 DEF IntegerParse
  <2>2. QED
    BY <2>1, ErrorTypes DEF IsResult
<1>4. CASE Len(args) = 2 /\ I64Of[args[2]] # None
  <2> DEFINE request == [cmd |-> cmd, key |-> args[1], by |-> I64Of[args[2]]]
  <2>1. args[1] \in Texts /\ I64Of[args[2]] \in Int64
    BY <1>1, <1>4, ParseAssumption
  <2>2. request \in DbRequest
    BY <2>1 DEF DbRequest, ArithmeticCommands
  <2>3. request \in GoodRequest
    BY <2>2 DEF GoodRequest, WellFormedRequest, PushCommands
  <2>4. IntegerParse(cmd, args) = Ok(request)
    BY <1>4 DEF IntegerParse
  <2>5. QED
    BY <2>3, <2>4 DEF IsResult
<1>5. QED
  BY <1>2, <1>3, <1>4

\* ... LPUSH and RPUSH to one with the elements, of which there is at least one.
LEMMA ListParseType ==
  ASSUME NEW cmd \in PushCommands, NEW args \in Seq(Texts)
  PROVE  IsResult(ListParse(cmd, args), GoodRequest)
<1>1. Len(args) \in Nat /\ \A i \in 1 .. Len(args) : args[i] \in Texts
  BY ElementOfSeq, LenProperties
<1>2. CASE Len(args) < 2
  BY <1>2, ErrorTypes DEF ListParse, IsResult, Commands
<1>3. CASE Len(args) >= 2
  <2> DEFINE request == [cmd |-> cmd, key |-> args[1], values |-> Tail(args)]
  <2>1. args # <<>>
    BY <1>3
  <2>2. args[1] \in Texts /\ Tail(args) \in Seq(Texts) /\ Tail(args) # <<>>
    <3>1. Tail(args) \in Seq(Texts) /\ Len(Tail(args)) = Len(args) - 1
      BY <2>1, HeadTailProperties
    <3>2. Len(Tail(args)) >= 1
      BY <1>1, <1>3, <3>1
    <3>3. Tail(args) # <<>>
      <4>1. \A s : s = <<>> => ~(Len(s) >= 1)
        BY EmptySeq
      <4>2. QED
        BY <3>2, <4>1
    <3>4. args[1] \in Texts
      BY <1>1, <1>3
    <3>5. QED
      BY <3>1, <3>3, <3>4
  <2>3. request \in DbRequest
    BY <2>2 DEF DbRequest
  <2>4. request \in GoodRequest
    BY <2>2, <2>3 DEF GoodRequest, WellFormedRequest, PushCommands
  <2>5. ListParse(cmd, args) = Ok(request)
    BY <1>1, <1>3 DEF ListParse
  <2>6. QED
    BY <2>4, <2>5 DEF IsResult
<1>4. QED
  BY <1>1, <1>2, <1>3

\* A message is parsed to PING, ECHO or a good request, or refused with a client error.
LEMMA TryFromType ==
  ASSUME NEW params \in Seq(Texts), NEW t \in Instants
  PROVE  IsResult(TryFrom(params, t), LocalRequest \cup GoodRequest)
<1> DEFINE n == Len(params)
           cmd == Lower[params[1]]
           args == Tail(params)
           result == Dispatch(cmd, args, t)
<1>1. CASE params = <<>>
  <2>1. TryFrom(params, t) = Err(UnknownCommand(""))
    BY <1>1 DEF TryFrom
  <2>2. QED
    BY <2>1, ErrorTypes DEF IsResult
<1>2. CASE params # <<>>
  <2>1. /\ n \in Nat /\ n >= 1
        /\ params[1] \in Texts
        /\ args \in Seq(Texts) /\ Len(args) = n - 1
        /\ \A i \in 1 .. Len(args) : args[i] \in Texts
    <3>1. n \in Nat /\ n # 0
      BY <1>2, EmptySeq
    <3>2. args \in Seq(Texts) /\ Len(args) = n - 1
      BY <1>2, HeadTailProperties
    <3>3. params[1] \in Texts /\ \A i \in 1 .. Len(args) : args[i] \in Texts
      BY <3>1, <3>2, ElementOfSeq
    <3>4. QED
      BY <3>1, <3>2, <3>3
  <2>2. TryFrom(params, t) =
          IF cmd \notin Commands THEN Err(UnknownCommand(cmd))
          ELSE IF ~Arity(cmd, n) THEN Err(WrongNumberOfArguments(cmd))
          ELSE result
    BY <1>2 DEF TryFrom
  <2> HIDE DEF n, args, result
  <2>3. CASE cmd \notin Commands
    BY <2>1, <2>2, <2>3, ErrorTypes DEF IsResult
  <2>4. CASE cmd \in Commands /\ ~Arity(cmd, n)
    BY <2>2, <2>4, ErrorTypes DEF IsResult
  <2>5. CASE cmd \in Commands /\ Arity(cmd, n)
    <3> HIDE DEF cmd
    <3>1. CASE cmd = "ping"
      <4>1. args # <<>> => args[1] \in Texts
        BY <2>1, EmptySeq
      <4>2. [cmd |-> cmd, text |-> IF args = <<>> THEN None ELSE args[1]] \in LocalRequest
        BY <3>1, <4>1 DEF LocalRequest
      <4>3. QED
        BY <2>2, <2>5, <3>1, <4>2 DEF result, Dispatch, MultiKeyCommands, PushCommands, IsResult
    <3>2. CASE cmd \in {"echo", "get", "incr", "decr"}
      <4>1. args[1] \in Texts
        <5>1. n = 2
          BY <2>5, <3>2 DEF Arity
        <5>2. 1 \in 1 .. Len(args)
          BY <2>1, <5>1
        <5>3. QED
          BY <2>1, <5>2
      <4>2. CASE cmd = "echo"
        <5>1. [cmd |-> cmd, text |-> args[1]] \in LocalRequest
          BY <4>1, <4>2 DEF LocalRequest
        <5>2. QED
          BY <2>2, <2>5, <4>2, <5>1 DEF result, Dispatch, MultiKeyCommands, PushCommands, IsResult
      <4>3. CASE cmd = "get"
        <5>1. [cmd |-> cmd, key |-> args[1]] \in GoodRequest
          BY <4>1, <4>3 DEF GoodRequest, DbRequest, WellFormedRequest, PushCommands
        <5>2. QED
          BY <2>2, <2>5, <4>3, <5>1 DEF result, Dispatch, MultiKeyCommands, PushCommands, IsResult
      <4>4. CASE cmd \in {"incr", "decr"}
        <5>1. [cmd |-> cmd, key |-> args[1], by |-> 1] \in GoodRequest
          BY <4>1, <4>4, WidthAssumption
          DEF GoodRequest, DbRequest, ArithmeticCommands, Int64, WellFormedRequest, PushCommands
        <5>2. result = Ok([cmd |-> cmd, key |-> args[1], by |-> 1])
          BY <4>4 DEF result, Dispatch, MultiKeyCommands, PushCommands
        <5>3. QED
          BY <2>2, <2>5, <5>1, <5>2 DEF IsResult
      <4>5. QED
        BY <3>2, <4>2, <4>3, <4>4
    <3>3. CASE cmd = "set"
      BY <2>1, <2>2, <2>5, <3>3, SetParseType DEF result, Dispatch, MultiKeyCommands, PushCommands, IsResult
    <3>4. CASE cmd \in MultiKeyCommands
      <4>1. [cmd |-> cmd, keys |-> args] \in GoodRequest
        BY <2>1, <3>4
        DEF GoodRequest, DbRequest, MultiKeyCommands, WellFormedRequest, PushCommands
      <4>2. result = Ok([cmd |-> cmd, keys |-> args])
        BY <3>4 DEF result, Dispatch, MultiKeyCommands, PushCommands
      <4>3. QED
        BY <2>2, <2>5, <4>1, <4>2 DEF IsResult
    <3>5. CASE cmd \in {"incrby", "decrby"}
      <4>1. result = IntegerParse(cmd, args)
        BY <3>5 DEF result, Dispatch, MultiKeyCommands, PushCommands
      <4>2. QED
        BY <2>1, <2>2, <2>5, <3>5, <4>1, IntegerParseType DEF IsResult
    <3>6. CASE cmd \in PushCommands
      <4>1. result = ListParse(cmd, args)
        BY <3>6 DEF result, Dispatch, MultiKeyCommands, PushCommands
      <4>2. QED
        BY <2>1, <2>2, <2>5, <3>6, <4>1, ListParseType DEF IsResult
    <3>7. QED
      BY <2>5, <3>1, <3>2, <3>3, <3>4, <3>5, <3>6 DEF Commands, MultiKeyCommands, PushCommands
  <2>6. QED
    BY <2>3, <2>4, <2>5
<1>3. QED
  BY <1>1, <1>2

-----------------------------------------------------------------------------
(* What the commands compute. *)

\* A checked result is an i64; an amount's negative, wrapped, too.
LEMMA ArithmeticType ==
  ASSUME NEW r \in DbRequest, r.cmd \in ArithmeticCommands
  PROVE  /\ r.key \in Texts /\ r.by \in Int64
         /\ InitialValue(r) \in Int64
         /\ \A i \in Int64 : Operation(r, i).ok => Operation(r, i).val \in Int64
<1>1. r.key \in Texts /\ r.by \in Int64
  BY DEF DbRequest, ArithmeticCommands, MultiKeyCommands, PushCommands
<1>2. InitialValue(r) \in Int64
  BY <1>1, WidthAssumption DEF InitialValue, WrappingNeg, Int64
<1>3. \A n : Checked(n).ok => Checked(n).val \in Int64
  BY DEF Checked, Ok, Err
<1>4. QED
  BY <1>1, <1>2, <1>3 DEF Operation

\* A push leaves a list, and never an empty one.
LEMMA PushedType ==
  ASSUME NEW r \in DbRequest, r.cmd \in PushCommands, WellFormedRequest(r),
         NEW l \in Seq(Texts)
  PROVE  /\ r.key \in Texts
         /\ Pushed(r, l) \in Seq(Texts)
         /\ Pushed(r, l) # <<>>
         /\ Len(Pushed(r, l)) \in Nat
<1>1. r.key \in Texts /\ r.values \in Seq(Texts)
  BY DEF DbRequest, ArithmeticCommands, MultiKeyCommands, PushCommands
<1>2. r.values # <<>>
  BY DEF WellFormedRequest
<1>3. Reverse(r.values) \in Seq(Texts) /\ Len(Reverse(r.values)) = Len(r.values)
  <2>1. \A i \in 1 .. Len(r.values) : r.values[(Len(r.values) - i) + 1] \in Texts
    BY <1>1, ElementOfSeq, LenProperties
  <2>2. Reverse(r.values) \in [1 .. Len(r.values) -> Texts] /\ Len(r.values) \in Nat
    BY <1>1, <2>1, LenProperties DEF Reverse
  <2>3. QED
    BY <2>2, IsASeq, LenProperties DEF Reverse
<1>4. Len(r.values) \in Nat /\ Len(r.values) >= 1
  BY <1>1, <1>2, EmptySeq
<1>5. ASSUME NEW s1 \in Seq(Texts), NEW s2 \in Seq(Texts), Len(s1) >= 1 \/ Len(s2) >= 1
      PROVE  s1 \o s2 \in Seq(Texts) /\ Len(s1 \o s2) \in Nat /\ Len(s1 \o s2) >= 1
  <2>1. Len(s1) \in Nat /\ Len(s2) \in Nat
    BY LenProperties
  <2>2. QED
    BY <1>5, <2>1, ConcatProperties
<1>6. Len(Reverse(r.values)) >= 1
  BY <1>3, <1>4
<1>7. Pushed(r, l) \in Seq(Texts) /\ Len(Pushed(r, l)) \in Nat /\ Len(Pushed(r, l)) >= 1
  <2>1. CASE r.cmd = "lpush"
    BY <1>3, <1>5, <1>6, <2>1 DEF Pushed
  <2>2. CASE r.cmd # "lpush"
    BY <1>1, <1>4, <1>5, <2>2 DEF Pushed
  <2>3. QED
    BY <2>1, <2>2
<1>8. QED
  BY <1>1, <1>7

-----------------------------------------------------------------------------
(* The invariant. *)

(***************************************************************************)
(* The inductive invariant.  None of the three parts is inductive alone: a *)
(* step is well typed because the connection that takes it has a request,  *)
(* and a good one, which its place in the loop tells.                      *)
(***************************************************************************)
IInv == TypeOK /\ MutexDiscipline /\ WellFormedStore

\* A connection that waits has a good request.
LEMMA PendingRequest ==
  ASSUME IInv, NEW c \in Conns, pc[c] = "waiting"
  PROVE  req[c] \in DbRequest /\ WellFormedRequest(req[c])
BY DEF IInv, MutexDiscipline, WellFormedStore

\* The texts of a sequence are finitely many.
LEMMA TextsFinite ==
  ASSUME NEW s \in Seq(Texts)
  PROVE  IsFiniteSet(ToSet(s))
<1>1. Len(s) \in Nat /\ s \in [1 .. Len(s) -> ToSet(s)]
  BY LenProperties DEF ToSet
<1>2. s \in Surjection(1 .. Len(s), ToSet(s))
  BY <1>1 DEF Surjection, ToSet
<1>3. IsFiniteSet(1 .. Len(s))
  BY <1>1, FS_Interval
<1>4. QED
  BY <1>2, <1>3, FS_Surjection

\* The initial state.
LEMMA InitInvariant == Init => IInv
<1> SUFFICES ASSUME Init PROVE IInv
  OBVIOUS
<1> USE DEF Init
<1>1. TypeOK
  <2>1. scan \in [left: Seq(Texts), count: Nat]
    BY EmptySeq DEF NoScan
  <2>2. expiry \in [at: {"ready", "sampling", "asleep", "dead"},
                    left: SUBSET Texts, doomed: SUBSET Texts, size: Nat]
    BY DEF Resting
  <2>3. budget \in 0 .. MaxMessages
    BY BoundAssumption
  <2>4. QED
    BY <2>1, <2>2, <2>3, EmptyIsMap DEF TypeOK, Status
<1>2. MutexDiscipline
  BY TasksAssumption DEF MutexDiscipline, Resting
<1>3. WellFormedStore
  BY DEF WellFormedStore, EmptyMap
<1>4. QED
  BY <1>1, <1>2, <1>3 DEF IInv

-----------------------------------------------------------------------------
(* Steps that have the same shape. *)

\* A command that takes effect within one step, as far as it does not depend on
\* which command it is.
LEMMA RunStep ==
  ASSUME IInv, NEW c \in Conns, NEW cmds, Run(c, cmds),
         NEW response \in Response, Answer(c, response),
         IsMap(db'), \A k \in DOMAIN db' : WellFormedValue(db'[k].value)
  PROVE  IInv'
<1> USE DEF Run, CanLock, Answer, IInv
<1>1. TypeOK'
  BY DEF TypeOK, Status
<1>2. MutexDiscipline'
  BY TasksAssumption DEF MutexDiscipline, TypeOK
<1>3. WellFormedStore'
  BY DEF WellFormedStore, TypeOK
<1>4. QED
  BY <1>1, <1>2, <1>3

\* A message that is answered without the mutex.
LEMMA ReceiveStep ==
  ASSUME IInv, NEW c \in Conns, CanReceive(c),
         NEW response \in Response, Answer(c, response)
  PROVE  IInv'
<1> USE DEF CanReceive, Answer, IInv
<1>1. TypeOK'
  BY BoundAssumption DEF TypeOK, Status
<1>2. MutexDiscipline'
  BY TasksAssumption DEF MutexDiscipline, TypeOK
<1>3. WellFormedStore'
  BY DEF WellFormedStore, TypeOK
<1>4. QED
  BY <1>1, <1>2, <1>3

\* A connection whose task ends before it holds the mutex, or that starts.
LEMMA OpenOrEndStep ==
  ASSUME IInv, NEW c \in Conns,
         pc[c] \in {"closed", "reading", "waiting"},
         pc' = [pc EXCEPT ![c] = "closed"] \/ pc' = [pc EXCEPT ![c] = "reading"],
         req' = req \/ req' = [req EXCEPT ![c] = None],
         UNCHANGED <<now, db, lock, reply, scan, expiry, budget>>,
         poisoned' \in BOOLEAN, poisoned' => poisoned \/ lock = None
  PROVE  IInv'
<1> USE DEF IInv
<1>1. TypeOK'
  BY DEF TypeOK, Status
<1>2. MutexDiscipline'
  BY TasksAssumption DEF MutexDiscipline, TypeOK
<1>3. WellFormedStore'
  BY DEF WellFormedStore, TypeOK
<1>4. QED
  BY <1>1, <1>2, <1>3

-----------------------------------------------------------------------------
(* The commands that take effect in one step. *)

\* A new object under the key of the request keeps the map and the store in order.
LEMMA StoreObject ==
  ASSUME IInv, NEW k \in Texts, NEW o \in Object, WellFormedValue(o.value),
         db' = Insert(db, k, o)
  PROVE  IsMap(db') /\ \A x \in DOMAIN db' : WellFormedValue(db'[x].value)
<1>1. IsMap(db)
  BY DEF IInv, TypeOK
<1>2. \A x \in DOMAIN db : WellFormedValue(db[x].value)
  BY DEF IInv, WellFormedStore
<1>3. /\ IsMap(Insert(db, k, o))
      /\ DOMAIN Insert(db, k, o) = DOMAIN db \cup {k}
      /\ Insert(db, k, o)[k] = o
      /\ \A x \in DOMAIN db : x # k => Insert(db, k, o)[x] = db[x]
  BY <1>1, InsertMap
<1>4. ASSUME NEW x \in DOMAIN db \cup {k}
      PROVE  WellFormedValue(Insert(db, k, o)[x].value)
  BY <1>2, <1>3
<1>5. QED
  BY <1>3, <1>4

\* So does the removal of keys, or no change at all.
LEMMA RemoveObjects ==
  ASSUME IInv, NEW ks, db' = SwapRemove(db, ks) \/ db' = db
  PROVE  IsMap(db') /\ \A x \in DOMAIN db' : WellFormedValue(db'[x].value)
<1>1. IsMap(db)
  BY DEF IInv, TypeOK
<1>2. \A x \in DOMAIN db : WellFormedValue(db[x].value)
  BY DEF IInv, WellFormedStore
<1>3. /\ IsMap(SwapRemove(db, ks))
      /\ DOMAIN SwapRemove(db, ks) = DOMAIN db \ ks
      /\ \A x \in DOMAIN db \ ks : SwapRemove(db, ks)[x] = db[x]
  BY <1>1, SwapRemoveMap
<1>4. \A x \in DOMAIN SwapRemove(db, ks) : WellFormedValue(SwapRemove(db, ks)[x].value)
  BY <1>2, <1>3
<1>5. QED
  BY <1>1, <1>2, <1>3, <1>4

\* The objects of the map.
LEMMA StoredObject ==
  ASSUME IInv, NEW k \in DOMAIN db
  PROVE  /\ k \in Texts
         /\ db[k].value \in Value
         /\ db[k].expiration \in Instants \cup {None}
         /\ db[k].value.kind = "integer" => db[k].value.integer \in Int64
         /\ db[k].value.kind = "list" => db[k].value.list \in Seq(Texts)
BY DEF IInv, TypeOK, IsMap, Object, Value

\* What the commands answer is a response.
LEMMA ResponseTypes ==
  /\ Null \in Response /\ SimpleString \in Response
  /\ \A n \in Int : IntegerReply(n) \in Response
  /\ \A v \in Value : BulkString(Display(v)) \in Response
  /\ \A e \in ClientError \cup {DeserializeError} : SimpleError(e) \in Response
<1>1. Null \in Response /\ SimpleString \in Response /\ \A n \in Int : IntegerReply(n) \in Response
  BY DEF Null, SimpleString, IntegerReply, Response, LocalResponse
<1>2. ASSUME NEW v \in Value
      PROVE  BulkString(Display(v)) \in Response
  <2>1. Display(v) \in Rendering
    BY DEF Display, Rendering, Value
  <2>2. QED
    BY <2>1 DEF BulkString, Response
<1>3. \A e \in ClientError \cup {DeserializeError} : SimpleError(e) \in Response
  BY DEF SimpleError, Response, LocalResponse
<1>4. QED
  BY <1>1, <1>2, <1>3

\* SET.
LEMMA SetStep ==
  ASSUME IInv, NEW c \in Conns, Set(c)
  PROVE  IInv'
<1>1. Run(c, {"set"}) /\ Answer(c, SimpleString)
  BY DEF Set
<1>2. req[c] \in DbRequest /\ WellFormedRequest(req[c]) /\ req[c].cmd = "set"
  BY <1>1, PendingRequest DEF Run, CanLock
<1>3. /\ req[c].key \in Texts /\ req[c].value \in Value /\ WellFormedValue(req[c].value)
      /\ req[c].expiration \in Instants \cup {None}
  BY <1>2 DEF DbRequest, MultiKeyCommands, ArithmeticCommands, PushCommands, WellFormedRequest
<1>4. NewObject(req[c].value, req[c].expiration) \in Object
  BY <1>3 DEF NewObject, Object
<1>5. NewObject(req[c].value, req[c].expiration).value = req[c].value
  BY DEF NewObject
<1>6. IsMap(db') /\ \A x \in DOMAIN db' : WellFormedValue(db'[x].value)
  BY <1>3, <1>4, <1>5, StoreObject DEF Set
<1>7. QED
  BY <1>1, <1>6, RunStep, ResponseTypes

\* GET.
LEMMA GetStep ==
  ASSUME IInv, NEW c \in Conns, GetLive(c) \/ GetMissing(c)
  PROVE  IInv'
<1>1. IsMap(db') /\ \A x \in DOMAIN db' : WellFormedValue(db'[x].value)
  BY RemoveObjects DEF GetLive, GetMissing
<1>2. CASE GetLive(c)
  <2>1. db[req[c].key].value \in Value
    BY <1>2, StoredObject DEF GetLive, Live
  <2>2. QED
    BY <1>1, <1>2, <2>1, RunStep, ResponseTypes DEF GetLive
<1>3. CASE GetMissing(c)
  BY <1>1, <1>3, RunStep, ResponseTypes DEF GetMissing
<1>4. QED
  BY <1>2, <1>3

\* DEL.
LEMMA DelStep ==
  ASSUME IInv, NEW c \in Conns, Del(c)
  PROVE  IInv'
<1>1. IsMap(db') /\ \A x \in DOMAIN db' : WellFormedValue(db'[x].value)
  BY RemoveObjects DEF Del
<1>2. IsFiniteSet(DOMAIN db)
  BY DEF IInv, TypeOK, IsMap
<1>3. Cardinality(DOMAIN db \cap ToSet(req[c].keys)) \in Int
  <2>1. IsFiniteSet(DOMAIN db \cap ToSet(req[c].keys))
    BY <1>2, FS_Intersection
  <2>2. QED
    BY <2>1, FS_CardinalityType
<1>4. QED
  BY <1>1, <1>3, RunStep, ResponseTypes DEF Del

\* An integer or a list the commands store is a well-formed object.
LEMMA NewObjects ==
  /\ \A i \in Int64, e \in Instants \cup {None} :
       /\ NewObject(IntegerValue(i), e) \in Object
       /\ WellFormedValue(NewObject(IntegerValue(i), e).value)
  /\ \A l \in Seq(Texts), e \in Instants \cup {None} : l # <<>> =>
       /\ NewObject(ListValue(l), e) \in Object
       /\ WellFormedValue(NewObject(ListValue(l), e).value)
BY DEF NewObject, IntegerValue, ListValue, Object, Value, WellFormedValue

\* INCR, INCRBY, DECR and DECRBY, the panic apart.
LEMMA ArithmeticStep ==
  ASSUME IInv, NEW c \in Conns,
         ArithmeticNew(c) \/ ArithmeticUpdate(c) \/ ArithmeticFails(c)
  PROVE  IInv'
<1>1. Run(c, ArithmeticCommands)
  BY DEF ArithmeticNew, ArithmeticUpdate, ArithmeticFails
<1>2. req[c] \in DbRequest /\ req[c].cmd \in ArithmeticCommands
  BY <1>1, PendingRequest DEF Run, CanLock
<1>3. req[c].key \in Texts /\ InitialValue(req[c]) \in Int64
  BY <1>2, ArithmeticType
<1>4. \A n \in Int64 : IntegerReply(n) \in Response
  BY ResponseTypes, WidthAssumption DEF Int64
<1>5. CASE ArithmeticNew(c)
  <2>1. IsMap(db') /\ \A x \in DOMAIN db' : WellFormedValue(db'[x].value)
    BY <1>3, <1>5, NewObjects, StoreObject DEF ArithmeticNew
  <2>2. QED
    BY <1>1, <1>3, <1>4, <1>5, <2>1, RunStep DEF ArithmeticNew
<1>6. CASE ArithmeticUpdate(c)
  <2> DEFINE o == db[req[c].key]
             result == Operation(req[c], o.value.integer)
  <2>1. /\ o.value.kind = "integer" /\ result.ok
        /\ db' = Insert(db, req[c].key, NewObject(IntegerValue(result.val), o.expiration))
        /\ Answer(c, IntegerReply(result.val))
    BY <1>6 DEF ArithmeticUpdate
  <2>2. o.value.integer \in Int64 /\ o.expiration \in Instants \cup {None}
    BY <1>6, <2>1, StoredObject DEF ArithmeticUpdate, Live
  <2>3. result.val \in Int64
    BY <1>2, <2>1, <2>2, ArithmeticType
  <2> HIDE DEF o, result
  <2>4. IsMap(db') /\ \A x \in DOMAIN db' : WellFormedValue(db'[x].value)
    BY <1>3, <2>1, <2>2, <2>3, NewObjects, StoreObject
  <2>5. QED
    BY <1>1, <1>4, <2>1, <2>3, <2>4, RunStep
<1>7. CASE ArithmeticFails(c)
  <2>1. IsMap(db') /\ \A x \in DOMAIN db' : WellFormedValue(db'[x].value)
    BY <1>7, RemoveObjects DEF ArithmeticFails
  <2>2. Answer(c, SimpleError(IntegerError)) \/ Answer(c, SimpleError(OverflowError))
    BY <1>7 DEF ArithmeticFails
  <2>3. QED
    BY <1>1, <2>1, <2>2, RunStep, ResponseTypes, ErrorTypes
<1>8. QED
  BY <1>5, <1>6, <1>7

\* LPUSH and RPUSH.
LEMMA PushStep ==
  ASSUME IInv, NEW c \in Conns, PushNew(c) \/ PushMore(c) \/ PushFails(c)
  PROVE  IInv'
<1>1. Run(c, PushCommands)
  BY DEF PushNew, PushMore, PushFails
<1>2. req[c] \in DbRequest /\ req[c].cmd \in PushCommands /\ WellFormedRequest(req[c])
  BY <1>1, PendingRequest DEF Run, CanLock
<1>3. \A l \in Seq(Texts) :
        /\ req[c].key \in Texts
        /\ Pushed(req[c], l) \in Seq(Texts) /\ Pushed(req[c], l) # <<>>
        /\ IntegerReply(Len(Pushed(req[c], l))) \in Response
  BY <1>2, PushedType, ResponseTypes
<1>4. CASE PushNew(c)
  <2>1. <<>> \in Seq(Texts)
    BY EmptySeq
  <2>2. IsMap(db') /\ \A x \in DOMAIN db' : WellFormedValue(db'[x].value)
    BY <1>3, <1>4, <2>1, NewObjects, StoreObject DEF PushNew
  <2>3. QED
    BY <1>1, <1>3, <1>4, <2>1, <2>2, RunStep DEF PushNew
<1>5. CASE PushMore(c)
  <2> DEFINE o == db[req[c].key]
             l == Pushed(req[c], o.value.list)
  <2>1. /\ o.value.kind = "list"
        /\ db' = Insert(db, req[c].key, NewObject(ListValue(l), o.expiration))
        /\ Answer(c, IntegerReply(Len(l)))
    BY <1>5 DEF PushMore
  <2>2. o.value.list \in Seq(Texts) /\ o.expiration \in Instants \cup {None}
    BY <1>5, <2>1, StoredObject DEF PushMore, Live
  <2>3. /\ req[c].key \in Texts /\ l \in Seq(Texts) /\ l # <<>>
        /\ IntegerReply(Len(l)) \in Response
    BY <1>3, <2>2
  <2> HIDE DEF o, l
  <2>4. IsMap(db') /\ \A x \in DOMAIN db' : WellFormedValue(db'[x].value)
    BY <2>1, <2>2, <2>3, NewObjects, StoreObject
  <2>5. QED
    BY <1>1, <2>1, <2>3, <2>4, RunStep
<1>6. CASE PushFails(c)
  <2>1. IsMap(db') /\ \A x \in DOMAIN db' : WellFormedValue(db'[x].value)
    BY <1>6, RemoveObjects DEF PushFails
  <2>2. QED
    BY <1>1, <1>6, <2>1, RunStep, ResponseTypes, ErrorTypes DEF PushFails
<1>7. QED
  BY <1>4, <1>5, <1>6

-----------------------------------------------------------------------------
(* The other steps of a connection. *)

\* What is received is parsed with the clock the server reads.
LEMMA ReceivedResult ==
  ASSUME IInv, NEW m \in Messages
  PROVE  /\ TryFrom(m, now).ok => TryFrom(m, now).val \in LocalRequest \cup GoodRequest
         /\ ~TryFrom(m, now).ok => TryFrom(m, now).val \in ClientError
<1>1. m \in Seq(Texts) /\ now \in Instants
  BY MessagesAssumption DEF IInv, TypeOK
<1>2. QED
  BY <1>1, TryFromType, ResultSides

\* A message that is answered without the mutex.
LEMMA AnsweredAtOnceStep ==
  ASSUME IInv, NEW c \in Conns,
         ReceiveMalformed(c) \/ ReceiveInvalid(c) \/ ReceiveLocal(c)
  PROVE  IInv'
<1>1. CanReceive(c)
  BY DEF ReceiveMalformed, ReceiveInvalid, ReceiveLocal
<1>2. CASE ReceiveMalformed(c)
  BY <1>1, <1>2, ReceiveStep, ResponseTypes DEF ReceiveMalformed
<1>3. CASE ReceiveInvalid(c)
  BY <1>1, <1>3, ReceiveStep, ReceivedResult, ResponseTypes DEF ReceiveInvalid
<1>4. CASE ReceiveLocal(c)
  <2>1. PICK m \in Messages :
          /\ TryFrom(m, now).ok
          /\ TryFrom(m, now).val.cmd \in {"ping", "echo"}
          /\ Answer(c, LocalReply(TryFrom(m, now).val))
    BY <1>4 DEF ReceiveLocal
  <2>2. TryFrom(m, now).val \in LocalRequest \cup GoodRequest
    BY <2>1, ReceivedResult
  <2>3. ASSUME NEW r \in LocalRequest \cup GoodRequest, r.cmd \in {"ping", "echo"}
        PROVE  LocalReply(r) \in Response
    <3>1. r.text \in Texts \cup {None}
      BY <2>3 DEF LocalRequest, GoodRequest, DbRequest, MultiKeyCommands, ArithmeticCommands,
                  PushCommands
    <3>2. r.text \in Texts => BulkString([text |-> r.text]) \in Response
      BY DEF BulkString, Response, LocalResponse
    <3>3. QED
      BY <3>1, <3>2, ResponseTypes DEF LocalReply
  <2>4. QED
    BY <1>1, <2>1, <2>2, <2>3, ReceiveStep
<1>5. QED
  BY <1>2, <1>3, <1>4

\* A request that waits for the mutex.
LEMMA ReceiveRequestStep ==
  ASSUME IInv, NEW c \in Conns, ReceiveRequest(c)
  PROVE  IInv'
<1>1. PICK m \in Messages :
        /\ TryFrom(m, now).ok
        /\ TryFrom(m, now).val.cmd \notin {"ping", "echo"}
        /\ req' = [req EXCEPT ![c] = TryFrom(m, now).val]
  BY DEF ReceiveRequest
<1> DEFINE r == TryFrom(m, now).val
<1>2. r \in LocalRequest \cup GoodRequest
  BY <1>1, ReceivedResult
<1>3. r \in DbRequest /\ WellFormedRequest(r)
  BY <1>1, <1>2 DEF LocalRequest, GoodRequest
<1> HIDE DEF r
<1>4. /\ pc[c] = "reading" /\ budget > 0 /\ budget' = budget - 1
      /\ pc' = [pc EXCEPT ![c] = "waiting"] /\ req' = [req EXCEPT ![c] = r]
      /\ UNCHANGED <<now, db, lock, poisoned, reply, scan, expiry>>
  BY <1>1 DEF ReceiveRequest, CanReceive, r
<1> USE DEF IInv
<1>5. TypeOK'
  BY <1>3, <1>4, BoundAssumption DEF TypeOK, Status
<1>6. MutexDiscipline'
  BY <1>3, <1>4, TasksAssumption DEF MutexDiscipline, TypeOK
<1>7. WellFormedStore'
  BY <1>3, <1>4 DEF WellFormedStore, TypeOK
<1>8. QED
  BY <1>5, <1>6, <1>7

\* A reply is written.
LEMMA WriteReplyStep ==
  ASSUME IInv, NEW c \in Conns, WriteReply(c)
  PROVE  IInv'
<1> USE DEF WriteReply, IInv
<1>1. TypeOK'
  BY DEF TypeOK, Status
<1>2. MutexDiscipline'
  BY TasksAssumption DEF MutexDiscipline, TypeOK
<1>3. WellFormedStore'
  BY DEF WellFormedStore, TypeOK
<1>4. QED
  BY <1>1, <1>2, <1>3

\* EXISTS takes the mutex.
LEMMA ExistsBeginStep ==
  ASSUME IInv, NEW c \in Conns, ExistsBegin(c)
  PROVE  IInv'
<1>1. req[c] \in DbRequest /\ req[c].cmd = "exists" /\ req[c].keys \in Seq(Texts)
  <2>1. req[c] \in DbRequest /\ req[c].cmd = "exists"
    BY PendingRequest DEF ExistsBegin, CanLock
  <2>2. QED
    BY <2>1 DEF DbRequest, MultiKeyCommands, ArithmeticCommands, PushCommands
<1> USE DEF ExistsBegin, CanLock, IInv
<1>2. TypeOK'
  BY <1>1 DEF TypeOK, Status
<1>3. MutexDiscipline'
  BY <1>1, TasksAssumption DEF MutexDiscipline, TypeOK
<1>4. WellFormedStore'
  BY DEF WellFormedStore, TypeOK
<1>5. QED
  BY <1>2, <1>3, <1>4

\* It looks at one of its keys.
LEMMA ExistsLookStep ==
  ASSUME IInv, NEW c \in Conns, ExistsLook(c)
  PROVE  IInv'
<1>1. db' = SwapRemove(db, {Head(scan.left)}) \/ db' = db
  BY DEF ExistsLook
<1>2. IsMap(db') /\ \A x \in DOMAIN db' : WellFormedValue(db'[x].value)
  BY <1>1, RemoveObjects
<1>3. scan' \in [left: Seq(Texts), count: Nat]
  <2>1. scan \in [left: Seq(Texts), count: Nat]
    BY DEF IInv, TypeOK
  <2>2. Tail(scan.left) \in Seq(Texts)
    BY <2>1, HeadTailProperties DEF ExistsLook
  <2>3. \/ scan' = [left |-> Tail(scan.left), count |-> scan.count + 1]
        \/ scan' = [scan EXCEPT !.left = Tail(scan.left)]
    BY DEF ExistsLook
  <2>4. scan.count + 1 \in Nat
    BY <2>1
  <2>5. [scan EXCEPT !.left = Tail(scan.left)] \in [left: Seq(Texts), count: Nat]
    BY <2>1, <2>2
  <2>6. [left |-> Tail(scan.left), count |-> scan.count + 1] \in [left: Seq(Texts), count: Nat]
    BY <2>2, <2>4
  <2>7. QED
    BY <2>3, <2>5, <2>6
<1>4. UNCHANGED <<now, lock, poisoned, pc, req, reply, expiry, budget>>
  BY DEF ExistsLook
<1>5. TypeOK'
  BY <1>2, <1>3, <1>4 DEF TypeOK, IInv
<1>6. MutexDiscipline'
  BY <1>4 DEF MutexDiscipline, IInv
<1>7. WellFormedStore'
  BY <1>2, <1>4 DEF WellFormedStore, IInv
<1>8. QED
  BY <1>5, <1>6, <1>7 DEF IInv

\* It answers and gives the mutex back.
LEMMA ExistsEndStep ==
  ASSUME IInv, NEW c \in Conns, ExistsEnd(c)
  PROVE  IInv'
<1>1. scan.count \in Int
  BY DEF IInv, TypeOK
<1>2. IntegerReply(scan.count) \in Response
  BY <1>1, ResponseTypes
<1>3. NoScan \in [left: Seq(Texts), count: Nat]
  BY EmptySeq DEF NoScan
<1> USE DEF ExistsEnd, Answer, IInv
<1>4. TypeOK'
  BY <1>2, <1>3 DEF TypeOK, Status
<1>5. MutexDiscipline'
  BY <1>2, TasksAssumption DEF MutexDiscipline, TypeOK
<1>6. WellFormedStore'
  BY DEF WellFormedStore, TypeOK
<1>7. QED
  BY <1>4, <1>5, <1>6

\* Whatever a connection does keeps the invariant.
LEMMA ConnectionStep ==
  ASSUME IInv, NEW c \in Conns, Connection(c)
  PROVE  IInv'
<1>1. CASE Accept(c) \/ Close(c) \/ LockPoisoned(c)
  BY <1>1, OpenOrEndStep DEF Accept, Close, LockPoisoned, IInv, TypeOK
<1>2. CASE ArithmeticPanics(c)
  BY <1>2, OpenOrEndStep DEF ArithmeticPanics, CanLock
<1>3. CASE Proceed(c)
  BY <1>3, ExistsLookStep, ExistsEndStep, WriteReplyStep DEF Proceed
<1>4. QED
  BY <1>1, <1>2, <1>3, AnsweredAtOnceStep, ReceiveRequestStep, SetStep, GetStep, DelStep,
     ArithmeticStep, PushStep, ExistsBeginStep
  DEF Connection, Locks

-----------------------------------------------------------------------------
(* The expiry task, the clock, and the theorems. *)

\* A step that leaves everything but the task's own state and the mutex alone.
LEMMA ExpiryStep ==
  ASSUME IInv, ExpiryTask
  PROVE  IInv'
<1> DEFINE E == [at: {"ready", "sampling", "asleep", "dead"},
                 left: SUBSET Texts, doomed: SUBSET Texts, size: Nat]
<1>1. expiry \in E /\ IsMap(db) /\ DOMAIN db \subseteq Texts /\ IsFiniteSet(DOMAIN db)
  BY DEF IInv, TypeOK, IsMap
<1>2. \A at \in {"ready", "asleep", "dead"} : Resting(at) \in E /\ Resting(at).at = at
  BY DEF Resting
<1>3. UNCHANGED <<now, poisoned, pc, req, reply, scan, budget>>
  BY DEF ExpiryTask, ExpiryIdle, ExpiryBegin, ExpiryLook, ExpiryEnd, ExpiryWake, ExpiryPanics
<1>4. IsMap(db') /\ \A x \in DOMAIN db' : WellFormedValue(db'[x].value)
  <2>1. db' = db \/ db' = SwapRemove(db, expiry.doomed)
    BY DEF ExpiryTask, ExpiryIdle, ExpiryBegin, ExpiryLook, ExpiryEnd, ExpiryWake, ExpiryPanics
  <2>2. QED
    BY <2>1, RemoveObjects
<1>5. WellFormedStore'
  BY <1>3, <1>4 DEF WellFormedStore, IInv
<1>6. /\ expiry' \in E
      /\ \/ lock' = lock /\ (expiry'.at = "sampling" <=> expiry.at = "sampling")
         \/ lock = None /\ lock' = Expiry /\ expiry'.at = "sampling" /\ ~poisoned
         \/ lock' = None /\ expiry.at = "sampling" /\ expiry'.at # "sampling"
  <2>1. CASE ExpiryIdle \/ ExpiryWake \/ ExpiryPanics
    BY <1>1, <1>2, <2>1 DEF ExpiryIdle, ExpiryWake, ExpiryPanics
  <2>2. CASE ExpiryBegin
    <3> DEFINE size == Min({SampleSize, Cardinality(DOMAIN db)})
    <3>1. PICK sample \in kSubset(size, DOMAIN db) :
            expiry' = [at |-> "sampling", left |-> sample, doomed |-> {}, size |-> size]
      BY <2>2 DEF ExpiryBegin
    <3>2. size \in Nat
      <4>1. Cardinality(DOMAIN db) \in Nat /\ SampleSize \in Nat
        BY <1>1, FS_CardinalityType, SampleAssumption
      <4>2. \A m, n \in Nat : Min({m, n}) \in Nat
        BY DEF Min
      <4>3. QED
        BY <4>1, <4>2
    <3>3. sample \in SUBSET Texts
      BY <1>1 DEF kSubset
    <3> HIDE DEF size
    <3>4. QED
      BY <2>2, <3>1, <3>2, <3>3 DEF ExpiryBegin
  <2>3. CASE ExpiryLook
    <3>1. PICK k \in expiry.left :
            expiry' = [expiry EXCEPT
                         !.left = expiry.left \ {k},
                         !.doomed = IF IsExpired(db[k], now) THEN expiry.doomed \cup {k}
                                    ELSE expiry.doomed]
      BY <2>3 DEF ExpiryLook
    <3>2. \A d \in SUBSET Texts :
            [expiry EXCEPT !.left = expiry.left \ {k}, !.doomed = d] \in E
      BY <1>1
    <3>3. expiry.doomed \in SUBSET Texts /\ expiry.doomed \cup {k} \in SUBSET Texts
      BY <1>1
    <3>4. expiry' \in E
      BY <3>1, <3>2, <3>3
    <3>5. expiry'.at = expiry.at
      BY <1>1, <3>1
    <3>6. QED
      BY <2>3, <3>4, <3>5 DEF ExpiryLook
  <2>4. CASE ExpiryEnd
    BY <1>2, <2>4 DEF ExpiryEnd
  <2>5. QED
    BY <2>1, <2>2, <2>3, <2>4 DEF ExpiryTask
<1>7. TypeOK'
  BY <1>3, <1>4, <1>6 DEF TypeOK, IInv
<1>8. MutexDiscipline'
  BY <1>3, <1>6, TasksAssumption DEF MutexDiscipline, IInv
<1>9. QED
  BY <1>5, <1>7, <1>8 DEF IInv

\* The clock moves.
LEMMA TickStep ==
  ASSUME IInv, Tick
  PROVE  IInv'
BY DEF Tick, IInv, TypeOK, MutexDiscipline, WellFormedStore

\* Nothing moves.
LEMMA StutterStep ==
  ASSUME IInv, UNCHANGED vars
  PROVE  IInv'
BY DEF vars, IInv, TypeOK, MutexDiscipline, WellFormedStore

\* No step of any task breaks the invariant.
LEMMA InvariantStep == IInv /\ [Next]_vars => IInv'
BY ConnectionStep, ExpiryStep, TickStep, StutterStep DEF Next

\* Every reachable state is well typed, the mutex is held by the task that is in the
\* middle of its work, and the store holds only values its commands can work on.
THEOREM InvariantHolds == Spec => []IInv
<1>1. Init => IInv
  BY InitInvariant
<1>2. QED
  BY <1>1, InvariantStep, PTL DEF Spec

\* Every variable keeps its type, whatever messages arrive.
THEOREM TypeCorrect == Spec => []TypeOK
BY InvariantHolds, PTL DEF IInv

\* Tasks are never two in the middle of the map, nor one after a panic.
THEOREM MutexIsDisciplined == Spec => []MutexDiscipline
BY InvariantHolds, PTL DEF IInv

\* No command can put in the map what INCR or EXISTS would trip over.
THEOREM StoreIsWellFormed == Spec => []WellFormedStore
BY InvariantHolds, PTL DEF IInv

-----------------------------------------------------------------------------
(* After a panic. *)

\* Once the mutex is poisoned nobody holds it, and no command gets past it.
LEMMA PoisonedStep ==
  ASSUME IInv, poisoned, Next
  PROVE  /\ db' = db
         /\ \A c \in Conns : pc[c] = "waiting" => pc'[c] \in {"waiting", "closed"}
<1>1. lock = None /\ expiry.at # "sampling" /\ \A c \in Conns : pc[c] # "scanning"
  BY TasksAssumption DEF IInv, MutexDiscipline
<1>2. pc \in [Conns -> Status]
  BY DEF IInv, TypeOK
<1>3. CASE ExpiryTask \/ Tick
  BY <1>1, <1>3
  DEF ExpiryTask, ExpiryIdle, ExpiryBegin, ExpiryLook, ExpiryEnd, ExpiryWake, ExpiryPanics, Tick
<1>4. ASSUME NEW c \in Conns, Connection(c)
      PROVE  /\ db' = db
             /\ \E s \in Status : pc' = [pc EXCEPT ![c] = s]
             /\ pc[c] # "waiting" \/ pc'[c] = "closed"
  <2>1. CASE Locks(c)
    <3>1. LockPoisoned(c)
      BY <2>1 DEF Locks, Set, GetLive, GetMissing, Del, ArithmeticNew, ArithmeticUpdate,
                  ArithmeticFails, ArithmeticPanics, PushNew, PushMore, PushFails, ExistsBegin,
                  Run, CanLock
    <3>2. QED
      BY <1>2, <3>1 DEF LockPoisoned, Status
  <2>2. CASE Proceed(c)
    BY <1>1, <2>2 DEF Proceed, ExistsLook, ExistsEnd, WriteReply, Status
  <2>3. CASE ~Locks(c) /\ ~Proceed(c)
    BY <1>4, <2>3 DEF Connection, Accept, Close, ReceiveMalformed, ReceiveInvalid, ReceiveLocal,
                      ReceiveRequest, CanReceive, Answer, Status
  <2>4. QED
    BY <2>1, <2>2, <2>3
<1>5. QED
  BY <1>2, <1>3, <1>4 DEF Next

\* A panic with the mutex held is the end of the store: nothing changes it, nobody is served.
THEOREM PoisonIsFinal == Spec => PoisonedServesNobody
<1>1. IInv /\ [Next]_vars =>
        [poisoned =>
           /\ db' = db
           /\ \A c \in Conns : pc[c] = "waiting" => pc'[c] \in {"waiting", "closed"}]_vars
  BY PoisonedStep
<1>2. QED
  BY <1>1, InvariantHolds, PTL DEF Spec, PoisonedServesNobody
=============================================================================

------------------------------ MODULE Positions ------------------------------
(***************************************************************************)
(* The IndexMap behind the mutex has positions, and the expiry task        *)
(* samples positions (src/src/db.rs:48-76): it collects the keys it finds  *)
(* at them and removes by key, each removal moving the last entry into the *)
(* gap.  This module is Server with the order of the entries and the       *)
(* locals of remove_expired_entries as the code has them; it implements    *)
(* Server, in which a sample is a set of keys.                             *)
(***************************************************************************)
EXTENDS Execution, FiniteSetsExt

CONSTANTS Conns, Messages, MaxMessages, SampleSize, ClockStepsBack, Expiry

ASSUME MessagesAssumption == Messages \subseteq Seq(Texts)
ASSUME BoundAssumption == MaxMessages \in Nat
ASSUME SampleAssumption == SampleSize \in Nat \ {0}
ASSUME ClockAssumption == ClockStepsBack \in BOOLEAN
ASSUME TasksAssumption == Expiry \notin Conns /\ None \notin Conns \cup {Expiry}

VARIABLES
  now, db, lock, poisoned, pc, req, reply, scan, budget,   \* as in Server
  order,   \* the keys of the map by position
  pass     \* the expiry task: where it is, the positions of its sample still to be
           \* looked at, the keys collected, and sample_size

commandVars == <<now, db, lock, poisoned, pc, req, reply, scan, budget>>
vars == <<commandVars, order, pass>>

Waiting(at) == [at |-> at, indexes |-> {}, keys |-> <<>>, size |-> 0]

\* What connections and the clock do, which is no business of the expiry task's locals.
Clients == INSTANCE Server WITH
  expiry <- [at |-> "ready", left |-> {}, doomed |-> {}, size |-> 0]

-----------------------------------------------------------------------------
(* The positions.  IndexMap::insert keeps that of a key that has one. *)

Placed(o, k) == IF k \in ToSet(o) THEN o ELSE Append(o, k)

\* IndexMap::swap_remove: the last entry takes the place of the one removed.
SwapRemoved(o, k) ==
  IF k \notin ToSet(o) THEN o
  ELSE Front([i \in DOMAIN o |-> IF o[i] = k THEN Last(o) ELSE o[i]])

Init ==
  /\ Clients!Init
  /\ order = <<>>
  /\ pass = Waiting("ready")

\* Steps after which each entry is where it was.
InPlace(c) ==
  /\ \/ Clients!Accept(c) \/ Clients!Close(c) \/ Clients!WriteReply(c)
     \/ Clients!ReceiveMalformed(c) \/ Clients!ReceiveInvalid(c)
     \/ Clients!ReceiveLocal(c) \/ Clients!ReceiveRequest(c)
     \/ Clients!GetLive(c) \/ Clients!ArithmeticUpdate(c) \/ Clients!PushMore(c)
     \/ Clients!ArithmeticFails(c) \/ Clients!PushFails(c) \/ Clients!ArithmeticPanics(c)
     \/ Clients!ExistsBegin(c) \/ Clients!ExistsEnd(c) \/ Clients!LockPoisoned(c)
  /\ order' = order

Set(c) == Clients!Set(c) /\ order' = Placed(order, req[c].key)

GetMissing(c) == Clients!GetMissing(c) /\ order' = SwapRemoved(order, req[c].key)

Del(c) == Clients!Del(c) /\ order' = FoldLeft(SwapRemoved, order, req[c].keys)

\* An entry that has expired is removed and the new one put at the end.
Replace(c) ==
  /\ Clients!ArithmeticNew(c) \/ Clients!PushNew(c)
  /\ order' = Append(SwapRemoved(order, req[c].key), req[c].key)

ExistsLook(c) ==
  /\ Clients!ExistsLook(c)
  /\ \/ scan'.count > scan.count /\ order' = order
     \/ scan'.count = scan.count /\ order' = SwapRemoved(order, Head(scan.left))

Connection(c) ==
  /\ InPlace(c) \/ Set(c) \/ GetMissing(c) \/ Del(c) \/ Replace(c) \/ ExistsLook(c)
  /\ UNCHANGED pass

-----------------------------------------------------------------------------
(* remove_expired_entries. *)

PassIdle ==
  /\ pass.at = "ready" /\ lock = None /\ ~poisoned
  /\ order = <<>>
  /\ pass' = Waiting("asleep")
  /\ UNCHANGED <<commandVars, order>>

\* rand::seq::index::sample: as many different positions as are asked for.
PassBegin ==
  /\ pass.at = "ready" /\ lock = None /\ ~poisoned
  /\ order # <<>>
  /\ LET size == Min({SampleSize, Len(order)})
     IN  \E indexes \in kSubset(size, 0 .. Len(order) - 1) :
           pass' = [at |-> "sampling", indexes |-> indexes, keys |-> <<>>, size |-> size]
  /\ lock' = Expiry
  /\ UNCHANGED <<now, db, poisoned, pc, req, reply, scan, budget, order>>

\* get_index: there may be no entry at a position.
ExpiredAt(i) == i < Len(order) /\ IsExpired(db[order[i + 1]], now)

\* Mutant: an expired entry is removed when it is found.
PassLookRemoves ==
  /\ pass.at = "sampling"
  /\ \E i \in pass.indexes :
       /\ pass' = [pass EXCEPT !.indexes = @ \ {i},
                               !.keys = IF ExpiredAt(i) THEN Append(@, order[i + 1]) ELSE @]
       /\ db' = IF ExpiredAt(i) THEN SwapRemove(db, {order[i + 1]}) ELSE db
       /\ order' = IF ExpiredAt(i) THEN SwapRemoved(order, order[i + 1]) ELSE order
  /\ UNCHANGED <<now, lock, poisoned, pc, req, reply, scan, budget>>

PassLook ==
  /\ pass.at = "sampling"
  /\ \E i \in pass.indexes :
       pass' = [pass EXCEPT !.indexes = @ \ {i},
                            !.keys = IF ExpiredAt(i) THEN Append(@, order[i + 1]) ELSE @]
  /\ UNCHANGED <<commandVars, order>>

\* Mutant: what is removed are the positions at which expired entries were found.
PassEndByPosition ==
  /\ pass.at = "sampling"
  /\ pass.indexes = {}
  /\ LET RemovedAt(o, i) == IF i > Len(o) THEN o ELSE SwapRemoved(o, o[i])
     IN  order' = FoldLeft(RemovedAt, order,
                           [j \in DOMAIN pass.keys |-> SelectInSeq(order, LAMBDA k : k = pass.keys[j])])
  /\ db' = Restrict(db, ToSet(order'))
  /\ pass' = Waiting(IF Clients!AnotherPass(Len(pass.keys), pass.size)
                     THEN "ready" ELSE "asleep")
  /\ lock' = None
  /\ UNCHANGED <<now, poisoned, pc, req, reply, scan, budget>>

PassEnd ==
  /\ pass.at = "sampling"
  /\ pass.indexes = {}
  /\ db' = SwapRemove(db, ToSet(pass.keys))
  /\ order' = FoldLeft(SwapRemoved, order, pass.keys)
  /\ pass' = Waiting(IF Clients!AnotherPass(Len(pass.keys), pass.size)
                     THEN "ready" ELSE "asleep")
  /\ lock' = None
  /\ UNCHANGED <<now, poisoned, pc, req, reply, scan, budget>>

PassWake ==
  /\ pass.at = "asleep"
  /\ pass' = Waiting("ready")
  /\ UNCHANGED <<commandVars, order>>

PassPanics ==
  /\ pass.at = "ready" /\ lock = None /\ poisoned
  /\ pass' = Waiting("dead")
  /\ UNCHANGED <<commandVars, order>>

Pass == PassIdle \/ PassBegin \/ PassLook \/ PassEnd \/ PassWake \/ PassPanics

Tick == Clients!Tick /\ UNCHANGED <<order, pass>>

Next == (\E c \in Conns : Connection(c)) \/ Pass \/ Tick

Spec == Init /\ [][Next]_vars

-----------------------------------------------------------------------------

(***************************************************************************)
(* During a pass no position of the sample runs off the end of the map     *)
(* (get_index always finds an entry, db.rs:61), the keys collected are in  *)
(* the map and none is collected twice: the ratio counts removals, and is  *)
(* 1.0 at most (db.rs:75).                                                 *)
(***************************************************************************)
SampleStands ==
  pass.at = "sampling" =>
    /\ pass.indexes \subseteq 0 .. Len(order) - 1
    /\ IsInjective(pass.keys) /\ ToSet(pass.keys) \subseteq DOMAIN db
    /\ Len(pass.keys) + Cardinality(pass.indexes) <= pass.size

-----------------------------------------------------------------------------

Keyed == INSTANCE Server WITH
  expiry <- [at |-> pass.at,
             left |-> {order[i + 1] : i \in pass.indexes},
             doomed |-> ToSet(pass.keys),
             size |-> pass.size]

(***************************************************************************)
(* A pass over positions is a pass over keys: what it collects and removes *)
(* is what the sampled keys alone determine, whatever entries move into    *)
(* the gaps of the others, and no command sees the positions.              *)
(***************************************************************************)
KeyedSpec == Keyed!Spec
=============================================================================

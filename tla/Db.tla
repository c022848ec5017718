--------------------------------- MODULE Db ---------------------------------
(***************************************************************************)
(* The keyspace of the server (src/src/db.rs): the values a key can hold,  *)
(* the Object that pairs a value with its optional expiration, and the map *)
(* from keys to objects.                                                   *)
(*                                                                         *)
(* Every string of the program (a key, a list element, the raw text of a   *)
(* parameter) is a member of Texts.  Instants are SystemTime values: 0 is  *)
(* UNIX_EPOCH and MaxInstant the largest one SystemTime can represent.     *)
(***************************************************************************)
EXTENDS Integers, Sequences, FiniteSets, Functions

CONSTANTS
  Texts,        \* the strings that can occur in a message
  MinI64,       \* i64::MIN
  MaxI64,       \* i64::MAX
  MaxInstant,   \* the largest SystemTime
  None          \* Rust's None: an object without expiration, a free mutex, ...

ASSUME TextsAssumption == Texts \subseteq STRING
\* i64 is a two's complement type: it holds one more negative than positive.
ASSUME WidthAssumption == MaxI64 \in Nat \ {0} /\ MinI64 = -MaxI64 - 1
ASSUME InstantAssumption == MaxInstant \in Nat
ASSUME NoneAssumption == None \notin Int /\ None \notin STRING

Int64 == MinI64 .. MaxI64
Instants == 0 .. MaxInstant

IntegerValue(i) == [kind |-> "integer", integer |-> i]
StringValue(s) == [kind |-> "string", string |-> s]
ListValue(l) == [kind |-> "list", list |-> l]

Value ==
  [kind: {"integer"}, integer: Int64]
    \cup [kind: {"string"}, string: Texts]
    \cup [kind: {"list"}, list: Seq(Texts)]

NewObject(value, expiration) == [value |-> value, expiration |-> expiration]

Object == [value: Value, expiration: Instants \cup {None}]

\* Strictly after the expiration: duration_since(now) fails only for an earlier one.
IsExpired(o, t) == o.expiration # None /\ o.expiration < t

(***************************************************************************)
(* The map.  The position an entry has in the IndexMap decides nothing     *)
(* here: the expiry task samples positions, hence keys (see Positions).    *)
(***************************************************************************)
IsMap(m) ==
  /\ DOMAIN m \subseteq Texts /\ IsFiniteSet(DOMAIN m)
  /\ m \in [DOMAIN m -> Object]

EmptyMap == [k \in {} |-> None]

Insert(m, k, o) == [x \in DOMAIN m \cup {k} |-> IF x = k THEN o ELSE m[x]]

\* swap_remove of each key of ks; a key that is not in the map is left out.
SwapRemove(m, ks) == Restrict(m, DOMAIN m \ ks)
=============================================================================

----------------------------- MODULE ExpiryTests -----------------------------
(***************************************************************************)
(* The tests of the repository on is_expired and remove_expired_entries    *)
(* (src/src/db.rs).                                                        *)
(*                                                                         *)
(* A pass is one more request; its reply is how many keys it collected,    *)
(* which over the size of the sample is the ratio the function returns.    *)
(* No test has fewer entries than its sample_size and more than            *)
(* SampleSize: the constant serves all.                                    *)
(***************************************************************************)
EXTENDS ExecutionTests

CONSTANT Uuids   \* ten different keys (Uuid::new_v4)

ASSUME KeysAssumption == Uuids \in [1 .. 10 -> Texts] /\ IsInjective(Uuids)

\* create_object: the expiration in seconds from now, None for none.
After(seconds) == IF seconds = None THEN None ELSE Seconds(seconds)
ObjectOf(seconds) == NewObject(StringValue("value"), After(seconds))

\* object_no_expiration to object_not_expired.
ObjectTests == { <<None, FALSE>>, <<-1, TRUE>>, <<3600, FALSE>> }

APass == [cmd |-> "pass"]
Collected(n) == [removed |-> n]

\* A map of these entries in this order (create_test_db), and how many one pass removes,
\* none of them one that has not expired.
PassTest(entries, removed) ==
  LET keys == SubSeq(Uuids, 1, Len(entries))
  IN  [map |-> [k \in ToSet(keys) |-> ObjectOf(entries[CHOOSE i \in DOMAIN keys : keys[i] = k])],
       order |-> keys,
       requests |-> <<APass>>,
       replies |-> <<{Collected(n) : n \in removed}>>,
       lists |-> EmptyMap,
       kept |-> {keys[i] : i \in {j \in DOMAIN keys : entries[j] \in {None, 100}}}]

\* empty_map to just_expired_entries.
PassTests ==
  { PassTest(<<>>, {0}),
    PassTest(<<100, 100, 100>>, {0}),
    PassTest(<<None>>, {0}),
    PassTest(<<-1, -2, -3>>, {3}),
    PassTest(<<-1, 100, -2>>, {2}),
    PassTest([i \in 1 .. 10 |-> IF i <= 5 THEN -1 ELSE 100], 0 .. 3),
    PassTest(<<0>>, {1}) }
=============================================================================

------------------------------- MODULE MCTests -------------------------------
(* The tests of the repository, for the model checker: the texts that occur in them. *)
EXTENDS RepositoryTests

Huge == "1000000000000000000000"
MaxU64 == "18446744073709551615"

MCUuids == <<"k0", "k1", "k2", "k3", "k4", "k5", "k6", "k7", "k8", "k9">>

MCTexts ==
  Commands \cup {"PING", "PiNg", "UNKNOWN", "ex", "px", "exat", "pxat", "NOTVALID"}
    \cup {"", "key", "key2", "arg1", "arg2", "hello", "hello world", "k", "a", "b", "value"}
    \cup {"1", "-1", "10", "100", Huge, MaxU64, "not_an_i64", "hola"}
    \cup {"ciao", "test message", "counter", "foo", "c", "v", "x", "old", "new"}
    \cup ToSet(MCUuids)

MCLower ==
  [t \in MCTexts |-> CASE t \in {"PING", "PiNg"} -> "ping"
                       [] t = "UNKNOWN" -> "unknown"
                       [] t = "NOTVALID" -> "notvalid"
                       [] OTHER -> t]

Numbers == [t \in {"1", "10", "100"} |-> CASE t = "1" -> 1 [] t = "10" -> 10 [] t = "100" -> 100]
MCI64Of ==
  [t \in MCTexts |-> IF t = "-1" THEN -1 ELSE IF t \in DOMAIN Numbers THEN Numbers[t] ELSE None]
\* u64::MAX seconds are more than SystemTime can hold.
MCU64Of ==
  [t \in MCTexts |-> IF t = MaxU64 THEN MaxInstant + 1
                     ELSE IF t \in DOMAIN Numbers THEN Numbers[t] ELSE None]
MCMinI64 == -128
=============================================================================

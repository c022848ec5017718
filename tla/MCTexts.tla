------------------------------- MODULE MCTexts -------------------------------
(***************************************************************************)
(* A small world of texts for the model checker.  i64 is 2 bits wide       *)
(* (-2 .. 1), a second is 2 instants, and SystemTime ends at MaxInstant.   *)
(***************************************************************************)
EXTENDS Db

Names == {"ping", "echo", "set", "GET", "get", "exists", "del", "incr", "decr",
          "incrby", "decrby", "lpush", "rpush", "ex", "px", "exat", "pxat", "nx"}
Numbers == {"1", "-2", "2", "9"}
Words == {"a", "b", "x", "y"}

MCMinI64 == -2
MCTexts == Names \cup Numbers \cup Words
MCLower == [t \in MCTexts |-> IF t = "GET" THEN "get" ELSE t]
MCI64Of == [t \in MCTexts |-> CASE t = "1" -> 1 [] t = "-2" -> -2 [] OTHER -> None]
MCU64Of ==
  [t \in MCTexts |-> CASE t = "1" -> 1 [] t = "2" -> 2 [] t = "9" -> 9 [] OTHER -> None]

\* One message or two per command on the store; -2 is added, never negated.
CoreMessages ==
  { <<"set", "a", "x", "px", "1">>, <<"set", "a", "1">>, <<"set", "b", "1", "pxat", "1">>,
    <<"get", "a">>, <<"exists", "a", "a">>, <<"exists", "b", "a">>, <<"del", "a", "b", "a">>,
    <<"decrby", "a", "1">>, <<"incrby", "b", "-2">>, <<"decr", "a">>, <<"incr", "b">>,
    <<"lpush", "a", "x", "y">>, <<"rpush", "a", "y">> }

\* What never reaches the store.
OtherMessages ==
  { <<"ping">>, <<"echo", "x">>, <<"set", "a", "x", "ex", "9">>, <<"x">>,
    <<"get">>, <<"set", "a", "x", "nx", "1">> }
=============================================================================

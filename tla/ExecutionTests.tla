--------------------------- MODULE ExecutionTests ---------------------------
(***************************************************************************)
(* The tests of the repository that execute requests                       *)
(* (src/src/cmd/request.rs, src/src/cmd/execution/{arithmetic,list}.rs).   *)
(*                                                                         *)
(* A test is a map with the order of its entries, the requests that are    *)
(* executed on it one by one, for each the set of replies it accepts, and  *)
(* the lists and other entries it expects to find in the end.              *)
(***************************************************************************)
EXTENDS Positions

CONSTANTS
  Start,     \* when the map of a test is made
  Advance    \* bound: how far the clock moves during a test

ASSUME StartAssumption == Start \in Instants /\ Advance \in Nat /\ Start + Advance \in Instants

Tested(map, requests, replies, lists) ==
  [map |-> map, order |-> SetToSeq(DOMAIN map), requests |-> requests, replies |-> replies,
   lists |-> lists, kept |-> {}]

\* One request, one reply.
Test(map, request, response) == Tested(map, <<request>>, <<{response}>>, EmptyMap)
Fails(map, request) ==
  Tested(map, <<request>>,
         <<{SimpleError(e) : e \in {IntegerError, OverflowError, WrongType}}>>, EmptyMap)

Entry(k, o) == [x \in {k} |-> o]
Seconds(n) == Start + n * TicksPerSecond
Forever(v) == NewObject(v, None)
Key(expiration) == Entry("key", NewObject(StringValue("value"), expiration))
\* "key" for ever, and an empty string at "key2".
TwoKeys(expiration) == Insert(Key(None), "key2", NewObject(StringValue(""), expiration))

Ping(text) == [cmd |-> "ping", text |-> text]
Get == [cmd |-> "get", key |-> "key"]
Many(cmd, keys) == [cmd |-> cmd, keys |-> keys]
Count(cmd, by) == [cmd |-> cmd, key |-> "counter", by |-> by]
PushAll(cmd, values) == [cmd |-> cmd, key |-> "k", values |-> values]

\* execute_ping_no_arg to execute_get_not_expired.
LocalAndGetTests ==
  LET value == BulkString([text |-> "value"])
      set == [cmd |-> "set", key |-> "key", value |-> StringValue(""), expiration |-> None]
  IN  {Test(EmptyMap, Ping(t), BulkString([text |-> t])) : t \in {"ciao", "hello"}}
        \cup { Test(EmptyMap, Ping(None), SimpleString),
               Test(EmptyMap, [cmd |-> "echo", text |-> "test message"],
                    BulkString([text |-> "test message"])),
               Test(EmptyMap, set, SimpleString),
               Test(EmptyMap, Get, Null),
               Test(Key(None), Get, value),
               Test(Key(Start), Get, Null),
               Test(Key(Seconds(10)), Get, value) }

\* execute_exists_zero to execute_exists_multiple_keys_one_expired.
ExistsTests ==
  LET Exists(map, keys, n) == Test(map, Many("exists", keys), IntegerReply(n))
  IN  { Exists(EmptyMap, <<"key">>, 0),
        Exists(Key(None), <<"key">>, 1),
        Exists(Key(None), <<"key", "key">>, 2),
        Exists(Key(Seconds(100)), <<"key">>, 1),
        Exists(Key(Start), <<"key">>, 0),
        Exists(TwoKeys(None), <<"key", "key2">>, 2),
        Exists(TwoKeys(Start), <<"key", "key2">>, 1) }

\* execute_del_zero to execute_del_multiple: an expired entry counts.
DelTests ==
  LET Delete(map, keys, n) == Test(map, Many("del", keys), IntegerReply(n))
  IN  { Delete(EmptyMap, <<"key">>, 0),
        Delete(Key(None), <<"key">>, 1),
        Delete(Key(None), <<"key", "key">>, 1),
        Delete(TwoKeys(Start), <<"key", "key2">>, 2) }

\* execute_incr_ok to execute_decrby_err.
CounterTests ==
  LET foo == Entry("counter", Forever(StringValue("foo")))
      amounts == {<<"incr", 1, 1>>, <<"decr", 1, -1>>, <<"incrby", 100, 100>>, <<"decrby", 100, -100>>}
  IN  {Test(EmptyMap, Count(a[1], a[2]), IntegerReply(a[3])) : a \in amounts}
        \cup {Fails(foo, Count(a[1], a[2])) : a \in amounts}

\* execute_lpush_ok and execute_lpush_err, execute_rpush_ok and execute_rpush_err.
PushTests(cmd) ==
  { Test(EmptyMap, PushAll(cmd, <<"a", "b">>), IntegerReply(2)),
    Fails(Entry("k", Forever(StringValue("foo"))), PushAll(cmd, <<"v">>)) }
ExecuteLPushTests == PushTests("lpush")
ExecuteRPushTests == PushTests("rpush")

-----------------------------------------------------------------------------
(* execution/arithmetic.rs and execution/list.rs. *)

Integer(i) == Entry("counter", Forever(IntegerValue(i)))
Expired(i) == Entry("counter", NewObject(IntegerValue(i), Seconds(-10)))
Overflows(i, request) == Test(Integer(i), request, SimpleError(OverflowError))
NotAnInteger(request) ==
  Test(Entry("counter", Forever(StringValue("foo"))), request, SimpleError(IntegerError))
Twice(request, n) ==
  Tested(EmptyMap, <<request, request>>, <<{IntegerReply(n)}, {IntegerReply(2 * n)}>>, EmptyMap)

\* A command that adds n to a missing key, an expired one, and one that holds 5.
Adds5(request, n) ==
  { Test(EmptyMap, request, IntegerReply(n)), Test(Expired(5), request, IntegerReply(n)),
    Test(Integer(5), request, IntegerReply(5 + n)), Twice(request, n) }

IncrTests ==
  LET incr == Count("incr", 1)
  IN  Adds5(incr, 1) \cup {Overflows(MaxI64, incr), NotAnInteger(incr)}

DecrTests ==
  LET decr == Count("decr", 1)
  IN  Adds5(decr, -1) \cup {Overflows(MinI64, decr), NotAnInteger(decr)}

IncrByTests ==
  LET IncrBy(n) == Count("incrby", n)
  IN  Adds5(IncrBy(10), 10)
        \cup {Test(EmptyMap, IncrBy(n), IntegerReply(n)) : n \in {100, -100}}
        \cup { Test(Integer(5), IncrBy(-10), IntegerReply(-5)),
               Overflows(MaxI64, IncrBy(100)), Overflows(MinI64, IncrBy(-100)),
               NotAnInteger(IncrBy(10)) }

DecrByTests ==
  LET DecrBy(n) == Count("decrby", n)
  IN  Adds5(DecrBy(10), -10)
        \cup {Test(EmptyMap, DecrBy(n), IntegerReply(-n)) : n \in {100, -100}}
        \cup { Test(Integer(5), DecrBy(-10), IntegerReply(15)), Twice(DecrBy(-10), 10),
               Overflows(MinI64, DecrBy(100)), Overflows(MaxI64, DecrBy(-100)),
               NotAnInteger(DecrBy(10)) }

\* A push that leaves the list behind (assert_list).
Leaves(map, request, list) ==
  Tested(map, <<request>>, <<{IntegerReply(Len(list))}>>, Entry("k", list))

\* The tests that LPUSH and RPUSH share.
ListTests(cmd) ==
  {Leaves(EmptyMap, PushAll(cmd, <<v>>), <<v>>) : v \in {"v", ""}}
    \cup {Test(Entry("k", Forever(v)), PushAll(cmd, <<"v">>), SimpleError(WrongType)) :
            v \in {StringValue("foo"), IntegerValue(5)}}
    \cup {Leaves(Entry("k", NewObject(ListValue(<<"old">>), Seconds(-10))),
                 PushAll(cmd, <<"new">>), <<"new">>)}

OneElement == Entry("k", Forever(ListValue(<<"x">>)))
LPushTests ==
  ListTests("lpush")
    \cup { Leaves(EmptyMap, PushAll("lpush", <<"a", "b", "c">>), <<"c", "b", "a">>),
           Leaves(OneElement, PushAll("lpush", <<"a", "b">>), <<"b", "a", "x">>) }
RPushTests ==
  ListTests("rpush")
    \cup { Leaves(EmptyMap, PushAll("rpush", <<"a", "b", "c">>), <<"a", "b", "c">>),
           Leaves(OneElement, PushAll("rpush", <<"a", "b">>), <<"x", "a", "b">>) }

CommandTests ==
  LocalAndGetTests \cup ExistsTests \cup DelTests \cup CounterTests
    \cup ExecuteLPushTests \cup ExecuteRPushTests
    \cup IncrTests \cup DecrTests \cup IncrByTests \cup DecrByTests
    \cup LPushTests \cup RPushTests

=============================================================================

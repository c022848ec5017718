----------------------------- MODULE ParserTests -----------------------------
(***************************************************************************)
(* The parsing tests of the repository: those of try_from                  *)
(* (src/src/cmd/request.rs), of the parsers (set.rs, arithmetic.rs,        *)
(* list.rs) and of Expiration, to be run against Requests.                 *)
(*                                                                         *)
(* A test is the function it calls, the parameters it passes, and the set  *)
(* of results it accepts.  The tests of EX and PX read the clock before    *)
(* and after the call, which reads it a third time.                        *)
(***************************************************************************)
EXTENDS Requests

Call(function, params, results) == [function |-> function, params |-> params, results |-> results]
TryFromCall(params, result) == Call("Request::try_from", params, {result})
WrongArity(params) == TryFromCall(params, Err(WrongNumberOfArguments(params[1])))

CounterRequest(cmd, by) == Ok([cmd |-> cmd, key |-> "key", by |-> by])
KeysRequest(cmd, keys) == Ok([cmd |-> cmd, keys |-> keys])
PushRequest(cmd) == Ok([cmd |-> cmd, key |-> "k", values |-> <<"a", "b">>])
SetRequest(key, value, expiration) ==
  Ok([cmd |-> "set", key |-> key, value |-> value, expiration |-> expiration])

\* decrby_one_arg to incr_ok.
CounterTests ==
  {WrongArity(<<cmd>>) : cmd \in ArithmeticCommands}
    \cup {WrongArity(<<cmd, "key", "key2">>) : cmd \in {"incr", "decr"}}
    \cup {TryFromCall(<<cmd, "key">>, CounterRequest(cmd, 1)) : cmd \in {"incr", "decr"}}
    \cup {TryFromCall(<<cmd, "key", "100">>, CounterRequest(cmd, 100)) :
            cmd \in {"incrby", "decrby"}}

\* del_one_arg to case_insensitive_commands.
CommandTests ==
  {WrongArity(<<cmd>>) : cmd \in {"del", "exists", "set", "get", "echo"}}
    \cup {WrongArity(<<cmd, "arg1", "arg2">>) : cmd \in {"ping", "echo"}}
    \cup {TryFromCall(<<cmd, "key", "key2">>, KeysRequest(cmd, <<"key", "key2">>)) :
            cmd \in MultiKeyCommands}
    \cup {TryFromCall(<<name>>, Ok([cmd |-> "ping", text |-> None])) :
            name \in {"ping", "PING", "PiNg"}}
    \cup { TryFromCall(<<"set", "key", "">>, SetRequest("key", StringValue(""), None)),
           TryFromCall(<<"get", "key">>, Ok([cmd |-> "get", key |-> "key"])),
           TryFromCall(<<"ping", "hello">>, Ok([cmd |-> "ping", text |-> "hello"])),
           TryFromCall(<<"echo", "hello world">>, Ok([cmd |-> "echo", text |-> "hello world"])),
           TryFromCall(<<"UNKNOWN">>, Err(UnknownCommand("unknown"))) }

\* lpush_no_args to lpush_ok, and rpush_no_args to rpush_ok.
LPushTests ==
  { WrongArity(<<"lpush">>), WrongArity(<<"lpush", "k">>),
    TryFromCall(<<"lpush", "k", "a", "b">>, PushRequest("lpush")) }
RPushTests ==
  { WrongArity(<<"rpush">>), TryFromCall(<<"rpush", "k", "a", "b">>, PushRequest("rpush")) }

\* List::parse does not know the command.
ListParserTests ==
  { Call("List::parse", <<"key", "a", "b">>,
         {Ok([cmd |-> "lpush", key |-> "key", values |-> <<"a", "b">>])}),
    Call("List::parse", <<"key">>, {Err(WrongNumberOfArguments("lpush"))}) }

IntegerParserTests ==
  { Call("Integer::parse", <<"key", "100">>, {CounterRequest("incrby", 100)}),
    Call("Integer::parse", <<"key", "not_an_i64">>,
         {Err(e) : e \in {IntegerError, WrongNumberOfArguments("incrby")}}) }

Epoch(seconds) == seconds * TicksPerSecond

SetParserTests ==
  LET Test(params, result) == Call("Set::parse", params, {result})
  IN  { Test(<<"">>, Err(WrongNumberOfArguments("set"))),
        Test(<<"", "", "">>, Err(SyntaxError)),
        Test(<<"", "", "", "", "">>, Err(SyntaxError)),
        Test(<<"key", "value">>, SetRequest("key", StringValue("value"), None)),
        Test(<<"key", "1">>, SetRequest("key", IntegerValue(1), None)),
        Test(<<"key", "value", "exat", "10">>,
             SetRequest("key", StringValue("value"), Epoch(10))),
        Test(<<"key", "-1", "exat", "10">>, SetRequest("key", IntegerValue(-1), Epoch(10))),
        Test(<<"key", "value", "NOTVALID", "10">>, Err(SyntaxError)) }

\* The deadline of EX or PX is read at some instant from before to after.
ExpirationTests(before, after) ==
  LET Test(option, amount, results) == Call("Expiration::try_from", <<option, amount>>, results)
  IN  { Test("", "hola", {Err(IntegerError)}),
        Test("", "1000000000000000000000", {Err(IntegerError)}),
        Test("", "100", {Err(SyntaxError)}),
        Test("ex", "1", {Ok(t + TicksPerSecond) : t \in before .. after}),
        Test("px", "100", {Ok(t + 100) : t \in before .. after}),
        Test("ex", "18446744073709551615", {Err(IntegerError)}),
        Test("exat", "1", {Ok(Epoch(1))}),
        Test("exat", "18446744073709551615", {Err(IntegerError)}),
        Test("pxat", "1", {Ok(1)}) }

Tests(before, after) ==
  CounterTests \cup CommandTests \cup LPushTests \cup RPushTests
    \cup ListParserTests \cup IntegerParserTests \cup SetParserTests
    \cup ExpirationTests(before, after)

\* What the function returns at an instant.
Returned(t, at) ==
  CASE t.function = "Request::try_from" -> TryFrom(t.params, at)
    [] t.function = "Set::parse" -> SetParse(t.params, at)
    [] t.function = "Integer::parse" -> IntegerParse("incrby", t.params)
    [] t.function = "List::parse" -> ListParse("lpush", t.params)
    [] t.function = "Expiration::try_from" -> Expiration(t.params[1], t.params[2], at)

Passes(t, at) == Returned(t, at) \in t.results
=============================================================================

------------------------------ MODULE Requests ------------------------------
(***************************************************************************)
(* From the parameters of a message to a request: Request::try_from        *)
(* (src/src/cmd/request.rs) and the parsers it calls                       *)
(* (src/src/cmd/parser/{set,arithmetic,list}.rs), with the errors of       *)
(* src/src/cmd/error.rs.  A message is a sequence of texts.  What          *)
(* str::to_lowercase and str::parse do to a text is given by the           *)
(* constants Lower, I64Of and U64Of: None marks a text that does not       *)
(* parse.                                                                  *)
(***************************************************************************)
EXTENDS Db

CONSTANTS
  Lower,           \* [Texts -> STRING]               str::to_lowercase
  I64Of,           \* [Texts -> Int64 \cup {None}]    str::parse::<i64>
  U64Of,           \* [Texts -> Nat \cup {None}]      str::parse::<u64>
  TicksPerSecond   \* instants in one second

ASSUME LowerAssumption == Lower \in [Texts -> STRING]
ASSUME ParseAssumption ==
  /\ I64Of \in [Texts -> Int64 \cup {None}]
  /\ U64Of \in [Texts -> Nat \cup {None}]
ASSUME SecondAssumption == TicksPerSecond \in Nat \ {0}

(***************************************************************************)
(* Rust's Result, and the variants of ClientError.                         *)
(***************************************************************************)
Ok(v) == [ok |-> TRUE, val |-> v]
Err(e) == [ok |-> FALSE, val |-> e]

UnknownCommand(name) == [error |-> "UnknownCommand", of |-> name]
WrongNumberOfArguments(name) == [error |-> "WrongNumberOfArguments", of |-> name]
SyntaxError == [error |-> "SyntaxError", of |-> ""]
IntegerError == [error |-> "IntegerError", of |-> ""]
OverflowError == [error |-> "OverflowError", of |-> ""]
WrongType == [error |-> "WrongType", of |-> ""]

ErrorKinds == {"UnknownCommand", "WrongNumberOfArguments", "SyntaxError",
               "IntegerError", "OverflowError", "WrongType"}

Commands == {"ping", "echo", "set", "get", "exists", "del", "incr", "decr",
             "incrby", "decrby", "lpush", "rpush"}

ClientError ==
  [error: ErrorKinds, of: Commands \cup {Lower[t] : t \in Texts} \cup {""}]

(***************************************************************************)
(* Requests.  `by' is the amount an arithmetic command names: IncrBy and   *)
(* DecrBy parse it, Incr and Decr have 1 built in.                         *)
(***************************************************************************)
MultiKeyCommands == {"exists", "del"}
ArithmeticCommands == {"incr", "decr", "incrby", "decrby"}
PushCommands == {"lpush", "rpush"}

LocalRequest ==
  [cmd: {"ping"}, text: Texts \cup {None}] \cup [cmd: {"echo"}, text: Texts]
DbRequest ==
  [cmd: {"set"}, key: Texts, value: Value, expiration: Instants \cup {None}]
    \cup [cmd: {"get"}, key: Texts]
    \cup [cmd: MultiKeyCommands, keys: Seq(Texts)]
    \cup [cmd: ArithmeticCommands, key: Texts, by: Int64]
    \cup [cmd: PushCommands, key: Texts, values: Seq(Texts)]
Request == LocalRequest \cup DbRequest

\* Mutant: the value of SET is never parsed.
UnparsedValue(text) == StringValue(text)

\* SetParser keeps a text that is an i64 as an integer and any other as it is.
ParsedValue(text) ==
  IF I64Of[text] # None THEN IntegerValue(I64Of[text]) ELSE StringValue(text)

\* Mutant: the option is looked at before the amount is parsed.
ExpirationOptionFirst(option, amount, t) ==
  LET base == IF Lower[option] \in {"ex", "px"} THEN t ELSE 0
      unit == IF Lower[option] \in {"ex", "exat"} THEN TicksPerSecond ELSE 1
  IN  IF Lower[option] \notin {"ex", "px", "exat", "pxat"} THEN Err(SyntaxError)
      ELSE IF U64Of[amount] = None THEN Err(IntegerError)
      ELSE IF base + unit * U64Of[amount] > MaxInstant THEN Err(IntegerError)
      ELSE Ok(base + unit * U64Of[amount])

(***************************************************************************)
(* The instant an expiration option stands for, read at instant t.  The    *)
(* amount is parsed before the option is looked at.                        *)
(***************************************************************************)
Expiration(option, amount, t) ==
  LET base == IF Lower[option] \in {"ex", "px"} THEN t ELSE 0
      unit == IF Lower[option] \in {"ex", "exat"} THEN TicksPerSecond ELSE 1
      desired == base + unit * U64Of[amount]
  IN  IF U64Of[amount] = None THEN Err(IntegerError)
      ELSE IF Lower[option] \notin {"ex", "px", "exat", "pxat"} THEN Err(SyntaxError)
      ELSE IF desired > MaxInstant THEN Err(IntegerError)
      ELSE Ok(desired)

SetParse(args, t) ==
  LET n == Len(args)
      expiration == IF n = 4 THEN Expiration(args[3], args[4], t) ELSE Ok(None)
  IN  CASE n < 2 -> Err(WrongNumberOfArguments("set"))
        [] n = 3 \/ n > 4 -> Err(SyntaxError)
        [] OTHER -> IF expiration.ok
                    THEN Ok([cmd |-> "set", key |-> args[1],
                             value |-> ParsedValue(args[2]),
                             expiration |-> expiration.val])
                    ELSE expiration

\* The parser serves INCRBY and DECRBY, and names INCRBY in its arity error.
IntegerParse(cmd, args) ==
  CASE Len(args) # 2 -> Err(WrongNumberOfArguments("incrby"))
    [] Len(args) = 2 /\ I64Of[args[2]] = None -> Err(IntegerError)
    [] OTHER -> Ok([cmd |-> cmd, key |-> args[1], by |-> I64Of[args[2]]])

\* The parser serves LPUSH and RPUSH, and names LPUSH in its arity error.
ListParse(cmd, args) ==
  IF Len(args) < 2 THEN Err(WrongNumberOfArguments("lpush"))
  ELSE Ok([cmd |-> cmd, key |-> args[1], values |-> Tail(args)])

\* The numbers of parameters try_from itself accepts, the command's name included.
Arity(cmd, n) ==
  CASE cmd = "ping" -> n <= 2
    [] cmd \in {"echo", "get", "incr", "decr"} -> n = 2
    [] cmd \in {"exists", "del", "set", "incrby", "decrby", "lpush", "rpush"} -> n >= 2

\* The request of a known command that has an acceptable number of parameters.
Dispatch(cmd, args, t) ==
  CASE cmd = "ping" -> Ok([cmd |-> cmd, text |-> IF args = <<>> THEN None ELSE args[1]])
    [] cmd = "echo" -> Ok([cmd |-> cmd, text |-> args[1]])
    [] cmd = "get" -> Ok([cmd |-> cmd, key |-> args[1]])
    [] cmd = "set" -> SetParse(args, t)
    [] cmd \in MultiKeyCommands -> Ok([cmd |-> cmd, keys |-> args])
    [] cmd \in {"incr", "decr"} -> Ok([cmd |-> cmd, key |-> args[1], by |-> 1])
    [] cmd \in {"incrby", "decrby"} -> IntegerParse(cmd, args)
    [] cmd \in PushCommands -> ListParse(cmd, args)

TryFrom(params, t) ==
  LET cmd == Lower[params[1]]
  IN  IF params = <<>> THEN Err(UnknownCommand(""))
      ELSE IF cmd \notin Commands THEN Err(UnknownCommand(cmd))
      ELSE IF ~Arity(cmd, Len(params)) THEN Err(WrongNumberOfArguments(cmd))
      ELSE Dispatch(cmd, Tail(params), t)

\* A string in the store is not the text of an i64, a list in the store not empty.
WellFormedValue(v) ==
  /\ v.kind = "string" => I64Of[v.string] = None
  /\ v.kind = "list" => v.list # <<>>

WellFormedRequest(r) ==
  /\ r.cmd = "set" => WellFormedValue(r.value)
  /\ r.cmd \in PushCommands => r.values # <<>>
=============================================================================

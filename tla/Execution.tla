----------------------------- MODULE Execution -----------------------------
(***************************************************************************)
(* What the arithmetic and list commands compute once they have read the   *)
(* entry they work on (src/src/cmd/execution/{arithmetic,list}.rs), and    *)
(* the responses a command can end with (src/src/cmd/response.rs), as      *)
(* operators the actions of Server use.                                    *)
(***************************************************************************)
EXTENDS Requests, SequencesExt

CONSTANT OverflowChecks   \* is the build one whose plain arithmetic panics on overflow?

ASSUME OverflowAssumption == OverflowChecks \in BOOLEAN

Adds(r) == r.cmd \in {"incr", "incrby"}

\* Mutant: the sum is not checked.
UncheckedOperation(r, i) == Ok(IF Adds(r) THEN i + r.by ELSE i - r.by)

\* checked_add and checked_sub: None becomes ClientError::OverflowError.
Checked(n) == IF n \in Int64 THEN Ok(n) ELSE Err(OverflowError)
Operation(r, i) == Checked(IF Adds(r) THEN i + r.by ELSE i - r.by)

\* i64::neg: the negative of i64::MIN is not an i64 and wraps around to itself.
WrappingNeg(i) == IF i = MinI64 THEN MinI64 ELSE -i

\* Mutant: DECR starts at the amount itself.
UnsignedInitialValue(r) == r.by

\* The value an arithmetic command gives to a key that holds nothing.
InitialValue(r) == IF Adds(r) THEN r.by ELSE WrappingNeg(r.by)

\* operation() negates the amount of every DECRBY, whatever the key holds.
Panics(r) == OverflowChecks /\ r.cmd = "decrby" /\ r.by = MinI64

\* Elements are pushed one by one: LPUSH leaves the last of them at the front.
Pushed(r, l) == IF r.cmd = "lpush" THEN Reverse(r.values) \o l ELSE l \o r.values

(***************************************************************************)
(* Responses.  Display turns a value into text: a string into itself, an   *)
(* integer into its decimal digits, a list into Rust's debug form.         *)
(***************************************************************************)
Display(v) ==
  CASE v.kind = "integer" -> [decimal |-> v.integer]
    [] v.kind = "string" -> [text |-> v.string]
    [] v.kind = "list" -> [debug |-> v.list]

Rendering == [decimal: Int64] \cup [text: Texts] \cup [debug: Seq(Texts)]

Null == [type |-> "null"]
SimpleString == [type |-> "simple"]
BulkString(rendering) == [type |-> "bulk", bulk |-> rendering]
IntegerReply(n) == [type |-> "integer", number |-> n]
SimpleError(e) == [type |-> "error", error |-> e]

DeserializeError == [error |-> "DeserializeError", of |-> ""]

\* The responses that need no look at the store: to a PING, an ECHO, a bad message.
LocalResponse ==
  [type: {"simple"}] \cup [type: {"bulk"}, bulk: [text: Texts]]
    \cup [type: {"error"}, error: ClientError \cup {DeserializeError}]

Response ==
  LocalResponse \cup [type: {"null"}] \cup [type: {"bulk"}, bulk: Rendering]
    \cup [type: {"integer"}, number: Int]
=============================================================================

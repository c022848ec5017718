-------------------------- MODULE ServerRefinement --------------------------
(***************************************************************************)
(* Server implements LogicalStore: the entries that have expired are not   *)
(* there, the mutex is only visible while EXISTS holds it, and the expiry  *)
(* task does nothing.                                                      *)
(***************************************************************************)
EXTENDS Server

live == Restrict(db, {k \in DOMAIN db : ~IsExpired(db[k], now)})
scanning == IF lock \in Conns THEN lock ELSE None

Logical == INSTANCE LogicalStore WITH live <- live, scanning <- scanning

\* No command subtracts i64::MIN: the condition on messages under which the store is kept.
AmountsHaveNegatives ==
  \A m \in Messages, t \in Instants :
    LET result == TryFrom(m, t)
        r == result.val
    IN  result.ok /\ r.cmd \in ArithmeticCommands /\ ~Adds(r) => r.by # MinI64

(***************************************************************************)
(* Every behaviour of the server is one of the logical store: each command *)
(* sees and leaves exactly the objects whose expiration has not passed,    *)
(* whatever lazy removals (GET, EXISTS, INCR..., LPUSH...) and passes of   *)
(* the expiry task happen around it, and nothing else happens between two  *)
(* looks of an EXISTS.  It holds for a clock that only goes forward and    *)
(* for amounts whose negative is an i64.                                   *)
(***************************************************************************)
LogicalSpec == Logical!Spec
=============================================================================

---------------------------- MODULE ServerClaims ----------------------------
(***************************************************************************)
(* What error messages of the repository say of the commands,              *)
(* stated of Server.  The runs show where the code does something else.    *)
(***************************************************************************)
EXTENDS Server

Before(k) == IF Live(k) THEN db[k].value ELSE IntegerValue(0)
Delta(r) == IF Adds(r) THEN r.by ELSE -r.by

(***************************************************************************)
(* An arithmetic command that would leave the range of i64 is refused with *)
(* the error "increment or decrement would overflow" (error.rs:13): one    *)
(* that replies with a number has computed it exactly, a missing key       *)
(* counting as 0.                                                          *)
(***************************************************************************)
ArithmeticIsExact ==
  [][\A c \in Conns :
       (/\ pc[c] = "waiting" /\ pc'[c] = "replying"
        /\ req[c].cmd \in ArithmeticCommands
        /\ reply'[c].type = "integer")
       => reply'[c].number = Before(req[c].key).integer + Delta(req[c])]_vars

(***************************************************************************)
(* "wrong number of arguments for '{0}' command" (error.rs:7) names a      *)
(* command that a client has sent.                                         *)
(***************************************************************************)
ArityErrorNamesTheCommand ==
  \A c \in Conns :
    (/\ pc[c] = "replying"
     /\ reply[c].type = "error"
     /\ reply[c].error.error = "WrongNumberOfArguments")
    => \E m \in Messages : Lower[m[1]] = reply[c].error.of
=============================================================================

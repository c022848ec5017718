------------------------------- MODULE MCLive -------------------------------
(* Server under fairness, for the model checker. *)
EXTENDS ServerLive

\* A deadline, an object without one, the command that holds the mutex over several steps,
\* and the one that panics with the mutex held.
LiveMessages ==
  { <<"set", "a", "x", "pxat", "0">>, <<"set", "a", "x">>, <<"set", "b", "x">>, <<"exists", "b", "a">>,
    <<"decrby", "a", "-2">> }

MCMinI64 == -2
MCTexts == UNION {ToSet(m) : m \in LiveMessages}
MCLower == [t \in MCTexts |-> t]
MCI64Of == [t \in MCTexts |-> CASE t = "0" -> 0 [] t = "-2" -> -2 [] OTHER -> None]
MCU64Of == [t \in MCTexts |-> IF t = "0" THEN 0 ELSE None]

LiveSpec == EndlessSpec /\ \A k \in {"a", "b"} : Drawn(k)
=============================================================================

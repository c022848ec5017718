----------------------------- MODULE MCSessions -----------------------------
(* The server and the streams of its clients, for the model checker. *)
EXTENDS Sessions, MCTexts

SessionMessages == { <<"exists", "a">>, <<"decrby", "a", "-2">>, <<"ping">>, <<"x">> }

\* One that holds the mutex over several steps.
StalledMessages == { <<"exists", "a">> }
=============================================================================

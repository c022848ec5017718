------------------------------ MODULE MCClaims ------------------------------
(* The claims of error messages, for the model checker. *)
EXTENDS ServerClaims, MCTexts

NegationMessages == { <<"decrby", "a", "-2">>, <<"get", "a">> }
ArityMessages == { <<"get", "a">>, <<"rpush", "a">> }
=============================================================================

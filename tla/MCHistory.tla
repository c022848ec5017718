------------------------------ MODULE MCHistory ------------------------------
(* Server with its history, for the model checker. *)
EXTENDS ServerHistory, MCTexts
=============================================================================

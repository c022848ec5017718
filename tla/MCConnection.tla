---------------------------- MODULE MCConnection ----------------------------
(* One connection, for the model checker: messages of one to four pieces, and a *)
(* buffer with room for three. *)
EXTENDS Connection

MCMessages == { <<"ping">>, <<"decrby", "min">>, <<"lpush", "a", "b", "c">> }
MCPieces == UNION {{m[i] : i \in DOMAIN m} : m \in MCMessages}
MCPanicking == { <<"decrby", "min">> }
=============================================================================

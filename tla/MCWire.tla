------------------------------- MODULE MCWire -------------------------------
(* One connection byte by byte, for the model checker.  A text with a CRLF, one of two *)
(* bytes, one that is a message itself and does not fit into the buffer, and the name *)
(* of an unknown command with a CRLF. *)
EXTENDS Wire

MCBytes == {"*", "$", "CR", "LF", "0", "1", "2", "4", "x", "+", Lead, Continuation}
MCEcho == <<"1">>
MCOther == <<"0">>

MCRequests ==
  { <<MCOther>>, <<MCEcho, <<CR, LF, Lead, Continuation>>>>, <<MCEcho, Message(<<MCOther>>)>>,
    << <<"2", CR, LF, "+">> >> }
MCOtherResponses == { Null, SimpleString(<<"x">>), Integer(<<"1", "2">>) }
=============================================================================

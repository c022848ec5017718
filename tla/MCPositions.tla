----------------------------- MODULE MCPositions -----------------------------
(* Positions, for the model checker: three keys, deadlines, and every kind of command. *)
EXTENDS Positions, MCTexts

PositionMessages ==
  { <<"set", "a", "x", "px", "1">>, <<"set", "b", "1", "pxat", "1">>, <<"set", "y", "1">>,
    <<"get", "a">>, <<"exists", "b", "a">>, <<"del", "a", "y">>,
    <<"incr", "b">>, <<"decrby", "a", "-2">>, <<"rpush", "a", "y">>, <<"ping">>, <<"x">> }
=============================================================================

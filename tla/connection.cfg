SPECIFICATION FairSpec
CONSTANTS
  Refused = Refused
  Messages <- MCMessages
  Pieces <- MCPieces
  Panicking <- MCPanicking
  Capacity = 3
  MaxSent = 3
INVARIANTS TypeOK StreamPartitioned OneReplyPerRead InStep
PROPERTY Served
CHECK_DEADLOCK FALSE

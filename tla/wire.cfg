SPECIFICATION Spec
CONSTANTS
  None = None
  Refused = Refused
  MaxU32 = 15
  Bytes <- MCBytes
  Echo <- MCEcho
  Other <- MCOther
  OtherResponses <- MCOtherResponses
  Requests <- MCRequests
  Capacity = 22
  MaxSent = 2
  MaxReads = 3
INVARIANTS RepliesReadBack EndToEnd SerializeTestsPass
PROPERTY ConnectionSpec
CHECK_DEADLOCK FALSE

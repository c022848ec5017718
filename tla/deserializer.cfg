SPECIFICATION Spec
CONSTANTS
  None = None
  MaxU32 = 15
  Bytes <- MCBytes
  Arrays <- MCArrays
  Inputs <- MCInputs
INVARIANTS TypeOK CursorInMessage Sound Complete DeserializerTestsPass
CHECK_DEADLOCK FALSE

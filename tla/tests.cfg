SPECIFICATION TestSpec
CONSTANTS
  None = None
  Expiry = Expiry
  Conns = {c1}
  Texts <- MCTexts
  Lower <- MCLower
  I64Of <- MCI64Of
  U64Of <- MCU64Of
  MinI64 <- MCMinI64
  MaxI64 = 127
  MaxInstant = 3700
  TicksPerSecond = 1
  OverflowChecks = TRUE
  ClockStepsBack = FALSE
  Messages = {}
  MaxMessages = 0
  SampleSize = 3
  Uuids <- MCUuids
  Start = 40
  Advance = 3
INVARIANTS ParserTestsPass ExpiryTestsPass
PROPERTY ExecutionTestsPass
CHECK_DEADLOCK FALSE

SPECIFICATION Spec
CONSTANTS
  None = None
  Expiry = Expiry
  Conns = {c1, c2}
  Texts <- MCTexts
  Lower <- MCLower
  I64Of <- MCI64Of
  U64Of <- MCU64Of
  MinI64 <- MCMinI64
  MaxI64 = 1
  MaxInstant = 2
  TicksPerSecond = 2
  OverflowChecks = TRUE
  ClockStepsBack = FALSE
  Messages <- PositionMessages
  MaxMessages = 4
  SampleSize = 2
INVARIANT SampleStands
PROPERTY KeyedSpec

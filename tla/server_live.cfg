SPECIFICATION LiveSpec
CONSTANTS
  None = None
  Expiry = Expiry
  Conns = {c1, c2}
  Texts <- MCTexts
  Lower <- MCLower
  I64Of <- MCI64Of
  U64Of <- MCU64Of
  MinI64 <- MCMinI64
  MaxI64 = 1
  MaxInstant = 1
  TicksPerSecond = 2
  OverflowChecks = TRUE
  ClockStepsBack = FALSE
  Messages <- LiveMessages
  MaxMessages = 1
  SampleSize = 1
PROPERTIES Answered PassesEnd ExpiredIsPurged PoisonedServesNobody PoisonEndsTheTasks

SPECIFICATION HSpec
CONSTANTS
  None = None
  Expiry = Expiry
  Conns = {c1, c2}
  Texts <- MCTexts
  Lower <- MCLower
  I64Of <- MCI64Of
  U64Of <- MCU64Of
  MinI64 <- MCMinI64
  MaxI64 = 1
  MaxInstant = 2
  TicksPerSecond = 2
  OverflowChecks = FALSE
  ClockStepsBack = TRUE
  Messages <- CoreMessages
  MaxMessages = 3
  SampleSize = 2
INVARIANTS MissingStaysMissing DoomedHaveExpired ScanCountsWhatStays
PROPERTIES NoLiveLoss DelAgreesWithReads DeadlineDiscipline

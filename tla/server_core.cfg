SPECIFICATION Spec
CONSTANTS
  None = None
  Expiry = Expiry
  Conns = {c1, c2}
  Texts <- MCTexts
  Lower <- MCLower
  I64Of <- MCI64Of
  U64Of <- MCU64Of
  MinI64 <- MCMinI64
  MaxI64 = 1
  MaxInstant = 3
  TicksPerSecond = 2
  OverflowChecks = FALSE
  ClockStepsBack = FALSE
  Messages <- RefinementMessages
  MaxMessages = 3
  SampleSize = 1
INVARIANTS TypeOK MutexDiscipline WellFormedStore
PROPERTY LogicalSpec

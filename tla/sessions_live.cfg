SPECIFICATION FairSessions
CONSTANTS
  None = None
  Expiry = Expiry
  Conns = {c1, c2}
  Texts <- MCTexts
  Lower <- MCLower
  I64Of <- MCI64Of
  U64Of <- MCU64Of
  MinI64 <- MCMinI64
  MaxI64 = 1
  MaxInstant = 0
  TicksPerSecond = 1
  OverflowChecks = TRUE
  ClockStepsBack = FALSE
  Messages <- StalledMessages
  MaxMessages = 3
  SampleSize = 1
  Start = "*"
  End = "$"
  Refused = Refused
  Capacity = 5
  Departures = {}
  Observed = c1
  MaxSent = 3
  Window = 1
PROPERTY StalledHarmsNobody
CHECK_DEADLOCK FALSE

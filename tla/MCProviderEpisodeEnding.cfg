CONSTANTS
  Cap = 3
  TokenCap = 6
  Sizes <- MCSizes
  Reservation <- MCReservation
  Exposure <- MCExposure
  MaxAttempts = 1
  InitialBackoff = 1
  Multiplier = 1
  TurnBudget = 1
  Preparation = {0, 1}
  MaxOverrun = 1
  MaxTurns = 1
  MaxCalls = 1
  AttemptsPerCall = 1
SPECIFICATION EpisodeSpec
INVARIANT FailureIsExcluded
CHECK_DEADLOCK FALSE

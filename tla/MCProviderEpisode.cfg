CONSTANTS
  Cap = 3
  TokenCap = 6
  Sizes <- MCSizes
  Reservation <- MCReservation
  Exposure <- MCExposure
  MaxAttempts = 1
  InitialBackoff = 1
  Multiplier = 1
  TurnBudget = 1
  Preparation = {0, 1}
  MaxOverrun = 1
  MaxTurns = 3
  MaxCalls = 2
  AttemptsPerCall = 1
SPECIFICATION FairEpisode
INVARIANTS JournalIsTrue SpendIsOnFile
PROPERTIES RunEnds
\* the run is over, or the process is dead
CHECK_DEADLOCK FALSE

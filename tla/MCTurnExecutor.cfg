CONSTANTS
  Cap = 4
  TokenCap = 6
  Sizes <- MCSizes
  Reservation <- MCReservation
  Exposure <- MCExposure
  MaxAttempts = 3
  InitialBackoff = 1
  Multiplier = 2
  TurnBudget = 4
  Preparation = {0, 5}
  MaxOverrun = 1
  MaxTurns = 2
SPECIFICATION FairSpec
INVARIANTS TypeOK GuardIsExact EveryExitIsAccounted TurnKeepsItsBudget
PROPERTIES TurnEnds KeepsTheCap
\* the run ends after its last turn, or with an exception nothing caught
CHECK_DEADLOCK FALSE

CONSTANTS
  Plan = 2
  Cap = 3
  Reservations = {1, 2}
  MaxBill = 2
  MaxTurns = 2
  MaxAttempts = 2
  Unlimited = Unlimited
  Stops <- MCStops
  MaxStarts = 2
SPECIFICATION Spec
INVARIANT CapSurvivesInterruption
CHECK_DEADLOCK FALSE

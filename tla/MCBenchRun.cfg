CONSTANTS
  Plan = 2
  Cap = 3
  Reservations = {1, 2}
  MaxBill = 2
  MaxTurns = 2
  MaxAttempts = 2
  Unlimited = Unlimited
  Stops <- MCStops
  MaxStarts = 3
SPECIFICATION FairSpec
INVARIANTS BooksAreTrue
PROPERTIES NothingAfterTheEnd InvocationEnds
\* the operator need not start the run again
CHECK_DEADLOCK FALSE

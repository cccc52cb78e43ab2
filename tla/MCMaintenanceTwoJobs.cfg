CONSTANTS
  TimerBase = 10
  MaxCycle = 3
  MaxCheckpoint = 2
  Quotes <- TwoJobs
  QuoteOf <- TwoJobsOf
  Invoices <- TwoBills
  InvoiceOf <- TwoBillsOf
  Scopes = {"leak", "burst"}
  NoScope = NoScope
  Threshold = 1
  ReminderAfter = 1
  DeadlineAfter = 2
  Validity = 3
  CloseAfter = 2
  FollowupAfter = 2
  Horizon = 1
  World = {"SCHEDULED", "APPROVED", "VALIDATED"}
  DispatchFailures = {}
  Recovery = FALSE
SPECIFICATION Spec
INVARIANT ClosedWorkIsPaidFor
\* the run ends with the operation, or with the clock at its bound
CHECK_DEADLOCK FALSE

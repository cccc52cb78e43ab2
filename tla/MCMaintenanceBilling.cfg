CONSTANTS
  TimerBase = 10
  MaxCycle = 3
  MaxCheckpoint = 1
  Quotes <- OneQuote
  QuoteOf <- OneQuoteOf
  Invoices <- OneInvoice
  InvoiceOf <- OneInvoiceOf
  Scopes = {"leak", "burst"}
  NoScope = NoScope
  Threshold = 1
  ReminderAfter = 1
  DeadlineAfter = 2
  Validity = 3
  CloseAfter = 2
  FollowupAfter = 2
  Horizon = 3
  World = {"SCHEDULED", "WORK_REPORTED", "APPROVED", "VALIDATED", "INVALID", "PERSISTS"}
  DispatchFailures = {}
  Recovery = FALSE
SPECIFICATION Spec
INVARIANTS WorkComesFirst WindowHasItsTimer
PROPERTIES CyclesAreKept
\* the run ends with the operation, or with the clock at its bound
CHECK_DEADLOCK FALSE

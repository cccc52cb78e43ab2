CONSTANTS
  TimerBase = 10
  MaxCycle = 2
  MaxCheckpoint = 2
  Quotes <- RevisedQuotes
  QuoteOf <- RevisedQuotesOf
  Invoices <- NoInvoices
  InvoiceOf <- NoInvoicesOf
  Scopes = {"leak"}
  NoScope = NoScope
  Threshold = 1
  ReminderAfter = 1
  DeadlineAfter = 2
  Validity = 3
  CloseAfter = 2
  FollowupAfter = 2
  Horizon = 3
  World = {"APPROVED", "REJECTED"}
  DispatchFailures = {}
  Recovery = FALSE
SPECIFICATION Spec
INVARIANTS ApprovalsGovernWork
\* the run ends with the operation, or with the clock at its bound
CHECK_DEADLOCK FALSE

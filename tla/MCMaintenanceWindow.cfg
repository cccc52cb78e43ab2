CONSTANTS
  TimerBase = 10
  MaxCycle = 2
  MaxCheckpoint = 1
  Quotes <- OneQuote
  QuoteOf <- OneQuoteOf
  Invoices <- OneInvoice
  InvoiceOf <- OneInvoiceOf
  Scopes = {"leak"}
  NoScope = NoScope
  Threshold = 1
  ReminderAfter = 1
  DeadlineAfter = 2
  Validity = 3
  CloseAfter = 2
  FollowupAfter = 2
  Horizon = 3
  World = {"SCHEDULED", "APPROVED", "VALIDATED"}
  DispatchFailures = {}
  Recovery = FALSE
SPECIFICATION Spec
PROPERTIES FinalizationWaitsOutTheWindow
\* the run ends with the operation, or with the clock at its bound
CHECK_DEADLOCK FALSE

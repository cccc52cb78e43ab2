CONSTANTS
  TimerBase = 10
  MaxCycle = 2
  MaxCheckpoint = 2
  Quotes <- OneQuote
  QuoteOf <- OneQuoteOf
  Invoices <- NoInvoices
  InvoiceOf <- NoInvoicesOf
  Scopes = {"leak"}
  NoScope = NoScope
  Threshold = 1
  ReminderAfter = 1
  DeadlineAfter = 2
  Validity = 3
  CloseAfter = 2
  FollowupAfter = 2
  Horizon = 6
  World = {"SCHEDULED", "DECLINED", "APPROVED", "REJECTED", "TAKE_OWNERSHIP", "AUTHORISE_ALTERNATIVE", "RESOLVED"}
  DispatchFailures = {"transfer"}
  Recovery = TRUE
SPECIFICATION FairSpec
INVARIANTS DutiesHaveTimers
PROPERTIES DecisionsKeepTheirPromise SilenceEnds
\* the run ends with the operation, or with the clock at its bound
CHECK_DEADLOCK FALSE

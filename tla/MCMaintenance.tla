--------------------------- MODULE MCMaintenance ---------------------------
EXTENDS Maintenance

Quote(id, version, cycle, amount, scope) ==
  [quote |-> id, version |-> version, cycle |-> cycle, amount |-> amount, scope |-> scope]
Bill(cycle, quote, amount) == [cycle |-> cycle, quote |-> quote, amount |-> amount]

\* two versions of one quote for the second cycle
RevisedQuotes == {"q1v1", "q1v2"}
RevisedQuotesOf == [q1v1 |-> Quote("q1", 1, 2, 2, "leak"), q1v2 |-> Quote("q1", 2, 2, 2, "leak")]
NoQuotes == {}
NoQuotesOf == [q \in {} |-> 0]
NoInvoices == {}
NoInvoicesOf == [i \in {} |-> 0]
\* one quote and its invoice
OneQuote == {"q1v1"}
OneQuoteOf == [q1v1 |-> Quote("q1", 1, 2, 2, "leak")]
OneInvoice == {"i1"}
OneInvoiceOf == [i1 |-> Bill(2, "q1v1", 2)]
\* two quotes for two cycles, each with its invoice
TwoJobs == {"q1v1", "q2v1"}
TwoJobsOf == [q1v1 |-> Quote("q1", 1, 2, 2, "leak"), q2v1 |-> Quote("q2", 1, 3, 2, "burst")]
TwoBills == {"i1", "i2"}
TwoBillsOf == [i1 |-> Bill(2, "q1v1", 2), i2 |-> Bill(3, "q2v1", 2)]
=============================================================================

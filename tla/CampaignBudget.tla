--------------------------- MODULE CampaignBudget ---------------------------
(***************************************************************************)
(* The money of a campaign: CampaignBudget, tools/three_flow_budget.py,    *)
(* over the reducer of tools/aggregate_budget.py.  One journal of          *)
(* reservations is shared by every worker thread; a trial is a cell of it, *)
(* with at most one reservation unresolved, its latest.                    *)
(*                                                                         *)
(* A book is what the reducer makes of the rows: each trial's reservations *)
(* in order.  A ledger is the object and its file: the book in memory, the *)
(* book of the whole rows on disk, whether a part of a row follows them,   *)
(* and whether an append has failed.  Amounts are whole units.             *)
(***************************************************************************)
EXTENDS Integers, Sequences, FiniteSets, Functions

CONSTANTS
  Trials,
  Cap,          \* the one cap of the campaign
  Bound,        \* price of a request at the bounds it is reserved with
  Supplements   \* what the serialised request may add to it

ASSUME BudgetAssumption ==
  /\ IsFiniteSet(Trials)
  /\ Cap \in Nat /\ Bound \in Nat \ {0} /\ Supplements \subseteq Nat

Unresolved == {"reserved", "sent"}

NewLedger ==
  LET empty == [t \in Trials |-> <<>>]
  IN [book |-> empty, file |-> empty, torn |-> FALSE, broken |-> FALSE]

In(book, t, states) == book[t] # <<>> /\ book[t][Len(book[t])].state \in states

\* totals and cell_accounting.
Counted(r) == IF r.state = "settled" THEN r.actual ELSE r.bound
Worth(r, states) == IF r.state \in states THEN Counted(r) ELSE 0
OfTrial(book, t, states) ==
  SumFunction([i \in DOMAIN book[t] |-> Worth(book[t][i], states)])
Total(book, states) == SumFunction([t \in Trials |-> OfTrial(book, t, states)])
Requests(book, t) == SumFunction([i \in DOMAIN book[t] |-> book[t][i].rpcs])

Spent == {"settled", "unknown"}
Fits(book) == Total(book, Spent \cup Unresolved) <= Cap

(********************************* _reduce *********************************)
Resolved(book, t, state) == [book EXCEPT ![t][Len(book[t])].state = state]

Reserved(book, t) ==
  [book EXCEPT ![t] = Append(@, [state |-> "reserved", bound |-> Bound, actual |-> 0, rpcs |-> 0])]

\* The wire may be larger than what was reserved, never smaller.
Dispatched(book, t, extra) ==
  [Resolved(book, t, "sent") EXCEPT ![t][Len(book[t])].bound = @ + extra]

Announced(book, t) == [book EXCEPT ![t][Len(book[t])].rpcs = @ + 1]

\* SettlementBoundsError otherwise.
MaySettle(book, t, usage) == usage <= book[t][Len(book[t])].bound
Settled(book, t, usage) ==
  [Resolved(book, t, "settled") EXCEPT ![t][Len(book[t])].actual = usage]

\* Mutant: what was not seen to reach the wire is given back on recovery.
GivenBack(book, t) ==
  Resolved(book, t, "cancelled")

Forfeited(book, t) ==
  Resolved(book, t, "unknown")

(***************************** _append, _event *****************************)
\* A row becomes durable before memory shows it.  When that fails the row is
\* not on file, in part, or in whole, and the ledger takes no further event.
Outcomes == {"durable", "lost", "torn", "kept"}
Appended(ledger, book, outcome) ==
  IF outcome = "durable" THEN [ledger EXCEPT !.book = book, !.file = book]
  ELSE [ledger EXCEPT !.broken = TRUE, !.torn = (outcome = "torn"),
                      !.file = IF outcome = "kept" THEN book ELSE @]

\* A fresh process replays the file; it refuses one that ends in a torn row.
MayOpen(ledger) == ~ledger.torn
Opened(ledger) == [ledger EXCEPT !.book = ledger.file, !.broken = FALSE]
=============================================================================

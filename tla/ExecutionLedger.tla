-------------------------- MODULE ExecutionLedger --------------------------
(***************************************************************************)
(* The provider journal of one run: ExecutionLedgerJournal, its admission  *)
(* rules and its reader, operatebench/execution_ledger.py.  A writer and a *)
(* file are records; ProviderEpisode keeps them and applies these          *)
(* operators.                                                              *)
(*                                                                         *)
(* A row is what it states: its index, which stands for its back-link too  *)
(* (both come from what the writer remembers of the row before), its kind  *)
(* and its payload.  A file is its rows and its tail, the way the last of  *)
(* them ends.  A file keeps a prefix of the bytes that were written to it. *)
(***************************************************************************)
EXTENDS Integers, Sequences, FiniteSets, Functions

CONSTANTS MaxCalls,         \* controls.max_provider_calls
          AttemptsPerCall   \* controls.max_attempts_per_call

ASSUME LedgerAssumption == MaxCalls \in Nat /\ AttemptsPerCall \in Nat \ {0}

Kinds == {"header", "call", "terminal", "garbage"}
Endings == {"scored", "excluded", "aborted"}
ControlExclusions == {"budget", "deadline"}
\* The codes a run is excluded under: this build's controls, what a provider
\* did, a body that could not be read as an answer, and any other failure.
Codes == ControlExclusions \cup {"fault", "response_invalid", "transport", "aborted", "none"}

EmptyFile == [rows |-> <<>>, tail |-> "ended"]

NewWriter == [calls |-> <<>>, next |-> 0, terminal |-> "none",
              poisoned |-> FALSE, closed |-> FALSE]

-----------------------------------------------------------------------------
(* Admission, the same before a row is written and when it is read.         *)

Paid(call, what) ==
  SumFunction([i \in DOMAIN call.attempts |->
                 IF call.attempts[i].settlement = what THEN call.attempts[i].amount ELSE 0])
Total(calls, what) == SumFunction([i \in DOMAIN calls |-> Paid(calls[i], what)])

\* recompute_totals; reserved is the sum of both, attempt by attempt.
Totals(calls) ==
  [calls |-> Len(calls),
   attempts |-> SumFunction([i \in DOMAIN calls |-> Len(calls[i].attempts)]),
   measured |-> Total(calls, "measured"), forfeited |-> Total(calls, "forfeited")]

Outcomes(call) == {call.attempts[i].outcome : i \in DOMAIN call.attempts}

\* LedgerCall: a call made an attempt, only the last of them ended the turn, and
\* the exit it states and a decision taken from it are the last attempt's.
CallWellFormed(call) ==
  LET last == Len(call.attempts) IN
  /\ last > 0
  /\ \A i \in 1..(last - 1) : call.attempts[i].outcome = "fault"
  /\ call.attempts[last].outcome = "response" <=> call.reason = "response"
  /\ call.attempts[last].outcome = "unclassified_error" <=> call.reason = "unclassified_error"
  /\ call.decided => call.attempts[last].outcome = "response"

\* check_call_admissible and check_call_amounts.
CallAdmissible(call, before) ==
  /\ call.index = Len(before) /\ call.index < MaxCalls
  /\ Len(call.attempts) <= AttemptsPerCall
  /\ call.reason = "retries_exhausted" => Len(call.attempts) = AttemptsPerCall
  /\ before # <<>> => call.turn > before[Len(before)].turn
  /\ \A i \in DOMAIN call.attempts :
       call.attempts[i].settlement = "forfeited" =>
         call.attempts[i].amount = call.attempts[i].reserved

EarlyReasons == {"backoff_unaffordable", "cost_cap_exhausted", "deadline_exceeded",
                 "pre_dispatch_refused"}

\* What a provider did to a run shows in its rows.
Witnessed(calls) ==
  \E i \in DOMAIN calls :
    \/ Outcomes(calls[i]) \cap {"fault", "unclassified_error"} # {}
    \/ calls[i].reason \in EarlyReasons

\* check_terminal_admissible.
TerminalAdmissible(ending, code, calls) ==
  /\ ending = "scored" => \A i \in DOMAIN calls :
                            Outcomes(calls[i]) = {"response"} /\ calls[i].decided
  /\ ending = "excluded" => code \in ControlExclusions \/ calls = <<>> \/ Witnessed(calls)

-----------------------------------------------------------------------------
(* Writing.                                                                 *)

Row(w, kind, payload) == [index |-> w.next, kind |-> kind, payload |-> payload]

Garbage == [index |-> 0, kind |-> "garbage", payload |-> <<>>]

\* What one append can leave of its row: nothing, part of it, all but the end of
\* its line, or the whole row.
Remains == {"nothing", "fragment", "unended", "whole"}

\* Bytes after a line that never ended run into it.
Written(file, row, what) ==
  IF what = "nothing" THEN file
  ELSE [rows |-> IF file.tail # "ended" THEN Append(file.rows, Garbage)
                 ELSE IF what = "fragment" THEN file.rows ELSE Append(file.rows, row),
        tail |-> IF what = "whole" THEN "ended" ELSE what]

MayAppend(w) == ~w.poisoned /\ ~w.closed

\* _append after the row is durable: the writer's memory follows the file.
Appended(w) == [w EXCEPT !.next = @ + 1]

\* Mutant: a failed append does not end the writer.
Unpoisoned(w) == w

\* _append_durably: an append that fails ends the writer, rolled back or not.
Poisoned(w) == [w EXCEPT !.poisoned = TRUE]

\* _roll_back, where it works.
RolledBack(file, row, what) == file

Closed(w) == [w EXCEPT !.closed = TRUE]

-----------------------------------------------------------------------------
(* Reading.                                                                 *)

\* The payloads of the call rows, in the order of the file.
CallsOn(file) ==
  LET called == {i \in DOMAIN file.rows : file.rows[i].kind = "call"}
      Nth(n) == CHOOSE i \in called : Cardinality({j \in called : j <= i}) = n
  IN [n \in 1..Cardinality(called) |-> file.rows[Nth(n)].payload]

HasTerminal(file) == \E i \in DOMAIN file.rows : file.rows[i].kind = "terminal"

\* A row sits at the next index, links to the row before it, and nothing follows
\* a terminal row.
Follows(rows, i) ==
  /\ rows[i].index = i - 1
  /\ rows[i].kind = "header" <=> i = 1
  /\ rows[i].kind # "garbage"
  /\ rows[i].kind = "terminal" => i = Len(rows)

\* read_execution_ledger: "refused", or what the journal proves.  The calls are
\* checked against those before them, the terminal row against all of them.
Verdict(file) ==
  LET rows == file.rows
      calls == CallsOn(file)
      last == rows[Len(rows)].payload
      readable ==
        /\ rows # <<>>
        /\ \A i \in DOMAIN rows : Follows(rows, i)
        /\ \A i \in DOMAIN calls :
             CallWellFormed(calls[i]) /\ CallAdmissible(calls[i], SubSeq(calls, 1, i - 1))
        /\ HasTerminal(file) =>
             /\ file.tail # "fragment"
             /\ TerminalAdmissible(last.ending, last.code, calls)
             /\ last.totals = Totals(calls)
  IN IF ~readable THEN "refused"
     ELSE IF HasTerminal(file) THEN last.ending ELSE "incomplete"
=============================================================================

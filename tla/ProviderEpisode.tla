-------------------------- MODULE ProviderEpisode --------------------------
(***************************************************************************)
(* One recorded run against a provider: run_episode (runner.py) over an    *)
(* EvidenceRecordingModelAgent and its ProviderEvidenceRecorder            *)
(* (agents/evidence.py), over the turn executor and its guard, over the    *)
(* journal.  The engine between two turns is one choice: it asks for       *)
(* another decision, ends the operation, or fails.  Any append may fail,   *)
(* and the process may die between any two steps and inside any append.    *)
(***************************************************************************)
EXTENDS TurnExecutor, ExecutionLedger

VARIABLES
  run,       \* where run_episode is
  how,       \* how _run_and_evaluate was left: "running" or an ending,
  code,      \* and under which code
  failure,   \* what failed of the recording itself: "none", "write" or "chain"
  pending,   \* recorder._pending, the open call row
  stop,      \* recorder._control_stop
  writer, file,
  bound      \* the artefact's binding to the journal

evidenceVars == <<failure, pending, stop, writer, file, bound>>
episodeVars == <<run, how, code, evidenceVars>>
allVars == <<vars, episodeVars>>

NoCall == [index |-> -1]
NoBinding == [tip |-> 0]
ControlStops == {"cost_cap_exhausted", "deadline_exceeded", "pre_dispatch_refused"}

EpisodeInit ==
  /\ Init
  /\ run = "fresh" /\ how = "running" /\ code = "none"
  /\ failure = "none" /\ pending = NoCall /\ stop = "none"
  /\ writer = NewWriter /\ file = EmptyFile /\ bound = NoBinding

-----------------------------------------------------------------------------
(* An append is durable, fails, or does not return.                         *)

Durably(row, memory, to) ==
  /\ MayAppend(writer)
  /\ file' = Written(file, row, "whole") /\ writer' = Appended(memory)
  /\ run' = to
  /\ UNCHANGED <<how, code, failure>>

Fails(row, to) ==
  /\ MayAppend(writer)
  /\ \E what \in Remains : file' \in {RolledBack(file, row, what), Written(file, row, what)}
  /\ writer' = Poisoned(writer)
  /\ run' = to /\ failure' = "write"

Dies(row) ==
  /\ MayAppend(writer)
  /\ \E what \in Remains : file' = Written(file, row, what)
  /\ run' = "dead"
  /\ UNCHANGED <<how, code, failure, writer>>

\* begin: the header is durable before the first request leaves.
OpenJournal ==
  LET row == Row(writer, "header", <<>>) IN
  /\ run = "fresh"
  /\ \/ Durably(row, writer, "between")
     \/ Fails(row, "over") /\ UNCHANGED <<how, code>>
     \/ Dies(row)
  /\ UNCHANGED <<vars, pending, stop, bound>>

-----------------------------------------------------------------------------
(* A turn: the agent's decide.                                              *)

\* Mutant: the recorded calls are not counted.
StartTurnUncounted ==
  /\ run = "between"
  /\ Begin
  /\ run' = "deciding"
  /\ UNCHANGED <<how, code, evidenceVars>>

\* check_call_budget lets another call be made.
StartTurn ==
  /\ run = "between" /\ Len(writer.calls) < MaxCalls
  /\ Begin
  /\ run' = "deciding"
  /\ UNCHANGED <<how, code, evidenceVars>>

CallBudgetSpent ==
  /\ run = "between" /\ Len(writer.calls) >= MaxCalls
  /\ run' = "finishing" /\ how' = "excluded" /\ code' = "budget"
  /\ UNCHANGED <<vars, evidenceVars>>

Turn ==
  /\ run = "deciding" /\ Loop
  /\ UNCHANGED episodeVars

TurnCancelled ==
  /\ run = "deciding" /\ CancelDeadline
  /\ UNCHANGED episodeVars

\* The telemetry a turn published: nothing where an exception left the loop
\* before commit.
Telemetry == IF reason = "none" THEN <<>> ELSE record

\* Mutant: an attempt is put down at its reservation.
LedgerAttemptReserved(i) ==
  [outcome |-> record[i].outcome, settlement |-> record[i].settlement,
   reserved |-> Price, amount |-> Price]

\* _attempts: the guard's events say what each attempt came to, in order.
LedgerAttempt(i) ==
  LET settled == i <= Len(guard.events) /\ guard.events[i].kind = record[i].settlement
  IN [outcome |-> record[i].outcome, settlement |-> record[i].settlement,
      reserved |-> Price, amount |-> IF settled THEN guard.events[i].amount ELSE Price]

OpenCall ==
  [index |-> Len(writer.calls), turn |-> turns, reason |-> reason, decided |-> FALSE,
   attempts |-> [i \in 1..Len(record) |-> LedgerAttempt(i)]]

\* observe_provider_turn, called on the way out of every turn; one that made no
\* attempt leaves no row, only the control that refused it.
ObserveTurn ==
  /\ run = "deciding" /\ pc = "ended"
  /\ pending' = IF Telemetry = <<>> THEN NoCall ELSE OpenCall
  /\ stop' = IF reason \in ControlStops THEN reason ELSE "none"
  /\ guard' = TakeEvents(guard) /\ pc' = "idle"
  /\ UNCHANGED <<clock, turnVars, turns, sent, charged, overrun,
                 failure, writer, file, bound>>

Answered ==
  /\ ObserveTurn /\ result = "answer"
  /\ run' = "answered"
  /\ UNCHANGED <<how, code>>

Raised(ending, under) ==
  /\ ObserveTurn
  /\ run' = "raised" /\ how' = ending /\ code' = under

\* model_response_from refuses a body the executor already measured.
AnswerUnreadable == result = "answer" /\ Raised("excluded", "response_invalid")

\* ModelAgent._send: what the executor raised becomes a ProviderFailure, but for
\* a configuration error and for what is not an Exception.
TurnRaised ==
  \/ result = "fault" /\ Raised("excluded", "fault")
  \/ result \in {"budget", "breach"} /\ Raised("excluded", "budget")
  \/ result = "error" /\ Raised("excluded", "transport")
  \/ result = "refused" /\ Raised("aborted", "aborted")
  \/ result = "escaped" /\ attempts = 0 /\ Raised("excluded", "transport")
  \/ result = "escaped" /\ attempts > 0 /\ Raised("aborted", "aborted")

\* record_call: what the reader will check is checked before the append; a
\* LedgerWriteError out of it aborts the run.
RecordCall(decided, to) ==
  LET call == [pending EXCEPT !.decided = decided]
      row == Row(writer, "call", call) IN
  /\ CallWellFormed(call) /\ CallAdmissible(call, writer.calls)
  /\ \/ Durably(row, [writer EXCEPT !.calls = Append(@, call)], to)
     \/ Fails(row, "finishing") /\ how' = "aborted" /\ code' = "aborted"
     \/ Dies(row)
  /\ pending' = NoCall
  /\ UNCHANGED <<vars, stop, bound>>

BindDecision == run = "answered" /\ RecordCall(TRUE, "between")

\* abandon_open_call, as the exception leaves decide.
AbandonOpenCall ==
  /\ run = "raised"
  /\ \/ pending # NoCall /\ RecordCall(FALSE, "finishing")
     \/ /\ pending = NoCall
        /\ run' = "finishing"
        /\ UNCHANGED <<vars, how, code, evidenceVars>>

\* The operation ended and was evaluated, or something else raised.
LeaveEngine ==
  /\ run = "between"
  /\ run' = "finishing"
  /\ \/ how' = "scored" /\ code' = "none"
     \/ how' = "aborted" /\ code' = "aborted"
  /\ UNCHANGED <<vars, evidenceVars>>

-----------------------------------------------------------------------------
(* Finalising.                                                              *)

\* Mutant: every local control is taken for an abort.
EndingOfControls == IF how = "excluded" /\ stop # "none" THEN "aborted" ELSE how

\* finalize_excluded: a local refusal is an abort, not a provider's failure.
Ending == IF how = "excluded" /\ stop = "pre_dispatch_refused" THEN "aborted" ELSE how

\* _exclusion_for: a control that stopped the run is named instead of the fault
\* the runner saw.
EndingCode ==
  CASE Ending = "aborted" -> "aborted"
    [] Ending = "excluded" /\ stop = "cost_cap_exhausted" -> "budget"
    [] Ending = "excluded" /\ stop = "deadline_exceeded" -> "deadline"
    [] OTHER -> code

\* _finalize on a poisoned writer appends nothing.
FinalizePoisoned ==
  /\ run = "finishing" /\ writer.poisoned
  /\ writer' = Closed(writer) /\ run' = "over"
  /\ UNCHANGED <<vars, how, code, failure, pending, stop, file, bound>>

\* finalize refuses an ending its rows do not support: the LedgerChainError
\* leaves run_episode, and the journal has no ending.
FinalizeRefused ==
  /\ run = "finishing" /\ ~writer.poisoned
  /\ ~TerminalAdmissible(Ending, EndingCode, writer.calls)
  /\ failure' = "chain" /\ run' = "over"
  /\ UNCHANGED <<vars, how, code, pending, stop, writer, file, bound>>

Finalize ==
  LET row == Row(writer, "terminal", [ending |-> Ending, code |-> EndingCode,
                                      totals |-> Totals(writer.calls)])
      memory == Closed([writer EXCEPT !.terminal = Ending]) IN
  /\ run = "finishing"
  /\ TerminalAdmissible(Ending, EndingCode, writer.calls)
  /\ \/ Durably(row, memory, IF Ending = "scored" THEN "sealed" ELSE "over")
     \/ Fails(row, "over") /\ UNCHANGED <<how, code>>
     \/ Dies(row)
  /\ UNCHANGED <<vars, pending, stop, bound>>

\* Mutant: a binding is made of whatever the writer remembers.
BindUnsealed ==
  /\ run \in {"sealed", "over"} /\ bound = NoBinding
  /\ bound' = [tip |-> writer.next, calls |-> writer.calls]
  /\ run' = "over"
  /\ UNCHANGED <<vars, how, code, failure, pending, stop, writer, file>>

\* provider_execution_binding: only of a scored terminal row that is durable.
BindArtefact ==
  /\ run = "sealed"
  /\ ~writer.poisoned /\ writer.terminal = "scored"
  /\ bound' = [tip |-> writer.next, calls |-> writer.calls]
  /\ run' = "over"
  /\ UNCHANGED <<vars, how, code, failure, pending, stop, writer, file>>

\* The process dies.
Crash ==
  /\ run \notin {"fresh", "over", "dead"}
  /\ run' = "dead"
  /\ UNCHANGED <<vars, how, code, evidenceVars>>

Progress ==
  OpenJournal \/ StartTurn \/ CallBudgetSpent \/ Turn \/ Answered \/ AnswerUnreadable
    \/ TurnRaised \/ BindDecision \/ AbandonOpenCall \/ LeaveEngine
    \/ FinalizePoisoned \/ FinalizeRefused \/ Finalize \/ BindArtefact

EpisodeNext == Progress \/ TurnCancelled \/ Crash

EpisodeSpec == EpisodeInit /\ [][EpisodeNext]_allVars

\* One thread runs the episode; nobody has to cancel a deadline or die.
FairEpisode == EpisodeSpec /\ WF_allVars(Progress)
-----------------------------------------------------------------------------
(* Properties.                                                              *)

\* The writer's memory and the file move together: while the writer is whole,
\* the file is exactly the rows it remembers, and whatever happens afterwards
\* the reader still verifies what was durable ("a verifiable prefix").
JournalIsReadable ==
  /\ writer.next > 0 => Verdict(file) # "refused"
  /\ run # "dead" /\ ~writer.poisoned =>
       Len(file.rows) = writer.next /\ CallsOn(file) = writer.calls

\* "A process that dies at any point leaves ... never a journal that reads as a
\* cheap successful run": an ending on file is the ending of a run that had it.
EndingIsTrue ==
  Verdict(file) \in Endings =>
    /\ run \notin {"between", "deciding", "answered", "raised"}
    /\ Verdict(file) = how

\* A run that reads as ended accounts for everything the guard spent and the
\* provider billed; an aborted or unfinished one misses at most the bill of its
\* last turn.
SpendIsOnFile ==
  LET t == Totals(CallsOn(file)) IN
  /\ Verdict(file) \in {"scored", "excluded"} =>
       t.measured = guard.measured /\ t.forfeited = guard.forfeited
         /\ charged <= t.measured + t.forfeited
  /\ charged <= t.measured + t.forfeited + MaxAttempts * Price + MaxOverrun

\* An artefact is bound only to a journal that reads as scored, and states what
\* stands in it.
BindingIsDurable ==
  bound # NoBinding =>
    Verdict(file) = "scored" /\ bound.tip = Len(file.rows) /\ bound.calls = CallsOn(file)

\* What stands on file after any fault reads as what happened, no less and no
\* more, and an artefact repeats it.
JournalIsTrue == JournalIsReadable /\ EndingIsTrue /\ BindingIsDurable

\* Every run that began is finalised or dies, whatever fails on the way; in
\* particular the writer never refuses a call that was made.
RunEnds == run = "between" ~> run \in {"over", "dead"}

\* run_episode: "The recorder is then finalised on every exit: ... excluded for a
\* ProviderFailure", unless writing itself failed.
FailureIsExcluded ==
  (run = "over" /\ how = "excluded" /\ failure # "write") => Verdict(file) = "excluded"
=============================================================================

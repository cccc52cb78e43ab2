----------------------------- MODULE BenchRun -----------------------------
(***************************************************************************)
(* A resumable BoundaryBench run: boundarybench/runner.py executes a plan  *)
(* of episodes in invocations that may stop, fail or be killed anywhere;   *)
(* boundarybench/ledger.py keeps one row for each finished episode, and    *)
(* boundarybench/budget.py keeps one spending cap over all of them.  What  *)
(* a resumed invocation knows is what its rows say.                        *)
(*                                                                         *)
(* An episode is its turns, a turn its attempts at one request; what the   *)
(* model answers matters only in whether the episode goes on.  Amounts are *)
(* whole numbers.  The guard also asks for one request at a time, which    *)
(* holds here because a turn has one attempt in flight (TurnExecutor).     *)
(***************************************************************************)
EXTENDS Integers, Sequences, Functions

CONSTANTS
  Plan,          \* planned episodes, at most cost_controls.max_episodes
  Cap,           \* max_cost_usd
  Reservations,  \* reservation_for, over the requests of the plan
  MaxBill,       \* the most one response can be billed
  MaxTurns,      \* limits.max_turns
  MaxAttempts,   \* max_attempts_per_turn
  Stops,         \* the values of --stop-after, Unlimited for none
  Unlimited,
  MaxStarts      \* bound: invocations of the run

ASSUME BenchAssumption ==
  /\ Plan \in Nat \ {0} /\ Cap \in Nat /\ MaxBill \in Nat /\ MaxStarts \in Nat
  /\ MaxTurns \in Nat \ {0} /\ MaxAttempts \in Nat \ {0}
  /\ Reservations \subseteq Nat \ {0}
  /\ Unlimited \notin Nat /\ Stops \subseteq (Nat \ {0}) \cup {Unlimited}

VARIABLES
  manifest,  \* execution id of the run directory, 0 while there is none
  file,      \* the ledger: whole rows, and whether a partial row follows
  run,       \* the invocation: where it is and what it counts
  guard,     \* RunCostGuard
  episode,   \* run_episode's locals
  actual     \* what the provider billed, above its reservations, and for
             \* episodes that never got their row: known to no program
vars == <<manifest, file, run, guard, episode, actual>>

Excess(c, r) == IF c > r THEN c - r ELSE 0

RunTerminal == {"terminal", "cap", "breach"}

(*************************** The cost guard ********************************)
NewGuard == [measured |-> 0, exposure |-> 0, episodeExposure |-> 0, pending |-> 0]

\* recovered_spend.
Recovered(rows) ==
  [measured |-> SumFunction([i \in DOMAIN rows |-> rows[i].measured]),
   exposure |-> SumFunction([i \in DOMAIN rows |-> rows[i].exposure])]

\* Mutant: exposure is not carried across a resume.
SeedMeasured(rows) == [NewGuard EXCEPT !.measured = Recovered(rows).measured]

Seed(rows) ==
  [NewGuard EXCEPT !.measured = Recovered(rows).measured,
                   !.exposure = Recovered(rows).exposure]

\* Mutant: the exposure of the episode before is counted again.
BeginEpisodeKeeping(g) == g

BeginEpisode(g) == [g EXCEPT !.episodeExposure = 0]

Authorizes(g, r) == g.measured + g.exposure + r <= Cap
Forfeit(g) ==
  [g EXCEPT !.exposure = @ + g.pending, !.episodeExposure = @ + g.pending, !.pending = 0]
Settle(g, c) == [g EXCEPT !.measured = @ + c, !.pending = 0]
Cancel(g) == [g EXCEPT !.pending = 0]

(************************** Rows and their reader **************************)
NewEpisode ==
  [turns |-> 0, attempts |-> 0, request |-> 0, usage |-> 0, authorised |-> 0,
   forfeited |-> 0, billed |-> 0, outcome |-> "ended"]

\* Mutant: every row states the exposure of the run so far.
RowOfRun(e, g, n) ==
  [episode |-> n, execution |-> manifest, outcome |-> e.outcome, measured |-> e.usage,
   exposure |-> g.exposure, authorised |-> e.authorised, forfeited |-> e.forfeited]

Row(e, g, n) ==
  [episode |-> n, execution |-> manifest, outcome |-> e.outcome, measured |-> e.usage,
   exposure |-> g.episodeExposure, authorised |-> e.authorised, forfeited |-> e.forfeited]

\* _check_row_cost: the exposure follows from the attempts, and a row measures
\* more than its measured attempts reserved exactly when it says so.
CostAdmissible(row) ==
  /\ row.exposure = row.forfeited
  /\ row.measured > row.authorised <=> row.outcome = "breach"

\* read_ledger, the rows being those of this plan and this execution.
Readable(f) ==
  /\ ~f.torn
  /\ \A i \in 1 .. Len(f.rows) :
       /\ f.rows[i].episode = i /\ i <= Plan
       /\ f.rows[i].execution = manifest
       /\ CostAdmissible(f.rows[i])

Terminated(rows) == \E i \in 1 .. Len(rows) : rows[i].outcome \in RunTerminal

\* What an append may leave when it fails or the process dies inside it.
Leftovers(row) ==
  {file, [file EXCEPT !.torn = TRUE], [file EXCEPT !.rows = Append(@, row)]}

(***************************** Invocations *********************************)
Away(starts) ==
  [pc |-> "away", resumed |-> 0, executed |-> 0, stop |-> Unlimited, starts |-> starts]

Init ==
  /\ manifest = 0
  /\ file = [rows |-> <<>>, torn |-> FALSE]
  /\ run = Away(0)
  /\ guard = NewGuard /\ episode = NewEpisode
  /\ actual = [billed |-> 0, overrun |-> 0, lost |-> 0]

\* The invocation is over: its guard and its counts are gone.
Leave == run' = Away(run.starts) /\ guard' = NewGuard /\ episode' = NewEpisode

\* open_run_session: one writer, and the execution stored first is the run's.
Adopt(candidate) == manifest' = IF manifest = 0 THEN candidate ELSE manifest

MayOpen == run.pc = "away" /\ run.starts < MaxStarts

\* Mutant: a run-terminal row does not keep the run from going on.
MayContinueAlways(rows) == TRUE

MayContinue(rows) == ~Terminated(rows)

\* LedgerError, LedgerCorruptionError or RunTerminatedError.
Refused ==
  /\ MayOpen /\ ~(Readable(file) /\ MayContinue(file.rows))
  /\ run' = [run EXCEPT !.starts = @ + 1]
  /\ UNCHANGED <<manifest, file, guard, episode, actual>>

Open(stop) ==
  /\ MayOpen /\ Readable(file) /\ MayContinue(file.rows)
  /\ Adopt(run.starts + 1)
  /\ run' = [run EXCEPT !.pc = "plan", !.starts = @ + 1, !.stop = stop,
                        !.resumed = Len(file.rows), !.executed = 0]
  /\ guard' = Seed(file.rows)
  /\ episode' = NewEpisode
  /\ UNCHANGED <<file, actual>>

Done == run.resumed + run.executed
StagingStop == run.stop # Unlimited /\ run.executed >= run.stop

Begin ==
  /\ run.pc = "plan" /\ Done < Plan /\ ~StagingStop
  /\ guard' = BeginEpisode(guard)
  /\ episode' = NewEpisode
  /\ run' = [run EXCEPT !.pc = "turn"]
  /\ UNCHANGED <<manifest, file, actual>>

\* The plan is done or the stage is: the report reads the ledger once more, or fails to.
Report ==
  /\ run.pc = "report" \/ (run.pc = "plan" /\ (Done = Plan \/ StagingStop))
  /\ Leave
  /\ UNCHANGED <<manifest, file, actual>>

(******************************* An episode ********************************)
Finish(e) == episode' = e /\ run' = [run EXCEPT !.pc = "append"]

\* The request a turn sends is the same at every attempt.
Requests == IF episode.attempts = 0 THEN Reservations ELSE {episode.request}

\* A turn that was begun may be retried: Unmeasured counts its attempts.
MayAttempt == episode.attempts = 0 => episode.turns < MaxTurns

Attempt(r) ==
  /\ run.pc = "turn" /\ MayAttempt /\ r \in Requests
  /\ Authorizes(guard, r)
  /\ guard' = [guard EXCEPT !.pending = r]
  /\ episode' = [episode EXCEPT !.attempts = @ + 1, !.request = r]
  /\ run' = [run EXCEPT !.pc = "flight"]
  /\ UNCHANGED <<manifest, file, actual>>

CapReached(r) ==
  /\ run.pc = "turn" /\ MayAttempt /\ r \in Requests
  /\ ~Authorizes(guard, r)
  /\ Finish([episode EXCEPT !.outcome = "cap"])
  /\ UNCHANGED <<manifest, file, guard, actual>>

\* Success, a limit, a timeout, a refused answer: the episode is over, and so
\* is a turn whose attempts are spent.
EpisodeEnds ==
  /\ run.pc = "turn"
  /\ Finish(episode)
  /\ UNCHANGED <<manifest, file, guard, actual>>

\* Mutant: the turn simply tries again.
UndispatchedRetried ==
  /\ run.pc = "flight"
  /\ guard' = Cancel(guard)
  /\ episode' = [episode EXCEPT !.attempts = 0]
  /\ run' = [run EXCEPT !.pc = "turn"]
  /\ UNCHANGED <<manifest, file, actual>>

\* A refusal before dispatch is a provider failure that cost nothing.
Undispatched ==
  /\ run.pc = "flight"
  /\ guard' = Cancel(guard)
  /\ Finish(episode)
  /\ UNCHANGED <<manifest, file, actual>>

Bill(b) ==
  actual' = [actual EXCEPT !.billed = @ + b, !.overrun = @ + Excess(b, guard.pending)]

\* Nothing was measured: the reservation is exposure, whatever was billed.  The
\* attempt is retried, the turn is answered all the same, or the episode ends.
Unmeasured(b) ==
  /\ run.pc = "flight" /\ b <= guard.pending
  /\ guard' = Forfeit(guard)
  /\ Bill(b)
  /\ LET e == [episode EXCEPT !.forfeited = @ + guard.pending, !.billed = @ + b]
     IN \/ /\ e.attempts < MaxAttempts
           /\ episode' = e /\ run' = [run EXCEPT !.pc = "turn"]
        \/ /\ episode' = [e EXCEPT !.turns = @ + 1, !.attempts = 0]
           /\ run' = [run EXCEPT !.pc = "turn"]
        \/ \E o \in {"ended", "terminal"} : Finish([e EXCEPT !.outcome = o])
  /\ UNCHANGED <<manifest, file>>

Measure(c) ==
  [episode EXCEPT !.usage = @ + c, !.authorised = @ + guard.pending, !.billed = @ + c]

Measured(c) ==
  /\ run.pc = "flight" /\ c <= guard.pending
  /\ guard' = Settle(guard, c)
  /\ Bill(c)
  /\ episode' = [Measure(c) EXCEPT !.turns = @ + 1, !.attempts = 0]
  /\ run' = [run EXCEPT !.pc = "turn"]
  /\ UNCHANGED <<manifest, file>>

Breached(c) ==
  /\ run.pc = "flight" /\ c > guard.pending
  /\ guard' = Settle(guard, c)
  /\ Bill(c)
  /\ Finish([Measure(c) EXCEPT !.outcome = "breach"])
  /\ UNCHANGED <<manifest, file>>

(******************************** Its row **********************************)
ThisRow == Row(episode, guard, Done + 1)

AppendEpisode ==
  /\ run.pc = "append"
  /\ file' = [file EXCEPT !.rows = Append(@, ThisRow)]
  /\ run' = [run EXCEPT !.executed = @ + 1,
                        !.pc = IF episode.outcome \in RunTerminal THEN "report" ELSE "plan"]
  /\ episode' = NewEpisode
  /\ UNCHANGED <<manifest, guard, actual>>

\* What was billed for an episode without a row is lost to the run.
Lose == actual' = [actual EXCEPT !.lost = @ + episode.billed]

Interrupted ==
  /\ Leave
  /\ \E f \in IF run.pc = "append" THEN Leftovers(ThisRow) ELSE {file} :
       /\ file' = f
       /\ IF f.rows = file.rows THEN Lose ELSE UNCHANGED actual
  /\ UNCHANGED manifest

\* LedgerIOError: the row did not become durable, in whole or in part.
AppendFails == run.pc = "append" /\ Interrupted

\* The process is killed; a request in flight may still be billed.
Crash ==
  \/ run.pc \notin {"away", "flight"} /\ Interrupted
  \/ /\ run.pc = "flight"
     /\ Leave
     /\ \E b \in 0 .. guard.pending :
          actual' = [actual EXCEPT !.billed = @ + b, !.lost = @ + episode.billed + b]
     /\ UNCHANGED <<manifest, file>>

Work ==
  \/ Begin \/ Report \/ EpisodeEnds \/ Undispatched \/ AppendEpisode \/ AppendFails
  \/ \E r \in Reservations : Attempt(r) \/ CapReached(r)
  \/ \E c \in 0 .. MaxBill : Unmeasured(c) \/ Measured(c) \/ Breached(c)

Next ==
  \/ Refused \/ (\E stop \in Stops : Open(stop))
  \/ Work \/ Crash

Spec == Init /\ [][Next]_vars
\* An invocation runs to its end unless it is killed; nobody has to start one.
FairSpec == Spec /\ WF_vars(Work)

(****************************** Properties *********************************)
\* While an invocation works, its guard holds what the rows say and what this
\* episode has added, whichever invocation wrote them: recovered_spend, seed
\* and the two totals each row is built from agree.
GuardMatchesRecord ==
  run.pc # "away" =>
    /\ guard.measured = Recovered(file.rows).measured + episode.usage
    /\ guard.exposure = Recovered(file.rows).exposure + episode.forfeited

\* Over all invocations the provider bills no more than the cap, but for bills
\* above their reservation and for episodes that never got their row.
CapHolds == actual.billed <= Cap + actual.overrun + actual.lost

\* The ledger is a prefix of the plan under one execution, each episode once.
LedgerIsAPrefix ==
  /\ Len(file.rows) <= Plan
  /\ \A i \in 1 .. Len(file.rows) :
       file.rows[i].episode = i /\ file.rows[i].execution = manifest

\* Every whole row states costs its reader derives, but for a breach.
RowsAreDerivable ==
  \A i \in 1 .. Len(file.rows) :
    file.rows[i].outcome = "breach" \/ CostAdmissible(file.rows[i])

\* The rows written are the rows a reader accepts.
LedgerIsSound == LedgerIsAPrefix /\ RowsAreDerivable

\* What the guard holds, what the provider billed and what the rows say agree,
\* whichever invocations wrote them and however they ended.
BooksAreTrue == GuardMatchesRecord /\ CapHolds /\ LedgerIsSound

\* After a run-terminal row, or a partial one, the run never spends or writes
\* again: neither this invocation nor any that resumes it.
Sealed == file.torn \/ Terminated(file.rows)
NothingAfterTheEnd == [][Sealed => file' = file /\ actual' = actual]_vars

\* Every invocation ends, by itself or killed, and lets the run lock go.
InvocationEnds == run.pc # "away" ~> run.pc = "away"

\* budget.py:552: a resumed run does not forget what was spent.
CapSurvivesInterruption == actual.billed <= Cap + actual.overrun

\* budget.py, settle: a breach ends as a recorded breach, which a reader accepts.
BreachIsReadable ==
  \A i \in 1 .. Len(file.rows) :
    file.rows[i].outcome = "breach" => CostAdmissible(file.rows[i])
=============================================================================

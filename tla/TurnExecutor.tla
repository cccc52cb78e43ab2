--------------------------- MODULE TurnExecutor ---------------------------
(***************************************************************************)
(* One turn's provider call: TurnExecutor.run, operatebench/providers/     *)
(* executor.py.  A turn is a loop of attempts under one wall-clock budget; *)
(* each attempt is authorised by the cost guard, admitted by a last local  *)
(* check, dispatched, and resolved.  Between two steps the turn waits for  *)
(* the guard, for the local check or for the provider (pc); the deadline   *)
(* may be cancelled at any of them.                                        *)
(*                                                                         *)
(* Time is counted in whole units and passes while the caller prepares the *)
(* request, while a request is in flight and while the loop backs off.  An *)
(* SDK returns within the timeout it was given (external).                 *)
(***************************************************************************)
EXTENDS CostGuard

CONSTANTS
  MaxAttempts, InitialBackoff, Multiplier,   \* ProviderRetryPolicy
  TurnBudget,   \* TurnDeadline.remaining_seconds
  Preparation,  \* what the caller may use up of it before the loop
  MaxOverrun,   \* bound: how far an answer's cost may pass its reservation
  MaxTurns      \* bound: turns of a run

ASSUME ExecutorAssumption ==
  /\ MaxAttempts \in Nat \ {0} /\ InitialBackoff \in Nat /\ Multiplier \in Nat \ {0}
  /\ TurnBudget \in Nat /\ Preparation \subseteq Nat
  /\ MaxOverrun \in Nat /\ MaxTurns \in Nat

VARIABLES
  clock,
  guard,       \* the run's cost guard
  pc,          \* "idle", "top", "admitted", "inflight" or "ended"
  size,        \* of the turn's request
  origin,      \* the instant the budget is counted from
  cancelled,   \* deadline.cancelled()
  attempts, wait, budget,   \* locals of the loop
  record,      \* the telemetry of the turn: its attempts,
  reason,      \* and its terminal reason, "none" before commit
  result,      \* how run left its caller: an answer, or what it raised
  turns,
  sent,        \* tokens exposed in requests that left (external)
  charged,     \* what the provider billed for them (external)
  overrun      \* what measured answers cost beyond their reservations

turnVars == <<size, origin, cancelled, attempts, wait, budget, record, reason, result>>
vars == <<clock, guard, pc, turnVars, turns, sent, charged, overrun>>

Reasons == {"backoff_unaffordable", "cost_cap_exhausted", "deadline_exceeded",
            "fault_not_retryable", "pre_dispatch_refused", "response",
            "retries_exhausted", "unclassified_error"}
\* "answer"; or AdapterProviderError, CostCapExceededError,
\* ProviderConfigurationError, CostReservationBreachedError, another exception
\* after commit, or one that left the loop without commit.
Results == {"answer", "fault", "budget", "refused", "breach", "error", "escaped"}

\* A fault is retryable or final; an exception classify does not know is neither.
Failures == {"retryable", "final", "unclassified"}

Attempt(outcome, settlement) == [outcome |-> outcome, settlement |-> settlement]
Attempts == [outcome : {"fault", "response", "unclassified_error"},
             settlement : {"measured", "forfeited"}]

Price == Reservation[size]

Remaining == TurnBudget - (clock - origin)

\* Mutant: only a cancelled turn is stopped before its first request.
InTimeUnlessCancelled == ~cancelled

InTime == Remaining > 0 /\ ~cancelled

Init ==
  /\ clock = 0 /\ guard = NewGuard /\ pc = "idle"
  /\ size \in Sizes /\ origin = 0 /\ cancelled = FALSE
  /\ attempts = 0 /\ wait = 0 /\ budget = 0
  /\ record = <<>> /\ reason = "none" /\ result = "answer"
  /\ turns = 0 /\ sent = 0 /\ charged = 0 /\ overrun = 0

\* clear, and run up to the loop; the budget runs from before the preparation.
Begin ==
  /\ pc = "idle" /\ turns < MaxTurns
  /\ size' \in Sizes
  /\ origin' = clock
  /\ \E d \in Preparation : clock' = clock + d
  /\ cancelled' = FALSE
  /\ attempts' = 0 /\ wait' = InitialBackoff /\ budget' = 0
  /\ record' = <<>> /\ reason' = "none" /\ result' = "answer"
  /\ turns' = turns + 1
  /\ pc' = "top"
  /\ UNCHANGED <<guard, sent, charged, overrun>>

\* The episode's runner cancels the deadline, whatever the turn is doing.
CancelDeadline ==
  /\ pc \in {"top", "admitted", "inflight"} /\ ~cancelled
  /\ cancelled' = TRUE
  /\ UNCHANGED <<clock, guard, pc, size, origin, attempts, wait, budget, record,
                 reason, result, turns, sent, charged, overrun>>

\* commit: what the turn has done so far is published before anything is raised.
End(why, how) ==
  /\ reason' = why /\ result' = how /\ pc' = "ended"
  /\ UNCHANGED <<size, origin, cancelled, wait, budget>>

OutOfTime ==
  /\ pc = "top" /\ ~InTime
  /\ End("deadline_exceeded", "fault")
  /\ UNCHANGED <<clock, guard, attempts, record, turns, sent, charged, overrun>>

\* Mutant: a refused turn comes round again instead of raising.
CapRefusesForNow ==
  /\ pc = "top" /\ InTime /\ ~Admits(guard, size)
  /\ UNCHANGED vars

CapRefuses ==
  /\ pc = "top" /\ InTime /\ ~Admits(guard, size)
  /\ End("cost_cap_exhausted", "budget")
  /\ UNCHANGED <<clock, guard, attempts, record, turns, sent, charged, overrun>>

\* One reading of the clock fixes the timeout of the attempt.
Reserve ==
  /\ pc = "top" /\ InTime /\ Admits(guard, size)
  /\ guard' = Authorize(guard, size)
  /\ budget' = Remaining
  /\ pc' = "admitted"
  /\ UNCHANGED <<clock, size, origin, cancelled, attempts, wait, record, reason, result,
                 turns, sent, charged, overrun>>

\* check_before_dispatch refuses: no request left, so the reservation is undone.
PreDispatchRefused ==
  /\ pc = "admitted" /\ MayCancel(guard, size)
  /\ guard' = Cancel(guard, size)
  /\ End("pre_dispatch_refused", "refused")
  /\ UNCHANGED <<clock, attempts, record, turns, sent, charged, overrun>>

\* check_before_dispatch fails with an exception that is not a configuration
\* error, as an observer of the Mistral lane may: run catches nothing.
CheckFails ==
  /\ pc = "admitted"
  /\ result' = "escaped" /\ pc' = "ended"
  /\ UNCHANGED <<clock, guard, size, origin, cancelled, attempts, wait, budget, record,
                 reason, turns, sent, charged, overrun>>

Dispatch ==
  /\ pc = "admitted"
  /\ attempts' = attempts + 1
  /\ sent' = sent + Exposure[size]
  /\ pc' = "inflight"
  /\ UNCHANGED <<clock, guard, size, origin, cancelled, wait, budget, record, reason,
                 result, turns, charged, overrun>>

-----------------------------------------------------------------------------
(* What a request in flight meets.  It takes d, and the provider bills c    *)
(* for it whether or not this side learns of it: what is lost is billed at  *)
(* most at the upper bound the request was reserved at.                     *)

InFlight(d, c) ==
  /\ pc = "inflight" /\ d \in 0..budget /\ c >= 0
  /\ charged' = charged + c
  /\ UNCHANGED <<turns, sent, attempts>>

\* The attempt keeps its whole reservation as exposure.
ForfeitAttempt(outcome) ==
  /\ MayRelease(guard, Price)
  /\ guard' = Forfeit(guard, Price)
  /\ record' = Append(record, Attempt(outcome, "forfeited"))
  /\ overrun' = overrun

\* Mutant: the backoff is not compared with what is left.
BackoffFitsAlways(at) == ~cancelled

\* A cancelled turn does not sleep, nor does one the pause would use up.
BackoffFits(at) == ~cancelled /\ wait < TurnBudget - (at - origin)

Retries(kind) == kind = "retryable" /\ attempts < MaxAttempts

DispatchFailed(kind, d, c) ==
  /\ InFlight(d, c) /\ c <= Price
  /\ ForfeitAttempt(IF kind = "unclassified" THEN "unclassified_error" ELSE "fault")

Failed ==
  \E kind \in Failures, d \in 0..budget, c \in 0..Price :
    /\ DispatchFailed(kind, d, c)
    /\ clock' = clock + d
    /\ \/ kind = "unclassified" /\ End("unclassified_error", "error")
       \/ kind = "final" /\ End("fault_not_retryable", "fault")
       \/ kind = "retryable" /\ ~Retries(kind) /\ End("retries_exhausted", "fault")
       \/ /\ Retries(kind) /\ ~BackoffFits(clock + d)
          /\ End(IF cancelled THEN "deadline_exceeded" ELSE "backoff_unaffordable", "fault")

\* The loop sleeps and comes round, with the same request.
BackOff ==
  \E d \in 0..budget, c \in 0..Price :
    /\ DispatchFailed("retryable", d, c)
    /\ Retries("retryable") /\ BackoffFits(clock + d)
    /\ clock' = clock + d + wait
    /\ wait' = wait * Multiplier
    /\ pc' = "top"
    /\ UNCHANGED <<size, origin, cancelled, budget, reason, result>>

\* Mutant: the reservation of an answer that cannot be read is left alone.
AnswerRefusedUnresolved ==
  \E d \in 0..budget, c \in 0..Price :
    /\ InFlight(d, c)
    /\ clock' = clock + d
    /\ record' = Append(record, Attempt("fault", "forfeited"))
    /\ End("fault_not_retryable", "fault")
    /\ UNCHANGED <<guard, overrun>>

\* check_identity, or the reading of the counts, refuses the body.
AnswerRefused ==
  \E d \in 0..budget, c \in 0..Price :
    /\ InFlight(d, c)
    /\ clock' = clock + d
    /\ \/ ForfeitAttempt("fault") /\ End("fault_not_retryable", "fault")
       \/ ForfeitAttempt("unclassified_error") /\ End("unclassified_error", "error")

\* An answer without counts stays exposure.
AnswerUnmeasured ==
  \E d \in 0..budget, c \in 0..Price :
    /\ InFlight(d, c)
    /\ clock' = clock + d
    /\ ForfeitAttempt("response")
    /\ End("response", "answer")

\* An answer with counts settles at what it cost, banked even past what was
\* reserved, which is raised once the attempt is on record.
AnswerMeasured ==
  \E d \in 0..budget, c \in 0..(Price + MaxOverrun) :
    /\ InFlight(d, c) /\ MayRelease(guard, Price)
    /\ clock' = clock + d
    /\ guard' = Settle(guard, Price, c)
    /\ record' = Append(record, Attempt("response", "measured"))
    /\ overrun' = overrun + (IF c > Price THEN c - Price ELSE 0)
    /\ End("response", IF c > Price THEN "breach" ELSE "answer")

\* An operator stop while a request is in flight: run catches no BaseException.
Interrupted ==
  \E d \in 0..budget, c \in 0..Price :
    /\ InFlight(d, c)
    /\ clock' = clock + d
    /\ result' = "escaped" /\ pc' = "ended"
    /\ UNCHANGED <<guard, size, origin, cancelled, wait, budget, record, reason, overrun>>

-----------------------------------------------------------------------------
\* Whoever keeps the evidence takes the guard's events once per turn.
Observe ==
  /\ pc = "ended" /\ result # "escaped"
  /\ guard' = TakeEvents(guard)
  /\ pc' = "idle"
  /\ UNCHANGED <<clock, turnVars, turns, sent, charged, overrun>>

Loop == OutOfTime \/ CapRefuses \/ Reserve \/ PreDispatchRefused \/ CheckFails \/ Dispatch
          \/ Failed \/ BackOff \/ AnswerRefused \/ AnswerUnmeasured \/ AnswerMeasured
          \/ Interrupted

Next == Begin \/ CancelDeadline \/ Loop \/ Observe

Spec == Init /\ [][Next]_vars

\* The loop runs on and the SDK returns within its timeout; nobody has to
\* begin a turn or cancel a deadline.
FairSpec == Spec /\ WF_vars(Loop)
-----------------------------------------------------------------------------
(* Properties.                                                              *)

\* The locals of run, the guard and the telemetry have the types the code gives
\* them.
TypeOK ==
  /\ clock \in Nat /\ turns \in 0..MaxTurns
  /\ guard \in [measured : Nat, forfeited : Nat, outstanding : Nat, reserved : Nat,
                tokens : Nat, pending : [Amounts -> Seq(Nat)],
                events : Seq([kind : {"measured", "forfeited"}, amount : Nat])]
  /\ pc \in {"idle", "top", "admitted", "inflight", "ended"}
  /\ size \in Sizes /\ origin \in Nat /\ cancelled \in BOOLEAN
  /\ attempts \in 0..MaxAttempts /\ wait \in Nat /\ budget \in Nat
  /\ record \in Seq(Attempts)
  /\ reason \in Reasons \cup {"none"} /\ result \in Results
  /\ sent \in Nat /\ charged \in Nat /\ overrun \in Nat

\* The cap holds for what the provider really bills, lost answers included:
\* what the guard committed covers it, and stays under the cap but for answers
\* that cost more than they were reserved at, each on record (authorize, settle,
\* forfeit, cancel).
SpendIsCovered ==
  /\ charged <= Committed(guard)
  /\ Committed(guard) <= Cap + overrun

\* The token ceiling counts the requests that left and the one about to, no
\* more and no less, whichever were refused or undone before; and what a
\* release asks for is always there, so _release never has to refuse.
ExposureIsExact ==
  /\ guard.tokens <= TokenCap
  /\ pc # "ended" => guard.tokens = sent + (IF pc = "admitted" THEN Exposure[size] ELSE 0)
  /\ pc \in {"admitted", "inflight"} => MayCancel(guard, size)
  /\ pc \in {"idle", "top"} => guard.outstanding = 0 /\ \A a \in Amounts : ~MayRelease(guard, a)

\* Money and tokens, billed or in flight, are what the guard says they are.
GuardIsExact == SpendIsCovered /\ ExposureIsExact

\* "Every other exit from this loop resolves that reservation, publishes one
\* attempt and names a terminal reason before it raises": an exit run knows
\* leaves nothing outstanding, one attempt per request sent, and for each
\* attempt, in order, the guard's event that says how it was settled.
EveryExitIsAccounted ==
  (pc = "ended" /\ result # "escaped") =>
    /\ reason # "none"
    /\ guard.outstanding = 0
    /\ Len(record) = attempts /\ Len(guard.events) = attempts
    /\ \A i \in 1..attempts : record[i].settlement = guard.events[i].kind

\* Retrying never extends the turn: a request is given a timeout that ends with
\* the turn's budget, however long preparation, earlier attempts and pauses
\* took, and a pause is taken only if it leaves time for a request.
TurnKeepsItsBudget ==
  /\ pc = "inflight" => budget > 0 /\ clock + budget <= origin + TurnBudget
  /\ pc = "top" /\ attempts > 0 => Remaining > 0
  /\ pc = "ended" /\ attempts > 0 => clock <= origin + TurnBudget

\* Every turn ends, whatever fails and however often.
TurnEnds == pc = "top" ~> pc = "ended"

\* The run's guard keeps the promise of a spending cap.
Promise == INSTANCE SpendingCap WITH
             spent <- guard.measured + guard.forfeited, held <- guard.outstanding
KeepsTheCap == Promise!Spec
=============================================================================

---------------------------- MODULE Maintenance ----------------------------
(***************************************************************************)
(* The maintenance operation, domains/lettings/maintenance/operation.py,   *)
(* over the record of state.py: a reported issue, the work cycles it goes  *)
(* through, quotes and human approvals, invoices and one payment, duties   *)
(* the operation owes, a provisional close with a confirmation window, and *)
(* the timers that drive all of it.                                        *)
(*                                                                         *)
(* The operation is a passive record: events of the world and actions of   *)
(* the agent arrive one at a time, each is accepted whole or refused       *)
(* without a trace.  Here any authored event of the catalogues and any     *)
(* action may come at any instant, and refusals are no step.  A timer is   *)
(* delivered at its instant, in queue order, refused or not.  The engine   *)
(* hands nothing to a replay-final operation, so the model stops there.    *)
(*                                                                         *)
(* Evidence references are the agent's choice, and an action refused for   *)
(* them is no step either.  Actor authority, payload schemas, currencies   *)
(* and observational assertions change no state of the model.              *)
(***************************************************************************)
EXTENDS EventQueue, Sequences

CONSTANTS
  MaxCycle, MaxCheckpoint,   \* bounds: cycles and checkpoints are numbered
  Quotes, QuoteOf,        \* authored quotes, each one version of one quote
  Invoices, InvoiceOf,    \* authored invoices
  Scopes, NoScope,        \* digests of what work covers; none recorded yet
  Threshold,              \* approval_threshold_minor
  ReminderAfter, DeadlineAfter, Validity, CloseAfter, FollowupAfter,  \* policy
  Horizon,                \* bound on the clock
  World,                  \* what the authored events of the scenario may answer
  DispatchFailures,       \* the dispatches of this scenario that fail
  Recovery                \* operation version 0.7.0: a secondary channel exists

Cycles == 1..MaxCycle
FirstCycle == 1
NoCycle == 0
Checkpoints == 1..MaxCheckpoint

QuoteTerms == [quote : STRING, version : Nat, cycle : Cycles, amount : Nat, scope : Scopes]
InvoiceTerms == [cycle : Cycles, quote : Quotes, amount : Nat]

ASSUME MaintenanceAssumption ==
  /\ MaxCycle \in Nat \ {0} /\ MaxCheckpoint \in Nat
  /\ QuoteOf \in [Quotes -> QuoteTerms]
  /\ \A q \in Quotes : QuoteOf[q].amount > 0
  /\ InvoiceOf \in [Invoices -> InvoiceTerms]
  /\ NoScope \notin Scopes
  /\ Threshold \in Nat /\ Horizon \in Nat
  /\ {ReminderAfter, DeadlineAfter, Validity, CloseAfter, FollowupAfter} \subseteq Nat \ {0}
  /\ DispatchFailures \subseteq {"completion", "transfer", "reminder", "secondary"}
  /\ Recovery \in BOOLEAN

VARIABLES
  now, queue, timerCount,  \* the engine's clock, its queue and its timer counter
  failed,        \* a DuplicateEventError escaped and the run is over
  phase, reported, resolution,
  current,       \* current_cycle_id
  cycles, quotes, approvals, exceptions,
  owner,         \* has an operator taken ownership?
  invoices, payment, obligations,
  notices,       \* the dispatched messages that matter, see SendMessage
  closing,       \* provisional_close
  terminal       \* terminal, and with it replay_final

worldVars == <<now, queue, timerCount, failed>>
workVars == <<phase, reported, resolution, current, cycles>>
humanVars == <<quotes, approvals, exceptions, owner>>
moneyVars == <<invoices, payment>>
dutyVars == <<obligations, notices>>
endVars == <<closing, terminal>>
vars == <<worldVars, workVars, humanVars, moneyVars, dutyVars, endVars>>

Phases == {"NEW", "ACTIVE", "WAITING_VISIT", "WAITING_APPROVAL", "WAITING_EXCEPTION",
           "PROVISIONALLY_CLOSED", "FINALIZED", "TRANSFERRED_TO_HUMAN"}
Kinds == {"ABSENT", "DIAGNOSTIC", "APPROVED_WORK", "WARRANTY_REVISIT"}
Visits == {"NONE", "REQUESTED", "SCHEDULED", "DECLINED", "ATTENDED", "WORK_REPORTED",
           "WORK_VERIFIED"}

Absent == [kind |-> "ABSENT", parent |-> NoCycle, scope |-> NoScope, visit |-> "NONE"]
NewCycle(kind, parent, scope) == [Absent EXCEPT !.kind = kind, !.parent = parent, !.scope = scope]
Exists(c) == c \in Cycles /\ cycles[c].kind # "ABSENT"
Verified(c) == cycles[c].visit = "WORK_VERIFIED"
RequiresPayment(c) == cycles[c].kind = "APPROVED_WORK"

VisitTimer(c) == <<"visit", c>>
ReminderTimer(k) == <<"reminder", k>>
DeadlineTimer(k) == <<"deadline", k>>
CloseTimer(c) == <<"close", c>>

VisitDuty(c) == <<"visit_progress", c>>
NoticeDuty(c) == <<"completion_notice", c>>
ReminderDuty(k) == <<"approval_reminder", k>>
DecisionDuty(k) == <<"approval_decision", k>>
Duties == {VisitDuty(c) : c \in Cycles} \cup {NoticeDuty(c) : c \in Cycles}
            \cup {ReminderDuty(k) : k \in Checkpoints} \cup {DecisionDuty(k) : k \in Checkpoints}

\* _open_obligation: an identity opens once.
Opened(duties) ==
  [d \in Duties |-> IF d \in duties /\ obligations[d] = "ABSENT" THEN "OPEN" ELSE obligations[d]]

\* _close_obligation: only an open one changes.
Closed(os, duties, status) ==
  [d \in Duties |-> IF d \in duties /\ os[d] = "OPEN" THEN status ELSE os[d]]

OpenApprovals == {k \in Checkpoints : approvals[k].status = "OPEN"}
OpenExceptions == {k \in Checkpoints : exceptions[k] = "OPEN"}
NoBlockingCheckpoint == OpenApprovals = {} /\ OpenExceptions = {}
Final == terminal # "none"
Running == ~Final /\ ~failed

\* Authored scenarios open with the report of the issue; what a supplier sends of
\* its own accord comes after it.
UnderWay == Running /\ reported

-----------------------------------------------------------------------------
Init ==
  /\ now = 0 /\ queue = EmptyQueue /\ timerCount = 0 /\ failed = FALSE
  /\ phase = "NEW" /\ reported = FALSE /\ resolution = "UNCONFIRMED"
  /\ current = NoCycle
  /\ cycles = [c \in Cycles |-> Absent]
  /\ quotes = [q \in Quotes |-> [status |-> "ABSENT", until |-> 0]]
  /\ approvals = [k \in Checkpoints |->
                    [status |-> "ABSENT", quote |-> "none", deadline |-> 0, fired |-> FALSE]]
  /\ exceptions = [k \in Checkpoints |-> "ABSENT"]
  /\ owner = FALSE
  /\ invoices = [i \in Invoices |-> "ABSENT"]
  /\ payment = [status |-> "NOT_REQUESTED", invoice |-> "none", cycle |-> NoCycle]
  /\ obligations = [d \in Duties |-> "ABSENT"]
  /\ notices = {}
  /\ closing = [cycle |-> NoCycle, until |-> 0]
  /\ terminal = "none"

\* A timer to arm: an identity and a delay.
Timing(id, delay) == [id |-> id, delay |-> delay]

\* Mutant: timers are numbered like authored events.
ArmedFromOne(timers) ==
  {Entry(timers[i].id, now + timers[i].delay, timerCount + i) : i \in DOMAIN timers}

\* context.schedule_timer for each of a sequence of timers in turn.
Armed(timers) ==
  {Entry(timers[i].id, now + timers[i].delay, TimerBase + timerCount + i) : i \in DOMAIN timers}

\* Arms timers and opens the duties that go with them.  An identity already used
\* raises out of the run: the record keeps what was written before the call, and
\* the duties are not opened.
Arm(timers, duties) ==
  /\ timerCount' = timerCount + Len(timers)
  /\ IF MaySchedule(queue, Armed(timers))
       THEN /\ queue' = Schedule(queue, Armed(timers))
            /\ obligations' = Opened(duties)
            /\ failed' = FALSE
       ELSE /\ failed' = TRUE
            /\ UNCHANGED <<queue, obligations>>

Disarm(ids) == queue' = Cancel(queue, ids) /\ UNCHANGED timerCount

-----------------------------------------------------------------------------
(* The visit of a cycle.  A visit identity is allocated once per cycle, so  *)
(* the visit is the cycle's here.                                           *)

MoveVisit(c, from, to) ==
  /\ cycles[c].visit \in from
  /\ cycles' = [cycles EXCEPT ![c].visit = to]

IssueReported ==
  /\ Running /\ ~reported
  /\ reported' = TRUE
  /\ cycles' = [cycles EXCEPT ![FirstCycle] = NewCycle("DIAGNOSTIC", NoCycle, NoScope)]
  /\ current' = FirstCycle /\ phase' = "ACTIVE"
  /\ UNCHANGED <<worldVars, resolution, humanVars, moneyVars, dutyVars, endVars>>

\* Mutant: any cycle may be visited on request.
NoApprovalNeeded(c) == FALSE

\* An approved-work visit is created by authorising it, never by asking for it.
NeedsAuthorisation(c) == cycles[c].kind = "APPROVED_WORK"

\* _act_request_visit and _arm_visit_followup
RequestVisit(c) ==
  /\ Running
  /\ Exists(c) /\ c = current
  /\ ~NeedsAuthorisation(c)
  /\ MoveVisit(c, {"NONE"}, "REQUESTED")
  /\ phase' = "WAITING_VISIT"
  /\ Arm(<<Timing(VisitTimer(c), FollowupAfter)>>, {VisitDuty(c)})
  /\ UNCHANGED <<now, reported, resolution, current, humanVars, moneyVars, notices, endVars>>

VisitResponse(c) ==
  /\ Running
  /\ \E response \in {"SCHEDULED", "DECLINED"} \cap World : MoveVisit(c, {"REQUESTED"}, response)
  /\ UNCHANGED <<worldVars, phase, reported, resolution, current, humanVars, moneyVars,
                 dutyVars, endVars>>

AttendanceVerified(c) ==
  /\ Running
  /\ MoveVisit(c, {"SCHEDULED"}, "ATTENDED")
  /\ Disarm({VisitTimer(c)})
  /\ obligations' = Closed(obligations, {VisitDuty(c)}, "DISCHARGED")
  /\ UNCHANGED <<now, failed, phase, reported, resolution, current, humanVars, moneyVars,
                 notices, endVars>>

\* The supplier's report: a claim, and the scope of the work if none is known.
WorkReported(c, scope) ==
  /\ Running
  /\ cycles[c].visit = "ATTENDED" /\ "WORK_REPORTED" \in World
  /\ cycles' = [cycles EXCEPT ![c].visit = "WORK_REPORTED",
                              ![c].scope = IF @ = NoScope THEN scope ELSE @]
  /\ UNCHANGED <<worldVars, phase, reported, resolution, current, humanVars, moneyVars,
                 dutyVars, endVars>>

\* Mutant: different scope is not new work.
AnyScope(c, scope) == TRUE

\* A warranty revisit must repeat the scope of the work it follows.
ScopeAdmitted(c, scope) ==
  cycles[c].kind = "WARRANTY_REVISIT" =>
    Exists(cycles[c].parent) /\ cycles[cycles[c].parent].scope = scope

WorkEvidence(c, scope) ==
  /\ Running
  /\ ScopeAdmitted(c, scope)
  /\ MoveVisit(c, {"ATTENDED", "WORK_REPORTED"}, "WORK_VERIFIED")
  /\ obligations' = Opened(IF RequiresPayment(c) THEN {} ELSE {NoticeDuty(c)})
  /\ UNCHANGED <<worldVars, phase, reported, resolution, current, humanVars, moneyVars,
                 notices, endVars>>

\* The timer breaches the duty if it is still open and touches nothing else.
VisitFollowupDue(e) ==
  /\ Running
  /\ \E c \in Cycles :
       /\ e.id = VisitTimer(c)
       /\ obligations' = IF Exists(c) THEN Closed(obligations, {VisitDuty(c)}, "BREACHED")
                                      ELSE obligations
  /\ queue' = Pop(queue, e)
  /\ UNCHANGED <<now, timerCount, failed, workVars, humanVars, moneyVars, notices, endVars>>

-----------------------------------------------------------------------------
(* Quotes and the human approval of one exact quote version.                *)

\* A quote opens the payable cycle it names unless that cycle is there already,
\* and the operation turns to that cycle whatever phase it is in.
QuoteReceived(q) ==
  LET terms == QuoteOf[q]
  IN /\ UnderWay
     /\ quotes[q].status = "ABSENT"
     /\ quotes' = [quotes EXCEPT ![q] = [status |-> "RECEIVED", until |-> now + Validity]]
     /\ cycles' = IF Exists(terms.cycle) THEN cycles
                  ELSE [cycles EXCEPT ![terms.cycle] =
                          NewCycle("APPROVED_WORK", NoCycle, terms.scope)]
     /\ current' = terms.cycle
     /\ UNCHANGED <<worldVars, phase, reported, resolution, approvals, exceptions, owner,
                    moneyVars, dutyVars, endVars>>

\* _allocate_checkpoint_id: approvals and exceptions share one numbering.
NextCheckpoint ==
  1 + Cardinality({k \in Checkpoints : approvals[k].status # "ABSENT" \/ exceptions[k] # "ABSENT"})

\* Mutant: the same quote version may be put to the approver again.
AlwaysUnasked(q) == TRUE

Unasked(q) == \A k \in Checkpoints : approvals[k].quote # q

\* Mutants: no reminder is armed; the two delays are swapped; no deadline is armed.
WithoutReminder(k) == <<Timing(DeadlineTimer(k), DeadlineAfter)>>
SwappedTimers(k) ==
  <<Timing(ReminderTimer(k), DeadlineAfter), Timing(DeadlineTimer(k), ReminderAfter)>>
WithoutDeadline(k) == <<Timing(ReminderTimer(k), ReminderAfter)>>

CheckpointTimers(k) ==
  <<Timing(ReminderTimer(k), ReminderAfter), Timing(DeadlineTimer(k), DeadlineAfter)>>

RequestApproval(q) ==
  LET k == NextCheckpoint
  IN /\ Running /\ k \in Checkpoints
     /\ quotes[q].status = "RECEIVED"
     /\ QuoteOf[q].amount > Threshold
     /\ Unasked(q)
     /\ approvals' = [approvals EXCEPT ![k] =
          [status |-> "OPEN", quote |-> q, deadline |-> now + DeadlineAfter, fired |-> FALSE]]
     /\ phase' = "WAITING_APPROVAL"
     /\ Arm(CheckpointTimers(k), {ReminderDuty(k), DecisionDuty(k)})
     /\ UNCHANGED <<now, reported, resolution, current, cycles, quotes, exceptions, owner,
                    moneyVars, notices, endVars>>

ReminderDue(e) ==
  /\ Running
  /\ \E k \in Checkpoints :
       /\ e.id = ReminderTimer(k)
       /\ approvals' = IF k \in OpenApprovals THEN [approvals EXCEPT ![k].fired = TRUE]
                                              ELSE approvals
  /\ queue' = Pop(queue, e)
  /\ UNCHANGED <<now, timerCount, failed, workVars, quotes, exceptions, owner, moneyVars,
                 dutyVars, endVars>>

\* The approver answers while the checkpoint is open and its deadline not past.
ApproverDecision(k, answer) ==
  /\ Running
  /\ k \in OpenApprovals /\ answer \in World
  /\ now <= approvals[k].deadline
  /\ approvals' = [approvals EXCEPT ![k].status = answer]
  /\ quotes' = [quotes EXCEPT ![approvals[k].quote].status = answer]
  /\ phase' = "ACTIVE"
  /\ Disarm({ReminderTimer(k), DeadlineTimer(k)})
  /\ obligations' = Closed(Closed(obligations, {ReminderDuty(k)}, "CANCELLED"),
                           {DecisionDuty(k)}, "DISCHARGED")
  /\ UNCHANGED <<now, failed, reported, resolution, current, cycles, exceptions, owner,
                 moneyVars, notices, endVars>>

\* The deadline passes unanswered.  The phase stays what it was.
DeadlineDue(e) ==
  /\ Running
  /\ \E k \in Checkpoints :
       /\ e.id = DeadlineTimer(k)
       /\ IF k \in OpenApprovals
            THEN /\ approvals' = [approvals EXCEPT ![k].status = "EXPIRED"]
                 /\ quotes' = [quotes EXCEPT ![approvals[k].quote].status = "EXPIRED"]
                 /\ queue' = Cancel(Pop(queue, e), {ReminderTimer(k)})
                 /\ obligations' = Closed(obligations, {ReminderDuty(k), DecisionDuty(k)},
                                          "CANCELLED")
            ELSE queue' = Pop(queue, e) /\ UNCHANGED <<approvals, quotes, obligations>>
  /\ UNCHANGED <<now, timerCount, failed, workVars, exceptions, owner, moneyVars, notices,
                 endVars>>

\* Authorising the approved work books its visit.
AuthoriseSupplierWork(k) ==
  LET q == approvals[k].quote
      c == QuoteOf[q].cycle
  IN /\ Running
     /\ approvals[k].status = "APPROVED"
     /\ quotes[q].status = "APPROVED" /\ now <= quotes[q].until
     /\ MoveVisit(c, {"NONE"}, "SCHEDULED")
     /\ current' = c /\ phase' = "WAITING_VISIT"
     /\ Arm(<<Timing(VisitTimer(c), FollowupAfter)>>, {VisitDuty(c)})
     /\ UNCHANGED <<now, reported, resolution, humanVars, moneyVars, notices, endVars>>

\* An exception needs a checkpoint that was rejected or expired to point at.
RequestExceptionResolution ==
  LET k == NextCheckpoint
  IN /\ Running /\ k \in Checkpoints
     /\ OpenExceptions = {}
     /\ \E j \in Checkpoints : approvals[j].status \in {"REJECTED", "EXPIRED"}
     /\ exceptions' = [exceptions EXCEPT ![k] = "OPEN"]
     /\ phase' = "WAITING_EXCEPTION"
     /\ UNCHANGED <<worldVars, reported, resolution, current, cycles, quotes, approvals, owner,
                    moneyVars, dutyVars, endVars>>

OperatorResolution(k, decision) ==
  /\ Running
  /\ k \in OpenExceptions /\ decision \in World
  /\ exceptions' = [exceptions EXCEPT ![k] = "RESOLVED"]
  /\ owner' = (owner \/ decision = "TAKE_OWNERSHIP")
  /\ phase' = "ACTIVE"
  /\ UNCHANGED <<worldVars, reported, resolution, current, cycles, quotes, approvals,
                 moneyVars, dutyVars, endVars>>

-----------------------------------------------------------------------------
(* Invoices and the one payment of the operation.                           *)

MoveInvoice(i, from, to) ==
  invoices[i] = from /\ invoices' = [invoices EXCEPT ![i] = to]

\* An invoice is kept whatever the state of the work: received is not payable.
InvoiceReceived(i) ==
  /\ UnderWay
  /\ MoveInvoice(i, "ABSENT", "RECEIVED_UNVALIDATED")
  /\ UNCHANGED <<worldVars, workVars, humanVars, payment, dutyVars, endVars>>

\* The invoice bills verified work under an approved quote, on its exact terms.
Billable(i) ==
  LET bill == InvoiceOf[i]
      terms == QuoteOf[bill.quote]
  IN /\ Exists(bill.cycle) /\ Verified(bill.cycle)
     /\ quotes[bill.quote].status = "APPROVED"
     /\ bill.amount = terms.amount /\ bill.cycle = terms.cycle

RequestInvoiceValidation(i) ==
  /\ Running
  /\ Billable(i)
  /\ MoveInvoice(i, "RECEIVED_UNVALIDATED", "VALIDATION_REQUESTED")
  /\ UNCHANGED <<worldVars, workVars, humanVars, payment, dutyVars, endVars>>

InvoiceValidation(i) ==
  /\ Running
  /\ \E verdict \in {"VALIDATED", "INVALID"} \cap World :
       MoveInvoice(i, "VALIDATION_REQUESTED", verdict)
  /\ UNCHANGED <<worldVars, workVars, humanVars, payment, dutyVars, endVars>>

RequestPayment(i) ==
  LET c == InvoiceOf[i].cycle
  IN /\ Running
     /\ payment.status = "NOT_REQUESTED"
     /\ Exists(c) /\ RequiresPayment(c) /\ Verified(c)
     /\ invoices[i] = "VALIDATED"
     /\ payment' = [status |-> "REQUESTED", invoice |-> i, cycle |-> c]
     /\ UNCHANGED <<worldVars, workVars, humanVars, invoices, dutyVars, endVars>>

\* Mutant: settling owes the customer nothing.
NothingOwed == {}

\* What a settlement owes: telling the customer that the paid cycle is done.
OwedOnSettlement == {NoticeDuty(payment.cycle)}

Settlement ==
  /\ Running
  /\ payment.status = "REQUESTED" /\ invoices[payment.invoice] = "VALIDATED"
  /\ payment' = [payment EXCEPT !.status = "SETTLED"]
  /\ obligations' = Opened(OwedOnSettlement)
  /\ UNCHANGED <<worldVars, workVars, humanVars, invoices, notices, endVars>>

-----------------------------------------------------------------------------
(* Messages.  A dispatch that fails still commits the attempt; which fail is *)
(* fixed for a scenario, so a row is what was sent about which cycle and on  *)
(* which channel.                                                            *)

Sent(fixture, c, channel) == [fixture |-> fixture, cycle |-> c, channel |-> channel]
Delivers(row) ==
  (IF row.channel = "secondary" THEN "secondary" ELSE row.fixture) \notin DispatchFailures

\* _delivered_notice
Delivered(fixture, c) ==
  \E row \in notices : row.fixture = fixture /\ row.cycle = c /\ Delivers(row)

\* A notice may name a cycle that is not verified, not current or not there yet.
SendCompletionNotice(c) ==
  LET row == Sent("completion", c, "primary")
  IN /\ Running /\ reported
     /\ notices' = notices \cup {row}
     /\ obligations' = IF Delivers(row) /\ Exists(c)
                         THEN Closed(obligations, {NoticeDuty(c)}, "DISCHARGED")
                         ELSE obligations
     /\ UNCHANGED <<worldVars, workVars, humanVars, moneyVars, endVars>>

\* On the primary channel, or as the recovery of one failed attempt there.
SendTransferNotice(channel) ==
  /\ Running /\ reported /\ owner
  /\ channel = "secondary" =>
       /\ Recovery
       /\ Sent("transfer", current, "primary") \in notices
       /\ "transfer" \in DispatchFailures
       /\ ~Delivered("transfer", current)
  /\ notices' = notices \cup {Sent("transfer", current, channel)}
  /\ UNCHANGED <<worldVars, workVars, humanVars, moneyVars, obligations, endVars>>

\* A reminder reaches every open, due checkpoint of the cycle it names.
SendReminder(c) ==
  LET due == {k \in OpenApprovals : approvals[k].fired /\ QuoteOf[approvals[k].quote].cycle = c}
  IN /\ Running
     /\ due # {}
     /\ obligations' = IF "reminder" \in DispatchFailures THEN obligations
                       ELSE Closed(obligations, {ReminderDuty(k) : k \in due}, "DISCHARGED")
     /\ UNCHANGED <<worldVars, workVars, humanVars, moneyVars, notices, endVars>>

-----------------------------------------------------------------------------
(* The end: two doors, and a confirmation window behind one of them.        *)

NoOpenDuty == \A d \in Duties : obligations[d] # "OPEN"

\* apply_terminal
MayComplete ==
  Running /\ phase # "PROVISIONALLY_CLOSED" /\ NoBlockingCheckpoint /\ NoOpenDuty

CompleteByTransfer ==
  /\ MayComplete /\ owner
  /\ Delivered("transfer", current)
  /\ payment.status = "NOT_REQUESTED"
  /\ phase' = "TRANSFERRED_TO_HUMAN" /\ terminal' = "transferred"
  /\ UNCHANGED <<worldVars, reported, resolution, current, cycles, humanVars, moneyVars,
                 dutyVars, closing>>

\* Every invoice of the cycle is validated, there is one, and payment settled.
PaidFor(c) ==
  LET bills == {i \in Invoices : invoices[i] # "ABSENT" /\ InvoiceOf[i].cycle = c}
  IN bills # {} /\ (\A i \in bills : invoices[i] = "VALIDATED") /\ payment.status = "SETTLED"

\* Mutants: the timer outlasts the window; the window has no timer.
LateTimer(c) == <<Timing(CloseTimer(c), CloseAfter + 1)>>
NoTimer(c) == <<>>

WindowTimer(c) == <<Timing(CloseTimer(c), CloseAfter)>>

CompleteProvisionally ==
  /\ MayComplete /\ ~owner
  /\ Exists(current) /\ Verified(current)
  /\ RequiresPayment(current) => PaidFor(current)
  /\ resolution # "PERSISTS"
  /\ Delivered("completion", current)
  /\ phase' = "PROVISIONALLY_CLOSED"
  /\ closing' = [cycle |-> current, until |-> now + CloseAfter]
  /\ Arm(WindowTimer(current), {})
  /\ UNCHANGED <<now, reported, resolution, current, cycles, humanVars, moneyVars, notices,
                 terminal>>

\* The report is outside the window or does not concern it.
CustomerResolution(status) ==
  /\ Running /\ status \in World
  /\ phase # "NEW"
  /\ phase = "PROVISIONALLY_CLOSED" => status = "RESOLVED"
  /\ resolution' = status
  /\ UNCHANGED <<worldVars, phase, reported, current, cycles, humanVars, moneyVars, dutyVars,
                 endVars>>

\* Mutant: the new cycle takes the number of the last one.
LastCycleNumber == Cardinality({c \in Cycles : Exists(c)})

\* A reopening names its cycle after the number of cycles there are.
NextCycle == 1 + Cardinality({c \in Cycles : Exists(c)})

\* _reopen
Reopen ==
  LET c == NextCycle
      closed == closing.cycle
  IN /\ Running /\ "PERSISTS" \in World /\ c \in Cycles
     /\ phase = "PROVISIONALLY_CLOSED" /\ now <= closing.until
     /\ Disarm({CloseTimer(closed)})
     /\ cycles' = [cycles EXCEPT ![c] =
                     NewCycle("WARRANTY_REVISIT", closed, cycles[closed].scope)]
     /\ current' = c /\ resolution' = "PERSISTS" /\ phase' = "ACTIVE"
     /\ closing' = [cycle |-> NoCycle, until |-> 0]
     /\ UNCHANGED <<now, failed, reported, humanVars, moneyVars, dutyVars, terminal>>

\* provisional_close_expired: whichever window the timer was armed for.
ProvisionalExpired(e) ==
  /\ Running
  /\ e.id \in {CloseTimer(c) : c \in Cycles}
  /\ queue' = Pop(queue, e)
  /\ IF phase = "PROVISIONALLY_CLOSED" /\ resolution # "PERSISTS" /\ NoBlockingCheckpoint
       THEN phase' = "FINALIZED" /\ terminal' = "completed"
       ELSE UNCHANGED <<phase, terminal>>
  /\ UNCHANGED <<now, timerCount, failed, reported, resolution, current, cycles, humanVars,
                 moneyVars, dutyVars, closing>>

-----------------------------------------------------------------------------
DueTimers == {e \in Upcoming(queue) : e.at = now}

\* Time passes only when nothing is due now.
Advance ==
  /\ Running /\ DueTimers = {} /\ now < Horizon
  /\ now' = now + 1
  /\ UNCHANGED <<queue, timerCount, failed, workVars, humanVars, moneyVars, dutyVars, endVars>>

Timer ==
  \E e \in DueTimers :
    VisitFollowupDue(e) \/ ReminderDue(e) \/ DeadlineDue(e) \/ ProvisionalExpired(e)

Event ==
  \/ IssueReported \/ Settlement \/ Reopen
  \/ \E c \in Cycles : VisitResponse(c) \/ AttendanceVerified(c)
  \/ \E c \in Cycles, scope \in Scopes : WorkReported(c, scope) \/ WorkEvidence(c, scope)
  \/ \E q \in Quotes : QuoteReceived(q)
  \/ \E k \in Checkpoints, answer \in {"APPROVED", "REJECTED"} : ApproverDecision(k, answer)
  \/ \E k \in Checkpoints, decision \in {"TAKE_OWNERSHIP", "AUTHORISE_ALTERNATIVE"} :
       OperatorResolution(k, decision)
  \/ \E i \in Invoices : InvoiceReceived(i) \/ InvoiceValidation(i)
  \/ \E status \in {"RESOLVED", "PERSISTS"} : CustomerResolution(status)

Action ==
  \/ \E c \in Cycles : RequestVisit(c) \/ SendCompletionNotice(c) \/ SendReminder(c)
  \/ \E q \in Quotes : RequestApproval(q)
  \/ \E k \in Checkpoints : AuthoriseSupplierWork(k)
  \/ \E channel \in {"primary", "secondary"} : SendTransferNotice(channel)
  \/ \E i \in Invoices : RequestInvoiceValidation(i) \/ RequestPayment(i)
  \/ RequestExceptionResolution \/ CompleteByTransfer \/ CompleteProvisionally

Next == Advance \/ Timer \/ Event \/ Action

Spec == Init /\ [][Next]_vars

\* The engine's loop takes the next event or advances to it for as long as the
\* operation is not final, so time and due timers are not held up for ever.
FairSpec == Spec /\ WF_vars(Advance) /\ WF_vars(Timer)

-----------------------------------------------------------------------------
\* Every variable has its type, and the queued timers are the operation's own,
\* numbered by the counter and not overdue (the whole record of state.py).
TypeOK ==
  /\ now \in 0..Horizon /\ timerCount \in Nat /\ failed \in BOOLEAN
  /\ \A e \in queue.pending :
       /\ e.id \in ({"visit", "close"} \X Cycles) \cup ({"reminder", "deadline"} \X Checkpoints)
       /\ e.at \in Nat /\ e.at >= now
       /\ e.seq \in (TimerBase + 1)..(TimerBase + timerCount)
  /\ PendingIds(queue) \subseteq queue.seen
  /\ phase \in Phases /\ reported \in BOOLEAN
  /\ resolution \in {"UNCONFIRMED", "RESOLVED", "PERSISTS"}
  /\ current \in Cycles \cup {NoCycle}
  /\ cycles \in [Cycles -> [kind : Kinds, parent : Cycles \cup {NoCycle},
                            scope : Scopes \cup {NoScope}, visit : Visits]]
  /\ quotes \in [Quotes -> [status : {"ABSENT", "RECEIVED", "APPROVED", "REJECTED", "EXPIRED"},
                            until : Nat]]
  /\ approvals \in [Checkpoints ->
       [status : {"ABSENT", "OPEN", "APPROVED", "REJECTED", "EXPIRED"},
        quote : Quotes \cup {"none"}, deadline : Nat, fired : BOOLEAN]]
  /\ exceptions \in [Checkpoints -> {"ABSENT", "OPEN", "RESOLVED"}]
  /\ owner \in BOOLEAN
  /\ invoices \in [Invoices -> {"ABSENT", "RECEIVED_UNVALIDATED", "VALIDATION_REQUESTED",
                                "VALIDATED", "INVALID"}]
  /\ payment \in [status : {"NOT_REQUESTED", "REQUESTED", "SETTLED"},
                  invoice : Invoices \cup {"none"}, cycle : Cycles \cup {NoCycle}]
  /\ obligations \in [Duties -> {"ABSENT", "OPEN", "DISCHARGED", "CANCELLED", "BREACHED"}]
  /\ closing \in [cycle : Cycles \cup {NoCycle}, until : Nat]
  /\ terminal \in {"none", "completed", "transferred"}

\* The operation owes progress on a visit exactly while its follow-up timer is
\* pending: no follow-up is lost and none fires on a visit that was attended.
VisitsAreFollowedUp ==
  ~failed => \A c \in Cycles :
    obligations[VisitDuty(c)] = "OPEN" <=> VisitTimer(c) \in PendingIds(queue)

\* An approval is open exactly while its deadline is pending, at the instant the
\* record states, and while the decision is owed; its reminder is pending exactly
\* while it is open and not reminded.  Nothing is owed about a closed approval.
DecisionsAreTimed ==
  \A k \in Checkpoints :
    LET open == k \in OpenApprovals
        pending(id) == id \in PendingIds(queue)
    IN /\ open <=> pending(DeadlineTimer(k))
       /\ open <=> obligations[DecisionDuty(k)] = "OPEN"
       /\ pending(ReminderTimer(k)) <=> open /\ ~approvals[k].fired
       /\ obligations[ReminderDuty(k)] = "OPEN" => open
       /\ \A e \in queue.pending : e.id = DeadlineTimer(k) => e.at = approvals[k].deadline

\* Whatever somebody must do by a given minute has its timer, and no other has.
DutiesHaveTimers == VisitsAreFollowedUp /\ DecisionsAreTimed

\* One quote version is put to the approver at most once, and what the quote says
\* is what its checkpoint says, on an answer and on silence alike.
QuoteAgreesWithCheckpoint ==
  \A k \in Checkpoints :
    LET a == approvals[k]
    IN a.status # "ABSENT" =>
         /\ quotes[a.quote].status = IF a.status = "OPEN" THEN "RECEIVED" ELSE a.status
         /\ \A j \in Checkpoints : approvals[j].quote = a.quote => j = k
         /\ exceptions[k] = "ABSENT"

\* Booked work has a human approval: a payable cycle with a visit has an approved
\* checkpoint of an above-threshold quote for that very cycle.
PaidWorkIsApproved ==
  \A c \in Cycles :
    RequiresPayment(c) /\ cycles[c].visit # "NONE" =>
      \E k \in Checkpoints :
        /\ approvals[k].status = "APPROVED"
        /\ QuoteOf[approvals[k].quote].cycle = c
        /\ QuoteOf[approvals[k].quote].amount > Threshold

\* An approval reaches the quote version it was asked about, and no payable work
\* is booked without one.
ApprovalsGovernWork == QuoteAgreesWithCheckpoint /\ PaidWorkIsApproved

\* An invoice goes to review, and a payment is requested, only for verified
\* payable work billed on the exact terms of an approved quote; and the facts
\* they rest on stay true.
MoneyFollowsVerifiedWork ==
  /\ \A i \in Invoices :
       LET bill == InvoiceOf[i]
       IN invoices[i] \in {"VALIDATION_REQUESTED", "VALIDATED"} =>
            /\ Verified(bill.cycle)
            /\ quotes[bill.quote].status = "APPROVED"
            /\ bill.amount = QuoteOf[bill.quote].amount /\ bill.cycle = QuoteOf[bill.quote].cycle
  /\ payment.status # "NOT_REQUESTED" =>
       /\ invoices[payment.invoice] = "VALIDATED"
       /\ InvoiceOf[payment.invoice].cycle = payment.cycle
       /\ RequiresPayment(payment.cycle) /\ Verified(payment.cycle)

\* While the operation is provisionally closed, the timer of this very closure is
\* pending at the end of the window, no checkpoint is open, and the customer does
\* not report that the issue persists: the window always has a way out.
WindowHasItsTimer ==
  phase = "PROVISIONALLY_CLOSED" /\ ~failed =>
    /\ Verified(closing.cycle)
    /\ \E e \in queue.pending : e.id = CloseTimer(closing.cycle) /\ e.at = closing.until
    /\ NoBlockingCheckpoint /\ resolution # "PERSISTS"

\* Where payment settles on the closing cycle or none is due for it, the customer
\* was told after the work was verified or paid for: the duty to tell was opened
\* and discharged.  A notice sent too early does not count.
CustomerToldAfterTheFact ==
  /\ phase = "PROVISIONALLY_CLOSED"
  /\ RequiresPayment(closing.cycle) => payment.cycle = closing.cycle
  => obligations[NoticeDuty(closing.cycle)] = "DISCHARGED"

\* A warranty revisit is verified only against work that was itself verified, and
\* with the scope on record for that work.
WarrantyRepeatsScope ==
  \A c \in Cycles :
    cycles[c].kind = "WARRANTY_REVISIT" =>
      /\ Verified(cycles[c].parent)
      /\ Verified(c) =>
           cycles[c].scope = cycles[cycles[c].parent].scope /\ cycles[c].scope # NoScope

\* Nobody is paid, nobody is told and no revisit passes before the work: billing,
\* the notice of completion and a warranty all come after verification.
WorkComesFirst ==
  MoneyFollowsVerifiedWork /\ CustomerToldAfterTheFact /\ WarrantyRepeatsScope

\* No step replaces a cycle of the operation by another one, and no visit moves
\* back: a reopening adds a cycle (for authored cycles numbered without gaps).
CyclesAreKept ==
  [][\A c \in Cycles : Exists(c) =>
       /\ cycles'[c].kind = cycles[c].kind
       /\ cycles[c].visit # "NONE" => cycles'[c].visit # "NONE"
       /\ Verified(c) => cycles'[c] = cycles[c]]_vars

\* Each approval of this operation is a checkpoint as Checkpoint.tla promises one:
\* the specifications Decision(k)!Spec, their steps taken together.
Decision(k) == INSTANCE Checkpoint WITH status <- approvals[k].status,
                 deadline <- approvals[k].deadline, reminded <- approvals[k].fired
DecisionsKeepTheirPromise ==
  /\ \A k \in Checkpoints : Decision(k)!Init
  /\ [][\A k \in Checkpoints : [Decision(k)!Next]_(Decision(k)!vars)]_vars

\* An open approval is answered or expires, if its deadline lies within the bound.
DecisionsEnd ==
  \A k \in Checkpoints :
    k \in OpenApprovals /\ approvals[k].deadline <= Horizon
      ~> k \notin OpenApprovals \/ ~Running

\* A provisional close is not for ever, if its window ends within the bound.
WindowsEnd ==
  phase = "PROVISIONALLY_CLOSED" /\ closing.until <= Horizon
    ~> phase # "PROVISIONALLY_CLOSED" \/ failed

\* Silence, of the approver or of the customer, does not hold the operation up.
SilenceEnds == DecisionsEnd /\ WindowsEnd

-----------------------------------------------------------------------------
(* What the documents say of the operation and the code does not do.        *)

\* docs/METHODOLOGY.md: once the window expires the episode is final.  So while
\* it lasts the operation is not: the customer has until its end to report.
FinalizationWaitsOutTheWindow ==
  [][phase = "PROVISIONALLY_CLOSED" /\ phase' = "FINALIZED" => now >= closing.until]_vars

\* docs/METHODOLOGY.md: no ordinary final completion with an open checkpoint,
\* obligation or contradiction.
CompletionOwesNothing == terminal = "completed" => NoBlockingCheckpoint /\ NoOpenDuty

\* docs/METHODOLOGY.md: no reuse of an approval after the quote is revised or
\* superseded.
RevisionEndsApproval ==
  [][\A c \in Cycles :
       RequiresPayment(c) /\ cycles[c].visit = "NONE" /\ cycles'[c].visit = "SCHEDULED" =>
         \E k \in Checkpoints :
           LET terms == QuoteOf[approvals[k].quote]
           IN /\ approvals[k].status = "APPROVED" /\ terms.cycle = c
              /\ \A q \in Quotes :
                   quotes[q].status # "ABSENT" /\ QuoteOf[q].quote = terms.quote
                     => QuoteOf[q].version <= terms.version]_vars

\* docs/METHODOLOGY.md: the completion guard rejects any open further-work signal.
NoCloseOverAnOpenQuote ==
  [][phase # "PROVISIONALLY_CLOSED" /\ phase' = "PROVISIONALLY_CLOSED" =>
       \A q \in Quotes : quotes[q].status # "RECEIVED"]_vars

\* state.py: a payment belongs to a work cycle.  A payable cycle that closes was
\* paid for by a payment of that cycle.
ClosedWorkIsPaidFor ==
  phase = "PROVISIONALLY_CLOSED" /\ RequiresPayment(closing.cycle) =>
    payment.cycle = closing.cycle

\* core/protocol.py: a verdict, never an exception, is the outcome of a proposal.
NoDuplicateTimer == ~failed
=============================================================================

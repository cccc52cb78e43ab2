------------------------------- MODULE Commerce -------------------------------
(***************************************************************************)
(* The return and refund operation,                                        *)
(* domains/commerce/return_refund/operation.py over the record of state.py:*)
(* an authorised return, its handover to a carrier, an inspection, one     *)
(* human approval, a refund for each of two cycles, a provisional close    *)
(* with a cool-down, and a reversal that starts the recovery cycle.        *)
(*                                                                         *)
(* As in Maintenance, events of the world and actions of the agent come in *)
(* any order at any instant, each accepted whole or refused without a      *)
(* trace (no step), and due timers are delivered in queue order.  Amounts, *)
(* currencies, actors, schemas and cited evidence only refuse.  The policy *)
(* makes every refund one that needs approval (refund_amount_minor must    *)
(* exceed approval_threshold_minor), so nothing is refunded without one.   *)
(***************************************************************************)
EXTENDS EventQueue, Sequences

CONSTANTS
  HandoverReminderAfter, HandoverDeadlineAfter, ApprovalDeadlineAfter,
  CloseAfter, NoticeWithin,   \* policy, in minutes
  Horizon                     \* horizon_minutes, and the bound on the clock

ASSUME CommerceAssumption ==
  /\ {HandoverReminderAfter, HandoverDeadlineAfter, ApprovalDeadlineAfter,
      CloseAfter, NoticeWithin, Horizon} \subseteq Nat \ {0}
  /\ HandoverReminderAfter < HandoverDeadlineAfter

\* FIRST_REFUND_CYCLE and RECOVERY_REFUND_CYCLE; a cycle has at most one refund,
\* so a refund is named by its cycle.  One authorisation, one inspection and one
\* checkpoint are all the guards admit.
Cycles == {1, 2}
First == 1
Recovery == 2
NoCycle == 0

VARIABLES
  now, queue, timerCount, failed,  \* as in Maintenance
  phase, current,          \* phase, current_cycle_id
  claimed,                 \* has the customer claimed to have handed over?
  authorisation,           \* status, when issued, reminder_due
  handedOver,              \* is there an authoritative carrier record?
  inspection,              \* its disposition
  checkpoint,              \* its status
  refunds,                 \* per cycle, its status
  obligations,             \* per duty, its status and when it is due
  notices,                 \* committed messages, each with the cycle it names
  provisional,             \* the cycle closed and when its cool-down ends
  terminal                 \* terminal, and with it replay_final

worldVars == <<now, queue, timerCount, failed>>
returnVars == <<claimed, authorisation, handedOver, inspection>>
moneyVars == <<checkpoint, refunds>>
dutyVars == <<obligations, notices>>
endVars == <<provisional, terminal>>
vars == <<worldVars, phase, current, returnVars, moneyVars, dutyVars, endVars>>

ReminderTimer == <<"handover_reminder">>
DeadlineTimer == <<"handover_deadline">>
ApprovalTimer == <<"approval_deadline">>
\* Mutant: the cool-down has one identity for the whole operation.
CooldownTimerOnce(c) == <<"cooldown", First>>

CooldownTimer(c) == <<"cooldown", c>>
HandoverDuty == <<"handover">>
ReminderDuty == <<"reminder">>
ApprovalDuty == <<"approval">>
DenialDuty == <<"denial_notice">>
ExpiryDuty == <<"expiry_notice">>
RecoveryDuty == <<"recovery">>
SettlementDuty(c) == <<"settlement", c>>
CompletionDuty(c) == <<"completion_notice", c>>
Duties == {HandoverDuty, ReminderDuty, ApprovalDuty, DenialDuty, ExpiryDuty, RecoveryDuty}
            \cup {SettlementDuty(c) : c \in Cycles} \cup {CompletionDuty(c) : c \in Cycles}

NoDuty == [status |-> "ABSENT", due |-> 0]
Open(d) == obligations[d].status = "OPEN"
NoOpenDuty == \A d \in Duties : ~Open(d)

\* _open_obligation: an identity opens once.
Opened(os, d, within) ==
  IF os[d].status = "ABSENT" THEN [os EXCEPT ![d] = [status |-> "OPEN", due |-> now + within]]
                             ELSE os

\* Mutant: what is done at the last instant counts as late.
ClosedStrictly(os, d, status) ==
  IF os[d].status # "OPEN" THEN os
  ELSE [os EXCEPT ![d].status =
          IF status = "DISCHARGED" /\ now >= os[d].due THEN "BREACHED" ELSE status]

\* _close_obligation: only an open one changes, and what is done late is breached.
Closed(os, d, status) ==
  IF os[d].status # "OPEN" THEN os
  ELSE [os EXCEPT ![d].status =
          IF status = "DISCHARGED" /\ now > os[d].due THEN "BREACHED" ELSE status]

Running == terminal = "none" /\ ~failed

-----------------------------------------------------------------------------
Init ==
  /\ now = 0 /\ queue = EmptyQueue /\ timerCount = 0 /\ failed = FALSE
  /\ phase = "NEW" /\ current = NoCycle
  /\ claimed = FALSE
  /\ authorisation = [status |-> "ABSENT", issued |-> 0, reminderDue |-> FALSE]
  /\ handedOver = FALSE /\ inspection = "NONE"
  /\ checkpoint = "ABSENT" /\ refunds = [c \in Cycles |-> "NONE"]
  /\ obligations = [d \in Duties |-> NoDuty] /\ notices = {}
  /\ provisional = [cycle |-> NoCycle, expires |-> 0] /\ terminal = "none"

\* context.schedule_timer for each of a sequence of timers; an identity that was
\* used before raises out of the run.
Arm(timers) ==
  LET armed == {Entry(timers[i].id, now + timers[i].delay, TimerBase + timerCount + i) :
                  i \in DOMAIN timers}
  IN /\ timerCount' = timerCount + Len(timers)
     /\ failed' = ~MaySchedule(queue, armed)
     /\ queue' = IF failed' THEN queue ELSE Schedule(queue, armed)

Disarm(ids) == queue' = Cancel(queue, ids) /\ UNCHANGED <<timerCount, failed>>

-----------------------------------------------------------------------------
(* From the request to the inspection.                                      *)

ReturnRequested ==
  /\ Running /\ phase = "NEW"
  /\ phase' = "RETURN_REQUESTED" /\ current' = First
  /\ UNCHANGED <<worldVars, returnVars, moneyVars, dutyVars, endVars>>

\* Mutant: the two delays are swapped.
HandoverClockSwapped ==
  <<[id |-> ReminderTimer, delay |-> HandoverDeadlineAfter],
    [id |-> DeadlineTimer, delay |-> HandoverReminderAfter]>>

HandoverClock ==
  <<[id |-> ReminderTimer, delay |-> HandoverReminderAfter],
    [id |-> DeadlineTimer, delay |-> HandoverDeadlineAfter]>>

IssueAuthorisation ==
  /\ Running /\ phase = "RETURN_REQUESTED"
  /\ authorisation' = [status |-> "ISSUED", issued |-> now, reminderDue |-> FALSE]
  /\ phase' = "AWAITING_HANDOVER"
  /\ Arm(HandoverClock)
  /\ obligations' = Opened(obligations, HandoverDuty, HandoverDeadlineAfter)
  /\ UNCHANGED <<now, current, claimed, handedOver, inspection, moneyVars, notices, endVars>>

\* A claim is on record and moves nothing.
HandoverClaimed ==
  /\ Running /\ authorisation.status # "ABSENT" /\ ~claimed
  /\ claimed' = TRUE
  /\ UNCHANGED <<worldVars, phase, current, authorisation, handedOver, inspection, moneyVars,
                 dutyVars, endVars>>

HandoverVerified ==
  /\ Running /\ authorisation.status = "ISSUED"
  /\ handedOver' = TRUE
  /\ authorisation' = [authorisation EXCEPT !.status = "VERIFIED"]
  /\ phase' = "AWAITING_INSPECTION"
  /\ Disarm({ReminderTimer, DeadlineTimer})
  /\ obligations' = Closed(Closed(obligations, HandoverDuty, "DISCHARGED"), ReminderDuty, "CANCELLED")
  /\ UNCHANGED <<now, current, claimed, inspection, moneyVars, notices, endVars>>

InspectionCompleted(disposition) ==
  /\ Running /\ phase = "AWAITING_INSPECTION" /\ handedOver
  /\ inspection' = disposition
  /\ IF disposition = "ELIGIBLE"
       THEN phase' = "AWAITING_APPROVAL" /\ UNCHANGED obligations
       ELSE /\ phase' = "REFUND_DENIED"
            /\ obligations' = Opened(obligations, DenialDuty, NoticeWithin)
  /\ UNCHANGED <<worldVars, current, claimed, authorisation, handedOver, moneyVars, notices,
                 endVars>>

-----------------------------------------------------------------------------
(* The approval.                                                            *)

RequestApproval ==
  /\ Running /\ phase = "AWAITING_APPROVAL"
  /\ inspection = "ELIGIBLE" /\ checkpoint = "ABSENT"
  /\ checkpoint' = "OPEN"
  /\ Arm(<<[id |-> ApprovalTimer, delay |-> ApprovalDeadlineAfter]>>)
  /\ obligations' = Opened(obligations, ApprovalDuty, ApprovalDeadlineAfter)
  /\ UNCHANGED <<now, phase, current, returnVars, refunds, notices, endVars>>

ApprovalReceived(decision) ==
  LET done == Closed(obligations, ApprovalDuty, "DISCHARGED") IN
  /\ Running /\ checkpoint = "OPEN"
  /\ checkpoint' = decision
  /\ Disarm({ApprovalTimer})
  /\ IF decision = "APPROVED"
       THEN phase' = "READY_TO_REFUND" /\ obligations' = done
       ELSE phase' = "REFUND_DENIED" /\ obligations' = Opened(done, DenialDuty, NoticeWithin)
  /\ UNCHANGED <<now, current, returnVars, refunds, notices, endVars>>

-----------------------------------------------------------------------------
(* The money.                                                               *)

Unrefunded(c) == refunds[c] = "NONE"

RequestRefund ==
  /\ Running /\ current \in Cycles
  /\ Unrefunded(current)
  /\ inspection = "ELIGIBLE" /\ handedOver /\ checkpoint = "APPROVED"
  /\ phase \in {"READY_TO_REFUND", "REFUND_REOPENED"}
  /\ refunds' = [refunds EXCEPT ![current] = "REQUESTED"]
  /\ phase' = "REFUND_PENDING"
  /\ LET recovered == IF current = Recovery THEN Closed(obligations, RecoveryDuty, "DISCHARGED")
                                            ELSE obligations
     IN obligations' = Opened(recovered, SettlementDuty(current), Horizon)
  /\ UNCHANGED <<worldVars, current, returnVars, checkpoint, notices, endVars>>

SettlementConfirmed(c) ==
  /\ Running /\ refunds[c] = "REQUESTED"
  /\ refunds' = [refunds EXCEPT ![c] = "SETTLED"]
  /\ phase' = "REFUND_SETTLED"
  /\ obligations' = Opened(Closed(obligations, SettlementDuty(c), "DISCHARGED"),
                           CompletionDuty(c), NoticeWithin)
  /\ UNCHANGED <<worldVars, current, returnVars, checkpoint, notices, endVars>>

SettlementReversed(c) ==
  /\ Running /\ refunds[c] = "SETTLED" /\ provisional.cycle = c
  /\ refunds' = [refunds EXCEPT ![c] = "REVERSED"]
  /\ Disarm({CooldownTimer(c)})
  /\ provisional' = [cycle |-> NoCycle, expires |-> 0]
  /\ current' = Recovery
  /\ phase' = "REFUND_REOPENED"
  /\ obligations' = Opened(obligations, RecoveryDuty, Horizon)
  /\ UNCHANGED <<now, returnVars, checkpoint, notices, terminal>>

-----------------------------------------------------------------------------
(* Messages, each owed to the customer under one duty.                      *)

\* The duty a message discharges, and when it may be sent.
Owed(message, c) ==
  CASE message = "reminder" -> ReminderDuty
    [] message = "expired"  -> ExpiryDuty
    [] message = "denied"   -> DenialDuty
    [] message = "complete" -> CompletionDuty(c)

Announces(message) ==
  CASE message = "reminder" -> authorisation.reminderDue
    [] message = "expired"  -> phase = "RETURN_EXPIRED"
    [] message = "denied"   -> phase = "REFUND_DENIED"
    [] message = "complete" -> phase = "REFUND_SETTLED"

\* Whether it is dispatched or not, the message is committed and its duty done.
SendMessage(message, c) ==
  /\ Running
  /\ <<message, c>> \notin notices
  /\ message \in {"expired", "denied"} => c = First
  /\ Announces(message) /\ Open(Owed(message, c))
  /\ notices' = notices \cup {<<message, c>>}
  /\ obligations' = Closed(obligations, Owed(message, c), "DISCHARGED")
  /\ UNCHANGED <<worldVars, phase, current, returnVars, moneyVars, endVars>>

-----------------------------------------------------------------------------
(* The end.                                                                 *)

MayComplete ==
  /\ Running /\ phase # "PROVISIONAL"
  /\ checkpoint # "OPEN" /\ NoOpenDuty

CompleteDenied ==
  /\ MayComplete /\ phase = "REFUND_DENIED"
  /\ phase' = "FINAL_REFUND_DENIED" /\ terminal' = "closed_refund_denied"
  /\ UNCHANGED <<worldVars, current, returnVars, moneyVars, dutyVars, provisional>>

CompleteExpired ==
  /\ MayComplete /\ phase = "RETURN_EXPIRED"
  /\ phase' = "FINAL_RETURN_EXPIRED" /\ terminal' = "closed_return_expired"
  /\ UNCHANGED <<worldVars, current, returnVars, moneyVars, dutyVars, provisional>>

CompleteProvisionally ==
  /\ MayComplete /\ phase = "REFUND_SETTLED"
  /\ refunds[current] = "SETTLED" /\ handedOver /\ inspection = "ELIGIBLE"
  /\ checkpoint = "APPROVED" /\ <<"complete", current>> \in notices
  /\ phase' = "PROVISIONAL"
  /\ provisional' = [cycle |-> current, expires |-> now + CloseAfter]
  /\ Arm(<<[id |-> CooldownTimer(current), delay |-> CloseAfter]>>)
  /\ UNCHANGED <<now, current, returnVars, moneyVars, dutyVars, terminal>>

-----------------------------------------------------------------------------
(* Timers.  A timer whose subject is gone is refused and gone as well.      *)

Fired(e) == queue' = Pop(queue, e) /\ UNCHANGED <<now, timerCount, failed>>

HandoverReminderDue(e) ==
  /\ e.id = ReminderTimer /\ Fired(e)
  /\ IF authorisation.status = "ISSUED"
       THEN /\ authorisation' = [authorisation EXCEPT !.reminderDue = TRUE]
            /\ obligations' = Opened(obligations, ReminderDuty,
                                     HandoverDeadlineAfter - HandoverReminderAfter)
       ELSE UNCHANGED <<authorisation, obligations>>
  /\ UNCHANGED <<phase, current, claimed, handedOver, inspection, moneyVars, notices, endVars>>

HandoverDeadlineDue(e) ==
  /\ e.id = DeadlineTimer /\ Fired(e)
  /\ IF authorisation.status = "ISSUED"
       THEN /\ authorisation' = [authorisation EXCEPT !.status = "EXPIRED"]
            /\ phase' = "RETURN_EXPIRED"
            /\ obligations' = Opened(Closed(Closed(obligations, HandoverDuty, "BREACHED"),
                                            ReminderDuty, "BREACHED"),
                                     ExpiryDuty, NoticeWithin)
       ELSE UNCHANGED <<authorisation, phase, obligations>>
  /\ UNCHANGED <<current, claimed, handedOver, inspection, moneyVars, notices, endVars>>

ApprovalDeadlineDue(e) ==
  /\ e.id = ApprovalTimer /\ Fired(e)
  /\ IF checkpoint = "OPEN"
       THEN /\ checkpoint' = "EXPIRED" /\ phase' = "REFUND_DENIED"
            /\ obligations' = Opened(Closed(obligations, ApprovalDuty, "BREACHED"),
                                     DenialDuty, NoticeWithin)
       ELSE UNCHANGED <<checkpoint, phase, obligations>>
  /\ UNCHANGED <<current, returnVars, refunds, notices, endVars>>

\* Mutant: the window must be over, not just at its end.
MayFinalizeAfter(c) ==
  /\ phase = "PROVISIONAL" /\ provisional.cycle = c /\ now > provisional.expires
  /\ refunds[c] = "SETTLED"
  /\ checkpoint # "OPEN" /\ NoOpenDuty

MayFinalize(c) ==
  /\ phase = "PROVISIONAL" /\ provisional.cycle = c /\ now >= provisional.expires
  /\ refunds[c] = "SETTLED"
  /\ checkpoint # "OPEN" /\ NoOpenDuty

CooldownExpired(e) ==
  \E c \in Cycles :
    /\ e.id = CooldownTimer(c) /\ Fired(e)
    /\ IF MayFinalize(c)
         THEN /\ provisional' = [cycle |-> NoCycle, expires |-> 0]
              /\ phase' = "FINAL_SUCCESS" /\ terminal' = "completed_refund_settled"
         ELSE UNCHANGED <<provisional, phase, terminal>>
    /\ UNCHANGED <<current, returnVars, moneyVars, dutyVars>>

DueTimers == {e \in Upcoming(queue) : e.at = now}

Timer ==
  /\ Running
  /\ \E e \in DueTimers :
       \/ HandoverReminderDue(e) \/ HandoverDeadlineDue(e)
       \/ ApprovalDeadlineDue(e) \/ CooldownExpired(e)

Advance ==
  /\ Running /\ DueTimers = {} /\ now < Horizon
  /\ now' = now + 1
  /\ UNCHANGED <<queue, timerCount, failed, phase, current, returnVars, moneyVars, dutyVars,
                 endVars>>

Event ==
  \/ ReturnRequested \/ HandoverClaimed \/ HandoverVerified
  \/ \E disposition \in {"ELIGIBLE", "INELIGIBLE"} : InspectionCompleted(disposition)
  \/ \E decision \in {"APPROVED", "REJECTED"} : ApprovalReceived(decision)
  \/ \E c \in Cycles : SettlementConfirmed(c) \/ SettlementReversed(c)

Action ==
  \/ IssueAuthorisation \/ RequestApproval \/ RequestRefund
  \/ \E message \in {"reminder", "expired", "denied", "complete"}, c \in Cycles :
       SendMessage(message, c)
  \/ CompleteDenied \/ CompleteExpired \/ CompleteProvisionally

Next == Advance \/ Timer \/ Event \/ Action

Spec == Init /\ [][Next]_vars
FairSpec == Spec /\ WF_vars(Advance) /\ WF_vars(Timer)

-----------------------------------------------------------------------------
\* The customer holds at most one refund, or one request for one, whatever is
\* settled, reversed and requested again, and an operation completed as refunded
\* left exactly one settled.
PaidOnce ==
  LET live == {c \in Cycles : refunds[c] \in {"REQUESTED", "SETTLED"}} IN
  /\ Cardinality(live) <= 1
  /\ \A c \in live : inspection = "ELIGIBLE" /\ handedOver /\ checkpoint = "APPROVED"
  /\ terminal = "completed_refund_settled" => \E c \in live : refunds[c] = "SETTLED"

\* What a grader reads in a duty is what happened: the carrier or the approver
\* answered in time exactly when the duty is discharged, and was late exactly when
\* it is breached, though the answer and its timer may fall due at one instant.
DutiesTellTheTruth ==
  /\ obligations[HandoverDuty].status = "DISCHARGED" <=> authorisation.status = "VERIFIED"
  /\ obligations[HandoverDuty].status = "BREACHED" <=> authorisation.status = "EXPIRED"
  /\ obligations[ApprovalDuty].status = "DISCHARGED" <=> checkpoint \in {"APPROVED", "REJECTED"}
  /\ obligations[ApprovalDuty].status = "BREACHED" <=> checkpoint = "EXPIRED"
  /\ Open(RecoveryDuty) => \E c \in Cycles : refunds[c] = "REVERSED"
  /\ phase \in {"PROVISIONAL", "FINAL_SUCCESS"} => NoOpenDuty /\ checkpoint = "APPROVED"

RecordIsTrue == PaidOnce /\ DutiesTellTheTruth

\* A settlement stays provisional for its whole cool-down: the operation leaves it
\* at the instant its own window ends or because that refund was reversed, and no
\* timer is armed under an identity that was used.
CooldownIsKept ==
  [][/\ ~failed'
     /\ phase = "PROVISIONAL" /\ phase' # "PROVISIONAL" =>
          \/ phase' = "FINAL_SUCCESS" /\ now = provisional.expires
          \/ refunds'[provisional.cycle] = "REVERSED"]_vars

\* The handover keeps what a checkpoint promises: it is reminded of once, at its
\* instant, and is verified in time or expires at its deadline.
Handover == INSTANCE Checkpoint WITH
  ReminderAfter <- HandoverReminderAfter, DeadlineAfter <- HandoverDeadlineAfter,
  status   <- CASE authorisation.status = "ISSUED"   -> "OPEN"
                [] authorisation.status = "VERIFIED" -> "APPROVED"
                [] OTHER -> authorisation.status,
  deadline <- IF authorisation.status = "ABSENT" THEN 0
              ELSE authorisation.issued + HandoverDeadlineAfter,
  reminded <- authorisation.reminderDue
HandoverKeepsItsPromise == Handover!Spec

\* Silence, of the carrier, the approver or the bank, holds nothing up, as far as
\* the bound on the clock reaches.
NothingHangs ==
  /\ authorisation.status = "ISSUED" /\ authorisation.issued + HandoverDeadlineAfter <= Horizon
       ~> authorisation.status # "ISSUED"
  /\ checkpoint = "OPEN" /\ obligations[ApprovalDuty].due <= Horizon ~> checkpoint # "OPEN"
  /\ phase = "PROVISIONAL" /\ provisional.expires <= Horizon ~> phase # "PROVISIONAL"

\* A reversed refund can be requested again.  A second reversal, of the recovery
\* cycle's refund, leaves the operation reopened in a cycle that has its refund.
ReopenedCanRecover == phase = "REFUND_REOPENED" => Unrefunded(current)
=============================================================================

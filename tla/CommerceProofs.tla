--------------------------- MODULE CommerceProofs ---------------------------
(***************************************************************************)
(* That the record of a return is true, that a cool-down lasts its whole   *)
(* time and that the handover keeps what a checkpoint promises, proved for *)
(* every policy, horizon and order of events.                              *)
(*                                                                         *)
(* The operation keeps no list of what it armed: that a timer means what   *)
(* its handler takes it to mean rests on every other action having         *)
(* disarmed what it made void.  The invariant says so: a pending timer has *)
(* a live subject and falls due when that subject says (Meant), a subject  *)
(* that waits has its timer (Armed), and an identity is armed once, since  *)
(* its subject is (Used).  Which subject may be live is what the phase     *)
(* tells (ReturnStory, MoneyStory).                                        *)
(***************************************************************************)
EXTENDS Commerce, FiniteSetTheorems, TLAPS

TimerIds == {ReminderTimer, DeadlineTimer, ApprovalTimer} \cup {CooldownTimer(c) : c \in Cycles}
EntrySet == [id : TimerIds, at : Nat, seq : Nat]
QueueSet == [pending : SUBSET EntrySet, seen : SUBSET TimerIds]

Settled == {"REFUND_SETTLED", "PROVISIONAL", "FINAL_SUCCESS"}
Refunding == {"REFUND_PENDING", "REFUND_REOPENED"} \cup Settled
Paying == {"READY_TO_REFUND"} \cup Refunding
Finals == {"FINAL_REFUND_DENIED", "FINAL_RETURN_EXPIRED", "FINAL_SUCCESS"}
Phases == {"NEW", "RETURN_REQUESTED", "AWAITING_HANDOVER", "AWAITING_INSPECTION",
           "AWAITING_APPROVAL", "REFUND_DENIED", "RETURN_EXPIRED"} \cup Paying \cup Finals

Books == [Duties -> [status : {"ABSENT", "OPEN", "DISCHARGED", "BREACHED", "CANCELLED"}, due : Nat]]

Shapes ==
  /\ now \in Nat /\ timerCount \in Nat /\ queue \in QueueSet
  /\ phase \in Phases /\ current \in {NoCycle, First, Recovery}
  /\ authorisation \in [status : {"ABSENT", "ISSUED", "VERIFIED", "EXPIRED"}, issued : Nat,
                        reminderDue : BOOLEAN]
  /\ handedOver \in BOOLEAN /\ inspection \in {"NONE", "ELIGIBLE", "INELIGIBLE"}
  /\ checkpoint \in {"ABSENT", "OPEN", "APPROVED", "REJECTED", "EXPIRED"}
  /\ refunds \in [Cycles -> {"NONE", "REQUESTED", "SETTLED", "REVERSED"}]
  /\ obligations \in Books
  /\ provisional \in [cycle : {NoCycle, First, Recovery}, expires : Nat]

\* What the phase tells of the return and of its approval.
ReturnStory ==
  /\ authorisation.status = "ABSENT" <=> phase \in {"NEW", "RETURN_REQUESTED"}
  /\ authorisation.status = "ISSUED" <=> phase = "AWAITING_HANDOVER"
  /\ authorisation.status = "EXPIRED" <=> phase \in {"RETURN_EXPIRED", "FINAL_RETURN_EXPIRED"}
  /\ authorisation.status = "ABSENT" => ~authorisation.reminderDue
  /\ handedOver <=> authorisation.status = "VERIFIED"
  /\ inspection # "NONE" => authorisation.status = "VERIFIED"
  /\ phase = "AWAITING_INSPECTION" => inspection = "NONE"
  /\ checkpoint # "ABSENT" => inspection = "ELIGIBLE"
  /\ checkpoint = "OPEN" => phase = "AWAITING_APPROVAL"
  /\ checkpoint = "APPROVED" <=> phase \in Paying

\* What it tells of the refunds: the first is reversed once the second cycle has
\* begun, and one at most is not.
MoneyStory ==
  /\ phase \notin Refunding => refunds[First] = "NONE"
  /\ phase \notin {"NEW"} \cup Refunding => current = First
  /\ phase \in Refunding => current # NoCycle
  /\ phase = "REFUND_PENDING" => refunds[current] = "REQUESTED"
  /\ phase \in Settled => refunds[current] = "SETTLED"
  /\ phase = "REFUND_REOPENED" => current = Recovery /\ refunds[Recovery] \in {"NONE", "REVERSED"}
  /\ current = Recovery <=> refunds[First] = "REVERSED"
  /\ current # Recovery => refunds[Recovery] = "NONE"
  /\ provisional.cycle = IF phase = "PROVISIONAL" THEN current ELSE NoCycle
  /\ terminal = "none" <=> phase \notin Finals
  /\ terminal = "completed_refund_settled" <=> phase = "FINAL_SUCCESS"

\* A pending timer has a live subject and is due when that subject says.
Meant(e) ==
  \/ /\ e.id = ReminderTimer /\ authorisation.status = "ISSUED"
     /\ ~authorisation.reminderDue
     /\ e.at = authorisation.issued + HandoverReminderAfter
  \/ /\ e.id = DeadlineTimer /\ authorisation.status = "ISSUED"
     /\ e.at = authorisation.issued + HandoverDeadlineAfter
  \/ e.id = ApprovalTimer /\ checkpoint = "OPEN" /\ e.at = obligations[ApprovalDuty].due
  \/ e.id = CooldownTimer(provisional.cycle) /\ phase = "PROVISIONAL" /\ e.at = provisional.expires

\* A subject that waits has its timer.
Armed ==
  /\ authorisation.status = "ISSUED" => DeadlineTimer \in PendingIds(queue)
  /\ authorisation.status = "ISSUED" /\ ~authorisation.reminderDue =>
       ReminderTimer \in PendingIds(queue)
  /\ checkpoint = "OPEN" => ApprovalTimer \in PendingIds(queue)
  /\ phase = "PROVISIONAL" => CooldownTimer(provisional.cycle) \in PendingIds(queue)

\* An identity that was used belongs to a subject that exists.
Used ==
  /\ queue.seen \cap {ReminderTimer, DeadlineTimer} # {} => authorisation.status # "ABSENT"
  /\ ApprovalTimer \in queue.seen => checkpoint # "ABSENT"
  /\ \A c \in Cycles : CooldownTimer(c) \in queue.seen =>
       \/ refunds[c] = "REVERSED"
       \/ phase \in {"PROVISIONAL", "FINAL_SUCCESS"} /\ current = c

QueueInv ==
  /\ PendingIds(queue) \subseteq queue.seen
  /\ \A e, f \in queue.pending : e.id = f.id => e = f
  /\ \A e \in queue.pending : e.at >= now /\ Meant(e)
  /\ Armed /\ Used /\ failed = FALSE

\* Duties say what happened to what they are about.
DutyInv ==
  /\ obligations[HandoverDuty].status =
       [ABSENT |-> "ABSENT", ISSUED |-> "OPEN", VERIFIED |-> "DISCHARGED",
        EXPIRED |-> "BREACHED"][authorisation.status]
  /\ authorisation.status = "ISSUED" =>
       obligations[HandoverDuty].due = authorisation.issued + HandoverDeadlineAfter
  /\ obligations[ApprovalDuty].status =
       [ABSENT |-> "ABSENT", OPEN |-> "OPEN", APPROVED |-> "DISCHARGED",
        REJECTED |-> "DISCHARGED", EXPIRED |-> "BREACHED"][checkpoint]
  /\ obligations[RecoveryDuty].status # "ABSENT" => refunds[First] = "REVERSED"
  /\ phase \in {"PROVISIONAL", "FINAL_SUCCESS"} => NoOpenDuty

IInv == Shapes /\ ReturnStory /\ MoneyStory /\ QueueInv /\ DutyInv

-----------------------------------------------------------------------------
(* Lemmas about identities, duties and the queue.                           *)

LEMMA TimersDistinct ==
  /\ {ReminderTimer, DeadlineTimer, ApprovalTimer} \subseteq TimerIds
  /\ ReminderTimer # DeadlineTimer /\ ReminderTimer # ApprovalTimer /\ DeadlineTimer # ApprovalTimer
  /\ \A c \in {NoCycle, First, Recovery} :
       CooldownTimer(c) \notin {ReminderTimer, DeadlineTimer, ApprovalTimer}
  /\ \A c \in Cycles : CooldownTimer(c) \in TimerIds
  /\ \A c, d \in {NoCycle, First, Recovery} : CooldownTimer(c) = CooldownTimer(d) => c = d
BY DEF TimerIds, ReminderTimer, DeadlineTimer, ApprovalTimer, CooldownTimer

LEMMA PolicyType ==
  /\ HandoverReminderAfter \in Nat /\ HandoverDeadlineAfter \in Nat /\ ApprovalDeadlineAfter \in Nat
  /\ CloseAfter \in Nat /\ NoticeWithin \in Nat /\ Horizon \in Nat
  /\ HandoverDeadlineAfter - HandoverReminderAfter \in Nat
BY CommerceAssumption

LEMMA BooksType ==
  ASSUME IInv
  PROVE  now \in Nat /\ obligations \in Books
BY DEF IInv, Shapes

LEMMA DutiesDistinct ==
  /\ HandoverDuty \in Duties /\ ReminderDuty \in Duties /\ ApprovalDuty \in Duties
  /\ DenialDuty \in Duties /\ ExpiryDuty \in Duties /\ RecoveryDuty \in Duties
  /\ \A c \in Cycles : SettlementDuty(c) \in Duties /\ CompletionDuty(c) \in Duties
  /\ HandoverDuty \notin {ReminderDuty, ApprovalDuty, DenialDuty, ExpiryDuty, RecoveryDuty}
  /\ ApprovalDuty \notin {ReminderDuty, HandoverDuty, DenialDuty, ExpiryDuty, RecoveryDuty}
  /\ RecoveryDuty \notin {ReminderDuty, HandoverDuty, DenialDuty, ExpiryDuty, ApprovalDuty}
  /\ \A c \in Cycles : {SettlementDuty(c), CompletionDuty(c)}
                          \cap {HandoverDuty, ApprovalDuty, RecoveryDuty} = {}
BY DEF Duties, HandoverDuty, ReminderDuty, ApprovalDuty, DenialDuty, ExpiryDuty, RecoveryDuty,
       SettlementDuty, CompletionDuty

\* Opening a duty touches no other, and one that is there already stays as it is.
LEMMA OpenedBooks ==
  ASSUME NEW os \in Books, NEW d \in Duties, NEW within \in Nat, now \in Nat
  PROVE  /\ Opened(os, d, within) \in Books
         /\ \A e \in Duties \ {d} : Opened(os, d, within)[e] = os[e]
         /\ os[d].status # "ABSENT" => Opened(os, d, within)[d] = os[d]
BY DEF Opened, Books

LEMMA OpenedAnew ==
  ASSUME NEW os \in Books, NEW d \in Duties, NEW within \in Nat, now \in Nat,
         os[d].status = "ABSENT"
  PROVE  /\ Opened(os, d, within)[d].status = "OPEN"
         /\ Opened(os, d, within)[d].due = now + within
BY DEF Opened, Books

\* Closing a duty touches no other; what is done in time is discharged.
LEMMA ClosedBooks ==
  ASSUME NEW os \in Books, NEW d \in Duties, NEW status \in {"DISCHARGED", "BREACHED", "CANCELLED"},
         now \in Nat
  PROVE  /\ Closed(os, d, status) \in Books
         /\ \A e \in Duties \ {d} : Closed(os, d, status)[e] = os[e]
BY DEF Closed, Books

LEMMA ClosedStatus ==
  ASSUME NEW os \in Books, NEW d \in Duties, NEW status \in {"DISCHARGED", "BREACHED", "CANCELLED"},
         now \in Nat
  PROVE  /\ os[d].status = "ABSENT" => Closed(os, d, status)[d].status = "ABSENT"
         /\ os[d].status = "OPEN" /\ (status = "DISCHARGED" => now <= os[d].due) =>
              Closed(os, d, status)[d].status = status
BY DEF Closed, Books

\* The other duties are opened and closed without touching these three.
Told == {HandoverDuty, ApprovalDuty, RecoveryDuty}
SameTold(os, ps) == /\ os[HandoverDuty] = ps[HandoverDuty]
                    /\ os[ApprovalDuty] = ps[ApprovalDuty]
                    /\ os[RecoveryDuty] = ps[RecoveryDuty]

LEMMA Untold ==
  /\ ReminderDuty \in Duties \ Told /\ DenialDuty \in Duties \ Told /\ ExpiryDuty \in Duties \ Told
  /\ \A c \in Cycles : SettlementDuty(c) \in Duties \ Told /\ CompletionDuty(c) \in Duties \ Told
<1>1. ReminderDuty \notin Told /\ DenialDuty \notin Told /\ ExpiryDuty \notin Told
  BY DutiesDistinct DEF Told
<1>2. ASSUME NEW c \in Cycles
      PROVE  SettlementDuty(c) \notin Told /\ CompletionDuty(c) \notin Told
  BY DutiesDistinct DEF Told
<1> QED BY <1>1, <1>2, DutiesDistinct

LEMMA OpenedElsewhere ==
  ASSUME NEW os \in Books, NEW d \in Duties \ Told, NEW within \in Nat, now \in Nat
  PROVE  Opened(os, d, within) \in Books /\ SameTold(Opened(os, d, within), os)
<1>1. Opened(os, d, within) \in Books /\ \A e \in Duties \ {d} : Opened(os, d, within)[e] = os[e]
  BY OpenedBooks
<1>2. HandoverDuty \in Duties \ {d} /\ ApprovalDuty \in Duties \ {d} /\ RecoveryDuty \in Duties \ {d}
  BY DutiesDistinct DEF Told
<1> QED BY <1>1, <1>2 DEF SameTold

LEMMA ClosedElsewhere ==
  ASSUME NEW os \in Books, NEW d \in Duties \ Told,
         NEW status \in {"DISCHARGED", "BREACHED", "CANCELLED"}, now \in Nat
  PROVE  Closed(os, d, status) \in Books /\ SameTold(Closed(os, d, status), os)
<1>1. Closed(os, d, status) \in Books /\ \A e \in Duties \ {d} : Closed(os, d, status)[e] = os[e]
  BY ClosedBooks
<1>2. HandoverDuty \in Duties \ {d} /\ ApprovalDuty \in Duties \ {d} /\ RecoveryDuty \in Duties \ {d}
  BY DutiesDistinct DEF Told
<1> QED BY <1>1, <1>2 DEF SameTold

\* One timer is armed under an identity that was never used.
LEMMA ArmOne ==
  ASSUME Shapes, NEW id \in TimerIds, NEW delay \in Nat, id \notin queue.seen,
         Arm(<<[id |-> id, delay |-> delay]>>)
  PROVE  \E seq \in Nat :
           /\ timerCount' \in Nat /\ failed' = FALSE
           /\ queue' = [pending |-> queue.pending \cup {Entry(id, now + delay, seq)},
                        seen |-> queue.seen \cup {id}]
<1> DEFINE ts == <<[id |-> id, delay |-> delay]>>
           armed == {Entry(ts[i].id, now + ts[i].delay, TimerBase + timerCount + i) : i \in DOMAIN ts}
           e == Entry(id, now + delay, TimerBase + timerCount + 1)
<1>1. armed = {e}
  OBVIOUS
<1>2. e.id = id /\ {f.id : f \in {e}} = {id}
  BY DEF Entry
<1>3. MaySchedule(queue, {e})
  BY <1>2 DEF MaySchedule
<1>4. failed' = FALSE
  BY <1>1, <1>3 DEF Arm
<1>5. queue' = Schedule(queue, {e})
  BY <1>1, <1>4 DEF Arm
<1>6. timerCount' \in Nat /\ TimerBase + timerCount + 1 \in Nat
  BY TimerBaseAssumption DEF Arm, Shapes
<1> QED
  BY <1>2, <1>4, <1>5, <1>6 DEF Schedule

\* The two timers of the handover are armed, neither having been used.
LEMMA ArmHandover ==
  ASSUME Shapes, ReminderTimer \notin queue.seen, DeadlineTimer \notin queue.seen, Arm(HandoverClock)
  PROVE  \E m, n \in Nat :
           /\ timerCount' \in Nat /\ failed' = FALSE
           /\ queue' = [pending |-> queue.pending \cup
                                      {Entry(ReminderTimer, now + HandoverReminderAfter, m),
                                       Entry(DeadlineTimer, now + HandoverDeadlineAfter, n)},
                        seen |-> queue.seen \cup {ReminderTimer, DeadlineTimer}]
<1> DEFINE ts == HandoverClock
           armed == {Entry(ts[i].id, now + ts[i].delay, TimerBase + timerCount + i) : i \in DOMAIN ts}
           e == Entry(ReminderTimer, now + HandoverReminderAfter, TimerBase + timerCount + 1)
           f == Entry(DeadlineTimer, now + HandoverDeadlineAfter, TimerBase + timerCount + 2)
<1>1. armed = {e, f}
  <2>1. DOMAIN ts = {1, 2} /\ Len(ts) = 2
    BY DEF HandoverClock
  <2>2. /\ ts[1] = [id |-> ReminderTimer, delay |-> HandoverReminderAfter]
        /\ ts[2] = [id |-> DeadlineTimer, delay |-> HandoverDeadlineAfter]
    BY DEF HandoverClock
  <2> HIDE DEF ts
  <2> QED BY <2>1, <2>2
<1>2. e.id = ReminderTimer /\ f.id = DeadlineTimer /\ {g.id : g \in {e, f}} = {ReminderTimer, DeadlineTimer}
  BY DEF Entry
<1>3. MaySchedule(queue, {e, f})
  <2> HIDE DEF e, f
  <2> QED BY <1>2, TimersDistinct DEF MaySchedule
<1>4. failed' = FALSE
  BY <1>1, <1>3 DEF Arm
<1>5. queue' = Schedule(queue, {e, f})
  BY <1>1, <1>4 DEF Arm
<1>6. timerCount' \in Nat /\ TimerBase + timerCount + 1 \in Nat /\ TimerBase + timerCount + 2 \in Nat
  BY TimerBaseAssumption DEF Arm, Shapes, HandoverClock
<1> QED
  BY <1>2, <1>4, <1>5, <1>6 DEF Schedule

-----------------------------------------------------------------------------
(* What is delivered, and what has been passed over.                        *)

\* Nothing is pending behind the clock: where no least event is due now, no event
\* is, since two are pending only while a handover waits, the reminder first.
LEMMA NothingDue ==
  ASSUME IInv, DueTimers = {}
  PROVE  \A e \in queue.pending : e.at > now
<1> SUFFICES ASSUME NEW e \in queue.pending, e.at = now PROVE FALSE
  BY DEF IInv, Shapes, QueueSet, EntrySet, QueueInv
<1>1. \A f \in queue.pending : f \in EntrySet /\ f.at >= now /\ Meant(f)
  BY DEF IInv, Shapes, QueueSet, QueueInv
<1>2. \A f, g \in queue.pending : f.id = g.id => f = g
  BY DEF IInv, QueueInv
<1>3. PICK f \in queue.pending : Before(f, e)
  BY DEF DueTimers, Upcoming
<1>4. f.at = now /\ f.id # e.id
  BY <1>1, <1>2, <1>3 DEF Before, EntrySet
<1>5. /\ authorisation.status = "ISSUED" => checkpoint # "OPEN" /\ phase # "PROVISIONAL"
      /\ checkpoint = "OPEN" => phase # "PROVISIONAL"
  BY DEF IInv, ReturnStory
<1>6. authorisation.issued + HandoverReminderAfter # authorisation.issued + HandoverDeadlineAfter
  BY CommerceAssumption DEF IInv, Shapes
<1> QED
  BY <1>1, <1>4, <1>5, <1>6 DEF Meant

LEMMA IInvInit == Init => IInv
<1> SUFFICES ASSUME Init PROVE IInv
  OBVIOUS
<1>1. Shapes
  BY DEF Init, Shapes, QueueSet, EntrySet, EmptyQueue, Phases, NoDuty, Books, NoCycle
<1>2. ReturnStory
  BY DEF Init, ReturnStory, Paying, Refunding, Settled
<1>3. MoneyStory
  BY DEF Init, MoneyStory, Refunding, Settled, Finals, NoCycle, First, Recovery, Cycles
<1>4. QueueInv
  BY DEF Init, QueueInv, EmptyQueue, PendingIds, Armed, Used
<1>5. DutyInv
  BY DutiesDistinct DEF Init, DutyInv, NoDuty
<1> QED BY <1>1, <1>2, <1>3, <1>4, <1>5 DEF IInv

-----------------------------------------------------------------------------
(* The events and actions that arm and disarm nothing.                      *)

\* Where queue, authorisation and checkpoint stay, and the phase neither enters nor
\* leaves what a timer is about, timers keep their meaning.
LEMMA TimersStay ==
  ASSUME IInv, UNCHANGED <<now, queue, failed, authorisation, checkpoint, provisional, current>>,
         obligations'[ApprovalDuty].due = obligations[ApprovalDuty].due,
         phase \notin {"PROVISIONAL", "FINAL_SUCCESS"}, phase' # "PROVISIONAL",
         \A c \in Cycles : refunds[c] = "REVERSED" => refunds'[c] = "REVERSED"
  PROVE  QueueInv'
<1>1. \A e \in queue.pending : Meant(e)'
  BY DEF IInv, QueueInv, Meant
<1>2. Armed' /\ Used'
  BY DEF IInv, QueueInv, Armed, Used, PendingIds
<1> QED BY <1>1, <1>2 DEF IInv, QueueInv, PendingIds

LEMMA ReturnRequestedKeeps == IInv /\ ReturnRequested => IInv'
<1> SUFFICES ASSUME IInv, ReturnRequested PROVE IInv'
  OBVIOUS
<1> USE DEF ReturnRequested, worldVars, returnVars, moneyVars, dutyVars, endVars
<1>1. Shapes'
  BY DEF IInv, Shapes, Phases
<1>2. ReturnStory'
  BY DEF IInv, ReturnStory, Paying, Refunding, Settled
<1>3. MoneyStory'
  BY DEF IInv, MoneyStory, Refunding, Settled, Finals, First, Recovery, NoCycle
<1>4. QueueInv'
  <2>1. \A e \in queue.pending : Meant(e)'
    BY DEF IInv, QueueInv, Meant
  <2>2. Armed' /\ Used'
    BY DEF IInv, QueueInv, Armed, Used, PendingIds
  <2> QED BY <2>1, <2>2 DEF IInv, QueueInv, PendingIds
<1>5. DutyInv'
  BY DEF IInv, DutyInv, NoOpenDuty, Open
<1> QED BY <1>1, <1>2, <1>3, <1>4, <1>5 DEF IInv

LEMMA HandoverClaimedKeeps == IInv /\ HandoverClaimed => IInv'
BY DEF IInv, HandoverClaimed, Shapes, ReturnStory, MoneyStory, QueueInv, Meant, Armed, Used,
       PendingIds, DutyInv, NoOpenDuty, Open, worldVars, moneyVars, dutyVars, endVars

LEMMA InspectionCompletedKeeps ==
  \A disposition \in {"ELIGIBLE", "INELIGIBLE"} : IInv /\ InspectionCompleted(disposition) => IInv'
<1> SUFFICES ASSUME NEW disposition \in {"ELIGIBLE", "INELIGIBLE"}, IInv,
                    InspectionCompleted(disposition)
             PROVE  IInv'
  OBVIOUS
<1>1. obligations' \in Books /\ SameTold(obligations', obligations)
  <2> DEFINE opened == Opened(obligations, DenialDuty, NoticeWithin)
  <2>1. opened \in Books /\ SameTold(opened, obligations)
    BY OpenedElsewhere, Untold, PolicyType, BooksType
  <2> HIDE DEF opened
  <2>2. obligations' = obligations \/ obligations' = opened
    BY DEF InspectionCompleted, opened
  <2> QED BY <2>1, <2>2, BooksType DEF SameTold
<1> USE DEF InspectionCompleted, worldVars, moneyVars, endVars
<1>2. Shapes'
  BY <1>1 DEF IInv, Shapes, Phases
<1>3. ReturnStory'
  BY DEF IInv, Shapes, ReturnStory, Paying, Refunding, Settled
<1>4. MoneyStory'
  BY DEF IInv, MoneyStory, Refunding, Settled, Finals, First, Recovery, NoCycle
<1>5. QueueInv'
  BY <1>1, TimersStay DEF SameTold
<1>6. DutyInv'
  BY <1>1 DEF IInv, DutyInv, SameTold
<1> QED BY <1>2, <1>3, <1>4, <1>5, <1>6 DEF IInv

\* A refund opens the duty of its settlement and may discharge the one to recover.
LEMMA RequestRefundKeeps == IInv /\ RequestRefund => IInv'
<1> SUFFICES ASSUME IInv, RequestRefund PROVE IInv'
  OBVIOUS
<1> DEFINE done == Closed(obligations, RecoveryDuty, "DISCHARGED")
<1>1. PICK recovered \in {obligations, done} :
        obligations' = Opened(recovered, SettlementDuty(current), Horizon)
  BY DEF RequestRefund
<1>2. /\ obligations' \in Books
      /\ obligations'[HandoverDuty] = obligations[HandoverDuty]
      /\ obligations'[ApprovalDuty] = obligations[ApprovalDuty]
      /\ obligations'[RecoveryDuty].status # "ABSENT" => obligations[RecoveryDuty].status # "ABSENT"
  <2>1. /\ done \in Books
        /\ \A d \in Duties \ {RecoveryDuty} : done[d] = obligations[d]
        /\ done[RecoveryDuty].status # "ABSENT" => obligations[RecoveryDuty].status # "ABSENT"
    BY ClosedBooks, ClosedStatus, DutiesDistinct, BooksType
  <2> HIDE DEF done
  <2>2. /\ recovered \in Books
        /\ recovered[HandoverDuty] = obligations[HandoverDuty]
        /\ recovered[ApprovalDuty] = obligations[ApprovalDuty]
        /\ recovered[RecoveryDuty].status # "ABSENT" => obligations[RecoveryDuty].status # "ABSENT"
    BY <2>1, DutiesDistinct, BooksType
  <2>3. SettlementDuty(current) \in Duties \ Told
    BY Untold DEF RequestRefund
  <2>4. obligations' \in Books /\ SameTold(obligations', recovered)
    BY <1>1, <2>2, <2>3, OpenedElsewhere, PolicyType, BooksType
  <2> QED BY <2>2, <2>4 DEF SameTold
<1> USE DEF RequestRefund, worldVars, returnVars, endVars
<1>3. Shapes'
  BY <1>2 DEF IInv, Shapes, Phases, Paying, Refunding
<1>4. ReturnStory'
  BY DEF IInv, Shapes, ReturnStory, Paying, Refunding, Settled
<1>5. MoneyStory'
  BY DEF IInv, Shapes, MoneyStory, Refunding, Settled, Finals, First, Recovery, NoCycle, Cycles,
         Unrefunded
<1>6. \A c \in Cycles : refunds[c] = "REVERSED" => refunds'[c] = "REVERSED"
  BY DEF IInv, Shapes, Unrefunded
<1>7. QueueInv'
  BY <1>2, <1>6, TimersStay
<1>8. DutyInv'
  BY <1>2, <1>6, DutiesDistinct DEF IInv, DutyInv, Cycles, First
<1> QED BY <1>3, <1>4, <1>5, <1>7, <1>8 DEF IInv

\* Only the refund of the current cycle can be outstanding.
LEMMA SettlementConfirmedKeeps == \A c \in Cycles : IInv /\ SettlementConfirmed(c) => IInv'
<1> SUFFICES ASSUME NEW c \in Cycles, IInv, SettlementConfirmed(c) PROVE IInv'
  OBVIOUS
<1>1. phase = "REFUND_PENDING" /\ current = c
  BY DEF SettlementConfirmed, IInv, Shapes, MoneyStory, Refunding, Settled, First, Recovery, NoCycle, Cycles
<1>2. obligations' \in Books /\ SameTold(obligations', obligations)
  <2> DEFINE done == Closed(obligations, SettlementDuty(c), "DISCHARGED")
  <2>1. obligations' = Opened(done, CompletionDuty(c), NoticeWithin)
    BY DEF SettlementConfirmed
  <2>2. done \in Books /\ SameTold(done, obligations)
    BY ClosedElsewhere, Untold, BooksType
  <2> HIDE DEF done
  <2>3. obligations' \in Books /\ SameTold(obligations', done)
    BY <2>1, <2>2, OpenedElsewhere, Untold, PolicyType, BooksType
  <2> QED BY <2>2, <2>3 DEF SameTold
<1> USE DEF SettlementConfirmed, SameTold, worldVars, returnVars, endVars
<1>3. Shapes'
  BY <1>2 DEF IInv, Shapes, Phases, Paying, Refunding, Settled
<1>4. ReturnStory'
  BY <1>1 DEF IInv, Shapes, ReturnStory, Paying, Refunding, Settled
<1>5. MoneyStory'
  BY <1>1 DEF IInv, Shapes, MoneyStory, Refunding, Settled, Finals, First, Recovery, NoCycle, Cycles
<1>6. \A d \in Cycles : refunds[d] = "REVERSED" => refunds'[d] = "REVERSED"
  BY DEF IInv, Shapes
<1>7. QueueInv'
  BY <1>1, <1>2, <1>6, TimersStay
<1>8. DutyInv'
  BY <1>1, <1>2, <1>6, DutiesDistinct DEF IInv, DutyInv, Cycles, First
<1> QED BY <1>3, <1>4, <1>5, <1>7, <1>8 DEF IInv

\* A message discharges its duty and no other.
LEMMA SendMessageKeeps ==
  \A message \in {"reminder", "expired", "denied", "complete"}, c \in Cycles :
    IInv /\ SendMessage(message, c) => IInv'
<1> SUFFICES ASSUME NEW message \in {"reminder", "expired", "denied", "complete"}, NEW c \in Cycles,
                    IInv, SendMessage(message, c)
             PROVE  IInv'
  OBVIOUS
<1>1. Owed(message, c) \in Duties \ Told
  BY Untold DEF Owed
<1>2. obligations' \in Books /\ SameTold(obligations', obligations)
  <2>1. obligations' = Closed(obligations, Owed(message, c), "DISCHARGED")
    BY DEF SendMessage
  <2> QED BY <1>1, <2>1, ClosedElsewhere, BooksType
<1>3. phase \notin {"PROVISIONAL", "FINAL_SUCCESS"}
  BY <1>1 DEF SendMessage, IInv, DutyInv, NoOpenDuty
<1> USE DEF SendMessage, SameTold, worldVars, returnVars, moneyVars, endVars
<1>4. Shapes' /\ ReturnStory' /\ MoneyStory'
  BY <1>2 DEF IInv, Shapes, ReturnStory, MoneyStory
<1>5. QueueInv'
  BY <1>2, <1>3, TimersStay
<1>6. DutyInv'
  BY <1>2, <1>3 DEF IInv, DutyInv
<1> QED BY <1>4, <1>5, <1>6 DEF IInv

-----------------------------------------------------------------------------
(* The actions that arm a timer.                                            *)

LEMMA IssueAuthorisationKeeps == IInv /\ IssueAuthorisation => IInv'
<1> SUFFICES ASSUME IInv, IssueAuthorisation PROVE IInv'
  OBVIOUS
<1>1. phase = "RETURN_REQUESTED" /\ authorisation.status = "ABSENT" /\ checkpoint = "ABSENT"
  BY DEF IssueAuthorisation, IInv, ReturnStory
<1>2. ReminderTimer \notin queue.seen /\ DeadlineTimer \notin queue.seen
  BY <1>1 DEF IInv, QueueInv, Used
<1> DEFINE opened == Opened(obligations, HandoverDuty, HandoverDeadlineAfter)
<1>3. /\ opened \in Books
      /\ opened[HandoverDuty].status = "OPEN"
      /\ opened[HandoverDuty].due = now + HandoverDeadlineAfter
      /\ opened[ApprovalDuty] = obligations[ApprovalDuty]
      /\ opened[RecoveryDuty] = obligations[RecoveryDuty]
  <2>1. obligations[HandoverDuty].status = "ABSENT"
    BY <1>1 DEF IInv, DutyInv
  <2>2. /\ HandoverDuty \in Duties
        /\ ApprovalDuty \in Duties \ {HandoverDuty} /\ RecoveryDuty \in Duties \ {HandoverDuty}
    BY DutiesDistinct
  <2>3. opened[HandoverDuty].status = "OPEN" /\ opened[HandoverDuty].due = now + HandoverDeadlineAfter
    BY <2>1, <2>2, OpenedAnew, PolicyType, BooksType
  <2>4. opened \in Books /\ \A d \in Duties \ {HandoverDuty} : opened[d] = obligations[d]
    BY <2>2, OpenedBooks, PolicyType, BooksType
  <2> HIDE DEF opened
  <2> QED BY <2>2, <2>3, <2>4
<1> HIDE DEF opened
<1>4. obligations' = opened
  BY DEF IssueAuthorisation, opened
<1> DEFINE rem(k) == Entry(ReminderTimer, now + HandoverReminderAfter, k)
           dead(k) == Entry(DeadlineTimer, now + HandoverDeadlineAfter, k)
<1>5. PICK m, n \in Nat :
        /\ timerCount' \in Nat /\ failed' = FALSE
        /\ queue' = [pending |-> queue.pending \cup {rem(m), dead(n)},
                     seen |-> queue.seen \cup {ReminderTimer, DeadlineTimer}]
  BY <1>2, ArmHandover DEF IssueAuthorisation, IInv
<1>6. /\ rem(m) \in EntrySet /\ rem(m).id = ReminderTimer /\ rem(m).at = now + HandoverReminderAfter
      /\ dead(n) \in EntrySet /\ dead(n).id = DeadlineTimer /\ dead(n).at = now + HandoverDeadlineAfter
  BY TimersDistinct, PolicyType, BooksType DEF Entry, EntrySet
<1> HIDE DEF rem, dead
<1>7. queue' \in QueueSet
  BY <1>5, <1>6, TimersDistinct DEF IInv, Shapes, QueueSet
<1>8. /\ authorisation' = [status |-> "ISSUED", issued |-> now, reminderDue |-> FALSE]
      /\ phase' = "AWAITING_HANDOVER"
      /\ UNCHANGED <<now, current, claimed, handedOver, inspection, checkpoint, refunds, notices,
                     provisional, terminal>>
  BY DEF IssueAuthorisation, moneyVars, endVars
<1>9. Shapes'
  BY <1>3, <1>4, <1>5, <1>7, <1>8 DEF IInv, Shapes, Phases
<1>10. ReturnStory' /\ MoneyStory'
  BY <1>1, <1>8 DEF IInv, ReturnStory, MoneyStory, Paying, Refunding, Settled, Finals
<1>11. QueueInv'
  <2>1. queue.pending = {}
    BY <1>1 DEF IInv, QueueInv, Meant
  <2>2. queue'.pending = {rem(m), dead(n)} /\ queue'.seen = queue.seen \cup {ReminderTimer, DeadlineTimer}
    BY <2>1, <1>5
  <2>3. PendingIds(queue)' = {ReminderTimer, DeadlineTimer}
    BY <2>2, <1>6 DEF PendingIds
  <2>4. \A e, f \in queue'.pending : e.id = f.id => e = f
    BY <2>2, <1>6, TimersDistinct
  <2>5. \A e \in queue'.pending : e.at >= now' /\ Meant(e)'
    BY <2>2, <1>6, <1>8, PolicyType, BooksType DEF Meant
  <2>6. Armed'
    BY <2>3, <1>1, <1>8 DEF Armed
  <2>7. Used'
    <3>1. \A c \in Cycles : CooldownTimer(c) \in queue'.seen => CooldownTimer(c) \in queue.seen
      BY <2>2, TimersDistinct DEF Cycles, First, Recovery
    <3>2. ApprovalTimer \notin queue'.seen
      BY <1>1, <2>2, TimersDistinct DEF IInv, QueueInv, Used
    <3>3. authorisation'.status # "ABSENT"
      BY <1>8
    <3> QED BY <1>1, <1>8, <3>1, <3>2, <3>3 DEF Used, IInv, QueueInv
  <2> QED BY <2>2, <2>3, <2>4, <2>5, <2>6, <2>7, <1>5 DEF QueueInv
<1>12. DutyInv'
  BY <1>1, <1>3, <1>4, <1>8 DEF IInv, DutyInv
<1> QED BY <1>9, <1>10, <1>11, <1>12 DEF IInv

\* What adding one armed timer to the queue does, whatever it is for.
LEMMA OneMoreTimer ==
  ASSUME IInv, NEW id \in TimerIds, NEW delay \in Nat, id \notin queue.seen,
         Arm(<<[id |-> id, delay |-> delay]>>), now' = now,
         \A e \in queue.pending : Meant(e)',
         \A e \in EntrySet : e.id = id /\ e.at = now + delay => Meant(e)'
  PROVE  /\ timerCount' \in Nat /\ failed' = FALSE /\ queue' \in QueueSet
         /\ queue'.seen = queue.seen \cup {id}
         /\ PendingIds(queue)' = PendingIds(queue) \cup {id}
         /\ PendingIds(queue)' \subseteq queue'.seen
         /\ \A e, f \in queue'.pending : e.id = f.id => e = f
         /\ \A e \in queue'.pending : e.at >= now' /\ Meant(e)'
<1> DEFINE new(k) == Entry(id, now + delay, k)
<1>1. PICK k \in Nat :
        /\ timerCount' \in Nat /\ failed' = FALSE
        /\ queue' = [pending |-> queue.pending \cup {new(k)}, seen |-> queue.seen \cup {id}]
  BY ArmOne DEF IInv
<1>2. new(k) \in EntrySet /\ new(k).id = id /\ new(k).at = now + delay
  BY BooksType DEF Entry, EntrySet
<1> HIDE DEF new
<1>3. queue'.pending = queue.pending \cup {new(k)} /\ queue'.seen = queue.seen \cup {id}
  BY <1>1
<1>4. queue' \in QueueSet
  BY <1>1, <1>2 DEF IInv, Shapes, QueueSet
<1>5. PendingIds(queue)' = PendingIds(queue) \cup {id}
  BY <1>2, <1>3 DEF PendingIds
<1>6. PendingIds(queue) \subseteq queue.seen
  BY DEF IInv, QueueInv
<1>7. \A e, f \in queue'.pending : e.id = f.id => e = f
  BY <1>2, <1>3, <1>6 DEF IInv, QueueInv, PendingIds
<1>8. \A e \in queue'.pending : e.at >= now' /\ Meant(e)'
  <2> SUFFICES ASSUME NEW e \in queue'.pending PROVE e.at >= now /\ Meant(e)'
    OBVIOUS
  <2>1. CASE e = new(k)
    <3>1. e \in EntrySet /\ e.id = id /\ e.at = now + delay
      BY <2>1, <1>2
    <3>2. now + delay >= now
      BY BooksType
    <3> QED BY <3>1, <3>2
  <2>2. CASE e \in queue.pending
    BY <2>2 DEF IInv, QueueInv
  <2> QED BY <1>3, <2>1, <2>2
<1> QED BY <1>1, <1>3, <1>4, <1>5, <1>6, <1>7, <1>8

LEMMA RequestApprovalKeeps == IInv /\ RequestApproval => IInv'
<1> SUFFICES ASSUME IInv, RequestApproval PROVE IInv'
  OBVIOUS
<1>1. phase = "AWAITING_APPROVAL" /\ inspection = "ELIGIBLE" /\ checkpoint = "ABSENT"
  BY DEF RequestApproval
<1>2. authorisation.status = "VERIFIED"
  BY <1>1 DEF IInv, ReturnStory
<1> DEFINE opened == Opened(obligations, ApprovalDuty, ApprovalDeadlineAfter)
<1>3. /\ opened \in Books
      /\ opened[ApprovalDuty].status = "OPEN"
      /\ opened[ApprovalDuty].due = now + ApprovalDeadlineAfter
      /\ opened[HandoverDuty] = obligations[HandoverDuty]
      /\ opened[RecoveryDuty] = obligations[RecoveryDuty]
  <2>1. obligations[ApprovalDuty].status = "ABSENT"
    BY <1>1 DEF IInv, DutyInv
  <2>2. /\ ApprovalDuty \in Duties
        /\ HandoverDuty \in Duties \ {ApprovalDuty} /\ RecoveryDuty \in Duties \ {ApprovalDuty}
    BY DutiesDistinct
  <2>3. opened[ApprovalDuty].status = "OPEN" /\ opened[ApprovalDuty].due = now + ApprovalDeadlineAfter
    BY <2>1, <2>2, OpenedAnew, PolicyType, BooksType
  <2>4. opened \in Books /\ \A d \in Duties \ {ApprovalDuty} : opened[d] = obligations[d]
    BY <2>2, OpenedBooks, PolicyType, BooksType
  <2> HIDE DEF opened
  <2> QED BY <2>2, <2>3, <2>4
<1> HIDE DEF opened
<1>4. /\ obligations' = opened /\ checkpoint' = "OPEN"
      /\ Arm(<<[id |-> ApprovalTimer, delay |-> ApprovalDeadlineAfter]>>)
      /\ UNCHANGED <<now, phase, current, claimed, authorisation, handedOver, inspection, refunds,
                     notices, provisional, terminal>>
  BY DEF RequestApproval, opened, returnVars, endVars
<1>5. queue.pending = {} /\ ApprovalTimer \notin queue.seen
  BY <1>1, <1>2 DEF IInv, QueueInv, Meant, Used
<1>6. \A e \in EntrySet : e.id = ApprovalTimer /\ e.at = now + ApprovalDeadlineAfter => Meant(e)'
  BY <1>3, <1>4 DEF Meant
<1>7. /\ timerCount' \in Nat /\ failed' = FALSE /\ queue' \in QueueSet
      /\ queue'.seen = queue.seen \cup {ApprovalTimer}
      /\ PendingIds(queue)' = PendingIds(queue) \cup {ApprovalTimer}
      /\ PendingIds(queue)' \subseteq queue'.seen
      /\ \A e, f \in queue'.pending : e.id = f.id => e = f
      /\ \A e \in queue'.pending : e.at >= now' /\ Meant(e)'
  <2>1. \A e \in queue.pending : Meant(e)'
    BY <1>5
  <2>2. now' = now /\ ApprovalTimer \in TimerIds /\ ApprovalDeadlineAfter \in Nat
    BY <1>4, TimersDistinct, PolicyType
  <2> QED BY <1>4, <1>5, <1>6, <2>1, <2>2, OneMoreTimer
<1>8. Shapes'
  BY <1>3, <1>4, <1>7 DEF IInv, Shapes
<1>9. ReturnStory' /\ MoneyStory'
  BY <1>1, <1>4 DEF IInv, ReturnStory, MoneyStory, Paying, Refunding, Settled
<1>10. Armed'
  BY <1>1, <1>2, <1>4, <1>7 DEF Armed
<1>11. Used'
  BY <1>2, <1>4, <1>7, TimersDistinct DEF Used, IInv, QueueInv, Cycles, First, Recovery
<1>12. DutyInv'
  BY <1>1, <1>3, <1>4 DEF IInv, DutyInv
<1> QED BY <1>7, <1>8, <1>9, <1>10, <1>11, <1>12 DEF IInv, QueueInv

LEMMA CompleteProvisionallyKeeps == IInv /\ CompleteProvisionally => IInv'
<1> SUFFICES ASSUME IInv, CompleteProvisionally PROVE IInv'
  OBVIOUS
<1>1. /\ phase = "REFUND_SETTLED" /\ NoOpenDuty /\ checkpoint = "APPROVED"
      /\ current \in Cycles /\ refunds[current] = "SETTLED"
  BY DEF CompleteProvisionally, MayComplete, IInv, Shapes, MoneyStory, Refunding, Settled, Cycles,
         First, Recovery, NoCycle
<1>2. authorisation.status = "VERIFIED"
  BY <1>1 DEF IInv, ReturnStory
<1>3. /\ phase' = "PROVISIONAL" /\ provisional' = [cycle |-> current, expires |-> now + CloseAfter]
      /\ Arm(<<[id |-> CooldownTimer(current), delay |-> CloseAfter]>>)
      /\ UNCHANGED <<now, current, claimed, authorisation, handedOver, inspection, checkpoint, refunds,
                     obligations, notices, terminal>>
  BY DEF CompleteProvisionally, returnVars, moneyVars, dutyVars
<1>4. queue.pending = {} /\ CooldownTimer(current) \notin queue.seen
  BY <1>1, <1>2 DEF IInv, QueueInv, Meant, Used
<1>5. \A e \in EntrySet : e.id = CooldownTimer(current) /\ e.at = now + CloseAfter => Meant(e)'
  BY <1>3 DEF Meant
<1>6. /\ timerCount' \in Nat /\ failed' = FALSE /\ queue' \in QueueSet
      /\ queue'.seen = queue.seen \cup {CooldownTimer(current)}
      /\ PendingIds(queue)' = PendingIds(queue) \cup {CooldownTimer(current)}
      /\ PendingIds(queue)' \subseteq queue'.seen
      /\ \A e, f \in queue'.pending : e.id = f.id => e = f
      /\ \A e \in queue'.pending : e.at >= now' /\ Meant(e)'
  <2>1. CooldownTimer(current) \in TimerIds
    BY <1>1, TimersDistinct
  <2> QED BY <1>3, <1>4, <1>5, <2>1, OneMoreTimer, PolicyType
<1>7. Shapes'
  BY <1>3, <1>6, PolicyType DEF IInv, Shapes, Phases, Paying, Refunding, Settled
<1>8. ReturnStory' /\ MoneyStory'
  BY <1>1, <1>3 DEF IInv, ReturnStory, MoneyStory, Paying, Refunding, Settled, Finals
<1>9. Armed'
  BY <1>1, <1>2, <1>3, <1>6 DEF Armed
<1>10. Used'
  <2>1. \A c \in Cycles : CooldownTimer(c) \in queue'.seen =>
           c = current \/ CooldownTimer(c) \in queue.seen
    BY <1>1, <1>6, TimersDistinct DEF Cycles, First, Recovery
  <2>2. \A c \in Cycles : CooldownTimer(c) \in queue.seen => refunds[c] = "REVERSED"
    BY <1>1 DEF IInv, QueueInv, Used
  <2>3. /\ CooldownTimer(current) \notin {ReminderTimer, DeadlineTimer, ApprovalTimer}
        /\ Used
    BY <1>1, TimersDistinct DEF IInv, QueueInv, Cycles, First, Recovery
  <2> QED BY <1>1, <1>2, <1>3, <1>6, <2>1, <2>2, <2>3 DEF Used
<1>11. DutyInv'
  BY <1>1, <1>3 DEF IInv, DutyInv, NoOpenDuty, Open
<1> QED BY <1>6, <1>7, <1>8, <1>9, <1>10, <1>11 DEF IInv, QueueInv

-----------------------------------------------------------------------------
(* The events that disarm a timer, and the endings.                         *)

\* What is awaited is not late yet: its timer is pending, and nothing is overdue.
LEMMA InTime ==
  ASSUME IInv
  PROVE  /\ authorisation.status = "ISSUED" => now <= obligations[HandoverDuty].due
         /\ checkpoint = "OPEN" => now <= obligations[ApprovalDuty].due
         /\ phase = "PROVISIONAL" => now <= provisional.expires
<1>1. \A e \in queue.pending : e.at >= now /\ Meant(e)
  BY DEF IInv, QueueInv
<1>2. CASE authorisation.status = "ISSUED"
  <2>1. PICK e \in queue.pending : e.id = DeadlineTimer
    BY <1>2 DEF IInv, QueueInv, Armed, PendingIds
  <2>2. e.at = authorisation.issued + HandoverDeadlineAfter /\ e.at >= now
    BY <1>1, <2>1, TimersDistinct DEF Meant, IInv, Shapes
  <2>3. obligations[HandoverDuty].due = authorisation.issued + HandoverDeadlineAfter
    BY <1>2 DEF IInv, DutyInv
  <2>4. checkpoint # "OPEN" /\ phase # "PROVISIONAL"
    BY <1>2 DEF IInv, ReturnStory
  <2> QED BY <2>2, <2>3, <2>4, PolicyType DEF IInv, Shapes
<1>3. CASE checkpoint = "OPEN"
  <2>1. PICK e \in queue.pending : e.id = ApprovalTimer
    BY <1>3 DEF IInv, QueueInv, Armed, PendingIds
  <2>2. e.at = obligations[ApprovalDuty].due /\ e.at >= now
    BY <1>1, <2>1, TimersDistinct DEF Meant, IInv, Shapes
  <2>3. authorisation.status # "ISSUED" /\ phase # "PROVISIONAL"
    BY <1>3 DEF IInv, ReturnStory
  <2>4. obligations[ApprovalDuty].due \in Nat
    BY BooksType, DutiesDistinct DEF Books
  <2> QED BY <2>2, <2>3, <2>4, BooksType
<1>4. CASE phase = "PROVISIONAL"
  <2>1. PICK e \in queue.pending : e.id = CooldownTimer(provisional.cycle)
    BY <1>4 DEF IInv, QueueInv, Armed, PendingIds
  <2>2. e.at = provisional.expires /\ e.at >= now
    BY <1>1, <2>1, TimersDistinct DEF Meant, IInv, Shapes
  <2>3. authorisation.status # "ISSUED" /\ checkpoint # "OPEN"
    BY <1>4 DEF IInv, ReturnStory
  <2> QED BY <2>2, <2>3, BooksType DEF IInv, Shapes
<1> QED BY <1>2, <1>3, <1>4

\* What is left of the queue once some timers are gone.
LEMMA FewerTimers ==
  ASSUME IInv, NEW P \in SUBSET queue.pending, queue' = [pending |-> P, seen |-> queue.seen],
         UNCHANGED <<now, failed>>, \A e \in P : Meant(e)'
  PROVE  /\ queue' \in QueueSet /\ failed' = FALSE
         /\ PendingIds(queue)' \subseteq queue'.seen
         /\ \A e, f \in queue'.pending : e.id = f.id => e = f
         /\ \A e \in queue'.pending : e.at >= now' /\ Meant(e)'
<1>1. queue'.pending = P /\ queue'.seen = queue.seen
  OBVIOUS
<1>2. queue' \in QueueSet
  BY DEF IInv, Shapes, QueueSet
<1>3. PendingIds(queue)' \subseteq queue'.seen
  BY <1>1 DEF IInv, QueueInv, PendingIds
<1> QED BY <1>1, <1>2, <1>3 DEF IInv, QueueInv

\* Once the subject is not waited for any more, none of its timers is left.
LEMMA DisarmedAll ==
  ASSUME IInv, NEW ids, Disarm(ids), now' = now,
         \A e \in queue.pending : e.id \in ids
  PROVE  /\ queue'.pending = {} /\ queue'.seen = queue.seen
         /\ queue' \in QueueSet /\ timerCount' = timerCount /\ failed' = FALSE
<1>1. queue \in QueueSet
  BY DEF IInv, Shapes
<1>2. queue' = [pending |-> {e \in queue.pending : e.id \notin ids}, seen |-> queue.seen]
  BY <1>1 DEF Disarm, Cancel, QueueSet
<1>3. {e \in queue.pending : e.id \notin ids} = {}
  OBVIOUS
<1> QED BY <1>1, <1>2, <1>3 DEF Disarm, QueueSet, IInv, QueueInv

LEMMA HandoverVerifiedKeeps == IInv /\ HandoverVerified => IInv'
<1> SUFFICES ASSUME IInv, HandoverVerified PROVE IInv'
  OBVIOUS
<1>1. /\ authorisation.status = "ISSUED" /\ phase = "AWAITING_HANDOVER"
      /\ checkpoint = "ABSENT" /\ inspection = "NONE"
  BY DEF HandoverVerified, IInv, Shapes, ReturnStory
<1> DEFINE done == Closed(obligations, HandoverDuty, "DISCHARGED")
<1>2. obligations' \in Books /\ SameTold(obligations', done)
  <2>1. done \in Books
    BY ClosedBooks, DutiesDistinct, BooksType
  <2>2. obligations' = Closed(done, ReminderDuty, "CANCELLED")
    BY DEF HandoverVerified
  <2> HIDE DEF done
  <2> QED BY <2>1, <2>2, ClosedElsewhere, Untold, BooksType
<1>3. /\ done[HandoverDuty].status = "DISCHARGED"
      /\ done[ApprovalDuty] = obligations[ApprovalDuty]
      /\ done[RecoveryDuty] = obligations[RecoveryDuty]
  <2>1. obligations[HandoverDuty].status = "OPEN" /\ now <= obligations[HandoverDuty].due
    BY <1>1, InTime DEF IInv, DutyInv
  <2>2. /\ HandoverDuty \in Duties
        /\ ApprovalDuty \in Duties \ {HandoverDuty} /\ RecoveryDuty \in Duties \ {HandoverDuty}
    BY DutiesDistinct
  <2>3. done[HandoverDuty].status = "DISCHARGED"
    BY <2>1, <2>2, ClosedStatus, BooksType
  <2>4. \A d \in Duties \ {HandoverDuty} : done[d] = obligations[d]
    BY <2>2, ClosedBooks, BooksType
  <2> HIDE DEF done
  <2> QED BY <2>2, <2>3, <2>4
<1> HIDE DEF done
<1>4. /\ handedOver' = TRUE /\ authorisation' = [authorisation EXCEPT !.status = "VERIFIED"]
      /\ phase' = "AWAITING_INSPECTION" /\ Disarm({ReminderTimer, DeadlineTimer})
      /\ UNCHANGED <<now, current, claimed, inspection, checkpoint, refunds, notices, provisional,
                     terminal>>
  BY DEF HandoverVerified, moneyVars, endVars
<1>5. authorisation'.status = "VERIFIED"
  BY <1>4 DEF IInv, Shapes
<1>6. /\ queue'.pending = {} /\ queue'.seen = queue.seen
      /\ queue' \in QueueSet /\ timerCount' = timerCount /\ failed' = FALSE
  <2>1. \A e \in queue.pending : e.id \in {ReminderTimer, DeadlineTimer}
    BY <1>1 DEF IInv, QueueInv, Meant
  <2> QED BY <1>4, <2>1, DisarmedAll
<1>7. Shapes'
  BY <1>2, <1>4, <1>6 DEF IInv, Shapes, Phases
<1>8. ReturnStory' /\ MoneyStory'
  BY <1>1, <1>4, <1>5 DEF IInv, ReturnStory, MoneyStory, Paying, Refunding, Settled, Finals
<1>9. QueueInv'
  <2>1. PendingIds(queue)' = {}
    BY <1>6 DEF PendingIds
  <2>2. Armed'
    BY <1>1, <1>4, <1>5 DEF Armed
  <2>3. Used'
    BY <1>1, <1>4, <1>5, <1>6 DEF IInv, QueueInv, Used
  <2> QED BY <1>6, <2>1, <2>2, <2>3 DEF QueueInv
<1>10. DutyInv'
  BY <1>1, <1>2, <1>3, <1>4, <1>5 DEF IInv, DutyInv, SameTold
<1> QED BY <1>7, <1>8, <1>9, <1>10 DEF IInv

LEMMA ApprovalReceivedKeeps ==
  \A decision \in {"APPROVED", "REJECTED"} : IInv /\ ApprovalReceived(decision) => IInv'
<1> SUFFICES ASSUME NEW decision \in {"APPROVED", "REJECTED"}, IInv, ApprovalReceived(decision)
             PROVE  IInv'
  OBVIOUS
<1>1. /\ checkpoint = "OPEN" /\ phase = "AWAITING_APPROVAL"
      /\ authorisation.status = "VERIFIED" /\ inspection = "ELIGIBLE"
  BY DEF ApprovalReceived, IInv, Shapes, ReturnStory
<1> DEFINE done == Closed(obligations, ApprovalDuty, "DISCHARGED")
<1>2. /\ done \in Books
      /\ done[ApprovalDuty].status = "DISCHARGED"
      /\ done[HandoverDuty] = obligations[HandoverDuty]
      /\ done[RecoveryDuty] = obligations[RecoveryDuty]
  <2>1. obligations[ApprovalDuty].status = "OPEN" /\ now <= obligations[ApprovalDuty].due
    BY <1>1, InTime DEF IInv, DutyInv
  <2>2. /\ ApprovalDuty \in Duties
        /\ HandoverDuty \in Duties \ {ApprovalDuty} /\ RecoveryDuty \in Duties \ {ApprovalDuty}
    BY DutiesDistinct
  <2>3. done[ApprovalDuty].status = "DISCHARGED"
    BY <2>1, <2>2, ClosedStatus, BooksType
  <2>4. done \in Books /\ \A d \in Duties \ {ApprovalDuty} : done[d] = obligations[d]
    BY <2>2, ClosedBooks, BooksType
  <2> HIDE DEF done
  <2> QED BY <2>2, <2>3, <2>4
<1>3. obligations' \in Books /\ SameTold(obligations', done)
  <2> DEFINE opened == Opened(done, DenialDuty, NoticeWithin)
  <2>1. obligations' = done \/ obligations' = opened
    BY DEF ApprovalReceived
  <2> HIDE DEF done
  <2>2. opened \in Books /\ SameTold(opened, done)
    BY <1>2, OpenedElsewhere, Untold, PolicyType, BooksType
  <2> HIDE DEF opened
  <2> QED BY <1>2, <2>1, <2>2 DEF SameTold
<1> HIDE DEF done
<1>4. /\ checkpoint' = decision /\ Disarm({ApprovalTimer})
      /\ phase' = IF decision = "APPROVED" THEN "READY_TO_REFUND" ELSE "REFUND_DENIED"
      /\ UNCHANGED <<now, current, claimed, authorisation, handedOver, inspection, refunds, notices,
                     provisional, terminal>>
  BY DEF ApprovalReceived, returnVars, endVars
<1>5. /\ queue'.pending = {} /\ queue'.seen = queue.seen
      /\ queue' \in QueueSet /\ timerCount' = timerCount /\ failed' = FALSE
  <2>1. \A e \in queue.pending : e.id \in {ApprovalTimer}
    BY <1>1 DEF IInv, QueueInv, Meant
  <2> QED BY <1>4, <2>1, DisarmedAll
<1>6. Shapes'
  BY <1>3, <1>4, <1>5 DEF IInv, Shapes, Phases, Paying
<1>7. ReturnStory' /\ MoneyStory'
  BY <1>1, <1>4 DEF IInv, ReturnStory, MoneyStory, Paying, Refunding, Settled, Finals
<1>8. QueueInv'
  <2>1. PendingIds(queue)' = {}
    BY <1>5 DEF PendingIds
  <2>2. Armed'
    BY <1>1, <1>4 DEF Armed
  <2>3. Used'
    BY <1>1, <1>4, <1>5 DEF IInv, QueueInv, Used
  <2> QED BY <1>5, <2>1, <2>2, <2>3 DEF QueueInv
<1>9. DutyInv'
  BY <1>1, <1>2, <1>3, <1>4 DEF IInv, DutyInv, SameTold
<1> QED BY <1>6, <1>7, <1>8, <1>9 DEF IInv

LEMMA SettlementReversedKeeps == \A c \in Cycles : IInv /\ SettlementReversed(c) => IInv'
<1> SUFFICES ASSUME NEW c \in Cycles, IInv, SettlementReversed(c) PROVE IInv'
  OBVIOUS
<1>1. phase = "PROVISIONAL" /\ current = c /\ provisional.cycle = c /\ refunds[c] = "SETTLED"
  BY DEF SettlementReversed, IInv, MoneyStory, Cycles, NoCycle
<1>2. authorisation.status = "VERIFIED" /\ checkpoint = "APPROVED"
  BY <1>1 DEF IInv, Shapes, ReturnStory, Paying, Refunding, Settled
<1> DEFINE opened == Opened(obligations, RecoveryDuty, Horizon)
<1>3. /\ opened \in Books
      /\ opened[HandoverDuty] = obligations[HandoverDuty]
      /\ opened[ApprovalDuty] = obligations[ApprovalDuty]
  <2>1. /\ RecoveryDuty \in Duties
        /\ HandoverDuty \in Duties \ {RecoveryDuty} /\ ApprovalDuty \in Duties \ {RecoveryDuty}
    BY DutiesDistinct
  <2>2. opened \in Books /\ \A d \in Duties \ {RecoveryDuty} : opened[d] = obligations[d]
    BY <2>1, OpenedBooks, PolicyType, BooksType
  <2> HIDE DEF opened
  <2> QED BY <2>1, <2>2
<1> HIDE DEF opened
<1>4. /\ obligations' = opened /\ refunds' = [refunds EXCEPT ![c] = "REVERSED"]
      /\ phase' = "REFUND_REOPENED" /\ current' = Recovery /\ Disarm({CooldownTimer(c)})
      /\ provisional' = [cycle |-> NoCycle, expires |-> 0]
      /\ UNCHANGED <<now, claimed, authorisation, handedOver, inspection, checkpoint, notices, terminal>>
  BY DEF SettlementReversed, returnVars, opened
<1>5. /\ queue'.pending = {} /\ queue'.seen = queue.seen
      /\ queue' \in QueueSet /\ timerCount' = timerCount /\ failed' = FALSE
  <2>1. \A e \in queue.pending : e.id \in {CooldownTimer(c)}
    BY <1>1, <1>2 DEF IInv, QueueInv, Meant
  <2> QED BY <1>4, <2>1, DisarmedAll
<1>6. Shapes'
  BY <1>3, <1>4, <1>5 DEF IInv, Shapes, Phases, Paying, Refunding
<1>7. ReturnStory'
  BY <1>1, <1>2, <1>4 DEF IInv, ReturnStory, Paying, Refunding, Settled
<1>8. MoneyStory'
  BY <1>1, <1>4 DEF IInv, Shapes, MoneyStory, Refunding, Settled, Finals, First, Recovery, NoCycle, Cycles
<1>9. QueueInv'
  <2>1. PendingIds(queue)' = {}
    BY <1>5 DEF PendingIds
  <2>2. Armed'
    BY <1>2, <1>4 DEF Armed
  <2>3. Used'
    <3>1. \A d \in Cycles : refunds[d] = "REVERSED" \/ d = c => refunds'[d] = "REVERSED"
      BY <1>4 DEF IInv, Shapes
    <3>2. \A d \in Cycles : CooldownTimer(d) \in queue.seen => refunds[d] = "REVERSED" \/ d = c
      BY <1>1 DEF IInv, QueueInv, Used
    <3> QED BY <1>2, <1>4, <1>5, <3>1, <3>2 DEF Used
  <2> QED BY <1>5, <2>1, <2>2, <2>3 DEF QueueInv
<1>10. DutyInv'
  <2>1. refunds'[First] = "REVERSED"
    BY <1>1, <1>4 DEF IInv, Shapes, MoneyStory, First, Recovery, Cycles
  <2> QED BY <1>2, <1>3, <1>4, <2>1 DEF IInv, DutyInv
<1> QED BY <1>6, <1>7, <1>8, <1>9, <1>10 DEF IInv

\* A denied or an expired return is closed at once, with nothing pending.
LEMMA ClosedAtOnceKeeps == IInv /\ (CompleteDenied \/ CompleteExpired) => IInv'
<1> SUFFICES ASSUME IInv, CompleteDenied \/ CompleteExpired PROVE IInv'
  OBVIOUS
<1>1. /\ \/ phase = "REFUND_DENIED" /\ phase' = "FINAL_REFUND_DENIED"
            /\ terminal' = "closed_refund_denied"
         \/ phase = "RETURN_EXPIRED" /\ phase' = "FINAL_RETURN_EXPIRED"
            /\ terminal' = "closed_return_expired"
      /\ UNCHANGED <<now, queue, timerCount, failed, current, claimed, authorisation, handedOver,
                     inspection, checkpoint, refunds, obligations, notices, provisional>>
  BY DEF CompleteDenied, CompleteExpired, worldVars, returnVars, moneyVars, dutyVars
<1>2. Shapes'
  BY <1>1 DEF IInv, Shapes, Phases, Finals
<1>3. ReturnStory'
  BY <1>1 DEF IInv, ReturnStory, Paying, Refunding, Settled
<1>4. MoneyStory'
  BY <1>1 DEF IInv, MoneyStory, Refunding, Settled, Finals
<1>5. QueueInv'
  BY <1>1, TimersStay
<1>6. DutyInv'
  BY <1>1 DEF IInv, DutyInv
<1> QED BY <1>2, <1>3, <1>4, <1>5, <1>6 DEF IInv

-----------------------------------------------------------------------------
(* The timers, and the passing of time.                                     *)

\* The last timer of its subject leaves an empty queue.
LEMMA FiredAll ==
  ASSUME IInv, NEW e \in queue.pending, Fired(e), \A f \in queue.pending : f.id = e.id
  PROVE  /\ queue'.pending = {} /\ queue'.seen = queue.seen
         /\ queue' \in QueueSet
         /\ now' = now /\ timerCount' = timerCount /\ failed' = FALSE
<1>1. queue \in QueueSet
  BY DEF IInv, Shapes
<1>2. queue' = [pending |-> queue.pending \ {e}, seen |-> queue.seen]
  BY <1>1 DEF Fired, Pop, QueueSet
<1>3. queue.pending \ {e} = {}
  BY DEF IInv, QueueInv
<1> QED BY <1>1, <1>2, <1>3 DEF Fired, QueueSet, IInv, QueueInv

LEMMA HandoverReminderDueKeeps ==
  ASSUME IInv, NEW e \in queue.pending, e.at = now, HandoverReminderDue(e)
  PROVE  /\ IInv' /\ now' = now
         /\ authorisation.status = "ISSUED" /\ ~authorisation.reminderDue
         /\ now = authorisation.issued + HandoverReminderAfter
         /\ authorisation' = [authorisation EXCEPT !.reminderDue = TRUE]
<1>1. e.id = ReminderTimer /\ Fired(e)
  BY DEF HandoverReminderDue
<1>2. /\ authorisation.status = "ISSUED" /\ ~authorisation.reminderDue
      /\ now = authorisation.issued + HandoverReminderAfter
      /\ phase = "AWAITING_HANDOVER" /\ checkpoint # "OPEN"
  BY <1>1, TimersDistinct DEF IInv, Shapes, ReturnStory, QueueInv, Meant
<1> DEFINE opened == Opened(obligations, ReminderDuty, HandoverDeadlineAfter - HandoverReminderAfter)
<1>3. opened \in Books /\ SameTold(opened, obligations)
  BY OpenedElsewhere, Untold, PolicyType, BooksType
<1> HIDE DEF opened
<1>4. /\ obligations' = opened /\ authorisation' = [authorisation EXCEPT !.reminderDue = TRUE]
      /\ UNCHANGED <<now, timerCount, failed, phase, current, claimed, handedOver, inspection,
                     checkpoint, refunds, notices, provisional, terminal>>
  BY <1>2 DEF HandoverReminderDue, Fired, opened, moneyVars, endVars
<1>5. /\ authorisation'.status = "ISSUED" /\ authorisation'.reminderDue = TRUE
      /\ authorisation'.issued = authorisation.issued
  BY <1>2, <1>4 DEF IInv, Shapes
<1> DEFINE P == queue.pending \ {e}
<1>6. queue' = [pending |-> P, seen |-> queue.seen]
  BY <1>1 DEF Fired, Pop, IInv, Shapes, QueueSet
<1>7. \A f \in P : f.id # ReminderTimer /\ Meant(f)
  BY <1>1 DEF IInv, QueueInv
<1>8. \A f \in P : Meant(f)'
  BY <1>2, <1>4, <1>5, <1>7 DEF Meant
<1>9. /\ queue' \in QueueSet /\ failed' = FALSE
      /\ PendingIds(queue)' \subseteq queue'.seen
      /\ \A f, g \in queue'.pending : f.id = g.id => f = g
      /\ \A f \in queue'.pending : f.at >= now' /\ Meant(f)'
  BY <1>4, <1>6, <1>8, FewerTimers
<1>10. Shapes'
  BY <1>3, <1>4, <1>9 DEF IInv, Shapes
<1>11. ReturnStory' /\ MoneyStory'
  BY <1>2, <1>4, <1>5 DEF IInv, ReturnStory, MoneyStory
<1>12. Armed'
  <2>1. DeadlineTimer \in PendingIds(queue)
    BY <1>2 DEF IInv, QueueInv, Armed
  <2>2. DeadlineTimer \in PendingIds(queue)'
    BY <2>1, <1>1, <1>6, TimersDistinct DEF PendingIds
  <2> QED BY <2>2, <1>2, <1>4, <1>5 DEF Armed
<1>13. Used'
  BY <1>2, <1>4, <1>5, <1>6 DEF IInv, QueueInv, Used
<1>14. DutyInv'
  BY <1>2, <1>3, <1>4, <1>5 DEF IInv, DutyInv, SameTold
<1> QED BY <1>2, <1>4, <1>9, <1>10, <1>11, <1>12, <1>13, <1>14 DEF IInv, QueueInv

\* A handover expires at its deadline, and not before it was reminded of.
LEMMA HandoverDeadlineDueKeeps ==
  ASSUME IInv, NEW e \in queue.pending, e.at = now, HandoverDeadlineDue(e)
  PROVE  /\ IInv' /\ now' = now
         /\ authorisation.status = "ISSUED" /\ authorisation.reminderDue
         /\ now = authorisation.issued + HandoverDeadlineAfter
         /\ authorisation' = [authorisation EXCEPT !.status = "EXPIRED"]
<1>1. e.id = DeadlineTimer /\ Fired(e)
  BY DEF HandoverDeadlineDue
<1>2. /\ authorisation.status = "ISSUED" /\ now = authorisation.issued + HandoverDeadlineAfter
      /\ phase = "AWAITING_HANDOVER" /\ checkpoint = "ABSENT" /\ inspection = "NONE"
  BY <1>1, TimersDistinct DEF IInv, Shapes, ReturnStory, QueueInv, Meant
<1>3. \A f \in queue.pending : f.id = DeadlineTimer
  <2>1. authorisation.issued + HandoverReminderAfter < now
    BY <1>2, CommerceAssumption DEF IInv, Shapes
  <2> SUFFICES ASSUME NEW f \in queue.pending, f.id # DeadlineTimer PROVE FALSE
    OBVIOUS
  <2>2. f.at >= now /\ f.at = authorisation.issued + HandoverReminderAfter
    BY <1>2 DEF IInv, QueueInv, Meant
  <2> QED BY <2>1, <2>2, PolicyType DEF IInv, Shapes
<1>4. authorisation.reminderDue
  BY <1>2, <1>3, TimersDistinct DEF IInv, QueueInv, Armed, PendingIds
<1> DEFINE breached == Closed(obligations, HandoverDuty, "BREACHED")
           reminded == Closed(breached, ReminderDuty, "BREACHED")
<1>5. /\ breached \in Books
      /\ breached[HandoverDuty].status = "BREACHED"
      /\ breached[ApprovalDuty] = obligations[ApprovalDuty]
      /\ breached[RecoveryDuty] = obligations[RecoveryDuty]
  <2>1. obligations[HandoverDuty].status = "OPEN"
    BY <1>2 DEF IInv, DutyInv
  <2>2. /\ HandoverDuty \in Duties
        /\ ApprovalDuty \in Duties \ {HandoverDuty} /\ RecoveryDuty \in Duties \ {HandoverDuty}
    BY DutiesDistinct
  <2>3. breached[HandoverDuty].status = "BREACHED"
    BY <2>1, <2>2, ClosedStatus, BooksType
  <2>4. breached \in Books /\ \A d \in Duties \ {HandoverDuty} : breached[d] = obligations[d]
    BY <2>2, ClosedBooks, BooksType
  <2> HIDE DEF breached
  <2> QED BY <2>2, <2>3, <2>4
<1>6. /\ authorisation' = [authorisation EXCEPT !.status = "EXPIRED"] /\ phase' = "RETURN_EXPIRED"
      /\ obligations' = Opened(reminded, ExpiryDuty, NoticeWithin)
      /\ UNCHANGED <<current, claimed, handedOver, inspection, checkpoint, refunds, notices,
                     provisional, terminal>>
  BY <1>2 DEF HandoverDeadlineDue, moneyVars, endVars
<1> HIDE DEF breached
<1>7. reminded \in Books /\ SameTold(reminded, breached)
  BY <1>5, ClosedElsewhere, Untold, BooksType
<1> HIDE DEF reminded
<1>8. obligations' \in Books /\ SameTold(obligations', reminded)
  BY <1>6, <1>7, OpenedElsewhere, Untold, PolicyType, BooksType
<1>9. authorisation'.status = "EXPIRED"
  BY <1>6 DEF IInv, Shapes
<1>10. /\ queue'.pending = {} /\ queue'.seen = queue.seen /\ queue' \in QueueSet
       /\ now' = now /\ timerCount' = timerCount /\ failed' = FALSE
  BY <1>1, <1>3, FiredAll
<1>11. Shapes'
  BY <1>6, <1>8, <1>10 DEF IInv, Shapes, Phases
<1>12. ReturnStory' /\ MoneyStory'
  BY <1>2, <1>6, <1>9 DEF IInv, ReturnStory, MoneyStory, Paying, Refunding, Settled, Finals
<1>13. QueueInv'
  <2>1. PendingIds(queue)' = {}
    BY <1>10 DEF PendingIds
  <2>2. Armed' /\ Used'
    BY <1>2, <1>6, <1>9, <1>10 DEF IInv, QueueInv, Armed, Used
  <2> QED BY <1>10, <2>1, <2>2 DEF QueueInv
<1>14. DutyInv'
  BY <1>2, <1>5, <1>6, <1>7, <1>8, <1>9 DEF IInv, DutyInv, SameTold
<1> QED BY <1>2, <1>4, <1>6, <1>10, <1>11, <1>12, <1>13, <1>14 DEF IInv

LEMMA ApprovalDeadlineDueKeeps ==
  ASSUME IInv, NEW e \in queue.pending, e.at = now, ApprovalDeadlineDue(e)
  PROVE  IInv' /\ now' = now /\ authorisation' = authorisation
<1>1. e.id = ApprovalTimer /\ Fired(e)
  BY DEF ApprovalDeadlineDue
<1>2. /\ checkpoint = "OPEN" /\ phase = "AWAITING_APPROVAL"
      /\ authorisation.status = "VERIFIED" /\ inspection = "ELIGIBLE"
  BY <1>1, TimersDistinct DEF IInv, Shapes, ReturnStory, QueueInv, Meant
<1>3. \A f \in queue.pending : f.id = ApprovalTimer
  BY <1>2 DEF IInv, QueueInv, Meant
<1> DEFINE breached == Closed(obligations, ApprovalDuty, "BREACHED")
<1>4. /\ breached \in Books
      /\ breached[ApprovalDuty].status = "BREACHED"
      /\ breached[HandoverDuty] = obligations[HandoverDuty]
      /\ breached[RecoveryDuty] = obligations[RecoveryDuty]
  <2>1. obligations[ApprovalDuty].status = "OPEN"
    BY <1>2 DEF IInv, DutyInv
  <2>2. /\ ApprovalDuty \in Duties
        /\ HandoverDuty \in Duties \ {ApprovalDuty} /\ RecoveryDuty \in Duties \ {ApprovalDuty}
    BY DutiesDistinct
  <2>3. breached[ApprovalDuty].status = "BREACHED"
    BY <2>1, <2>2, ClosedStatus, BooksType
  <2>4. breached \in Books /\ \A d \in Duties \ {ApprovalDuty} : breached[d] = obligations[d]
    BY <2>2, ClosedBooks, BooksType
  <2> HIDE DEF breached
  <2> QED BY <2>2, <2>3, <2>4
<1>5. /\ checkpoint' = "EXPIRED" /\ phase' = "REFUND_DENIED"
      /\ obligations' = Opened(breached, DenialDuty, NoticeWithin)
      /\ UNCHANGED <<current, claimed, authorisation, handedOver, inspection, refunds, notices,
                     provisional, terminal>>
  BY <1>2 DEF ApprovalDeadlineDue, returnVars, endVars
<1> HIDE DEF breached
<1>6. obligations' \in Books /\ SameTold(obligations', breached)
  BY <1>4, <1>5, OpenedElsewhere, Untold, PolicyType, BooksType
<1>7. /\ queue'.pending = {} /\ queue'.seen = queue.seen /\ queue' \in QueueSet
      /\ now' = now /\ timerCount' = timerCount /\ failed' = FALSE
  BY <1>1, <1>3, FiredAll
<1>8. Shapes'
  BY <1>5, <1>6, <1>7 DEF IInv, Shapes, Phases
<1>9. ReturnStory' /\ MoneyStory'
  BY <1>2, <1>5 DEF IInv, ReturnStory, MoneyStory, Paying, Refunding, Settled, Finals
<1>10. QueueInv'
  <2>1. PendingIds(queue)' = {}
    BY <1>7 DEF PendingIds
  <2>2. Armed' /\ Used'
    BY <1>2, <1>5, <1>7 DEF IInv, QueueInv, Armed, Used
  <2> QED BY <1>7, <2>1, <2>2 DEF QueueInv
<1>11. DutyInv'
  BY <1>2, <1>4, <1>5, <1>6 DEF IInv, DutyInv, SameTold
<1> QED BY <1>5, <1>7, <1>8, <1>9, <1>10, <1>11 DEF IInv

\* The timer of a cool-down meets the window it was armed for, at its end.
LEMMA CooldownExpiredKeeps ==
  ASSUME IInv, NEW e \in queue.pending, e.at = now, CooldownExpired(e)
  PROVE  /\ IInv' /\ now' = now /\ authorisation' = authorisation
         /\ phase = "PROVISIONAL" /\ now = provisional.expires /\ phase' = "FINAL_SUCCESS"
<1>1. PICK c \in Cycles :
        /\ e.id = CooldownTimer(c) /\ Fired(e)
        /\ IF MayFinalize(c)
             THEN /\ provisional' = [cycle |-> NoCycle, expires |-> 0]
                  /\ phase' = "FINAL_SUCCESS" /\ terminal' = "completed_refund_settled"
             ELSE UNCHANGED <<provisional, phase, terminal>>
        /\ UNCHANGED <<current, returnVars, moneyVars, dutyVars>>
  BY DEF CooldownExpired
<1>2. /\ phase = "PROVISIONAL" /\ provisional.cycle = c /\ current = c
      /\ now = provisional.expires /\ refunds[c] = "SETTLED" /\ NoOpenDuty
      /\ authorisation.status = "VERIFIED" /\ checkpoint = "APPROVED"
  <2>1. CooldownTimer(c) \notin {ReminderTimer, DeadlineTimer, ApprovalTimer}
    BY TimersDistinct DEF Cycles, First, Recovery
  <2>2. e.id = CooldownTimer(provisional.cycle) /\ phase = "PROVISIONAL" /\ e.at = provisional.expires
    BY <1>1, <2>1 DEF IInv, QueueInv, Meant
  <2>3. provisional.cycle = c
    BY <1>1, <2>2, TimersDistinct DEF IInv, Shapes, Cycles, First, Recovery
  <2> QED
    BY <2>2, <2>3 DEF IInv, Shapes, ReturnStory, MoneyStory, DutyInv, Paying, Refunding, Settled
<1>3. MayFinalize(c)
  BY <1>2, BooksType DEF MayFinalize
<1>4. /\ provisional' = [cycle |-> NoCycle, expires |-> 0]
      /\ phase' = "FINAL_SUCCESS" /\ terminal' = "completed_refund_settled"
      /\ UNCHANGED <<current, claimed, authorisation, handedOver, inspection, checkpoint, refunds,
                     obligations, notices>>
  BY <1>1, <1>3 DEF returnVars, moneyVars, dutyVars
<1>5. /\ queue'.pending = {} /\ queue'.seen = queue.seen /\ queue' \in QueueSet
      /\ now' = now /\ timerCount' = timerCount /\ failed' = FALSE
  <2>1. \A f \in queue.pending : f.id = e.id
    BY <1>1, <1>2 DEF IInv, QueueInv, Meant
  <2> QED BY <1>1, <2>1, FiredAll
<1>6. Shapes'
  BY <1>4, <1>5 DEF IInv, Shapes, Phases, Paying, Refunding, Settled
<1>7. ReturnStory' /\ MoneyStory'
  BY <1>2, <1>4 DEF IInv, ReturnStory, MoneyStory, Paying, Refunding, Settled, Finals
<1>8. QueueInv'
  <2>1. PendingIds(queue)' = {}
    BY <1>5 DEF PendingIds
  <2>2. Armed' /\ Used'
    BY <1>2, <1>4, <1>5 DEF IInv, QueueInv, Armed, Used
  <2> QED BY <1>5, <2>1, <2>2 DEF QueueInv
<1>9. DutyInv'
  BY <1>2, <1>4 DEF IInv, DutyInv, NoOpenDuty, Open
<1> QED BY <1>2, <1>4, <1>5, <1>6, <1>7, <1>8, <1>9 DEF IInv

\* A minute passes over nothing that is due.
LEMMA AdvanceKeeps ==
  ASSUME IInv, Advance
  PROVE  IInv' /\ now' = now + 1 /\ authorisation' = authorisation
<1>1. /\ now' = now + 1 /\ now' \in Nat
      /\ UNCHANGED <<queue, timerCount, failed, phase, current, claimed, authorisation, handedOver,
                     inspection, checkpoint, refunds, obligations, notices, provisional, terminal>>
  BY BooksType DEF Advance, returnVars, moneyVars, dutyVars, endVars
<1>2. Shapes' /\ ReturnStory' /\ MoneyStory'
  BY <1>1 DEF IInv, Shapes, ReturnStory, MoneyStory
<1>3. QueueInv'
  <2>1. \A e \in queue.pending : e.at >= now + 1
    <3>1. \A e \in queue.pending : e.at \in Nat /\ e.at > now
      BY NothingDue DEF Advance, IInv, Shapes, QueueSet, EntrySet
    <3> QED BY <3>1, BooksType
  <2>2. \A e \in queue.pending : Meant(e)'
    BY <1>1 DEF IInv, QueueInv, Meant
  <2>3. Armed' /\ Used'
    BY <1>1 DEF IInv, QueueInv, Armed, Used, PendingIds
  <2> QED BY <1>1, <2>1, <2>2, <2>3 DEF IInv, QueueInv, PendingIds
<1>4. DutyInv'
  BY <1>1 DEF IInv, DutyInv, NoOpenDuty, Open
<1> QED BY <1>1, <1>2, <1>3, <1>4 DEF IInv

-----------------------------------------------------------------------------
(* The invariant.                                                           *)

\* A timer that is delivered is one of the four kinds.
LEMMA TimerKinds ==
  ASSUME IInv, Timer
  PROVE  \E e \in queue.pending :
           /\ e.at = now
           /\ \/ HandoverReminderDue(e) \/ HandoverDeadlineDue(e)
              \/ ApprovalDeadlineDue(e) \/ CooldownExpired(e)
BY DEF Timer, DueTimers, Upcoming

LEMMA IInvStep == IInv /\ [Next]_vars => IInv'
<1> SUFFICES ASSUME IInv, [Next]_vars PROVE IInv'
  OBVIOUS
<1>1. CASE Advance
  BY <1>1, AdvanceKeeps
<1>2. CASE Timer
  BY <1>2, TimerKinds, HandoverReminderDueKeeps, HandoverDeadlineDueKeeps,
     ApprovalDeadlineDueKeeps, CooldownExpiredKeeps
<1>3. CASE Event
  BY <1>3, ReturnRequestedKeeps, HandoverClaimedKeeps, HandoverVerifiedKeeps,
     InspectionCompletedKeeps, ApprovalReceivedKeeps, SettlementConfirmedKeeps,
     SettlementReversedKeeps
  DEF Event
<1>4. CASE Action
  BY <1>4, IssueAuthorisationKeeps, RequestApprovalKeeps, RequestRefundKeeps, SendMessageKeeps,
     ClosedAtOnceKeeps, CompleteProvisionallyKeeps
  DEF Action
<1>5. CASE UNCHANGED vars
  BY <1>5 DEF vars, worldVars, returnVars, moneyVars, dutyVars, endVars, IInv, Shapes, ReturnStory,
              MoneyStory, QueueInv, Meant, Armed, Used, PendingIds, DutyInv, NoOpenDuty, Open
<1> QED BY <1>1, <1>2, <1>3, <1>4, <1>5 DEF Next

LEMMA Invariant == Spec => []IInv
BY IInvInit, IInvStep, PTL DEF Spec

-----------------------------------------------------------------------------
(* What follows from it.                                                    *)

LEMMA PaidOnceFollows == IInv => PaidOnce
<1> SUFFICES ASSUME IInv PROVE PaidOnce
  OBVIOUS
<1> DEFINE live == {c \in Cycles : refunds[c] \in {"REQUESTED", "SETTLED"}}
<1>1. \A c \in live : phase \in Refunding /\ c = current
  BY DEF IInv, Shapes, MoneyStory, Cycles, First, Recovery, NoCycle, Refunding, Settled
<1>2. Cardinality(live) <= 1
  <2>1. CASE live = {}
    BY <2>1, FS_EmptySet
  <2>2. CASE live # {}
    <3>1. live = {current}
      BY <1>1, <2>2
    <3> QED BY <3>1, FS_Singleton
  <2> QED BY <2>1, <2>2
<1>3. \A c \in live : inspection = "ELIGIBLE" /\ handedOver /\ checkpoint = "APPROVED"
  <2>1. phase \in Refunding => checkpoint = "APPROVED"
    BY DEF IInv, ReturnStory, Paying
  <2>2. checkpoint = "APPROVED" => inspection = "ELIGIBLE" /\ handedOver
    BY DEF IInv, ReturnStory
  <2> QED BY <1>1, <2>1, <2>2
<1>4. terminal = "completed_refund_settled" => \E c \in live : refunds[c] = "SETTLED"
  <2>1. terminal = "completed_refund_settled" =>
           current \in Cycles /\ refunds[current] = "SETTLED"
    BY DEF IInv, Shapes, MoneyStory, Cycles, First, Recovery, NoCycle, Refunding, Settled
  <2> QED BY <2>1
<1> QED BY <1>2, <1>3, <1>4 DEF PaidOnce

LEMMA DutiesFollow == IInv => DutiesTellTheTruth
<1> SUFFICES ASSUME IInv PROVE DutiesTellTheTruth
  OBVIOUS
<1>1. /\ obligations[HandoverDuty].status = "DISCHARGED" <=> authorisation.status = "VERIFIED"
      /\ obligations[HandoverDuty].status = "BREACHED" <=> authorisation.status = "EXPIRED"
  BY DEF IInv, Shapes, DutyInv
<1>2. /\ obligations[ApprovalDuty].status = "DISCHARGED" <=> checkpoint \in {"APPROVED", "REJECTED"}
      /\ obligations[ApprovalDuty].status = "BREACHED" <=> checkpoint = "EXPIRED"
  BY DEF IInv, Shapes, DutyInv
<1>3. Open(RecoveryDuty) => \E c \in Cycles : refunds[c] = "REVERSED"
  BY DEF IInv, DutyInv, Open, Cycles, First
<1>4. phase \in {"PROVISIONAL", "FINAL_SUCCESS"} => NoOpenDuty /\ checkpoint = "APPROVED"
  BY DEF IInv, DutyInv, ReturnStory, Paying, Refunding, Settled
<1> QED BY <1>1, <1>2, <1>3, <1>4 DEF DutiesTellTheTruth

\* At most one refund is live and it rests on the approval, and what a duty says is
\* what happened, whatever order answers, timers and settlements come in
\* (return_refund/operation.py, for every policy).
THEOREM RecordKept == Spec => []RecordIsTrue
<1>1. IInv => RecordIsTrue
  BY PaidOnceFollows, DutiesFollow DEF RecordIsTrue
<1> QED BY <1>1, Invariant, PTL

\* A settlement leaves its cool-down when its window ends or when it is reversed.
LEMMA WindowStep ==
  ASSUME IInv, [Next]_vars, phase = "PROVISIONAL", phase' # "PROVISIONAL"
  PROVE  \/ phase' = "FINAL_SUCCESS" /\ now = provisional.expires
         \/ refunds'[provisional.cycle] = "REVERSED"
<1>1. /\ authorisation.status = "VERIFIED" /\ checkpoint = "APPROVED"
      /\ \A c \in Cycles : refunds[c] # "REQUESTED"
  BY DEF IInv, Shapes, ReturnStory, MoneyStory, Paying, Refunding, Settled, Cycles, First, Recovery,
         NoCycle
<1>2. CASE Timer
  <2>1. PICK e \in queue.pending :
          /\ e.at = now
          /\ \/ HandoverReminderDue(e) \/ HandoverDeadlineDue(e)
             \/ ApprovalDeadlineDue(e) \/ CooldownExpired(e)
    BY <1>2, TimerKinds
  <2>2. ~HandoverReminderDue(e) /\ ~HandoverDeadlineDue(e)
    BY <1>1, <2>1, HandoverReminderDueKeeps, HandoverDeadlineDueKeeps
  <2>3. CASE ApprovalDeadlineDue(e)
    BY <1>1, <2>3 DEF ApprovalDeadlineDue
  <2>4. CASE CooldownExpired(e)
    BY <2>1, <2>4, CooldownExpiredKeeps
  <2> QED BY <2>1, <2>2, <2>3, <2>4
<1>3. CASE Event
  <2>1. CASE \E c \in Cycles : SettlementReversed(c)
    BY <2>1 DEF SettlementReversed, IInv, Shapes
  <2>2. ~ \E c \in Cycles : SettlementConfirmed(c)
    BY <1>1 DEF SettlementConfirmed
  <2>3. ~ReturnRequested /\ ~HandoverVerified
    BY <1>1 DEF ReturnRequested, HandoverVerified
  <2>4. ~HandoverClaimed
    BY DEF HandoverClaimed
  <2>5. \A x : ~InspectionCompleted(x) /\ ~ApprovalReceived(x)
    BY <1>1 DEF InspectionCompleted, ApprovalReceived
  <2> QED BY <1>3, <2>1, <2>2, <2>3, <2>4, <2>5 DEF Event
<1>4. CASE Action
  <2>1. ~IssueAuthorisation /\ ~RequestApproval /\ ~RequestRefund
    BY DEF IssueAuthorisation, RequestApproval, RequestRefund
  <2>2. \A message, c : ~SendMessage(message, c)
    BY DEF SendMessage
  <2>3. ~CompleteDenied /\ ~CompleteExpired /\ ~CompleteProvisionally
    BY DEF CompleteDenied, CompleteExpired, CompleteProvisionally, MayComplete
  <2> QED BY <1>4, <2>1, <2>2, <2>3 DEF Action
<1>5. CASE Advance \/ UNCHANGED vars
  BY <1>5 DEF Advance, vars
<1> QED BY <1>2, <1>3, <1>4, <1>5 DEF Next

\* No timer ends a cool-down early: an operation is not final before the window of
\* this very settlement has passed, unless it is reversed, and no identity is armed
\* twice on the way (CompleteProvisionally, CooldownExpired, SettlementReversed).
THEOREM CooldownKept == Spec => CooldownIsKept
<1>1. IInv /\ IInv' /\ [Next]_vars =>
        [/\ ~failed'
         /\ phase = "PROVISIONAL" /\ phase' # "PROVISIONAL" =>
              \/ phase' = "FINAL_SUCCESS" /\ now = provisional.expires
              \/ refunds'[provisional.cycle] = "REVERSED"]_vars
  <2> SUFFICES ASSUME IInv, IInv', [Next]_vars
               PROVE  /\ ~failed'
                      /\ phase = "PROVISIONAL" /\ phase' # "PROVISIONAL" =>
                           \/ phase' = "FINAL_SUCCESS" /\ now = provisional.expires
                           \/ refunds'[provisional.cycle] = "REVERSED"
    OBVIOUS
  <2>1. ~failed'
    BY DEF IInv, QueueInv
  <2> QED BY <2>1, WindowStep
<1> QED BY <1>1, Invariant, PTL DEF Spec, CooldownIsKept

-----------------------------------------------------------------------------
(* The handover implements a checkpoint.                                    *)

\* The authorisation as a checkpoint sees it.
Seen == CASE authorisation.status = "ISSUED"   -> "OPEN"
          [] authorisation.status = "VERIFIED" -> "APPROVED"
          [] OTHER -> authorisation.status
Until == IF authorisation.status = "ABSENT" THEN 0
         ELSE authorisation.issued + HandoverDeadlineAfter

\* A handover is verified while its deadline is not past.
LEMMA VerifiedInTime ==
  ASSUME IInv, HandoverVerified
  PROVE  /\ authorisation.status = "ISSUED" /\ now <= authorisation.issued + HandoverDeadlineAfter
         /\ authorisation' = [authorisation EXCEPT !.status = "VERIFIED"] /\ now' = now
<1>1. authorisation.status = "ISSUED"
  BY DEF HandoverVerified
<1>2. obligations[HandoverDuty].due = authorisation.issued + HandoverDeadlineAfter
  BY <1>1 DEF IInv, DutyInv
<1> QED BY <1>1, <1>2, InTime DEF HandoverVerified

\* Time passes while a handover waits only before its deadline, and over its
\* reminder's instant only once the reminder came.
LEMMA AdvanceWaits ==
  ASSUME IInv, Advance, authorisation.status = "ISSUED"
  PROVE  /\ now < authorisation.issued + HandoverDeadlineAfter
         /\ authorisation.reminderDue \/ now < authorisation.issued + HandoverReminderAfter
<1>1. \A e \in queue.pending : e.at > now /\ Meant(e)
  BY NothingDue DEF Advance, IInv, QueueInv
<1>2. PICK e \in queue.pending : e.id = DeadlineTimer
  BY DEF IInv, QueueInv, Armed, PendingIds
<1>3. e.at = authorisation.issued + HandoverDeadlineAfter
  BY <1>1, <1>2, TimersDistinct DEF Meant, IInv, Shapes
<1>4. now < authorisation.issued + HandoverDeadlineAfter
  BY <1>1, <1>3, BooksType, PolicyType DEF IInv, Shapes
<1>5. ASSUME ~authorisation.reminderDue
      PROVE  now < authorisation.issued + HandoverReminderAfter
  <2>1. PICK f \in queue.pending : f.id = ReminderTimer
    BY <1>5 DEF IInv, QueueInv, Armed, PendingIds
  <2>2. f.at = authorisation.issued + HandoverReminderAfter
    BY <1>1, <2>1, TimersDistinct DEF Meant, IInv, Shapes
  <2> QED BY <1>1, <2>2, BooksType, PolicyType DEF IInv, Shapes
<1> QED BY <1>4, <1>5

\* Every other step leaves the authorisation and the clock alone.
LEMMA OthersLeaveIt ==
  ASSUME [Next]_vars, ~Advance, ~Timer, ~IssueAuthorisation, ~HandoverVerified
  PROVE  UNCHANGED <<now, authorisation>>
<1>1. CASE Event
  BY <1>1 DEF Event, ReturnRequested, HandoverClaimed, InspectionCompleted, ApprovalReceived,
              SettlementConfirmed, SettlementReversed, worldVars, returnVars
<1>2. CASE Action
  BY <1>2 DEF Action, RequestApproval, RequestRefund, SendMessage, CompleteDenied, CompleteExpired,
              CompleteProvisionally, worldVars, returnVars
<1>3. CASE UNCHANGED vars
  BY <1>3 DEF vars, worldVars, returnVars
<1> QED BY <1>1, <1>2, <1>3 DEF Next

\* What becomes of the mapped checkpoint when only the authorisation's status moves.
LEMMA PromiseStep == IInv /\ [Next]_vars => [Handover!Next]_Handover!vars
<1> SUFFICES ASSUME IInv, [Next]_vars
             PROVE  [Handover!Next]_<<now, Seen, Until, authorisation.reminderDue>>
  BY DEF Handover!vars, Seen, Until
<1> USE DEF Seen, Until
<1>1. /\ authorisation.issued \in Nat /\ now \in Nat
      /\ HandoverReminderAfter \in Nat /\ HandoverDeadlineAfter \in Nat
      /\ authorisation.status \in {"ABSENT", "ISSUED", "VERIFIED", "EXPIRED"}
      /\ authorisation.reminderDue \in BOOLEAN
  BY PolicyType DEF IInv, Shapes
<1>2. CASE Advance
  <2>1. now' = now + 1 /\ authorisation' = authorisation
    BY <1>2, AdvanceKeeps
  <2>2. authorisation.status = "ISSUED" =>
          /\ now < authorisation.issued + HandoverDeadlineAfter
          /\ authorisation.reminderDue \/ now < authorisation.issued + HandoverReminderAfter
    BY <1>2, AdvanceWaits
  <2>3. Handover!Tick
    BY <1>1, <2>1, <2>2 DEF Handover!Tick, Handover!ReminderAt
  <2> QED BY <2>3 DEF Handover!Next
<1>3. CASE IssueAuthorisation
  <2>1. authorisation.status = "ABSENT" /\ ~authorisation.reminderDue
    BY <1>3 DEF IssueAuthorisation, IInv, ReturnStory
  <2>2. authorisation' = [status |-> "ISSUED", issued |-> now, reminderDue |-> FALSE] /\ now' = now
    BY <1>3 DEF IssueAuthorisation
  <2>3. Handover!Open
    BY <1>1, <2>1, <2>2 DEF Handover!Open
  <2> QED BY <2>3 DEF Handover!Next
<1>4. CASE HandoverVerified
  <2>1. /\ authorisation.status = "ISSUED" /\ now <= authorisation.issued + HandoverDeadlineAfter
        /\ authorisation' = [authorisation EXCEPT !.status = "VERIFIED"] /\ now' = now
    BY <1>4, VerifiedInTime
  <2>2. /\ authorisation'.status = "VERIFIED" /\ authorisation'.issued = authorisation.issued
        /\ authorisation'.reminderDue = authorisation.reminderDue
    BY <2>1 DEF IInv, Shapes
  <2>3. Handover!Answer
    BY <1>1, <2>1, <2>2 DEF Handover!Answer
  <2> QED BY <2>3 DEF Handover!Next
<1>5. CASE Timer
  <2>1. PICK e \in queue.pending :
          /\ e.at = now
          /\ \/ HandoverReminderDue(e) \/ HandoverDeadlineDue(e)
             \/ ApprovalDeadlineDue(e) \/ CooldownExpired(e)
    BY <1>5, TimerKinds
  <2>2. CASE HandoverReminderDue(e)
    <3>1. /\ authorisation.status = "ISSUED" /\ ~authorisation.reminderDue /\ now' = now
          /\ now = authorisation.issued + HandoverReminderAfter
          /\ authorisation' = [authorisation EXCEPT !.reminderDue = TRUE]
      BY <2>1, <2>2, HandoverReminderDueKeeps
    <3>2. /\ authorisation'.status = "ISSUED" /\ authorisation'.issued = authorisation.issued
          /\ authorisation'.reminderDue = TRUE
      BY <3>1 DEF IInv, Shapes
    <3>3. Handover!Remind
      BY <1>1, <3>1, <3>2 DEF Handover!Remind, Handover!ReminderAt
    <3> QED BY <3>3 DEF Handover!Next
  <2>3. CASE HandoverDeadlineDue(e)
    <3>1. /\ authorisation.status = "ISSUED" /\ authorisation.reminderDue /\ now' = now
          /\ now = authorisation.issued + HandoverDeadlineAfter
          /\ authorisation' = [authorisation EXCEPT !.status = "EXPIRED"]
      BY <2>1, <2>3, HandoverDeadlineDueKeeps
    <3>2. /\ authorisation'.status = "EXPIRED" /\ authorisation'.issued = authorisation.issued
          /\ authorisation'.reminderDue = authorisation.reminderDue
      BY <3>1 DEF IInv, Shapes
    <3>3. Seen = "OPEN" /\ Until = now /\ Seen' = "EXPIRED" /\ Until' = Until
      BY <3>1, <3>2
    <3>4. Handover!Expire
      BY <3>1, <3>2, <3>3 DEF Handover!Expire
    <3> QED BY <3>4 DEF Handover!Next
  <2>4. CASE ApprovalDeadlineDue(e) \/ CooldownExpired(e)
    BY <2>1, <2>4, ApprovalDeadlineDueKeeps, CooldownExpiredKeeps
  <2> QED BY <2>1, <2>2, <2>3, <2>4
<1>6. CASE ~Advance /\ ~Timer /\ ~IssueAuthorisation /\ ~HandoverVerified
  BY <1>6, OthersLeaveIt
<1> QED BY <1>2, <1>3, <1>4, <1>5, <1>6

\* The handover keeps what a checkpoint promises, for every policy: reminded of
\* once and at its instant, verified in time or expired at its deadline, and no
\* minute passes over either (_act_issue_return_authorisation, the reducers of its
\* two timers and of the carrier's record).
THEOREM HandoverKept == Spec => HandoverKeepsItsPromise
<1>1. Init => Handover!Init
  BY DEF Init, Handover!Init
<1>2. IInv /\ [Next]_vars => [Handover!Next]_Handover!vars
  BY PromiseStep
<1> QED BY <1>1, <1>2, Invariant, PTL DEF Spec, HandoverKeepsItsPromise, Handover!Spec
=============================================================================

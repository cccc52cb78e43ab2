------------------------- MODULE MaintenanceProofs -------------------------
(***************************************************************************)
(* That every duty of the maintenance operation has its timer, approvals   *)
(* govern work, a window has its way out and each approval keeps what a    *)
(* checkpoint promises, proved for any number of cycles and checkpoints,   *)
(* any quotes and any policy.                                              *)
(*                                                                         *)
(* Many timers may be pending at once and several due at one instant, so   *)
(* what the proofs rest on is the order of the queue: a reminder is armed  *)
(* before its deadline and comes first even where both fall due together,  *)
(* and where no least event is due, none is.  That the work comes first    *)
(* and cycles are kept is proved as long as no cycle takes a number that   *)
(* is in use, and that none does, of quotes for the second cycle at most.  *)
(***************************************************************************)
EXTENDS Maintenance, FiniteSetTheorems, WellFoundedInduction, TLAPS

Answers == {"APPROVED", "REJECTED", "EXPIRED"}
DutyStates == {"ABSENT", "OPEN", "DISCHARGED", "CANCELLED", "BREACHED"}
TimerIds == {VisitTimer(c) : c \in Cycles} \cup {CloseTimer(c) : c \in Cycles}
              \cup {ReminderTimer(k) : k \in Checkpoints} \cup {DeadlineTimer(k) : k \in Checkpoints}
EntrySet == [id : TimerIds, at : Nat, seq : Nat]

\* The queue holds entries of the operation's own timers, one per identity, none
\* behind the clock, and has seen the identity of each.
QueueInv ==
  /\ now \in Nat /\ timerCount \in Nat
  /\ queue = [pending |-> queue.pending, seen |-> queue.seen]
  /\ queue.pending \subseteq EntrySet
  /\ PendingIds(queue) \subseteq queue.seen
  /\ \A e, f \in queue.pending : e.id = f.id => e = f
  /\ \A e \in queue.pending : e.at >= now

RecordInv ==
  /\ current \in Cycles \cup {NoCycle}
  /\ cycles \in [Cycles -> [kind : Kinds, parent : Cycles \cup {NoCycle},
                            scope : Scopes \cup {NoScope}, visit : Visits]]
  /\ quotes \in [Quotes -> [status : {"ABSENT", "RECEIVED"} \cup Answers, until : Nat]]
  /\ approvals \in [Checkpoints -> [status : {"ABSENT", "OPEN"} \cup Answers,
                                    quote : Quotes \cup {"none"}, deadline : Nat, fired : BOOLEAN]]
  /\ exceptions \in [Checkpoints -> {"ABSENT", "OPEN", "RESOLVED"}]
  /\ obligations \in [Duties -> DutyStates]
  /\ \A c \in Cycles : cycles[c].kind = "ABSENT" => cycles[c].visit = "NONE"
  /\ \A q \in Quotes : quotes[q].status # "ABSENT" => Exists(QuoteOf[q].cycle)

\* Checkpoints are numbered in the order they are opened, so the next is fresh.
Taken(k) == approvals[k].status # "ABSENT" \/ exceptions[k] # "ABSENT"
Numbered == \E n \in 0..MaxCheckpoint : \A k \in Checkpoints : Taken(k) <=> k <= n

\* What was not asked has left no trace; what was is a quote's one question, for an
\* amount that needs it, and is owed exactly while it is open.
Asked(k) ==
  /\ approvals[k].status = "ABSENT" =>
       /\ approvals[k].quote = "none" /\ approvals[k].deadline = 0 /\ approvals[k].fired = FALSE
       /\ ReminderTimer(k) \notin queue.seen /\ DeadlineTimer(k) \notin queue.seen
       /\ obligations[ReminderDuty(k)] = "ABSENT" /\ obligations[DecisionDuty(k)] = "ABSENT"
  /\ approvals[k].status # "ABSENT" =>
       /\ approvals[k].quote \in Quotes \ {"none"} /\ exceptions[k] = "ABSENT"
       /\ QuoteOf[approvals[k].quote].amount > Threshold
       /\ quotes[approvals[k].quote].status =
            IF approvals[k].status = "OPEN" THEN "RECEIVED" ELSE approvals[k].status
       /\ \A j \in Checkpoints : approvals[j].quote = approvals[k].quote => j = k
  /\ approvals[k].status = "OPEN" <=> obligations[DecisionDuty(k)] = "OPEN"
  /\ obligations[ReminderDuty(k)] = "OPEN" => approvals[k].status = "OPEN"

\* An open checkpoint has its deadline pending, and its reminder, armed before it,
\* until it came; a closed one has neither.
Timed(k) ==
  /\ approvals[k].status = "OPEN" => DeadlineTimer(k) \in PendingIds(queue)
  /\ approvals[k].status = "OPEN" /\ ~approvals[k].fired => ReminderTimer(k) \in PendingIds(queue)
  /\ \A e \in queue.pending : e.id = DeadlineTimer(k) =>
       approvals[k].status = "OPEN" /\ e.at = approvals[k].deadline
  /\ \A e \in queue.pending : e.id = ReminderTimer(k) =>
       /\ approvals[k].status = "OPEN" /\ ~approvals[k].fired
       /\ e.at = approvals[k].deadline - DeadlineAfter + ReminderAfter
  /\ \A e, f \in queue.pending : e.id = ReminderTimer(k) /\ f.id = DeadlineTimer(k) => e.seq < f.seq

DecisionInv == \A k \in Checkpoints : Asked(k) /\ Timed(k)

\* A follow-up is armed once and is pending exactly while progress is owed.
FollowedUp(c) ==
  /\ obligations[VisitDuty(c)] # "ABSENT" => Exists(c)
  /\ obligations[VisitDuty(c)] # "ABSENT" <=> VisitTimer(c) \in queue.seen
  /\ obligations[VisitDuty(c)] = "OPEN" <=> VisitTimer(c) \in PendingIds(queue)

VisitInv == \A c \in Cycles : FollowedUp(c)

WindowInv ==
  /\ WindowHasItsTimer
  /\ phase = "PROVISIONALLY_CLOSED" => closing.cycle \in Cycles
  /\ ~reported => \A c \in Cycles : cycles[c] = Absent

IInv == QueueInv /\ RecordInv /\ Numbered /\ DecisionInv /\ VisitInv /\ PaidWorkIsApproved /\ WindowInv

-----------------------------------------------------------------------------
(* Lemmas about identities, duties and numbers.                             *)

LEMMA NatMin ==
  ASSUME NEW T \in SUBSET Nat, T # {}
  PROVE  \E x \in T : \A y \in T : x <= y
<1> DEFINE R == OpToRel(<, Nat)
<1>1. PICK x \in T : \A y \in T : <<y, x>> \notin R
  BY WFMin, NatLessThanWellFounded
<1>2. \A y \in T : ~(y < x)
  BY <1>1 DEF OpToRel
<1> QED BY <1>2

LEMMA PolicyType ==
  /\ ReminderAfter \in Nat /\ DeadlineAfter \in Nat /\ Validity \in Nat /\ CloseAfter \in Nat
  /\ FollowupAfter \in Nat /\ TimerBase \in Nat /\ MaxCheckpoint \in Nat /\ Threshold \in Nat
BY MaintenanceAssumption, TimerBaseAssumption

LEMMA QuoteType ==
  ASSUME NEW q \in Quotes
  PROVE  QuoteOf[q].cycle \in Cycles /\ QuoteOf[q].scope \in Scopes
BY MaintenanceAssumption DEF QuoteTerms

LEMMA TimersDistinct ==
  /\ \A c \in Cycles : VisitTimer(c) \in TimerIds /\ CloseTimer(c) \in TimerIds
  /\ \A k \in Checkpoints : ReminderTimer(k) \in TimerIds /\ DeadlineTimer(k) \in TimerIds
  /\ \A c, d : /\ VisitTimer(c) # CloseTimer(d) /\ VisitTimer(c) # ReminderTimer(d)
               /\ VisitTimer(c) # DeadlineTimer(d) /\ CloseTimer(c) # ReminderTimer(d)
               /\ CloseTimer(c) # DeadlineTimer(d) /\ ReminderTimer(c) # DeadlineTimer(d)
  /\ \A c, d : VisitTimer(c) = VisitTimer(d) => c = d
  /\ \A c, d : CloseTimer(c) = CloseTimer(d) => c = d
  /\ \A c, d : ReminderTimer(c) = ReminderTimer(d) => c = d
  /\ \A c, d : DeadlineTimer(c) = DeadlineTimer(d) => c = d
BY DEF TimerIds, VisitTimer, CloseTimer, ReminderTimer, DeadlineTimer

LEMMA DutiesDistinct ==
  /\ \A c \in Cycles : VisitDuty(c) \in Duties /\ NoticeDuty(c) \in Duties
  /\ \A k \in Checkpoints : ReminderDuty(k) \in Duties /\ DecisionDuty(k) \in Duties
  /\ \A c, d : /\ VisitDuty(c) # NoticeDuty(d) /\ VisitDuty(c) # ReminderDuty(d)
               /\ VisitDuty(c) # DecisionDuty(d) /\ NoticeDuty(c) # ReminderDuty(d)
               /\ NoticeDuty(c) # DecisionDuty(d) /\ ReminderDuty(c) # DecisionDuty(d)
  /\ \A c, d : VisitDuty(c) = VisitDuty(d) => c = d
  /\ \A c, d : ReminderDuty(c) = ReminderDuty(d) => c = d
  /\ \A c, d : DecisionDuty(c) = DecisionDuty(d) => c = d
BY DEF Duties, VisitDuty, NoticeDuty, ReminderDuty, DecisionDuty

LEMMA OpenedDuties ==
  ASSUME NEW ds, obligations \in [Duties -> DutyStates]
  PROVE  /\ Opened(ds) \in [Duties -> DutyStates]
         /\ \A d \in Duties : Opened(ds)[d] =
              IF d \in ds /\ obligations[d] = "ABSENT" THEN "OPEN" ELSE obligations[d]
BY DEF Opened, DutyStates

LEMMA ClosedDuties ==
  ASSUME NEW os \in [Duties -> DutyStates], NEW ds, NEW status \in DutyStates
  PROVE  /\ Closed(os, ds, status) \in [Duties -> DutyStates]
         /\ \A d \in Duties : Closed(os, ds, status)[d] =
              IF d \in ds /\ os[d] = "OPEN" THEN status ELSE os[d]
BY DEF Closed, DutyStates

-----------------------------------------------------------------------------
(* Lemmas about the queue.                                                  *)

\* The timers of an identity are what they were.
SameTimers(id) ==
  /\ id \in queue'.seen <=> id \in queue.seen
  /\ \A e \in queue.pending : e.id = id => e \in queue'.pending
  /\ \A e \in queue'.pending : e.id = id => e \in queue.pending

\* Disarming leaves every timer but those named, and forgets no identity.
LEMMA DisarmKeeps ==
  ASSUME QueueInv, NEW ids, queue' = Cancel(queue, ids), UNCHANGED <<now, timerCount>>
  PROVE  /\ QueueInv' /\ queue'.seen = queue.seen
         /\ queue'.pending = {e \in queue.pending : e.id \notin ids}
         /\ \A id : id \notin ids => SameTimers(id)
<1>1. queue' = [pending |-> {e \in queue.pending : e.id \notin ids}, seen |-> queue.seen]
  BY DEF QueueInv, Cancel
<1>2. /\ queue'.pending = {e \in queue.pending : e.id \notin ids} /\ queue'.seen = queue.seen
      /\ queue' = [pending |-> queue'.pending, seen |-> queue'.seen]
  BY <1>1
<1>3. QueueInv'
  BY <1>2 DEF QueueInv, PendingIds
<1> QED BY <1>2, <1>3 DEF SameTimers

\* Delivering a timer takes it and nothing else.
LEMMA PopKeeps ==
  ASSUME QueueInv, NEW e \in queue.pending, queue' = Pop(queue, e), UNCHANGED <<now, timerCount>>
  PROVE  /\ QueueInv' /\ queue'.seen = queue.seen
         /\ queue'.pending = queue.pending \ {e}
         /\ \A id : id # e.id => SameTimers(id)
         /\ e.id \notin PendingIds(queue)'
<1>1. queue' = [pending |-> queue.pending \ {e}, seen |-> queue.seen]
  BY DEF QueueInv, Pop
<1>2. /\ queue'.pending = queue.pending \ {e} /\ queue'.seen = queue.seen
      /\ queue' = [pending |-> queue'.pending, seen |-> queue'.seen]
  BY <1>1
<1>3. QueueInv'
  BY <1>2 DEF QueueInv, PendingIds
<1>4. e.id \notin PendingIds(queue)'
  BY <1>2 DEF QueueInv, PendingIds
<1> QED BY <1>2, <1>3, <1>4 DEF SameTimers

\* One timer is armed under a fresh identity, or the run is over.
LEMMA ArmOne ==
  ASSUME QueueInv, NEW id \in TimerIds, NEW delay \in Nat, NEW ds,
         Arm(<<Timing(id, delay)>>, ds), now' = now
  PROVE  /\ QueueInv'
         /\ \A other : other # id => SameTimers(other)
         /\ \/ failed' = TRUE /\ UNCHANGED <<queue, obligations>>
            \/ /\ failed' = FALSE /\ id \notin queue.seen /\ obligations' = Opened(ds)
               /\ queue'.seen = queue.seen \cup {id}
               /\ PendingIds(queue)' = PendingIds(queue) \cup {id}
               /\ \A e \in queue'.pending : e.id = id => e.at = now + delay
<1> DEFINE ts == <<Timing(id, delay)>>
           new(k) == Entry(id, now + delay, k)
           n == TimerBase + timerCount + 1
<1>1. /\ Armed(ts) = {new(n)} /\ Len(ts) = 1
      /\ timerCount' \in Nat /\ n \in Nat /\ now + delay \in Nat /\ now + delay >= now
  BY PolicyType DEF Armed, Timing, Arm, QueueInv
<1>2. new(n) \in EntrySet /\ new(n).id = id /\ new(n).at = now + delay
  BY <1>1 DEF Entry, EntrySet
<1>3. CASE ~MaySchedule(queue, {new(n)})
  <2>1. failed' = TRUE /\ UNCHANGED <<queue, obligations>>
    BY <1>1, <1>3 DEF Arm
  <2>2. QueueInv'
    BY <1>1, <2>1 DEF QueueInv, PendingIds
  <2> QED BY <2>1, <2>2 DEF SameTimers
<1>4. CASE MaySchedule(queue, {new(n)})
  <2> HIDE DEF n
  <2>1. id \notin queue.seen
    BY <1>2, <1>4 DEF MaySchedule
  <2>2. failed' = FALSE /\ obligations' = Opened(ds) /\ queue' = Schedule(queue, {new(n)})
    BY <1>1, <1>4 DEF Arm
  <2> HIDE DEF new
  <2>3. queue' = [pending |-> queue.pending \cup {new(n)}, seen |-> queue.seen \cup {id}]
    BY <1>2, <2>2 DEF Schedule
  <2>4. /\ queue'.pending = queue.pending \cup {new(n)} /\ queue'.seen = queue.seen \cup {id}
        /\ queue' = [pending |-> queue'.pending, seen |-> queue'.seen]
    BY <2>3
  <2>5. PendingIds(queue)' = PendingIds(queue) \cup {id}
    BY <1>2, <2>4 DEF PendingIds
  <2>6. \A e \in queue.pending : e.id # id
    BY <2>1 DEF QueueInv, PendingIds
  <2>7. QueueInv'
    <3>1. \A e, f \in queue'.pending : e.id = f.id => e = f
      BY <1>2, <2>4, <2>6 DEF QueueInv
    <3>2. \A e \in queue'.pending : e.at >= now
      BY <1>1, <1>2, <2>4 DEF QueueInv
    <3>3. queue'.pending \subseteq EntrySet
      BY <1>2, <2>4 DEF QueueInv
    <3> QED BY <1>1, <2>4, <2>5, <3>1, <3>2, <3>3 DEF QueueInv
  <2>8. \A e \in queue'.pending : e.id = id => e.at = now + delay
    BY <1>2, <2>4, <2>6
  <2>9. \A other : other # id => SameTimers(other)
    BY <1>2, <2>4 DEF SameTimers
  <2> QED BY <2>1, <2>2, <2>4, <2>5, <2>7, <2>8, <2>9
<1> QED BY <1>3, <1>4

\* The two timers of a checkpoint are armed under fresh identities, the reminder
\* first.
LEMMA ArmCheckpoint ==
  ASSUME QueueInv, NEW k \in Checkpoints, NEW ds, Arm(CheckpointTimers(k), ds), now' = now,
         ReminderTimer(k) \notin queue.seen, DeadlineTimer(k) \notin queue.seen
  PROVE  /\ QueueInv' /\ failed' = FALSE /\ obligations' = Opened(ds)
         /\ \A id : id \notin {ReminderTimer(k), DeadlineTimer(k)} => SameTimers(id)
         /\ {ReminderTimer(k), DeadlineTimer(k)} \subseteq PendingIds(queue)'
         /\ \A e \in queue'.pending : e.id = ReminderTimer(k) => e.at = now + ReminderAfter
         /\ \A e \in queue'.pending : e.id = DeadlineTimer(k) => e.at = now + DeadlineAfter
         /\ \A e, f \in queue'.pending :
              e.id = ReminderTimer(k) /\ f.id = DeadlineTimer(k) => e.seq < f.seq
<1> DEFINE r == ReminderTimer(k)
           d == DeadlineTimer(k)
           er == Entry(r, now + ReminderAfter, TimerBase + timerCount + 1)
           ed == Entry(d, now + DeadlineAfter, TimerBase + timerCount + 2)
<1>1. /\ Len(CheckpointTimers(k)) = 2 /\ timerCount' = timerCount + 2
      /\ DOMAIN CheckpointTimers(k) = {1, 2}
      /\ CheckpointTimers(k)[1] = Timing(r, ReminderAfter)
      /\ CheckpointTimers(k)[2] = Timing(d, DeadlineAfter)
  BY DEF CheckpointTimers, Arm
<1>2. Armed(CheckpointTimers(k)) = {er, ed}
  BY <1>1 DEF Armed, Timing
<1>3. /\ er.id = r /\ ed.id = d /\ r # d /\ r \in TimerIds /\ d \in TimerIds
      /\ er.at = now + ReminderAfter /\ ed.at = now + DeadlineAfter
      /\ er.at >= now /\ ed.at >= now /\ er.seq < ed.seq
      /\ er \in EntrySet /\ ed \in EntrySet /\ timerCount' \in Nat
  <2>1. r # d /\ r \in TimerIds /\ d \in TimerIds
    BY TimersDistinct
  <2> HIDE DEF r, d
  <2>2. /\ now \in Nat /\ timerCount \in Nat /\ TimerBase \in Nat
        /\ ReminderAfter \in Nat /\ DeadlineAfter \in Nat
    BY PolicyType DEF QueueInv
  <2> QED BY <1>1, <2>1, <2>2 DEF Entry, EntrySet
<1> HIDE DEF er, ed
<1>4. MaySchedule(queue, {er, ed})
  BY <1>3 DEF MaySchedule
<1>5. failed' = FALSE /\ obligations' = Opened(ds) /\ queue' = Schedule(queue, {er, ed})
  BY <1>2, <1>4 DEF Arm
<1>6. queue' = [pending |-> queue.pending \cup {er, ed}, seen |-> queue.seen \cup {r, d}]
  BY <1>3, <1>5 DEF Schedule
<1>7. /\ queue'.pending = queue.pending \cup {er, ed} /\ queue'.seen = queue.seen \cup {r, d}
      /\ queue' = [pending |-> queue'.pending, seen |-> queue'.seen]
  BY <1>6
<1>8. PendingIds(queue)' = PendingIds(queue) \cup {r, d}
  BY <1>3, <1>7 DEF PendingIds
<1>9. \A e \in queue.pending : e.id # r /\ e.id # d
  BY DEF QueueInv, PendingIds
<1>10. QueueInv'
  <2>1. \A e, f \in queue'.pending : e.id = f.id => e = f
    BY <1>3, <1>7, <1>9 DEF QueueInv
  <2>2. \A e \in queue'.pending : e.at >= now
    BY <1>3, <1>7 DEF QueueInv
  <2>3. queue'.pending \subseteq EntrySet
    BY <1>3, <1>7 DEF QueueInv
  <2>4. PendingIds(queue)' \subseteq queue'.seen
    BY <1>7, <1>8 DEF QueueInv
  <2> QED BY <1>3, <1>7, <2>1, <2>2, <2>3, <2>4 DEF QueueInv
<1>11. \A e \in queue'.pending : (e.id = r => e = er) /\ (e.id = d => e = ed)
  BY <1>3, <1>7, <1>9
<1>12. \A id : id \notin {r, d} => SameTimers(id)
  BY <1>3, <1>7 DEF SameTimers
<1>13. {r, d} \subseteq PendingIds(queue)'
  BY <1>8
<1> HIDE DEF r, d
<1>14. \A e, f \in queue'.pending : e.id = r /\ f.id = d => e.seq < f.seq
  BY <1>3, <1>11
<1>15. \A e \in queue'.pending :
         (e.id = r => e.at = now + ReminderAfter) /\ (e.id = d => e.at = now + DeadlineAfter)
  BY <1>3, <1>11
<1> QED BY <1>5, <1>10, <1>12, <1>13, <1>14, <1>15 DEF r, d

\* Where the least event is not due, nothing is.
LEMMA NothingDue ==
  ASSUME QueueInv, DueTimers = {}
  PROVE  \A e \in queue.pending : e.at > now
<1> SUFFICES ASSUME NEW e \in queue.pending, ~(e.at > now) PROVE FALSE
  OBVIOUS
<1> DEFINE D == {f \in queue.pending : f.at = now}
           T == {f.seq : f \in D}
<1>1. e \in D
  BY DEF QueueInv, EntrySet
<1>2. T \in SUBSET Nat /\ T # {}
  BY <1>1 DEF QueueInv, EntrySet
<1>3. PICK n \in T : \A m \in T : n <= m
  BY <1>2, NatMin
<1>4. PICK f \in D : f.seq = n
  BY <1>3
<1>5. \A g \in queue.pending : ~Before(g, f)
  <2> SUFFICES ASSUME NEW g \in queue.pending, Before(g, f) PROVE FALSE
    OBVIOUS
  <2>1. g.at \in Nat /\ g.seq \in Nat /\ g.at >= now /\ f.at = now /\ f.seq \in Nat /\ now \in Nat
    BY <1>4 DEF QueueInv, EntrySet
  <2>2. g.at = now /\ g.seq < f.seq
    BY <2>1 DEF Before
  <2>3. g.seq \in T
    BY <2>2
  <2> QED BY <1>3, <1>4, <2>1, <2>2, <2>3
<1>6. f \in DueTimers
  BY <1>4, <1>5 DEF DueTimers, Upcoming
<1> QED BY <1>6

\* The next checkpoint was never taken, and is the next to be.
LEMMA NextIsFresh ==
  ASSUME Numbered, NextCheckpoint \in Checkpoints
  PROVE  /\ ~Taken(NextCheckpoint)
         /\ \A k \in Checkpoints : Taken(k) <=> k < NextCheckpoint
<1>1. PICK n \in 0..MaxCheckpoint : \A k \in Checkpoints : Taken(k) <=> k <= n
  BY DEF Numbered
<1>2. {k \in Checkpoints : approvals[k].status # "ABSENT" \/ exceptions[k] # "ABSENT"} = 1..n
  BY <1>1, PolicyType DEF Checkpoints, Taken
<1>3. Cardinality(1..n) = n
  <2>1. n \in Int /\ 1 \in Int /\ n >= 0
    BY <1>1, PolicyType
  <2>2. Cardinality(1..n) = IF 1 > n THEN 0 ELSE n - 1 + 1
    BY <2>1, FS_Interval
  <2> QED BY <2>1, <2>2
<1>4. NextCheckpoint = 1 + n
  BY <1>2, <1>3 DEF NextCheckpoint
<1>5. n \in Nat /\ Checkpoints \subseteq Nat
  BY <1>1, PolicyType DEF Checkpoints
<1> QED BY <1>1, <1>4, <1>5

-----------------------------------------------------------------------------
(* What leaves a part of the invariant alone.                               *)

\* Nothing of a checkpoint changes but that its reminder may be discharged.
DecisionFrame(k) ==
  /\ approvals'[k] = approvals[k]
  /\ approvals[k].status # "ABSENT" =>
       /\ exceptions'[k] = exceptions[k]
       /\ quotes'[approvals[k].quote].status = quotes[approvals[k].quote].status
       /\ \A j \in Checkpoints : approvals'[j].quote = approvals[k].quote => j = k
  /\ obligations'[DecisionDuty(k)] = obligations[DecisionDuty(k)]
  /\ \/ obligations'[ReminderDuty(k)] = obligations[ReminderDuty(k)]
     \/ /\ obligations[ReminderDuty(k)] = "OPEN"
        /\ obligations'[ReminderDuty(k)] = "DISCHARGED"
  /\ SameTimers(ReminderTimer(k)) /\ SameTimers(DeadlineTimer(k))

LEMMA SamePending ==
  ASSUME NEW id, SameTimers(id)
  PROVE  id \in PendingIds(queue)' <=> id \in PendingIds(queue)
BY DEF SameTimers, PendingIds

LEMMA DecisionKept ==
  ASSUME NEW k \in Checkpoints, Asked(k), Timed(k), DecisionFrame(k)
  PROVE  Asked(k)' /\ Timed(k)'
<1>1. /\ ReminderTimer(k) \in PendingIds(queue)' <=> ReminderTimer(k) \in PendingIds(queue)
      /\ DeadlineTimer(k) \in PendingIds(queue)' <=> DeadlineTimer(k) \in PendingIds(queue)
  BY SamePending DEF DecisionFrame
<1>2. Timed(k)'
  BY <1>1 DEF Timed, DecisionFrame, SameTimers
<1>3. Asked(k)'
  BY DEF Asked, DecisionFrame, SameTimers
<1> QED BY <1>2, <1>3

\* The follow-up of a visit and its duty are left alone, and its cycle stays.
VisitFrame(c) ==
  /\ Exists(c) => Exists(c)'
  /\ obligations'[VisitDuty(c)] = obligations[VisitDuty(c)]
  /\ SameTimers(VisitTimer(c))

LEMMA VisitKept ==
  ASSUME NEW c \in Cycles, FollowedUp(c), VisitFrame(c)
  PROVE  FollowedUp(c)'
<1>1. VisitTimer(c) \in PendingIds(queue)' <=> VisitTimer(c) \in PendingIds(queue)
  BY SamePending DEF VisitFrame
<1> QED BY <1>1 DEF FollowedUp, VisitFrame, SameTimers

\* No work is booked and no approval is lost.
LEMMA PaidWorkKept ==
  ASSUME PaidWorkIsApproved,
         \A k \in Checkpoints : approvals[k].status = "APPROVED" => approvals'[k] = approvals[k],
         \A c \in Cycles : cycles'[c].kind = "APPROVED_WORK" /\ cycles'[c].visit # "NONE" =>
                             cycles[c].kind = "APPROVED_WORK" /\ cycles[c].visit # "NONE"
  PROVE  PaidWorkIsApproved'
BY DEF PaidWorkIsApproved, RequiresPayment

\* A window stays as it is, and what was not reported stays so.
WindowFrame ==
  /\ phase' = "PROVISIONALLY_CLOSED" =>
       /\ phase = "PROVISIONALLY_CLOSED" /\ closing' = closing /\ resolution' # "PERSISTS"
       /\ \A c \in Cycles : Verified(c) => Verified(c)'
       /\ \A k \in Checkpoints : approvals'[k].status = "OPEN" => approvals[k].status = "OPEN"
       /\ \A k \in Checkpoints : exceptions'[k] = "OPEN" => exceptions[k] = "OPEN"
       /\ \A c \in Cycles : SameTimers(CloseTimer(c))
  /\ ~reported' => ~reported /\ cycles' = cycles

LEMMA WindowKept ==
  ASSUME WindowInv, ~failed, WindowFrame
  PROVE  WindowInv'
<1>1. ~reported' => \A c \in Cycles : cycles'[c] = Absent
  BY DEF WindowInv, WindowFrame
<1>2. ASSUME phase' = "PROVISIONALLY_CLOSED"
      PROVE  WindowHasItsTimer' /\ closing'.cycle \in Cycles
  <2>1. /\ phase = "PROVISIONALLY_CLOSED" /\ closing' = closing /\ resolution' # "PERSISTS"
        /\ closing.cycle \in Cycles /\ Verified(closing.cycle) /\ NoBlockingCheckpoint
    BY <1>2 DEF WindowFrame, WindowInv, WindowHasItsTimer
  <2>2. PICK e \in queue.pending : e.id = CloseTimer(closing.cycle) /\ e.at = closing.until
    BY <2>1 DEF WindowInv, WindowHasItsTimer
  <2>3. e \in queue'.pending /\ cycles'[closing.cycle].visit = "WORK_VERIFIED"
    BY <1>2, <2>1, <2>2 DEF WindowFrame, SameTimers, Verified
  <2>4. NoBlockingCheckpoint'
    BY <1>2, <2>1 DEF WindowFrame, NoBlockingCheckpoint, OpenApprovals, OpenExceptions
  <2> QED BY <2>1, <2>2, <2>3, <2>4 DEF WindowHasItsTimer, Verified
<1> QED BY <1>1, <1>2 DEF WindowInv, WindowHasItsTimer

\* What is owed about checkpoints and visits stays, reminders sent apart.
DutyFrame ==
  /\ obligations' \in [Duties -> DutyStates]
  /\ \A k \in Checkpoints :
       /\ obligations'[DecisionDuty(k)] = obligations[DecisionDuty(k)]
       /\ \/ obligations'[ReminderDuty(k)] = obligations[ReminderDuty(k)]
          \/ /\ obligations[ReminderDuty(k)] = "OPEN"
             /\ obligations'[ReminderDuty(k)] = "DISCHARGED"
  /\ \A c \in Cycles : obligations'[VisitDuty(c)] = obligations[VisitDuty(c)]

\* No timer, no approval and no answered quote is touched, no cycle lost.
CalmFrame ==
  /\ UNCHANGED <<now, queue, timerCount, approvals>>
  /\ \A k \in Checkpoints : approvals[k].status # "ABSENT" => exceptions'[k] = exceptions[k]
  /\ \A q \in Quotes : quotes[q].status # "ABSENT" => quotes'[q].status = quotes[q].status
  /\ \A c \in Cycles : Exists(c) => Exists(c)'
  /\ DutyFrame

LEMMA CalmKept ==
  ASSUME IInv, CalmFrame
  PROVE  QueueInv' /\ DecisionInv' /\ VisitInv'
<1>1. QueueInv'
  BY DEF IInv, QueueInv, CalmFrame, PendingIds
<1>2. \A id : SameTimers(id)
  BY DEF CalmFrame, SameTimers
<1>3. ASSUME NEW k \in Checkpoints PROVE (Asked(k) /\ Timed(k))'
  <2>1. Asked(k) /\ Timed(k)
    BY DEF IInv, DecisionInv
  <2>2. approvals'[k] = approvals[k] /\ approvals' = approvals
    BY DEF CalmFrame
  <2>3. approvals[k].status # "ABSENT" =>
          /\ exceptions'[k] = exceptions[k]
          /\ quotes'[approvals[k].quote].status = quotes[approvals[k].quote].status
          /\ \A j \in Checkpoints : approvals'[j].quote = approvals[k].quote => j = k
    <3>1. approvals[k].status # "ABSENT" =>
            /\ approvals[k].quote \in Quotes
            /\ quotes[approvals[k].quote].status # "ABSENT"
            /\ \A j \in Checkpoints : approvals[j].quote = approvals[k].quote => j = k
      BY <2>1 DEF Asked
    <3> QED BY <2>2, <3>1 DEF CalmFrame
  <2>4. DecisionFrame(k)
    BY <1>2, <2>2, <2>3 DEF DecisionFrame, CalmFrame, DutyFrame
  <2> QED BY <2>1, <2>4, DecisionKept
<1>4. ASSUME NEW c \in Cycles PROVE FollowedUp(c)'
  <2>1. FollowedUp(c)
    BY DEF IInv, VisitInv
  <2>2. VisitFrame(c)
    BY <1>2 DEF VisitFrame, CalmFrame, DutyFrame
  <2> QED BY <2>1, <2>2, VisitKept
<1> QED BY <1>1, <1>3, <1>4 DEF DecisionInv, VisitInv

LEMMA OtherDuties ==
  ASSUME obligations \in [Duties -> DutyStates],
         \/ UNCHANGED obligations
         \/ \E c : obligations' = Opened({NoticeDuty(c)})
         \/ obligations' = Opened({})
         \/ \E c : obligations' = Closed(obligations, {NoticeDuty(c)}, "DISCHARGED")
         \/ \E ks \in SUBSET Checkpoints :
              obligations' = Closed(obligations, {ReminderDuty(k) : k \in ks}, "DISCHARGED")
  PROVE  DutyFrame
<1> DEFINE same(d) == obligations'[d] = obligations[d]
<1>0. "DISCHARGED" \in DutyStates
  BY DEF DutyStates
<1>1. CASE UNCHANGED obligations
  BY <1>1 DEF DutyFrame
<1>2. ASSUME NEW ds, obligations' = Opened(ds), \A d \in ds : \E c : d = NoticeDuty(c)
      PROVE  DutyFrame
  <2>1. /\ obligations' \in [Duties -> DutyStates]
        /\ \A d \in Duties : d \notin ds => same(d)
    BY <1>2, OpenedDuties
  <2>2. \A c : VisitDuty(c) \notin ds /\ DecisionDuty(c) \notin ds /\ ReminderDuty(c) \notin ds
    BY <1>2, DutiesDistinct
  <2> QED BY <2>1, <2>2, DutiesDistinct DEF DutyFrame
<1>3. ASSUME NEW c, obligations' = Closed(obligations, {NoticeDuty(c)}, "DISCHARGED")
      PROVE  DutyFrame
  <2>1. /\ obligations' \in [Duties -> DutyStates]
        /\ \A d \in Duties : d # NoticeDuty(c) => same(d)
    BY <1>0, <1>3, ClosedDuties
  <2> QED BY <2>1, DutiesDistinct DEF DutyFrame
<1>4. ASSUME NEW ks \in SUBSET Checkpoints,
             obligations' = Closed(obligations, {ReminderDuty(k) : k \in ks}, "DISCHARGED")
      PROVE  DutyFrame
  <2> DEFINE ds == {ReminderDuty(k) : k \in ks}
  <2>1. /\ obligations' \in [Duties -> DutyStates]
        /\ \A d \in Duties : d \notin ds => same(d)
        /\ \A d \in Duties : same(d) \/ (obligations[d] = "OPEN" /\ obligations'[d] = "DISCHARGED")
    BY <1>0, <1>4, ClosedDuties
  <2>2. \A c : VisitDuty(c) \notin ds /\ DecisionDuty(c) \notin ds
    BY DutiesDistinct
  <2> HIDE DEF ds
  <2> QED BY <2>1, <2>2, DutiesDistinct DEF DutyFrame
<1>5. ASSUME NEW c, obligations' = Opened({NoticeDuty(c)}) PROVE DutyFrame
  BY <1>2, <1>5
<1>6. ASSUME obligations' = Opened({}) PROVE DutyFrame
  BY <1>2, <1>6
<1> QED BY <1>1, <1>3, <1>4, <1>5, <1>6

\* Steps that touch money, messages and words only.
PaperFrame ==
  /\ UNCHANGED <<now, queue, timerCount, failed, approvals, exceptions, quotes, current, cycles,
                 reported, closing>>
  /\ phase' = "PROVISIONALLY_CLOSED" => phase = "PROVISIONALLY_CLOSED" /\ resolution' # "PERSISTS"
  /\ DutyFrame

LEMMA PaperKept ==
  ASSUME IInv, Running, PaperFrame
  PROVE  IInv'
<1>1. /\ now' = now /\ queue' = queue /\ timerCount' = timerCount /\ failed' = failed
      /\ approvals' = approvals /\ exceptions' = exceptions /\ quotes' = quotes
      /\ current' = current /\ cycles' = cycles /\ reported' = reported /\ closing' = closing
      /\ DutyFrame
  BY DEF PaperFrame
<1>2. CalmFrame
  BY <1>1 DEF CalmFrame, Exists
<1>3. QueueInv' /\ DecisionInv' /\ VisitInv'
  BY <1>2, CalmKept
<1>4. RecordInv'
  <2>1. RecordInv /\ obligations' \in [Duties -> DutyStates]
    BY <1>1 DEF IInv, DutyFrame
  <2> QED BY <1>1, <2>1 DEF RecordInv, Exists
<1>5. Numbered'
  BY <1>1 DEF IInv, Numbered, Taken
<1>6. PaidWorkIsApproved'
  BY <1>1 DEF IInv, PaidWorkIsApproved, RequiresPayment
<1>7. WindowInv'
  <2>1. phase' = "PROVISIONALLY_CLOSED" => phase = "PROVISIONALLY_CLOSED" /\ resolution' # "PERSISTS"
    BY DEF PaperFrame
  <2>2. WindowFrame
    BY <1>1, <2>1 DEF WindowFrame, SameTimers, Verified
  <2> QED BY <2>2, WindowKept DEF IInv, Running
<1> QED BY <1>3, <1>4, <1>5, <1>6, <1>7 DEF IInv

\* Money, messages and words.
LEMMA PaperSteps ==
  ASSUME IInv,
         \/ \E i \in Invoices : InvoiceReceived(i) \/ InvoiceValidation(i)
         \/ \E i \in Invoices : RequestInvoiceValidation(i) \/ RequestPayment(i)
         \/ Settlement
         \/ \E c \in Cycles : SendCompletionNotice(c) \/ SendReminder(c)
         \/ \E channel \in {"primary", "secondary"} : SendTransferNotice(channel)
         \/ CompleteByTransfer
         \/ \E status \in {"RESOLVED", "PERSISTS"} : CustomerResolution(status)
  PROVE  IInv'
<1> USE DEF worldVars, workVars, humanVars, moneyVars, dutyVars, endVars
<1>1. obligations \in [Duties -> DutyStates] /\ (phase = "PROVISIONALLY_CLOSED" /\ ~failed => resolution # "PERSISTS")
  BY DEF IInv, RecordInv, WindowInv, WindowHasItsTimer
<1>2. ASSUME Running, UNCHANGED <<now, queue, timerCount, failed, approvals, exceptions, quotes,
                                  current, cycles, reported, closing>>,
             UNCHANGED <<phase, resolution>>, DutyFrame
      PROVE  IInv'
  BY <1>1, <1>2, PaperKept DEF PaperFrame, Running
<1>3. ASSUME NEW i \in Invoices,
             \/ InvoiceReceived(i) \/ InvoiceValidation(i) \/ RequestInvoiceValidation(i)
             \/ RequestPayment(i)
      PROVE  IInv'
  <2>1. UNCHANGED obligations
    BY <1>3 DEF InvoiceReceived, InvoiceValidation, RequestInvoiceValidation, RequestPayment
  <2>2. DutyFrame
    BY <1>1, <2>1, OtherDuties
  <2> QED BY <1>2, <1>3, <2>2 DEF InvoiceReceived, InvoiceValidation, RequestInvoiceValidation,
                                  RequestPayment, UnderWay
<1>4. ASSUME Settlement PROVE IInv'
  <2>1. obligations' = Opened({NoticeDuty(payment.cycle)})
    BY <1>4 DEF Settlement, OwedOnSettlement
  <2>2. DutyFrame
    BY <1>1, <1>4, <2>1, OtherDuties
  <2> QED BY <1>2, <1>4, <2>2 DEF Settlement
<1>5. ASSUME NEW c \in Cycles, SendCompletionNotice(c) PROVE IInv'
  <2>1. \/ obligations' = obligations
        \/ obligations' = Closed(obligations, {NoticeDuty(c)}, "DISCHARGED")
    BY <1>5 DEF SendCompletionNotice
  <2>2. DutyFrame
    BY <1>1, <2>1, OtherDuties
  <2> QED BY <1>2, <1>5, <2>2 DEF SendCompletionNotice
<1>6. ASSUME NEW c \in Cycles, SendReminder(c) PROVE IInv'
  <2> DEFINE due == {k \in OpenApprovals : approvals[k].fired /\ QuoteOf[approvals[k].quote].cycle = c}
  <2>1. due \in SUBSET Checkpoints
    BY DEF OpenApprovals
  <2>2. \/ obligations' = obligations
        \/ obligations' = Closed(obligations, {ReminderDuty(k) : k \in due}, "DISCHARGED")
    BY <1>6 DEF SendReminder
  <2> HIDE DEF due
  <2>3. DutyFrame
    BY <1>1, <2>1, <2>2, OtherDuties
  <2> QED BY <1>2, <1>6, <2>3 DEF SendReminder
<1>7. ASSUME NEW channel, SendTransferNotice(channel) PROVE IInv'
  <2>1. DutyFrame
    BY <1>1, <1>7, OtherDuties DEF SendTransferNotice
  <2> QED BY <1>2, <1>7, <2>1 DEF SendTransferNotice
<1>8. ASSUME CompleteByTransfer PROVE IInv'
  <2>1. DutyFrame
    BY <1>1, <1>8, OtherDuties DEF CompleteByTransfer
  <2>2. PaperFrame /\ Running
    BY <1>8, <2>1 DEF CompleteByTransfer, PaperFrame, MayComplete
  <2> QED BY <2>2, PaperKept
<1>9. ASSUME NEW status, CustomerResolution(status) PROVE IInv'
  <2>1. DutyFrame
    BY <1>1, <1>9, OtherDuties DEF CustomerResolution
  <2>2. PaperFrame /\ Running
    BY <1>9, <2>1 DEF CustomerResolution, PaperFrame
  <2> QED BY <2>2, PaperKept
<1> QED BY <1>3, <1>4, <1>5, <1>6, <1>7, <1>8, <1>9

\* An exception is opened under the next number, or resolved.
LEMMA ExceptionSteps ==
  ASSUME IInv,
         \/ RequestExceptionResolution
         \/ \E k \in Checkpoints : \E decision : OperatorResolution(k, decision)
  PROVE  IInv'
<1> USE DEF worldVars, workVars, humanVars, moneyVars, dutyVars, endVars
<1>1. PICK k \in Checkpoints :
        /\ approvals[k].status = "ABSENT"
        /\ \E status \in {"OPEN", "RESOLVED"} : exceptions' = [exceptions EXCEPT ![k] = status]
        /\ \/ Taken(k)
           \/ ~Taken(k) /\ \A j \in Checkpoints : Taken(j) <=> j < k
  <2>1. CASE RequestExceptionResolution
    <3>1. NextCheckpoint \in Checkpoints /\ exceptions' = [exceptions EXCEPT ![NextCheckpoint] = "OPEN"]
      BY <2>1 DEF RequestExceptionResolution
    <3> QED BY <3>1, NextIsFresh DEF IInv, Taken
  <2>2. ASSUME NEW k \in Checkpoints, NEW decision, OperatorResolution(k, decision)
        PROVE  /\ Taken(k) /\ approvals[k].status = "ABSENT"
               /\ exceptions' = [exceptions EXCEPT ![k] = "RESOLVED"]
    <3>1. exceptions[k] = "OPEN" /\ exceptions' = [exceptions EXCEPT ![k] = "RESOLVED"]
      BY <2>2 DEF OperatorResolution, OpenExceptions
    <3> QED BY <3>1 DEF Taken, IInv, DecisionInv, Asked
  <2> QED BY <2>1, <2>2
<1>2. /\ now' = now /\ queue' = queue /\ timerCount' = timerCount /\ approvals' = approvals
      /\ quotes' = quotes /\ current' = current /\ cycles' = cycles /\ reported' = reported
      /\ obligations' = obligations /\ Running /\ phase' # "PROVISIONALLY_CLOSED"
  BY DEF RequestExceptionResolution, OperatorResolution
<1>3. /\ exceptions' \in [Checkpoints -> {"ABSENT", "OPEN", "RESOLVED"}]
      /\ exceptions'[k] # "ABSENT" /\ \A j \in Checkpoints : j # k => exceptions'[j] = exceptions[j]
  BY <1>1 DEF IInv, RecordInv
<1>4. QueueInv' /\ DecisionInv' /\ VisitInv'
  <2>1. DutyFrame
    BY <1>2, OtherDuties DEF IInv, RecordInv
  <2>2. CalmFrame
    BY <1>1, <1>2, <1>3, <2>1 DEF CalmFrame, Exists
  <2> QED BY <2>2, CalmKept
<1>5. RecordInv'
  BY <1>2, <1>3 DEF IInv, RecordInv, Exists
<1>6. Numbered'
  <2>1. PICK n \in 0..MaxCheckpoint : \A j \in Checkpoints : Taken(j) <=> j <= n
    BY DEF IInv, Numbered
  <2>2. \A j \in Checkpoints : Taken(j)' <=> Taken(j) \/ j = k
    BY <1>2, <1>3 DEF Taken
  <2>3. CASE Taken(k)
    BY <2>1, <2>2, <2>3 DEF Numbered
  <2>4. CASE \A j \in Checkpoints : Taken(j) <=> j < k
    <3>1. k \in 0..MaxCheckpoint /\ \A j \in Checkpoints : Taken(j)' <=> j <= k
      BY <2>2, <2>4, PolicyType DEF Checkpoints
    <3> QED BY <3>1 DEF Numbered
  <2> QED BY <1>1, <2>3, <2>4
<1>7. PaidWorkIsApproved'
  BY <1>2 DEF IInv, PaidWorkIsApproved, RequiresPayment
<1>8. WindowInv'
  <2>1. WindowFrame
    BY <1>2 DEF WindowFrame
  <2> QED BY <1>2, <2>1, WindowKept DEF IInv, Running
<1> QED BY <1>4, <1>5, <1>6, <1>7, <1>8 DEF IInv

CycleRecords == [kind : Kinds, parent : Cycles \cup {NoCycle}, scope : Scopes \cup {NoScope},
                 visit : Visits]

\* Steps that touch cycles and quotes, and no timer.
WorkFrame ==
  /\ UNCHANGED <<now, queue, timerCount, failed, approvals, exceptions, closing>>
  /\ DutyFrame
  /\ \A q \in Quotes : quotes[q].status # "ABSENT" => quotes'[q].status = quotes[q].status
  /\ \A c \in Cycles : Exists(c) => Exists(c)'
  /\ \A c \in Cycles : Verified(c) => Verified(c)'
  /\ \A c \in Cycles : cycles'[c].kind = "APPROVED_WORK" /\ cycles'[c].visit # "NONE" =>
                         cycles[c].kind = "APPROVED_WORK" /\ cycles[c].visit # "NONE"
  /\ phase' = "PROVISIONALLY_CLOSED" => phase = "PROVISIONALLY_CLOSED"
  /\ resolution' = resolution /\ reported'

LEMMA WorkKept ==
  ASSUME IInv, Running, RecordInv', WorkFrame
  PROVE  IInv'
<1>1. /\ now' = now /\ queue' = queue /\ timerCount' = timerCount /\ failed' = failed
      /\ approvals' = approvals /\ exceptions' = exceptions /\ closing' = closing
      /\ resolution' = resolution /\ reported'
  BY DEF WorkFrame
<1>2. CalmFrame
  BY <1>1 DEF CalmFrame, WorkFrame
<1>3. QueueInv' /\ DecisionInv' /\ VisitInv'
  BY <1>2, CalmKept
<1>4. Numbered'
  BY <1>1 DEF IInv, Numbered, Taken
<1>5. PaidWorkIsApproved'
  BY <1>1, PaidWorkKept DEF IInv, WorkFrame
<1>6. WindowInv'
  <2>1. /\ phase' = "PROVISIONALLY_CLOSED" => phase = "PROVISIONALLY_CLOSED"
        /\ \A c \in Cycles : Verified(c) => Verified(c)'
    BY DEF WorkFrame
  <2>2. phase = "PROVISIONALLY_CLOSED" => resolution # "PERSISTS"
    BY DEF IInv, WindowInv, WindowHasItsTimer, Running
  <2>3. WindowFrame
    BY <1>1, <2>1, <2>2 DEF WindowFrame, SameTimers
  <2> QED BY <2>3, WindowKept DEF IInv, Running
<1> QED BY <1>3, <1>4, <1>5, <1>6 DEF IInv

\* A visit that was asked for moves on; its cycle keeps its kind.
LEMMA VisitMoves ==
  ASSUME RecordInv, NEW c \in Cycles, NEW x \in CycleRecords,
         cycles[c].visit \in Visits \ {"NONE", "WORK_VERIFIED"},
         x.kind = cycles[c].kind, x.visit # "NONE",
         cycles' = [cycles EXCEPT ![c] = x]
  PROVE  /\ cycles' \in [Cycles -> CycleRecords]
         /\ \A b \in Cycles : cycles'[b].kind = cycles[b].kind
         /\ \A b \in Cycles : Exists(b) => Exists(b)'
         /\ \A b \in Cycles : Verified(b) => Verified(b)'
         /\ \A b \in Cycles : cycles'[b].kind = "ABSENT" => cycles'[b].visit = "NONE"
         /\ \A b \in Cycles : cycles'[b].visit # "NONE" => cycles[b].visit # "NONE"
         /\ Exists(c)
<1>1. cycles \in [Cycles -> CycleRecords] /\ cycles[c].kind # "ABSENT"
  BY DEF RecordInv, CycleRecords
<1>2. cycles' \in [Cycles -> CycleRecords] /\ cycles'[c] = x
      /\ \A b \in Cycles : b # c => cycles'[b] = cycles[b]
  BY <1>1
<1> QED BY <1>1, <1>2 DEF RecordInv, Exists, Verified

LEMMA VisitSteps ==
  ASSUME IInv, NEW c \in Cycles,
         \/ VisitResponse(c)
         \/ \E scope \in Scopes : WorkReported(c, scope) \/ WorkEvidence(c, scope)
  PROVE  IInv'
<1> USE DEF worldVars, workVars, humanVars, moneyVars, dutyVars, endVars
<1>1. /\ now' = now /\ queue' = queue /\ timerCount' = timerCount /\ failed' = failed
      /\ approvals' = approvals /\ exceptions' = exceptions /\ closing' = closing
      /\ resolution' = resolution /\ reported' = reported /\ phase' = phase
      /\ quotes' = quotes /\ current' = current /\ Running
  BY DEF VisitResponse, WorkReported, WorkEvidence
<1>2. cycles[c] \in CycleRecords
  BY DEF IInv, RecordInv, CycleRecords
<1>3. /\ cycles[c].visit \in Visits \ {"NONE", "WORK_VERIFIED"}
      /\ \E x \in CycleRecords :
           x.kind = cycles[c].kind /\ x.visit # "NONE" /\ cycles' = [cycles EXCEPT ![c] = x]
  <2>1. ASSUME NEW v \in Visits, NEW s \in Scopes \cup {NoScope}
        PROVE  [cycles[c] EXCEPT !.visit = v, !.scope = s] \in CycleRecords
    BY <1>2 DEF CycleRecords
  <2>2. ASSUME NEW from, NEW to \in Visits \ {"NONE"}, MoveVisit(c, from, to)
        PROVE  /\ cycles[c].visit \in from
               /\ \E x \in CycleRecords :
                    x.kind = cycles[c].kind /\ x.visit # "NONE" /\ cycles' = [cycles EXCEPT ![c] = x]
    <3> DEFINE x == [cycles[c] EXCEPT !.visit = to]
    <3>1. x \in CycleRecords /\ x.kind = cycles[c].kind /\ x.visit # "NONE"
      BY <1>2 DEF CycleRecords
    <3> QED BY <2>2, <3>1 DEF MoveVisit
  <2>3. CASE VisitResponse(c)
    BY <2>2, <2>3 DEF VisitResponse, Visits
  <2>4. ASSUME NEW scope \in Scopes, WorkEvidence(c, scope)
        PROVE  <1>3!:
    BY <2>2, <2>4 DEF WorkEvidence, Visits
  <2>5. ASSUME NEW scope \in Scopes, WorkReported(c, scope)
        PROVE  <1>3!:
    <3> DEFINE x == [cycles[c] EXCEPT !.visit = "WORK_REPORTED",
                                      !.scope = IF @ = NoScope THEN scope ELSE @]
    <3>1. x \in CycleRecords /\ x.kind = cycles[c].kind /\ x.visit = "WORK_REPORTED"
      BY <1>2 DEF CycleRecords, Visits
    <3>2. cycles' = [cycles EXCEPT ![c] = x] /\ cycles[c].visit = "ATTENDED"
      BY <2>5 DEF WorkReported
    <3> QED BY <3>1, <3>2 DEF Visits
  <2> QED BY <2>3, <2>4, <2>5
<1>4. PICK x \in CycleRecords :
        x.kind = cycles[c].kind /\ x.visit # "NONE" /\ cycles' = [cycles EXCEPT ![c] = x]
  BY <1>3
<1>5. /\ cycles' \in [Cycles -> CycleRecords]
      /\ \A b \in Cycles : cycles'[b].kind = cycles[b].kind
      /\ \A b \in Cycles : Exists(b) => Exists(b)'
      /\ \A b \in Cycles : Verified(b) => Verified(b)'
      /\ \A b \in Cycles : cycles'[b].kind = "ABSENT" => cycles'[b].visit = "NONE"
      /\ \A b \in Cycles : cycles'[b].visit # "NONE" => cycles[b].visit # "NONE"
      /\ Exists(c)
  BY <1>3, <1>4, VisitMoves DEF IInv
<1>6. DutyFrame
  <2>1. \/ UNCHANGED obligations
        \/ obligations' = Opened({}) \/ obligations' = Opened({NoticeDuty(c)})
    BY DEF VisitResponse, WorkReported, WorkEvidence
  <2> QED BY <2>1, OtherDuties DEF IInv, RecordInv
<1>7. RecordInv'
  BY <1>1, <1>5, <1>6, QuoteType DEF IInv, RecordInv, CycleRecords, DutyFrame
<1>8. reported
  BY <1>5 DEF IInv, WindowInv, Exists, Absent
<1>9. WorkFrame
  BY <1>1, <1>5, <1>6, <1>8 DEF WorkFrame
<1> QED BY <1>1, <1>7, <1>9, WorkKept

LEMMA ReportStep ==
  ASSUME IInv, IssueReported
  PROVE  IInv'
<1> USE DEF worldVars, workVars, humanVars, moneyVars, dutyVars, endVars
<1>1. /\ now' = now /\ queue' = queue /\ timerCount' = timerCount /\ failed' = failed
      /\ approvals' = approvals /\ exceptions' = exceptions /\ closing' = closing
      /\ resolution' = resolution /\ reported' /\ phase' = "ACTIVE"
      /\ quotes' = quotes /\ current' = FirstCycle /\ obligations' = obligations /\ Running
      /\ cycles' = [cycles EXCEPT ![FirstCycle] = NewCycle("DIAGNOSTIC", NoCycle, NoScope)]
  BY DEF IssueReported
<1>2. FirstCycle \in Cycles
  BY MaintenanceAssumption DEF FirstCycle, Cycles
<1> DEFINE x == NewCycle("DIAGNOSTIC", NoCycle, NoScope)
<1>3. x \in CycleRecords /\ x.kind = "DIAGNOSTIC" /\ x.visit = "NONE"
  BY DEF NewCycle, Absent, CycleRecords, Kinds, Visits
<1>4. \A c \in Cycles : cycles[c].kind = "ABSENT" /\ cycles[c].visit = "NONE"
  BY DEF IInv, WindowInv, Absent, IssueReported
<1> HIDE DEF x
<1>5. /\ cycles' \in [Cycles -> CycleRecords] /\ cycles'[FirstCycle] = x
      /\ \A c \in Cycles : c # FirstCycle => cycles'[c] = cycles[c]
  BY <1>1, <1>2, <1>3 DEF IInv, RecordInv, CycleRecords, x
<1>6. \A c \in Cycles : cycles'[c].kind \in {"ABSENT", "DIAGNOSTIC"} /\ cycles'[c].visit = "NONE"
  BY <1>3, <1>4, <1>5
<1>7. \A c \in Cycles : ~Exists(c)
  BY <1>4 DEF Exists
<1>8. DutyFrame
  BY <1>1, OtherDuties DEF IInv, RecordInv
<1>9. RecordInv'
  BY <1>1, <1>2, <1>5, <1>6, <1>7, QuoteType DEF IInv, RecordInv, CycleRecords
<1>10. WorkFrame
  BY <1>1, <1>4, <1>6, <1>7, <1>8 DEF WorkFrame, Verified
<1> QED BY <1>1, <1>9, <1>10, WorkKept

LEMMA QuoteStep ==
  ASSUME IInv, NEW q \in Quotes, QuoteReceived(q)
  PROVE  IInv'
<1> USE DEF worldVars, workVars, humanVars, moneyVars, dutyVars, endVars
<1> DEFINE b == QuoteOf[q].cycle
           x == NewCycle("APPROVED_WORK", NoCycle, QuoteOf[q].scope)
           y == [status |-> "RECEIVED", until |-> now + Validity]
<1>1. /\ now' = now /\ queue' = queue /\ timerCount' = timerCount /\ failed' = failed
      /\ approvals' = approvals /\ exceptions' = exceptions /\ closing' = closing
      /\ resolution' = resolution /\ reported' /\ phase' = phase
      /\ quotes[q].status = "ABSENT" /\ quotes' = [quotes EXCEPT ![q] = y]
      /\ current' = b /\ obligations' = obligations /\ Running
      /\ cycles' = IF Exists(b) THEN cycles ELSE [cycles EXCEPT ![b] = x]
  BY DEF QuoteReceived, UnderWay
<1>2. b \in Cycles /\ x \in CycleRecords /\ x.kind = "APPROVED_WORK" /\ x.visit = "NONE"
  BY QuoteType DEF NewCycle, Absent, CycleRecords, Kinds, Visits
<1>3. y.status = "RECEIVED" /\ y.until \in Nat
  BY PolicyType DEF IInv, QueueInv
<1> HIDE DEF b, x, y
<1>4. /\ quotes' \in [Quotes -> [status : {"ABSENT", "RECEIVED"} \cup Answers, until : Nat]]
      /\ \A p \in Quotes : p # q => quotes'[p] = quotes[p]
  BY <1>1, <1>3 DEF IInv, RecordInv, y
<1>5. /\ cycles' \in [Cycles -> CycleRecords]
      /\ \A c \in Cycles : c # b \/ Exists(b) => cycles'[c] = cycles[c]
      /\ ~Exists(b) => cycles'[b] = x
  BY <1>1, <1>2 DEF IInv, RecordInv, CycleRecords
<1>6. \A c \in Cycles : ~Exists(c) => cycles[c].visit = "NONE"
  BY DEF IInv, RecordInv, Exists
<1>7. /\ \A c \in Cycles : Exists(c) => Exists(c)'
      /\ \A c \in Cycles : Verified(c) => Verified(c)'
      /\ \A c \in Cycles : cycles'[c].kind = "APPROVED_WORK" /\ cycles'[c].visit # "NONE" =>
                         cycles[c].kind = "APPROVED_WORK" /\ cycles[c].visit # "NONE"
      /\ \A c \in Cycles : cycles'[c].kind = "ABSENT" => cycles'[c].visit = "NONE"
      /\ Exists(b)'
  BY <1>2, <1>5, <1>6 DEF IInv, RecordInv, Exists, Verified
<1>8. \A p \in Quotes : quotes'[p].status # "ABSENT" => Exists(QuoteOf[p].cycle)'
  <2>1. \A p \in Quotes : p # q => (quotes'[p].status # "ABSENT" => Exists(QuoteOf[p].cycle))
    BY <1>4 DEF IInv, RecordInv
  <2>2. \A p \in Quotes : QuoteOf[p].cycle \in Cycles
    BY QuoteType
  <2>3. \A p \in Quotes : p # q => (Exists(QuoteOf[p].cycle) => Exists(QuoteOf[p].cycle)')
    BY <1>7, <2>2
  <2> QED BY <1>7, <2>1, <2>3 DEF b
<1>9. DutyFrame
  BY <1>1, OtherDuties DEF IInv, RecordInv
<1>10. RecordInv'
  BY <1>1, <1>2, <1>4, <1>5, <1>7, <1>8 DEF IInv, RecordInv, CycleRecords
<1>11. WorkFrame
  BY <1>1, <1>4, <1>7, <1>9 DEF WorkFrame
<1> QED BY <1>1, <1>10, <1>11, WorkKept

-----------------------------------------------------------------------------
(* Steps that arm or disarm a timer.                                        *)

LEMMA DecisionsKept ==
  ASSUME DecisionInv, UNCHANGED <<approvals, exceptions, quotes>>,
         \A k \in Checkpoints :
           /\ obligations'[DecisionDuty(k)] = obligations[DecisionDuty(k)]
           /\ obligations'[ReminderDuty(k)] = obligations[ReminderDuty(k)]
           /\ SameTimers(ReminderTimer(k)) /\ SameTimers(DeadlineTimer(k))
  PROVE  DecisionInv'
<1> SUFFICES ASSUME NEW k \in Checkpoints PROVE (Asked(k) /\ Timed(k))'
  BY DEF DecisionInv
<1>1. Asked(k) /\ Timed(k)
  BY DEF DecisionInv
<1>2. DecisionFrame(k)
  BY <1>1 DEF DecisionFrame, Asked
<1> QED BY <1>1, <1>2, DecisionKept

LEMMA NumbersKept ==
  ASSUME Numbered, \A k \in Checkpoints : Taken(k)' <=> Taken(k)
  PROVE  Numbered'
<1>1. PICK n \in 0..MaxCheckpoint : \A k \in Checkpoints : Taken(k) <=> k <= n
  BY DEF Numbered
<1>2. \A k \in Checkpoints : Taken(k)' <=> k <= n
  BY <1>1
<1> QED BY <1>2 DEF Numbered

\* The follow-up of a visit being booked is armed with its duty, or the run ends.
LEMMA BookedVisit ==
  ASSUME IInv, NEW b \in Cycles, Exists(b), now' = now,
         UNCHANGED <<approvals, exceptions, quotes>>,
         \A c \in Cycles : Exists(c) => Exists(c)',
         Arm(<<Timing(VisitTimer(b), FollowupAfter)>>, {VisitDuty(b)})
  PROVE  /\ QueueInv' /\ DecisionInv' /\ VisitInv' /\ Numbered'
         /\ obligations' \in [Duties -> DutyStates]
<1>0. QueueInv /\ VisitInv /\ DecisionInv /\ Numbered /\ obligations \in [Duties -> DutyStates]
  BY DEF IInv, RecordInv
<1>1. VisitTimer(b) \in TimerIds /\ FollowupAfter \in Nat
  BY TimersDistinct, PolicyType
<1>2. /\ QueueInv'
      /\ \A other : other # VisitTimer(b) => SameTimers(other)
      /\ \/ failed' = TRUE /\ UNCHANGED <<queue, obligations>>
         \/ /\ failed' = FALSE /\ VisitTimer(b) \notin queue.seen
            /\ obligations' = Opened({VisitDuty(b)})
            /\ queue'.seen = queue.seen \cup {VisitTimer(b)}
            /\ PendingIds(queue)' = PendingIds(queue) \cup {VisitTimer(b)}
  BY <1>0, <1>1, ArmOne
<1>3. /\ obligations' \in [Duties -> DutyStates]
      /\ \A d \in Duties : d # VisitDuty(b) => obligations'[d] = obligations[d]
  <2>1. /\ Opened({VisitDuty(b)}) \in [Duties -> DutyStates]
        /\ \A d \in Duties : d # VisitDuty(b) => Opened({VisitDuty(b)})[d] = obligations[d]
    BY <1>0, OpenedDuties
  <2> QED BY <1>0, <1>2, <2>1
<1>4. DecisionInv'
  <2>1. \A k \in Checkpoints :
           /\ obligations'[DecisionDuty(k)] = obligations[DecisionDuty(k)]
           /\ obligations'[ReminderDuty(k)] = obligations[ReminderDuty(k)]
    BY <1>3, DutiesDistinct
  <2>2. \A k \in Checkpoints : SameTimers(ReminderTimer(k)) /\ SameTimers(DeadlineTimer(k))
    BY <1>2, TimersDistinct
  <2> QED BY <1>0, <2>1, <2>2, DecisionsKept
<1>5. ASSUME NEW c \in Cycles, c # b PROVE FollowedUp(c)'
  <2>1. VisitTimer(c) # VisitTimer(b) /\ VisitDuty(c) # VisitDuty(b) /\ VisitDuty(c) \in Duties
    BY <1>5, TimersDistinct, DutiesDistinct
  <2>2. VisitFrame(c)
    BY <1>2, <1>3, <2>1 DEF VisitFrame
  <2> QED BY <1>0, <2>2, VisitKept DEF VisitInv
<1>6. FollowedUp(b)'
  <2>1. FollowedUp(b) /\ Exists(b)' /\ VisitDuty(b) \in Duties
    BY <1>0, DutiesDistinct DEF VisitInv
  <2>2. CASE failed' = TRUE /\ UNCHANGED <<queue, obligations>>
    BY <2>1, <2>2 DEF FollowedUp, PendingIds
  <2>3. CASE /\ failed' = FALSE /\ VisitTimer(b) \notin queue.seen
             /\ obligations' = Opened({VisitDuty(b)})
             /\ queue'.seen = queue.seen \cup {VisitTimer(b)}
             /\ PendingIds(queue)' = PendingIds(queue) \cup {VisitTimer(b)}
    <3>1. obligations[VisitDuty(b)] = "ABSENT"
      BY <2>1, <2>3 DEF FollowedUp
    <3>2. obligations'[VisitDuty(b)] = "OPEN"
      BY <1>0, <2>1, <2>3, <3>1, OpenedDuties
    <3> QED BY <2>1, <2>3, <3>2 DEF FollowedUp
  <2> QED BY <1>2, <2>2, <2>3
<1>7. VisitInv'
  BY <1>5, <1>6 DEF VisitInv
<1>8. Numbered'
  BY <1>0, NumbersKept DEF Taken
<1> QED BY <1>2, <1>3, <1>4, <1>7, <1>8

LEMMA RequestVisitStep ==
  ASSUME IInv, NEW c \in Cycles, RequestVisit(c)
  PROVE  IInv'
<1> USE DEF worldVars, workVars, humanVars, moneyVars, dutyVars, endVars
<1> DEFINE x == [cycles[c] EXCEPT !.visit = "REQUESTED"]
<1>1. /\ now' = now /\ approvals' = approvals /\ exceptions' = exceptions /\ quotes' = quotes
      /\ closing' = closing /\ current' = current /\ reported' = reported
      /\ phase' = "WAITING_VISIT" /\ Running /\ Exists(c) /\ cycles[c].kind # "APPROVED_WORK"
      /\ cycles[c].visit = "NONE" /\ cycles' = [cycles EXCEPT ![c] = x]
      /\ Arm(<<Timing(VisitTimer(c), FollowupAfter)>>, {VisitDuty(c)})
  BY DEF RequestVisit, MoveVisit, NeedsAuthorisation
<1>2. /\ cycles[c] \in CycleRecords /\ x \in CycleRecords /\ x.kind = cycles[c].kind
      /\ cycles \in [Cycles -> CycleRecords]
  BY DEF IInv, RecordInv, CycleRecords, Visits
<1> HIDE DEF x
<1>3. /\ cycles' \in [Cycles -> CycleRecords]
      /\ \A b \in Cycles : cycles'[b].kind = cycles[b].kind
      /\ \A b \in Cycles : b # c => cycles'[b] = cycles[b]
  BY <1>1, <1>2
<1>4. \A b \in Cycles : Exists(b) => Exists(b)'
  BY <1>3 DEF Exists
<1>5. /\ QueueInv' /\ DecisionInv' /\ VisitInv' /\ Numbered'
      /\ obligations' \in [Duties -> DutyStates]
  BY <1>1, <1>4, BookedVisit
<1>6. \A b \in Cycles : cycles'[b].kind = "ABSENT" => cycles'[b].visit = "NONE"
  BY <1>1, <1>3 DEF IInv, RecordInv, Exists
<1>7. RecordInv'
  BY <1>1, <1>3, <1>4, <1>5, <1>6, QuoteType DEF IInv, RecordInv, CycleRecords
<1>8. PaidWorkIsApproved'
  BY <1>1, <1>3, PaidWorkKept DEF IInv
<1>9. WindowInv'
  <2>1. reported
    BY <1>1 DEF IInv, WindowInv, Exists, Absent
  <2>2. WindowFrame
    BY <1>1, <2>1 DEF WindowFrame
  <2> QED BY <1>1, <2>2, WindowKept DEF IInv, Running
<1> QED BY <1>5, <1>7, <1>8, <1>9 DEF IInv

LEMMA AuthoriseStep ==
  ASSUME IInv, NEW k \in Checkpoints, AuthoriseSupplierWork(k)
  PROVE  IInv'
<1> USE DEF worldVars, workVars, humanVars, moneyVars, dutyVars, endVars
<1> DEFINE q == approvals[k].quote
           c == QuoteOf[q].cycle
           x == [cycles[c] EXCEPT !.visit = "SCHEDULED"]
<1>1. /\ now' = now /\ approvals' = approvals /\ exceptions' = exceptions /\ quotes' = quotes
      /\ closing' = closing /\ current' = c /\ reported' = reported
      /\ phase' = "WAITING_VISIT" /\ Running /\ approvals[k].status = "APPROVED"
      /\ quotes[q].status = "APPROVED"
      /\ cycles[c].visit = "NONE" /\ cycles' = [cycles EXCEPT ![c] = x]
      /\ Arm(<<Timing(VisitTimer(c), FollowupAfter)>>, {VisitDuty(c)})
  BY DEF AuthoriseSupplierWork, MoveVisit
<1>2. q \in Quotes /\ QuoteOf[q].amount > Threshold
  BY <1>1 DEF IInv, DecisionInv, Asked
<1>3. c \in Cycles /\ Exists(c)
  BY <1>1, <1>2, QuoteType DEF IInv, RecordInv
<1>4. /\ cycles[c] \in CycleRecords /\ x \in CycleRecords /\ x.kind = cycles[c].kind
      /\ cycles \in [Cycles -> CycleRecords]
  BY <1>3 DEF IInv, RecordInv, CycleRecords, Visits
<1> HIDE DEF x, c
<1>5. /\ cycles' \in [Cycles -> CycleRecords]
      /\ \A b \in Cycles : cycles'[b].kind = cycles[b].kind
      /\ \A b \in Cycles : b # c => cycles'[b] = cycles[b]
  BY <1>1, <1>3, <1>4
<1>6. \A b \in Cycles : Exists(b) => Exists(b)'
  BY <1>5 DEF Exists
<1>7. /\ QueueInv' /\ DecisionInv' /\ VisitInv' /\ Numbered'
      /\ obligations' \in [Duties -> DutyStates]
  BY <1>1, <1>3, <1>6, BookedVisit
<1>8. \A b \in Cycles : cycles'[b].kind = "ABSENT" => cycles'[b].visit = "NONE"
  BY <1>3, <1>5 DEF IInv, RecordInv, Exists
<1>9. RecordInv'
  BY <1>1, <1>3, <1>5, <1>6, <1>7, <1>8, QuoteType DEF IInv, RecordInv, CycleRecords
<1>10. PaidWorkIsApproved'
  <2> SUFFICES ASSUME NEW b \in Cycles, cycles'[b].kind = "APPROVED_WORK", cycles'[b].visit # "NONE"
               PROVE  \E j \in Checkpoints :
                        /\ approvals[j].status = "APPROVED"
                        /\ QuoteOf[approvals[j].quote].cycle = b
                        /\ QuoteOf[approvals[j].quote].amount > Threshold
    BY <1>1 DEF PaidWorkIsApproved, RequiresPayment
  <2>1. CASE b = c
    BY <1>1, <1>2, <2>1 DEF c
  <2>2. CASE b # c
    BY <1>5, <2>2 DEF IInv, PaidWorkIsApproved, RequiresPayment
  <2> QED BY <2>1, <2>2
<1>11. WindowInv'
  <2>1. reported
    BY <1>3 DEF IInv, WindowInv, Exists, Absent
  <2>2. WindowFrame
    BY <1>1, <2>1 DEF WindowFrame
  <2> QED BY <1>1, <2>2, WindowKept DEF IInv, Running
<1> QED BY <1>7, <1>9, <1>10, <1>11 DEF IInv

\* The follow-up of a visit goes with its duty.
LEMMA VisitSettled ==
  ASSUME IInv, NEW b \in Cycles, NEW status \in {"DISCHARGED", "BREACHED"},
         UNCHANGED <<approvals, exceptions, quotes>>,
         \A c \in Cycles : Exists(c) => Exists(c)',
         obligations' = Closed(obligations, {VisitDuty(b)}, status),
         queue'.seen = queue.seen, VisitTimer(b) \notin PendingIds(queue)',
         \A id : id # VisitTimer(b) => SameTimers(id)
  PROVE  /\ DecisionInv' /\ VisitInv' /\ Numbered'
         /\ obligations' \in [Duties -> DutyStates]
<1>0. VisitInv /\ DecisionInv /\ Numbered /\ obligations \in [Duties -> DutyStates]
      /\ status \in DutyStates
  BY DEF IInv, RecordInv, DutyStates
<1>1. /\ obligations' \in [Duties -> DutyStates]
      /\ \A d \in Duties : d # VisitDuty(b) => obligations'[d] = obligations[d]
      /\ VisitDuty(b) \in Duties =>
           obligations'[VisitDuty(b)] = IF obligations[VisitDuty(b)] = "OPEN" THEN status
                                        ELSE obligations[VisitDuty(b)]
  BY <1>0, ClosedDuties
<1>2. DecisionInv'
  <2>1. \A k \in Checkpoints :
           /\ obligations'[DecisionDuty(k)] = obligations[DecisionDuty(k)]
           /\ obligations'[ReminderDuty(k)] = obligations[ReminderDuty(k)]
    BY <1>1, DutiesDistinct
  <2>2. \A k \in Checkpoints : SameTimers(ReminderTimer(k)) /\ SameTimers(DeadlineTimer(k))
    BY TimersDistinct
  <2> QED BY <1>0, <2>1, <2>2, DecisionsKept
<1>3. ASSUME NEW c \in Cycles, c # b PROVE FollowedUp(c)'
  <2>1. VisitTimer(c) # VisitTimer(b) /\ VisitDuty(c) # VisitDuty(b) /\ VisitDuty(c) \in Duties
    BY <1>3, TimersDistinct, DutiesDistinct
  <2>2. VisitFrame(c)
    BY <1>1, <2>1 DEF VisitFrame
  <2> QED BY <1>0, <2>2, VisitKept DEF VisitInv
<1>4. FollowedUp(b)'
  <2>1. FollowedUp(b) /\ VisitDuty(b) \in Duties /\ (Exists(b) => Exists(b)')
    BY <1>0, DutiesDistinct DEF VisitInv
  <2>2. obligations'[VisitDuty(b)] # "OPEN"
        /\ (obligations'[VisitDuty(b)] = "ABSENT" <=> obligations[VisitDuty(b)] = "ABSENT")
    BY <1>1, <2>1
  <2> QED BY <2>1, <2>2 DEF FollowedUp
<1>5. VisitInv'
  BY <1>3, <1>4 DEF VisitInv
<1>6. Numbered'
  BY <1>0, NumbersKept DEF Taken
<1> QED BY <1>1, <1>2, <1>5, <1>6

LEMMA AttendanceStep ==
  ASSUME IInv, NEW c \in Cycles, AttendanceVerified(c)
  PROVE  IInv'
<1> USE DEF worldVars, workVars, humanVars, moneyVars, dutyVars, endVars
<1> DEFINE x == [cycles[c] EXCEPT !.visit = "ATTENDED"]
<1>1. /\ now' = now /\ timerCount' = timerCount /\ failed' = failed
      /\ approvals' = approvals /\ exceptions' = exceptions /\ quotes' = quotes
      /\ closing' = closing /\ current' = current /\ reported' = reported
      /\ phase' = phase /\ resolution' = resolution /\ Running
      /\ cycles[c].visit = "SCHEDULED" /\ cycles' = [cycles EXCEPT ![c] = x]
      /\ queue' = Cancel(queue, {VisitTimer(c)})
      /\ obligations' = Closed(obligations, {VisitDuty(c)}, "DISCHARGED")
  BY DEF AttendanceVerified, MoveVisit, Disarm
<1>2. /\ cycles[c] \in CycleRecords /\ x \in CycleRecords /\ x.kind = cycles[c].kind
      /\ x.visit = "ATTENDED" /\ cycles[c].visit \in Visits \ {"NONE", "WORK_VERIFIED"}
  BY <1>1 DEF IInv, RecordInv, CycleRecords, Visits
<1> HIDE DEF x
<1>3. /\ cycles' \in [Cycles -> CycleRecords]
      /\ \A b \in Cycles : cycles'[b].kind = cycles[b].kind
      /\ \A b \in Cycles : Exists(b) => Exists(b)'
      /\ \A b \in Cycles : Verified(b) => Verified(b)'
      /\ \A b \in Cycles : cycles'[b].kind = "ABSENT" => cycles'[b].visit = "NONE"
      /\ \A b \in Cycles : cycles'[b].visit # "NONE" => cycles[b].visit # "NONE"
      /\ Exists(c)
  BY <1>1, <1>2, VisitMoves DEF IInv
<1>4. /\ QueueInv' /\ queue'.seen = queue.seen
      /\ queue'.pending = {e \in queue.pending : e.id \notin {VisitTimer(c)}}
      /\ \A id : id \notin {VisitTimer(c)} => SameTimers(id)
  BY <1>1, DisarmKeeps DEF IInv
<1>5. VisitTimer(c) \notin PendingIds(queue)'
  BY <1>4 DEF PendingIds
<1>6. DecisionInv' /\ VisitInv' /\ Numbered' /\ obligations' \in [Duties -> DutyStates]
  BY <1>1, <1>3, <1>4, <1>5, VisitSettled
<1>7. RecordInv'
  BY <1>1, <1>3, <1>6, QuoteType DEF IInv, RecordInv, CycleRecords
<1>8. PaidWorkIsApproved'
  BY <1>1, <1>3, PaidWorkKept DEF IInv
<1>9. WindowInv'
  <2>1. reported /\ (phase = "PROVISIONALLY_CLOSED" => resolution # "PERSISTS")
    BY <1>1, <1>3 DEF IInv, WindowInv, Exists, Absent, WindowHasItsTimer, Running
  <2>2. \A b : SameTimers(CloseTimer(b))
    BY <1>4, TimersDistinct
  <2>3. WindowFrame
    BY <1>1, <1>3, <2>1, <2>2 DEF WindowFrame
  <2> QED BY <1>1, <2>3, WindowKept DEF IInv, Running
<1> QED BY <1>4, <1>6, <1>7, <1>8, <1>9 DEF IInv

LEMMA FollowupStep ==
  ASSUME IInv, NEW e \in queue.pending, VisitFollowupDue(e)
  PROVE  IInv'
<1> USE DEF worldVars, workVars, humanVars, moneyVars, dutyVars, endVars
<1>1. PICK c \in Cycles :
        /\ e.id = VisitTimer(c)
        /\ obligations' = IF Exists(c) THEN Closed(obligations, {VisitDuty(c)}, "BREACHED")
                                       ELSE obligations
  BY DEF VisitFollowupDue
<1>2. /\ now' = now /\ timerCount' = timerCount /\ failed' = failed
      /\ approvals' = approvals /\ exceptions' = exceptions /\ quotes' = quotes
      /\ closing' = closing /\ current' = current /\ reported' = reported
      /\ phase' = phase /\ resolution' = resolution /\ Running /\ cycles' = cycles
      /\ queue' = Pop(queue, e)
  BY DEF VisitFollowupDue
<1>3. /\ QueueInv' /\ queue'.seen = queue.seen
      /\ \A id : id # e.id => SameTimers(id)
      /\ e.id \notin PendingIds(queue)'
  BY <1>2, PopKeeps DEF IInv
<1>4. Exists(c)
  <2>1. VisitTimer(c) \in PendingIds(queue)
    BY <1>1 DEF PendingIds
  <2> QED BY <2>1 DEF IInv, VisitInv, FollowedUp
<1>5. \A b \in Cycles : Exists(b) => Exists(b)'
  BY <1>2 DEF Exists
<1>6. DecisionInv' /\ VisitInv' /\ Numbered' /\ obligations' \in [Duties -> DutyStates]
  BY <1>1, <1>2, <1>3, <1>4, <1>5, VisitSettled
<1>7. RecordInv'
  BY <1>2, <1>6 DEF IInv, RecordInv, Exists
<1>8. PaidWorkIsApproved'
  BY <1>2 DEF IInv, PaidWorkIsApproved, RequiresPayment
<1>9. WindowInv'
  <2>1. phase = "PROVISIONALLY_CLOSED" => resolution # "PERSISTS"
    BY <1>2 DEF IInv, WindowInv, WindowHasItsTimer, Running
  <2>2. \A b : SameTimers(CloseTimer(b))
    BY <1>1, <1>3, TimersDistinct
  <2>3. WindowFrame
    BY <1>2, <2>1, <2>2 DEF WindowFrame, Verified
  <2> QED BY <1>2, <2>3, WindowKept DEF IInv, Running
<1> QED BY <1>3, <1>6, <1>7, <1>8, <1>9 DEF IInv

-----------------------------------------------------------------------------
(* The life of one checkpoint.                                              *)

\* Of all checkpoints a step touches only one.
OnlyCheckpoint(k) ==
  /\ UNCHANGED exceptions
  /\ \A j \in Checkpoints \ {k} :
       /\ approvals'[j] = approvals[j] /\ approvals[j].quote # approvals'[k].quote
       /\ obligations'[DecisionDuty(j)] = obligations[DecisionDuty(j)]
       /\ obligations'[ReminderDuty(j)] = obligations[ReminderDuty(j)]
       /\ SameTimers(ReminderTimer(j)) /\ SameTimers(DeadlineTimer(j))
  /\ \A q \in Quotes \ {approvals'[k].quote} : quotes'[q].status = quotes[q].status

LEMMA OthersKept ==
  ASSUME DecisionInv, NEW k \in Checkpoints, OnlyCheckpoint(k), Asked(k)', Timed(k)'
  PROVE  DecisionInv'
<1> SUFFICES ASSUME NEW j \in Checkpoints, j # k PROVE (Asked(j) /\ Timed(j))'
  BY DEF DecisionInv
<1>1. Asked(j) /\ Timed(j)
  BY DEF DecisionInv
<1>2. \A i \in Checkpoints \ {k} : approvals'[i] = approvals[i]
  BY DEF OnlyCheckpoint
<1>3. approvals[j].status # "ABSENT" =>
        /\ approvals[j].quote \in Quotes \ {approvals'[k].quote}
        /\ \A i \in Checkpoints : approvals'[i].quote = approvals[j].quote => i = j
  BY <1>1, <1>2 DEF Asked, OnlyCheckpoint
<1>4. DecisionFrame(j)
  BY <1>3 DEF DecisionFrame, OnlyCheckpoint
<1> QED BY <1>1, <1>4, DecisionKept

LEMMA RequestApprovalStep ==
  ASSUME IInv, NEW q \in Quotes, RequestApproval(q)
  PROVE  /\ IInv'
         /\ \E k \in Checkpoints :
              /\ approvals[k].status = "ABSENT" /\ approvals[k].fired = FALSE
              /\ approvals' = [approvals EXCEPT ![k] =
                   [status |-> "OPEN", quote |-> q, deadline |-> now + DeadlineAfter, fired |-> FALSE]]
<1> USE DEF worldVars, workVars, humanVars, moneyVars, dutyVars, endVars
<1>0. PICK k \in Checkpoints : k = NextCheckpoint
  BY DEF RequestApproval
<1> DEFINE a == [status |-> "OPEN", quote |-> q, deadline |-> now + DeadlineAfter, fired |-> FALSE]
           ds == {ReminderDuty(k), DecisionDuty(k)}
<1>1. /\ now' = now /\ exceptions' = exceptions /\ quotes' = quotes
      /\ closing' = closing /\ current' = current /\ reported' = reported /\ cycles' = cycles
      /\ phase' = "WAITING_APPROVAL" /\ Running /\ k \in Checkpoints
      /\ quotes[q].status = "RECEIVED" /\ QuoteOf[q].amount > Threshold /\ Unasked(q)
      /\ approvals' = [approvals EXCEPT ![k] = a]
      /\ Arm(CheckpointTimers(k), ds)
  BY <1>0 DEF RequestApproval
<1>2. ~Taken(k) /\ \A j \in Checkpoints : Taken(j) <=> j < k
  BY <1>0, <1>1, NextIsFresh DEF IInv
<1>3. /\ approvals[k].status = "ABSENT" /\ exceptions[k] = "ABSENT" /\ approvals[k].fired = FALSE
      /\ ReminderTimer(k) \notin queue.seen /\ DeadlineTimer(k) \notin queue.seen
      /\ obligations[ReminderDuty(k)] = "ABSENT" /\ obligations[DecisionDuty(k)] = "ABSENT"
  BY <1>1, <1>2 DEF Taken, IInv, DecisionInv, Asked
<1>4. a \in [status : {"ABSENT", "OPEN"} \cup Answers, quote : Quotes \cup {"none"}, deadline : Nat,
             fired : BOOLEAN]
  BY PolicyType DEF IInv, QueueInv
<1>5. a.status = "OPEN" /\ a.quote = q /\ a.deadline = now + DeadlineAfter /\ a.fired = FALSE
  OBVIOUS
<1>6. /\ QueueInv' /\ failed' = FALSE /\ obligations' = Opened(ds)
      /\ \A id : id \notin {ReminderTimer(k), DeadlineTimer(k)} => SameTimers(id)
      /\ {ReminderTimer(k), DeadlineTimer(k)} \subseteq PendingIds(queue)'
      /\ \A e \in queue'.pending : e.id = ReminderTimer(k) => e.at = now + ReminderAfter
      /\ \A e \in queue'.pending : e.id = DeadlineTimer(k) => e.at = now + DeadlineAfter
      /\ \A e, f \in queue'.pending :
           e.id = ReminderTimer(k) /\ f.id = DeadlineTimer(k) => e.seq < f.seq
  BY <1>1, <1>3, ArmCheckpoint DEF IInv
<1> HIDE DEF a, ds
<1>7. /\ approvals' \in [Checkpoints -> [status : {"ABSENT", "OPEN"} \cup Answers,
                                    quote : Quotes \cup {"none"}, deadline : Nat, fired : BOOLEAN]]
      /\ approvals'[k] = a
      /\ \A j \in Checkpoints \ {k} : approvals'[j] = approvals[j]
  BY <1>1, <1>4 DEF IInv, RecordInv
<1>8. /\ obligations' \in [Duties -> DutyStates]
      /\ \A d \in Duties : d \notin ds => obligations'[d] = obligations[d]
      /\ obligations'[ReminderDuty(k)] = "OPEN" /\ obligations'[DecisionDuty(k)] = "OPEN"
  <2>1. ReminderDuty(k) \in Duties /\ DecisionDuty(k) \in Duties
    BY <1>1, DutiesDistinct
  <2>2. obligations \in [Duties -> DutyStates]
    BY DEF IInv, RecordInv
  <2> QED BY <1>3, <1>6, <2>1, <2>2, OpenedDuties DEF ds
<1>9. Timed(k)'
  <2>1. \A e \in queue'.pending : e.id = ReminderTimer(k) =>
          e.at = approvals'[k].deadline - DeadlineAfter + ReminderAfter
    <3>1. approvals'[k].deadline - DeadlineAfter + ReminderAfter = now + ReminderAfter
      BY <1>5, <1>7, PolicyType DEF IInv, QueueInv
    <3> QED BY <1>6, <3>1
  <2> QED BY <1>5, <1>6, <1>7, <2>1 DEF Timed
<1>10. Asked(k)'
  <2>1. \A j \in Checkpoints : approvals[j].quote # q
    BY <1>1 DEF Unasked
  <2>2. approvals[k].quote = "none"
    BY <1>3 DEF IInv, DecisionInv, Asked
  <2>3. \A j \in Checkpoints : approvals'[j].quote = q => j = k
    BY <1>7, <2>1
  <2>4. q \in Quotes \ {"none"}
    BY <2>1, <2>2
  <2> QED BY <1>1, <1>3, <1>5, <1>7, <1>8, <2>3, <2>4 DEF Asked
<1>11. OnlyCheckpoint(k)
  <2>1. ASSUME NEW j \in Checkpoints \ {k}
        PROVE  /\ ReminderTimer(j) \notin {ReminderTimer(k), DeadlineTimer(k)}
               /\ DeadlineTimer(j) \notin {ReminderTimer(k), DeadlineTimer(k)}
               /\ ReminderDuty(j) \in Duties \ ds /\ DecisionDuty(j) \in Duties \ ds
    BY TimersDistinct, DutiesDistinct DEF ds
  <2>2. \A j \in Checkpoints : approvals[j].quote # q
    BY <1>1 DEF Unasked
  <2> QED BY <1>1, <1>5, <1>6, <1>7, <1>8, <2>1, <2>2 DEF OnlyCheckpoint
<1>12. DecisionInv'
  BY <1>1, <1>9, <1>10, <1>11, OthersKept DEF IInv
<1>13. VisitInv'
  <2> SUFFICES ASSUME NEW c \in Cycles PROVE FollowedUp(c)'
    BY DEF VisitInv
  <2>1. /\ VisitDuty(c) \in Duties \ ds
        /\ VisitTimer(c) \notin {ReminderTimer(k), DeadlineTimer(k)}
    BY TimersDistinct, DutiesDistinct DEF ds
  <2>2. VisitFrame(c)
    BY <1>1, <1>6, <1>8, <2>1 DEF VisitFrame, Exists
  <2> QED BY <2>2, VisitKept DEF IInv, VisitInv
<1>14. Numbered'
  <2>1. \A j \in Checkpoints : Taken(j)' <=> j <= k
    BY <1>1, <1>2, <1>5, <1>7, PolicyType DEF Taken, Checkpoints
  <2>2. k \in 0..MaxCheckpoint
    BY <1>1, PolicyType DEF Checkpoints
  <2> QED BY <2>1, <2>2 DEF Numbered
<1>15. RecordInv'
  BY <1>1, <1>7, <1>8 DEF IInv, RecordInv, Exists
<1>16. PaidWorkIsApproved'
  BY <1>1, <1>3, <1>7, PaidWorkKept DEF IInv
<1>17. WindowInv'
  <2>1. WindowFrame
    BY <1>1 DEF WindowFrame
  <2> QED BY <1>1, <2>1, WindowKept DEF IInv, Running
<1>18. IInv'
  BY <1>6, <1>12, <1>13, <1>14, <1>15, <1>16, <1>17 DEF IInv
<1> QED BY <1>1, <1>3, <1>18 DEF a

LEMMA ReminderStep ==
  ASSUME IInv, NEW e \in queue.pending, ReminderDue(e)
  PROVE  /\ IInv'
         /\ \E k \in Checkpoints :
              /\ e.id = ReminderTimer(k) /\ approvals[k].status = "OPEN" /\ ~approvals[k].fired
              /\ approvals' = [approvals EXCEPT ![k].fired = TRUE]
<1> USE DEF worldVars, workVars, humanVars, moneyVars, dutyVars, endVars
<1>1. PICK k \in Checkpoints :
        /\ e.id = ReminderTimer(k)
        /\ approvals' = IF k \in OpenApprovals THEN [approvals EXCEPT ![k].fired = TRUE]
                                               ELSE approvals
  BY DEF ReminderDue
<1>2. /\ now' = now /\ timerCount' = timerCount /\ failed' = failed
      /\ exceptions' = exceptions /\ quotes' = quotes /\ obligations' = obligations
      /\ closing' = closing /\ current' = current /\ reported' = reported
      /\ phase' = phase /\ resolution' = resolution /\ Running /\ cycles' = cycles
      /\ queue' = Pop(queue, e)
  BY DEF ReminderDue
<1>3. Asked(k) /\ Timed(k)
  BY DEF IInv, DecisionInv
<1>4. approvals[k].status = "OPEN" /\ ~approvals[k].fired
  BY <1>1, <1>3 DEF Timed
<1>5. approvals' = [approvals EXCEPT ![k].fired = TRUE]
  BY <1>1, <1>4 DEF OpenApprovals
<1>6. /\ QueueInv' /\ queue'.seen = queue.seen
      /\ \A id : id # ReminderTimer(k) => SameTimers(id)
      /\ ReminderTimer(k) \notin PendingIds(queue)'
  BY <1>1, <1>2, PopKeeps DEF IInv
<1>7. /\ approvals' \in [Checkpoints -> [status : {"ABSENT", "OPEN"} \cup Answers,
                                    quote : Quotes \cup {"none"}, deadline : Nat, fired : BOOLEAN]]
      /\ approvals'[k].status = "OPEN" /\ approvals'[k].fired = TRUE
      /\ approvals'[k].quote = approvals[k].quote /\ approvals'[k].deadline = approvals[k].deadline
      /\ \A j \in Checkpoints \ {k} : approvals'[j] = approvals[j]
  BY <1>4, <1>5 DEF IInv, RecordInv
<1>8. SameTimers(DeadlineTimer(k))
  BY <1>6, TimersDistinct
<1>9. Timed(k)'
  <2>1. DeadlineTimer(k) \in PendingIds(queue)'
    BY <1>3, <1>4, <1>8, SamePending DEF Timed
  <2>2. \A f \in queue'.pending : f.id # ReminderTimer(k)
    BY <1>6 DEF PendingIds
  <2>3. \A f \in queue'.pending : f.id = DeadlineTimer(k) => f.at = approvals[k].deadline
    BY <1>3, <1>8 DEF Timed, SameTimers
  <2> QED BY <1>7, <2>1, <2>2, <2>3 DEF Timed
<1>10. Asked(k)'
  BY <1>2, <1>3, <1>4, <1>7 DEF Asked
<1>11. OnlyCheckpoint(k)
  <2>1. \A j \in Checkpoints \ {k} : approvals[j].quote # approvals'[k].quote
    BY <1>3, <1>4, <1>7 DEF Asked
  <2>2. \A j \in Checkpoints \ {k} : SameTimers(ReminderTimer(j)) /\ SameTimers(DeadlineTimer(j))
    BY <1>6, TimersDistinct
  <2> QED BY <1>2, <1>7, <2>1, <2>2 DEF OnlyCheckpoint
<1>12. DecisionInv'
  BY <1>9, <1>10, <1>11, OthersKept DEF IInv
<1>13. VisitInv'
  <2> SUFFICES ASSUME NEW c \in Cycles PROVE FollowedUp(c)'
    BY DEF VisitInv
  <2>1. SameTimers(VisitTimer(c))
    BY <1>6, TimersDistinct
  <2>2. VisitFrame(c)
    BY <1>2, <2>1 DEF VisitFrame, Exists
  <2> QED BY <2>2, VisitKept DEF IInv, VisitInv
<1>14. Numbered'
  <2>1. \A j \in Checkpoints : Taken(j)' <=> Taken(j)
    BY <1>2, <1>4, <1>7 DEF Taken
  <2> QED BY <2>1, NumbersKept DEF IInv
<1>15. RecordInv'
  BY <1>2, <1>7 DEF IInv, RecordInv, Exists
<1>16. PaidWorkIsApproved'
  BY <1>2, <1>4, <1>7, PaidWorkKept DEF IInv
<1>17. WindowInv'
  <2>1. phase # "PROVISIONALLY_CLOSED"
    BY <1>2, <1>4 DEF IInv, WindowInv, WindowHasItsTimer, Running, NoBlockingCheckpoint, OpenApprovals
  <2>2. WindowFrame
    BY <1>2, <2>1 DEF WindowFrame
  <2> QED BY <1>2, <2>2, WindowKept DEF IInv, Running
<1>18. IInv'
  BY <1>6, <1>12, <1>13, <1>14, <1>15, <1>16, <1>17 DEF IInv
<1> QED BY <1>1, <1>4, <1>5, <1>18

\* A checkpoint is answered, by the approver or by its deadline.
LEMMA CheckpointCloses ==
  ASSUME IInv, Running, NEW k \in Checkpoints, NEW answer \in Answers,
         approvals[k].status = "OPEN",
         approvals' = [approvals EXCEPT ![k].status = answer],
         quotes' = [quotes EXCEPT ![approvals[k].quote].status = answer],
         UNCHANGED <<now, failed, exceptions, current, cycles, reported, closing>>,
         phase' \in {phase, "ACTIVE"},
         QueueInv', queue'.seen = queue.seen,
         ReminderTimer(k) \notin PendingIds(queue)', DeadlineTimer(k) \notin PendingIds(queue)',
         \A id : id \notin {ReminderTimer(k), DeadlineTimer(k)} => SameTimers(id),
         obligations' \in [Duties -> DutyStates],
         obligations'[ReminderDuty(k)] # "OPEN", obligations'[DecisionDuty(k)] # "OPEN",
         \A d \in Duties : d \notin {ReminderDuty(k), DecisionDuty(k)} => obligations'[d] = obligations[d]
  PROVE  IInv'
<1> DEFINE q == approvals[k].quote
<1>1. Asked(k) /\ Timed(k)
  BY DEF IInv, DecisionInv
<1>2. q \in Quotes /\ exceptions[k] = "ABSENT"
  BY <1>1 DEF Asked
<1>3. /\ approvals' \in [Checkpoints -> [status : {"ABSENT", "OPEN"} \cup Answers,
                                    quote : Quotes \cup {"none"}, deadline : Nat, fired : BOOLEAN]]
      /\ approvals'[k].status = answer /\ approvals'[k].quote = approvals[k].quote
      /\ \A j \in Checkpoints \ {k} : approvals'[j] = approvals[j]
  BY DEF IInv, RecordInv
<1>4. /\ quotes' \in [Quotes -> [status : {"ABSENT", "RECEIVED"} \cup Answers, until : Nat]]
      /\ quotes'[approvals[k].quote].status = answer
      /\ \A p \in Quotes \ {approvals[k].quote} : quotes'[p] = quotes[p]
  BY <1>2 DEF IInv, RecordInv
<1>5. answer \notin {"ABSENT", "OPEN"} /\ quotes[approvals[k].quote].status # "ABSENT"
  BY <1>1 DEF Answers, Asked
<1>6. Timed(k)'
  <2>1. \A f \in queue'.pending : f.id # ReminderTimer(k) /\ f.id # DeadlineTimer(k)
    BY DEF PendingIds
  <2> QED BY <1>3, <1>5, <2>1 DEF Timed
<1>7. Asked(k)'
  <2>1. \A j \in Checkpoints : approvals'[j].quote = approvals'[k].quote => j = k
    BY <1>1, <1>3 DEF Asked
  <2> QED BY <1>1, <1>3, <1>4, <1>5, <2>1 DEF Asked
<1>8. OnlyCheckpoint(k)
  <2>1. \A j \in Checkpoints \ {k} : approvals[j].quote # approvals'[k].quote
    BY <1>1, <1>3 DEF Asked
  <2>2. \A j \in Checkpoints \ {k} : SameTimers(ReminderTimer(j)) /\ SameTimers(DeadlineTimer(j))
    BY TimersDistinct
  <2>3. \A j \in Checkpoints \ {k} :
          /\ ReminderDuty(j) \in Duties \ {ReminderDuty(k), DecisionDuty(k)}
          /\ DecisionDuty(j) \in Duties \ {ReminderDuty(k), DecisionDuty(k)}
    BY DutiesDistinct
  <2> QED BY <1>3, <1>4, <2>1, <2>2, <2>3 DEF OnlyCheckpoint
<1>9. DecisionInv'
  BY <1>6, <1>7, <1>8, OthersKept DEF IInv
<1>10. VisitInv'
  <2> SUFFICES ASSUME NEW c \in Cycles PROVE FollowedUp(c)'
    BY DEF VisitInv
  <2>1. SameTimers(VisitTimer(c)) /\ VisitDuty(c) \in Duties \ {ReminderDuty(k), DecisionDuty(k)}
    BY TimersDistinct, DutiesDistinct
  <2>2. VisitFrame(c)
    BY <2>1 DEF VisitFrame, Exists
  <2> QED BY <2>2, VisitKept DEF IInv, VisitInv
<1>11. Numbered'
  <2>1. \A j \in Checkpoints : Taken(j)' <=> Taken(j)
    BY <1>3, <1>5 DEF Taken
  <2> QED BY <2>1, NumbersKept DEF IInv
<1>12. RecordInv'
  <2>1. \A p \in Quotes : quotes'[p].status # "ABSENT" => Exists(QuoteOf[p].cycle)
    BY <1>4, <1>5 DEF IInv, RecordInv
  <2> QED BY <1>3, <1>4, <2>1 DEF IInv, RecordInv, Exists
<1>13. PaidWorkIsApproved'
  <2>1. \A j \in Checkpoints : approvals[j].status = "APPROVED" => approvals'[j] = approvals[j]
    BY <1>3
  <2> QED BY <2>1, PaidWorkKept DEF IInv
<1>14. WindowInv'
  <2>1. phase # "PROVISIONALLY_CLOSED"
    BY DEF IInv, WindowInv, WindowHasItsTimer, Running, NoBlockingCheckpoint, OpenApprovals
  <2>2. WindowFrame
    BY <2>1 DEF WindowFrame
  <2> QED BY <2>2, WindowKept DEF IInv, Running
<1> QED BY <1>9, <1>10, <1>11, <1>12, <1>13, <1>14 DEF IInv

LEMMA ApproverStep ==
  ASSUME IInv, NEW k \in Checkpoints, NEW answer \in {"APPROVED", "REJECTED"},
         ApproverDecision(k, answer)
  PROVE  IInv'
<1> USE DEF worldVars, workVars, humanVars, moneyVars, dutyVars, endVars
<1>1. /\ now' = now /\ timerCount' = timerCount /\ failed' = failed
      /\ exceptions' = exceptions /\ closing' = closing /\ current' = current
      /\ reported' = reported /\ phase' = "ACTIVE" /\ Running /\ cycles' = cycles
      /\ approvals[k].status = "OPEN"
      /\ approvals' = [approvals EXCEPT ![k].status = answer]
      /\ quotes' = [quotes EXCEPT ![approvals[k].quote].status = answer]
      /\ queue' = Cancel(queue, {ReminderTimer(k), DeadlineTimer(k)})
      /\ obligations' = Closed(Closed(obligations, {ReminderDuty(k)}, "CANCELLED"),
                               {DecisionDuty(k)}, "DISCHARGED")
  BY DEF ApproverDecision, OpenApprovals, Disarm
<1>2. /\ QueueInv' /\ queue'.seen = queue.seen
      /\ queue'.pending = {e \in queue.pending : e.id \notin {ReminderTimer(k), DeadlineTimer(k)}}
      /\ \A id : id \notin {ReminderTimer(k), DeadlineTimer(k)} => SameTimers(id)
  BY <1>1, DisarmKeeps DEF IInv
<1>3. ReminderTimer(k) \notin PendingIds(queue)' /\ DeadlineTimer(k) \notin PendingIds(queue)'
  BY <1>2 DEF PendingIds
<1> DEFINE first == Closed(obligations, {ReminderDuty(k)}, "CANCELLED")
<1>4. /\ obligations \in [Duties -> DutyStates] /\ {"CANCELLED", "DISCHARGED"} \subseteq DutyStates
      /\ ReminderDuty(k) \in Duties /\ DecisionDuty(k) \in Duties /\ ReminderDuty(k) # DecisionDuty(k)
  BY DutiesDistinct DEF IInv, RecordInv, DutyStates
<1>5. /\ first \in [Duties -> DutyStates] /\ first[ReminderDuty(k)] # "OPEN"
      /\ \A d \in Duties : d # ReminderDuty(k) => first[d] = obligations[d]
  BY <1>4, ClosedDuties
<1> HIDE DEF first
<1>6. /\ obligations' \in [Duties -> DutyStates] /\ obligations'[DecisionDuty(k)] # "OPEN"
      /\ \A d \in Duties : d # DecisionDuty(k) => obligations'[d] = first[d]
  BY <1>1, <1>4, <1>5, ClosedDuties DEF first
<1>7. /\ obligations'[ReminderDuty(k)] # "OPEN"
      /\ \A d \in Duties : d \notin {ReminderDuty(k), DecisionDuty(k)} =>
                             obligations'[d] = obligations[d]
  BY <1>4, <1>5, <1>6
<1> QED BY <1>1, <1>2, <1>3, <1>6, <1>7, CheckpointCloses DEF Answers

LEMMA DeadlineStep ==
  ASSUME IInv, NEW e \in queue.pending, DeadlineDue(e)
  PROVE  /\ IInv'
         /\ \E k \in Checkpoints :
              /\ e.id = DeadlineTimer(k) /\ approvals[k].status = "OPEN"
              /\ approvals' = [approvals EXCEPT ![k].status = "EXPIRED"]
<1> USE DEF worldVars, workVars, humanVars, moneyVars, dutyVars, endVars
<1>1. PICK k \in Checkpoints :
        /\ e.id = DeadlineTimer(k)
        /\ IF k \in OpenApprovals
             THEN /\ approvals' = [approvals EXCEPT ![k].status = "EXPIRED"]
                  /\ quotes' = [quotes EXCEPT ![approvals[k].quote].status = "EXPIRED"]
                  /\ queue' = Cancel(Pop(queue, e), {ReminderTimer(k)})
                  /\ obligations' = Closed(obligations, {ReminderDuty(k), DecisionDuty(k)},
                                           "CANCELLED")
             ELSE queue' = Pop(queue, e) /\ UNCHANGED <<approvals, quotes, obligations>>
  BY DEF DeadlineDue
<1>2. /\ now' = now /\ timerCount' = timerCount /\ failed' = failed
      /\ exceptions' = exceptions /\ closing' = closing /\ current' = current
      /\ reported' = reported /\ phase' = phase /\ Running /\ cycles' = cycles
  BY DEF DeadlineDue
<1>3. approvals[k].status = "OPEN"
  BY <1>1 DEF IInv, DecisionInv, Timed
<1>4. /\ approvals' = [approvals EXCEPT ![k].status = "EXPIRED"]
      /\ quotes' = [quotes EXCEPT ![approvals[k].quote].status = "EXPIRED"]
      /\ queue' = Cancel(Pop(queue, e), {ReminderTimer(k)})
      /\ obligations' = Closed(obligations, {ReminderDuty(k), DecisionDuty(k)}, "CANCELLED")
  BY <1>1, <1>3 DEF OpenApprovals
<1>5. queue' = [pending |-> {f \in queue.pending \ {e} : f.id # ReminderTimer(k)},
                seen |-> queue.seen]
  BY <1>4 DEF IInv, QueueInv, Cancel, Pop
<1>6. /\ queue'.pending = {f \in queue.pending \ {e} : f.id # ReminderTimer(k)}
      /\ queue'.seen = queue.seen /\ queue' = [pending |-> queue'.pending, seen |-> queue'.seen]
  BY <1>5
<1>7. QueueInv'
  BY <1>2, <1>6 DEF IInv, QueueInv, PendingIds
<1>8. ReminderTimer(k) \notin PendingIds(queue)' /\ DeadlineTimer(k) \notin PendingIds(queue)'
  <2>1. \A f \in queue.pending : f.id = DeadlineTimer(k) => f = e
    BY <1>1 DEF IInv, QueueInv
  <2> QED BY <1>6, <2>1 DEF PendingIds
<1>9. \A id : id \notin {ReminderTimer(k), DeadlineTimer(k)} => SameTimers(id)
  BY <1>1, <1>6 DEF SameTimers
<1>10. /\ obligations' \in [Duties -> DutyStates]
       /\ obligations'[ReminderDuty(k)] # "OPEN" /\ obligations'[DecisionDuty(k)] # "OPEN"
       /\ \A d \in Duties : d \notin {ReminderDuty(k), DecisionDuty(k)} =>
                              obligations'[d] = obligations[d]
  <2>1. /\ obligations \in [Duties -> DutyStates] /\ "CANCELLED" \in DutyStates
        /\ ReminderDuty(k) \in Duties /\ DecisionDuty(k) \in Duties
    BY DutiesDistinct DEF IInv, RecordInv, DutyStates
  <2> QED BY <1>4, <2>1, ClosedDuties
<1>11. IInv'
  BY <1>2, <1>3, <1>4, <1>6, <1>7, <1>8, <1>9, <1>10, CheckpointCloses DEF Answers
<1> QED BY <1>1, <1>3, <1>4, <1>11

-----------------------------------------------------------------------------
(* The window.                                                              *)

\* The timer of a window is nobody else's.
LEMMA WindowSteps ==
  ASSUME IInv, NEW b, UNCHANGED <<approvals, exceptions, quotes>>,
         \A d \in Duties : obligations'[d] = obligations[d],
         \A c \in Cycles : Exists(c) => Exists(c)',
         \A id : id # CloseTimer(b) => SameTimers(id)
  PROVE  DecisionInv' /\ VisitInv' /\ Numbered'
<1>1. DecisionInv'
  <2>1. \A k \in Checkpoints :
           /\ obligations'[DecisionDuty(k)] = obligations[DecisionDuty(k)]
           /\ obligations'[ReminderDuty(k)] = obligations[ReminderDuty(k)]
    BY DutiesDistinct
  <2>2. \A k \in Checkpoints : SameTimers(ReminderTimer(k)) /\ SameTimers(DeadlineTimer(k))
    BY TimersDistinct
  <2> QED BY <2>1, <2>2, DecisionsKept DEF IInv
<1>2. VisitInv'
  <2> SUFFICES ASSUME NEW c \in Cycles PROVE FollowedUp(c)'
    BY DEF VisitInv
  <2>1. SameTimers(VisitTimer(c)) /\ VisitDuty(c) \in Duties
    BY TimersDistinct, DutiesDistinct
  <2>2. VisitFrame(c)
    BY <2>1 DEF VisitFrame
  <2> QED BY <2>2, VisitKept DEF IInv, VisitInv
<1>3. Numbered'
  BY NumbersKept DEF IInv, Taken
<1> QED BY <1>1, <1>2, <1>3

LEMMA CloseStep ==
  ASSUME IInv, CompleteProvisionally
  PROVE  IInv'
<1> USE DEF worldVars, workVars, humanVars, moneyVars, dutyVars, endVars
<1>1. /\ now' = now /\ approvals' = approvals /\ exceptions' = exceptions /\ quotes' = quotes
      /\ current' = current /\ reported' = reported /\ cycles' = cycles
      /\ resolution' = resolution /\ resolution # "PERSISTS" /\ Running
      /\ Exists(current) /\ Verified(current) /\ NoBlockingCheckpoint
      /\ closing' = [cycle |-> current, until |-> now + CloseAfter]
      /\ Arm(<<Timing(CloseTimer(current), CloseAfter)>>, {})
  BY DEF CompleteProvisionally, MayComplete, WindowTimer
<1>2. PICK c \in Cycles : c = current
  BY <1>1 DEF Exists
<1>3. CloseTimer(c) \in TimerIds /\ CloseAfter \in Nat /\ QueueInv
  BY TimersDistinct, PolicyType DEF IInv
<1>4. /\ QueueInv'
      /\ \A other : other # CloseTimer(c) => SameTimers(other)
      /\ \/ failed' = TRUE /\ UNCHANGED <<queue, obligations>>
         \/ /\ failed' = FALSE /\ obligations' = Opened({})
            /\ PendingIds(queue)' = PendingIds(queue) \cup {CloseTimer(c)}
            /\ \A e \in queue'.pending : e.id = CloseTimer(c) => e.at = now + CloseAfter
  BY <1>1, <1>2, <1>3, ArmOne
<1>5. /\ obligations' \in [Duties -> DutyStates]
      /\ \A d \in Duties : obligations'[d] = obligations[d]
  <2>1. obligations \in [Duties -> DutyStates]
    BY DEF IInv, RecordInv
  <2>2. Opened({}) \in [Duties -> DutyStates] /\ \A d \in Duties : Opened({})[d] = obligations[d]
    BY <2>1, OpenedDuties
  <2> QED BY <1>4, <2>1, <2>2
<1>6. \A b \in Cycles : Exists(b) => Exists(b)'
  BY <1>1 DEF Exists
<1>7. DecisionInv' /\ VisitInv' /\ Numbered'
  BY <1>1, <1>4, <1>5, <1>6, WindowSteps
<1>8. RecordInv'
  BY <1>1, <1>5 DEF IInv, RecordInv, Exists
<1>9. PaidWorkIsApproved'
  BY <1>1 DEF IInv, PaidWorkIsApproved, RequiresPayment
<1>10. WindowInv'
  <2>1. closing'.cycle = c /\ closing'.until = now + CloseAfter
    BY <1>1, <1>2
  <2>2. Verified(closing.cycle)' /\ NoBlockingCheckpoint'
    BY <1>1, <1>2, <2>1 DEF Verified, NoBlockingCheckpoint, OpenApprovals, OpenExceptions
  <2>3. ~failed' => \E e \in queue'.pending : e.id = CloseTimer(c) /\ e.at = now + CloseAfter
    BY <1>4 DEF PendingIds
  <2>4. WindowHasItsTimer'
    BY <1>1, <2>1, <2>2, <2>3 DEF WindowHasItsTimer
  <2> QED BY <1>1, <2>1, <2>4 DEF IInv, WindowInv
<1> QED BY <1>4, <1>7, <1>8, <1>9, <1>10 DEF IInv

LEMMA ReopenStep ==
  ASSUME IInv, Reopen
  PROVE  IInv'
<1> USE DEF worldVars, workVars, humanVars, moneyVars, dutyVars, endVars
<1>0. PICK c \in Cycles : c = NextCycle
  BY DEF Reopen
<1>a. PICK b : b = closing.cycle
  OBVIOUS
<1> DEFINE x == NewCycle("WARRANTY_REVISIT", b, cycles[b].scope)
<1>1. /\ now' = now /\ timerCount' = timerCount /\ failed' = failed
      /\ approvals' = approvals /\ exceptions' = exceptions /\ quotes' = quotes
      /\ obligations' = obligations /\ reported' = reported /\ Running
      /\ phase = "PROVISIONALLY_CLOSED" /\ phase' = "ACTIVE" /\ current' = c
      /\ queue' = Cancel(queue, {CloseTimer(b)})
      /\ cycles' = [cycles EXCEPT ![c] = x]
  BY <1>0, <1>a DEF Reopen, Disarm
<1>2. b \in Cycles /\ Verified(b)
  BY <1>a, <1>1 DEF IInv, WindowInv, WindowHasItsTimer, Running
<1>3. x \in CycleRecords /\ x.kind = "WARRANTY_REVISIT" /\ x.visit = "NONE"
  BY <1>2 DEF NewCycle, Absent, CycleRecords, Kinds, Visits, IInv, RecordInv
<1> HIDE DEF x
<1>4. /\ cycles' \in [Cycles -> CycleRecords] /\ cycles'[c] = x
      /\ \A d \in Cycles : d # c => cycles'[d] = cycles[d]
  BY <1>1, <1>3 DEF IInv, RecordInv, CycleRecords
<1>5. \A d \in Cycles : Exists(d) => Exists(d)'
  BY <1>3, <1>4 DEF Exists
<1>6. \A d \in Cycles : cycles'[d].kind = "ABSENT" => cycles'[d].visit = "NONE"
  BY <1>3, <1>4 DEF IInv, RecordInv
<1>7. QueueInv' /\ \A id : id # CloseTimer(b) => SameTimers(id)
  BY <1>1, DisarmKeeps DEF IInv
<1>8. DecisionInv' /\ VisitInv' /\ Numbered'
  BY <1>1, <1>5, <1>7, WindowSteps
<1>9. RecordInv'
  BY <1>1, <1>4, <1>5, <1>6, QuoteType DEF IInv, RecordInv, CycleRecords
<1>10. PaidWorkIsApproved'
  BY <1>1, <1>3, <1>4, PaidWorkKept DEF IInv
<1>11. WindowInv'
  <2>1. reported
    BY <1>2 DEF IInv, WindowInv, Verified, Absent
  <2>2. WindowFrame
    BY <1>1, <2>1 DEF WindowFrame
  <2> QED BY <1>1, <2>2, WindowKept DEF IInv, Running
<1> QED BY <1>7, <1>8, <1>9, <1>10, <1>11 DEF IInv

LEMMA ExpiryStep ==
  ASSUME IInv, NEW e \in queue.pending, ProvisionalExpired(e)
  PROVE  IInv'
<1> USE DEF worldVars, workVars, humanVars, moneyVars, dutyVars, endVars
<1>1. /\ now' = now /\ timerCount' = timerCount /\ failed' = failed
      /\ approvals' = approvals /\ exceptions' = exceptions /\ quotes' = quotes
      /\ obligations' = obligations /\ reported' = reported /\ Running
      /\ closing' = closing /\ current' = current /\ cycles' = cycles /\ resolution' = resolution
      /\ queue' = Pop(queue, e)
  BY DEF ProvisionalExpired
<1>2. PICK b \in Cycles : e.id = CloseTimer(b)
  BY DEF ProvisionalExpired
<1>3. phase' # "PROVISIONALLY_CLOSED"
  <2>1. phase = "PROVISIONALLY_CLOSED" => resolution # "PERSISTS" /\ NoBlockingCheckpoint
    BY <1>1 DEF IInv, WindowInv, WindowHasItsTimer, Running
  <2> QED BY <2>1 DEF ProvisionalExpired
<1>4. QueueInv' /\ \A id : id # CloseTimer(b) => SameTimers(id)
  BY <1>1, <1>2, PopKeeps DEF IInv
<1>5. \A d \in Cycles : Exists(d) => Exists(d)'
  BY <1>1 DEF Exists
<1>6. DecisionInv' /\ VisitInv' /\ Numbered'
  BY <1>1, <1>4, <1>5, WindowSteps
<1>7. RecordInv'
  BY <1>1 DEF IInv, RecordInv, Exists
<1>8. PaidWorkIsApproved'
  BY <1>1 DEF IInv, PaidWorkIsApproved, RequiresPayment
<1>9. WindowInv'
  <2>1. WindowFrame
    BY <1>1, <1>3 DEF WindowFrame
  <2> QED BY <1>1, <2>1, WindowKept DEF IInv, Running
<1> QED BY <1>4, <1>6, <1>7, <1>8, <1>9 DEF IInv

LEMMA AdvanceStep ==
  ASSUME IInv, Advance
  PROVE  IInv'
<1> USE DEF worldVars, workVars, humanVars, moneyVars, dutyVars, endVars
<1>1. /\ now' = now + 1 /\ timerCount' = timerCount /\ failed' = failed /\ queue' = queue
      /\ approvals' = approvals /\ exceptions' = exceptions /\ quotes' = quotes
      /\ obligations' = obligations /\ reported' = reported /\ phase' = phase
      /\ closing' = closing /\ current' = current /\ cycles' = cycles /\ resolution' = resolution
      /\ DueTimers = {}
  BY DEF Advance
<1>2. \A e \in queue.pending : e.at > now /\ e.at \in Nat
  BY <1>1, NothingDue DEF IInv, QueueInv, EntrySet
<1>3. QueueInv'
  <2>1. \A e \in queue.pending : e.at >= now + 1 /\ now \in Nat
    BY <1>2 DEF IInv, QueueInv
  <2> QED BY <1>1, <2>1 DEF IInv, QueueInv, PendingIds
<1>4. \A id : SameTimers(id)
  BY <1>1 DEF SameTimers
<1>5. \A d \in Cycles : Exists(d) => Exists(d)'
  BY <1>1 DEF Exists
<1>6. DecisionInv' /\ VisitInv' /\ Numbered'
  BY <1>1, <1>4, <1>5, WindowSteps
<1>7. RecordInv'
  BY <1>1 DEF IInv, RecordInv, Exists
<1>8. PaidWorkIsApproved'
  BY <1>1 DEF IInv, PaidWorkIsApproved, RequiresPayment
<1>9. WindowInv'
  BY <1>1 DEF IInv, WindowInv, WindowHasItsTimer, Verified, NoBlockingCheckpoint, OpenApprovals,
              OpenExceptions
<1> QED BY <1>3, <1>6, <1>7, <1>8, <1>9 DEF IInv

-----------------------------------------------------------------------------
(* The invariant holds, and what follows from it.                           *)

LEMMA InvariantInit == Init => IInv
<1> SUFFICES ASSUME Init PROVE IInv
  OBVIOUS
<1>1. /\ now = 0 /\ queue = [pending |-> {}, seen |-> {}] /\ timerCount = 0
      /\ phase = "NEW" /\ current = NoCycle
      /\ \A c \in Cycles : cycles[c] = Absent
      /\ \A q \in Quotes : quotes[q].status = "ABSENT"
      /\ \A k \in Checkpoints : approvals[k] =
           [status |-> "ABSENT", quote |-> "none", deadline |-> 0, fired |-> FALSE]
      /\ \A k \in Checkpoints : exceptions[k] = "ABSENT"
      /\ \A d \in Duties : obligations[d] = "ABSENT"
  BY DEF Init, EmptyQueue
<1>2. QueueInv
  <2>1. queue.pending = {} /\ queue.seen = {} /\ queue = [pending |-> queue.pending, seen |-> queue.seen]
    BY <1>1
  <2> QED BY <1>1, <2>1 DEF QueueInv, PendingIds
<1>3. RecordInv
  <2>1. cycles \in [Cycles -> CycleRecords]
    BY DEF Init, Absent, CycleRecords, Kinds, Visits
  <2>2. /\ quotes \in [Quotes -> [status : {"ABSENT", "RECEIVED"} \cup Answers, until : Nat]]
        /\ approvals \in [Checkpoints -> [status : {"ABSENT", "OPEN"} \cup Answers,
                                    quote : Quotes \cup {"none"}, deadline : Nat, fired : BOOLEAN]]
        /\ exceptions \in [Checkpoints -> {"ABSENT", "OPEN", "RESOLVED"}]
        /\ obligations \in [Duties -> DutyStates]
    BY DEF Init, DutyStates
  <2>3. \A c \in Cycles : cycles[c].visit = "NONE"
    BY <1>1 DEF Absent
  <2> QED BY <1>1, <2>1, <2>2, <2>3 DEF RecordInv, CycleRecords
<1>4. Numbered
  <2>1. 0 \in 0..MaxCheckpoint /\ \A k \in Checkpoints : ~Taken(k) /\ ~(k <= 0)
    BY <1>1, PolicyType DEF Taken, Checkpoints
  <2> QED BY <2>1 DEF Numbered
<1>5. DecisionInv
  <2> SUFFICES ASSUME NEW k \in Checkpoints PROVE Asked(k) /\ Timed(k)
    BY DEF DecisionInv
  <2>1. ReminderDuty(k) \in Duties /\ DecisionDuty(k) \in Duties
    BY DutiesDistinct
  <2>2. approvals[k].status = "ABSENT" /\ queue.pending = {} /\ queue.seen = {}
    BY <1>1
  <2>3. obligations[ReminderDuty(k)] = "ABSENT" /\ obligations[DecisionDuty(k)] = "ABSENT"
    BY <1>1, <2>1
  <2>4. Asked(k)
    BY <1>1, <2>2, <2>3 DEF Asked
  <2> QED BY <2>2, <2>4 DEF Timed
<1>6. VisitInv
  <2> SUFFICES ASSUME NEW c \in Cycles PROVE FollowedUp(c)
    BY DEF VisitInv
  <2>1. obligations[VisitDuty(c)] = "ABSENT" /\ queue.pending = {} /\ queue.seen = {}
    BY <1>1, DutiesDistinct
  <2> QED BY <2>1 DEF FollowedUp, PendingIds
<1>7. PaidWorkIsApproved
  BY <1>1 DEF PaidWorkIsApproved, Absent
<1>8. WindowInv
  BY <1>1 DEF WindowInv, WindowHasItsTimer
<1> QED BY <1>2, <1>3, <1>4, <1>5, <1>6, <1>7, <1>8 DEF IInv

LEMMA InvariantStep == IInv /\ [Next]_vars => IInv'
<1> SUFFICES ASSUME IInv, [Next]_vars PROVE IInv'
  OBVIOUS
<1>1. CASE Advance
  BY <1>1, AdvanceStep
<1>2. CASE Timer
  <2>1. PICK e \in queue.pending :
          VisitFollowupDue(e) \/ ReminderDue(e) \/ DeadlineDue(e) \/ ProvisionalExpired(e)
    BY <1>2 DEF Timer, DueTimers, Upcoming
  <2> QED BY <2>1, FollowupStep, ReminderStep, DeadlineStep, ExpiryStep
<1>3. CASE Event
  <2>1. CASE IssueReported \/ Settlement \/ Reopen
    BY <2>1, ReportStep, PaperSteps, ReopenStep
  <2>2. CASE \E c \in Cycles : VisitResponse(c) \/ AttendanceVerified(c)
    BY <2>2, VisitSteps, AttendanceStep
  <2>3. CASE \E c \in Cycles, scope \in Scopes : WorkReported(c, scope) \/ WorkEvidence(c, scope)
    BY <2>3, VisitSteps
  <2>4. CASE \E q \in Quotes : QuoteReceived(q)
    BY <2>4, QuoteStep
  <2>5. CASE \E k \in Checkpoints, answer \in {"APPROVED", "REJECTED"} : ApproverDecision(k, answer)
    BY <2>5, ApproverStep
  <2>6. CASE \E k \in Checkpoints, decision \in {"TAKE_OWNERSHIP", "AUTHORISE_ALTERNATIVE"} :
               OperatorResolution(k, decision)
    BY <2>6, ExceptionSteps
  <2>7. CASE \E i \in Invoices : InvoiceReceived(i) \/ InvoiceValidation(i)
    BY <2>7, PaperSteps
  <2>8. CASE \E status \in {"RESOLVED", "PERSISTS"} : CustomerResolution(status)
    BY <2>8, PaperSteps
  <2> QED BY <1>3, <2>1, <2>2, <2>3, <2>4, <2>5, <2>6, <2>7, <2>8 DEF Event
<1>4. CASE Action
  <2>1. CASE \E c \in Cycles : RequestVisit(c) \/ SendCompletionNotice(c) \/ SendReminder(c)
    BY <2>1, RequestVisitStep, PaperSteps
  <2>2. CASE \E q \in Quotes : RequestApproval(q)
    BY <2>2, RequestApprovalStep
  <2>3. CASE \E k \in Checkpoints : AuthoriseSupplierWork(k)
    BY <2>3, AuthoriseStep
  <2>4. CASE \E channel \in {"primary", "secondary"} : SendTransferNotice(channel)
    BY <2>4, PaperSteps
  <2>5. CASE \E i \in Invoices : RequestInvoiceValidation(i) \/ RequestPayment(i)
    BY <2>5, PaperSteps
  <2>6. CASE RequestExceptionResolution \/ CompleteByTransfer \/ CompleteProvisionally
    BY <2>6, ExceptionSteps, PaperSteps, CloseStep
  <2> QED BY <1>4, <2>1, <2>2, <2>3, <2>4, <2>5, <2>6 DEF Action
<1>5. CASE UNCHANGED vars
  <2>1. /\ now' = now /\ queue' = queue /\ timerCount' = timerCount /\ failed' = failed
        /\ approvals' = approvals /\ exceptions' = exceptions /\ quotes' = quotes
        /\ obligations' = obligations /\ reported' = reported /\ phase' = phase
        /\ closing' = closing /\ current' = current /\ cycles' = cycles /\ resolution' = resolution
    BY <1>5 DEF vars, worldVars, workVars, humanVars, dutyVars, endVars
  <2>2. \A id : SameTimers(id)
    BY <2>1 DEF SameTimers
  <2>3. \A d \in Cycles : Exists(d) => Exists(d)'
    BY <2>1 DEF Exists
  <2>4. DecisionInv' /\ VisitInv' /\ Numbered'
    BY <2>1, <2>2, <2>3, WindowSteps
  <2>5. QueueInv' /\ RecordInv' /\ PaidWorkIsApproved'
    BY <2>1 DEF IInv, QueueInv, PendingIds, RecordInv, Exists, PaidWorkIsApproved, RequiresPayment
  <2>6. WindowInv'
    BY <2>1 DEF IInv, WindowInv, WindowHasItsTimer, Verified, NoBlockingCheckpoint, OpenApprovals,
                OpenExceptions
  <2> QED BY <2>4, <2>5, <2>6 DEF IInv
<1> QED BY <1>1, <1>2, <1>3, <1>4, <1>5 DEF Next

LEMMA Invariant == Spec => []IInv
<1> QED BY InvariantInit, InvariantStep, PTL DEF Spec

\* Progress on a visit is owed exactly while its follow-up is pending, and each
\* open approval has its deadline and, until it came, its reminder: so nothing
\* waits for a person without a timer, whatever _arm_visit_followup,
\* _act_request_approval and the reducers that disarm them meet.
THEOREM TimersForDuties == Spec => []DutiesHaveTimers
<1>1. IInv => DutiesHaveTimers
  <2> SUFFICES ASSUME IInv PROVE DutiesHaveTimers
    OBVIOUS
  <2>1. VisitsAreFollowedUp
    BY DEF IInv, VisitInv, FollowedUp, VisitsAreFollowedUp
  <2>2. DecisionsAreTimed
    <3> SUFFICES ASSUME NEW k \in Checkpoints
        PROVE  LET open == k \in OpenApprovals
                   pending(id) == id \in PendingIds(queue)
               IN /\ open <=> pending(DeadlineTimer(k))
                  /\ open <=> obligations[DecisionDuty(k)] = "OPEN"
                  /\ pending(ReminderTimer(k)) <=> open /\ ~approvals[k].fired
                  /\ obligations[ReminderDuty(k)] = "OPEN" => open
                  /\ \A e \in queue.pending : e.id = DeadlineTimer(k) => e.at = approvals[k].deadline
      BY DEF DecisionsAreTimed
    <3>1. Asked(k) /\ Timed(k)
      BY DEF IInv, DecisionInv
    <3>2. k \in OpenApprovals <=> approvals[k].status = "OPEN"
      BY DEF OpenApprovals
    <3>3. /\ DeadlineTimer(k) \in PendingIds(queue) => approvals[k].status = "OPEN"
          /\ ReminderTimer(k) \in PendingIds(queue) =>
               approvals[k].status = "OPEN" /\ ~approvals[k].fired
      BY <3>1 DEF Timed, PendingIds
    <3> QED BY <3>1, <3>2, <3>3 DEF Asked, Timed
  <2> QED BY <2>1, <2>2 DEF DutiesHaveTimers
<1> QED BY <1>1, Invariant, PTL

\* What a quote says is what its one checkpoint says, and no payable visit is
\* booked without an approval of an above-threshold quote for that very cycle, as
\* _reduce_approver_decision, _reduce_deadline_due and _act_authorise_supplier_work
\* leave them.
THEOREM WorkUnderApproval == Spec => []ApprovalsGovernWork
<1>1. IInv => ApprovalsGovernWork
  <2> SUFFICES ASSUME IInv PROVE QuoteAgreesWithCheckpoint /\ PaidWorkIsApproved
    BY DEF ApprovalsGovernWork
  <2>1. QuoteAgreesWithCheckpoint
    BY DEF IInv, DecisionInv, Asked, QuoteAgreesWithCheckpoint
  <2> QED BY <2>1 DEF IInv
<1> QED BY <1>1, Invariant, PTL

\* A provisional close is never without its timer, at the end of its window, and
\* nothing that would block the timer's reducer, _reduce_provisional_expired.
THEOREM WindowIsTimed == Spec => []WindowHasItsTimer
<1>1. IInv => WindowHasItsTimer
  BY DEF IInv, WindowInv
<1> QED BY <1>1, Invariant, PTL

\* A step is a step of every checkpoint's promise, or leaves it alone.
LEMMA PromiseStep ==
  ASSUME IInv, [Next]_vars, NEW k \in Checkpoints
  PROVE  [Decision(k)!Next]_(Decision(k)!vars)
<1> USE DEF worldVars, workVars, humanVars, moneyVars, dutyVars, endVars
<1>1. Asked(k) /\ Timed(k) /\ QueueInv /\ now \in Nat
      /\ approvals \in [Checkpoints -> [status : {"ABSENT", "OPEN"} \cup Answers,
                           quote : Quotes \cup {"none"}, deadline : Nat, fired : BOOLEAN]]
  BY DEF IInv, DecisionInv, QueueInv, RecordInv
<1>2. ASSUME now' = now, approvals'[k] = approvals[k]
      PROVE  [Decision(k)!Next]_(Decision(k)!vars)
  BY <1>2 DEF Decision!vars
<1>3. CASE Advance
  <2>1. now' = now + 1 /\ approvals' = approvals /\ DueTimers = {}
    BY <1>3 DEF Advance
  <2>2. \A e \in queue.pending : e.at > now
    BY <1>1, <2>1, NothingDue
  <2>3. approvals[k].status = "OPEN" =>
          now < approvals[k].deadline /\ (approvals[k].fired \/ now < Decision(k)!ReminderAt)
    BY <1>1, <2>2 DEF Timed, PendingIds, Decision!ReminderAt
  <2>4. Decision(k)!Tick
    BY <2>1, <2>3 DEF Decision!Tick
  <2> QED BY <2>4 DEF Decision!Next
<1>4. CASE Timer
  <2>1. PICK e \in queue.pending :
          /\ e.at = now /\ \A f \in queue.pending : ~Before(f, e)
          /\ VisitFollowupDue(e) \/ ReminderDue(e) \/ DeadlineDue(e) \/ ProvisionalExpired(e)
    BY <1>4 DEF Timer, DueTimers, Upcoming
  <2>2. now' = now
    BY <2>1 DEF VisitFollowupDue, ReminderDue, DeadlineDue, ProvisionalExpired
  <2>3. CASE VisitFollowupDue(e) \/ ProvisionalExpired(e)
    BY <1>2, <2>2, <2>3 DEF VisitFollowupDue, ProvisionalExpired
  <2>4. CASE ReminderDue(e)
    <3>1. PICK j \in Checkpoints :
            /\ e.id = ReminderTimer(j) /\ approvals[j].status = "OPEN" /\ ~approvals[j].fired
            /\ approvals' = [approvals EXCEPT ![j].fired = TRUE]
      BY <2>4, ReminderStep
    <3>2. CASE j # k
      BY <1>1, <1>2, <2>2, <3>1, <3>2
    <3>3. CASE j = k
      <4>1. now = Decision(k)!ReminderAt
        BY <1>1, <2>1, <3>1, <3>3 DEF Timed, Decision!ReminderAt
      <4>2. /\ approvals'[k].fired = TRUE /\ approvals'[k].status = approvals[k].status
            /\ approvals'[k].deadline = approvals[k].deadline
        BY <1>1, <3>1, <3>3
      <4> QED BY <2>2, <3>1, <3>3, <4>1, <4>2 DEF Decision!Next, Decision!Remind
    <3> QED BY <3>2, <3>3
  <2>5. CASE DeadlineDue(e)
    <3>1. PICK j \in Checkpoints :
            /\ e.id = DeadlineTimer(j) /\ approvals[j].status = "OPEN"
            /\ approvals' = [approvals EXCEPT ![j].status = "EXPIRED"]
      BY <2>5, DeadlineStep
    <3>2. CASE j # k
      BY <1>1, <1>2, <2>2, <3>1, <3>2
    <3>3. CASE j = k
      <4>1. now = approvals[k].deadline
        BY <1>1, <2>1, <3>1, <3>3 DEF Timed
      <4>2. ASSUME ReminderAfter <= DeadlineAfter, ~approvals[k].fired PROVE FALSE
        <5>1. PICK f \in queue.pending : f.id = ReminderTimer(k)
          BY <1>1, <3>1, <3>3, <4>2 DEF Timed, PendingIds
        <5>2. f.seq < e.seq /\ f.at = approvals[k].deadline - DeadlineAfter + ReminderAfter
          BY <1>1, <3>1, <3>3, <5>1 DEF Timed
        <5>3. f.at <= now
          BY <1>1, <4>1, <4>2, <5>2, PolicyType
        <5>4. Before(f, e)
          BY <1>1, <2>1, <5>2, <5>3 DEF Before, QueueInv, EntrySet
        <5> QED BY <2>1, <5>4
      <4>3. /\ approvals'[k].status = "EXPIRED" /\ approvals'[k].fired = approvals[k].fired
            /\ approvals'[k].deadline = approvals[k].deadline
        BY <1>1, <3>1, <3>3
      <4>4. ReminderAfter <= DeadlineAfter => approvals[k].fired
        BY <4>2
      <4> QED BY <2>2, <3>1, <3>3, <4>1, <4>3, <4>4 DEF Decision!Next, Decision!Expire
    <3> QED BY <3>2, <3>3
  <2> QED BY <2>1, <2>3, <2>4, <2>5
<1>5. CASE \E q \in Quotes : RequestApproval(q)
  <2>1. PICK q \in Quotes : RequestApproval(q)
    BY <1>5
  <2>2. PICK j \in Checkpoints :
              /\ approvals[j].status = "ABSENT" /\ approvals[j].fired = FALSE
              /\ approvals' = [approvals EXCEPT ![j] =
                   [status |-> "OPEN", quote |-> q, deadline |-> now + DeadlineAfter, fired |-> FALSE]]
    BY <2>1, RequestApprovalStep
  <2>3. now' = now
    BY <2>1 DEF RequestApproval
  <2>4. CASE j # k
    BY <1>1, <1>2, <2>2, <2>3, <2>4
  <2>5. CASE j = k
    <3>1. /\ approvals'[k].status = "OPEN" /\ approvals'[k].deadline = now + DeadlineAfter
          /\ approvals'[k].fired = approvals[k].fired
      BY <1>1, <2>2, <2>5
    <3> QED BY <2>2, <2>3, <2>5, <3>1 DEF Decision!Next, Decision!Open
  <2> QED BY <2>4, <2>5
<1>6. CASE \E j \in Checkpoints, answer \in {"APPROVED", "REJECTED"} : ApproverDecision(j, answer)
  <2>1. PICK j \in Checkpoints, answer \in {"APPROVED", "REJECTED"} : ApproverDecision(j, answer)
    BY <1>6
  <2>2. /\ now' = now /\ approvals[j].status = "OPEN" /\ now <= approvals[j].deadline
        /\ approvals' = [approvals EXCEPT ![j].status = answer]
    BY <2>1 DEF ApproverDecision, OpenApprovals
  <2>3. CASE j # k
    BY <1>1, <1>2, <2>2, <2>3
  <2>4. CASE j = k
    <3>1. /\ approvals'[k].status = answer /\ approvals'[k].deadline = approvals[k].deadline
          /\ approvals'[k].fired = approvals[k].fired
      BY <1>1, <2>2, <2>4
    <3> QED BY <2>2, <2>4, <3>1 DEF Decision!Next, Decision!Answer
  <2> QED BY <2>3, <2>4
<1>7. CASE UNCHANGED vars
  BY <1>2, <1>7 DEF vars
<1>8. CASE Event
  <2>1. CASE IssueReported \/ Settlement \/ Reopen
    BY <1>2, <2>1 DEF IssueReported, Settlement, Reopen
  <2>2. CASE \E c \in Cycles : VisitResponse(c) \/ AttendanceVerified(c)
    BY <1>2, <2>2 DEF VisitResponse, AttendanceVerified
  <2>3. CASE \E c \in Cycles, scope \in Scopes : WorkReported(c, scope) \/ WorkEvidence(c, scope)
    BY <1>2, <2>3 DEF WorkReported, WorkEvidence
  <2>4. CASE \E q \in Quotes : QuoteReceived(q)
    BY <1>2, <2>4 DEF QuoteReceived
  <2>5. CASE \E j \in Checkpoints, decision \in {"TAKE_OWNERSHIP", "AUTHORISE_ALTERNATIVE"} :
               OperatorResolution(j, decision)
    BY <1>2, <2>5 DEF OperatorResolution
  <2>6. CASE \E i \in Invoices : InvoiceReceived(i) \/ InvoiceValidation(i)
    BY <1>2, <2>6 DEF InvoiceReceived, InvoiceValidation
  <2>7. CASE \E status \in {"RESOLVED", "PERSISTS"} : CustomerResolution(status)
    BY <1>2, <2>7 DEF CustomerResolution
  <2> QED BY <1>6, <1>8, <2>1, <2>2, <2>3, <2>4, <2>5, <2>6, <2>7 DEF Event
<1>9. CASE Action
  <2>1. CASE \E c \in Cycles : RequestVisit(c) \/ SendCompletionNotice(c) \/ SendReminder(c)
    BY <1>2, <2>1 DEF RequestVisit, SendCompletionNotice, SendReminder
  <2>2. CASE \E j \in Checkpoints : AuthoriseSupplierWork(j)
    BY <1>2, <2>2 DEF AuthoriseSupplierWork
  <2>3. CASE \E channel \in {"primary", "secondary"} : SendTransferNotice(channel)
    BY <1>2, <2>3 DEF SendTransferNotice
  <2>4. CASE \E i \in Invoices : RequestInvoiceValidation(i) \/ RequestPayment(i)
    BY <1>2, <2>4 DEF RequestInvoiceValidation, RequestPayment
  <2>5. CASE RequestExceptionResolution \/ CompleteByTransfer \/ CompleteProvisionally
    BY <1>2, <2>5 DEF RequestExceptionResolution, CompleteByTransfer, CompleteProvisionally
  <2> QED BY <1>5, <1>9, <2>1, <2>2, <2>3, <2>4, <2>5 DEF Action
<1> QED BY <1>3, <1>4, <1>7, <1>8, <1>9 DEF Next

\* Each approval implements the abstract checkpoint: it opens once, is reminded at
\* its instant, is answered while its deadline is not past or expires at that very
\* instant, after its reminder, and time passes over nothing that is due.
THEOREM ApprovalsAreCheckpoints == Spec => DecisionsKeepTheirPromise
<1>1. Init => \A k \in Checkpoints : Decision(k)!Init
  BY DEF Init, Decision!Init
<1>2. IInv /\ [Next]_vars =>
        [\A k \in Checkpoints : [Decision(k)!Next]_(Decision(k)!vars)]_vars
  BY PromiseStep
<1> QED BY <1>1, <1>2, Invariant, PTL DEF Spec, DecisionsKeepTheirPromise

-----------------------------------------------------------------------------
(* The work itself, as long as a reopening finds its number free.            *)

\* A reopening counts the cycles and takes the next number: nobody else has it.
NextCycleIsFree == ~Exists(NextCycle)

\* A cycle begins: for the first report, a quote, or the closure that reopens.
Begun(c) ==
  /\ ~Exists(c) /\ cycles'[c].kind # "ABSENT" /\ cycles'[c].visit = "NONE"
  /\ cycles'[c].kind = "WARRANTY_REVISIT" =>
       LET closed == closing.cycle
       IN /\ phase = "PROVISIONALLY_CLOSED" /\ Verified(closed) /\ closed \in Cycles
          /\ cycles'[c].parent = closed /\ cycles'[c].scope = cycles[closed].scope

\* Its visit moves on; to the end of it, only with the scope of the work it repeats.
Moved(c) ==
  /\ Exists(c) /\ ~Verified(c)
  /\ cycles'[c].kind = cycles[c].kind /\ cycles'[c].parent = cycles[c].parent
  /\ cycles'[c].visit # "NONE"
  /\ cycles'[c].scope = cycles[c].scope \/ cycles[c].scope = NoScope
  /\ Verified(c)' =>
       /\ cycles'[c].scope = cycles[c].scope
       /\ RequiresPayment(c) \/ obligations'[NoticeDuty(c)] # "ABSENT"
       /\ cycles[c].kind = "WARRANTY_REVISIT" => cycles[cycles[c].parent].scope \in Scopes

Same(c) == cycles'[c] = cycles[c]
CycleMoves == \A c \in Cycles : Same(c) \/ Begun(c) \/ Moved(c)

\* What a notice owed, a quote approved, an invoice and the payment may become.
NoticeMoves ==
  \A c \in Cycles :
    LET was == obligations[NoticeDuty(c)]
        is == obligations'[NoticeDuty(c)]
    IN is = was \/ (was = "ABSENT" /\ is = "OPEN") \/ (was = "OPEN" /\ is = "DISCHARGED")
QuoteMoves == \A q \in Quotes : quotes[q].status = "APPROVED" => quotes'[q].status = "APPROVED"
Reviewed == {"VALIDATION_REQUESTED", "VALIDATED"}
InvoiceMoves ==
  \A i \in Invoices :
    /\ invoices[i] = "VALIDATED" => invoices'[i] = "VALIDATED"
    /\ invoices'[i] \in Reviewed => invoices[i] \in Reviewed \/ Billable(i)
Requested(i) ==
  LET c == InvoiceOf[i].cycle
  IN /\ payment.status = "NOT_REQUESTED" /\ invoices[i] = "VALIDATED"
     /\ RequiresPayment(c) /\ Verified(c)
     /\ payment' = [status |-> "REQUESTED", invoice |-> i, cycle |-> c]
PaymentMoves ==
  \/ payment' = payment
  \/ \E i \in Invoices : Requested(i)
  \/ /\ payment.status = "REQUESTED" /\ payment' = [payment EXCEPT !.status = "SETTLED"]
     /\ obligations' = Opened({NoticeDuty(payment.cycle)})
PhaseMoves ==
  phase' = "PROVISIONALLY_CLOSED" =>
    \/ phase = "PROVISIONALLY_CLOSED" /\ closing' = closing
    \/ /\ Exists(current) /\ Verified(current) /\ NoOpenDuty /\ closing'.cycle = current
       /\ RequiresPayment(current) => payment.status = "SETTLED"
       /\ cycles' = cycles /\ payment' = payment

-----------------------------------------------------------------------------
\* Every action but a stutter finds the operation running.
LEMMA NextRuns ==
  ASSUME [Next]_vars
  PROVE  UNCHANGED vars \/ Running
<1>1. CASE Advance
  BY <1>1 DEF Advance
<1>2. CASE Timer
  BY <1>2 DEF Timer, VisitFollowupDue, ReminderDue, DeadlineDue, ProvisionalExpired
<1>3. CASE Event
  BY <1>3 DEF Event, UnderWay, IssueReported, Settlement, Reopen, VisitResponse, AttendanceVerified,
     WorkReported, WorkEvidence, QuoteReceived, ApproverDecision, OperatorResolution,
     InvoiceReceived, InvoiceValidation, CustomerResolution
<1>4. CASE Action
  BY <1>4 DEF Action, RequestVisit, SendCompletionNotice, SendReminder, RequestApproval,
     AuthoriseSupplierWork, SendTransferNotice, RequestInvoiceValidation, RequestPayment,
     RequestExceptionResolution, CompleteByTransfer, CompleteProvisionally, MayComplete
<1> QED BY <1>1, <1>2, <1>3, <1>4 DEF Next

\* The actions that touch a cycle.
LEMMA WhoMovesCycles ==
  ASSUME [Next]_vars
  PROVE  \/ cycles' = cycles
         \/ IssueReported \/ Reopen
         \/ \E q \in Quotes : QuoteReceived(q)
         \/ \E c \in Cycles : VisitResponse(c) \/ AttendanceVerified(c) \/ RequestVisit(c)
         \/ \E c \in Cycles, scope \in Scopes : WorkReported(c, scope) \/ WorkEvidence(c, scope)
         \/ \E k \in Checkpoints : AuthoriseSupplierWork(k)
<1> USE DEF workVars
<1>1. CASE Advance \/ Timer
  BY <1>1 DEF Advance, Timer, VisitFollowupDue, ReminderDue, DeadlineDue, ProvisionalExpired
<1>2. CASE Event
  BY <1>2 DEF Event, Settlement, ApproverDecision, OperatorResolution, InvoiceReceived,
     InvoiceValidation, CustomerResolution
<1>3. CASE Action
  BY <1>3 DEF Action, SendCompletionNotice, SendReminder, RequestApproval, SendTransferNotice,
     RequestInvoiceValidation, RequestPayment, RequestExceptionResolution, CompleteByTransfer,
     CompleteProvisionally
<1>4. CASE UNCHANGED vars
  BY <1>4 DEF vars
<1> QED BY <1>1, <1>2, <1>3, <1>4 DEF Next

\* Moving a visit moves it and nothing else.
LEMMA VisitMoved ==
  ASSUME RecordInv, NEW c \in Cycles, NEW from, NEW to, MoveVisit(c, from, to)
  PROVE  /\ cycles[c].visit \in from /\ cycles'[c].visit = to
         /\ cycles'[c].kind = cycles[c].kind /\ cycles'[c].parent = cycles[c].parent
         /\ cycles'[c].scope = cycles[c].scope
         /\ \A b \in Cycles : b # c => Same(b)
<1> DEFINE x == [cycles[c] EXCEPT !.visit = to]
<1>1. cycles \in [Cycles -> CycleRecords]
  BY DEF RecordInv, CycleRecords
<1>2. /\ x.visit = to /\ x.kind = cycles[c].kind /\ x.parent = cycles[c].parent
      /\ x.scope = cycles[c].scope
  BY <1>1 DEF CycleRecords
<1>3. cycles' = [cycles EXCEPT ![c] = x] /\ cycles[c].visit \in from
  BY DEF MoveVisit
<1> HIDE DEF x
<1>4. cycles'[c] = x /\ \A b \in Cycles : b # c => cycles'[b] = cycles[b]
  BY <1>1, <1>3
<1> QED BY <1>2, <1>3, <1>4 DEF Same

\* A visit that is anywhere on its way is that of a cycle that exists.
LEMMA VisitExists ==
  ASSUME RecordInv, NEW c \in Cycles, cycles[c].visit # "NONE"
  PROVE  Exists(c)
BY DEF RecordInv, Exists

\* Supplier, access and evidence move a visit on.
LEMMA VisitsMove ==
  ASSUME IInv,
         \/ cycles' = cycles
         \/ \E c \in Cycles : VisitResponse(c) \/ AttendanceVerified(c) \/ RequestVisit(c)
         \/ \E c \in Cycles, scope \in Scopes : WorkReported(c, scope) \/ WorkEvidence(c, scope)
         \/ \E k \in Checkpoints : AuthoriseSupplierWork(k)
  PROVE  \A c \in Cycles : Same(c) \/ Moved(c)
<1>0. RecordInv /\ cycles \in [Cycles -> CycleRecords]
  BY DEF IInv, RecordInv, CycleRecords
<1>1. ASSUME NEW c \in Cycles, NEW from, NEW to \in Visits \ {"NONE", "WORK_VERIFIED"},
             MoveVisit(c, from, to), Exists(c), "WORK_VERIFIED" \notin from
      PROVE  \A b \in Cycles : Same(b) \/ Moved(b)
  <2>1. /\ cycles[c].visit \in from /\ cycles'[c].visit = to
        /\ cycles'[c].kind = cycles[c].kind /\ cycles'[c].parent = cycles[c].parent
        /\ cycles'[c].scope = cycles[c].scope
        /\ \A b \in Cycles : b # c => Same(b)
    BY <1>0, <1>1, VisitMoved
  <2>2. Moved(c)
    BY <1>1, <2>1 DEF Moved, Verified
  <2> QED BY <2>1, <2>2
<1>2. CASE cycles' = cycles
  BY <1>2 DEF Same
<1>3. ASSUME NEW c \in Cycles, VisitResponse(c) PROVE \A b \in Cycles : Same(b) \/ Moved(b)
  <2>1. PICK to \in {"SCHEDULED", "DECLINED"} : MoveVisit(c, {"REQUESTED"}, to)
    BY <1>3 DEF VisitResponse
  <2>2. Exists(c)
    BY <1>0, <2>1, VisitExists DEF MoveVisit
  <2> QED BY <1>1, <2>1, <2>2 DEF Visits
<1>4. ASSUME NEW c \in Cycles, AttendanceVerified(c) PROVE \A b \in Cycles : Same(b) \/ Moved(b)
  <2>1. MoveVisit(c, {"SCHEDULED"}, "ATTENDED")
    BY <1>4 DEF AttendanceVerified
  <2>2. Exists(c)
    BY <1>0, <2>1, VisitExists DEF MoveVisit
  <2> QED BY <1>1, <2>1, <2>2 DEF Visits
<1>5. ASSUME NEW c \in Cycles, RequestVisit(c) PROVE \A b \in Cycles : Same(b) \/ Moved(b)
  BY <1>1, <1>5 DEF RequestVisit, Visits
<1>6. ASSUME NEW k \in Checkpoints, AuthoriseSupplierWork(k)
      PROVE  \A b \in Cycles : Same(b) \/ Moved(b)
  <2>1. PICK q \in Quotes : q = approvals[k].quote
    BY <1>6 DEF IInv, DecisionInv, Asked, AuthoriseSupplierWork
  <2>2. QuoteOf[q].cycle \in Cycles /\ Exists(QuoteOf[q].cycle)
    BY <1>0, <1>6, <2>1, QuoteType DEF RecordInv, AuthoriseSupplierWork
  <2>3. MoveVisit(QuoteOf[q].cycle, {"NONE"}, "SCHEDULED")
    BY <1>6, <2>1 DEF AuthoriseSupplierWork
  <2> QED BY <1>1, <2>2, <2>3 DEF Visits
<1>7. ASSUME NEW c \in Cycles, NEW scope \in Scopes, WorkReported(c, scope)
      PROVE  \A b \in Cycles : Same(b) \/ Moved(b)
  <2> DEFINE s == IF cycles[c].scope = NoScope THEN scope ELSE cycles[c].scope
             x == [cycles[c] EXCEPT !.visit = "WORK_REPORTED", !.scope = s]
  <2>1. /\ cycles[c].visit = "ATTENDED" /\ cycles' = [cycles EXCEPT ![c] = x]
    BY <1>0, <1>7 DEF WorkReported, CycleRecords
  <2>2. /\ x.visit = "WORK_REPORTED" /\ x.kind = cycles[c].kind /\ x.parent = cycles[c].parent
        /\ x.scope = s /\ (s = cycles[c].scope \/ cycles[c].scope = NoScope)
    BY <1>0 DEF CycleRecords
  <2> HIDE DEF s, x
  <2>3. cycles'[c] = x /\ \A b \in Cycles : b # c => Same(b)
    BY <1>0, <2>1 DEF Same
  <2>4. Moved(c)
    BY <1>0, <2>1, <2>2, <2>3, VisitExists DEF Moved, Verified
  <2> QED BY <2>3, <2>4
<1>8. ASSUME NEW c \in Cycles, NEW scope \in Scopes, WorkEvidence(c, scope)
      PROVE  \A b \in Cycles : Same(b) \/ Moved(b)
  <2>1. /\ MoveVisit(c, {"ATTENDED", "WORK_REPORTED"}, "WORK_VERIFIED")
        /\ obligations' = Opened(IF RequiresPayment(c) THEN {} ELSE {NoticeDuty(c)})
        /\ ScopeAdmitted(c, scope)
    BY <1>8 DEF WorkEvidence
  <2>2. /\ cycles[c].visit \in {"ATTENDED", "WORK_REPORTED"}
        /\ cycles'[c].visit = "WORK_VERIFIED"
        /\ cycles'[c].kind = cycles[c].kind /\ cycles'[c].parent = cycles[c].parent
        /\ cycles'[c].scope = cycles[c].scope
        /\ \A b \in Cycles : b # c => Same(b)
    BY <1>0, <2>1, VisitMoved
  <2>3. RequiresPayment(c) \/ obligations'[NoticeDuty(c)] # "ABSENT"
    <3>1. CASE ~RequiresPayment(c)
      <4>1. obligations' = Opened({NoticeDuty(c)})
        BY <2>1, <3>1
      <4> QED BY <1>0, <4>1, OpenedDuties, DutiesDistinct DEF RecordInv
    <3> QED BY <3>1
  <2>4. cycles[c].kind = "WARRANTY_REVISIT" => cycles[cycles[c].parent].scope \in Scopes
    BY <2>1 DEF ScopeAdmitted
  <2>5. Moved(c)
    BY <1>0, <2>2, <2>3, <2>4, VisitExists DEF Moved, Verified
  <2> QED BY <2>2, <2>5
<1> QED BY <1>2, <1>3, <1>4, <1>5, <1>6, <1>7, <1>8

\* The report, a quote and a reopening begin one cycle at most, each its own.
LEMMA CycleBegins ==
  ASSUME IInv, NEW c \in Cycles, NEW x \in CycleRecords, ~Exists(c), x.kind # "ABSENT",
         x.visit = "NONE", cycles' = [cycles EXCEPT ![c] = x],
         x.kind = "WARRANTY_REVISIT" =>
           LET closed == closing.cycle
           IN /\ phase = "PROVISIONALLY_CLOSED" /\ Verified(closed) /\ closed \in Cycles
              /\ x.parent = closed /\ x.scope = cycles[closed].scope
  PROVE  Begun(c) /\ \A b \in Cycles : b # c => Same(b)
<1>1. cycles \in [Cycles -> CycleRecords]
  BY DEF IInv, RecordInv, CycleRecords
<1>2. cycles'[c] = x /\ \A b \in Cycles : b # c => cycles'[b] = cycles[b]
  BY <1>1
<1> QED BY <1>2 DEF Begun, Same

LEMMA ReportBegins ==
  ASSUME IInv, IssueReported
  PROVE  /\ FirstCycle \in Cycles /\ Begun(FirstCycle)
         /\ \A b \in Cycles : b # FirstCycle => Same(b)
<1> DEFINE x == NewCycle("DIAGNOSTIC", NoCycle, NoScope)
<1>1. FirstCycle \in Cycles
  BY MaintenanceAssumption DEF FirstCycle, Cycles
<1>2. x \in CycleRecords /\ x.kind = "DIAGNOSTIC" /\ x.visit = "NONE"
  BY DEF NewCycle, Absent, CycleRecords, Kinds, Visits
<1>3. ~Exists(FirstCycle) /\ cycles' = [cycles EXCEPT ![FirstCycle] = x]
  BY <1>1 DEF IssueReported, IInv, WindowInv, Absent, Exists
<1> HIDE DEF x
<1> QED BY <1>1, <1>2, <1>3, CycleBegins

LEMMA QuoteBegins ==
  ASSUME IInv, NEW q \in Quotes, QuoteReceived(q)
  PROVE  LET c == QuoteOf[q].cycle
         IN \/ Exists(c) /\ cycles' = cycles
            \/ ~Exists(c) /\ Begun(c) /\ \A b \in Cycles : b # c => Same(b)
<1> DEFINE c == QuoteOf[q].cycle
           x == NewCycle("APPROVED_WORK", NoCycle, QuoteOf[q].scope)
<1>1. c \in Cycles /\ x \in CycleRecords /\ x.kind = "APPROVED_WORK" /\ x.visit = "NONE"
  BY QuoteType DEF NewCycle, Absent, CycleRecords, Kinds, Visits
<1>2. cycles' = IF Exists(c) THEN cycles ELSE [cycles EXCEPT ![c] = x]
  BY DEF QuoteReceived
<1> HIDE DEF c, x
<1>3. ASSUME ~Exists(c) PROVE Begun(c) /\ \A b \in Cycles : b # c => Same(b)
  BY <1>1, <1>2, <1>3, CycleBegins
<1>4. \/ Exists(c) /\ cycles' = cycles
      \/ ~Exists(c) /\ Begun(c) /\ \A b \in Cycles : b # c => Same(b)
  BY <1>2, <1>3
<1> QED BY <1>4 DEF c

LEMMA ReopeningBegins ==
  ASSUME IInv, NextCycleIsFree, Reopen
  PROVE  /\ NextCycle \in Cycles /\ Begun(NextCycle)
         /\ \A b \in Cycles : b # NextCycle => Same(b)
<1>1. PICK c \in Cycles : c = NextCycle
  BY DEF Reopen
<1>2. PICK b : b = closing.cycle
  OBVIOUS
<1> DEFINE x == NewCycle("WARRANTY_REVISIT", b, cycles[b].scope)
<1>3. /\ phase = "PROVISIONALLY_CLOSED" /\ Running /\ cycles' = [cycles EXCEPT ![c] = x]
  BY <1>1, <1>2 DEF Reopen
<1>4. b \in Cycles /\ Verified(b) /\ ~Exists(c)
  BY <1>1, <1>2, <1>3 DEF IInv, WindowInv, WindowHasItsTimer, Running, NextCycleIsFree
<1>5. /\ x \in CycleRecords /\ x.kind = "WARRANTY_REVISIT" /\ x.visit = "NONE"
      /\ x.parent = b /\ x.scope = cycles[b].scope
  BY <1>4 DEF NewCycle, Absent, CycleRecords, Kinds, Visits, IInv, RecordInv
<1> HIDE DEF x
<1> QED BY <1>1, <1>2, <1>3, <1>4, <1>5, CycleBegins

LEMMA CyclesMove ==
  ASSUME IInv, NextCycleIsFree, [Next]_vars
  PROVE  CycleMoves
<1>1. CASE IssueReported
  BY <1>1, ReportBegins DEF CycleMoves
<1>2. CASE Reopen
  BY <1>2, ReopeningBegins DEF CycleMoves
<1>3. CASE \E q \in Quotes : QuoteReceived(q)
  BY <1>3, QuoteBegins DEF CycleMoves, Same
<1>4. CASE ~IssueReported /\ ~Reopen /\ ~(\E q \in Quotes : QuoteReceived(q))
  BY <1>4, WhoMovesCycles, VisitsMove DEF CycleMoves
<1> QED BY <1>1, <1>2, <1>3, <1>4

\* A notice owed is opened once and discharged once; nothing else becomes of it.
LEMMA NoticesMove ==
  ASSUME IInv, [Next]_vars
  PROVE  NoticeMoves
<1> USE DEF dutyVars
<1>0. obligations \in [Duties -> DutyStates]
  BY DEF IInv, RecordInv
<1>1. ASSUME UNCHANGED obligations PROVE NoticeMoves
  BY <1>1 DEF NoticeMoves
<1>2. ASSUME NEW ds, obligations' = Opened(ds) PROVE NoticeMoves
  BY <1>0, <1>2, OpenedDuties, DutiesDistinct DEF NoticeMoves
<1>3. ASSUME NEW ds, NEW status \in DutyStates, obligations' = Closed(obligations, ds, status),
             status = "DISCHARGED" \/ \A c \in Cycles : NoticeDuty(c) \notin ds
      PROVE  NoticeMoves
  BY <1>0, <1>3, ClosedDuties, DutiesDistinct DEF NoticeMoves
<1>4. {"DISCHARGED", "CANCELLED", "BREACHED"} \subseteq DutyStates
  BY DEF DutyStates
<1>5. ASSUME NEW ts, NEW ds, Arm(ts, ds) PROVE NoticeMoves
  BY <1>1, <1>2, <1>5 DEF Arm
<1>6. CASE Advance
  BY <1>1, <1>6 DEF Advance
<1>7. CASE Timer
  <2>1. PICK e : VisitFollowupDue(e) \/ ReminderDue(e) \/ DeadlineDue(e) \/ ProvisionalExpired(e)
    BY <1>7 DEF Timer
  <2>2. CASE VisitFollowupDue(e)
    <3>1. PICK c \in Cycles : \/ obligations' = obligations
                              \/ obligations' = Closed(obligations, {VisitDuty(c)}, "BREACHED")
      BY <2>2 DEF VisitFollowupDue
    <3> QED BY <1>1, <1>3, <1>4, <3>1, DutiesDistinct
  <2>3. CASE DeadlineDue(e)
    <3>1. PICK k \in Checkpoints :
            \/ obligations' = obligations
            \/ obligations' = Closed(obligations, {ReminderDuty(k), DecisionDuty(k)}, "CANCELLED")
      BY <2>3 DEF DeadlineDue
    <3> QED BY <1>1, <1>3, <1>4, <3>1, DutiesDistinct
  <2> QED BY <1>1, <2>1, <2>2, <2>3 DEF ReminderDue, ProvisionalExpired
<1>8. CASE Event
  <2>1. CASE Settlement
    BY <1>2, <2>1 DEF Settlement
  <2>2. ASSUME NEW c \in Cycles, AttendanceVerified(c) PROVE NoticeMoves
    BY <1>3, <1>4, <2>2, DutiesDistinct DEF AttendanceVerified
  <2>3. ASSUME NEW c \in Cycles, NEW scope \in Scopes, WorkEvidence(c, scope) PROVE NoticeMoves
    BY <1>2, <2>3 DEF WorkEvidence
  <2>4. ASSUME NEW k \in Checkpoints, NEW answer, ApproverDecision(k, answer) PROVE NoticeMoves
    <3> DEFINE os == Closed(obligations, {ReminderDuty(k)}, "CANCELLED")
    <3>1. obligations' = Closed(os, {DecisionDuty(k)}, "DISCHARGED")
      BY <2>4 DEF ApproverDecision
    <3>2. /\ os \in [Duties -> DutyStates]
          /\ \A c \in Cycles : os[NoticeDuty(c)] = obligations[NoticeDuty(c)]
      BY <1>0, <1>4, ClosedDuties, DutiesDistinct
    <3> HIDE DEF os
    <3>3. \A c \in Cycles : obligations'[NoticeDuty(c)] = os[NoticeDuty(c)]
      BY <1>4, <3>1, <3>2, ClosedDuties, DutiesDistinct
    <3> QED BY <3>2, <3>3 DEF NoticeMoves
  <2> QED BY <1>1, <1>8, <2>1, <2>2, <2>3, <2>4 DEF Event, IssueReported, Reopen, VisitResponse,
             WorkReported, QuoteReceived, OperatorResolution, InvoiceReceived, InvoiceValidation,
             CustomerResolution
<1>9. CASE Action
  <2>1. ASSUME NEW c \in Cycles, SendCompletionNotice(c) PROVE NoticeMoves
    <3>1. \/ obligations' = obligations
          \/ obligations' = Closed(obligations, {NoticeDuty(c)}, "DISCHARGED")
      BY <2>1 DEF SendCompletionNotice
    <3> QED BY <1>1, <1>3, <1>4, <3>1
  <2>2. ASSUME NEW c \in Cycles, SendReminder(c) PROVE NoticeMoves
    <3>1. \E ks : \/ obligations' = obligations
                  \/ obligations' = Closed(obligations, {ReminderDuty(k) : k \in ks}, "DISCHARGED")
      BY <2>2 DEF SendReminder
    <3> QED BY <1>1, <1>3, <1>4, <3>1
  <2>3. ASSUME NEW c \in Cycles, RequestVisit(c) PROVE NoticeMoves
    BY <1>5, <2>3 DEF RequestVisit
  <2>4. ASSUME NEW q \in Quotes, RequestApproval(q) PROVE NoticeMoves
    BY <1>5, <2>4 DEF RequestApproval
  <2>5. ASSUME NEW k \in Checkpoints, AuthoriseSupplierWork(k) PROVE NoticeMoves
    BY <1>5, <2>5 DEF AuthoriseSupplierWork
  <2>6. CASE CompleteProvisionally
    BY <1>5, <2>6 DEF CompleteProvisionally
  <2> QED BY <1>1, <1>9, <2>1, <2>2, <2>3, <2>4, <2>5, <2>6 DEF Action, SendTransferNotice,
             RequestInvoiceValidation, RequestPayment, RequestExceptionResolution,
             CompleteByTransfer
<1>10. CASE UNCHANGED vars
  BY <1>1, <1>10 DEF vars
<1> QED BY <1>6, <1>7, <1>8, <1>9, <1>10 DEF Next

\* An approved quote stays approved: an answer, or its want, is about another one.
LEMMA QuotesMove ==
  ASSUME IInv, [Next]_vars
  PROVE  QuoteMoves
<1> USE DEF humanVars
<1>0. quotes \in [Quotes -> [status : {"ABSENT", "RECEIVED"} \cup Answers, until : Nat]]
  BY DEF IInv, RecordInv
<1>1. ASSUME UNCHANGED quotes PROVE QuoteMoves
  BY <1>1 DEF QuoteMoves
<1>2. ASSUME NEW k \in OpenApprovals, NEW answer,
             quotes' = [quotes EXCEPT ![approvals[k].quote].status = answer]
      PROVE  QuoteMoves
  <2>1. quotes[approvals[k].quote].status = "RECEIVED"
    BY DEF IInv, DecisionInv, Asked, OpenApprovals
  <2>2. \A q \in Quotes : q # approvals[k].quote => quotes'[q] = quotes[q]
    BY <1>0, <1>2
  <2> QED BY <2>1, <2>2 DEF QuoteMoves
<1>3. ASSUME NEW q \in Quotes, QuoteReceived(q) PROVE QuoteMoves
  BY <1>0, <1>3 DEF QuoteReceived, QuoteMoves
<1>4. CASE Timer
  <2>1. PICK e : VisitFollowupDue(e) \/ ReminderDue(e) \/ DeadlineDue(e) \/ ProvisionalExpired(e)
    BY <1>4 DEF Timer
  <2>2. CASE DeadlineDue(e)
    BY <1>1, <1>2, <2>2 DEF DeadlineDue
  <2> QED BY <1>1, <2>1, <2>2 DEF VisitFollowupDue, ReminderDue, ProvisionalExpired
<1>5. CASE Event
  <2>1. ASSUME NEW k \in Checkpoints, NEW answer, ApproverDecision(k, answer) PROVE QuoteMoves
    BY <1>2, <2>1 DEF ApproverDecision
  <2> QED BY <1>1, <1>3, <1>5, <2>1 DEF Event, IssueReported, Settlement, Reopen, VisitResponse,
             AttendanceVerified, WorkReported, WorkEvidence, OperatorResolution, InvoiceReceived,
             InvoiceValidation, CustomerResolution
<1>6. CASE Action
  BY <1>1, <1>6 DEF Action, RequestVisit, SendCompletionNotice, SendReminder, RequestApproval,
     AuthoriseSupplierWork, SendTransferNotice, RequestInvoiceValidation, RequestPayment,
     RequestExceptionResolution, CompleteByTransfer, CompleteProvisionally
<1>7. CASE Advance \/ UNCHANGED vars
  BY <1>1, <1>7 DEF Advance, vars
<1> QED BY <1>4, <1>5, <1>6, <1>7 DEF Next

\* An invoice goes to review only while it is billable, and stays validated.
LEMMA InvoicesMove ==
  ASSUME [Next]_vars, DOMAIN invoices = Invoices
  PROVE  InvoiceMoves /\ DOMAIN invoices' = Invoices
<1> USE DEF moneyVars
<1>1. ASSUME UNCHANGED invoices PROVE InvoiceMoves /\ DOMAIN invoices' = Invoices
  BY <1>1 DEF InvoiceMoves
<1>2. ASSUME NEW i \in Invoices, NEW from, NEW to, MoveInvoice(i, from, to), from # "VALIDATED",
             to \in Reviewed => from \in Reviewed \/ Billable(i)
      PROVE  InvoiceMoves /\ DOMAIN invoices' = Invoices
  <2>1. /\ invoices[i] = from /\ invoices'[i] = to /\ DOMAIN invoices' = Invoices
        /\ \A j \in Invoices : j # i => invoices'[j] = invoices[j]
    BY <1>2 DEF MoveInvoice
  <2> QED BY <1>2, <2>1 DEF InvoiceMoves
<1>3. CASE Event
  <2>1. ASSUME NEW i \in Invoices, InvoiceReceived(i)
        PROVE  InvoiceMoves /\ DOMAIN invoices' = Invoices
    BY <1>2, <2>1 DEF InvoiceReceived, Reviewed
  <2>2. ASSUME NEW i \in Invoices, InvoiceValidation(i)
        PROVE  InvoiceMoves /\ DOMAIN invoices' = Invoices
    BY <1>2, <2>2 DEF InvoiceValidation, Reviewed
  <2> QED BY <1>1, <1>3, <2>1, <2>2 DEF Event, IssueReported, Settlement, Reopen, VisitResponse,
             AttendanceVerified, WorkReported, WorkEvidence, QuoteReceived, ApproverDecision,
             OperatorResolution, CustomerResolution
<1>4. CASE Action
  <2>1. ASSUME NEW i \in Invoices, RequestInvoiceValidation(i)
        PROVE  InvoiceMoves /\ DOMAIN invoices' = Invoices
    BY <1>2, <2>1 DEF RequestInvoiceValidation
  <2> QED BY <1>1, <1>4, <2>1 DEF Action, RequestVisit, SendCompletionNotice, SendReminder,
             RequestApproval, AuthoriseSupplierWork, SendTransferNotice, RequestPayment,
             RequestExceptionResolution, CompleteByTransfer, CompleteProvisionally
<1>5. CASE Advance \/ Timer \/ UNCHANGED vars
  BY <1>1, <1>5 DEF Advance, Timer, VisitFollowupDue, ReminderDue, DeadlineDue, ProvisionalExpired, vars
<1> QED BY <1>3, <1>4, <1>5 DEF Next

\* The payment is requested once, and settled once, which owes the notice.
LEMMA PaymentsMove ==
  ASSUME [Next]_vars
  PROVE  PaymentMoves
<1> USE DEF moneyVars
<1>1. ASSUME UNCHANGED payment PROVE PaymentMoves
  BY <1>1 DEF PaymentMoves
<1>2. CASE Event
  <2>1. CASE Settlement
    BY <2>1 DEF Settlement, OwedOnSettlement, PaymentMoves
  <2> QED BY <1>1, <1>2, <2>1 DEF Event, IssueReported, Reopen, VisitResponse,
             AttendanceVerified, WorkReported, WorkEvidence, QuoteReceived, ApproverDecision,
             OperatorResolution, InvoiceReceived, InvoiceValidation, CustomerResolution
<1>3. CASE Action
  <2>1. ASSUME NEW i \in Invoices, RequestPayment(i) PROVE PaymentMoves
    BY <2>1 DEF RequestPayment, PaymentMoves, Requested
  <2> QED BY <1>1, <1>3, <2>1 DEF Action, RequestVisit, SendCompletionNotice, SendReminder,
             RequestApproval, AuthoriseSupplierWork, SendTransferNotice, RequestInvoiceValidation,
             RequestExceptionResolution, CompleteByTransfer, CompleteProvisionally
<1>4. CASE Advance \/ Timer \/ UNCHANGED vars
  BY <1>1, <1>4 DEF Advance, Timer, VisitFollowupDue, ReminderDue, DeadlineDue, ProvisionalExpired, vars
<1> QED BY <1>2, <1>3, <1>4 DEF Next

\* A provisional close is entered by its action, from a verified, paid cycle, and
\* keeps its cycle as long as it lasts.
LEMMA PhaseMove ==
  ASSUME [Next]_vars
  PROVE  PhaseMoves
<1> USE DEF workVars, endVars, moneyVars
<1>1. ASSUME phase' = phase /\ closing' = closing PROVE PhaseMoves
  BY <1>1 DEF PhaseMoves
<1>2. ASSUME phase' # "PROVISIONALLY_CLOSED" PROVE PhaseMoves
  BY <1>2 DEF PhaseMoves
<1>3. CASE Timer
  <2>1. PICK e : VisitFollowupDue(e) \/ ReminderDue(e) \/ DeadlineDue(e) \/ ProvisionalExpired(e)
    BY <1>3 DEF Timer
  <2>2. CASE ProvisionalExpired(e)
    BY <1>1, <1>2, <2>2 DEF ProvisionalExpired
  <2> QED BY <1>1, <2>1, <2>2 DEF VisitFollowupDue, ReminderDue, DeadlineDue
<1>4. CASE Event
  <2>1. CASE IssueReported \/ Reopen
    BY <1>2, <2>1 DEF IssueReported, Reopen
  <2>2. ASSUME NEW k, NEW answer, ApproverDecision(k, answer) \/ OperatorResolution(k, answer)
        PROVE  PhaseMoves
    BY <1>2, <2>2 DEF ApproverDecision, OperatorResolution
  <2> QED BY <1>1, <1>4, <2>1, <2>2 DEF Event, Settlement, VisitResponse, AttendanceVerified,
             WorkReported, WorkEvidence, QuoteReceived, InvoiceReceived, InvoiceValidation,
             CustomerResolution
<1>5. CASE Action
  <2>1. CASE CompleteProvisionally
    BY <2>1 DEF CompleteProvisionally, MayComplete, PaidFor, PhaseMoves
  <2>2. CASE RequestExceptionResolution \/ CompleteByTransfer
    BY <1>2, <2>2 DEF RequestExceptionResolution, CompleteByTransfer
  <2>3. ASSUME NEW c, RequestVisit(c) \/ RequestApproval(c) \/ AuthoriseSupplierWork(c)
        PROVE  PhaseMoves
    BY <1>2, <2>3 DEF RequestVisit, RequestApproval, AuthoriseSupplierWork
  <2> QED BY <1>1, <1>5, <2>1, <2>2, <2>3 DEF Action, SendCompletionNotice, SendReminder,
             SendTransferNotice, RequestInvoiceValidation, RequestPayment
<1>6. CASE Advance \/ UNCHANGED vars
  BY <1>1, <1>6 DEF Advance, vars
<1> QED BY <1>3, <1>4, <1>5, <1>6 DEF Next

-----------------------------------------------------------------------------
(* What those moves keep.                                                    *)

\* A revisit repeats verified work, and passes only with its scope.
Repeats(c) ==
  cycles[c].kind = "WARRANTY_REVISIT" =>
    LET parent == cycles[c].parent
    IN /\ parent \in Cycles /\ Verified(parent)
       /\ cycles[parent].scope = NoScope \/ cycles[c].scope = cycles[parent].scope
       /\ Verified(c) => cycles[c].scope # NoScope /\ cycles[parent].scope # NoScope

\* Work verified that nobody pays for owes the notice of completion, or owed it.
Told(c) ==
  /\ obligations[NoticeDuty(c)] \in {"ABSENT", "OPEN", "DISCHARGED"}
  /\ Verified(c) /\ ~RequiresPayment(c) => obligations[NoticeDuty(c)] # "ABSENT"

\* So does work that was paid for; and payable work closes only paid for.
PaymentInv ==
  /\ payment.status # "NOT_REQUESTED" =>
       payment.invoice \in Invoices /\ payment.cycle \in Cycles
  /\ payment.status = "SETTLED" => obligations[NoticeDuty(payment.cycle)] # "ABSENT"
  /\ phase = "PROVISIONALLY_CLOSED" /\ RequiresPayment(closing.cycle) => payment.status = "SETTLED"

WorkInv ==
  /\ DOMAIN invoices = Invoices
  /\ payment = [status |-> payment.status, invoice |-> payment.invoice, cycle |-> payment.cycle]
  /\ \A c \in Cycles : Repeats(c) /\ Told(c)
  /\ PaymentInv /\ MoneyFollowsVerifiedWork /\ CustomerToldAfterTheFact

LEMMA WorkInvInit == Init => WorkInv
<1> SUFFICES ASSUME Init PROVE WorkInv
  OBVIOUS
<1>1. /\ \A c \in Cycles : cycles[c] = Absent
      /\ \A c \in Cycles : obligations[NoticeDuty(c)] = "ABSENT"
      /\ DOMAIN invoices = Invoices /\ \A i \in Invoices : invoices[i] = "ABSENT"
      /\ payment = [status |-> "NOT_REQUESTED", invoice |-> "none", cycle |-> NoCycle]
      /\ phase = "NEW"
  BY DutiesDistinct DEF Init
<1>2. \A c \in Cycles : Repeats(c) /\ Told(c)
  BY <1>1 DEF Repeats, Told, Verified, Absent
<1> QED BY <1>1, <1>2 DEF WorkInv, PaymentInv, MoneyFollowsVerifiedWork, CustomerToldAfterTheFact

\* Verified work is over: its cycle never changes again.
LEMMA VerifiedStays ==
  ASSUME IInv, CycleMoves, NEW c \in Cycles, Verified(c)
  PROVE  Same(c) /\ Exists(c)
<1>1. Exists(c)
  BY VisitExists DEF IInv, Verified
<1> QED BY <1>1 DEF CycleMoves, Begun, Moved

LEMMA RepeatsKept ==
  ASSUME IInv, WorkInv, CycleMoves, NEW c \in Cycles
  PROVE  Repeats(c)'
<1> SUFFICES ASSUME cycles'[c].kind = "WARRANTY_REVISIT" PROVE Repeats(c)'
  BY DEF Repeats
<1>1. Repeats(c) /\ \A p \in Cycles : Verified(p) => Same(p)
  BY VerifiedStays DEF WorkInv
<1>2. NoScope \notin Scopes
  BY MaintenanceAssumption
<1>3. CASE Same(c)
  BY <1>1, <1>3 DEF Repeats, Same, Verified
<1>4. CASE Begun(c)
  <2> DEFINE p == closing.cycle
  <2>1. /\ p \in Cycles /\ Verified(p) /\ cycles'[c].parent = p
        /\ cycles'[c].scope = cycles[p].scope /\ cycles'[c].visit = "NONE"
    BY <1>4 DEF Begun
  <2>2. cycles'[p] = cycles[p]
    BY <1>1, <2>1 DEF Same
  <2> HIDE DEF p
  <2> QED BY <2>1, <2>2 DEF Repeats, Verified
<1>5. CASE Moved(c)
  <2> DEFINE p == cycles[c].parent
  <2>1. /\ cycles[c].kind = "WARRANTY_REVISIT" /\ cycles'[c].parent = p
        /\ cycles'[c].scope = cycles[c].scope \/ cycles[c].scope = NoScope
        /\ Verified(c)' => cycles'[c].scope = cycles[c].scope /\ cycles[p].scope \in Scopes
    BY <1>5 DEF Moved
  <2>2. /\ p \in Cycles /\ Verified(p)
        /\ cycles[p].scope = NoScope \/ cycles[c].scope = cycles[p].scope
    BY <1>1, <2>1 DEF Repeats
  <2>3. cycles'[p] = cycles[p]
    BY <1>1, <2>2 DEF Same
  <2> HIDE DEF p
  <2> QED BY <1>2, <2>1, <2>2, <2>3 DEF Repeats, Verified
<1> QED BY <1>3, <1>4, <1>5 DEF CycleMoves

LEMMA ToldKept ==
  ASSUME IInv, WorkInv, CycleMoves, NoticeMoves, NEW c \in Cycles
  PROVE  Told(c)'
<1>1. Told(c)
  BY DEF WorkInv
<1>2. /\ obligations'[NoticeDuty(c)] \in {"ABSENT", "OPEN", "DISCHARGED"}
      /\ obligations[NoticeDuty(c)] # "ABSENT" => obligations'[NoticeDuty(c)] # "ABSENT"
  BY <1>1 DEF Told, NoticeMoves
<1>3. CASE Same(c)
  BY <1>1, <1>2, <1>3 DEF Told, Same, Verified, RequiresPayment
<1>4. CASE Begun(c)
  BY <1>2, <1>4 DEF Told, Begun, Verified
<1>5. CASE Moved(c)
  BY <1>2, <1>5 DEF Told, Moved, Verified, RequiresPayment
<1> QED BY <1>3, <1>4, <1>5 DEF CycleMoves

\* What a bill rests on stays true of it.
LEMMA MoneyKept ==
  ASSUME IInv, WorkInv, CycleMoves, QuoteMoves, InvoiceMoves, PaymentMoves
  PROVE  MoneyFollowsVerifiedWork'
<1>0. \A c \in Cycles : Verified(c) => Verified(c)' /\ cycles'[c].kind = cycles[c].kind
  BY VerifiedStays DEF Same, Verified
<1>1. \A i \in Invoices : InvoiceOf[i].cycle \in Cycles /\ InvoiceOf[i].quote \in Quotes
  BY MaintenanceAssumption DEF InvoiceTerms
<1>2. ASSUME NEW i \in Invoices, invoices'[i] \in Reviewed
      PROVE  LET bill == InvoiceOf[i]
             IN /\ Verified(bill.cycle)'
                /\ quotes'[bill.quote].status = "APPROVED"
                /\ bill.amount = QuoteOf[bill.quote].amount
                /\ bill.cycle = QuoteOf[bill.quote].cycle
  <2>1. /\ Verified(InvoiceOf[i].cycle) /\ quotes[InvoiceOf[i].quote].status = "APPROVED"
        /\ InvoiceOf[i].amount = QuoteOf[InvoiceOf[i].quote].amount
        /\ InvoiceOf[i].cycle = QuoteOf[InvoiceOf[i].quote].cycle
    <3>1. CASE invoices[i] \in Reviewed
      BY <3>1 DEF WorkInv, MoneyFollowsVerifiedWork, Reviewed
    <3>2. CASE Billable(i)
      BY <3>2 DEF Billable
    <3> QED BY <1>2, <3>1, <3>2 DEF InvoiceMoves
  <2> QED BY <1>0, <1>1, <2>1 DEF QuoteMoves
<1>3. payment'.status # "NOT_REQUESTED" =>
        /\ invoices'[payment'.invoice] = "VALIDATED"
        /\ InvoiceOf[payment'.invoice].cycle = payment'.cycle
        /\ RequiresPayment(payment.cycle)' /\ Verified(payment.cycle)'
  <2>1. ASSUME NEW i \in Invoices, NEW c \in Cycles, payment'.invoice = i, payment'.cycle = c,
               invoices[i] = "VALIDATED", InvoiceOf[i].cycle = c, RequiresPayment(c), Verified(c)
        PROVE  <1>3!2
    <3>1. invoices'[i] = "VALIDATED"
      BY <2>1 DEF InvoiceMoves
    <3> QED BY <1>0, <2>1, <3>1 DEF RequiresPayment, Verified
  <2>2. ASSUME payment.status # "NOT_REQUESTED", payment'.invoice = payment.invoice,
               payment'.cycle = payment.cycle
        PROVE  <1>3!2
    <3>1. /\ payment.invoice \in Invoices /\ payment.cycle \in Cycles
          /\ invoices[payment.invoice] = "VALIDATED"
          /\ InvoiceOf[payment.invoice].cycle = payment.cycle
          /\ RequiresPayment(payment.cycle) /\ Verified(payment.cycle)
      BY <2>2 DEF WorkInv, PaymentInv, MoneyFollowsVerifiedWork
    <3> QED BY <2>1, <2>2, <3>1
  <2>3. CASE payment' = payment
    BY <2>2, <2>3
  <2>4. ASSUME NEW i \in Invoices, Requested(i) PROVE <1>3!2
    <3>1. payment'.invoice = i /\ payment'.cycle = InvoiceOf[i].cycle
      BY <2>4 DEF Requested
    <3> QED BY <1>1, <2>1, <2>4, <3>1 DEF Requested
  <2>5. ASSUME payment.status = "REQUESTED", payment' = [payment EXCEPT !.status = "SETTLED"]
        PROVE  <1>3!2
    <3>1. payment'.invoice = payment.invoice /\ payment'.cycle = payment.cycle
      BY <2>5 DEF WorkInv
    <3> QED BY <2>2, <2>5, <3>1
  <2> QED BY <2>3, <2>4, <2>5 DEF PaymentMoves
<1> QED BY <1>2, <1>3 DEF MoneyFollowsVerifiedWork, Reviewed

\* A settlement owes the notice, and a closure settled is settled for good.
LEMMA PaymentKept ==
  ASSUME IInv, Running, WorkInv, CycleMoves, NoticeMoves, PaymentMoves, PhaseMoves
  PROVE  /\ PaymentInv'
         /\ payment' = [status |-> payment'.status, invoice |-> payment'.invoice,
                        cycle |-> payment'.cycle]
         /\ payment.status = "SETTLED" => payment' = payment
<1> USE DEF WorkInv
<1>0. \A i \in Invoices : InvoiceOf[i].cycle \in Cycles
  BY MaintenanceAssumption DEF InvoiceTerms
<1>1. \/ payment' = payment
      \/ /\ payment.status = "NOT_REQUESTED" /\ payment'.status = "REQUESTED"
         /\ payment'.invoice \in Invoices /\ payment'.cycle \in Cycles
      \/ /\ payment.status = "REQUESTED" /\ payment'.status = "SETTLED"
         /\ payment'.invoice = payment.invoice /\ payment'.cycle = payment.cycle
         /\ obligations' = Opened({NoticeDuty(payment.cycle)})
  BY <1>0 DEF PaymentMoves, Requested
<1>2. payment' = [status |-> payment'.status, invoice |-> payment'.invoice, cycle |-> payment'.cycle]
  BY DEF PaymentMoves, Requested
<1>3. payment.status = "SETTLED" => payment' = payment
  BY <1>1
<1>4. payment'.status # "NOT_REQUESTED" =>
        payment'.invoice \in Invoices /\ payment'.cycle \in Cycles
  BY <1>1 DEF PaymentInv
<1>5. payment'.status = "SETTLED" => obligations'[NoticeDuty(payment'.cycle)] # "ABSENT"
  <2>1. CASE payment' = payment
    BY <2>1 DEF PaymentInv, NoticeMoves
  <2>2. CASE payment.status = "REQUESTED" /\ obligations' = Opened({NoticeDuty(payment.cycle)})
             /\ payment'.cycle = payment.cycle
    <3>1. PICK c \in Cycles : c = payment.cycle
      BY <2>2 DEF PaymentInv
    <3>2. obligations \in [Duties -> DutyStates] /\ NoticeDuty(c) \in Duties
      BY DutiesDistinct DEF IInv, RecordInv
    <3>3. Opened({NoticeDuty(c)})[NoticeDuty(c)] # "ABSENT"
      BY <3>2, OpenedDuties
    <3> QED BY <2>2, <3>1, <3>3
  <2> QED BY <1>1, <2>1, <2>2
<1>6. phase' = "PROVISIONALLY_CLOSED" /\ RequiresPayment(closing.cycle)' => payment'.status = "SETTLED"
  <2> SUFFICES ASSUME phase' = "PROVISIONALLY_CLOSED", RequiresPayment(closing.cycle)'
               PROVE  payment'.status = "SETTLED"
    OBVIOUS
  <2>1. CASE phase = "PROVISIONALLY_CLOSED" /\ closing' = closing
    <3>1. closing.cycle \in Cycles /\ Verified(closing.cycle)
      BY <2>1 DEF IInv, WindowInv, WindowHasItsTimer, Running
    <3>2. RequiresPayment(closing.cycle)
      BY <2>1, <3>1, VerifiedStays DEF RequiresPayment, Same
    <3> QED BY <1>3, <2>1, <3>2 DEF PaymentInv
  <2>2. CASE ~(phase = "PROVISIONALLY_CLOSED" /\ closing' = closing)
    BY <2>2 DEF PhaseMoves, RequiresPayment
  <2> QED BY <2>1, <2>2
<1> QED BY <1>2, <1>3, <1>4, <1>5, <1>6 DEF PaymentInv

\* Who is told at the close stays told.
LEMMA CustomerStaysTold ==
  ASSUME IInv, Running, WorkInv, CycleMoves, NoticeMoves, PaymentMoves, PhaseMoves
  PROVE  CustomerToldAfterTheFact'
<1> SUFFICES ASSUME phase' = "PROVISIONALLY_CLOSED",
                    RequiresPayment(closing.cycle)' => payment'.cycle = closing'.cycle
             PROVE  obligations'[NoticeDuty(closing'.cycle)] = "DISCHARGED"
  BY DEF CustomerToldAfterTheFact
<1>1. CASE phase = "PROVISIONALLY_CLOSED" /\ closing' = closing
  <2>1. closing.cycle \in Cycles /\ Verified(closing.cycle)
    BY <1>1 DEF IInv, WindowInv, WindowHasItsTimer, Running
  <2>2. cycles'[closing.cycle] = cycles[closing.cycle]
    BY <2>1, VerifiedStays DEF Same
  <2>3. RequiresPayment(closing.cycle) => payment.cycle = closing.cycle
    BY <1>1, <2>2, PaymentKept DEF WorkInv, PaymentInv, RequiresPayment
  <2>4. obligations[NoticeDuty(closing.cycle)] = "DISCHARGED"
    BY <1>1, <2>3 DEF WorkInv, CustomerToldAfterTheFact
  <2> QED BY <1>1, <2>1, <2>4 DEF NoticeMoves
<1>2. CASE ~(phase = "PROVISIONALLY_CLOSED" /\ closing' = closing)
  <2>1. /\ Exists(current) /\ Verified(current) /\ NoOpenDuty /\ closing'.cycle = current
        /\ RequiresPayment(current) => payment.status = "SETTLED"
        /\ cycles' = cycles /\ payment' = payment
    BY <1>2 DEF PhaseMoves
  <2>2. PICK c \in Cycles : c = current
    BY <2>1 DEF Exists
  <2>3. obligations[NoticeDuty(c)] # "OPEN" /\ Told(c)
    BY <2>1, DutiesDistinct DEF NoOpenDuty, WorkInv
  <2>4. obligations[NoticeDuty(c)] # "ABSENT"
    <3>1. CASE RequiresPayment(c)
      <4>1. payment.cycle = c /\ payment.status = "SETTLED"
        BY <2>1, <2>2, <3>1 DEF RequiresPayment
      <4> QED BY <4>1 DEF WorkInv, PaymentInv
    <3>2. CASE ~RequiresPayment(c)
      BY <2>1, <2>2, <2>3, <3>2 DEF Told
    <3> QED BY <3>1, <3>2
  <2>5. obligations[NoticeDuty(c)] = "DISCHARGED"
    BY <2>3, <2>4 DEF Told
  <2> QED BY <2>1, <2>2, <2>5 DEF NoticeMoves
<1> QED BY <1>1, <1>2

LEMMA WorkInvStep ==
  ASSUME IInv, WorkInv, NextCycleIsFree, [Next]_vars
  PROVE  WorkInv'
<1>1. CASE UNCHANGED vars
  BY <1>1 DEF vars, workVars, humanVars, moneyVars, dutyVars, endVars, WorkInv, Repeats, Told,
     PaymentInv, MoneyFollowsVerifiedWork, CustomerToldAfterTheFact, Verified, RequiresPayment
<1>2. CASE Running
  <2>1. CycleMoves /\ NoticeMoves /\ QuoteMoves /\ PaymentMoves /\ PhaseMoves
    BY CyclesMove, NoticesMove, QuotesMove, PaymentsMove, PhaseMove
  <2>2. InvoiceMoves /\ DOMAIN invoices' = Invoices
    BY InvoicesMove DEF WorkInv
  <2>3. \A c \in Cycles : Repeats(c)' /\ Told(c)'
    BY <2>1, RepeatsKept, ToldKept
  <2>4. MoneyFollowsVerifiedWork'
    BY <2>1, <2>2, MoneyKept
  <2>5. /\ PaymentInv'
        /\ payment' = [status |-> payment'.status, invoice |-> payment'.invoice,
                       cycle |-> payment'.cycle]
    BY <1>2, <2>1, PaymentKept
  <2>6. CustomerToldAfterTheFact'
    BY <1>2, <2>1, CustomerStaysTold
  <2> QED BY <2>2, <2>3, <2>4, <2>5, <2>6 DEF WorkInv
<1> QED BY <1>1, <1>2, NextRuns

-----------------------------------------------------------------------------
(* When is the next number free?                                             *)

\* Cycles are numbered without gaps, from the one the report begins.
Gapless ==
  /\ \E n \in 0..MaxCycle : \A c \in Cycles : Exists(c) <=> c <= n
  /\ reported => Exists(FirstCycle)

LEMMA NextNumber ==
  ASSUME NEW n \in 0..MaxCycle, \A c \in Cycles : Exists(c) <=> c <= n
  PROVE  NextCycle = n + 1
<1>1. {c \in Cycles : Exists(c)} = 1..n
  BY MaintenanceAssumption DEF Cycles
<1>2. Cardinality(1..n) = n
  BY FS_Interval, MaintenanceAssumption
<1>3. Cardinality({c \in Cycles : Exists(c)}) = n
  BY <1>1, <1>2
<1>4. NextCycle = 1 + n
  BY <1>3 DEF NextCycle
<1> QED BY <1>4, MaintenanceAssumption

LEMMA GaplessIsFree == Gapless => NextCycleIsFree
<1> SUFFICES ASSUME Gapless PROVE ~Exists(NextCycle)
  BY DEF NextCycleIsFree
<1>1. PICK n \in 0..MaxCycle : \A c \in Cycles : Exists(c) <=> c <= n
  BY DEF Gapless
<1>2. NextCycle = n + 1 /\ ~(n + 1 <= n)
  BY <1>1, NextNumber, MaintenanceAssumption
<1> QED BY <1>1, <1>2 DEF Exists

\* The next cycle begins with the next number.
LEMMA OneMore ==
  ASSUME IInv, NEW n \in 0..MaxCycle, \A c \in Cycles : Exists(c) <=> c <= n,
         NEW b \in Cycles, b = n + 1, Begun(b), \A c \in Cycles : c # b => Same(c)
  PROVE  /\ \E m \in 0..MaxCycle : \A c \in Cycles : Exists(c)' <=> c <= m
         /\ \A c \in Cycles : Exists(c) => Exists(c)'
<1>1. /\ \A c \in Cycles : c # b => (Exists(c)' <=> Exists(c))
      /\ Exists(b)' /\ ~Exists(b)
  BY DEF Begun, Same, Exists
<1>2. \A c \in Cycles : Exists(c)' <=> c <= n + 1
  BY <1>1, MaintenanceAssumption DEF Cycles
<1>3. n + 1 \in 0..MaxCycle
  BY MaintenanceAssumption DEF Cycles
<1> QED BY <1>1, <1>2, <1>3

LEMMA GaplessKept ==
  ASSUME IInv, Gapless, [Next]_vars, \A q \in Quotes : QuoteOf[q].cycle <= 2
  PROVE  Gapless'
<1>1. PICK n \in 0..MaxCycle : \A c \in Cycles : Exists(c) <=> c <= n
  BY DEF Gapless
<1>2. NextCycle = n + 1 /\ NextCycleIsFree /\ FirstCycle = 1 /\ FirstCycle \in Cycles
  BY <1>1, NextNumber, GaplessIsFree, MaintenanceAssumption DEF FirstCycle, Cycles
<1>3. ASSUME \A c \in Cycles : Same(c) \/ Moved(c), ~IssueReported PROVE Gapless'
  <2>1. \A c \in Cycles : Exists(c)' <=> Exists(c)
    BY <1>3 DEF Same, Moved, Exists
  <2>2. reported' = reported
    BY <1>3 DEF Next, Advance, Timer, Event, Action, VisitFollowupDue, ReminderDue, DeadlineDue,
       ProvisionalExpired, Settlement, Reopen, VisitResponse, AttendanceVerified, WorkReported,
       WorkEvidence, QuoteReceived, ApproverDecision, OperatorResolution, InvoiceReceived,
       InvoiceValidation, CustomerResolution, RequestVisit, SendCompletionNotice, SendReminder,
       RequestApproval, AuthoriseSupplierWork, SendTransferNotice, RequestInvoiceValidation,
       RequestPayment, RequestExceptionResolution, CompleteByTransfer, CompleteProvisionally,
       vars, workVars
  <2> QED BY <1>1, <1>2, <2>1, <2>2 DEF Gapless
<1>4. ASSUME NEW b \in Cycles, b = n + 1, Begun(b), \A c \in Cycles : c # b => Same(c),
             reported' => reported \/ b = FirstCycle
      PROVE  Gapless'
  <2>1. /\ \E m \in 0..MaxCycle : \A c \in Cycles : Exists(c)' <=> c <= m
        /\ \A c \in Cycles : Exists(c) => Exists(c)'
    BY <1>1, <1>4, OneMore
  <2>2. Exists(b)'
    BY <1>4 DEF Begun, Exists
  <2> QED BY <1>2, <1>4, <2>1, <2>2 DEF Gapless
<1>5. CASE IssueReported
  <2>1. Begun(FirstCycle) /\ \A c \in Cycles : c # FirstCycle => Same(c)
    BY <1>5, ReportBegins
  <2>2. n = 0
    BY <1>1, <1>2, <2>1, MaintenanceAssumption DEF Begun
  <2> QED BY <1>2, <1>4, <2>1, <2>2
<1>6. CASE Reopen
  BY <1>2, <1>4, <1>6, ReopeningBegins DEF Reopen
<1>7. ASSUME NEW q \in Quotes, QuoteReceived(q) PROVE Gapless'
  <2> DEFINE b == QuoteOf[q].cycle
  <2>1. reported' = reported /\ reported /\ ~IssueReported
    BY <1>7 DEF QuoteReceived, UnderWay, IssueReported
  <2>2. b \in Cycles /\ b <= 2
    BY <1>7, QuoteType
  <2>3. \/ Exists(b) /\ cycles' = cycles
        \/ ~Exists(b) /\ Begun(b) /\ \A c \in Cycles : c # b => Same(c)
    BY <1>7, QuoteBegins
  <2> HIDE DEF b
  <2>4. CASE cycles' = cycles
    BY <1>3, <2>1, <2>4 DEF Same
  <2>5. CASE ~Exists(b) /\ Begun(b) /\ \A c \in Cycles : c # b => Same(c)
    <3>1. 1 <= n /\ ~(b <= n)
      BY <1>1, <1>2, <2>1, <2>2, <2>5 DEF Gapless
    <3>2. b = n + 1
      BY <2>2, <3>1, MaintenanceAssumption DEF Cycles
    <3> QED BY <1>4, <2>1, <2>2, <2>5, <3>2
  <2> QED BY <2>3, <2>4, <2>5
<1>8. CASE ~IssueReported /\ ~Reopen /\ ~(\E q \in Quotes : QuoteReceived(q))
  BY <1>3, <1>8, WhoMovesCycles, VisitsMove
<1> QED BY <1>5, <1>6, <1>7, <1>8

\* Where quotes name the second cycle at most, as every scenario of the repository
\* has it, a reopening never takes the number of a cycle that is there (_reopen).
THEOREM NumbersStayFree ==
  ASSUME \A q \in Quotes : QuoteOf[q].cycle <= 2
  PROVE  Spec => []NextCycleIsFree
<1>1. Init => Gapless
  <2> SUFFICES ASSUME Init PROVE Gapless
    OBVIOUS
  <2>1. /\ 0 \in 0..MaxCycle /\ reported = FALSE
        /\ \A c \in Cycles : ~Exists(c) /\ ~(c <= 0)
    BY MaintenanceAssumption DEF Init, Exists, Absent, Cycles
  <2> QED BY <2>1 DEF Gapless
<1>2. IInv /\ Gapless /\ [Next]_vars => Gapless'
  BY GaplessKept
<1>3. Gapless => NextCycleIsFree
  BY GaplessIsFree
<1> QED BY <1>1, <1>2, <1>3, Invariant, PTL DEF Spec

\* As long as that is so, no cycle is replaced or loses its visit, and verified
\* work is never touched again, whatever arrives (_reduce_quote_received, _reopen
\* and the reducers that move a visit).
THEOREM CyclesKept == Spec /\ []NextCycleIsFree => CyclesAreKept
<1>1. ASSUME IInv, NextCycleIsFree, [Next]_vars
      PROVE  \A c \in Cycles : Exists(c) =>
               /\ cycles'[c].kind = cycles[c].kind
               /\ cycles[c].visit # "NONE" => cycles'[c].visit # "NONE"
               /\ Verified(c) => cycles'[c] = cycles[c]
  BY <1>1, CyclesMove DEF CycleMoves, Same, Begun, Moved
<1> QED BY <1>1, Invariant, PTL DEF Spec, CyclesAreKept

\* And nobody is paid before the work is verified, no closed operation left the
\* customer untold, and no revisit passes on other work than the one it repeats
\* (_act_request_payment, _act_complete, _reduce_work_evidence).
THEOREM WorkFirst == Spec /\ []NextCycleIsFree => []WorkComesFirst
<1>1. IInv /\ WorkInv /\ NextCycleIsFree /\ [Next]_vars => WorkInv'
  BY WorkInvStep
<1>2. WorkInv => WorkComesFirst
  <2> SUFFICES ASSUME WorkInv PROVE WarrantyRepeatsScope
    BY DEF WorkInv, WorkComesFirst
  <2> QED BY DEF WorkInv, Repeats, WarrantyRepeatsScope
<1> QED BY <1>1, <1>2, WorkInvInit, Invariant, PTL DEF Spec

\* So in every such operation, whatever is received and asked for in what order
\* and however often it is reopened (_reopen, _reduce_quote_received).
THEOREM AuthoredWorkIsKept ==
  ASSUME \A q \in Quotes : QuoteOf[q].cycle <= 2
  PROVE  Spec => CyclesAreKept /\ []WorkComesFirst
<1> QED BY NumbersStayFree, CyclesKept, WorkFirst, PTL
=============================================================================

---------------------------- MODULE EngineProofs ----------------------------
(* Proofs about the engine, for every plan, catalogue, limit and domain.    *)
EXTENDS Engine, FiniteSetTheorems, TLAPS

EntrySet == [id : Ids, at : Nat, seq : Nat]
QueueSet == [pending : SUBSET EntrySet, seen : SUBSET Ids]

\* The bookkeeping of a queue q at instant t, while the authored events c still
\* wait for their cause: what every scheduling, disarming and popping preserves.
QueueInv(q, c, t) ==
  /\ q \in QueueSet
  /\ \A e \in q.pending : e.at >= t
  /\ c \cap q.seen = {}
  /\ PendingIds(q) \subseteq q.seen
  /\ \A e, f \in q.pending : e.id = f.id => e = f

\* The identities that were used and are no longer pending.
Spent(q) == q.seen \ PendingIds(q)

-----------------------------------------------------------------------------
(* Lemmas about the queue.                                                  *)

\* Popping the event delivered now leaves the bookkeeping in order.
LEMMA PopKeeps ==
  ASSUME NEW q, NEW c, NEW t \in Nat, NEW u \in Nat, NEW e \in q.pending,
         QueueInv(q, c, t), \A f \in q.pending : f.at >= u
  PROVE  /\ QueueInv(Pop(q, e), c, u)
         /\ Pop(q, e).seen = q.seen
         /\ Spent(q) \cup {e.id} \subseteq Spent(Pop(q, e))
<1> DEFINE p == Pop(q, e)
<1>1. p = [pending |-> q.pending \ {e}, seen |-> q.seen]
  BY DEF Pop, QueueInv, QueueSet
<1>2. e.id \in q.seen
  BY DEF QueueInv, PendingIds
<1>3. PendingIds(p) \subseteq PendingIds(q) \ {e.id}
  BY <1>1 DEF PendingIds, QueueInv
<1>4. QueueInv(p, c, u)
  <2>1. p.pending \subseteq q.pending /\ p.seen = q.seen
    BY <1>1
  <2>2. p \in QueueSet
    BY <1>1 DEF QueueInv, QueueSet
  <2> HIDE DEF p
  <2>3. \A f \in p.pending : f.at >= u
    BY <2>1
  <2>4. \A f, g \in p.pending : f.id = g.id => f = g
    BY <2>1 DEF QueueInv
  <2>5. PendingIds(p) \subseteq p.seen
    BY <2>1, <1>3 DEF QueueInv
  <2> QED BY <2>1, <2>2, <2>3, <2>4, <2>5 DEF QueueInv
<1> HIDE DEF p
<1>5. Spent(q) \cup {e.id} \subseteq Spent(p)
  BY <1>1, <1>2, <1>3 DEF Spent
<1>6. p.seen = q.seen
  BY <1>1
<1> QED BY <1>4, <1>5, <1>6 DEF p

\* Timers are queued at or after the instant they are armed at, each under an
\* identity of its own that was never used before.
LEMMA TimerEntriesType ==
  ASSUME NEW t \in Nat, NEW n \in Nat, NEW q, NEW arms \in FreshArms(q),
         NEW order \in ArmingOrders(arms)
  PROVE  LET T == TimerEntries(t, n, arms, order)
         IN /\ T \subseteq EntrySet
            /\ \A e \in T : e.at >= t /\ e.id \in Timers \ q.seen
            /\ \A e, f \in T : e.id = f.id => e = f
<1>1. /\ arms \subseteq [id : Timers \ q.seen, delay : Delays] /\ IsFiniteSet(arms)
      /\ \A a \in arms : a.id \in Ids /\ a.id \in Timers \ q.seen /\ a.delay \in Nat
  BY EngineAssumption DEF FreshArms, Ids
<1>2. \A a \in arms : order[a] \in Nat
  BY <1>1, FS_CardinalityType DEF ArmingOrders
<1>3. \A a, b \in arms : a.id = b.id => a = b
  BY DEF FreshArms
<1> DEFINE entry(a) == Entry(a.id, t + a.delay, TimerBase + n + order[a])
<1>4. \A a \in arms : /\ entry(a) \in EntrySet
                      /\ entry(a).id = a.id
                      /\ entry(a).at >= t
  <2> SUFFICES ASSUME NEW a \in arms
               PROVE  entry(a) \in EntrySet /\ entry(a).id = a.id /\ entry(a).at >= t
    OBVIOUS
  <2>1. t + a.delay \in Nat /\ t + a.delay >= t /\ TimerBase + n + order[a] \in Nat
    BY <1>1, <1>2, TimerBaseAssumption
  <2> QED BY <1>1, <2>1 DEF Entry, EntrySet
<1>5. TimerEntries(t, n, arms, order) = {entry(a) : a \in arms}
  BY DEF TimerEntries
<1> HIDE DEF entry
<1>6. \A a \in arms : entry(a).at >= t /\ entry(a).id \in Timers \ q.seen
  BY <1>1, <1>4
<1>7. \A a, b \in arms : entry(a).id = entry(b).id => entry(a) = entry(b)
  BY <1>3, <1>4
<1> QED BY <1>4, <1>5, <1>6, <1>7

\* A released conditional is queued at or after now, under its own identity.
LEMMA ReleasedType ==
  ASSUME NEW t \in Nat, NEW C \in SUBSET Authored
  PROVE  LET R == {Entry(a, t + Plan[a].at, Plan[a].seq) : a \in C}
         IN /\ R \subseteq EntrySet
            /\ \A e \in R : e.at >= t /\ e.id \in C
            /\ \A e, f \in R : e.id = f.id => e = f
<1>1. \A a \in C : Plan[a].at \in Nat /\ Plan[a].seq \in Nat
  BY EngineAssumption DEF PlannedEvents
<1> QED BY <1>1 DEF Entry, EntrySet, Ids

\* Scheduling fresh entries, after disarming some identities, keeps the books.
LEMMA ScheduleKeeps ==
  ASSUME NEW q, NEW c, NEW t \in Nat, QueueInv(q, c, t),
         NEW X, NEW T \in SUBSET EntrySet, NEW R \in SUBSET EntrySet,
         NEW fired \in SUBSET c, c \subseteq Authored,
         \A e \in T : e.at >= t /\ e.id \in Timers \ q.seen,
         \A e, f \in T : e.id = f.id => e = f,
         \A e \in R : e.at >= t /\ e.id \in fired,
         \A e, f \in R : e.id = f.id => e = f
  PROVE  LET s == Schedule(Cancel(q, X), T \cup R)
         IN QueueInv(s, c \ fired, t) /\ Spent(q) \subseteq Spent(s)
<1> DEFINE k == {e \in q.pending : e.id \notin X}
           s == Schedule(Cancel(q, X), T \cup R)
<1>1. s = [pending |-> k \cup (T \cup R), seen |-> q.seen \cup {e.id : e \in T \cup R}]
  BY DEF Schedule, Cancel, QueueInv, QueueSet
<1>2. Timers \cap Authored = {} /\ c \cap q.seen = {}
  BY EngineAssumption DEF QueueInv
<1>3. \A e \in k : e \in EntrySet /\ e.id \in q.seen /\ e.at >= t
  BY DEF QueueInv, PendingIds, QueueSet
<1>4. \A e \in T \cup R : e.id \in Ids /\ e.id \notin q.seen /\ e.at >= t
  BY <1>2 DEF Ids
<1>5. s \in QueueSet
  <2>1. k \cup (T \cup R) \in SUBSET EntrySet
    BY <1>3
  <2>2. q.seen \cup {e.id : e \in T \cup R} \in SUBSET Ids
    BY <1>4 DEF QueueInv, QueueSet
  <2> HIDE DEF s, k
  <2> QED BY <1>1, <2>1, <2>2 DEF QueueSet
<1>6. \A e \in s.pending : e.at >= t
  BY <1>1, <1>3, <1>4
<1>7. (c \ fired) \cap s.seen = {}
  BY <1>1, <1>2
<1>8. PendingIds(s) \subseteq s.seen
  BY <1>1, <1>3 DEF PendingIds
<1>9. \A e, f \in s.pending : e.id = f.id => e = f
  BY <1>1, <1>2, <1>3, <1>4 DEF QueueInv
<1>10. Spent(q) \subseteq Spent(s)
  <2>1. PendingIds(s) \subseteq PendingIds(q) \cup {e.id : e \in T \cup R}
    BY <1>1 DEF PendingIds
  <2>2. \A i \in Spent(q) : i \in s.seen /\ i \notin PendingIds(s)
    <3> HIDE DEF s
    <3> QED BY <2>1, <1>1, <1>4 DEF Spent
  <2> HIDE DEF s
  <2> QED BY <2>2 DEF Spent
<1> HIDE DEF s
<1> QED BY <1>5, <1>6, <1>7, <1>8, <1>9, <1>10 DEF QueueInv, s

\* Whatever an accepted verdict does, the books stay in order.
LEMMA EffectKeeps ==
  ASSUME NEW q, NEW cause, TypeOK, now' \in Nat, QueueInv(q, conditionals, now'),
         Effect(q, cause)
  PROVE  /\ QueueInv(queue', conditionals', now')
         /\ Spent(q) \subseteq Spent(queue')
         /\ timerCount' \in Nat /\ conditionals' \subseteq Authored
         /\ version' \in [Tools -> Versions \cup {Unavailable}] /\ final' \in BOOLEAN
<1> DEFINE fired == Fired(cause)
           R == {Entry(a, now' + Plan[a].at, Plan[a].seq) : a \in fired}
<1>0. PICK X \in SUBSET (PendingIds(q) \cap Timers), arms \in FreshArms(q) : \E order \in ArmingOrders(arms) :
        /\ timerCount' = timerCount + Cardinality(arms)
        /\ queue' = Schedule(Cancel(q, X), TimerEntries(now', timerCount, arms, order) \cup R)
        /\ conditionals' = conditionals \ fired
        /\ version' \in [Tools -> Versions \cup {Unavailable}]
        /\ final' \in BOOLEAN
  BY DEF Effect
<1>1. PICK order \in ArmingOrders(arms) :
        /\ timerCount' = timerCount + Cardinality(arms)
        /\ queue' = Schedule(Cancel(q, X), TimerEntries(now', timerCount, arms, order) \cup R)
        /\ conditionals' = conditionals \ fired
        /\ version' \in [Tools -> Versions \cup {Unavailable}]
        /\ final' \in BOOLEAN
  BY <1>0
<1> DEFINE T == TimerEntries(now', timerCount, arms, order)
<1>2. timerCount \in Nat /\ conditionals \subseteq Authored
  BY DEF TypeOK
<1>3. timerCount' \in Nat
  BY <1>1, <1>2, FS_CardinalityType DEF FreshArms
<1>4. /\ T \subseteq EntrySet
      /\ \A e \in T : e.at >= now' /\ e.id \in Timers \ q.seen
      /\ \A e, f \in T : e.id = f.id => e = f
  BY <1>2, TimerEntriesType
<1>5. fired \subseteq conditionals
  BY DEF Fired
<1>6. /\ R \subseteq EntrySet
      /\ \A e \in R : e.at >= now' /\ e.id \in fired
      /\ \A e, f \in R : e.id = f.id => e = f
  BY <1>2, <1>5, ReleasedType
<1> HIDE DEF T, R, fired
<1>7. LET s == Schedule(Cancel(q, X), T \cup R)
      IN QueueInv(s, conditionals \ fired, now') /\ Spent(q) \subseteq Spent(s)
  BY <1>2, <1>4, <1>5, <1>6, ScheduleKeeps
<1>8. queue' = Schedule(Cancel(q, X), T \cup R)
  BY <1>1 DEF T
<1> QED BY <1>1, <1>2, <1>3, <1>7, <1>8

\* The event delivered now is due no later than anything pending, nor than the
\* fallback of the standing wait.
LEMMA DeliverIsNext ==
  ASSUME TypeOK, NEW e \in queue.pending, NEW d, Deliver(e, d)
  PROVE  /\ e \in EntrySet /\ now' = e.at
         /\ \A f \in queue.pending : f.at >= e.at
         /\ fallbackAt # None => fallbackAt >= e.at
<1>1. queue.pending \subseteq EntrySet /\ fallbackAt \in Nat \cup {None}
  BY DEF TypeOK, EntrySet
<1>2. \A f \in queue.pending : f.at \in Nat
  BY <1>1 DEF EntrySet
<1>3. \A f \in queue.pending : f.at >= e.at
  BY <1>2 DEF Deliver, Upcoming, Before
<1>4. fallbackAt # None => \E f \in queue.pending : fallbackAt >= f.at
  BY <1>1, <1>2 DEF Deliver, FallbackDue, None
<1> QED BY <1>1, <1>2, <1>3, <1>4 DEF Deliver, None

-----------------------------------------------------------------------------
(* The inductive invariant.                                                 *)

\* Every delivered identity is spent.
DeliveredIsSpent == \A i \in Ids : delivered[i] # "no" => i \in Spent(queue)

FallbackAhead == fallbackAt # None => standing /\ fallbackAt >= now

IInv ==
  /\ TypeOK
  /\ QueueInv(queue, conditionals, now)
  /\ DeliveredIsSpent
  /\ FallbackAhead
  /\ ServedIsCurrent
  /\ NoWaitInsideInvocation

LEMMA IInvInit == Init => IInv
<1> SUFFICES ASSUME Init PROVE IInv
  OBVIOUS
<1> DEFINE fixed == {a \in Authored : Plan[a].trigger = Fixed}
           R == {Entry(a, 0 + Plan[a].at, Plan[a].seq) : a \in fixed}
<1>1. \A a \in Authored : Plan[a].at \in Nat
  BY EngineAssumption DEF PlannedEvents
<1>2. /\ queue = [pending |-> R, seen |-> {e.id : e \in R}]
      /\ conditionals = Authored \ fixed
  <2>1. \A a \in fixed : Entry(a, Plan[a].at, Plan[a].seq) = Entry(a, 0 + Plan[a].at, Plan[a].seq)
    BY <1>1
  <2>2. {Entry(a, Plan[a].at, Plan[a].seq) : a \in fixed} = R
    BY <2>1
  <2> QED BY <2>2 DEF Init, Schedule, EmptyQueue
<1>3. /\ R \subseteq EntrySet
      /\ \A e \in R : e.at >= 0 /\ e.id \in fixed
      /\ \A e, f \in R : e.id = f.id => e = f
  <2>1. fixed \subseteq Authored /\ 0 \in Nat
    OBVIOUS
  <2> HIDE DEF fixed
  <2> QED BY <2>1, ReleasedType
<1> HIDE DEF R
<1>4. {e.id : e \in R} \subseteq fixed
  <2>1. \A e \in R : e.id \in fixed
    BY <1>3
  <2> QED BY <2>1
<1>5. queue \in QueueSet
  <2>1. {e.id : e \in R} \in SUBSET Ids
    BY <1>4 DEF Ids
  <2> QED BY <1>2, <1>3, <2>1 DEF QueueSet
<1>6. QueueInv(queue, conditionals, 0)
  <2>1. queue.pending = R /\ queue.seen = {e.id : e \in R}
    BY <1>2
  <2> QED BY <1>2, <1>3, <1>4, <1>5, <2>1 DEF QueueInv, PendingIds
<1>7. TypeOK
  <2>1. 0 \in 0..MaxInvocations /\ 0 \in 0..MaxTurns /\ 0 \in 0..MaxBatches
        /\ 0 \in 0..CallLimit
    BY EngineAssumption DEF CallLimit
  <2>2. queue \in [pending : SUBSET [id : Ids, at : Nat, seq : Nat], seen : SUBSET Ids]
    BY <1>5 DEF QueueSet, EntrySet
  <2>3. served \in [Tools -> Versions \cup {NotServed}]
        /\ delivered \in [Ids -> Dispositions \cup {"no"}]
    BY DEF Init
  <2>4. conditionals \subseteq Authored
    BY <1>2
  <2> QED BY <2>1, <2>2, <2>3, <2>4 DEF Init, TypeOK, None
<1> QED BY <1>6, <1>7 DEF Init, IInv, DeliveredIsSpent, FallbackAhead, ServedIsCurrent,
                         NoWaitInsideInvocation

\* Opening an invocation: the counters start anew and no wait or read is left.
LEMMA InvokeKeeps ==
  ASSUME TypeOK, NEW claim \in {"none", "claimed", "verified"},
         ~OutOfInvocations, Invoke(claim)
  PROVE  /\ pc' = "agent" /\ standing' = FALSE /\ fallbackAt' = None
         /\ invocations' \in 0..MaxInvocations /\ claims' = claim
         /\ business' \in 0..MaxTurns /\ turn' \in 0..CallLimit /\ batches' \in 0..MaxBatches
         /\ served' = [t \in Tools |-> NotServed]
         /\ readHistory' \subseteq Tools
<1>1. invocations + 1 \in 0..MaxInvocations
  BY EngineAssumption DEF TypeOK, OutOfInvocations
<1>2. 0 \in 0..MaxTurns /\ 0 \in 0..CallLimit /\ 0 \in 0..MaxBatches
  BY EngineAssumption DEF CallLimit
<1> QED BY <1>1, <1>2 DEF Invoke, ClearWait, DropServed, TypeOK

\* A delivery the domain does not accept only takes the event off the queue.
LEMMA DropKeeps ==
  ASSUME IInv, NEW e \in queue.pending, NEW d \in Dispositions, Deliver(e, d),
         queue' = Pop(queue, e),
         UNCHANGED <<pc, timerCount, conditionals, waitVars, agentVars, endVars, domainVars>>
  PROVE  IInv'
<1> USE DEF IInv, waitVars, agentVars, endVars, domainVars
<1>1. /\ e \in EntrySet /\ now' = e.at /\ now' \in Nat
      /\ \A f \in queue.pending : f.at >= now'
      /\ fallbackAt # None => fallbackAt >= now'
  BY DeliverIsNext DEF EntrySet
<1>2. QueueInv(queue', conditionals', now') /\ Spent(queue) \cup {e.id} \subseteq Spent(queue')
  <2>1. now \in Nat
    BY DEF TypeOK
  <2> QED BY <1>1, <2>1, PopKeeps
<1>3. delivered' = [delivered EXCEPT ![e.id] = d]
  BY DEF Deliver
<1>4. TypeOK'
  <2>1. queue' \in [pending : SUBSET [id : Ids, at : Nat, seq : Nat], seen : SUBSET Ids]
    BY <1>2 DEF QueueInv, QueueSet, EntrySet
  <2>2. delivered' \in [Ids -> Dispositions \cup {"no"}]
    BY <1>3 DEF TypeOK
  <2> QED BY <1>1, <2>1, <2>2 DEF TypeOK, CallLimit
<1>5. DeliveredIsSpent'
  BY <1>2, <1>3 DEF DeliveredIsSpent, TypeOK
<1>6. FallbackAhead'
  BY <1>1 DEF FallbackAhead
<1>7. ServedIsCurrent' /\ NoWaitInsideInvocation'
  BY DEF ServedIsCurrent, NoWaitInsideInvocation
<1> QED BY <1>2, <1>4, <1>5, <1>6, <1>7

\* A delivery the domain accepts.
LEMMA AcceptKeeps == IInv /\ DeliverAccepted => IInv'
<1> SUFFICES ASSUME IInv, NEW e \in queue.pending,
                    Deliver(e, IF e.id \in Silent THEN "audit" ELSE "accepted"),
                    Effect(Pop(queue, e), OnEvent(EventType[e.id])),
                    \/ UNCHANGED <<pc, waitVars, agentVars, endVars>>
                    \/ /\ Halt("deadlock", "INVOCATION_LIMIT_EXCEEDED")
                       /\ UNCHANGED <<waitVars, agentVars>>
                    \/ /\ ~OutOfInvocations
                       /\ Invoke(IF e.id \in Authoritative THEN "verified" ELSE "claimed"),
                    pc = "loop"
             PROVE  IInv'
  <2> QED BY DEF DeliverAccepted, Deliver
<1> DEFINE d == IF e.id \in Silent THEN "audit" ELSE "accepted"
<1>1. /\ e \in EntrySet /\ now' = e.at /\ now' \in Nat
      /\ \A f \in queue.pending : f.at >= now'
      /\ fallbackAt # None => fallbackAt >= now'
  BY DeliverIsNext DEF IInv, EntrySet
<1>2. /\ QueueInv(Pop(queue, e), conditionals, now')
      /\ Spent(queue) \cup {e.id} \subseteq Spent(Pop(queue, e))
  <2>1. now \in Nat /\ QueueInv(queue, conditionals, now)
    BY DEF IInv, TypeOK
  <2> QED BY <1>1, <2>1, PopKeeps
<1>3. /\ QueueInv(queue', conditionals', now') /\ Spent(Pop(queue, e)) \subseteq Spent(queue')
      /\ timerCount' \in Nat /\ conditionals' \subseteq Authored
      /\ version' \in [Tools -> Versions \cup {Unavailable}] /\ final' \in BOOLEAN
  BY <1>1, <1>2, EffectKeeps DEF IInv
<1>4. delivered' = [delivered EXCEPT ![e.id] = d] /\ d \in Dispositions
  BY DEF Deliver, Dispositions
<1>5. DeliveredIsSpent'
  BY <1>2, <1>3, <1>4 DEF IInv, DeliveredIsSpent, TypeOK
<1>6. /\ queue' \in [pending : SUBSET [id : Ids, at : Nat, seq : Nat], seen : SUBSET Ids]
      /\ delivered' \in [Ids -> Dispositions \cup {"no"}]
  BY <1>3, <1>4 DEF QueueInv, QueueSet, EntrySet, IInv, TypeOK
<1>7. CASE UNCHANGED <<pc, waitVars, agentVars, endVars>>
  <2> USE <1>7 DEF IInv, waitVars, agentVars, endVars
  <2>1. TypeOK'
    BY <1>1, <1>3, <1>6 DEF TypeOK, CallLimit
  <2>2. FallbackAhead' /\ ServedIsCurrent' /\ NoWaitInsideInvocation'
    BY <1>1 DEF FallbackAhead, ServedIsCurrent, NoWaitInsideInvocation
  <2> QED BY <1>3, <1>5, <2>1, <2>2
<1>8. CASE Halt("deadlock", "INVOCATION_LIMIT_EXCEEDED") /\ UNCHANGED <<waitVars, agentVars>>
  <2> USE <1>8 DEF IInv, waitVars, agentVars, Halt
  <2>1. TypeOK'
    BY <1>1, <1>3, <1>6 DEF TypeOK, CallLimit
  <2>2. FallbackAhead' /\ ServedIsCurrent' /\ NoWaitInsideInvocation'
    BY <1>1 DEF FallbackAhead, ServedIsCurrent, NoWaitInsideInvocation
  <2> QED BY <1>3, <1>5, <2>1, <2>2
<1>9. CASE /\ ~OutOfInvocations
           /\ Invoke(IF e.id \in Authoritative THEN "verified" ELSE "claimed")
  <2>1. PICK claim \in {"none", "claimed", "verified"} : Invoke(claim)
    BY <1>9
  <2>2. /\ pc' = "agent" /\ standing' = FALSE /\ fallbackAt' = None
        /\ invocations' \in 0..MaxInvocations /\ claims' = claim
        /\ business' \in 0..MaxTurns /\ turn' \in 0..CallLimit /\ batches' \in 0..MaxBatches
        /\ served' = [t \in Tools |-> NotServed]
        /\ readHistory' \subseteq Tools
    BY <1>9, <2>1, InvokeKeeps DEF IInv
  <2>3. TypeOK'
    BY <1>1, <1>3, <1>6, <2>2 DEF TypeOK, CallLimit
  <2>4. FallbackAhead' /\ ServedIsCurrent' /\ NoWaitInsideInvocation'
    BY <2>2 DEF FallbackAhead, ServedIsCurrent, NoWaitInsideInvocation
  <2> QED BY <1>3, <1>5, <2>3, <2>4 DEF IInv
<1> QED BY <1>7, <1>8, <1>9

\* A turn of the agent that commits nothing: only the counters, the reads and
\* the wait move.
LEMMA QuietTurnKeeps ==
  ASSUME IInv, Called,
         business' \in {business, business + 1}, turn' = turn + 1,
         batches' \in 0..MaxBatches, readHistory' \subseteq Tools,
         served' \in [Tools -> Versions \cup {NotServed}],
         \A t \in Tools : served'[t] \in {NotServed, version[t]},
         UNCHANGED <<now, queueVars, invocations, claims, domainVars>>,
         \/ UNCHANGED <<pc, waitVars>>
         \/ /\ pc' = "loop" /\ standing' = TRUE
            /\ fallbackAt' = None \/ \E m \in Delays : fallbackAt' = now + m
         \/ pc' = "loop" /\ UNCHANGED waitVars
  PROVE  IInv'
<1> USE DEF IInv, queueVars, waitVars, domainVars
<1>1. business' \in 0..MaxTurns /\ turn' \in 0..CallLimit
  BY EngineAssumption DEF Called, TypeOK, CallLimit
<1>2. fallbackAt' \in Nat \cup {None} /\ FallbackAhead'
  BY EngineAssumption DEF FallbackAhead, TypeOK, None
<1>3. TypeOK'
  BY <1>1, <1>2, EngineAssumption DEF TypeOK, CallLimit
<1>4. DeliveredIsSpent' /\ QueueInv(queue', conditionals', now')
  BY DEF DeliveredIsSpent
<1>5. ServedIsCurrent' /\ NoWaitInsideInvocation'
  BY DEF ServedIsCurrent, NoWaitInsideInvocation, Called
<1> QED BY <1>2, <1>3, <1>4, <1>5

\* A turn that commits: an accepted proposal, or an accepted terminal proposal.
LEMMA CommitTurnKeeps ==
  ASSUME IInv, BusinessTurn, now' = now, NEW cause, Effect(queue, cause),
         UNCHANGED <<delivered, invocations, batches, readHistory, claims>>,
         \/ /\ served' = [t \in Tools |-> NotServed]
            /\ \/ UNCHANGED <<pc, waitVars>>
               \/ /\ pc' = "loop" /\ standing' = TRUE
                  /\ fallbackAt' = None \/ \E m \in Delays : fallbackAt' = now + m
               \/ pc' = "loop" /\ UNCHANGED waitVars
         \/ served' = served /\ pc' = "loop" /\ UNCHANGED waitVars
  PROVE  IInv'
<1>1. now' \in Nat /\ QueueInv(queue, conditionals, now') /\ TypeOK
  BY DEF IInv, TypeOK
<1>2. /\ QueueInv(queue', conditionals', now') /\ Spent(queue) \subseteq Spent(queue')
      /\ timerCount' \in Nat /\ conditionals' \subseteq Authored
      /\ version' \in [Tools -> Versions \cup {Unavailable}] /\ final' \in BOOLEAN
  BY <1>1, EffectKeeps
<1>3. business' \in 0..MaxTurns /\ turn' \in 0..CallLimit
  BY <1>1, EngineAssumption DEF BusinessTurn, Called, TypeOK, CallLimit
<1>4. fallbackAt' \in Nat \cup {None} /\ standing' \in BOOLEAN /\ FallbackAhead'
  <2>1. \/ UNCHANGED waitVars
        \/ standing' = TRUE /\ (fallbackAt' = None \/ \E m \in Delays : fallbackAt' = now + m)
    OBVIOUS
  <2>2. /\ now \in Nat /\ now' = now /\ Delays \subseteq Nat
        /\ standing \in BOOLEAN /\ fallbackAt \in Nat \cup {None} /\ FallbackAhead
    BY EngineAssumption DEF IInv, TypeOK
  <2>3. CASE UNCHANGED waitVars
    BY <2>2, <2>3 DEF FallbackAhead, waitVars
  <2>4. CASE standing' = TRUE /\ fallbackAt' = None
    BY <2>4 DEF FallbackAhead
  <2>5. CASE standing' = TRUE /\ \E m \in Delays : fallbackAt' = now + m
    BY <2>2, <2>5 DEF FallbackAhead
  <2> QED BY <2>1, <2>3, <2>4, <2>5
<1>5. queue' \in [pending : SUBSET [id : Ids, at : Nat, seq : Nat], seen : SUBSET Ids]
  BY <1>2 DEF QueueInv, QueueSet, EntrySet
<1>6. served' \in [Tools -> Versions \cup {NotServed}] /\ pc' \in {"loop", "agent"}
  BY <1>1 DEF TypeOK, BusinessTurn, Called
<1>7. TypeOK'
  BY <1>1, <1>2, <1>3, <1>4, <1>5, <1>6 DEF TypeOK, CallLimit
<1>8. DeliveredIsSpent'
  BY <1>2 DEF IInv, DeliveredIsSpent
<1>9. ServedIsCurrent' /\ NoWaitInsideInvocation'
  BY DEF IInv, ServedIsCurrent, NoWaitInsideInvocation, BusinessTurn, Called, waitVars
<1> QED BY <1>2, <1>4, <1>7, <1>8, <1>9 DEF IInv

\* Every step of the delivery loop keeps the invariant.
LEMMA LoopKeeps == IInv /\ Loop => IInv'
<1> SUFFICES ASSUME IInv, Loop PROVE IInv'
  OBVIOUS
<1> USE DEF IInv, queueVars, waitVars, domainVars
<1>1. CASE FireFallback
  <2> USE <1>1 DEF FireFallback
  <2>1. now' = fallbackAt /\ now' \in Nat
    BY DEF FallbackDue, TypeOK, None
  <2>2. QueueInv(queue', conditionals', now') /\ DeliveredIsSpent'
    <3>1. \A e \in queue.pending : e.at >= now' /\ e.at \in Nat
      BY <2>1 DEF FallbackDue, QueueInv, QueueSet, EntrySet
    <3> QED BY <3>1 DEF QueueInv, DeliveredIsSpent
  <2>3. CASE OutOfInvocations
    <3>1. pc' = "ended" /\ ClearWait /\ UNCHANGED agentVars
      BY <2>3 DEF Halt
    <3>2. TypeOK'
      BY <2>1, <3>1 DEF TypeOK, CallLimit, ClearWait, agentVars, None
    <3> QED BY <2>2, <3>1, <3>2 DEF ClearWait, FallbackAhead, ServedIsCurrent,
                                    NoWaitInsideInvocation
  <2>4. CASE ~OutOfInvocations
    <3>1. /\ pc' = "agent" /\ standing' = FALSE /\ fallbackAt' = None
          /\ invocations' \in 0..MaxInvocations /\ claims' = "none"
          /\ business' \in 0..MaxTurns /\ turn' \in 0..CallLimit /\ batches' \in 0..MaxBatches
          /\ served' = [t \in Tools |-> NotServed]
          /\ readHistory' \subseteq Tools
      BY <2>4, InvokeKeeps
    <3>2. TypeOK'
      BY <2>1, <3>1 DEF TypeOK, CallLimit
    <3> QED BY <2>2, <3>1, <3>2 DEF FallbackAhead, ServedIsCurrent, NoWaitInsideInvocation
  <2> QED BY <2>3, <2>4
<1>2. CASE BeyondHorizon
  BY <1>2 DEF BeyondHorizon, Halt, agentVars, TypeOK, CallLimit, FallbackAhead,
              ServedIsCurrent, NoWaitInsideInvocation, DeliveredIsSpent
<1>3. CASE WorldIsQuiet
  <2>1. /\ pc' = "ended" /\ queue.pending = {} /\ fallbackAt = None
        /\ UNCHANGED <<queueVars, waitVars, agentVars, domainVars>>
        /\ now' \in {now, Horizon}
    BY <1>3 DEF WorldIsQuiet, Halt
  <2>2. TypeOK'
    BY <2>1, EngineAssumption DEF TypeOK, CallLimit, agentVars
  <2>3. QueueInv(queue', conditionals', now')
    BY <2>1 DEF QueueInv
  <2> QED BY <2>1, <2>2, <2>3 DEF FallbackAhead, ServedIsCurrent, NoWaitInsideInvocation,
                                 DeliveredIsSpent
<1>4. CASE DeliverAfterTerminal
  BY <1>4, DropKeeps DEF DeliverAfterTerminal, Dispositions
<1>5. CASE DeliverRejected
  BY <1>5, DropKeeps DEF DeliverRejected, Dispositions
<1>6. CASE DeliverAccepted
  BY <1>6, AcceptKeeps
<1> QED BY <1>1, <1>2, <1>3, <1>4, <1>5, <1>6 DEF Loop

\* Every answer of the agent keeps the invariant.
LEMMA InvocationKeeps == IInv /\ Invocation => IInv'
<1> SUFFICES ASSUME IInv, Invocation PROVE IInv'
  OBVIOUS
<1>1. CASE TurnLimitExceeded \/ CallLimitExceeded
  BY <1>1 DEF IInv, queueVars, waitVars, domainVars, agentVars, TurnLimitExceeded,
              CallLimitExceeded, Halt, TypeOK, CallLimit, FallbackAhead, ServedIsCurrent,
              NoWaitInsideInvocation, DeliveredIsSpent
<1>2. CASE ServeBatch
  <2>1. PICK requests \in SUBSET Tools :
          LET ok == {t \in requests : version[t] # Unavailable}
          IN /\ Called /\ batches < MaxBatches
             /\ batches' = batches + 1 /\ turn' = turn + 1
             /\ served' = [t \in Tools |-> IF t \in ok THEN version[t] ELSE served[t]]
             /\ readHistory' = readHistory \cup ok
             /\ UNCHANGED <<pc, now, queueVars, waitVars, invocations, business, claims,
                            domainVars>>
    BY <1>2 DEF ServeBatch
  <2>2. batches' \in 0..MaxBatches /\ readHistory' \subseteq Tools
    BY <2>1, EngineAssumption DEF IInv, TypeOK
  <2>3. \A t \in Tools : /\ served'[t] \in Versions \cup {NotServed}
                         /\ served'[t] \in {NotServed, version[t]}
    BY <2>1 DEF IInv, TypeOK, ServedIsCurrent, Called
  <2>4. served' \in [Tools -> Versions \cup {NotServed}]
    BY <2>1, <2>3
  <2> QED BY <2>1, <2>2, <2>3, <2>4, QuietTurnKeeps
<1>3. CASE RefuseBatch
  <2>1. \A t \in Tools : served[t] \in {NotServed, version[t]}
    BY <1>3 DEF RefuseBatch, IInv, ServedIsCurrent, Called
  <2> QED BY <1>3, <2>1, QuietTurnKeeps DEF RefuseBatch, IInv, TypeOK
<1>4. ASSUME NEW subject, NEW code, BusinessTurn, Refused(subject, code)
      PROVE  IInv'
  <2>1. \A t \in Tools : served[t] \in {NotServed, version[t]}
    BY <1>4 DEF BusinessTurn, IInv, ServedIsCurrent, Called
  <2> QED BY <1>4, <2>1, QuietTurnKeeps DEF BusinessTurn, Refused, IInv, TypeOK
<1>5. ASSUME NEW outcome, BusinessTurn, ProposalRefused(outcome)
      PROVE  IInv'
  BY <1>4, <1>5 DEF ProposalRefused
<1>6. CASE MalformedOutcome
  BY <1>4, <1>6 DEF MalformedOutcome
<1>7. CASE Act
  <2>1. PICK a \in ActionTypes :
          /\ BusinessTurn
          /\ \/ ProposalRefused(a)
             \/ ActionAccepted(a) /\ UNCHANGED <<pc, waitVars>>
    BY <1>7 DEF Act
  <2>2. CASE ActionAccepted(a) /\ UNCHANGED <<pc, waitVars>>
    BY <2>1, <2>2, CommitTurnKeeps DEF ActionAccepted, DropServed
  <2> QED BY <1>5, <2>1, <2>2
<1>8. CASE Wait
  <2>1. PICK known \in BOOLEAN, fallback \in Delays \cup {None} :
          /\ BusinessTurn /\ final' = final
          /\ DeclareWait(known, fallback, rejection)
          /\ UNCHANGED <<now, queueVars, invocations, batches, served, readHistory, claims,
                         version>>
    BY <1>8 DEF Wait
  <2>2. \/ UNCHANGED <<pc, waitVars>>
        \/ /\ pc' = "loop" /\ standing' = TRUE
           /\ fallbackAt' = None \/ \E m \in Delays : fallbackAt' = now + m
        \/ pc' = "loop" /\ UNCHANGED waitVars
    BY <2>1 DEF DeclareWait, None
  <2>3. \A t \in Tools : served[t] \in {NotServed, version[t]}
    BY <2>1 DEF BusinessTurn, IInv, ServedIsCurrent, Called
  <2> QED BY <2>1, <2>2, <2>3, QuietTurnKeeps DEF BusinessTurn, IInv, TypeOK, domainVars
<1>9. ASSUME NEW action, NEW known \in BOOLEAN, NEW fallback \in Delays \cup {None},
             ActThenWait(action, known, fallback)
      PROVE  IInv'
  <2>1. CASE BusinessTurn /\ ProposalRefused(action)
    BY <1>5, <2>1
  <2>2. CASE BusinessTurn /\ ActionAccepted(action) /\ DeclareWait(known, fallback, NoRejection)
    <3>1. \/ UNCHANGED <<pc, waitVars>>
          \/ /\ pc' = "loop" /\ standing' = TRUE
             /\ fallbackAt' = None \/ \E m \in Delays : fallbackAt' = now + m
          \/ pc' = "loop" /\ UNCHANGED waitVars
      BY <2>2 DEF DeclareWait, None
    <3> QED BY <2>2, <3>1, CommitTurnKeeps DEF ActionAccepted, DropServed
  <2> QED BY <1>9, <2>1, <2>2 DEF ActThenWait
<1>10. CASE Ask \/ Escalate
  BY <1>9, <1>10 DEF Ask, Escalate
<1>11. CASE ProposeTerminal
  <2>1. CASE BusinessTurn /\ ProposalRefused(Complete)
    BY <1>5, <2>1
  <2>2. CASE ~(BusinessTurn /\ ProposalRefused(Complete))
    BY <1>11, <2>2, CommitTurnKeeps DEF ProposeTerminal
  <2> QED BY <2>1, <2>2
<1> QED BY <1>1, <1>2, <1>3, <1>6, <1>7, <1>8, <1>10, <1>11 DEF Invocation

LEMMA IInvStep == IInv /\ [Next]_vars => IInv'
<1> SUFFICES ASSUME IInv, [Next]_vars PROVE IInv'
  OBVIOUS
<1>1. CASE Ended \/ UNCHANGED vars
  BY <1>1 DEF Ended, vars, queueVars, waitVars, agentVars, endVars, domainVars, IInv, TypeOK,
              CallLimit, DeliveredIsSpent, FallbackAhead, ServedIsCurrent,
              NoWaitInsideInvocation
<1> QED BY <1>1, LoopKeeps, InvocationKeeps DEF Next

\* IInv is an invariant of the engine.
THEOREM Inductive == Spec => []IInv
<1> QED BY IInvInit, IInvStep, PTL DEF Spec

-----------------------------------------------------------------------------
(* The results.                                                             *)

\* Every variable keeps its type: in particular the counters of an invocation
\* stay within the plan's limits (engine.py, _invoke).
THEOREM TypeCorrect == Spec => []TypeOK
<1>1. IInv => TypeOK
  BY DEF IInv
<1> QED BY <1>1, Inductive, PTL

\* Neither a pending event nor a fallback is ever overdue, so advance_to never
\* rewinds the clock.
THEOREM ClockNeverRewinds == Spec => []NothingOverdue
<1>1. IInv => NothingOverdue
  BY DEF IInv, QueueInv, FallbackAhead, NothingOverdue
<1> QED BY <1>1, Inductive, PTL

\* No authored event is ever scheduled under an identity the queue has seen,
\* and no delivered identity is pending again.
THEOREM IdentitiesAreUsedOnce == Spec => []IdentityUsedOnce
<1>1. IInv => IdentityUsedOnce
  BY DEF IInv, QueueInv, DeliveredIsSpent, Spent, IdentityUsedOnce
<1> QED BY <1>1, Inductive, PTL

\* The reads an agent holds inside an invocation say what the records say now.
THEOREM ReadsAreCurrent == Spec => []ServedIsCurrent
<1>1. IInv => ServedIsCurrent
  BY DEF IInv
<1> QED BY <1>1, Inductive, PTL

-----------------------------------------------------------------------------
(* What a step of the engine may never do, from the same invariant.          *)

\* The four ways a step treats the domain and the pending world: it leaves them
\* alone, it only takes the delivered event off the queue, an accepted event
\* has its effect, or an outcome of the agent that the read guard passed has.
Still == UNCHANGED <<queue, conditionals, domainVars>>

Taken == \E e \in queue.pending :
  queue' = Pop(queue, e) /\ UNCHANGED <<conditionals, domainVars>>

EventCommits == \E e \in queue.pending :
  /\ pc = "loop" /\ ~final
  /\ Deliver(e, IF e.id \in Silent THEN "audit" ELSE "accepted")
  /\ Effect(Pop(queue, e), OnEvent(EventType[e.id]))

OutcomeCommits == \E o \in ActionTypes \cup {Complete} :
  /\ pc = "agent" /\ ~final /\ now' = now
  /\ ReadGuardProblem(o, FALSE) = "none"
  /\ Effect(queue, OnAction(o))

\* Every step of the engine is one of the four.
LEMMA StepShape ==
  [Next]_vars => Still \/ Taken \/ EventCommits \/ OutcomeCommits
<1> SUFFICES ASSUME [Next]_vars PROVE Still \/ Taken \/ EventCommits \/ OutcomeCommits
  OBVIOUS
<1> USE DEF queueVars, domainVars
<1>1. CASE Ended \/ UNCHANGED vars
  BY <1>1 DEF Ended, vars, Still
<1>2. CASE FireFallback \/ BeyondHorizon \/ WorldIsQuiet
  BY <1>2 DEF FireFallback, BeyondHorizon, WorldIsQuiet, Still
<1>3. CASE DeliverAfterTerminal \/ DeliverRejected
  BY <1>3 DEF DeliverAfterTerminal, DeliverRejected, Taken
<1>4. CASE DeliverAccepted
  BY <1>4 DEF DeliverAccepted, Deliver, EventCommits
<1>5. CASE TurnLimitExceeded \/ CallLimitExceeded \/ ServeBatch \/ RefuseBatch
  BY <1>5 DEF TurnLimitExceeded, CallLimitExceeded, ServeBatch, RefuseBatch, Still
<1>6. CASE MalformedOutcome
  BY <1>6 DEF MalformedOutcome, Refused, Still
<1>7. CASE Wait
  BY <1>7 DEF Wait, Still
<1>8. ASSUME NEW o, ProposalRefused(o)
      PROVE  Still
  BY <1>8 DEF ProposalRefused, Refused, Still
<1>9. ASSUME NEW o \in ActionTypes, BusinessTurn, ActionAccepted(o)
      PROVE  OutcomeCommits
  BY <1>9 DEF BusinessTurn, Called, ActionAccepted, OutcomeCommits
<1>10. CASE Act
  BY <1>8, <1>9, <1>10 DEF Act
<1>11. CASE Ask \/ Escalate
  <2>1. SendMessage \in ActionTypes /\ RequestException \in ActionTypes
    BY EngineAssumption
  <2> QED BY <1>8, <1>9, <1>11, <2>1 DEF Ask, Escalate, ActThenWait
<1>12. CASE ProposeTerminal
  BY <1>8, <1>12 DEF ProposeTerminal, BusinessTurn, Called, OutcomeCommits
<1> QED BY <1>1, <1>2, <1>3, <1>4, <1>5, <1>6, <1>7, <1>10, <1>11, <1>12
        DEF Next, Loop, Invocation

-----------------------------------------------------------------------------
(* What each kind of step does to the pending world.                        *)

\* An effect forgets no identity: everything the queue has seen stays seen.
LEMMA EffectRemembers ==
  ASSUME NEW q \in QueueSet, NEW cause, Effect(q, cause)
  PROVE  q.seen \subseteq queue'.seen
<1>1. PICK X, N : queue' = Schedule(Cancel(q, X), N)
  BY DEF Effect
<1>2. Cancel(q, X).seen = q.seen
  BY DEF Cancel, QueueSet
<1> QED BY <1>1, <1>2 DEF Schedule

\* What EffectKeeps gives at the delivery of e: nothing pending is overdue then.
LEMMA DeliveryKeeps ==
  ASSUME IInv, NEW e \in queue.pending, NEW d, Deliver(e, d)
  PROVE  /\ now' \in Nat /\ QueueInv(Pop(queue, e), conditionals, now')
         /\ Spent(queue) \subseteq Spent(Pop(queue, e))
<1>1. /\ e \in EntrySet /\ now' = e.at /\ now' \in Nat
      /\ \A f \in queue.pending : f.at >= now'
  BY DeliverIsNext DEF IInv, EntrySet
<1>2. now \in Nat /\ QueueInv(queue, conditionals, now)
  BY DEF IInv, TypeOK
<1> QED BY <1>1, <1>2, PopKeeps

-----------------------------------------------------------------------------
(* The results.                                                             *)

\* While the agent is being asked, no wait stands: the wake consumed it, so no
\* fallback can fire for an invocation that already runs (engine.py, _invoke).
THEOREM WaitsAreConsumed == Spec => []NoWaitInsideInvocation
<1>1. IInv => NoWaitInsideInvocation
  BY DEF IInv
<1> QED BY <1>1, Inductive, PTL

\* What the queue has seen stays seen, and what was spent stays spent.
LEMMA SpentGrows ==
  ASSUME IInv, [Next]_vars
  PROVE  queue.seen \subseteq queue'.seen /\ Spent(queue) \subseteq Spent(queue')
<1> DEFINE Grows == /\ queue.seen \subseteq queue'.seen
                    /\ Spent(queue) \subseteq Spent(queue')
<1>1. CASE Still
  BY <1>1 DEF Still
<1>2. CASE Taken
  <2>1. PICK e \in queue.pending : queue' = Pop(queue, e)
    BY <1>2 DEF Taken
  <2>2. now \in Nat /\ QueueInv(queue, conditionals, now)
    BY DEF IInv, TypeOK
  <2>3. \A f \in queue.pending : f.at >= now
    BY <2>2 DEF QueueInv
  <2> QED BY <2>1, <2>2, <2>3, PopKeeps
<1>3. CASE EventCommits
  <2>1. PICK e \in queue.pending :
          /\ Deliver(e, IF e.id \in Silent THEN "audit" ELSE "accepted")
          /\ Effect(Pop(queue, e), OnEvent(EventType[e.id]))
    BY <1>3 DEF EventCommits
  <2> DEFINE p == Pop(queue, e)
  <2>2. now' \in Nat /\ QueueInv(p, conditionals, now') /\ Spent(queue) \subseteq Spent(p)
    BY <2>1, DeliveryKeeps
  <2>3. p.seen = queue.seen
    BY DEF Pop, IInv, QueueInv, QueueSet
  <2>4. TypeOK /\ p \in QueueSet
    BY <2>2 DEF IInv, QueueInv
  <2> HIDE DEF p
  <2>5. Spent(p) \subseteq Spent(queue')
    BY <2>1, <2>2, <2>4, EffectKeeps DEF p
  <2>6. p.seen \subseteq queue'.seen
    BY <2>1, <2>4, EffectRemembers DEF p
  <2> QED BY <2>2, <2>3, <2>5, <2>6
<1>4. CASE OutcomeCommits
  <2>1. PICK o : now' = now /\ Effect(queue, OnAction(o))
    BY <1>4 DEF OutcomeCommits
  <2>2. TypeOK /\ now' \in Nat /\ QueueInv(queue, conditionals, now') /\ queue \in QueueSet
    BY <2>1 DEF IInv, TypeOK, QueueInv
  <2> QED BY <2>1, <2>2, EffectKeeps, EffectRemembers
<1> QED BY <1>1, <1>2, <1>3, <1>4, StepShape

\* An identity that left the queue, delivered or disarmed, never comes back: no
\* later handler, timer or released conditional can queue it again
\* (events.py, EventQueue.schedule and cancel).
THEOREM SpentStaysSpent == Spec => NoIdentityReturns
<1>1. IInv /\ [Next]_vars =>
        [/\ queue.seen \subseteq queue'.seen
         /\ queue.seen \ PendingIds(queue) \subseteq queue'.seen \ PendingIds(queue')]_vars
  BY SpentGrows DEF Spent, PendingIds
<1> QED BY <1>1, Inductive, PTL DEF Spec, NoIdentityReturns

\* Once the operation is replay-final no record moves, nothing is queued and no
\* conditional is released, whatever still arrives or is proposed
\* (engine.py, _deliver and the proposal handlers).
THEOREM FinalIsFinal == Spec => FinalityHolds
<1> DEFINE Kept == /\ final' /\ version' = version /\ conditionals' = conditionals
                   /\ queue'.seen = queue.seen /\ queue'.pending \subseteq queue.pending
<1>1. ASSUME IInv, [Next]_vars, final PROVE Kept
  <2>1. CASE Still
    BY <1>1, <2>1 DEF Still, domainVars
  <2>2. CASE Taken
    <3>1. queue \in QueueSet
      BY <1>1 DEF IInv, QueueInv
    <3> QED BY <1>1, <2>2, <3>1 DEF Taken, Pop, QueueSet, domainVars
  <2> QED BY <1>1, <2>1, <2>2, StepShape DEF EventCommits, OutcomeCommits
<1>2. IInv /\ [Next]_vars => [final => Kept]_vars
  BY <1>1
<1> QED BY <1>2, Inductive, PTL DEF Spec, FinalityHolds

\* A conditional that hangs off an outcome of the agent is released only by that
\* outcome, and only when each of its required reads was served in this
\* invocation at the version the record has (engine.py, _read_guard_problem).
THEOREM ReactionsAreEarned == Spec => ReactionRestsOnCurrentReads
<1> DEFINE Earned ==
      pc = "agent" =>
        \A i \in conditionals \ conditionals', o \in DOMAIN Reads :
          Plan[i].trigger = OnAction(o) =>
            \A t \in Reads[o] : served[t] = version[t] /\ version[t] # Unavailable
<1>1. ASSUME [Next]_vars PROVE Earned
  <2>1. CASE Still \/ Taken \/ EventCommits
    BY <2>1 DEF Still, Taken, EventCommits
  <2>2. CASE OutcomeCommits
    <3>1. PICK p \in ActionTypes \cup {Complete} :
            ReadGuardProblem(p, FALSE) = "none" /\ Effect(queue, OnAction(p))
      BY <2>2 DEF OutcomeCommits
    <3>2. conditionals \ conditionals' \subseteq Fired(OnAction(p))
      BY <3>1 DEF Effect
    <3>3. \A i \in conditionals \ conditionals' : Plan[i].trigger = OnAction(p)
      BY <3>2 DEF Fired
    <3>4. \A o : OnAction(o) = OnAction(p) => o = p
      BY DEF OnAction
    <3>5. \A t \in Reads[p] : served[t] = version[t] /\ version[t] # Unavailable
      <4> DEFINE absent == {t \in Reads[p] : served[t] = NotServed}
                 moved == {t \in Reads[p] : version[t] = Unavailable \/ served[t] # version[t]}
      <4>1. absent = {} /\ moved = {}
        BY <3>1 DEF ReadGuardProblem
      <4> QED BY <4>1
    <3> QED BY <3>3, <3>4, <3>5
  <2> QED BY <1>1, <2>1, <2>2, StepShape
<1>2. [Next]_vars => [Earned]_vars
  BY <1>1
<1> QED BY <1>2, PTL DEF Spec, ReactionRestsOnCurrentReads

-----------------------------------------------------------------------------
(* The limits of the plan.                                                  *)

\* An episode that still runs has no violation on record, and a recorded one is
\* explained by the counters, which move no more.
LimitInv ==
  /\ now <= Horizon
  /\ pc # "ended" => violation = "none"
  /\ AllowanceHolds
  /\ CallLimitSparesOneRefusal

\* A step either halts for a reason its counters explain, or records nothing.
LEMMA HaltIsExplained ==
  ASSUME TypeOK, TypeOK', LimitInv, [Next]_vars
  PROVE  \/ pc' = pc /\ UNCHANGED <<agentVars, endVars>>
         \/ pc # "ended" /\ UNCHANGED endVars
         \/ pc' = "ended" /\ violation' = violation /\ UNCHANGED agentVars
         \/ /\ pc' = "ended" /\ UNCHANGED agentVars
            /\ violation' = "INVOCATION_LIMIT_EXCEEDED" /\ OutOfInvocations
         \/ /\ pc' = "ended" /\ UNCHANGED agentVars
            /\ violation' = "INVOCATION_TURN_LIMIT_EXCEEDED"
         \/ /\ pc' = "ended" /\ UNCHANGED agentVars
            /\ violation' = "INVOCATION_CALL_LIMIT_EXCEEDED"
            /\ business < MaxTurns /\ turn >= CallLimit
<1>1. CASE Ended \/ UNCHANGED vars
  BY <1>1 DEF Ended, vars
<1>2. CASE FireFallback
  BY <1>2 DEF FireFallback, Halt, Invoke
<1>3. CASE BeyondHorizon \/ WorldIsQuiet
  BY <1>3 DEF BeyondHorizon, WorldIsQuiet, Halt
<1>4. CASE DeliverAfterTerminal \/ DeliverRejected
  BY <1>4 DEF DeliverAfterTerminal, DeliverRejected
<1>5. CASE DeliverAccepted
  BY <1>5 DEF DeliverAccepted, Deliver, Halt, Invoke
<1>6. CASE TurnLimitExceeded \/ CallLimitExceeded
  BY <1>6 DEF TurnLimitExceeded, CallLimitExceeded, Halt
<1>7. CASE ServeBatch \/ RefuseBatch \/ MalformedOutcome \/ Wait
  BY <1>7 DEF ServeBatch, RefuseBatch, MalformedOutcome, BusinessTurn, Called, Refused, Wait
<1>8. ASSUME NEW o, BusinessTurn, ProposalRefused(o) \/ ActionAccepted(o)
      PROVE  pc # "ended" /\ UNCHANGED endVars
  BY <1>8 DEF BusinessTurn, Called, ProposalRefused, Refused, ActionAccepted
<1>9. CASE Act \/ Ask \/ Escalate
  BY <1>8, <1>9 DEF Act, Ask, Escalate, ActThenWait
<1>10. CASE ProposeTerminal
  BY <1>8, <1>10 DEF ProposeTerminal, BusinessTurn, Called
<1> QED BY <1>1, <1>2, <1>3, <1>4, <1>5, <1>6, <1>7, <1>9, <1>10 DEF Next, Loop, Invocation

\* The clock stops at the horizon: an event or a fallback beyond it is not taken.
LEMMA ClockStopsAtHorizon ==
  ASSUME TypeOK, now <= Horizon, [Next]_vars
  PROVE  now' <= Horizon
<1>1. CASE FireFallback \/ DeliverAfterTerminal \/ DeliverRejected \/ DeliverAccepted
  BY <1>1 DEF FireFallback, DeliverAfterTerminal, DeliverRejected, DeliverAccepted, Deliver
<1>2. CASE WorldIsQuiet
  BY <1>2, EngineAssumption DEF WorldIsQuiet, TypeOK
<1>3. CASE BeyondHorizon \/ TurnLimitExceeded \/ CallLimitExceeded \/ ServeBatch
             \/ RefuseBatch \/ MalformedOutcome \/ Wait \/ Ended \/ UNCHANGED vars
  BY <1>3 DEF BeyondHorizon, TurnLimitExceeded, CallLimitExceeded, ServeBatch, RefuseBatch,
              MalformedOutcome, Refused, Wait, Ended, vars
<1>4. ASSUME NEW o, ProposalRefused(o) \/ ActionAccepted(o)
      PROVE  now' = now
  BY <1>4 DEF ProposalRefused, Refused, ActionAccepted
<1>5. CASE Act \/ Ask \/ Escalate \/ ProposeTerminal
  BY <1>4, <1>5 DEF Act, Ask, Escalate, ActThenWait, ProposeTerminal
<1> QED BY <1>1, <1>2, <1>3, <1>5 DEF Next, Loop, Invocation

\* LimitInv is an invariant of the engine.
THEOREM LimitsExplained == Spec => []LimitInv
<1>1. Init => LimitInv
  BY EngineAssumption DEF Init, LimitInv, AllowanceHolds, CallLimitSparesOneRefusal
<1>2. ASSUME IInv, IInv', LimitInv, [Next]_vars PROVE LimitInv'
  <2>1. TypeOK /\ TypeOK'
    BY <1>2 DEF IInv
  <2>2. now' <= Horizon
    BY <1>2, <2>1, ClockStopsAtHorizon DEF LimitInv
  <2>3. /\ invocations \in Nat /\ MaxInvocations \in Nat /\ invocations <= MaxInvocations
        /\ invocations' \in Nat /\ invocations' <= MaxInvocations
    BY <2>1, EngineAssumption DEF TypeOK
  <2>4. /\ business \in Nat /\ turn \in Nat /\ batches \in Nat /\ batches <= MaxBatches
        /\ MaxTurns \in Nat /\ MaxBatches \in Nat
    BY <2>1, EngineAssumption DEF TypeOK, CallLimit
  <2>5. CASE pc' = pc /\ UNCHANGED <<agentVars, endVars>>
    BY <1>2, <2>2, <2>5 DEF LimitInv, AllowanceHolds, CallLimitSparesOneRefusal, agentVars,
                            endVars
  <2>6. CASE pc # "ended" /\ UNCHANGED endVars
    BY <1>2, <2>2, <2>3, <2>6 DEF LimitInv, AllowanceHolds, CallLimitSparesOneRefusal, endVars
  <2>7. CASE pc' = "ended" /\ violation' = violation /\ UNCHANGED agentVars
    BY <1>2, <2>2, <2>7 DEF LimitInv, AllowanceHolds, CallLimitSparesOneRefusal, agentVars
  <2>8. CASE /\ pc' = "ended" /\ UNCHANGED agentVars
             /\ violation' = "INVOCATION_LIMIT_EXCEEDED" /\ OutOfInvocations
    BY <2>2, <2>3, <2>8 DEF LimitInv, AllowanceHolds, CallLimitSparesOneRefusal, agentVars,
                            OutOfInvocations
  <2>9. CASE /\ pc' = "ended" /\ UNCHANGED agentVars
             /\ violation' = "INVOCATION_TURN_LIMIT_EXCEEDED"
    BY <2>2, <2>3, <2>9 DEF LimitInv, AllowanceHolds, CallLimitSparesOneRefusal, agentVars
  <2>10. CASE /\ pc' = "ended" /\ UNCHANGED agentVars
              /\ violation' = "INVOCATION_CALL_LIMIT_EXCEEDED"
              /\ business < MaxTurns /\ turn >= CallLimit
    <3>1. turn - business - batches >= 2
      BY <2>4, <2>10 DEF CallLimit
    <3> QED BY <2>2, <2>3, <2>10, <3>1 DEF LimitInv, AllowanceHolds,
                                           CallLimitSparesOneRefusal, agentVars
  <2> QED BY <1>2, <2>1, <2>5, <2>6, <2>7, <2>8, <2>9, <2>10, HaltIsExplained
<1>3. IInv /\ IInv' /\ LimitInv /\ [Next]_vars => LimitInv'
  BY <1>2
<1> QED BY <1>1, <1>3, Inductive, PTL DEF Spec

\* The episode never runs past its operational horizon (engine.py, run).
THEOREM HorizonHolds == Spec => []WithinHorizon
<1>1. LimitInv => WithinHorizon
  BY DEF LimitInv, WithinHorizon
<1> QED BY <1>1, LimitsExplained, PTL

\* The invocation allowance bounds event and fallback wakes alike and is only
\* reported exceeded when it was spent in full (engine.py, run and _deliver).
THEOREM AllowanceIsKept == Spec => []AllowanceHolds
<1>1. LimitInv => AllowanceHolds
  BY DEF LimitInv
<1> QED BY <1>1, LimitsExplained, PTL

\* The call bound of an invocation stops only an agent that was refused at least
\* twice over and above its business turns and batches (engine.py, _invoke).
THEOREM CallLimitIsFair == Spec => []CallLimitSparesOneRefusal
<1>1. LimitInv => CallLimitSparesOneRefusal
  BY DEF LimitInv
<1> QED BY <1>1, LimitsExplained, PTL

\* The two budgets of an episode bind when they are spent and never before
\* (engine.py, run, _deliver and _invoke).
THEOREM BudgetsHold == Spec => []WithinBudgets
<1>1. LimitInv => WithinBudgets
  BY DEF LimitInv, WithinBudgets
<1> QED BY <1>1, LimitsExplained, PTL

\* What the agent is asked on is current: the reads it holds, and no wait of its
\* own stands (engine.py, _invoke and _invalidate_derived_context).
THEOREM ContextStaysCurrent == Spec => []ContextIsCurrent
<1>1. IInv => ContextIsCurrent
  BY DEF IInv, ContextIsCurrent
<1> QED BY <1>1, Inductive, PTL

-----------------------------------------------------------------------------
(* The order of one instant.                                                *)

\* Sequence numbers tell the scenario's events from the domain's timers.
SeqInv(q) ==
  \A e \in q.pending : /\ e.id \in Authored => e.seq < TimerBase
                       /\ e.id \in Timers => e.seq > TimerBase

\* Whatever an accepted verdict schedules is numbered on its own side of the base.
LEMMA EffectNumbers ==
  ASSUME TypeOK, NEW q \in QueueSet, SeqInv(q), NEW cause, Effect(q, cause)
  PROVE  SeqInv(queue')
<1> DEFINE R == {Entry(a, now' + Plan[a].at, Plan[a].seq) : a \in Fired(cause)}
<1>1. PICK X \in SUBSET (PendingIds(q) \cap Timers), arms \in FreshArms(q) :
        \E order \in ArmingOrders(arms) :
          queue' = Schedule(Cancel(q, X), TimerEntries(now', timerCount, arms, order) \cup R)
  BY DEF Effect
<1>2. PICK order \in ArmingOrders(arms) :
        queue' = Schedule(Cancel(q, X), TimerEntries(now', timerCount, arms, order) \cup R)
  BY <1>1
<1> DEFINE T == TimerEntries(now', timerCount, arms, order)
<1>3. queue'.pending = {e \in q.pending : e.id \notin X} \cup (T \cup R)
  BY <1>2 DEF Schedule, Cancel, QueueSet
<1>4. Authored \cap Timers = {}
  BY EngineAssumption
<1>5. \A e \in T : e.id \in Timers /\ e.seq > TimerBase
  <2> SUFFICES ASSUME NEW a \in arms
               PROVE  a.id \in Timers /\ TimerBase + timerCount + order[a] > TimerBase
    BY DEF TimerEntries, Entry
  <2>1. order[a] \in 1..Cardinality(arms) /\ Cardinality(arms) \in Nat
    BY FS_CardinalityType DEF ArmingOrders, FreshArms
  <2>2. timerCount \in Nat /\ TimerBase \in Nat
    BY TimerBaseAssumption DEF TypeOK
  <2> QED BY <2>1, <2>2 DEF FreshArms
<1>6. \A e \in R : e.id \in Authored /\ e.seq < TimerBase
  <2>1. Fired(cause) \subseteq Authored
    BY DEF Fired, TypeOK
  <2> QED BY <2>1, EngineAssumption DEF Entry
<1> HIDE DEF T, R
<1> QED BY <1>3, <1>4, <1>5, <1>6 DEF SeqInv

\* Taking an event off the queue renumbers nothing.
LEMMA PopNumbers ==
  ASSUME NEW q \in QueueSet, SeqInv(q), NEW e
  PROVE  SeqInv(Pop(q, e))
BY DEF SeqInv, Pop, QueueSet

\* Every queue the engine builds is numbered so.
THEOREM Numbered == Spec => []SeqInv(queue)
<1>1. Init => SeqInv(queue)
  BY EngineAssumption DEF Init, SeqInv, Schedule, EmptyQueue, Entry
<1>2. ASSUME IInv, SeqInv(queue), [Next]_vars PROVE SeqInv(queue')
  <2>1. TypeOK /\ queue \in QueueSet
    BY <1>2 DEF IInv, QueueInv
  <2>2. CASE Still
    BY <1>2, <2>2 DEF Still
  <2>3. CASE Taken
    BY <1>2, <2>1, <2>3, PopNumbers DEF Taken
  <2>4. CASE EventCommits
    <3>1. PICK e \in queue.pending :
            /\ Deliver(e, IF e.id \in Silent THEN "audit" ELSE "accepted")
            /\ Effect(Pop(queue, e), OnEvent(EventType[e.id]))
      BY <2>4 DEF EventCommits
    <3>2. Pop(queue, e) \in QueueSet
      BY <1>2, <3>1, DeliveryKeeps DEF QueueInv
    <3> QED BY <1>2, <2>1, <3>1, <3>2, PopNumbers, EffectNumbers
  <2>5. CASE OutcomeCommits
    <3>1. PICK o : Effect(queue, OnAction(o))
      BY <2>5 DEF OutcomeCommits
    <3> QED BY <1>2, <2>1, <3>1, EffectNumbers
  <2> QED BY <1>2, <2>2, <2>3, <2>4, <2>5, StepShape
<1>3. IInv /\ SeqInv(queue) /\ [Next]_vars => SeqInv(queue)'
  BY <1>2 DEF SeqInv
<1> QED BY <1>1, <1>3, Inductive, PTL DEF Spec

\* Time keeps its promise: the clock never has to rewind, the horizon ends it,
\* and at one instant the scenario's events go before the domain's timers
\* (core/clock.py, core/events.py, engine.py run and schedule_timer).
THEOREM TimeKept == Spec => []TimeIsKept
<1>1. IInv /\ SeqInv(queue) => AuthoredBeforeTimers
  <2> SUFFICES ASSUME IInv, SeqInv(queue), NEW e \in queue.pending, NEW f \in queue.pending,
                      e.at = f.at, e.id \in Authored, f.id \in Timers
               PROVE  Before(e, f)
    BY DEF AuthoredBeforeTimers
  <2>1. e \in EntrySet /\ f \in EntrySet
    BY DEF IInv, QueueInv, QueueSet
  <2>2. e.seq \in Nat /\ f.seq \in Nat
    BY <2>1 DEF EntrySet
  <2> QED BY <2>2, TimerBaseAssumption DEF SeqInv, Before
<1>2. NothingOverdue /\ AuthoredBeforeTimers /\ WithinHorizon => TimeIsKept
  BY DEF TimeIsKept
<1> QED BY <1>1, <1>2, Inductive, Numbered, ClockNeverRewinds, HorizonHolds, PTL

-----------------------------------------------------------------------------
(* How an episode ends.                                                     *)

\* A step that ends the episode says why.
EndingStep ==
  /\ pc # "ended" /\ pc' = "ended"
  /\ \/ /\ status' = "deadlock"
        /\ violation' \in {"INVOCATION_LIMIT_EXCEEDED", "INVOCATION_TURN_LIMIT_EXCEEDED",
                           "INVOCATION_CALL_LIMIT_EXCEEDED"}
     \/ status' = "terminal" /\ violation' = violation /\ final'
     \/ /\ status' = "horizon" /\ violation' = violation
        /\ (queue'.pending = {} /\ standing' /\ fallbackAt' = None) => now' = Horizon

\* A step leaves everything alone, leaves the episode running, or ends it.
LEMMA StepEnds ==
  ASSUME TypeOK, now <= Horizon, [Next]_vars
  PROVE  UNCHANGED vars \/ pc' # "ended" \/ EndingStep
<1> USE DEF queueVars, waitVars, agentVars, endVars, domainVars
<1>1. CASE Ended \/ UNCHANGED vars
  BY <1>1 DEF Ended
<1>2. CASE FireFallback
  BY <1>2 DEF FireFallback, Halt, Invoke, EndingStep
<1>3. CASE BeyondHorizon
  BY <1>3 DEF BeyondHorizon, FallbackDue, Upcoming, Halt, EndingStep
<1>4. CASE WorldIsQuiet
  BY <1>4, EngineAssumption DEF WorldIsQuiet, Halt, EndingStep, TypeOK
<1>5. CASE DeliverAfterTerminal \/ DeliverRejected
  BY <1>5 DEF DeliverAfterTerminal, DeliverRejected, Deliver
<1>6. CASE DeliverAccepted
  BY <1>6 DEF DeliverAccepted, Deliver, Halt, Invoke, EndingStep
<1>7. CASE TurnLimitExceeded \/ CallLimitExceeded
  BY <1>7 DEF TurnLimitExceeded, CallLimitExceeded, Halt, EndingStep
<1>8. CASE ServeBatch \/ RefuseBatch \/ MalformedOutcome
  BY <1>8 DEF ServeBatch, RefuseBatch, MalformedOutcome, BusinessTurn, Called, Refused
<1>9. CASE Wait
  BY <1>9 DEF Wait, BusinessTurn, Called, DeclareWait
<1>10. ASSUME NEW o, BusinessTurn, ProposalRefused(o)
       PROVE  pc' # "ended"
  BY <1>10 DEF BusinessTurn, Called, ProposalRefused, Refused
<1>11. CASE Act
  BY <1>10, <1>11 DEF Act, BusinessTurn, Called
<1>12. CASE Ask \/ Escalate
  BY <1>10, <1>12 DEF Ask, Escalate, ActThenWait, BusinessTurn, Called, DeclareWait
<1>13. CASE ProposeTerminal
  BY <1>10, <1>13 DEF ProposeTerminal
<1> QED BY <1>1, <1>2, <1>3, <1>4, <1>5, <1>6, <1>7, <1>8, <1>9, <1>11, <1>12, <1>13
        DEF Next, Loop, Invocation

\* A deadlock always has the violation that explains it, nothing else has one, a
\* terminal ending follows a finished operation, and a wait that time never
\* ended is carried to the horizon (engine.py, _finish and
\* _exhaust_horizon_under_wait).
THEOREM EndingsAreExplained == Spec => []EndingIsExplained
<1>1. Init => EndingIsExplained
  BY DEF Init, EndingIsExplained
<1>2. ASSUME IInv, LimitInv, EndingIsExplained, [Next]_vars PROVE EndingIsExplained'
  <2>1. TypeOK /\ now <= Horizon /\ (pc # "ended" => violation = "none")
    BY <1>2 DEF IInv, LimitInv
  <2>2. CASE UNCHANGED vars
    BY <1>2, <2>2 DEF vars, queueVars, waitVars, endVars, domainVars, EndingIsExplained
  <2>3. CASE pc' # "ended"
    BY <2>3 DEF EndingIsExplained
  <2>4. CASE EndingStep
    BY <2>1, <2>4 DEF EndingStep, EndingIsExplained
  <2> QED BY <1>2, <2>1, <2>2, <2>3, <2>4, StepEnds
<1>3. IInv /\ LimitInv /\ EndingIsExplained /\ [Next]_vars => EndingIsExplained'
  BY <1>2
<1> QED BY <1>1, <1>3, Inductive, LimitsExplained, PTL DEF Spec
-----------------------------------------------------------------------------
(* How long an episode may last.                                             *)

\* A step that ends the episode, one the agent was asked for, a wake, and the
\* delivery of an event that wakes nobody.
Stops  == pc' = "ended" /\ invocations' = invocations
Asked  == /\ pc = "agent" /\ pc' \in {"agent", "loop"} /\ invocations' = invocations
          /\ turn < CallLimit /\ turn' = turn + 1
Wakes  == /\ pc = "loop" /\ pc' = "agent" /\ turn' = 0
          /\ invocations < MaxInvocations /\ invocations' = invocations + 1
Passes == /\ pc = "loop" /\ pc' = "loop" /\ invocations' = invocations
          /\ \E e \in queue.pending : e.id \in Spent(queue')

\* A delivered event has left the queue for good, whatever its effect queues.
LEMMA DeliveredLeaves ==
  ASSUME IInv, DeliverAfterTerminal \/ DeliverRejected \/ DeliverAccepted
  PROVE  \E e \in queue.pending : e.id \in Spent(queue')
<1>1. now \in Nat /\ QueueInv(queue, conditionals, now) /\ TypeOK
  BY DEF IInv, TypeOK
<1>2. PICK e \in queue.pending :
        /\ \E d : Deliver(e, d)
        /\ \/ queue' = Pop(queue, e)
           \/ Effect(Pop(queue, e), OnEvent(EventType[e.id]))
  BY DEF DeliverAfterTerminal, DeliverRejected, DeliverAccepted
<1>3. /\ now' \in Nat /\ \A f \in queue.pending : f.at >= now'
  BY <1>1, <1>2, DeliverIsNext DEF EntrySet
<1> DEFINE p == Pop(queue, e)
<1>4. QueueInv(p, conditionals, now') /\ e.id \in Spent(p)
  BY <1>1, <1>3, PopKeeps
<1> HIDE DEF p
<1>5. CASE queue' = p
  BY <1>4, <1>5
<1>6. CASE Effect(p, OnEvent(EventType[e.id]))
  BY <1>1, <1>3, <1>4, <1>6, EffectKeeps
<1> QED BY <1>2, <1>5, <1>6 DEF p

\* Every step of an episode that runs is one of the four.
LEMMA StepPace ==
  ASSUME IInv, Next, pc # "ended"
  PROVE  Stops \/ Asked \/ Wakes \/ Passes
<1> USE DEF queueVars, waitVars, agentVars, endVars, domainVars
<1>1. invocations \in 0 .. MaxInvocations /\ MaxInvocations \in Nat
  BY EngineAssumption DEF IInv, TypeOK
<1>2. CASE FireFallback
  BY <1>1, <1>2 DEF FireFallback, Halt, Invoke, OutOfInvocations, Stops, Wakes
<1>3. CASE BeyondHorizon \/ WorldIsQuiet
  BY <1>3 DEF BeyondHorizon, WorldIsQuiet, Halt, Stops
<1>4. CASE DeliverAfterTerminal \/ DeliverRejected
  <2>1. \E e \in queue.pending : e.id \in Spent(queue')
    BY <1>4, DeliveredLeaves
  <2> QED BY <1>4, <2>1 DEF DeliverAfterTerminal, DeliverRejected, Deliver, Passes
<1>5. CASE DeliverAccepted
  <2>1. \E e \in queue.pending : e.id \in Spent(queue')
    BY <1>5, DeliveredLeaves
  <2> QED BY <1>1, <1>5, <2>1 DEF DeliverAccepted, Deliver, Halt, Invoke, OutOfInvocations,
                                  Stops, Wakes, Passes
<1>6. CASE TurnLimitExceeded \/ CallLimitExceeded
  BY <1>6 DEF TurnLimitExceeded, CallLimitExceeded, Halt, Stops
<1>7. CASE ServeBatch \/ RefuseBatch
  BY <1>7 DEF ServeBatch, RefuseBatch, Called, Asked
<1>8. ASSUME NEW o, BusinessTurn, ProposalRefused(o)
      PROVE  Asked
  BY <1>8 DEF BusinessTurn, Called, ProposalRefused, Refused, Asked
<1>9. CASE MalformedOutcome
  BY <1>9 DEF MalformedOutcome, BusinessTurn, Called, Refused, Asked
<1>10. CASE Act
  BY <1>8, <1>10 DEF Act, BusinessTurn, Called, ActionAccepted, Asked
<1>11. CASE Wait
  BY <1>11 DEF Wait, BusinessTurn, Called, DeclareWait, Asked
<1>12. CASE Ask \/ Escalate
  BY <1>8, <1>12 DEF Ask, Escalate, ActThenWait, ActionAccepted, BusinessTurn, Called,
                     DeclareWait, Asked
<1>13. CASE ProposeTerminal
  BY <1>8, <1>13 DEF ProposeTerminal, BusinessTurn, Called, Asked
<1> QED BY <1>2, <1>3, <1>4, <1>5, <1>6, <1>7, <1>9, <1>10, <1>11, <1>12, <1>13
        DEF Next, Ended, Loop, Invocation

\* What n wakes are worth: one fewer is worth that much less.
LEMMA WakesWorth ==
  ASSUME NEW n \in Nat, NEW c \in Nat
  PROVE  /\ n * c \in Nat
         /\ n > 0 => (n - 1) * c \in Nat /\ (n - 1) * c = n * c - c
OBVIOUS

\* How often the agent may still be asked.
CallsLeft == (MaxInvocations - invocations) * CallLimit
               + (IF pc = "agent" THEN CallLimit - turn ELSE 0)

\* The allowance of wakes and the call bound of each bound the bill: the agent is
\* asked MaxInvocations * CallLimit times in an episode at most, whatever wakes it,
\* is refused and fires meanwhile (engine.py, run and _invoke).
CallsRunOut ==
  [][/\ CallsLeft' \in 0 .. CallsLeft
     /\ pc = "agent" /\ pc' # "ended" => CallsLeft' < CallsLeft]_vars

\* Every episode keeps the bound of CallsRunOut (engine.py, run and _invoke).
THEOREM AgentCallsAreBounded == Spec => CallsRunOut
<1>1. IInv /\ [Next]_vars =>
        [/\ CallsLeft' \in 0 .. CallsLeft
         /\ pc = "agent" /\ pc' # "ended" => CallsLeft' < CallsLeft]_vars
  <2> DEFINE Goal == /\ CallsLeft' \in 0 .. CallsLeft
                     /\ pc = "agent" /\ pc' # "ended" => CallsLeft' < CallsLeft
             n == MaxInvocations - invocations
  <2> SUFFICES ASSUME IInv, Next, vars' # vars PROVE Goal
    OBVIOUS
  <2>1. /\ MaxInvocations \in Nat /\ invocations \in 0 .. MaxInvocations
        /\ CallLimit \in Nat /\ turn \in 0 .. CallLimit
    BY EngineAssumption DEF IInv, TypeOK, CallLimit
  <2>2. n \in Nat /\ n * CallLimit \in Nat
    <3>1. n \in Nat
      BY <2>1
    <3> QED BY <2>1, <3>1, WakesWorth
  <2>3. pc # "ended"
    BY DEF Next, Ended, Loop, Invocation, FireFallback, BeyondHorizon, WorldIsQuiet,
           DeliverAfterTerminal, DeliverRejected, DeliverAccepted, Deliver,
           TurnLimitExceeded, CallLimitExceeded, ServeBatch, RefuseBatch, MalformedOutcome,
           Act, Wait, Ask, Escalate, ActThenWait, ProposeTerminal, BusinessTurn, Called
  <2>4. CallsLeft = n * CallLimit + (IF pc = "agent" THEN CallLimit - turn ELSE 0)
    BY DEF CallsLeft
  <2>5. CASE invocations' = invocations
    <3>1. CallsLeft' = n * CallLimit + (IF pc' = "agent" THEN CallLimit - turn' ELSE 0)
      BY <2>5 DEF CallsLeft
    <3> HIDE DEF n
    <3>2. CASE Stops
      BY <2>1, <2>2, <2>4, <3>1, <3>2 DEF Stops
    <3>3. CASE Asked
      BY <2>1, <2>2, <2>4, <3>1, <3>3 DEF Asked
    <3>4. CASE Passes
      BY <2>1, <2>2, <2>4, <3>1, <3>4 DEF Passes
    <3> QED BY <2>1, <2>3, <2>5, <3>2, <3>3, <3>4, StepPace DEF Wakes
  <2>6. CASE Wakes
    <3>1. n > 0 /\ MaxInvocations - invocations' = n - 1
      BY <2>1, <2>6 DEF Wakes
    <3>2. CallsLeft' = (n - 1) * CallLimit + (CallLimit - 0)
      BY <2>6, <3>1 DEF CallsLeft, Wakes
    <3>3. (n - 1) * CallLimit = n * CallLimit - CallLimit
      BY <2>1, <2>2, <3>1, WakesWorth
    <3> HIDE DEF n
    <3> QED BY <2>1, <2>2, <2>4, <2>6, <3>2, <3>3 DEF Wakes
  <2> QED BY <2>3, <2>5, <2>6, StepPace DEF Stops, Asked, Passes
<1> QED BY <1>1, Inductive, PTL DEF Spec, CallsRunOut

\* What an episode has left, where identities are finitely many: those not spent
\* yet, the wakes still allowed, and the rest of the invocation it is in.
EpisodeLeft ==
  Cardinality(Ids \ Spent(queue)) + (MaxInvocations - invocations) * (CallLimit + 2)
    + (CASE pc = "agent" -> CallLimit - turn + 2 [] pc = "loop" -> 1 [] OTHER -> 0)

\* An episode runs down: whatever the domain arms, disarms and releases and
\* whatever the agent answers, each step of it leaves it less than it had, so the
\* identities and the limits of the plan bound it from the start (engine.py, run).
EpisodeRunsDown == [][pc # "ended" => EpisodeLeft' \in 0 .. (EpisodeLeft - 1)]_vars

\* Every episode runs down as EpisodeRunsDown says, where the identities that
\* events and timers can have are finitely many (engine.py, run): a domain could
\* otherwise arm new timers in one minute for ever.
THEOREM EpisodesAreShort == ASSUME IsFiniteSet(Ids) PROVE Spec => EpisodeRunsDown
<1>1. ASSUME IInv, [Next]_vars PROVE Spent(queue) \subseteq Spent(queue')
  BY <1>1, SpentGrows
<1>2. IInv /\ IInv' /\ [Next]_vars =>
        [pc # "ended" => EpisodeLeft' \in 0 .. (EpisodeLeft - 1)]_vars
  <2> DEFINE n == MaxInvocations - invocations
             c == CallLimit + 2
             k == Cardinality(Ids \ Spent(queue))
             l == Cardinality(Ids \ Spent(queue'))
  <2> SUFFICES ASSUME IInv, IInv', Next, pc # "ended"
               PROVE  EpisodeLeft' \in 0 .. (EpisodeLeft - 1)
    OBVIOUS
  <2>1. /\ MaxInvocations \in Nat /\ invocations \in 0 .. MaxInvocations
        /\ CallLimit \in Nat /\ turn \in 0 .. CallLimit /\ pc \in {"loop", "agent", "ended"}
    BY EngineAssumption DEF IInv, TypeOK, CallLimit
  <2>2. n \in Nat /\ c \in Nat /\ n * c \in Nat
    <3>1. n \in Nat /\ c \in Nat
      BY <2>1
    <3> QED BY <3>1, WakesWorth
  <2>3. Spent(queue) \subseteq Spent(queue')
    BY <1>1
  <2>4. k \in Nat /\ l \in Nat /\ l <= k
    <3>1. IsFiniteSet(Ids \ Spent(queue))
      BY FS_Subset
    <3>2. Ids \ Spent(queue') \subseteq Ids \ Spent(queue)
      BY <2>3
    <3> QED BY <3>1, <3>2, FS_Subset, FS_CardinalityType
  <2>5. EpisodeLeft = k + n * c
          + (CASE pc = "agent" -> CallLimit - turn + 2 [] pc = "loop" -> 1 [] OTHER -> 0)
    BY DEF EpisodeLeft
  <2>6. EpisodeLeft' = l + (MaxInvocations - invocations') * c
          + (CASE pc' = "agent" -> CallLimit - turn' + 2 [] pc' = "loop" -> 1 [] OTHER -> 0)
    BY DEF EpisodeLeft, Spent, PendingIds
  <2>7. CASE invocations' = invocations
    <3>1. (MaxInvocations - invocations') * c = n * c
      BY <2>7
    <3> HIDE DEF n, c, k
    <3>2. CASE Stops
      <4> HIDE DEF l
      <4> QED BY <2>1, <2>2, <2>4, <2>5, <2>6, <3>1, <3>2 DEF Stops
    <3>3. CASE Asked
      <4> HIDE DEF l
      <4> QED BY <2>1, <2>2, <2>4, <2>5, <2>6, <3>1, <3>3 DEF Asked
    <3>4. CASE Passes
      <4>1. l < k
        <5>1. PICK e \in queue.pending : e.id \in Spent(queue')
          BY <3>4 DEF Passes
        <5>2. e.id \in Ids /\ e.id \notin Spent(queue)
          BY <5>1 DEF IInv, QueueInv, QueueSet, EntrySet, Spent, PendingIds
        <5>3. /\ Ids \ Spent(queue') \subseteq Ids \ Spent(queue)
              /\ Ids \ Spent(queue') # Ids \ Spent(queue)
          BY <2>3, <5>1, <5>2
        <5>4. IsFiniteSet(Ids \ Spent(queue))
          BY FS_Subset
        <5> QED BY <5>3, <5>4, FS_Subset, FS_CardinalityType DEF k
      <4> HIDE DEF l
      <4> QED BY <2>1, <2>2, <2>4, <2>5, <2>6, <3>1, <3>4, <4>1 DEF Passes
    <3> QED BY <2>1, <2>7, <3>2, <3>3, <3>4, StepPace DEF Wakes
  <2>8. CASE Wakes
    <3>1. n > 0 /\ MaxInvocations - invocations' = n - 1
      BY <2>1, <2>8 DEF Wakes
    <3>2. (n - 1) * c = n * c - c
      BY <2>2, <3>1, WakesWorth
    <3>3. EpisodeLeft' = l + (n * c - c) + (CallLimit - 0 + 2)
      BY <2>6, <2>8, <3>1, <3>2 DEF Wakes
    <3>4. EpisodeLeft = k + n * c + 1
      BY <2>5, <2>8 DEF Wakes
    <3>5. c = CallLimit + 2
      OBVIOUS
    <3> HIDE DEF n, c, k, l
    <3> QED BY <2>1, <2>2, <2>4, <3>3, <3>4, <3>5
  <2> QED BY <2>7, <2>8, StepPace DEF Stops, Asked, Passes
<1> QED BY <1>2, Inductive, PTL DEF Spec, EpisodeRunsDown
=============================================================================

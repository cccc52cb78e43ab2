------------------------------- MODULE Engine -------------------------------
(***************************************************************************)
(* The episode engine, operatebench/core/engine.py: one simulated clock,   *)
(* one queue of events, one agent that is called only when it is woken,    *)
(* and a domain the engine knows only through its verdicts.                *)
(*                                                                         *)
(* The engine is single-threaded.  Its atomic steps are the turns of the   *)
(* delivery loop and the handling of one answer of the agent; between two  *)
(* of them the only thing running is agent.decide, the state pc = "agent". *)
(* The domain is any domain that keeps the protocol of core/protocol.py: a *)
(* refused verdict mutates nothing, a replay-final operation refuses every *)
(* proposal, and a timer is armed under an identity of the domain's own.   *)
(***************************************************************************)
EXTENDS EventQueue

CONSTANTS
  Authored,     \* identities of the authored events
  Timers,       \* identities the domain arms timers under
  Plan,         \* the authored event of each identity, see PlannedEvent
  EventType,    \* the type of the event of each identity
  Silent,       \* identities whose events do not trigger the agent
  Authoritative,  \* identities whose event carries authoritative verification
  Tools,        \* the retrieval catalogue
  Versions,     \* record versions, the digests a served result carries
  Unavailable,  \* the "version" of a record whose read comes back not ok
  ActionTypes,  \* what the agent may propose, "complete" excluded
  Reads,        \* required reads of each action type and of "complete"
  Verifiers,    \* the tools with authoritative verification
  NotServed,    \* no result of this tool is in the current invocation
  Horizon, MaxTurns, MaxBatches, MaxInvocations,   \* the EpisodePlan limits
  Delays        \* the delays the domain and the agent choose from

Ids == Authored \cup Timers
None == -1
OnAction(a) == <<"action", a>>
OnEvent(t) == <<"event", t>>
Complete == "complete"
SendMessage == "send_message"
RequestException == "request_exception_resolution"
Causes == {OnAction(a) : a \in ActionTypes \cup {Complete}}
            \cup {OnEvent(EventType[i]) : i \in Ids}

\* PlannedEvent: an instant (trigger is Fixed), or at is the delay after a cause.
\* A trigger that also names a cycle is a cause of its own here.
Fixed == <<"fixed", "start">>
PlannedEvents == [at : Nat, seq : Nat, trigger : Causes \cup {Fixed}]

ASSUME EngineAssumption ==
  /\ Authored \cap Timers = {}
  /\ Plan \in [Authored -> PlannedEvents]
  /\ \A a \in Authored : Plan[a].seq < TimerBase
  /\ DOMAIN EventType = Ids
  /\ Silent \subseteq Ids /\ Authoritative \subseteq Ids
  /\ Unavailable \notin Versions /\ NotServed \notin Versions \cup {Unavailable}
  /\ {SendMessage, RequestException} \subseteq ActionTypes /\ Complete \notin ActionTypes
  /\ Reads \in [ActionTypes \cup {Complete} -> SUBSET Tools]
  /\ Verifiers \subseteq Tools
  /\ Horizon \in Nat /\ MaxInvocations \in Nat
  /\ MaxTurns \in Nat \ {0} /\ MaxBatches \in Nat
  /\ Delays \subseteq Nat \ {0}

VARIABLES
  pc,             \* "loop": run's loop; "agent": in agent.decide; "ended"
  now,            \* the clock, in minutes since the episode started
  queue,          \* the EventQueue
  timerCount,     \* _timer_counter
  conditionals,   \* authored events still waiting for their cause
  delivered,      \* disposition of each delivered identity
  standing,       \* is a wait standing (_active_wait)?
  fallbackAt,     \* _fallback_at, or None
  invocations,    \* _invocations
  business, turn, batches,   \* the counters of the current invocation
  served,         \* _served: the version each tool was served at, or NotServed
  readHistory,    \* tools ever served in this episode
  claims,         \* did the waking event carry claims the agent may cite, and on
                  \* whose authority: "none", "claimed" or "verified"
  rejection,      \* _last_rejection: the subject and the code, or NoRejection
  violation,      \* code of the critical violation on record, or "none"
  status,         \* how the episode ended, or "running"
  \* the domain
  version,        \* version of the record each tool reads
  final           \* is_replay_final

queueVars == <<queue, timerCount, conditionals, delivered>>
waitVars == <<standing, fallbackAt>>
agentVars == <<invocations, business, turn, batches, served, readHistory, claims,
               rejection>>
endVars == <<violation, status>>
domainVars == <<version, final>>
vars == <<pc, now, queueVars, waitVars, agentVars, endVars, domainVars>>

NoRejection == <<"none", "none">>
Dispositions == {"accepted", "audit", "rejected", "post_terminal"}

-----------------------------------------------------------------------------
(* Engine.__init__ and the start of run: every authored event with an       *)
(* instant is queued; the rest wait for their cause.                        *)

Init ==
  /\ pc = "loop" /\ now = 0
  /\ LET fixed == {a \in Authored : Plan[a].trigger = Fixed}
     IN /\ queue = Schedule(EmptyQueue,
                     {Entry(a, Plan[a].at, Plan[a].seq) : a \in fixed})
        /\ conditionals = Authored \ fixed
  /\ timerCount = 0
  /\ delivered = [i \in Ids |-> "no"]
  /\ standing = FALSE /\ fallbackAt = None
  /\ invocations = 0 /\ business = 0 /\ turn = 0 /\ batches = 0
  /\ served = [t \in Tools |-> NotServed]
  /\ readHistory = {}
  /\ claims = "none" /\ rejection = NoRejection
  /\ violation = "none" /\ status = "running"
  /\ version \in [Tools -> Versions \cup {Unavailable}]
  /\ final = FALSE

-----------------------------------------------------------------------------
(* What an accepted verdict of the domain does.  The domain rewrites any    *)
(* records, disarms timers and arms timers under fresh identities of its    *)
(* own, then the engine releases the authored events that hang off cause:   *)
(* each leaves the list of conditionals and is queued its delay after now.  *)

FreshArms(q) ==
  {arms \in SUBSET [id : Timers \ q.seen, delay : Delays] :
     IsFiniteSet(arms) /\ \A s, t \in arms : s.id = t.id => s = t}

Fired(cause) == {a \in conditionals : Plan[a].trigger = cause}

\* The effect starts from queue q, at the instant now'.
Effect(q, cause) ==
  \E cancelled \in SUBSET (PendingIds(q) \cap Timers), arms \in FreshArms(q) :
    \E order \in ArmingOrders(arms) :
      /\ timerCount' = timerCount + Cardinality(arms)
      /\ queue' = Schedule(Cancel(q, cancelled),
                    TimerEntries(now', timerCount, arms, order)
                    \cup {Entry(a, now' + Plan[a].at, Plan[a].seq) : a \in Fired(cause)})
      /\ conditionals' = conditionals \ Fired(cause)
      /\ version' \in [Tools -> Versions \cup {Unavailable}]
      /\ final' \in BOOLEAN

-----------------------------------------------------------------------------
(* How an episode ends (_finish) and how an invocation opens (_invoke).     *)

Halt(st, code) == pc' = "ended" /\ status' = st /\ violation' = code

OutOfInvocations == invocations >= MaxInvocations

ClearWait == standing' = FALSE /\ fallbackAt' = None

\* Mutant: served results are kept for the whole run.
KeepServed == UNCHANGED served

\* _invalidate_derived_context
DropServed == served' = [t \in Tools |-> NotServed]

\* A wake drops every served result and renews the batch budget.
Invoke(claim) ==
  /\ pc' = "agent"
  /\ invocations' = invocations + 1
  /\ ClearWait
  /\ rejection' = NoRejection /\ claims' = claim
  /\ DropServed
  /\ business' = 0 /\ turn' = 0 /\ batches' = 0
  /\ UNCHANGED <<readHistory, endVars>>

-----------------------------------------------------------------------------
(* The delivery loop of run.                                                *)

\* Mutant: the fallback is only looked at when nothing is queued.
FallbackDueWhenQuiet == fallbackAt # None /\ queue.pending = {}

FallbackDue == fallbackAt # None /\ \A e \in queue.pending : fallbackAt < e.at

FireFallback ==
  /\ pc = "loop" /\ FallbackDue /\ fallbackAt <= Horizon
  /\ now' = fallbackAt
  /\ IF OutOfInvocations
       THEN /\ Halt("deadlock", "INVOCATION_LIMIT_EXCEEDED")
            /\ ClearWait /\ UNCHANGED agentVars
       ELSE Invoke("none")
  /\ UNCHANGED <<queueVars, domainVars>>

BeyondHorizon ==
  /\ pc = "loop"
  /\ IF FallbackDue THEN fallbackAt > Horizon
                    ELSE \E e \in Upcoming(queue) : e.at > Horizon
  /\ Halt("horizon", violation)
  /\ UNCHANGED <<now, queueVars, waitVars, agentVars, domainVars>>

\* Mutant: the episode stops at the instant of the last event.
WorldIsQuietAtOnce ==
  /\ pc = "loop" /\ queue.pending = {} /\ fallbackAt = None
  /\ now' = now /\ Halt(IF final THEN "terminal" ELSE "horizon", violation)
  /\ UNCHANGED <<queueVars, waitVars, agentVars, domainVars>>

\* Nothing is queued and no fallback is declared.  Under a standing wait the
\* horizon is run out (_exhaust_horizon_under_wait); otherwise run just stops.
WorldIsQuiet ==
  /\ pc = "loop" /\ queue.pending = {} /\ fallbackAt = None
  /\ IF standing
       THEN /\ now' = IF Horizon > now THEN Horizon ELSE now
            /\ Halt("horizon", violation)
       ELSE /\ now' = now
            /\ Halt(IF final THEN "terminal" ELSE "horizon", violation)
  /\ UNCHANGED <<queueVars, waitVars, agentVars, domainVars>>

\* pop_next and advance_to: e is the event delivered now.
Deliver(e, disposition) ==
  /\ pc = "loop" /\ ~FallbackDue
  /\ e \in Upcoming(queue) /\ e.at <= Horizon
  /\ now' = e.at
  /\ delivered' = [delivered EXCEPT ![e.id] = disposition]

\* The operation is replay-final: the arrival is recorded and nothing else.
DeliverAfterTerminal ==
  \E e \in queue.pending :
    /\ final
    /\ Deliver(e, "post_terminal")
    /\ queue' = Pop(queue, e)
    /\ UNCHANGED <<pc, timerCount, conditionals, waitVars, agentVars, endVars, domainVars>>

\* The reducer refuses the event: nobody is woken and the wait stands.
DeliverRejected ==
  \E e \in queue.pending :
    /\ ~final
    /\ Deliver(e, "rejected")
    /\ queue' = Pop(queue, e)
    /\ UNCHANGED <<pc, timerCount, conditionals, waitVars, agentVars, endVars, domainVars>>

\* The reducer accepts it.  A triggering event wakes the agent unless the event
\* itself finished the operation or the allowance is spent.
DeliverAccepted ==
  \E e \in queue.pending :
    /\ ~final
    /\ Deliver(e, IF e.id \in Silent THEN "audit" ELSE "accepted")
    /\ Effect(Pop(queue, e), OnEvent(EventType[e.id]))
    /\ IF e.id \in Silent \/ final'
         THEN UNCHANGED <<pc, waitVars, agentVars, endVars>>
         ELSE IF OutOfInvocations
           THEN /\ Halt("deadlock", "INVOCATION_LIMIT_EXCEEDED")
                /\ UNCHANGED <<waitVars, agentVars>>
           ELSE Invoke(IF e.id \in Authoritative THEN "verified" ELSE "claimed")

-----------------------------------------------------------------------------
(* The loop of _invoke: one answer of the agent per step.                   *)

\* Mutant: no call is left to see the budget refusal.
CallLimitTight == MaxTurns + MaxBatches

\* Every business turn, every batch, and one call more so that a budget
\* refusal can be seen and answered.
CallLimit == MaxTurns + MaxBatches + 1

\* Mutant: the call bound is not asked.
CalledUnbounded == pc = "agent" /\ business < MaxTurns

Called == pc = "agent" /\ business < MaxTurns /\ turn < CallLimit

TurnLimitExceeded ==
  /\ pc = "agent" /\ business >= MaxTurns
  /\ Halt("deadlock", "INVOCATION_TURN_LIMIT_EXCEEDED")
  /\ UNCHANGED <<now, queueVars, waitVars, agentVars, domainVars>>

CallLimitExceeded ==
  /\ pc = "agent" /\ business < MaxTurns /\ turn >= CallLimit
  /\ Halt("deadlock", "INVOCATION_CALL_LIMIT_EXCEEDED")
  /\ UNCHANGED <<now, queueVars, waitVars, agentVars, domainVars>>

\* _serve_batch on a legal batch within the budget.
ServeBatch ==
  \E requests \in SUBSET Tools \ {{}} :
    LET ok == {t \in requests : version[t] # Unavailable}
    IN /\ Called /\ batches < MaxBatches
       /\ batches' = batches + 1 /\ turn' = turn + 1
       /\ served' = [t \in Tools |-> IF t \in ok THEN version[t] ELSE served[t]]
       /\ readHistory' = readHistory \cup ok
       /\ UNCHANGED <<pc, now, queueVars, waitVars, invocations, business, claims,
                      rejection, endVars, domainVars>>

\* Mutant: a refused batch is not counted as a call.
RefuseBatchUncounted ==
  \E code \in {"ILLEGAL_BATCH", "RETRIEVAL_BUDGET_EXHAUSTED"} :
    /\ Called
    /\ code = "RETRIEVAL_BUDGET_EXHAUSTED" => batches = MaxBatches
    /\ rejection' = <<"retrieve", code>>
    /\ UNCHANGED <<pc, now, queueVars, waitVars, invocations, business, turn, batches,
                   served, readHistory, claims, endVars, domainVars>>

\* The budget is checked last, so an illegal batch is refused for what it is.
RefuseBatch ==
  \E code \in {"ILLEGAL_BATCH", "RETRIEVAL_BUDGET_EXHAUSTED"} :
    /\ Called
    /\ code = "RETRIEVAL_BUDGET_EXHAUSTED" => batches = MaxBatches
    /\ turn' = turn + 1
    /\ rejection' = <<"retrieve", code>>
    /\ UNCHANGED <<pc, now, queueVars, waitVars, invocations, business, batches,
                   served, readHistory, claims, endVars, domainVars>>

BusinessTurn == Called /\ business' = business + 1 /\ turn' = turn + 1

\* A refused outcome mutates nothing and the invocation goes on.
Refused(subject, code) ==
  /\ rejection' = <<subject, code>>
  /\ UNCHANGED <<pc, now, queueVars, waitVars, invocations, batches, served,
                 readHistory, claims, endVars, domainVars>>

MalformedOutcome ==
  BusinessTurn /\ Refused("<malformed outcome>", "MALFORMED_AGENT_OUTCOME")

\* Mutant: a tool read once in the episode counts as read.
GuardOnHistory(outcome, cited) ==
  IF Reads[outcome] \subseteq readHistory THEN "none" ELSE "ACTION_WITHOUT_RETRIEVAL"

\* _read_guard_problem, or "none".  cited: the proposal cites a claim value.
ReadGuardProblem(outcome, cited) ==
  LET absent == {t \in Reads[outcome] : served[t] = NotServed}
      moved == {t \in Reads[outcome] : version[t] = Unavailable \/ served[t] # version[t]}
  IN CASE absent # {} /\ cited /\ absent \cap Verifiers # {} /\ claims # "verified"
            -> "ACTED_ON_CLAIM_WITHOUT_RECORD"
       [] absent \cap readHistory # {} -> "STALE_RETRIEVED_RECORD"
       [] absent # {} -> "ACTION_WITHOUT_RETRIEVAL"
       [] moved # {} -> "STALE_RETRIEVED_RECORD"
       [] OTHER -> "none"

\* A proposal is refused by the read guard, or it passes and the domain refuses.
ProposalRefused(outcome) ==
  \E cited \in (IF claims = "none" THEN {FALSE} ELSE BOOLEAN) :
    LET problem == ReadGuardProblem(outcome, cited)
    IN Refused(outcome, IF problem = "none" THEN "REFUSED_BY_DOMAIN" ELSE problem)

\* Mutant: the domain accepts an action on a finished operation.
ActionAcceptedLate(action) ==
  /\ ReadGuardProblem(action, FALSE) = "none"
  /\ now' = now
  /\ Effect(queue, OnAction(action))
  /\ DropServed
  /\ UNCHANGED <<delivered, invocations, batches, readHistory, claims, endVars>>

\* The part of _propose_action that commits: the effect stales every read.
ActionAccepted(action) ==
  /\ ReadGuardProblem(action, FALSE) = "none" /\ ~final
  /\ now' = now
  /\ Effect(queue, OnAction(action))
  /\ DropServed
  /\ UNCHANGED <<delivered, invocations, batches, readHistory, claims, endVars>>

Act ==
  \E a \in ActionTypes :
    /\ BusinessTurn
    /\ \/ ProposalRefused(a)
       \/ /\ ActionAccepted(a)
          /\ rejection' = NoRejection
          /\ UNCHANGED <<pc, waitVars>>

\* _declare_wait.  known: every named wake type is in the published vocabulary;
\* fallback: the declared delay, or None for a wait on events alone.
DeclareWait(known, fallback, otherwise) ==
  CASE ~known ->
         rejection' = <<"wait", "UNKNOWN_WAKE_EVENT_TYPE">> /\ UNCHANGED <<pc, waitVars>>
    [] known /\ final' ->
         /\ rejection' = <<"wait", "WAIT_AFTER_REPLAY_FINAL">>
         /\ pc' = "loop" /\ UNCHANGED waitVars
    [] OTHER ->
         /\ rejection' = otherwise
         /\ pc' = "loop" /\ standing' = TRUE
         /\ fallbackAt' = IF fallback = None THEN None ELSE now + fallback

Wait ==
  \E known \in BOOLEAN, fallback \in Delays \cup {None} :
    /\ BusinessTurn
    /\ final' = final
    /\ DeclareWait(known, fallback, rejection)
    /\ UNCHANGED <<now, queueVars, invocations, batches, served, readHistory, claims,
                   endVars, version>>

\* ASK sends the message and then waits; the message stays sent when the wait
\* is refused.  ESCALATE opens a checkpoint and waits with its deadline.
ActThenWait(action, known, fallback) ==
  /\ BusinessTurn
  /\ \/ ProposalRefused(action)
     \/ /\ ActionAccepted(action)
        /\ DeclareWait(known, fallback, NoRejection)

Ask == \E known \in BOOLEAN, fallback \in Delays \cup {None} :
         ActThenWait(SendMessage, known, fallback)

Escalate == \E deadline \in Delays : ActThenWait(RequestException, TRUE, deadline)

\* _propose_terminal: accepted, it ends the invocation and stales no read.
ProposeTerminal ==
  /\ BusinessTurn
  /\ \/ ProposalRefused(Complete)
     \/ /\ ReadGuardProblem(Complete, FALSE) = "none" /\ ~final
        /\ now' = now
        /\ Effect(queue, OnAction(Complete))
        /\ rejection' = NoRejection
        /\ pc' = "loop"
        /\ UNCHANGED <<delivered, waitVars, invocations, batches, served, readHistory,
                       claims, endVars>>

-----------------------------------------------------------------------------
Ended == pc = "ended" /\ UNCHANGED vars

Loop == FireFallback \/ BeyondHorizon \/ WorldIsQuiet
          \/ DeliverAfterTerminal \/ DeliverRejected \/ DeliverAccepted

Invocation == TurnLimitExceeded \/ CallLimitExceeded \/ ServeBatch \/ RefuseBatch
                \/ MalformedOutcome \/ Act \/ Wait \/ Ask \/ Escalate \/ ProposeTerminal

Next == Loop \/ Invocation \/ Ended

Spec == Init /\ [][Next]_vars

\* The loop runs to its end in one thread and an agent's decide returns.
FairSpec == Spec /\ WF_vars(Next)
-----------------------------------------------------------------------------
(* Properties.                                                              *)

\* Every variable has the type its field in the engine has.
TypeOK ==
  /\ pc \in {"loop", "agent", "ended"}
  /\ now \in Nat
  /\ queue \in [pending : SUBSET [id : Ids, at : Nat, seq : Nat], seen : SUBSET Ids]
  /\ timerCount \in Nat
  /\ conditionals \subseteq Authored
  /\ delivered \in [Ids -> Dispositions \cup {"no"}]
  /\ standing \in BOOLEAN /\ fallbackAt \in Nat \cup {None}
  /\ invocations \in 0..MaxInvocations
  /\ business \in 0..MaxTurns /\ turn \in 0..CallLimit /\ batches \in 0..MaxBatches
  /\ served \in [Tools -> Versions \cup {NotServed}]
  /\ readHistory \subseteq Tools
  /\ claims \in {"none", "claimed", "verified"}
  /\ version \in [Tools -> Versions \cup {Unavailable}]
  /\ final \in BOOLEAN

\* SimulatedClock.advance_to refuses to rewind.  It never has to: whatever is
\* pending, and the fallback of a standing wait, is due now or later, whichever
\* order events, conditionals, timers and fallbacks come in.
NothingOverdue ==
  /\ \A e \in queue.pending : e.at >= now
  /\ fallbackAt # None => standing /\ fallbackAt >= now

\* EventQueue.schedule refuses an identity it has seen, which would end the
\* episode with an exception.  It never has to for an authored event: one that
\* still waits for its cause was never queued, and a delivered or disarmed one
\* is gone for good.
IdentityUsedOnce ==
  /\ conditionals \cap queue.seen = {}
  /\ PendingIds(queue) \subseteq queue.seen
  /\ \A e, f \in queue.pending : e.id = f.id => e = f
  /\ \A i \in Ids : delivered[i] # "no" => i \in queue.seen \ PendingIds(queue)

\* An identity stays consumed: one that left the queue, delivered or disarmed,
\* never comes back under whatever later handler (EventQueue.cancel).
NoIdentityReturns ==
  [][/\ queue.seen \subseteq queue'.seen
     /\ queue.seen \ PendingIds(queue) \subseteq queue'.seen \ PendingIds(queue')]_vars

\* TIMER_SEQUENCE_BASE: a timer never displaces an authored event due at the
\* same instant, in whatever order the two were queued.
AuthoredBeforeTimers ==
  \A e, f \in queue.pending :
    (e.at = f.at /\ e.id \in Authored /\ f.id \in Timers) => Before(e, f)

\* What the agent still holds from a read is what the record says now: a wake
\* and the agent's own accepted effect both drop every served result.
ServedIsCurrent ==
  pc = "agent" => \A t \in Tools : served[t] \in {NotServed, version[t]}

\* The world answers an action of the agent (a conditional event of it is
\* released) only when that action rested on every read its contract requires,
\* each at the version the record had: a read from an earlier invocation or from
\* before the agent's own last effect does not count.
ReactionRestsOnCurrentReads ==
  [][pc = "agent" =>
       \A i \in conditionals \ conditionals', o \in DOMAIN Reads :
         Plan[i].trigger = OnAction(o) =>
           \A t \in Reads[o] : served[t] = version[t] /\ version[t] # Unavailable]_vars

\* A replay-final operation stays as it is: no record moves, nothing is queued
\* and no conditional is released, whatever is delivered or proposed later.
FinalityHolds ==
  [][final => /\ final' /\ version' = version /\ conditionals' = conditionals
              /\ queue'.seen = queue.seen /\ queue'.pending \subseteq queue.pending]_vars

\* While the agent is being asked no wait stands: a wake consumed it.
NoWaitInsideInvocation == pc = "agent" => ~standing /\ fallbackAt = None

\* The declared allowance bounds event wakes and fallback wakes alike, and is
\* only reported exceeded when it was spent in full.
AllowanceHolds ==
  /\ invocations <= MaxInvocations
  /\ violation = "INVOCATION_LIMIT_EXCEEDED" => invocations = MaxInvocations

\* The call bound stops only an agent that ignores refusals: whoever spent the
\* whole batch budget and was refused one batch still has every business turn.
CallLimitSparesOneRefusal ==
  violation = "INVOCATION_CALL_LIMIT_EXCEEDED" => turn - business - batches >= 2

\* The episode never runs past its operational horizon.
WithinHorizon == now <= Horizon

\* Time, as one promise: it never rewinds, it ends at the horizon, and at one
\* instant the scenario goes before the timers (core/clock.py, core/events.py).
TimeIsKept == NothingOverdue /\ AuthoredBeforeTimers /\ WithinHorizon

\* What the agent is asked on is current: its reads, and no wait of its own.
ContextIsCurrent == ServedIsCurrent /\ NoWaitInsideInvocation

\* The two budgets, of the episode and of one invocation, bind when spent and
\* never before.
WithinBudgets == AllowanceHolds /\ CallLimitSparesOneRefusal

\* A deadlock on record always has the violation that explains it, and a wait
\* that time never ended is carried to the horizon.
EndingIsExplained ==
  pc = "ended" =>
    /\ status = "deadlock" <=> violation # "none"
    /\ status = "terminal" => final
    /\ (status = "horizon" /\ queue.pending = {} /\ standing /\ fallbackAt = None)
         => now = Horizon

\* Every episode ends, whatever the domain schedules and the agent answers.
EpisodeEnds == <>(pc = "ended")

\* "Nothing can wake a finished operation" (engine.py, _declare_wait).
NothingWakesAFinishedOperation ==
  [][pc = "loop" /\ pc' = "agent" => ~final]_vars
=============================================================================

----------------------------- MODULE AuditBudget ------------------------------
(* core/audit_budget.py: the runtime that counts the audit intents a domain   *)
(* creates. A transition reserves batches, consumes every intent of them in   *)
(* order and commits them together; the first refusal halts the runtime with  *)
(* a record of itself, which the runtime validates before it publishes it.    *)
(* The lock makes every call one step, whichever thread makes it.             *)
EXTENDS Integers, FiniteSets, Sequences, Functions

CONSTANTS
    Sources,        \* the declared sources
    MaxOccurrences, \* per source: max_accepted_occurrences
    MaxEvents,      \* per source: max_events_per_transition
    Intents,        \* intent identities a domain uses
    Transitions,    \* transition identities
    MaxRequest,     \* intents one request names at most
    Unknown,        \* a source identity that is not declared
    None

ASSUME BudgetAssumption ==
    /\ IsFiniteSet(Sources)
    /\ MaxOccurrences \in [Sources -> Nat]
    /\ MaxEvents \in [Sources -> Nat \ {0}]
    /\ Unknown \notin Sources /\ None \notin Sources \cup {Unknown}

VARIABLES
    state,          \* _RuntimeState: replaced whole by every step
    escaped         \* a refusal left the runtime as an error that is no halt

vars == <<state, escaped>>

-------------------------------------------------------------------------------
(* The declaration. Its aggregate is the sum of its sources: anything else is *)
(* refused before there is a runtime.                                         *)
SourceLimit(s) == MaxOccurrences[s] * MaxEvents[s]
DeclaredMaxEvents == SumFunction([s \in Sources |-> SourceLimit(s)])

(* The batches of a transition are in the order they were reserved: how many  *)
(* intents some of them hold, and whose they are.                             *)
Sizes(batches)       == [k \in DOMAIN batches |-> Len(batches[k].intents)]
StagedIn(batches, K) == SumFunctionOnSet(Sizes(batches), K)
Staged(batches)      == StagedIn(batches, DOMAIN batches)
StagedIntents(batches) == UNION {Range(b.intents) : b \in Range(batches)}
BatchesOf(batches, s)  == {k \in DOMAIN batches : batches[k].source = s}
Unconsumed(b) == b.next < Len(b.intents)

(* The history is a set: each row says where it stands in it, by the number   *)
(* of intents committed up to it (operation_committed_count). The digest of   *)
(* an intent is a function of its row, and a collision is not modelled.       *)
Row(active, before, k, i) ==
    LET b == active.batches[k] IN
    [intent |-> b.intents[i], source |-> b.source, transition |-> active.transition,
     ordinal |-> i - 1, position |-> before + StagedIn(active.batches, 1..(k - 1)) + i]
RowsOf(active, before) ==
    UNION {{Row(active, before, k, i) : i \in DOMAIN active.batches[k].intents} :
             k \in DOMAIN active.batches}

CommittedIntents(rows) == {r.intent : r \in rows}

-------------------------------------------------------------------------------
(* The checks the runtime makes of itself.                                    *)

ActiveValid(active, ids) ==
    /\ \A i, j \in DOMAIN active.batches : i # j =>
         /\ active.batches[i].source # active.batches[j].source
         /\ Range(active.batches[i].intents) \cap Range(active.batches[j].intents) = {}
    /\ \A b \in Range(active.batches) :
         /\ Len(b.intents) \in 1..MaxEvents[b.source]
         /\ IsInjective(b.intents)
         /\ b.next \in 0..Len(b.intents)
         /\ Range(b.intents) \cap ids = {}

(* What a halt record must say, by the class of the refusal. The facts seized *)
(* with it are the batches of the transition it ended.                        *)
HaltValid(h, st) ==
    /\ h.before = st.count
    /\ IF h.class = "post_finality_attempt"
       THEN /\ st.final /\ h.seized = None
            /\ h.source = None /\ h.requested = 0 /\ h.transition = None
       ELSE /\ ~st.final /\ h.seized # None
            /\ h.source # None /\ h.transition = h.seized.transition
            /\ \/ /\ h.class = "unknown_source_or_kind"
                  /\ h.requested > 0
               \/ /\ h.source \in Sources
                  /\ \/ h.class = "invalid_batch_or_identity" /\ h.requested = 0
                     \/ /\ h.class = "reservation_lifecycle_violation"
                        /\ \E b \in Range(h.seized.batches) :
                             b.source = h.source /\ Len(b.intents) = h.requested
                     \/ /\ h.class = "valid_reservation_above_declared_aggregate"
                        /\ h.requested > 0
                        /\ h.before + Staged(h.seized.batches) + h.requested > DeclaredMaxEvents
                     \/ /\ h.class = "valid_reservation_above_declared_source"
                        /\ h.requested > 0
                        /\ h.before + Staged(h.seized.batches) + h.requested <= DeclaredMaxEvents
                        /\ \/ st.occurrences[h.source] >= MaxOccurrences[h.source]
                           \/ st.counts[h.source] + h.requested > SourceLimit(h.source)

(* _integrity_valid_locked: everything that is kept is derived again from the *)
(* history.                                                                   *)
IntegrityValid(st) ==
    LET Of(s)       == {r \in st.rows : r.source = s}
        Group(s, t) == {r \in Of(s) : r.transition = t}
    IN
    /\ st.count = Cardinality(st.rows)
    /\ {r.position : r \in st.rows} = 1..st.count
    /\ Cardinality(CommittedIntents(st.rows)) = st.count
    /\ st.ids = CommittedIntents(st.rows)
    /\ st.transitions = {r.transition : r \in st.rows}
    /\ \A s \in Sources :
         /\ st.counts[s] = Cardinality(Of(s)) /\ st.counts[s] <= SourceLimit(s)
         /\ st.occurrences[s] = Cardinality({r.transition : r \in Of(s)})
         /\ st.occurrences[s] <= MaxOccurrences[s]
         /\ \A t \in st.transitions :
              /\ Cardinality(Group(s, t)) <= MaxEvents[s]
              /\ \A r \in Group(s, t) :
                   r.ordinal = Cardinality({x \in Group(s, t) : x.position < r.position})
    /\ st.count <= DeclaredMaxEvents
    /\ st.final => st.active = None
    /\ st.halt # None => st.active = None /\ HaltValid(st.halt, st)
    /\ st.active # None => ActiveValid(st.active, st.ids)

-------------------------------------------------------------------------------
Init ==
    /\ state = [rows |-> {}, count |-> 0, ids |-> {}, transitions |-> {},
                counts |-> [s \in Sources |-> 0], occurrences |-> [s \in Sources |-> 0],
                final |-> FALSE, halt |-> None, active |-> None]
    /\ escaped = FALSE

Running == state.halt = None
active  == state.active

Publish(candidate) == state' = candidate /\ UNCHANGED escaped

(* _stop_locked: a halt is published only when its own record is valid;       *)
(* otherwise a ValueError leaves the call and nothing has changed.            *)
Stop(class, source, requested) ==
    LET h == [class |-> class, source |-> source, requested |-> requested,
              before |-> state.count, seized |-> active,
              transition |-> IF active = None THEN None ELSE active.transition]
        candidate == [state EXCEPT !.halt = h, !.active = None]
    IN IF IntegrityValid(candidate)
       THEN Publish(candidate)
       ELSE escaped' = TRUE /\ UNCHANGED state

Misuse(b) == Stop("reservation_lifecycle_violation", b.source, Len(b.intents))

(* A second transition, finality, a scope or a reservation that is not the    *)
(* active one: a halt in the name of the first reservation. With none the     *)
(* error is the caller's and nothing changes.                                 *)
Overlap ==
    /\ Running /\ active # None
    /\ active.batches # <<>>
    /\ Misuse(Head(active.batches))

PostFinality ==
    /\ Running /\ state.final
    /\ Stop("post_finality_attempt", None, 0)

(* Mutant of BeginTransition: a retry is not recognised. *)
BeginTransitionAfresh(t) ==
    /\ Running /\ ~state.final /\ active = None
    /\ Publish([state EXCEPT !.active =
           [transition |-> t, batches |-> <<>>, reexecution |-> FALSE]])

BeginTransition(t) ==
    /\ Running /\ ~state.final /\ active = None
    /\ Publish([state EXCEPT !.active =
           [transition |-> t, batches |-> <<>>, reexecution |-> t \in state.transitions]])

InTransition == Running /\ active # None

(* Mutant of BadShape: only intents that are committed already count as used. *)
BadShapeCommittedOnly(s, intents) ==
    \/ Len(intents) \notin 1..MaxEvents[s]
    \/ BatchesOf(active.batches, s) # {}
    \/ ~IsInjective(intents)
    \/ Range(intents) \cap state.ids # {}

BadShape(s, intents) ==
    \/ Len(intents) \notin 1..MaxEvents[s]
    \/ BatchesOf(active.batches, s) # {}
    \/ ~IsInjective(intents)
    \/ Range(intents) \cap (StagedIntents(active.batches) \cup state.ids) # {}

AboveAggregate(n) == state.count + Staged(active.batches) + n > DeclaredMaxEvents
AboveSource(s, n) == \/ state.occurrences[s] >= MaxOccurrences[s]
                     \/ state.counts[s] + n > SourceLimit(s)

(* kindFits: whether the request names the kind its source was declared with. *)
ReserveRefused(s, kindFits, intents) ==
    LET n == Len(intents) IN
    /\ InTransition
    /\ \/ active.reexecution /\ Stop("invalid_batch_or_identity", s, 0)
       \/ /\ ~active.reexecution /\ (s = Unknown \/ ~kindFits)
          /\ IF n = 0 THEN Stop("invalid_batch_or_identity", s, 0)
                      ELSE Stop("unknown_source_or_kind", s, n)
       \/ /\ ~active.reexecution /\ s # Unknown /\ kindFits
          /\ \/ BadShape(s, intents) /\ Stop("invalid_batch_or_identity", s, 0)
             \/ /\ ~BadShape(s, intents) /\ AboveAggregate(n)
                /\ Stop("valid_reservation_above_declared_aggregate", s, n)
             \/ /\ ~BadShape(s, intents) /\ ~AboveAggregate(n) /\ AboveSource(s, n)
                /\ Stop("valid_reservation_above_declared_source", s, n)

Reserve(s, intents) ==
    LET n == Len(intents) IN
    /\ InTransition /\ ~active.reexecution
    /\ ~BadShape(s, intents) /\ ~AboveAggregate(n) /\ ~AboveSource(s, n)
    /\ Publish([state EXCEPT !.active.batches =
           Append(@, [source |-> s, intents |-> intents, next |-> 0])])

Consume(k, intent) ==
    LET b == active.batches[k] IN
    IF Unconsumed(b) /\ intent = b.intents[b.next + 1]
    THEN Publish([state EXCEPT !.active.batches[k].next = @ + 1])
    ELSE Misuse(b)

(* What a commit publishes: all batches of the transition, in the order they  *)
(* were reserved. The counters go up by what each batch holds; that they are  *)
(* what the rows say is the integrity check's business.                       *)
Charged(st) ==
    LET batches == st.active.batches IN
    [rows        |-> st.rows \cup RowsOf(st.active, st.count),
     count       |-> st.count + Staged(batches),
     ids         |-> st.ids \cup StagedIntents(batches),
     transitions |-> st.transitions \cup {st.active.transition},
     counts      |-> [s \in Sources |-> st.counts[s] + StagedIn(batches, BatchesOf(batches, s))],
     occurrences |-> [s \in Sources |-> st.occurrences[s] + Cardinality(BatchesOf(batches, s))],
     final |-> FALSE, halt |-> None, active |-> None]

(* The same transition again: its reservations halt, its commit does nothing. *)
CommitAgain ==
    /\ InTransition /\ active.reexecution
    /\ Publish([state EXCEPT !.active = None])

CommitIncomplete ==
    /\ InTransition /\ ~active.reexecution
    /\ \E k \in DOMAIN active.batches :
         /\ Unconsumed(active.batches[k])
         /\ \A j \in 1..(k - 1) : ~Unconsumed(active.batches[j])
         /\ Misuse(active.batches[k])

Commit ==
    /\ InTransition /\ ~active.reexecution
    /\ active.batches # <<>>
    /\ \A b \in Range(active.batches) : ~Unconsumed(b)
    /\ Publish(Charged(state))

Abort == InTransition /\ Publish([state EXCEPT !.active = None])

MarkFinality ==
    /\ Running /\ ~state.final /\ active = None
    /\ Publish([state EXCEPT !.final = TRUE])

Requests == UNION {[1..n -> Intents] : n \in 0..MaxRequest}

Next ==
    \/ Overlap \/ PostFinality
    \/ \E t \in Transitions : BeginTransition(t)
    \/ \E s \in Sources \cup {Unknown}, kindFits \in BOOLEAN, intents \in Requests :
         ReserveRefused(s, kindFits, intents)
    \/ \E s \in Sources, intents \in Requests : Reserve(s, intents)
    \/ /\ InTransition
       /\ \E k \in DOMAIN active.batches, intent \in Intents : Consume(k, intent)
    \/ CommitAgain \/ CommitIncomplete \/ Commit \/ Abort
    \/ MarkFinality

Spec == Init /\ [][Next]_vars

-------------------------------------------------------------------------------
(* The runtime never publishes a state its own integrity check would refuse   *)
(* (_integrity_valid_locked), and a reservation is a promise: whatever is     *)
(* consumed later, committing what the open transition holds would publish a  *)
(* valid state too, though commit compares nothing with the limits.           *)
RuntimeIsSound ==
    /\ IntegrityValid(state)
    /\ active # None /\ active.batches # <<>> => IntegrityValid(Charged(state))

(* Whatever transitions, retries and misuses do, what is charged changes as   *)
(* the abstract account says: whole transitions, every intent and every       *)
(* transition once, within each source's limits, nothing after the end.       *)
Account == INSTANCE AuditAccount WITH
    charged <- {[intent |-> r.intent, source |-> r.source, transition |-> r.transition] :
                  r \in state.rows},
    open    <- Running /\ ~state.final
ChargesOnce == Account!Spec

(* The protocol document: every refusal of an assigned identity is recorded,  *)
(* so none leaves the runtime running (section 9).                            *)
RefusalsHalt == ~escaped
===============================================================================

----------------------------- MODULE EventQueue -----------------------------
(***************************************************************************)
(* The pending world of one episode: operatebench/core/events.py.          *)
(*                                                                         *)
(* A queue is a record with the events still pending and the identities    *)
(* this episode has ever used.  An event is abstracted to what its order   *)
(* depends on: its identity, the simulated minute it is due and its        *)
(* sequence number.  The module has no state of its own; the engine and    *)
(* the domains keep a queue in a variable and apply these operators.       *)
(***************************************************************************)
EXTENDS Integers, FiniteSets

\* Timers sort after every authored event of the same instant.
CONSTANT TimerBase

ASSUME TimerBaseAssumption == TimerBase \in Nat

\* An event with identity id, due at minute at, with sequence number seq.
Entry(id, at, seq) == [id |-> id, at |-> at, seq |-> seq]

EmptyQueue == [pending |-> {}, seen |-> {}]

PendingIds(q) == {e.id : e \in q.pending}

\* Event.order_key.  Sequence numbers are distinct in every queue the code
\* builds (authored ones are list positions, timers are counted), so the
\* final tie-break on the identity is never reached.
Before(e, f) == e.at < f.at \/ (e.at = f.at /\ e.seq < f.seq)

\* The events that peek_next and pop_next may return: the least of the order.
Upcoming(q) == {e \in q.pending : \A f \in q.pending : ~Before(f, e)}

\* Mutant: the event is read and not taken.
PopKeeping(q, e) == q

Pop(q, e) == [q EXCEPT !.pending = @ \ {e}]

\* EventQueue.schedule raises DuplicateEventError on any identity ever seen.
MaySchedule(q, entries) ==
  /\ \A e \in entries : e.id \notin q.seen
  /\ \A e, f \in entries : e.id = f.id => e = f

Schedule(q, entries) ==
  [pending |-> q.pending \cup entries,
   seen |-> q.seen \cup {e.id : e \in entries}]

\* Mutant: a cancelled identity is free again.
CancelForgetting(q, ids) ==
  [pending |-> {e \in q.pending : e.id \notin ids}, seen |-> q.seen \ ids]

\* EventQueue.cancel: the identity stays consumed.
Cancel(q, ids) == [q EXCEPT !.pending = {e \in @ : e.id \notin ids}]

\* Engine.schedule_timer numbers timers from TimerBase in arming order; here a
\* handler arms the set of timers arms, each a record with an id and a delay,
\* and order gives the position of each within the handler.
TimerEntries(now, count, arms, order) ==
  {Entry(t.id, now + t.delay, TimerBase + count + order[t]) : t \in arms}

\* The orders in which one handler may arm a set of timers.
ArmingOrders(arms) ==
  {o \in [arms -> 1..Cardinality(arms)] : \A s, t \in arms : o[s] = o[t] => s = t}
=============================================================================

----------------------------- MODULE Checkpoint -----------------------------
(***************************************************************************)
(* What a human checkpoint promises, whatever timers, queue and handlers   *)
(* make it so: it opens once; its reminder comes due once, at its instant, *)
(* if it is still open; it is answered while its deadline is not past or   *)
(* expires at that very instant, after its reminder; and time does not     *)
(* pass over anything that is due.                                         *)
(***************************************************************************)
EXTENDS Integers

CONSTANTS ReminderAfter, DeadlineAfter

VARIABLES now, status, deadline, reminded

vars == <<now, status, deadline, reminded>>

ReminderAt == deadline - DeadlineAfter + ReminderAfter

Init == now = 0 /\ status = "ABSENT" /\ deadline = 0 /\ reminded = FALSE

Open ==
  /\ status = "ABSENT"
  /\ status' = "OPEN" /\ deadline' = now + DeadlineAfter
  /\ UNCHANGED <<now, reminded>>

Remind ==
  /\ status = "OPEN" /\ ~reminded /\ now = ReminderAt
  /\ reminded' = TRUE
  /\ UNCHANGED <<now, status, deadline>>

Answer ==
  /\ status = "OPEN" /\ now <= deadline
  /\ status' \in {"APPROVED", "REJECTED"}
  /\ UNCHANGED <<now, deadline, reminded>>

Expire ==
  /\ status = "OPEN" /\ now = deadline
  /\ ReminderAfter <= DeadlineAfter => reminded
  /\ status' = "EXPIRED"
  /\ UNCHANGED <<now, deadline, reminded>>

Tick ==
  /\ status = "OPEN" => now < deadline /\ (reminded \/ now < ReminderAt)
  /\ now' = now + 1
  /\ UNCHANGED <<status, deadline, reminded>>

Next == Open \/ Remind \/ Answer \/ Expire \/ Tick

Spec == Init /\ [][Next]_vars
=============================================================================

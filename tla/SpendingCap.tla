---------------------------- MODULE SpendingCap ----------------------------
(***************************************************************************)
(* What a spending cap promises, whoever keeps it and however many actors  *)
(* draw on it: an amount is held before it can be spent, only if it fits   *)
(* under the cap beside everything spent and held; a held amount is then   *)
(* spent at most in full, or let go.  The one exception is an overrun, a   *)
(* bill larger than what was held for it: it is spent in full, on record.  *)
(***************************************************************************)
EXTENDS Integers

CONSTANT Cap

VARIABLES spent, held, overrun

vars == <<spent, held, overrun>>

Init == spent = 0 /\ held = 0 /\ overrun = 0

Hold ==
  /\ held' \in Nat /\ held' > held /\ spent + held' <= Cap
  /\ UNCHANGED <<spent, overrun>>

\* A held amount is resolved at what was billed for it, nothing included.
Resolve ==
  /\ held' \in 0..held /\ spent' \in Nat /\ spent' >= spent
  /\ LET excess == (spent' - spent) - (held - held')
     IN overrun' = overrun + (IF excess > 0 THEN excess ELSE 0)

Next == Hold \/ Resolve

Spec == Init /\ [][Next]_vars

\* What is spent and held stays under the cap but for overruns on record.
UnderCap == spent + held <= Cap + overrun
=============================================================================

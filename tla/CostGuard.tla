----------------------------- MODULE CostGuard -----------------------------
(***************************************************************************)
(* LifecycleCostGuard, operatebench/agents/pricing.py: the money and the   *)
(* tokens one run may commit.  A guard is a record; the executor keeps it  *)
(* in a variable and applies these operators.  A request is abstracted to  *)
(* its size, which fixes its price (the reservation) and its token         *)
(* exposure; amounts are whole numbers of the smallest unit.               *)
(***************************************************************************)
EXTENDS Integers, Sequences

CONSTANTS
  Cap,          \* cap_usd
  TokenCap,     \* token_hard_cap
  Sizes,        \* sizes of request
  Reservation,  \* policy.price of a request of each size at its upper bound
  Exposure      \* input bound plus output ceiling of each size, in tokens

ASSUME CostAssumption ==
  /\ Cap \in Nat /\ TokenCap \in Nat
  /\ Reservation \in [Sizes -> Nat] /\ Exposure \in [Sizes -> Nat]

Amounts == {Reservation[s] : s \in Sizes}

\* pending: the exposures outstanding at each price, the latest last.
NewGuard ==
  [measured |-> 0, forfeited |-> 0, outstanding |-> 0, reserved |-> 0, tokens |-> 0,
   pending |-> [a \in Amounts |-> <<>>], events |-> <<>>]

Committed(g) == g.measured + g.forfeited + g.outstanding

\* Mutant: what was forfeited is not counted.
AdmitsSettled(g, s) ==
  /\ g.tokens + Exposure[s] <= TokenCap
  /\ g.measured + g.outstanding + Reservation[s] <= Cap

\* authorize: tokens first, then money; a refusal changes nothing.
Admits(g, s) ==
  /\ g.tokens + Exposure[s] <= TokenCap
  /\ Committed(g) + Reservation[s] <= Cap

Authorize(g, s) ==
  [g EXCEPT !.outstanding = @ + Reservation[s], !.reserved = @ + Reservation[s],
            !.tokens = @ + Exposure[s],
            !.pending[Reservation[s]] = Append(@, Exposure[s])]

\* _release: the latest of the authorisations outstanding at this price.
Release(g, r) ==
  [g EXCEPT !.outstanding = @ - r,
            !.pending[r] = SubSeq(@, 1, Len(@) - 1)]

MayRelease(g, r) == g.pending[r] # <<>>

Event(kind, amount) == [kind |-> kind, amount |-> amount]

\* settle with counts that price at c.
Settle(g, r, c) ==
  [Release(g, r) EXCEPT !.measured = @ + c, !.events = Append(@, Event("measured", c))]

\* Mutant: a forfeited reservation is given back.
ForfeitNothing(g, r) ==
  [Release(g, r) EXCEPT !.events = Append(@, Event("forfeited", r))]

Forfeit(g, r) ==
  [Release(g, r) EXCEPT !.forfeited = @ + r, !.events = Append(@, Event("forfeited", r))]

\* cancel refuses unless the latest exposure at the price is this request's.
MayCancel(g, s) ==
  MayRelease(g, Reservation[s]) /\
    g.pending[Reservation[s]][Len(g.pending[Reservation[s]])] = Exposure[s]

Cancel(g, s) == [Release(g, Reservation[s]) EXCEPT !.tokens = @ - Exposure[s]]

\* take_events hands out what was resolved since the last take.
TakeEvents(g) == [g EXCEPT !.events = <<>>]
=============================================================================

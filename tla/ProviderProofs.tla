--------------------------- MODULE ProviderProofs ---------------------------
(* Proofs about one turn's provider call and the guard it draws on, and     *)
(* about the journal of an episode's calls, for every cap, price list,      *)
(* retry policy, time budget and number of turns.                           *)
EXTENDS ProviderEpisode, SumProofs, SequenceTheorems

Events == [kind : {"measured", "forfeited"}, amount : Nat]
EventLists == Seq(Events)
Holdings == [Amounts -> Seq(Nat)]

GuardSet == [measured : Nat, forfeited : Nat, outstanding : Nat, reserved : Nat,
             tokens : Nat, pending : Holdings, events : EventLists]

\* The exposures outstanding when nothing is, and when a request of size s is.
NoneHeld == [a \in Amounts |-> <<>>]
HeldFor(s) == [a \in Amounts |-> IF a = Reservation[s] THEN <<Exposure[s]>> ELSE <<>>]

\* A guard that holds the authorisation of one request of size s.
HoldsOne(g, s) == g.outstanding = Reservation[s] /\ g.pending = HeldFor(s)
HoldsNone(g) == g.outstanding = 0 /\ g.pending = NoneHeld

-----------------------------------------------------------------------------
(* Lemmas about the guard.                                                  *)

\* A request of a known size has a price and an exposure.
LEMMA PriceType ==
  ASSUME NEW s \in Sizes
  PROVE  Reservation[s] \in Nat /\ Exposure[s] \in Nat /\ Reservation[s] \in Amounts
BY CostAssumption DEF Amounts

\* Authorising a request on a guard that holds nothing.
LEMMA AuthorizeHolds ==
  ASSUME NEW g \in GuardSet, NEW s \in Sizes, HoldsNone(g)
  PROVE  LET h == Authorize(g, s)
         IN /\ h \in GuardSet /\ HoldsOne(h, s)
            /\ h.measured = g.measured /\ h.forfeited = g.forfeited
            /\ h.tokens = g.tokens + Exposure[s] /\ h.events = g.events
<1> DEFINE r == Reservation[s]
           p == [g.pending EXCEPT ![r] = Append(g.pending[r], Exposure[s])]
<1>1. r \in Nat /\ Exposure[s] \in Nat /\ r \in Amounts
  BY PriceType
<1>2. Append(<<>>, Exposure[s]) = <<Exposure[s]>> /\ <<Exposure[s]>> \in Seq(Nat)
  BY <1>1
<1>3. p = HeldFor(s)
  BY <1>1, <1>2 DEF HoldsNone, NoneHeld, HeldFor
<1>4. HeldFor(s) \in [Amounts -> Seq(Nat)]
  BY <1>2 DEF HeldFor
<1>5. Authorize(g, s) =
        [g EXCEPT !.outstanding = @ + r, !.reserved = @ + r,
                  !.tokens = @ + Exposure[s], !.pending = p]
  BY DEF Authorize
<1>6. /\ g.outstanding = 0 /\ g.outstanding + r = r
      /\ r \in Nat /\ g.reserved + r \in Nat /\ g.tokens + Exposure[s] \in Nat
  BY <1>1 DEF GuardSet, HoldsNone
<1>7. HeldFor(s) \in Holdings
  BY <1>4 DEF Holdings
<1> HIDE DEF p, r
<1>8. Authorize(g, s) =
        [g EXCEPT !.outstanding = r, !.reserved = g.reserved + r,
                  !.tokens = g.tokens + Exposure[s], !.pending = HeldFor(s)]
  BY <1>3, <1>5, <1>6
<1> QED BY <1>6, <1>7, <1>8 DEF GuardSet, HoldsOne, r

\* Releasing the one authorisation held leaves nothing held.
LEMMA ReleaseFrees ==
  ASSUME NEW g \in GuardSet, NEW s \in Sizes, HoldsOne(g, s)
  PROVE  LET h == Release(g, Reservation[s])
         IN /\ h \in GuardSet /\ HoldsNone(h)
            /\ h.measured = g.measured /\ h.forfeited = g.forfeited
            /\ h.tokens = g.tokens /\ h.events = g.events
            /\ MayRelease(g, Reservation[s]) /\ MayCancel(g, s)
<1> DEFINE r == Reservation[s]
           p == [g.pending EXCEPT ![r] = SubSeq(g.pending[r], 1, Len(g.pending[r]) - 1)]
<1>1. r \in Nat /\ Exposure[s] \in Nat /\ r \in Amounts
  BY PriceType
<1>2. g.pending[r] = <<Exposure[s]>>
  BY <1>1 DEF HoldsOne, HeldFor
<1>3. Len(g.pending[r]) = 1 /\ g.pending[r] # <<>> /\ g.pending[r][1] = Exposure[s]
  BY <1>2
<1>4. SubSeq(g.pending[r], 1, 0) = <<>>
  BY SubSeqEmpty
<1>5. p = NoneHeld
  BY <1>1, <1>3, <1>4 DEF HoldsOne, HeldFor, NoneHeld
<1>6. NoneHeld \in Holdings
  BY DEF NoneHeld, Holdings
<1>7. Release(g, r) = [g EXCEPT !.outstanding = @ - r, !.pending = p]
  BY DEF Release
<1>8. g.outstanding = r /\ r - r = 0
  BY <1>1 DEF HoldsOne
<1>9. MayRelease(g, r) /\ MayCancel(g, s)
  BY <1>3 DEF MayRelease, MayCancel
<1> HIDE DEF p, r
<1>10. Release(g, r) = [g EXCEPT !.outstanding = 0, !.pending = NoneHeld]
  BY <1>5, <1>7, <1>8
<1> DEFINE h == Release(g, r)
<1>11. h \in GuardSet
  <2>1. \A n \in Nat, m \in Holdings :
          [g EXCEPT !.outstanding = n, !.pending = m] \in GuardSet
    BY DEF GuardSet
  <2>2. [g EXCEPT !.outstanding = 0, !.pending = NoneHeld] \in GuardSet
    BY <1>6, <2>1
  <2> QED BY <1>10, <2>2
<1>12. /\ HoldsNone(h) /\ h.measured = g.measured /\ h.forfeited = g.forfeited
       /\ h.tokens = g.tokens /\ h.events = g.events
  BY <1>10 DEF GuardSet, HoldsNone
<1> QED BY <1>9, <1>11, <1>12 DEF r

\* One event more on the guard's list.
LEMMA EventAppended ==
  ASSUME NEW e \in EventLists, NEW kind \in {"measured", "forfeited"}, NEW c \in Nat
  PROVE  /\ Append(e, Event(kind, c)) \in EventLists
         /\ Len(Append(e, Event(kind, c))) = Len(e) + 1
         /\ \A i \in 1..Len(e) : Append(e, Event(kind, c))[i] = e[i]
         /\ Append(e, Event(kind, c))[Len(e) + 1].kind = kind
<1>1. Event(kind, c) \in Events /\ Event(kind, c).kind = kind
  BY DEF Event, Events
<1> QED BY <1>1 DEF EventLists

\* Settling the one request held at what it cost.
LEMMA SettleResolves ==
  ASSUME NEW g \in GuardSet, NEW s \in Sizes, HoldsOne(g, s), NEW c \in Nat
  PROVE  LET h == Settle(g, Reservation[s], c)
         IN /\ h \in GuardSet /\ HoldsNone(h)
            /\ h.measured = g.measured + c /\ h.forfeited = g.forfeited
            /\ h.tokens = g.tokens /\ h.events = Append(g.events, Event("measured", c))
<1> DEFINE k == Release(g, Reservation[s])
<1>1. /\ k \in GuardSet /\ HoldsNone(k) /\ k.measured = g.measured
      /\ k.forfeited = g.forfeited /\ k.tokens = g.tokens /\ k.events = g.events
  BY ReleaseFrees
<1> HIDE DEF k
<1>2. Append(k.events, Event("measured", c)) \in EventLists
  BY <1>1, EventAppended DEF GuardSet
<1>3. Settle(g, Reservation[s], c) =
        [k EXCEPT !.measured = k.measured + c,
                  !.events = Append(k.events, Event("measured", c))]
  BY DEF Settle, k
<1>4. k.measured + c \in Nat
  BY <1>1 DEF GuardSet
<1> QED BY <1>1, <1>2, <1>3, <1>4 DEF GuardSet, HoldsNone

\* Forfeiting it keeps the whole reservation as exposure.
LEMMA ForfeitResolves ==
  ASSUME NEW g \in GuardSet, NEW s \in Sizes, HoldsOne(g, s)
  PROVE  LET h == Forfeit(g, Reservation[s])
         IN /\ h \in GuardSet /\ HoldsNone(h)
            /\ h.measured = g.measured /\ h.forfeited = g.forfeited + Reservation[s]
            /\ h.tokens = g.tokens
            /\ h.events = Append(g.events, Event("forfeited", Reservation[s]))
<1> DEFINE r == Reservation[s]
           k == Release(g, r)
<1>1. /\ k \in GuardSet /\ HoldsNone(k) /\ k.measured = g.measured
      /\ k.forfeited = g.forfeited /\ k.tokens = g.tokens /\ k.events = g.events
  BY ReleaseFrees
<1>2. r \in Nat
  BY PriceType
<1> HIDE DEF k
<1>3. Append(k.events, Event("forfeited", r)) \in EventLists
  BY <1>1, <1>2, EventAppended DEF GuardSet
<1>4. Forfeit(g, r) =
        [k EXCEPT !.forfeited = k.forfeited + r,
                  !.events = Append(k.events, Event("forfeited", r))]
  BY DEF Forfeit, k
<1>5. k.forfeited + r \in Nat
  BY <1>1, <1>2 DEF GuardSet
<1> HIDE DEF r
<1> QED BY <1>1, <1>3, <1>4, <1>5 DEF r, GuardSet, HoldsNone

\* Cancelling it takes its tokens back.
LEMMA CancelResolves ==
  ASSUME NEW g \in GuardSet, NEW s \in Sizes, HoldsOne(g, s), g.tokens >= Exposure[s]
  PROVE  LET h == Cancel(g, s)
         IN /\ h \in GuardSet /\ HoldsNone(h)
            /\ h.measured = g.measured /\ h.forfeited = g.forfeited
            /\ h.tokens = g.tokens - Exposure[s] /\ h.events = g.events
<1> DEFINE k == Release(g, Reservation[s])
<1>1. /\ k \in GuardSet /\ HoldsNone(k) /\ k.measured = g.measured
      /\ k.forfeited = g.forfeited /\ k.tokens = g.tokens /\ k.events = g.events
  BY ReleaseFrees
<1>2. Exposure[s] \in Nat
  BY PriceType
<1> HIDE DEF k
<1>3. Cancel(g, s) = [k EXCEPT !.tokens = k.tokens - Exposure[s]]
  BY DEF Cancel, k
<1>4. k.tokens - Exposure[s] \in Nat
  BY <1>1, <1>2 DEF GuardSet
<1> QED BY <1>1, <1>3, <1>4 DEF GuardSet, HoldsNone

-----------------------------------------------------------------------------
(* The inductive invariant.                                                 *)

\* The turn that something run does not catch has left: nothing follows it.
Escaped == pc = "ended" /\ result = "escaped"

\* The locals other than the guard.
LocalsOK ==
  /\ clock \in Nat /\ turns \in 0..MaxTurns
  /\ pc \in {"idle", "top", "admitted", "inflight", "ended"}
  /\ size \in Sizes /\ origin \in Nat /\ cancelled \in BOOLEAN
  /\ attempts \in 0..MaxAttempts /\ wait \in Nat /\ budget \in Nat
  /\ record \in Seq(Attempts)
  /\ reason \in Reasons \cup {"none"} /\ result \in Results
  /\ sent \in Nat /\ charged \in Nat /\ overrun \in Nat

\* The attempts and the clock keep within the policy and the turn's budget.
BudgetInv ==
  /\ pc \in {"top", "admitted"} => attempts < MaxAttempts
  /\ pc \in {"admitted", "inflight"} => budget > 0 /\ clock + budget <= origin + TurnBudget
  /\ pc = "top" /\ attempts > 0 => Remaining > 0
  /\ pc = "ended" /\ attempts > 0 => clock <= origin + TurnBudget

\* The guard holds the one request about to leave, in flight or escaped.
HoldingInv ==
  IF pc \in {"admitted", "inflight"} \/ Escaped THEN HoldsOne(guard, size) ELSE HoldsNone(guard)

\* Its tokens are those that were sent, and those about to be.
TokenInv ==
  /\ guard.tokens <= TokenCap
  /\ ~Escaped => guard.tokens = sent + (IF pc = "admitted" THEN Exposure[size] ELSE 0)

\* Its money covers what was billed; only an escaped request is covered by what
\* is still held for it.
MoneyInv ==
  /\ charged <= guard.measured + guard.forfeited + guard.outstanding
  /\ ~Escaped => charged <= guard.measured + guard.forfeited
  /\ guard.measured + guard.forfeited + guard.outstanding <= Cap + overrun

\* The record and the guard's events tell the same story, attempt by attempt.
Paired(r, e) == Len(r) = Len(e) /\ \A i \in 1..Len(r) : r[i].settlement = e[i].kind

EvidenceInv ==
  ~Escaped =>
    IF pc = "idle" THEN guard.events = <<>>
    ELSE /\ Paired(record, guard.events)
         /\ attempts = Len(record) + (IF pc = "inflight" THEN 1 ELSE 0)
         /\ pc = "ended" => reason # "none"

IInv ==
  /\ LocalsOK /\ guard \in GuardSet
  /\ BudgetInv /\ HoldingInv /\ TokenInv /\ MoneyInv /\ EvidenceInv

\* The type invariant, in the words of the proofs.
LEMMA TypeIs == TypeOK <=> LocalsOK /\ guard \in GuardSet
BY DEF TypeOK, LocalsOK, GuardSet, Holdings, EventLists, Events

\* A turn that has not begun has nothing to account for.
LEMMA IInvInit == Init => IInv
<1> SUFFICES ASSUME Init PROVE IInv
  OBVIOUS
<1>1. guard = NewGuard /\ NoneHeld \in Holdings /\ <<>> \in EventLists /\ Len(<<>>) = 0
  BY DEF Init, NoneHeld, Holdings, EventLists
<1>2. NewGuard = [measured |-> 0, forfeited |-> 0, outstanding |-> 0, reserved |-> 0,
                  tokens |-> 0, pending |-> NoneHeld, events |-> <<>>]
  BY DEF NewGuard, NoneHeld
<1>3. guard \in GuardSet
  BY <1>1, <1>2 DEF GuardSet
<1>4. LocalsOK
  <2>1. <<>> \in Seq(Attempts)
    OBVIOUS
  <2>2. 0 \in 0..MaxTurns /\ 0 \in 0..MaxAttempts /\ 0 \in Nat
    BY ExecutorAssumption
  <2> QED BY <2>1, <2>2 DEF Init, LocalsOK, Results
<1>5. BudgetInv /\ HoldingInv
  BY <1>1, <1>2 DEF Init, BudgetInv, HoldingInv, HoldsNone, Escaped
<1>6. TokenInv /\ MoneyInv /\ EvidenceInv
  BY <1>1, <1>2, CostAssumption DEF Init, TokenInv, MoneyInv, EvidenceInv, Escaped
<1> QED BY <1>3, <1>4, <1>5, <1>6 DEF IInv

-----------------------------------------------------------------------------
(* Every step keeps the invariant.                                          *)

\* One attempt and the event that settles it are recorded together.
LEMMA PairedAppend ==
  ASSUME NEW r \in Seq(Attempts), NEW e \in EventLists, Paired(r, e),
         NEW a \in Attempts, NEW c \in Nat
  PROVE  LET more == Append(e, Event(a.settlement, c))
         IN /\ Append(r, a) \in Seq(Attempts) /\ Len(Append(r, a)) = Len(r) + 1
            /\ Paired(Append(r, a), more)
<1> DEFINE more == Append(e, Event(a.settlement, c))
<1>1. a.settlement \in {"measured", "forfeited"}
  BY DEF Attempts
<1>2. /\ more \in EventLists /\ Len(more) = Len(e) + 1
      /\ \A i \in 1..Len(e) : more[i] = e[i]
      /\ more[Len(e) + 1].kind = a.settlement
  BY <1>1, EventAppended
<1> HIDE DEF more
<1>3. /\ Append(r, a) \in Seq(Attempts) /\ Len(Append(r, a)) = Len(r) + 1
      /\ \A i \in 1..Len(r) : Append(r, a)[i] = r[i]
      /\ Append(r, a)[Len(r) + 1] = a /\ Len(r) \in Nat
  OBVIOUS
<1>4. \A i \in 1..(Len(r) + 1) : i \in 1..Len(r) \/ i = Len(r) + 1
  BY <1>3
<1>5. Len(r) = Len(e) /\ \A i \in 1..Len(r) : r[i].settlement = e[i].kind
  BY DEF Paired
<1>6. \A i \in 1..(Len(r) + 1) : Append(r, a)[i].settlement = more[i].kind
  BY <1>2, <1>3, <1>4, <1>5
<1>7. Paired(Append(r, a), more)
  BY <1>2, <1>3, <1>5, <1>6 DEF Paired
<1> QED BY <1>3, <1>7 DEF more

\* A request in flight that is resolved and recorded: at what was paid for it,
\* which covers what was billed, the overrun on record.  The turn ends, or it
\* backs off and comes round.
LEMMA ResolvedKeeps ==
  ASSUME IInv, pc = "inflight",
         NEW d \in 0..budget, NEW c \in Nat, NEW paid \in Nat, c <= paid,
         charged' = charged + c, UNCHANGED <<turns, sent, attempts>>,
         guard' \in GuardSet, HoldsNone(guard'), guard'.tokens = guard.tokens,
         guard'.measured + guard'.forfeited = guard.measured + guard.forfeited + paid,
         overrun' = overrun + (IF paid > Price THEN paid - Price ELSE 0),
         record' \in Seq(Attempts), Len(record') = Len(record) + 1,
         Paired(record', guard'.events),
         UNCHANGED <<size, origin, cancelled, budget>>,
         \/ /\ pc' = "ended" /\ clock' = clock + d /\ wait' = wait
            /\ reason' \in Reasons /\ result' \in Results \ {"escaped"}
         \/ /\ pc' = "top" /\ clock' = clock + d + wait /\ wait' = wait * Multiplier
            /\ wait < TurnBudget - (clock + d - origin) /\ attempts < MaxAttempts
            /\ UNCHANGED <<reason, result>>
  PROVE  IInv'
<1>1. /\ LocalsOK /\ guard \in GuardSet /\ HoldsOne(guard, size) /\ ~Escaped /\ ~Escaped'
      /\ BudgetInv /\ TokenInv /\ MoneyInv /\ EvidenceInv
  BY DEF IInv, HoldingInv, Escaped
<1>2. /\ guard.measured \in Nat /\ guard.forfeited \in Nat /\ guard.tokens \in Nat
      /\ guard'.measured \in Nat /\ guard'.forfeited \in Nat
  BY <1>1 DEF GuardSet
<1>3. /\ clock \in Nat /\ origin \in Nat /\ wait \in Nat /\ budget \in Nat /\ TurnBudget \in Nat
      /\ charged \in Nat /\ overrun \in Nat /\ attempts \in 0..MaxAttempts
      /\ Multiplier \in Nat /\ d \in Nat /\ d <= budget
  BY <1>1, ExecutorAssumption DEF LocalsOK
<1>4. Price \in Nat
  BY <1>1, PriceType DEF LocalsOK, Price
<1> HIDE DEF Price
<1>5. LocalsOK'
  <2>1. clock' \in Nat /\ wait' \in Nat /\ charged' \in Nat /\ overrun' \in Nat
    <3>1. wait * Multiplier \in Nat /\ clock + d \in Nat /\ clock + d + wait \in Nat
      BY <1>3
    <3>2. clock' \in Nat /\ wait' \in Nat
      BY <1>3, <3>1
    <3>3. charged' \in Nat /\ overrun' \in Nat
      BY <1>3, <1>4
    <3> QED BY <3>2, <3>3
  <2>2. pc' \in {"top", "ended"} /\ reason' \in Reasons \cup {"none"} /\ result' \in Results
    BY <1>1 DEF LocalsOK
  <2> QED BY <1>1, <2>1, <2>2 DEF LocalsOK
<1>6. BudgetInv'
  BY <1>1, <1>3 DEF BudgetInv, Remaining
<1>7. HoldingInv'
  BY <1>1 DEF HoldingInv, Escaped
<1>8. TokenInv'
  BY <1>1, <1>2 DEF TokenInv
<1>9. MoneyInv'
  <2>1. guard.outstanding = Price /\ guard'.outstanding = 0
    BY <1>1 DEF HoldsOne, HoldsNone, Price
  <2>2. /\ charged <= guard.measured + guard.forfeited
        /\ guard.measured + guard.forfeited + Price <= Cap + overrun /\ Cap \in Nat
    BY <1>1, <2>1, CostAssumption DEF MoneyInv
  <2>3. charged' <= guard'.measured + guard'.forfeited
    BY <1>2, <1>3, <2>2
  <2>4. overrun' \in Nat /\ overrun' >= overrun /\ overrun' >= overrun + paid - Price
    BY <1>3, <1>4
  <2>5. guard'.measured + guard'.forfeited + 0 <= Cap + overrun'
    BY <1>2, <1>3, <1>4, <2>2, <2>4
  <2>6. charged' <= guard'.measured + guard'.forfeited + 0
    BY <1>2, <2>3
  <2> QED BY <1>1, <2>1, <2>3, <2>5, <2>6 DEF MoneyInv
<1>10. EvidenceInv'
  <2>1. attempts = Len(record) + 1 /\ pc' # "idle" /\ pc' # "inflight"
    BY <1>1 DEF EvidenceInv
  <2>2. pc' = "ended" => reason' # "none"
    BY DEF Reasons
  <2>3. attempts' = Len(record') + 0
    BY <1>3, <2>1
  <2> QED BY <2>1, <2>2, <2>3 DEF EvidenceInv
<1> QED BY <1>5, <1>6, <1>7, <1>8, <1>9, <1>10 DEF IInv

\* A forfeited attempt covers at its price whatever was billed for it.
LEMMA ForfeitedKeeps ==
  ASSUME IInv, NEW d \in 0..budget, NEW c \in 0..Price, InFlight(d, c),
         NEW outcome \in {"fault", "response", "unclassified_error"},
         ForfeitAttempt(outcome), UNCHANGED <<size, origin, cancelled, budget>>,
         \/ /\ pc' = "ended" /\ clock' = clock + d /\ wait' = wait
            /\ reason' \in Reasons /\ result' \in Results \ {"escaped"}
         \/ /\ pc' = "top" /\ clock' = clock + d + wait /\ wait' = wait * Multiplier
            /\ wait < TurnBudget - (clock + d - origin) /\ attempts < MaxAttempts
            /\ UNCHANGED <<reason, result>>
  PROVE  IInv'
<1>1. /\ LocalsOK /\ guard \in GuardSet /\ HoldsOne(guard, size) /\ EvidenceInv
      /\ pc = "inflight" /\ charged' = charged + c /\ UNCHANGED <<turns, sent, attempts>>
  BY DEF IInv, HoldingInv, InFlight
<1>2. size \in Sizes /\ overrun \in Nat /\ record \in Seq(Attempts)
      /\ guard.events \in EventLists /\ guard.measured \in Nat /\ guard.forfeited \in Nat
  BY <1>1 DEF LocalsOK, GuardSet
<1>3. Price \in Nat /\ c \in Nat /\ c <= Price
  BY <1>2, PriceType DEF Price
<1>4. /\ guard' \in GuardSet /\ HoldsNone(guard')
      /\ guard'.measured = guard.measured /\ guard'.forfeited = guard.forfeited + Price
      /\ guard'.tokens = guard.tokens
      /\ guard'.events = Append(guard.events, Event("forfeited", Price))
  BY <1>1, <1>2, ForfeitResolves DEF ForfeitAttempt, Price
<1>5. /\ record' = Append(record, Attempt(outcome, "forfeited"))
      /\ Attempt(outcome, "forfeited") \in Attempts
      /\ Attempt(outcome, "forfeited").settlement = "forfeited"
  BY DEF ForfeitAttempt, Attempt, Attempts
<1>6. Paired(record, guard.events)
  BY <1>1 DEF EvidenceInv, Escaped
<1>7. /\ record' \in Seq(Attempts) /\ Len(record') = Len(record) + 1
      /\ Paired(record', guard'.events)
  BY <1>2, <1>3, <1>4, <1>5, <1>6, PairedAppend
<1>8. /\ guard'.measured + guard'.forfeited = guard.measured + guard.forfeited + Price
      /\ overrun' = overrun + (IF Price > Price THEN Price - Price ELSE 0)
  BY <1>2, <1>3, <1>4 DEF ForfeitAttempt
<1> HIDE DEF Price
<1> QED BY <1>1, <1>3, <1>4, <1>7, <1>8, ResolvedKeeps

\* An attempt that fails in flight forfeits its reservation, whether the turn ends
\* there or retries.
LEMMA DispatchFailedKeeps ==
  ASSUME IInv, NEW kind \in Failures, NEW d \in 0..budget, NEW c \in 0..Price,
         DispatchFailed(kind, d, c), UNCHANGED <<size, origin, cancelled, budget>>,
         \/ /\ pc' = "ended" /\ clock' = clock + d /\ wait' = wait
            /\ reason' \in Reasons /\ result' \in Results \ {"escaped"}
         \/ /\ pc' = "top" /\ clock' = clock + d + wait /\ wait' = wait * Multiplier
            /\ wait < TurnBudget - (clock + d - origin) /\ attempts < MaxAttempts
            /\ UNCHANGED <<reason, result>>
  PROVE  IInv'
<1>1. PICK outcome \in {"fault", "response", "unclassified_error"} : ForfeitAttempt(outcome)
  BY DEF DispatchFailed
<1>2. InFlight(d, c)
  BY DEF DispatchFailed
<1> QED BY <1>1, <1>2, ForfeitedKeeps

\* The steps of a request in flight.
LEMMA InFlightKeeps ==
  IInv /\ (Failed \/ BackOff \/ AnswerRefused \/ AnswerUnmeasured \/ AnswerMeasured \/ Interrupted)
    => IInv'
<1> SUFFICES ASSUME IInv, Failed \/ BackOff \/ AnswerRefused \/ AnswerUnmeasured
                            \/ AnswerMeasured \/ Interrupted
             PROVE  IInv'
  OBVIOUS
<1>1. CASE Failed
  <2>1. PICK kind \in Failures, d \in 0..budget, c \in 0..Price :
          /\ DispatchFailed(kind, d, c) /\ clock' = clock + d
          /\ \E why \in Reasons, way \in Results \ {"escaped"} : End(why, way)
    BY <1>1 DEF Failed, Reasons, Results
  <2> QED BY <2>1, DispatchFailedKeeps DEF End
<1>2. CASE BackOff
  <2>1. PICK d \in 0..budget, c \in 0..Price :
          /\ DispatchFailed("retryable", d, c)
          /\ Retries("retryable") /\ BackoffFits(clock + d)
          /\ clock' = clock + d + wait /\ wait' = wait * Multiplier /\ pc' = "top"
          /\ UNCHANGED <<size, origin, cancelled, budget, reason, result>>
    BY <1>2 DEF BackOff
  <2>2. attempts < MaxAttempts
    BY <2>1 DEF Retries
  <2>3. wait < TurnBudget - (clock + d - origin)
    <3>1. /\ clock \in Nat /\ d \in Nat /\ wait \in Nat /\ origin \in Nat
          /\ TurnBudget \in Nat
      BY <2>1, ExecutorAssumption DEF IInv, LocalsOK
    <3> QED BY <2>1, <3>1 DEF BackoffFits
  <2>4. "retryable" \in Failures
    BY DEF Failures
  <2> QED BY <2>1, <2>2, <2>3, <2>4, DispatchFailedKeeps
<1>3. CASE AnswerRefused
  <2>1. PICK d \in 0..budget, c \in 0..Price, outcome \in {"fault", "unclassified_error"} :
          /\ InFlight(d, c) /\ clock' = clock + d /\ ForfeitAttempt(outcome)
          /\ \E why \in Reasons, way \in Results \ {"escaped"} : End(why, way)
    BY <1>3 DEF AnswerRefused, Reasons, Results
  <2> QED BY <2>1, ForfeitedKeeps DEF End
<1>4. CASE AnswerUnmeasured
  BY <1>4, ForfeitedKeeps DEF AnswerUnmeasured, End, Reasons, Results
<1>5. CASE AnswerMeasured
  <2>1. PICK d \in 0..budget, c \in 0..(Price + MaxOverrun) :
          /\ InFlight(d, c) /\ clock' = clock + d
          /\ guard' = Settle(guard, Price, c)
          /\ record' = Append(record, Attempt("response", "measured"))
          /\ overrun' = overrun + (IF c > Price THEN c - Price ELSE 0)
          /\ End("response", IF c > Price THEN "breach" ELSE "answer")
    BY <1>5 DEF AnswerMeasured
  <2>2. /\ LocalsOK /\ guard \in GuardSet /\ HoldsOne(guard, size) /\ EvidenceInv
        /\ pc = "inflight" /\ charged' = charged + c /\ UNCHANGED <<turns, sent, attempts>>
    BY <2>1 DEF IInv, HoldingInv, InFlight
  <2>3. /\ size \in Sizes /\ record \in Seq(Attempts) /\ guard.events \in EventLists
        /\ guard.measured \in Nat /\ guard.forfeited \in Nat /\ c \in Nat
    BY <2>2, ExecutorAssumption DEF LocalsOK, GuardSet
  <2>4. /\ guard' \in GuardSet /\ HoldsNone(guard')
        /\ guard'.measured = guard.measured + c /\ guard'.forfeited = guard.forfeited
        /\ guard'.tokens = guard.tokens
        /\ guard'.events = Append(guard.events, Event("measured", c))
    BY <2>1, <2>2, <2>3, SettleResolves DEF Price
  <2>5. /\ Attempt("response", "measured") \in Attempts
        /\ Attempt("response", "measured").settlement = "measured"
    BY DEF Attempt, Attempts
  <2>6. Paired(record, guard.events)
    BY <2>2 DEF EvidenceInv, Escaped
  <2>7. /\ record' \in Seq(Attempts) /\ Len(record') = Len(record) + 1
        /\ Paired(record', guard'.events)
    BY <2>1, <2>3, <2>4, <2>5, <2>6, PairedAppend
  <2>8. guard'.measured + guard'.forfeited = guard.measured + guard.forfeited + c
    BY <2>3, <2>4
  <2>9. /\ pc' = "ended" /\ wait' = wait /\ UNCHANGED <<size, origin, cancelled, budget>>
        /\ reason' \in Reasons /\ result' \in Results \ {"escaped"}
    BY <2>1 DEF End, Reasons, Results
  <2> QED BY <2>1, <2>2, <2>3, <2>4, <2>7, <2>8, <2>9, ResolvedKeeps
<1>6. CASE Interrupted
  <2>1. PICK d \in 0..budget, c \in 0..Price :
          /\ pc = "inflight" /\ charged' = charged + c /\ clock' = clock + d
          /\ result' = "escaped" /\ pc' = "ended"
          /\ UNCHANGED <<guard, size, origin, cancelled, attempts, wait, budget, record,
                         reason, turns, sent, overrun>>
    BY <1>6 DEF Interrupted, InFlight
  <2>2. /\ LocalsOK /\ guard \in GuardSet /\ HoldsOne(guard, size) /\ ~Escaped /\ Escaped'
        /\ BudgetInv /\ TokenInv /\ MoneyInv
    BY <2>1 DEF IInv, HoldingInv, Escaped
  <2>3. /\ clock \in Nat /\ budget \in Nat /\ d \in Nat /\ d <= budget /\ charged \in Nat
        /\ origin \in Nat /\ TurnBudget \in Nat /\ size \in Sizes
    BY <2>1, <2>2, ExecutorAssumption DEF LocalsOK
  <2>4. Price \in Nat /\ c \in Nat /\ c <= Price /\ guard.outstanding = Price
    BY <2>2, <2>3, PriceType DEF Price, HoldsOne
  <2>5. LocalsOK'
    BY <2>1, <2>2, <2>3, <2>4 DEF LocalsOK, Results
  <2>6. BudgetInv'
    BY <2>1, <2>2, <2>3 DEF BudgetInv
  <2>7. HoldingInv' /\ TokenInv' /\ EvidenceInv'
    BY <2>1, <2>2 DEF HoldingInv, TokenInv, EvidenceInv
  <2>8. MoneyInv'
    <3>1. guard.measured \in Nat /\ guard.forfeited \in Nat
      BY <2>2 DEF GuardSet
    <3> HIDE DEF Price
    <3> QED BY <2>1, <2>2, <2>3, <2>4, <3>1 DEF MoneyInv
  <2> QED BY <2>1, <2>2, <2>5, <2>6, <2>7, <2>8 DEF IInv
<1> QED BY <1>1, <1>2, <1>3, <1>4, <1>5, <1>6

\* The steps of the loop before a request leaves, and of its caller.
LEMMA LocalKeeps ==
  IInv /\ (Begin \/ CancelDeadline \/ OutOfTime \/ CapRefuses \/ Reserve \/ PreDispatchRefused
             \/ CheckFails \/ Dispatch \/ Observe)
    => IInv'
<1> SUFFICES ASSUME IInv, Begin \/ CancelDeadline \/ OutOfTime \/ CapRefuses \/ Reserve
                            \/ PreDispatchRefused \/ CheckFails \/ Dispatch \/ Observe
             PROVE  IInv'
  OBVIOUS
<1>1. /\ LocalsOK /\ guard \in GuardSet /\ size \in Sizes
      /\ BudgetInv /\ HoldingInv /\ TokenInv /\ MoneyInv /\ EvidenceInv
  BY DEF IInv, LocalsOK
<1>2. /\ clock \in Nat /\ origin \in Nat /\ TurnBudget \in Nat /\ budget \in Nat /\ sent \in Nat
      /\ charged \in Nat /\ overrun \in Nat /\ attempts \in Nat /\ record \in Seq(Attempts)
      /\ Len(record) \in Nat
  BY <1>1, ExecutorAssumption DEF LocalsOK
<1>3. /\ guard.measured \in Nat /\ guard.forfeited \in Nat /\ guard.outstanding \in Nat
      /\ guard.tokens \in Nat
  BY <1>1 DEF GuardSet
<1>4. Price \in Nat /\ Exposure[size] \in Nat
  BY <1>1, PriceType DEF Price
<1>5. CASE Begin
  <2>1. PICK e \in Preparation : clock' = clock + e
    BY <1>5 DEF Begin
  <2>2. /\ pc = "idle" /\ pc' = "top" /\ attempts' = 0 /\ record' = <<>> /\ origin' = clock
        /\ turns < MaxTurns /\ turns' = turns + 1 /\ size' \in Sizes /\ cancelled' = FALSE
        /\ wait' = InitialBackoff /\ budget' = 0 /\ reason' = "none" /\ result' = "answer"
        /\ UNCHANGED <<guard, sent, charged, overrun>>
    BY <1>5 DEF Begin
  <2>3. LocalsOK'
    <3>1. turns' \in 0..MaxTurns /\ clock' \in Nat /\ attempts' \in 0..MaxAttempts
      BY <1>1, <2>1, <2>2, ExecutorAssumption DEF LocalsOK
    <3>2. record' \in Seq(Attempts) /\ result' \in Results
      BY <2>2 DEF Results
    <3> QED BY <1>1, <1>2, <2>2, <3>1, <3>2, ExecutorAssumption DEF LocalsOK
  <2>4. BudgetInv'
    BY <2>2, ExecutorAssumption DEF BudgetInv
  <2>5. HoldingInv' /\ TokenInv' /\ MoneyInv'
    BY <1>1, <2>2 DEF HoldingInv, TokenInv, MoneyInv, Escaped
  <2>6. EvidenceInv'
    BY <1>1, <2>2 DEF EvidenceInv, Escaped, Paired
  <2> QED BY <1>1, <2>2, <2>3, <2>4, <2>5, <2>6 DEF IInv
<1>6. CASE CancelDeadline
  <2>1. /\ cancelled' = TRUE
        /\ UNCHANGED <<clock, guard, pc, size, origin, attempts, wait, budget, record,
                       reason, result, turns, sent, charged, overrun>>
    BY <1>6 DEF CancelDeadline
  <2> QED BY <1>1, <2>1 DEF IInv, LocalsOK, BudgetInv, Remaining, HoldingInv, TokenInv,
                            MoneyInv, EvidenceInv, Escaped
<1>7. CASE OutOfTime \/ CapRefuses
  <2>1. PICK why \in Reasons, way \in Results \ {"escaped"} :
          /\ pc = "top" /\ pc' = "ended" /\ reason' = why /\ result' = way
          /\ OutOfTime \/ Remaining > 0
          /\ UNCHANGED <<clock, guard, size, origin, cancelled, attempts, wait, budget, record,
                         turns, sent, charged, overrun>>
    BY <1>7 DEF OutOfTime, CapRefuses, End, InTime, Reasons, Results
  <2>2. LocalsOK'
    BY <1>1, <2>1 DEF LocalsOK
  <2>3. BudgetInv'
    BY <1>1, <1>2, <2>1 DEF BudgetInv, Remaining
  <2>4. HoldingInv' /\ TokenInv' /\ MoneyInv'
    BY <1>1, <2>1 DEF HoldingInv, TokenInv, MoneyInv, Escaped
  <2>5. EvidenceInv'
    BY <1>1, <2>1 DEF EvidenceInv, Escaped, Reasons
  <2> QED BY <1>1, <2>1, <2>2, <2>3, <2>4, <2>5 DEF IInv
<1>8. CASE Reserve
  <2>1. /\ pc = "top" /\ pc' = "admitted" /\ Remaining > 0 /\ budget' = Remaining
        /\ guard' = Authorize(guard, size) /\ Admits(guard, size)
        /\ UNCHANGED <<clock, size, origin, cancelled, attempts, wait, record, reason, result,
                       turns, sent, charged, overrun>>
    BY <1>8 DEF Reserve, InTime
  <2>2. ~Escaped /\ ~Escaped' /\ HoldsNone(guard)
    BY <1>1, <2>1 DEF HoldingInv, Escaped
  <2>3. /\ guard' \in GuardSet /\ HoldsOne(guard', size)
        /\ guard'.measured = guard.measured /\ guard'.forfeited = guard.forfeited
        /\ guard'.tokens = guard.tokens + Exposure[size] /\ guard'.events = guard.events
    BY <1>1, <2>1, <2>2, AuthorizeHolds
  <2>4. guard.outstanding = 0 /\ guard'.outstanding = Price
    BY <2>2, <2>3 DEF HoldsNone, HoldsOne, Price
  <2>5. LocalsOK'
    BY <1>1, <1>2, <2>1 DEF LocalsOK, Remaining
  <2>6. BudgetInv'
    BY <1>1, <1>2, <2>1 DEF BudgetInv, Remaining
  <2>7. HoldingInv'
    BY <2>1, <2>3 DEF HoldingInv
  <2>8. TokenInv'
    <3>1. guard.tokens = sent /\ guard'.tokens = sent' + Exposure[size]'
      BY <1>1, <1>2, <2>1, <2>2, <2>3 DEF TokenInv
    <3>2. guard'.tokens <= TokenCap
      BY <2>1, <2>3 DEF Admits
    <3> QED BY <2>1, <3>1, <3>2 DEF TokenInv
  <2>9. MoneyInv'
    <3>1. guard.measured + guard.forfeited + 0 + Price <= Cap
      BY <2>1, <2>4 DEF Admits, Committed, Price
    <3> HIDE DEF Price
    <3> QED BY <1>1, <1>2, <1>3, <1>4, <2>1, <2>2, <2>3, <2>4, <3>1, CostAssumption DEF MoneyInv
  <2>10. EvidenceInv'
    BY <1>1, <2>1, <2>2, <2>3 DEF EvidenceInv
  <2> QED BY <2>3, <2>5, <2>6, <2>7, <2>8, <2>9, <2>10 DEF IInv
<1>9. CASE PreDispatchRefused
  <2>1. /\ pc = "admitted" /\ pc' = "ended" /\ guard' = Cancel(guard, size)
        /\ reason' = "pre_dispatch_refused" /\ result' = "refused"
        /\ UNCHANGED <<clock, size, origin, cancelled, attempts, wait, budget, record, turns,
                       sent, charged, overrun>>
    BY <1>9 DEF PreDispatchRefused, End
  <2>2. ~Escaped /\ ~Escaped' /\ HoldsOne(guard, size) /\ guard.tokens = sent + Exposure[size]
    BY <1>1, <2>1 DEF HoldingInv, TokenInv, Escaped
  <2>3. /\ guard' \in GuardSet /\ HoldsNone(guard')
        /\ guard'.measured = guard.measured /\ guard'.forfeited = guard.forfeited
        /\ guard'.tokens = guard.tokens - Exposure[size] /\ guard'.events = guard.events
    BY <1>1, <1>2, <1>4, <2>1, <2>2, CancelResolves
  <2>4. guard.outstanding = Price /\ guard'.outstanding = 0
    BY <2>2, <2>3 DEF HoldsNone, HoldsOne, Price
  <2>5. LocalsOK'
    BY <1>1, <2>1 DEF LocalsOK, Reasons, Results
  <2>6. BudgetInv'
    BY <1>1, <1>2, <2>1 DEF BudgetInv
  <2>7. HoldingInv'
    BY <2>1, <2>2, <2>3 DEF HoldingInv
  <2>8. TokenInv'
    <3>1. guard'.tokens = sent
      BY <1>2, <1>3, <1>4, <2>2, <2>3
    <3>2. guard'.tokens <= TokenCap
      BY <1>1, <1>3, <1>4, <2>3, CostAssumption DEF TokenInv
    <3>3. sent' + 0 = sent
      BY <1>2, <2>1
    <3> QED BY <2>1, <3>1, <3>2, <3>3 DEF TokenInv
  <2>9. MoneyInv'
    <3> HIDE DEF Price
    <3> QED BY <1>1, <1>2, <1>3, <1>4, <2>1, <2>2, <2>3, <2>4, CostAssumption DEF MoneyInv
  <2>10. EvidenceInv'
    BY <1>1, <2>1, <2>2, <2>3 DEF EvidenceInv
  <2> QED BY <2>3, <2>5, <2>6, <2>7, <2>8, <2>9, <2>10 DEF IInv
<1>10. CASE CheckFails
  <2>1. /\ pc = "admitted" /\ pc' = "ended" /\ result' = "escaped"
        /\ UNCHANGED <<clock, guard, size, origin, cancelled, attempts, wait, budget, record,
                       reason, turns, sent, charged, overrun>>
    BY <1>10 DEF CheckFails
  <2>2. LocalsOK' /\ BudgetInv'
    BY <1>1, <1>2, <2>1 DEF LocalsOK, BudgetInv, Results
  <2>3. HoldingInv' /\ TokenInv' /\ MoneyInv' /\ EvidenceInv'
    BY <1>1, <2>1 DEF HoldingInv, TokenInv, MoneyInv, EvidenceInv, Escaped
  <2> QED BY <1>1, <2>1, <2>2, <2>3 DEF IInv
<1>11. CASE Dispatch
  <2>1. /\ pc = "admitted" /\ pc' = "inflight" /\ attempts' = attempts + 1
        /\ sent' = sent + Exposure[size]
        /\ UNCHANGED <<clock, guard, size, origin, cancelled, wait, budget, record, reason,
                       result, turns, charged, overrun>>
    BY <1>11 DEF Dispatch
  <2>2. LocalsOK' /\ BudgetInv'
    BY <1>1, <1>2, <1>4, <2>1, ExecutorAssumption DEF LocalsOK, BudgetInv
  <2>3. HoldingInv' /\ MoneyInv'
    BY <1>1, <2>1 DEF HoldingInv, MoneyInv, Escaped
  <2>4. TokenInv' /\ EvidenceInv'
    BY <1>1, <1>2, <1>3, <1>4, <2>1 DEF TokenInv, EvidenceInv, Escaped
  <2> QED BY <1>1, <2>1, <2>2, <2>3, <2>4 DEF IInv
<1>12. CASE Observe
  <2>1. /\ pc = "ended" /\ result # "escaped" /\ pc' = "idle" /\ guard' = TakeEvents(guard)
        /\ UNCHANGED <<clock, size, origin, cancelled, attempts, wait, budget, record, reason,
                       result, turns, sent, charged, overrun>>
    BY <1>12 DEF Observe, turnVars
  <2>2. guard' = [guard EXCEPT !.events = <<>>] /\ <<>> \in EventLists
    BY <2>1 DEF TakeEvents, EventLists
  <2>3. /\ guard' \in GuardSet /\ guard'.measured = guard.measured
        /\ guard'.forfeited = guard.forfeited /\ guard'.outstanding = guard.outstanding
        /\ guard'.pending = guard.pending /\ guard'.tokens = guard.tokens
        /\ guard'.events = <<>>
    BY <1>1, <2>2 DEF GuardSet
  <2>4. LocalsOK' /\ BudgetInv'
    BY <1>1, <2>1 DEF LocalsOK, BudgetInv
  <2>5. HoldingInv' /\ TokenInv' /\ MoneyInv' /\ EvidenceInv'
    BY <1>1, <2>1, <2>3 DEF HoldingInv, HoldsNone, TokenInv, MoneyInv, EvidenceInv, Escaped
  <2> QED BY <2>3, <2>4, <2>5 DEF IInv
<1> QED BY <1>5, <1>6, <1>7, <1>8, <1>9, <1>10, <1>11, <1>12

\* IInv is an invariant of every run of turns.
THEOREM Inductive == Spec => []IInv
<1>1. IInv /\ [Next]_vars => IInv'
  <2> SUFFICES ASSUME IInv, [Next]_vars PROVE IInv'
    OBVIOUS
  <2>1. CASE UNCHANGED vars
    BY <2>1 DEF vars, turnVars, IInv, LocalsOK, BudgetInv, Remaining, HoldingInv, TokenInv,
                MoneyInv, EvidenceInv, Escaped
  <2> QED BY <2>1, LocalKeeps, InFlightKeeps DEF Next, Loop
<1> QED BY <1>1, IInvInit, PTL DEF Spec

-----------------------------------------------------------------------------
(* The results.                                                             *)

\* The locals of run, the guard and the telemetry keep their types; the attempts
\* of a turn never pass the retry policy's (executor.py, run).
THEOREM TypeCorrect == Spec => []TypeOK
<1>1. IInv => TypeOK
  BY TypeIs DEF IInv
<1> QED BY <1>1, Inductive, PTL

\* Whatever is retried, lost, refused or interrupted, the guard covers what the
\* provider billed, stays under its caps but for overruns on record, and a
\* release always finds what it asks for (pricing.py, authorize to cancel).
THEOREM GuardExact == Spec => []GuardIsExact
<1>1. ASSUME IInv PROVE GuardIsExact
  <2>1. /\ LocalsOK /\ guard \in GuardSet /\ HoldingInv /\ TokenInv /\ MoneyInv
        /\ size \in Sizes
    BY <1>1 DEF IInv, LocalsOK
  <2>2. SpendIsCovered
    <3>1. charged <= guard.measured + guard.forfeited + guard.outstanding
      BY <2>1 DEF MoneyInv
    <3>2. guard.measured + guard.forfeited + guard.outstanding <= Cap + overrun
      BY <2>1 DEF MoneyInv
    <3> QED BY <3>1, <3>2 DEF SpendIsCovered, Committed
  <2>3. pc \in {"admitted", "inflight"} => MayCancel(guard, size)
    BY <2>1, ReleaseFrees DEF HoldingInv
  <2>4. pc \in {"idle", "top"} => guard.outstanding = 0 /\ \A a \in Amounts : ~MayRelease(guard, a)
    BY <2>1 DEF HoldingInv, HoldsNone, NoneHeld, MayRelease, Escaped
  <2>5. guard.tokens <= TokenCap
    BY <2>1 DEF TokenInv
  <2>6. pc # "ended" => guard.tokens = sent + (IF pc = "admitted" THEN Exposure[size] ELSE 0)
    BY <2>1 DEF TokenInv, Escaped
  <2> QED BY <2>2, <2>3, <2>4, <2>5, <2>6 DEF GuardIsExact, ExposureIsExact
<1> QED BY <1>1, Inductive, PTL

\* An exit that run knows leaves nothing outstanding and one attempt on record
\* per request sent, settled as the guard settled it (executor.py, commit).
THEOREM ExitsAccounted == Spec => []EveryExitIsAccounted
<1>1. ASSUME IInv PROVE EveryExitIsAccounted
  <2> SUFFICES ASSUME pc = "ended", result # "escaped"
               PROVE  /\ reason # "none" /\ guard.outstanding = 0
                      /\ Len(record) = attempts /\ Len(guard.events) = attempts
                      /\ \A i \in 1..attempts : record[i].settlement = guard.events[i].kind
    BY DEF EveryExitIsAccounted
  <2>1. LocalsOK /\ HoldingInv /\ EvidenceInv /\ ~Escaped
    BY <1>1 DEF IInv, Escaped
  <2>2. guard.outstanding = 0
    BY <2>1 DEF HoldingInv, HoldsNone
  <2>3. Paired(record, guard.events) /\ attempts = Len(record) + 0 /\ reason # "none"
    BY <2>1 DEF EvidenceInv
  <2>4. record \in Seq(Attempts)
    BY <2>1 DEF LocalsOK
  <2>5. Len(record) = attempts
    BY <2>3, <2>4
  <2> QED BY <2>2, <2>3, <2>5 DEF Paired
<1> QED BY <1>1, Inductive, PTL

\* Retrying never extends a turn: every timeout and every pause fits in what is
\* left of its budget (executor.py, run).
THEOREM BudgetKept == Spec => []TurnKeepsItsBudget
<1>1. IInv => TurnKeepsItsBudget
  BY DEF IInv, BudgetInv, TurnKeepsItsBudget
<1> QED BY <1>1, Inductive, PTL

\* How many steps a turn under way has left at most: three for each attempt not
\* yet made, the rest of the one it is at, and the cancellation of its deadline.
UnderWay == pc \in {"top", "admitted", "inflight"}
StepsLeft ==
  LET unmade == 3 * (MaxAttempts - attempts)
      here   == CASE pc = "top" -> 1 [] pc = "admitted" -> 0 [] pc = "inflight" -> 2
                  [] OTHER -> -unmade
  IN unmade + here + (IF UnderWay /\ ~cancelled THEN 1 ELSE 0)

\* A turn ends because it runs down: whatever is retried, each step of it leaves
\* it fewer than it had, so it takes 3 * MaxAttempts + 2 at most, and what ends it
\* under fairness is only that somebody takes the next one (executor.py, run).
TurnRunsDown ==
  [][/\ UnderWay => StepsLeft' \in 0 .. (StepsLeft - 1)
     /\ ~UnderWay /\ UnderWay' => StepsLeft' = 3 * MaxAttempts + 2]_vars

\* Every turn of every run is as short as TurnRunsDown says (executor.py, run).
THEOREM TurnsAreShort == Spec => TurnRunsDown
<1>1. IInv /\ [Next]_vars =>
        [/\ UnderWay => StepsLeft' \in 0 .. (StepsLeft - 1)
         /\ ~UnderWay /\ UnderWay' => StepsLeft' = 3 * MaxAttempts + 2]_vars
  <2> DEFINE Goal == /\ UnderWay => StepsLeft' \in 0 .. (StepsLeft - 1)
                     /\ ~UnderWay /\ UnderWay' => StepsLeft' = 3 * MaxAttempts + 2
  <2> SUFFICES ASSUME IInv, Next PROVE Goal
    OBVIOUS
  <2>1. /\ MaxAttempts \in Nat /\ attempts \in 0 .. MaxAttempts /\ cancelled \in BOOLEAN
        /\ pc \in {"idle", "top", "admitted", "inflight", "ended"}
        /\ pc \in {"top", "admitted"} => attempts < MaxAttempts
    BY ExecutorAssumption DEF IInv, LocalsOK, BudgetInv
  <2>2. CASE Begin
    <3>1. pc = "idle" /\ pc' = "top" /\ attempts' = 0 /\ cancelled' = FALSE
      BY <2>2 DEF Begin
    <3>2. StepsLeft' = 3 * MaxAttempts + 2
      BY <2>1, <3>1 DEF StepsLeft, UnderWay
    <3> QED BY <3>1, <3>2 DEF UnderWay
  <2>3. CASE CancelDeadline
    <3>1. UnderWay /\ pc' = pc /\ attempts' = attempts /\ cancelled = FALSE /\ cancelled' = TRUE
      BY <2>1, <2>3 DEF CancelDeadline, UnderWay
    <3> QED BY <2>1, <3>1 DEF StepsLeft, UnderWay
  <2>4. CASE Loop /\ pc' = "ended"
    <3>1. UnderWay
      BY <2>4 DEF Loop, UnderWay, OutOfTime, CapRefuses, Reserve, PreDispatchRefused, CheckFails,
                  Dispatch, Failed, BackOff, DispatchFailed, InFlight, AnswerRefused,
                  AnswerUnmeasured, AnswerMeasured, Interrupted
    <3>2. attempts' \in 0 .. MaxAttempts
      <4>1. attempts' = attempts
        BY <2>4 DEF Loop, End, OutOfTime, CapRefuses, Reserve, PreDispatchRefused, CheckFails,
                    Dispatch, Failed, BackOff, DispatchFailed, InFlight, AnswerRefused,
                    AnswerUnmeasured, AnswerMeasured, Interrupted
      <4> QED BY <2>1, <4>1
    <3>3. StepsLeft' = 0
      BY <2>1, <2>4, <3>2 DEF StepsLeft, UnderWay
    <3> QED BY <2>1, <2>4, <3>1, <3>3 DEF StepsLeft, UnderWay
  <2>5. CASE Reserve
    <3>1. pc = "top" /\ pc' = "admitted" /\ attempts' = attempts /\ cancelled' = cancelled
      BY <2>5 DEF Reserve
    <3> QED BY <2>1, <3>1 DEF StepsLeft, UnderWay
  <2>6. CASE Dispatch
    <3>1. pc = "admitted" /\ pc' = "inflight" /\ attempts' = attempts + 1 /\ cancelled' = cancelled
      BY <2>6 DEF Dispatch
    <3> QED BY <2>1, <3>1 DEF StepsLeft, UnderWay
  <2>7. CASE BackOff
    <3>1. pc = "inflight" /\ pc' = "top" /\ attempts' = attempts /\ cancelled' = cancelled
      BY <2>7 DEF BackOff, DispatchFailed, InFlight
    <3> QED BY <2>1, <3>1 DEF StepsLeft, UnderWay
  <2>8. CASE Observe
    <3>1. pc = "ended" /\ pc' = "idle"
      BY <2>8 DEF Observe
    <3> QED BY <3>1 DEF UnderWay
  <2>9. Loop => pc' = "ended" \/ Reserve \/ Dispatch \/ BackOff
    BY DEF Loop, End, OutOfTime, CapRefuses, PreDispatchRefused, CheckFails, Failed, AnswerRefused,
           AnswerUnmeasured, AnswerMeasured, Interrupted
  <2> QED BY <2>2, <2>3, <2>4, <2>5, <2>6, <2>7, <2>8, <2>9 DEF Next
<1> QED BY <1>1, Inductive, PTL DEF Spec, TurnRunsDown

-----------------------------------------------------------------------------
(* The guard implements a spending cap.                                     *)

Spent == guard.measured + guard.forfeited
Held == guard.outstanding

\* A request resolved at c is a Resolve of the promise.
LEMMA ResolvePromised ==
  ASSUME guard \in GuardSet, guard' \in GuardSet, HoldsOne(guard, size), HoldsNone(guard'),
         size \in Sizes, overrun \in Nat, NEW c \in Nat, Spent' = Spent + c,
         overrun' = overrun + (IF c > Price THEN c - Price ELSE 0)
  PROVE  Promise!Next
<1>1. Held = Price /\ Held' = 0 /\ Price \in Nat
  BY PriceType DEF HoldsOne, HoldsNone, Held, Price
<1>2. Spent \in Nat /\ Spent' >= Spent /\ Spent' - Spent = c
  <2>1. guard.measured \in Nat /\ guard.forfeited \in Nat
    BY DEF GuardSet
  <2> QED BY <2>1 DEF Spent
<1> HIDE DEF Price
<1>3. (Spent' - Spent) - (Held - Held') = c - Price
  BY <1>1, <1>2
<1>4. c - Price > 0 <=> c > Price
  BY <1>1
<1>5. overrun' = overrun + (IF c - Price > 0 THEN c - Price ELSE 0)
  BY <1>4
<1>6. Held' \in 0 .. Held /\ Spent' \in Nat
  BY <1>1, <1>2
<1> HIDE DEF Spent, Held
<1>7. overrun' = overrun + (IF (Spent' - Spent) - (Held - Held') > 0
                              THEN (Spent' - Spent) - (Held - Held') ELSE 0)
  BY <1>3, <1>5
<1>8. Promise!Resolve
  BY <1>2, <1>6, <1>7 DEF Promise!Resolve, Spent, Held
<1> QED BY <1>8 DEF Promise!Next

\* A forfeited attempt resolves the promise at its price.
LEMMA ForfeitPromised ==
  ASSUME IInv, pc = "inflight", NEW outcome, ForfeitAttempt(outcome)
  PROVE  Promise!Next
<1>1. /\ guard \in GuardSet /\ HoldsOne(guard, size) /\ size \in Sizes /\ overrun \in Nat
  BY DEF IInv, HoldingInv, LocalsOK
<1>2. /\ guard' \in GuardSet /\ HoldsNone(guard')
      /\ guard'.measured = guard.measured /\ guard'.forfeited = guard.forfeited + Price
  BY <1>1, ForfeitResolves DEF ForfeitAttempt, Price
<1>3. /\ Price \in Nat /\ guard.measured \in Nat /\ guard.forfeited \in Nat
  BY <1>1, PriceType DEF Price, GuardSet
<1>4. /\ Spent' = Spent + Price
      /\ overrun' = overrun + (IF Price > Price THEN Price - Price ELSE 0)
  BY <1>1, <1>2, <1>3 DEF ForfeitAttempt, Spent
<1> HIDE DEF Price
<1> QED BY <1>1, <1>2, <1>3, <1>4, ResolvePromised

\* A step holds, resolves or leaves the promise alone.
LEMMA StepPromised ==
  ASSUME IInv, [Next]_vars
  PROVE  Promise!Next \/ UNCHANGED Promise!vars
<1>1. /\ guard \in GuardSet /\ size \in Sizes /\ overrun \in Nat
  BY DEF IInv, LocalsOK
<1>2. ASSUME /\ guard'.measured = guard.measured /\ guard'.forfeited = guard.forfeited
             /\ guard'.outstanding = guard.outstanding /\ overrun' = overrun
      PROVE  UNCHANGED Promise!vars
  BY <1>2 DEF Promise!vars
<1>3. CASE \/ Begin \/ CancelDeadline \/ OutOfTime \/ CapRefuses \/ CheckFails \/ Dispatch
           \/ Interrupted \/ UNCHANGED vars
  <2>1. guard' = guard /\ overrun' = overrun
    BY <1>3 DEF Begin, CancelDeadline, OutOfTime, CapRefuses, CheckFails, Dispatch,
                Interrupted, vars
  <2> QED BY <1>2, <2>1
<1>4. CASE Observe
  <2>1. guard' = [guard EXCEPT !.events = <<>>] /\ overrun' = overrun
    BY <1>4 DEF Observe, TakeEvents
  <2>2. /\ guard'.measured = guard.measured /\ guard'.forfeited = guard.forfeited
        /\ guard'.outstanding = guard.outstanding
    BY <1>1, <2>1 DEF GuardSet
  <2> QED BY <1>2, <2>1, <2>2
<1>5. CASE Reserve
  <2>1. /\ HoldsNone(guard) /\ guard' = Authorize(guard, size) /\ Admits(guard, size)
        /\ overrun' = overrun
    BY <1>5 DEF Reserve, IInv, HoldingInv, Escaped
  <2>2. /\ HoldsOne(guard', size)
        /\ guard'.measured = guard.measured /\ guard'.forfeited = guard.forfeited
    BY <1>1, <2>1, AuthorizeHolds
  <2>3. /\ guard.outstanding = 0 /\ guard'.outstanding = Price /\ Price \in Nat
    BY <1>1, <2>1, <2>2, PriceType DEF HoldsNone, HoldsOne, Price
  <2>4. guard.measured \in Nat /\ guard.forfeited \in Nat
    BY <1>1 DEF GuardSet
  <2>5. guard.measured + guard.forfeited + 0 + Price <= Cap
    BY <2>1, <2>3 DEF Admits, Committed, Price
  <2> HIDE DEF Price
  <2>6. CASE Price = 0
    BY <1>2, <2>1, <2>2, <2>3, <2>6
  <2>7. CASE Price > 0
    <3>1. Promise!Hold
      BY <2>1, <2>2, <2>3, <2>4, <2>5, <2>7, CostAssumption DEF Promise!Hold
    <3> QED BY <3>1 DEF Promise!Next
  <2> QED BY <2>3, <2>6, <2>7
<1>6. CASE PreDispatchRefused
  <2>1. /\ HoldsOne(guard, size) /\ guard' = Cancel(guard, size) /\ overrun' = overrun
        /\ guard.tokens = sent + Exposure[size] /\ sent \in Nat /\ Exposure[size] \in Nat
    BY <1>1, <1>6, PriceType DEF PreDispatchRefused, IInv, HoldingInv, TokenInv, Escaped, LocalsOK
  <2>2. guard.tokens >= Exposure[size]
    BY <2>1
  <2>3. /\ guard' \in GuardSet /\ HoldsNone(guard')
        /\ guard'.measured = guard.measured /\ guard'.forfeited = guard.forfeited
    BY <1>1, <2>1, <2>2, CancelResolves
  <2>4. /\ Spent' = Spent + 0 /\ Price \in Nat
        /\ overrun' = overrun + (IF 0 > Price THEN 0 - Price ELSE 0)
    <3>1. Price \in Nat /\ guard.measured \in Nat /\ guard.forfeited \in Nat
      BY <1>1, PriceType DEF Price, GuardSet
    <3> HIDE DEF Price
    <3> QED BY <1>1, <2>1, <2>3, <3>1 DEF Spent
  <2> HIDE DEF Price
  <2> QED BY <1>1, <2>1, <2>3, <2>4, ResolvePromised
<1>7. CASE Failed \/ BackOff \/ AnswerRefused \/ AnswerUnmeasured
  <2>1. pc = "inflight" /\ \E outcome : ForfeitAttempt(outcome)
    BY <1>7 DEF Failed, BackOff, DispatchFailed, AnswerRefused, AnswerUnmeasured, InFlight
  <2> QED BY <2>1, ForfeitPromised
<1>8. CASE AnswerMeasured
  <2>1. PICK c \in 0..(Price + MaxOverrun) :
          /\ pc = "inflight" /\ guard' = Settle(guard, Price, c)
          /\ overrun' = overrun + (IF c > Price THEN c - Price ELSE 0)
    BY <1>8 DEF AnswerMeasured, InFlight
  <2>2. c \in Nat /\ HoldsOne(guard, size)
    BY <2>1 DEF IInv, HoldingInv
  <2>3. /\ guard' \in GuardSet /\ HoldsNone(guard')
        /\ guard'.measured = guard.measured + c /\ guard'.forfeited = guard.forfeited
    BY <1>1, <2>1, <2>2, SettleResolves DEF Price
  <2>4. Spent' = Spent + c
    <3>1. guard.measured \in Nat /\ guard.forfeited \in Nat
      BY <1>1 DEF GuardSet
    <3> QED BY <2>2, <2>3, <3>1 DEF Spent
  <2> QED BY <1>1, <2>1, <2>2, <2>3, <2>4, ResolvePromised
<1> QED BY <1>3, <1>4, <1>5, <1>6, <1>7, <1>8 DEF Next, Loop

\* The run's guard keeps the promise of a spending cap: what is spent was held
\* under the cap first, whatever is retried, lost or undone (pricing.py).
THEOREM GuardKeepsTheCap == Spec => KeepsTheCap
<1>1. Init => Promise!Init
  BY DEF Init, NewGuard, Promise!Init
<1>2. IInv /\ [Next]_vars => [Promise!Next]_(Promise!vars)
  BY StepPromised
<1> QED BY <1>1, <1>2, Inductive, PTL DEF Spec, KeepsTheCap, Promise!Spec

\* So the run's money, spent or reserved, exceeds its cap only by the bills
\* that exceeded their reservations, which the guard banks and reports.
THEOREM MoneyUnderCap == Spec => []Promise!UnderCap
<1> DEFINE spent == guard.measured + guard.forfeited
           held == guard.outstanding
           Fits == /\ spent \in Nat /\ held \in Nat /\ overrun \in Nat
                   /\ spent + held <= Cap + overrun
<1>1. Promise!Init => Fits
  BY CostAssumption DEF Promise!Init
<1>2. Fits /\ [Promise!Next]_(Promise!vars) => Fits'
  <2> SUFFICES ASSUME Fits, [Promise!Next]_(Promise!vars) PROVE Fits'
    OBVIOUS
  <2>1. \/ /\ held' \in Nat /\ spent + held' <= Cap
           /\ spent' = spent /\ overrun' = overrun
        \/ /\ held' \in 0 .. held /\ spent' \in Nat
           /\ LET excess == (spent' - spent) - (held - held')
              IN overrun' = overrun + (IF excess > 0 THEN excess ELSE 0)
        \/ spent' = spent /\ held' = held /\ overrun' = overrun
    BY DEF Promise!Next, Promise!Hold, Promise!Resolve, Promise!vars
  <2> HIDE DEF spent, held
  <2>2. /\ spent' \in Nat /\ held' \in Nat /\ overrun' \in Nat
        /\ spent' + held' <= Cap + overrun'
    BY <2>1, CapKept, CostAssumption
  <2> QED BY <2>2
<1>3. Fits => Promise!UnderCap
  BY DEF Promise!UnderCap
<1> QED
  BY <1>1, <1>2, <1>3, GuardKeepsTheCap, PTL DEF KeepsTheCap, Promise!Spec

-----------------------------------------------------------------------------
(* The episode over the executor: what its writer and its file hold.         *)

AttemptSet == [outcome : {"fault", "response", "unclassified_error"},
               settlement : {"measured", "forfeited"}, reserved : Nat, amount : Nat]
CallSet == [index : Nat, turn : Nat, reason : Reasons, decided : BOOLEAN,
            attempts : Seq(AttemptSet)]
CallList == Seq(CallSet)
WriterSet == [calls : CallList, next : Nat, terminal : Endings \cup {"none"},
              poisoned : BOOLEAN, closed : BOOLEAN]

\* The rows of a journal that states some calls, and of one that has ended.
HeaderRow == [index |-> 0, kind |-> "header", payload |-> <<>>]
CallRow(i, call) == [index |-> i, kind |-> "call", payload |-> call]
EndRow(i, end) == [index |-> i, kind |-> "terminal", payload |-> end]
RowsOf(calls) ==
  [i \in 1 .. Len(calls) + 1 |-> IF i = 1 THEN HeaderRow ELSE CallRow(i - 1, calls[i - 1])]
RowsWith(calls, end) ==
  [i \in 1 .. Len(calls) + 2 |->
     IF i = Len(calls) + 2 THEN EndRow(Len(calls) + 1, end) ELSE RowsOf(calls)[i]]

\* Every call was checked against those before it.
Checked(calls) ==
  \A i \in 1 .. Len(calls) :
    CallWellFormed(calls[i]) /\ CallAdmissible(calls[i], SubSeq(calls, 1, i - 1))

-----------------------------------------------------------------------------
(* The inductive invariant.                                                  *)

\* The writer and the file of a run whose appends all succeeded so far.
Whole ==
  /\ writer \in WriterSet /\ ~writer.poisoned
  /\ writer.next = Len(writer.calls) + 1 /\ Checked(writer.calls)
  /\ file.rows = RowsOf(writer.calls) /\ file.tail = "ended" /\ bound = NoBinding

OnFile(what) == Total(writer.calls, what)
Open(what) == IF pending = NoCall THEN 0 ELSE Paid(pending, what)

\* What the guard resolved since its events were taken.
Worth(events, what) ==
  SumFunction([i \in DOMAIN events |-> IF events[i].kind = what THEN events[i].amount ELSE 0])

\* The guard's money is on file or in the open call; during a turn, on file or
\* in the events nobody took yet.
Booked ==
  /\ guard.measured = OnFile("measured") + Open("measured")
  /\ guard.forfeited = OnFile("forfeited") + Open("forfeited")
BookedInTurn ==
  /\ guard.measured = OnFile("measured") + Worth(guard.events, "measured")
  /\ guard.forfeited = OnFile("forfeited") + Worth(guard.events, "forfeited")
Covered == charged <= guard.measured + guard.forfeited

\* What k attempts of a turn can have been billed, and a turn in all.
Bill(k) == k * Price
Within(more) == charged <= OnFile("measured") + OnFile("forfeited") + more
Slack == MaxAttempts * Price + MaxOverrun

Settled == IF pc = "inflight" THEN attempts - 1 ELSE attempts

\* A turn under way.
TurnInv ==
  /\ pc # "idle" /\ BookedInTurn
  /\ Paired(record, guard.events) /\ Len(record) <= attempts
  /\ pc = "inflight" => attempts > 0
  /\ Within(Bill(Settled) + IF pc = "ended" /\ attempts > 0 THEN MaxOverrun ELSE 0)
  /\ pc \in {"top", "admitted", "inflight"} \/ Escaped => reason = "none"
  /\ pc = "ended" /\ reason = "pre_dispatch_refused" => result = "refused"
  /\ pc = "ended" /\ result = "answer" => reason = "response" /\ record # <<>>

NotRefused == stop # "pre_dispatch_refused"

FreshInv ==
  run = "fresh" =>
    /\ IInv /\ pc = "idle" /\ guard.measured = 0 /\ guard.forfeited = 0 /\ charged = 0
    /\ writer = NewWriter /\ file = EmptyFile /\ pending = NoCall /\ bound = NoBinding
    /\ NotRefused

BetweenInv ==
  run = "between" =>
    /\ IInv /\ pc = "idle" /\ Whole /\ pending = NoCall /\ Booked /\ NotRefused

DecidingInv ==
  run = "deciding" =>
    /\ IInv /\ TurnInv /\ Whole /\ pending = NoCall /\ NotRefused

AnsweredInv ==
  run = "answered" =>
    /\ IInv /\ pc = "idle" /\ Whole /\ pending \in CallSet /\ Booked /\ NotRefused
    /\ Within(Slack)

RaisedInv ==
  run = "raised" =>
    /\ Whole /\ pending \in CallSet \cup {NoCall} /\ Within(Slack)
    /\ how \in {"excluded", "aborted"}
    /\ how = "excluded" => Booked /\ Covered /\ NotRefused

FinishingInv ==
  run = "finishing" =>
    /\ writer \in WriterSet
    /\ ~writer.poisoned =>
         /\ Whole /\ pending = NoCall /\ Within(Slack) /\ how \in Endings
         /\ how \in {"scored", "excluded"} => Booked /\ Covered
         /\ how = "excluded" => NotRefused

SealedInv == run = "sealed" => Verdict(file) = "scored"

EInv ==
  /\ size \in Sizes /\ charged \in Nat
  /\ FreshInv /\ BetweenInv /\ DecidingInv /\ AnsweredInv /\ RaisedInv /\ FinishingInv
  /\ SealedInv
  /\ JournalIsTrue /\ SpendIsOnFile

-----------------------------------------------------------------------------
(* What a journal adds up to.                                                *)

\* An attempt is worth a natural, and so are a call and a list of calls.
LEMMA PaidType ==
  ASSUME NEW call \in CallSet, NEW what
  PROVE  Paid(call, what) \in Nat
<1>1. call.attempts \in Seq(AttemptSet)
  BY DEF CallSet
<1> DEFINE n == Len(call.attempts)
           f == [i \in DOMAIN call.attempts |->
                   IF call.attempts[i].settlement = what THEN call.attempts[i].amount ELSE 0]
<1>2. n \in Nat /\ DOMAIN call.attempts = 1 .. n /\ \A i \in 1 .. n : call.attempts[i] \in AttemptSet
  BY <1>1
<1>3. \A i \in 1 .. n : call.attempts[i].amount \in Nat
  BY <1>2 DEF AttemptSet
<1>4. f \in [1 .. n -> Nat]
  BY <1>2, <1>3
<1> QED
  BY <1>2, <1>4, TotalOfSequence DEF Paid

\* So are all calls of a list together.
LEMMA TotalType ==
  ASSUME NEW calls \in CallList, NEW what
  PROVE  /\ Total(calls, what) \in Nat
         /\ [i \in DOMAIN calls |-> Paid(calls[i], what)] \in [1 .. Len(calls) -> Nat]
         /\ Len(calls) = 0 => Total(calls, what) = 0
<1> DEFINE f == [i \in DOMAIN calls |-> Paid(calls[i], what)]
<1>1. Len(calls) \in Nat /\ DOMAIN calls = 1 .. Len(calls)
      /\ \A i \in 1 .. Len(calls) : calls[i] \in CallSet
  BY DEF CallList
<1>2. \A i \in 1 .. Len(calls) : Paid(calls[i], what) \in Nat
  BY <1>1, PaidType
<1>3. f \in [1 .. Len(calls) -> Nat]
  BY <1>1, <1>2
<1> QED
  BY <1>1, <1>3, TotalOfSequence DEF Total

\* A call more adds what it paid.
LEMMA TotalAppended ==
  ASSUME NEW calls \in CallList, NEW call \in CallSet, NEW what
  PROVE  /\ Append(calls, call) \in CallList
         /\ Total(Append(calls, call), what) = Total(calls, what) + Paid(call, what)
<1> DEFINE n == Len(calls)
           more == Append(calls, call)
           f == [i \in DOMAIN calls |-> Paid(calls[i], what)]
           g == [i \in DOMAIN more |-> Paid(more[i], what)]
<1>1. /\ n \in Nat /\ DOMAIN calls = 1 .. n /\ more \in CallList /\ Len(more) = n + 1
      /\ DOMAIN more = 1 .. n + 1
      /\ (\A i \in 1 .. n : more[i] = calls[i]) /\ more[n + 1] = call
  BY DEF CallList
<1>2. f \in [1 .. n -> Nat] /\ g \in [1 .. n + 1 -> Nat]
  BY <1>1, TotalType
<1> HIDE DEF more
<1>3. (\A i \in 1 .. n : g[i] = f[i]) /\ g[n + 1] = Paid(call, what)
  BY <1>1
<1>4. Total(calls, what) = SumFunction(f) /\ Total(more, what) = SumFunction(g)
  BY DEF Total
<1> HIDE DEF f, g, n
<1>5. SumFunction(g) = SumFunction(f) + g[n + 1]
  BY <1>1, <1>2, <1>3, TotalOfLonger
<1> QED
  BY <1>1, <1>3, <1>4, <1>5 DEF more

\* Whether a decision was taken from a call does not change what it paid.
LEMMA PaidDecided ==
  ASSUME NEW call \in CallSet, NEW b \in BOOLEAN, NEW what
  PROVE  /\ [call EXCEPT !.decided = b] \in CallSet
         /\ Paid([call EXCEPT !.decided = b], what) = Paid(call, what)
<1>1. [call EXCEPT !.decided = b] \in CallSet
      /\ [call EXCEPT !.decided = b].attempts = call.attempts
  BY DEF CallSet
<1> QED
  BY <1>1 DEF Paid

-----------------------------------------------------------------------------
(* What an append makes of the rows, and the reader of them.                 *)

\* The rows of a journal are a sequence.
LEMMA RowsShape ==
  ASSUME NEW calls \in CallList, NEW end
  PROVE  /\ \E S : RowsOf(calls) \in Seq(S)
         /\ \E S : RowsWith(calls, end) \in Seq(S)
         /\ Len(RowsOf(calls)) = Len(calls) + 1 /\ Len(RowsWith(calls, end)) = Len(calls) + 2
         /\ DOMAIN RowsOf(calls) = 1 .. Len(calls) + 1
         /\ DOMAIN RowsWith(calls, end) = 1 .. Len(calls) + 2
<1> DEFINE n == Len(calls)
           r == RowsOf(calls)
           e == RowsWith(calls, end)
<1>1. n \in Nat
  BY DEF CallList
<1>2. DOMAIN r = 1 .. n + 1 /\ DOMAIN e = 1 .. n + 2
  BY DEF RowsOf, RowsWith
<1>3. r \in Seq({r[i] : i \in 1 .. n + 1}) /\ Len(r) = n + 1
  BY <1>1, <1>2 DEF RowsOf
<1>4. e \in Seq({e[i] : i \in 1 .. n + 2}) /\ Len(e) = n + 2
  BY <1>1, <1>2 DEF RowsWith
<1> QED
  BY <1>2, <1>3, <1>4

\* A call row more, or the terminal row.
LEMMA RowAppended ==
  ASSUME NEW calls \in CallList, NEW call \in CallSet, NEW end
  PROVE  /\ Append(RowsOf(calls), CallRow(Len(calls) + 1, call)) = RowsOf(Append(calls, call))
         /\ Append(RowsOf(calls), EndRow(Len(calls) + 1, end)) = RowsWith(calls, end)
<1> DEFINE n == Len(calls)
           r == RowsOf(calls)
           more == Append(calls, call)
<1>1. n \in Nat /\ more \in CallList /\ Len(more) = n + 1
      /\ (\A i \in 1 .. n : more[i] = calls[i]) /\ more[n + 1] = call
  BY DEF CallList
<1>2. PICK S : r \in Seq(S)
  BY RowsShape
<1>3. Len(r) = n + 1
  BY RowsShape
<1>4. ASSUME NEW row
      PROVE  Append(r, row) = [i \in 1 .. n + 2 |-> IF i = n + 2 THEN row ELSE r[i]]
  <2>1. r \in Seq(S \cup {row}) /\ row \in S \cup {row}
    BY <1>2
  <2> HIDE DEF r, n
  <2>2. /\ Append(r, row) \in Seq(S \cup {row}) /\ Len(Append(r, row)) = n + 2
        /\ Append(r, row)[n + 2] = row /\ \A i \in 1 .. n + 1 : Append(r, row)[i] = r[i]
    BY <1>1, <1>3, <2>1
  <2>3. Append(r, row) = [i \in 1 .. n + 2 |-> Append(r, row)[i]]
    <3> DEFINE a == Append(r, row)
    <3>1. a \in Seq(S \cup {row}) /\ Len(a) = n + 2
      BY <2>2
    <3> HIDE DEF a
    <3>2. a = [i \in 1 .. Len(a) |-> a[i]]
      BY <3>1
    <3> QED BY <3>1, <3>2 DEF a
  <2>4. \A i \in 1 .. n + 2 : i = n + 2 \/ i \in 1 .. n + 1
    BY <1>1
  <2> QED BY <2>2, <2>3, <2>4
<1>5. Append(r, EndRow(n + 1, end)) = RowsWith(calls, end)
  BY <1>4 DEF RowsWith
<1>6. Append(r, CallRow(n + 1, call)) = RowsOf(more)
  <2>1. RowsOf(more) = [i \in 1 .. n + 2 |-> IF i = 1 THEN HeaderRow ELSE CallRow(i - 1, more[i - 1])]
    <3>1. Len(more) + 1 = n + 2
      BY <1>1
    <3> QED BY <3>1 DEF RowsOf
  <2>2. \A i \in 1 .. n + 1 : r[i] = IF i = 1 THEN HeaderRow ELSE CallRow(i - 1, more[i - 1])
    <3> TAKE i \in 1 .. n + 1
    <3>1. i = 1 \/ i - 1 \in 1 .. n
      BY <1>1
    <3> QED BY <1>1, <3>1 DEF RowsOf
  <2>3. \A i : i = n + 2 => i # 1 /\ CallRow(i - 1, more[i - 1]) = CallRow(n + 1, call)
    <3>1. n + 2 - 1 = n + 1 /\ n + 2 # 1
      BY <1>1
    <3> QED BY <1>1, <3>1
  <2> HIDE DEF r, n, more
  <2>4. \A i \in 1 .. n + 2 : i = n + 2 \/ i \in 1 .. n + 1
    BY <1>1
  <2>5. \A i \in 1 .. n + 2 :
          (IF i = n + 2 THEN CallRow(n + 1, call) ELSE r[i])
            = IF i = 1 THEN HeaderRow ELSE CallRow(i - 1, more[i - 1])
    <3> TAKE i \in 1 .. n + 2
    <3>1. CASE i = n + 2
      BY <2>3, <3>1
    <3>2. CASE i \in 1 .. n + 1
      <4>1. i # n + 2
        BY <1>1, <3>2
      <4> QED BY <2>2, <3>2, <4>1
    <3> QED BY <2>4, <3>1, <3>2
  <2>6. Append(r, CallRow(n + 1, call))
          = [i \in 1 .. n + 2 |-> IF i = n + 2 THEN CallRow(n + 1, call) ELSE r[i]]
    BY <1>4
  <2> QED BY <2>1, <2>5, <2>6
<1> QED
  BY <1>5, <1>6

\* The header alone.
LEMMA HeaderAppended == Append(<<>>, HeaderRow) = RowsOf(<<>>) /\ <<>> \in CallList /\ Len(<<>>) = 0
BY DEF RowsOf, CallList

\* An admissible call keeps the calls checked.
LEMMA CheckedAppended ==
  ASSUME NEW calls \in CallList, Checked(calls), NEW call \in CallSet,
         CallWellFormed(call), CallAdmissible(call, calls)
  PROVE  Checked(Append(calls, call))
<1> DEFINE n == Len(calls)
           more == Append(calls, call)
<1>1. n \in Nat /\ more \in Seq(CallSet) /\ calls \in Seq(CallSet) /\ Len(more) = n + 1
      /\ (\A i \in 1 .. n : more[i] = calls[i]) /\ more[n + 1] = call
  BY DEF CallList
<1> HIDE DEF n, more
<1>2. \A k \in 0 .. n : SubSeq(more, 1, k) = SubSeq(calls, 1, k)
  <2> TAKE k \in 0 .. n
  <2>1. SubSeq(more, 1, k) = [j \in 1 .. k |-> more[j]]
    BY <1>1
  <2>2. SubSeq(calls, 1, k) = [j \in 1 .. k |-> calls[j]]
    BY <1>1 DEF n
  <2>3. \A j \in 1 .. k : more[j] = calls[j]
    BY <1>1
  <2> QED BY <2>1, <2>2, <2>3
<1>3. SubSeq(more, 1, n) = calls
  <2>1. SubSeq(calls, 1, n) = calls
    BY <1>1 DEF n
  <2> QED BY <1>1, <1>2, <2>1
<1>4. \A i \in 1 .. n : CallWellFormed(more[i]) /\ CallAdmissible(more[i], SubSeq(more, 1, i - 1))
  <2> TAKE i \in 1 .. n
  <2>1. CallWellFormed(calls[i]) /\ CallAdmissible(calls[i], SubSeq(calls, 1, i - 1))
    BY DEF Checked, n
  <2>2. i - 1 \in 0 .. n
    BY <1>1
  <2> QED BY <1>1, <1>2, <2>1, <2>2
<1>5. CallWellFormed(more[n + 1]) /\ CallAdmissible(more[n + 1], SubSeq(more, 1, n + 1 - 1))
  <2>1. n + 1 - 1 = n
    BY <1>1
  <2> QED BY <1>1, <1>3, <2>1
<1>6. \A i \in 1 .. n + 1 : i \in 1 .. n \/ i = n + 1
  BY <1>1
<1>7. \A i \in 1 .. Len(more) :
        CallWellFormed(more[i]) /\ CallAdmissible(more[i], SubSeq(more, 1, i - 1))
  BY <1>1, <1>4, <1>5, <1>6
<1> QED
  BY <1>7 DEF Checked, more

\* Where the rows from the second on are those of some calls, and no others are
\* call rows, the reader finds those calls.
LEMMA CallsRead ==
  ASSUME NEW calls \in CallList, NEW f, NEW m \in Nat, m > Len(calls),
         DOMAIN f.rows = 1 .. m,
         \A i \in 1 .. m : f.rows[i].kind = "call" <=> i \in 2 .. Len(calls) + 1,
         \A i \in 1 .. Len(calls) : f.rows[i + 1].payload = calls[i]
  PROVE  CallsOn(f) = calls
<1> DEFINE n == Len(calls)
           called == {i \in DOMAIN f.rows : f.rows[i].kind = "call"}
           Nth(k) == CHOOSE i \in called : Cardinality({j \in called : j <= i}) = k
<1>1. n \in Nat /\ calls = [i \in 1 .. n |-> calls[i]]
  BY DEF CallList
<1>2. called = 2 .. n + 1
  BY <1>1
<1>3. \A i \in Nat : i >= 1 => Cardinality(2 .. i) = i - 1
  <2> TAKE i \in Nat
  <2> HAVE i >= 1
  <2>1. Cardinality(2 .. i) = IF 2 > i THEN 0 ELSE i - 2 + 1
    BY FS_Interval
  <2>2. (IF 2 > i THEN 0 ELSE i - 2 + 1) = i - 1
    OBVIOUS
  <2> QED BY <2>1, <2>2
<1> HIDE DEF called, n
<1>4. Cardinality(called) = n
  <2> DEFINE k == n + 1
  <2>1. k \in Nat /\ k >= 1 /\ k - 1 = n
    BY <1>1
  <2>2. called = 2 .. k
    BY <1>2
  <2> HIDE DEF k
  <2> QED BY <1>3, <2>1, <2>2
<1>5. \A i \in called : Cardinality({j \in called : j <= i}) = i - 1
  <2> TAKE i \in called
  <2>1. {j \in called : j <= i} = 2 .. i /\ i \in Nat /\ i >= 1
    BY <1>1, <1>2
  <2> QED BY <1>3, <2>1
<1>6. \A k \in 1 .. n : Nth(k) = k + 1
  <2> TAKE k \in 1 .. n
  <2>1. k + 1 \in called /\ k + 1 - 1 = k
    BY <1>1, <1>2
  <2>2. \A i \in called : i - 1 = k => i = k + 1
    BY <1>1, <1>2
  <2> QED BY <1>5, <2>1, <2>2
<1>7. CallsOn(f) = [k \in 1 .. Cardinality(called) |-> f.rows[Nth(k)].payload]
  BY DEF CallsOn, called
<1> HIDE DEF Nth
<1>8. CallsOn(f) = [k \in 1 .. n |-> calls[k]]
  BY <1>4, <1>6, <1>7 DEF n
<1> QED
  BY <1>1, <1>8

\* The rows one by one.
LEMMA RowFacts ==
  ASSUME NEW calls \in CallList, NEW end
  PROVE  /\ \A i \in 1 .. Len(calls) + 1 :
              /\ RowsOf(calls)[i].index = i - 1
              /\ RowsOf(calls)[i].kind = IF i = 1 THEN "header" ELSE "call"
              /\ RowsWith(calls, end)[i] = RowsOf(calls)[i]
         /\ \A i \in 1 .. Len(calls) : RowsOf(calls)[i + 1].payload = calls[i]
         /\ RowsWith(calls, end)[Len(calls) + 2] = EndRow(Len(calls) + 1, end)
<1> DEFINE n == Len(calls)
<1>1. n \in Nat
  BY DEF CallList
<1>2. \A i \in 1 .. n + 1 :
        RowsOf(calls)[i] = IF i = 1 THEN HeaderRow ELSE CallRow(i - 1, calls[i - 1])
  BY DEF RowsOf
<1> HIDE DEF n
<1>3. \A i \in 1 .. n + 1 : RowsOf(calls)[i].index = i - 1
                              /\ RowsOf(calls)[i].kind = IF i = 1 THEN "header" ELSE "call"
  <2> TAKE i \in 1 .. n + 1
  <2>1. CASE i = 1
    <3>1. i - 1 = 0
      BY <2>1
    <3> QED BY <1>2, <2>1, <3>1 DEF HeaderRow
  <2>2. CASE i # 1
    <3>1. RowsOf(calls)[i] = CallRow(i - 1, calls[i - 1])
      BY <1>2, <2>2
    <3> QED BY <2>2, <3>1 DEF CallRow
  <2> QED BY <2>1, <2>2
<1>4. \A i \in 1 .. n : RowsOf(calls)[i + 1].payload = calls[i]
  <2> TAKE i \in 1 .. n
  <2>1. i + 1 \in 1 .. n + 1 /\ i + 1 # 1 /\ i + 1 - 1 = i
    BY <1>1
  <2>2. RowsOf(calls)[i + 1] = CallRow(i, calls[i])
    BY <1>2, <2>1
  <2> QED BY <2>2 DEF CallRow
<1>5. \A i \in 1 .. n + 1 : i \in 1 .. n + 2 /\ i # n + 2
  BY <1>1
<1>6. n + 2 \in 1 .. n + 2
  BY <1>1
<1>7. RowsWith(calls, end)
        = [i \in 1 .. n + 2 |-> IF i = n + 2 THEN EndRow(n + 1, end) ELSE RowsOf(calls)[i]]
  BY DEF RowsWith, n
<1> QED
  BY <1>3, <1>4, <1>5, <1>6, <1>7 DEF n

\* A journal that has not ended proves its calls.
LEMMA ReadsKept ==
  ASSUME NEW calls \in CallList, Checked(calls), NEW f, f.rows = RowsOf(calls)
  PROVE  CallsOn(f) = calls /\ Verdict(f) = "incomplete"
<1> DEFINE n == Len(calls)
<1>1. n \in Nat /\ DOMAIN calls = 1 .. n
  BY DEF CallList
<1>2. DOMAIN f.rows = 1 .. n + 1 /\ Len(f.rows) = n + 1
  BY RowsShape
<1>3. \A i \in 1 .. n + 1 : /\ f.rows[i].index = i - 1
                            /\ f.rows[i].kind = IF i = 1 THEN "header" ELSE "call"
  BY RowFacts
<1>4. \A i \in 1 .. n : f.rows[i + 1].payload = calls[i]
  BY RowFacts
<1>5. \A i \in 1 .. n + 1 : f.rows[i].kind = "call" <=> i \in 2 .. n + 1
  <2>1. \A i \in 1 .. n + 1 : i = 1 \/ i \in 2 .. n + 1
    BY <1>1
  <2> QED BY <1>1, <1>3, <2>1
<1>6. CallsOn(f) = calls
  <2>1. n + 1 \in Nat /\ n + 1 > n
    BY <1>1
  <2> QED BY <1>2, <1>4, <1>5, <2>1, CallsRead
<1>7. \A i \in DOMAIN f.rows : Follows(f.rows, i)
  BY <1>2, <1>3 DEF Follows
<1>8. f.rows # <<>>
  <2>1. Len(f.rows) # 0
    BY <1>1, <1>2
  <2> QED BY <2>1
<1>9. ~HasTerminal(f)
  BY <1>2, <1>3 DEF HasTerminal
<1>10. \A i \in DOMAIN calls :
         CallWellFormed(calls[i]) /\ CallAdmissible(calls[i], SubSeq(calls, 1, i - 1))
  BY <1>1 DEF Checked
<1> QED
  BY <1>6, <1>7, <1>8, <1>9, <1>10 DEF Verdict

\* One that has ended proves its ending too.
LEMMA ReadsEnded ==
  ASSUME NEW calls \in CallList, Checked(calls), NEW end, NEW f, f.rows = RowsWith(calls, end),
         f.tail # "fragment", TerminalAdmissible(end.ending, end.code, calls),
         end.totals = Totals(calls)
  PROVE  CallsOn(f) = calls /\ Verdict(f) = end.ending
<1> DEFINE n == Len(calls)
<1>1. n \in Nat /\ DOMAIN calls = 1 .. n
  BY DEF CallList
<1>2. DOMAIN f.rows = 1 .. n + 2 /\ Len(f.rows) = n + 2
  BY RowsShape
<1>3. \A i \in 1 .. n + 1 : /\ f.rows[i].index = i - 1
                            /\ f.rows[i].kind = IF i = 1 THEN "header" ELSE "call"
  BY RowFacts
<1>4. f.rows[n + 2] = EndRow(n + 1, end)
  BY RowFacts
<1>5. /\ f.rows[n + 2].index = n + 1 /\ f.rows[n + 2].kind = "terminal"
      /\ f.rows[n + 2].payload = end
  BY <1>4 DEF EndRow
<1>6. \A i \in 1 .. n : f.rows[i + 1].payload = calls[i]
  <2>1. \A i \in 1 .. n : i + 1 \in 1 .. n + 1
    BY <1>1
  <2> QED BY <2>1, RowFacts
<1>7. \A i \in 1 .. n + 2 : i = n + 2 \/ (i \in 1 .. n + 1 /\ i # n + 2)
  BY <1>1
<1>8. \A i \in 1 .. n + 2 : f.rows[i].kind = "call" <=> i \in 2 .. n + 1
  <2>1. \A i \in 1 .. n + 1 : i = 1 \/ i \in 2 .. n + 1
    BY <1>1
  <2>2. n + 2 \notin 2 .. n + 1 /\ 1 \notin 2 .. n + 1
    BY <1>1
  <2>3. \A i \in 2 .. n + 1 : i # 1
    BY <1>1
  <2> QED BY <1>3, <1>5, <1>7, <2>1, <2>2, <2>3
<1>9. CallsOn(f) = calls
  <2>1. n + 2 \in Nat /\ n + 2 > n
    BY <1>1
  <2> QED BY <1>2, <1>6, <1>8, <2>1, CallsRead
<1>10. \A i \in DOMAIN f.rows : Follows(f.rows, i)
  <2> SUFFICES ASSUME NEW i \in 1 .. n + 2 PROVE Follows(f.rows, i)
    BY <1>2
  <2>1. CASE i = n + 2
    <3>1. n + 2 - 1 = n + 1 /\ n + 2 # 1
      BY <1>1
    <3> QED BY <1>2, <1>5, <2>1, <3>1 DEF Follows
  <2>2. CASE i \in 1 .. n + 1
    BY <1>3, <2>2 DEF Follows
  <2> QED BY <1>7, <2>1, <2>2
<1>11. f.rows # <<>>
  <2>1. Len(f.rows) # 0
    BY <1>1, <1>2
  <2> QED BY <2>1
<1>12. HasTerminal(f) /\ f.rows[Len(f.rows)].payload = end
  <2>1. n + 2 \in 1 .. n + 2
    BY <1>1
  <2> QED BY <1>2, <1>5, <2>1 DEF HasTerminal
<1>13. \A i \in DOMAIN calls :
         CallWellFormed(calls[i]) /\ CallAdmissible(calls[i], SubSeq(calls, 1, i - 1))
  BY <1>1 DEF Checked
<1> QED
  BY <1>9, <1>10, <1>11, <1>12, <1>13 DEF Verdict

\* An empty journal proves nothing.
LEMMA ReadsNothing ==
  ASSUME NEW f, f.rows = <<>>
  PROVE  CallsOn(f) = <<>> /\ Verdict(f) = "refused"
<1>1. DOMAIN f.rows = 1 .. 0 /\ <<>> \in CallList /\ Len(<<>>) = 0 /\ 1 .. 0 = {} /\ 2 .. 1 = {}
  BY DEF CallList
<1>2. {i \in DOMAIN f.rows : f.rows[i].kind = "call"} = {}
  BY <1>1
<1>3. Cardinality({}) = 0
  BY FS_EmptySet
<1>4. CallsOn(f) = <<>>
  BY <1>1, <1>2, <1>3 DEF CallsOn
<1> QED
  BY <1>4 DEF Verdict

-----------------------------------------------------------------------------
(* The properties, from what the next state's file states.                   *)

\* What a turn can be billed in all is a natural.
LEMMA SlackType ==
  ASSUME NEW s \in Sizes
  PROVE  MaxAttempts * Reservation[s] \in Nat /\ MaxOverrun \in Nat
<1>1. MaxAttempts \in Nat /\ Reservation[s] \in Nat /\ MaxOverrun \in Nat
  BY PriceType, ExecutorAssumption
<1>2. \A m, p \in Nat : m * p \in Nat
  OBVIOUS
<1> QED
  BY <1>1, <1>2

\* A journal of some calls and no ending.
LEMMA PrefixTrue ==
  ASSUME NEW calls \in CallList, Checked(calls), file'.rows = RowsOf(calls), bound' = NoBinding,
         (run' # "dead" /\ ~writer'.poisoned) =>
           writer'.next = Len(calls) + 1 /\ writer'.calls = calls,
         size' \in Sizes, charged' \in Nat,
         charged' <= Total(calls, "measured") + Total(calls, "forfeited") + Slack'
  PROVE  (JournalIsTrue /\ SpendIsOnFile)'
<1>1. CallsOn(file') = calls /\ Verdict(file') = "incomplete"
  BY ReadsKept
<1>2. Len(file'.rows) = Len(calls) + 1
  BY RowsShape
<1>3. /\ Totals(calls).measured = Total(calls, "measured")
      /\ Totals(calls).forfeited = Total(calls, "forfeited")
  BY DEF Totals
<1>5. JournalIsTrue'
  BY <1>1, <1>2 DEF JournalIsTrue, JournalIsReadable, EndingIsTrue, BindingIsDurable, Endings
<1>6. SpendIsOnFile'
  <2>1. charged' <= Totals(CallsOn(file')).measured + Totals(CallsOn(file')).forfeited
                      + MaxAttempts * Price' + MaxOverrun
    <3>1. charged' <= Total(calls, "measured") + Total(calls, "forfeited")
                        + (MaxAttempts * Price' + MaxOverrun)
      BY DEF Slack
    <3>2. /\ Total(calls, "measured") \in Nat /\ Total(calls, "forfeited") \in Nat
          /\ MaxAttempts * Price' \in Nat /\ MaxOverrun \in Nat
      BY TotalType, SlackType DEF Price
    <3>3. \A k \in Nat : charged' <= Total(calls, "measured") + Total(calls, "forfeited") + (k + MaxOverrun)
            => charged' <= Total(calls, "measured") + Total(calls, "forfeited") + k + MaxOverrun
      BY ONLY <3>2, charged' \in Nat
    <3>4. charged' <= Total(calls, "measured") + Total(calls, "forfeited")
                        + MaxAttempts * Price' + MaxOverrun
      BY <3>1, <3>2, <3>3
    <3> QED BY <1>1, <1>3, <3>4
  <2> QED BY <1>1, <2>1 DEF SpendIsOnFile
<1> QED
  BY <1>5, <1>6

\* A journal of some calls and the ending of a run that had it.
LEMMA EndedTrue ==
  ASSUME NEW calls \in CallList, Checked(calls), NEW end, end.ending \in Endings,
         TerminalAdmissible(end.ending, end.code, calls), end.totals = Totals(calls),
         file'.rows = RowsWith(calls, end), file'.tail # "fragment", bound' = NoBinding,
         (run' # "dead" /\ ~writer'.poisoned) =>
           writer'.next = Len(calls) + 2 /\ writer'.calls = calls,
         run' \in {"sealed", "over", "dead"}, how' = end.ending,
         how' \in {"scored", "excluded"} =>
           /\ guard'.measured = Total(calls, "measured")
           /\ guard'.forfeited = Total(calls, "forfeited")
           /\ charged' <= guard'.measured + guard'.forfeited,
         size' \in Sizes, charged' \in Nat,
         charged' <= Total(calls, "measured") + Total(calls, "forfeited") + Slack'
  PROVE  (JournalIsTrue /\ SpendIsOnFile)' /\ Verdict(file') = how'
<1>1. CallsOn(file') = calls /\ Verdict(file') = how'
  BY ReadsEnded
<1>2. Len(file'.rows) = Len(calls) + 2
  BY RowsShape
<1>3. /\ Totals(calls).measured = Total(calls, "measured")
      /\ Totals(calls).forfeited = Total(calls, "forfeited")
  BY DEF Totals
<1>4. how' # "refused"
  BY DEF Endings
<1>5. JournalIsTrue'
  BY <1>1, <1>2, <1>4 DEF JournalIsTrue, JournalIsReadable, EndingIsTrue, BindingIsDurable
<1>6. SpendIsOnFile'
  <2>1. charged' <= Totals(CallsOn(file')).measured + Totals(CallsOn(file')).forfeited
                      + MaxAttempts * Price' + MaxOverrun
    <3>1. charged' <= Total(calls, "measured") + Total(calls, "forfeited")
                        + (MaxAttempts * Price' + MaxOverrun)
      BY DEF Slack
    <3>2. /\ Total(calls, "measured") \in Nat /\ Total(calls, "forfeited") \in Nat
          /\ MaxAttempts * Price' \in Nat /\ MaxOverrun \in Nat
      BY TotalType, SlackType DEF Price
    <3>3. \A k \in Nat : charged' <= Total(calls, "measured") + Total(calls, "forfeited") + (k + MaxOverrun)
            => charged' <= Total(calls, "measured") + Total(calls, "forfeited") + k + MaxOverrun
      BY ONLY <3>2, charged' \in Nat
    <3>4. charged' <= Total(calls, "measured") + Total(calls, "forfeited")
                        + MaxAttempts * Price' + MaxOverrun
      BY <3>1, <3>2, <3>3
    <3> QED BY <1>1, <1>3, <3>4
  <2> QED BY <1>1, <1>3, <2>1 DEF SpendIsOnFile
<1> QED
  BY <1>1, <1>5, <1>6

\* A journal with no header, before anything was billed.
LEMMA NothingTrue ==
  ASSUME file'.rows = <<>>, bound' = NoBinding, writer'.next = 0, writer'.calls = <<>>,
         charged' = 0, size' \in Sizes
  PROVE  (JournalIsTrue /\ SpendIsOnFile)'
<1>1. CallsOn(file') = <<>> /\ Verdict(file') = "refused"
  BY ReadsNothing
<1>2. <<>> \in CallList /\ Len(<<>>) = 0
  BY HeaderAppended
<1>3. Totals(<<>>).measured = 0 /\ Totals(<<>>).forfeited = 0
  BY <1>2, TotalType DEF Totals
<1>4. MaxAttempts * Price' \in Nat /\ MaxOverrun \in Nat
  BY SlackType DEF Price
<1>5. JournalIsTrue'
  BY <1>1, <1>2 DEF JournalIsTrue, JournalIsReadable, EndingIsTrue, BindingIsDurable, Endings
<1>6. SpendIsOnFile'
  <2>1. \A k \in Nat : 0 <= 0 + 0 + k + MaxOverrun
    BY <1>4
  <2>2. 0 <= 0 + 0 + MaxAttempts * Price' + MaxOverrun
    BY <1>4, <2>1
  <2> QED BY <1>1, <1>3, <2>2 DEF SpendIsOnFile, Endings
<1> QED
  BY <1>5, <1>6

\* Nothing on file or of what it is compared with changes.
LEMMA SameTrue ==
  ASSUME JournalIsTrue, SpendIsOnFile, UNCHANGED <<file, size, charged, how>>,
         guard'.measured = guard.measured, guard'.forfeited = guard.forfeited,
         writer'.next = writer.next, writer'.calls = writer.calls,
         writer'.poisoned = writer.poisoned \/ run' = "dead",
         run = "dead" => run' = "dead",
         \/ bound' = bound
         \/ /\ Verdict(file) = "scored" /\ bound'.tip = Len(file.rows)
            /\ bound'.calls = CallsOn(file),
         \/ run' \in {"finishing", "over", "dead"}
         \/ Verdict(file) \notin Endings
  PROVE  (JournalIsTrue /\ SpendIsOnFile)'
<1>1. CallsOn(file') = CallsOn(file) /\ Verdict(file') = Verdict(file) /\ Price' = Price
      /\ file'.rows = file.rows
  BY DEF Price
<1>2. JournalIsTrue'
  <2>1. JournalIsReadable'
    BY <1>1 DEF JournalIsTrue, JournalIsReadable
  <2>2. EndingIsTrue'
    BY <1>1 DEF JournalIsTrue, EndingIsTrue
  <2>3. BindingIsDurable'
    BY <1>1 DEF JournalIsTrue, BindingIsDurable
  <2> QED BY <2>1, <2>2, <2>3 DEF JournalIsTrue
<1>3. SpendIsOnFile'
  BY <1>1 DEF SpendIsOnFile
<1> QED
  BY <1>2, <1>3

-----------------------------------------------------------------------------
(* Every step of the episode keeps the invariant.                            *)

\* Before the journal is opened.
LEMMA EInvInit == EpisodeInit => EInv
<1> SUFFICES ASSUME EpisodeInit PROVE EInv
  OBVIOUS
<1>1. /\ Init /\ IInv /\ run = "fresh" /\ pending = NoCall /\ stop = "none"
      /\ writer = NewWriter /\ file = EmptyFile /\ bound = NoBinding
  BY IInvInit DEF EpisodeInit
<1>2. /\ pc = "idle" /\ size \in Sizes /\ charged = 0 /\ charged \in Nat
      /\ guard.measured = 0 /\ guard.forfeited = 0
  BY <1>1 DEF Init, NewGuard
<1>3. FreshInv
  BY <1>1, <1>2 DEF FreshInv, NotRefused
<1>4. CallsOn(file) = <<>> /\ Verdict(file) = "refused"
  BY <1>1, ReadsNothing DEF EmptyFile
<1>5. JournalIsTrue
  <2>1. file.rows = <<>> /\ writer.next = 0 /\ writer.calls = <<>> /\ Len(<<>>) = 0
    BY <1>1 DEF EmptyFile, NewWriter
  <2> QED BY <1>1, <1>4, <2>1 DEF JournalIsTrue, JournalIsReadable, EndingIsTrue, BindingIsDurable,
                             Endings
<1>6. SpendIsOnFile
  <2>1. MaxAttempts * Price \in Nat /\ MaxOverrun \in Nat
    BY <1>2, SlackType DEF Price
  <2>2. \A k \in Nat : 0 <= 0 + 0 + k + MaxOverrun
    BY <2>1
  <2>3. 0 <= 0 + 0 + MaxAttempts * Price + MaxOverrun
    BY <2>1, <2>2
  <2>4. Totals(<<>>).measured = 0 /\ Totals(<<>>).forfeited = 0
    BY HeaderAppended, TotalType DEF Totals
  <2> QED BY <1>2, <1>4, <2>3, <2>4 DEF SpendIsOnFile, Endings
<1> QED
  BY <1>1, <1>2, <1>3, <1>5, <1>6
     DEF EInv, BetweenInv, DecidingInv, AnsweredInv, RaisedInv, FinishingInv, SealedInv

\* The executor's invariant stands where none of its variables changes.
LEMMA ExecutorStands == ASSUME IInv, UNCHANGED vars PROVE IInv'
BY DEF vars, turnVars, IInv, LocalsOK, BudgetInv, Remaining, HoldingInv, TokenInv, MoneyInv,
       EvidenceInv, Escaped

\* While nothing is in flight the guard covers what was billed.
LEMMA IdleCovered == ASSUME IInv, pc = "idle" PROVE Covered /\ guard.events = <<>>
BY DEF IInv, MoneyInv, EvidenceInv, Escaped, Covered

\* Money that is booked and covers the bill exceeds the file's by no more than a turn's.
LEMMA BookedWithin ==
  ASSUME Booked, Covered, pending = NoCall, writer.calls \in CallList, charged \in Nat, size \in Sizes
  PROVE  Within(0) /\ Within(Slack)
<1>1. charged <= OnFile("measured") + OnFile("forfeited")
  <2>1. OnFile("measured") \in Nat /\ OnFile("forfeited") \in Nat
    BY TotalType DEF OnFile
  <2> HIDE DEF OnFile
  <2> QED BY <2>1 DEF Booked, Covered, Open
<1>2. Slack \in Nat
  BY SlackType DEF Slack, Price
<1>3. OnFile("measured") \in Nat /\ OnFile("forfeited") \in Nat
  BY TotalType DEF OnFile
<1> HIDE DEF Slack, OnFile
<1> QED
  BY <1>1, <1>2, <1>3 DEF Within

\* The properties of a run whose journal is whole.
LEMMA WholeTrue ==
  ASSUME Whole', Within(Slack)', size' \in Sizes, charged' \in Nat
  PROVE  (JournalIsTrue /\ SpendIsOnFile)'
<1>1. /\ writer'.calls \in CallList /\ Checked(writer'.calls) /\ file'.rows = RowsOf(writer'.calls)
      /\ bound' = NoBinding /\ writer'.next = Len(writer'.calls) + 1
  BY DEF Whole, WriterSet
<1>2. charged' <= Total(writer'.calls, "measured") + Total(writer'.calls, "forfeited") + Slack'
  BY DEF Within, OnFile
<1> HIDE DEF Slack
<1> QED
  BY <1>1, <1>2, PrefixTrue

\* begin: the header is written, fails, or is cut short by the end of the process.
LEMMA OpenKeeps == EInv /\ OpenJournal => EInv'
<1> SUFFICES ASSUME EInv, OpenJournal PROVE EInv'
  OBVIOUS
<1> DEFINE row == Row(writer, "header", <<>>)
<1>1. /\ run = "fresh" /\ IInv /\ pc = "idle" /\ guard.measured = 0 /\ guard.forfeited = 0
      /\ charged = 0 /\ writer = NewWriter /\ file = EmptyFile /\ pending = NoCall
      /\ bound = NoBinding /\ NotRefused /\ size \in Sizes /\ charged \in Nat
  BY DEF EInv, FreshInv, OpenJournal
<1>2. UNCHANGED <<vars, pending, stop, bound>>
  BY DEF OpenJournal
<1>3. row = HeaderRow
  BY <1>1 DEF Row, NewWriter, HeaderRow
<1>4. size' = size /\ charged' = charged /\ guard' = guard /\ pc' = pc
  BY <1>2 DEF vars, turnVars
<1>5. file.rows = <<>> /\ file.tail = "ended"
  BY <1>1 DEF EmptyFile
<1>6. ASSUME NEW what \in Remains
      PROVE  LET left == Written(file, row, what)
             IN /\ left.rows = <<>> \/ left.rows = RowsOf(<<>>)
                /\ what = "whole" => left.rows = RowsOf(<<>>) /\ left.tail = "ended"
  BY <1>3, <1>5, HeaderAppended DEF Written, Remains
<1>7. /\ <<>> \in CallList /\ Len(<<>>) = 0 /\ Checked(<<>>)
      /\ Total(<<>>, "measured") = 0 /\ Total(<<>>, "forfeited") = 0
  BY HeaderAppended, TotalType DEF Checked
<1>8. 0 <= 0 + 0 + Slack' /\ Slack' \in Nat
  <2>1. Slack' \in Nat
    BY <1>1, <1>4, SlackType DEF Slack, Price
  <2>2. \A k \in Nat : 0 <= 0 + 0 + k
    OBVIOUS
  <2> HIDE DEF Slack
  <2> QED BY <2>1, <2>2
<1>9. ASSUME file'.rows = <<>> \/ file'.rows = RowsOf(<<>>), writer'.calls = <<>>,
             writer'.next = IF run' = "between" THEN 1 ELSE 0,
             run' = "between" => file'.rows = RowsOf(<<>>),
             run' # "dead" => writer'.poisoned \/ run' = "between"
      PROVE  (JournalIsTrue /\ SpendIsOnFile)'
  <2>1. CASE file'.rows = <<>> /\ run' # "between"
    BY <1>1, <1>2, <1>4, <1>9, <2>1, NothingTrue
  <2>2. CASE file'.rows = RowsOf(<<>>)
    <3>1. (run' # "dead" /\ ~writer'.poisoned) =>
            writer'.next = Len(<<>>) + 1 /\ writer'.calls = <<>>
      BY <1>7, <1>9
    <3>2. charged' <= Total(<<>>, "measured") + Total(<<>>, "forfeited") + Slack'
      BY <1>1, <1>4, <1>7, <1>8
    <3> HIDE DEF Slack
    <3> QED BY <1>1, <1>2, <1>4, <1>7, <2>2, <3>1, <3>2, PrefixTrue
  <2> QED BY <1>9, <2>1, <2>2
<1>10. CASE Durably(row, writer, "between")
  <2>1. run' = "between" /\ file' = Written(file, row, "whole") /\ writer' = Appended(writer)
    BY <1>10 DEF Durably
  <2>2. file'.rows = RowsOf(<<>>) /\ file'.tail = "ended"
    BY <1>6, <2>1 DEF Remains
  <2>3. writer' = [calls |-> <<>>, next |-> 1, terminal |-> "none", poisoned |-> FALSE, closed |-> FALSE]
    <3>1. writer.next = 0 /\ 0 + 1 = 1
      BY <1>1 DEF NewWriter
    <3>2. writer' = [writer EXCEPT !.next = 1]
      BY <2>1, <3>1 DEF Appended
    <3> QED BY <1>1, <3>2 DEF NewWriter
  <2>4. writer' \in WriterSet /\ writer'.calls = <<>> /\ writer'.next = 1 /\ ~writer'.poisoned
    BY <1>7, <2>3 DEF WriterSet
  <2>5. Whole'
    BY <1>1, <1>2, <1>7, <2>2, <2>4 DEF Whole
  <2>6. Booked'
    BY <1>1, <1>2, <1>4, <1>7, <2>4 DEF Booked, OnFile, Open
  <2>7. IInv'
    BY <1>1, <1>2, ExecutorStands
  <2>8. BetweenInv'
    BY <1>1, <1>2, <1>4, <2>5, <2>6, <2>7 DEF BetweenInv, NotRefused
  <2>9. (JournalIsTrue /\ SpendIsOnFile)'
    BY <1>9, <2>1, <2>2, <2>4
  <2> QED BY <1>1, <1>4, <2>1, <2>8, <2>9
             DEF EInv, FreshInv, DecidingInv, AnsweredInv, RaisedInv, FinishingInv, SealedInv
<1>11. CASE Fails(row, "over")
  <2>1. /\ run' = "over" /\ writer' = Poisoned(writer)
        /\ \E what \in Remains : file' \in {RolledBack(file, row, what), Written(file, row, what)}
    BY <1>11 DEF Fails
  <2>2. file'.rows = <<>> \/ file'.rows = RowsOf(<<>>)
    BY <1>5, <1>6, <2>1 DEF RolledBack
  <2>3. writer'.calls = <<>> /\ writer'.next = 0 /\ writer'.poisoned
    BY <1>1, <2>1 DEF Poisoned, NewWriter
  <2>4. (JournalIsTrue /\ SpendIsOnFile)'
    BY <1>9, <2>1, <2>2, <2>3
  <2> QED BY <1>1, <1>4, <2>1, <2>4
             DEF EInv, FreshInv, BetweenInv, DecidingInv, AnsweredInv, RaisedInv, FinishingInv, SealedInv
<1>12. CASE Dies(row)
  <2>1. run' = "dead" /\ writer' = writer /\ \E what \in Remains : file' = Written(file, row, what)
    BY <1>12 DEF Dies
  <2>2. file'.rows = <<>> \/ file'.rows = RowsOf(<<>>)
    BY <1>6, <2>1
  <2>3. writer'.calls = <<>> /\ writer'.next = 0
    BY <1>1, <2>1 DEF NewWriter
  <2>4. (JournalIsTrue /\ SpendIsOnFile)'
    BY <1>9, <2>1, <2>2, <2>3
  <2> QED BY <1>1, <1>4, <2>1, <2>4
             DEF EInv, FreshInv, BetweenInv, DecidingInv, AnsweredInv, RaisedInv, FinishingInv, SealedInv
<1> QED
  BY <1>10, <1>11, <1>12 DEF OpenJournal

-----------------------------------------------------------------------------
(* Steps between two turns.                                                  *)

\* What the events of the guard add up to.
LEMMA WorthType ==
  ASSUME NEW events \in EventLists, NEW what
  PROVE  /\ Worth(events, what) \in Nat
         /\ events = <<>> => Worth(events, what) = 0
<1> DEFINE f == [i \in DOMAIN events |-> IF events[i].kind = what THEN events[i].amount ELSE 0]
<1>1. /\ Len(events) \in Nat /\ DOMAIN events = 1 .. Len(events)
      /\ \A i \in 1 .. Len(events) : events[i].amount \in Nat
  <2>1. /\ Len(events) \in Nat /\ DOMAIN events = 1 .. Len(events)
        /\ \A i \in 1 .. Len(events) : events[i] \in Events
    BY DEF EventLists
  <2> QED BY <2>1 DEF Events
<1>2. f \in [1 .. Len(events) -> Nat]
  BY <1>1
<1>3. events = <<>> => Len(events) = 0
  OBVIOUS
<1> QED
  BY <1>1, <1>2, <1>3, TotalOfSequence DEF Worth

\* Whatever is billed to no attempt is nothing.
LEMMA BillOfNone ==
  ASSUME NEW s \in Sizes
  PROVE  0 * Reservation[s] = 0
<1>1. Reservation[s] \in Nat
  BY PriceType
<1>2. \A p \in Nat : 0 * p = 0
  OBVIOUS
<1> QED
  BY <1>1, <1>2

\* Attempt by attempt, the bill of a turn grows by its price.
LEMMA BillStep ==
  ASSUME NEW s \in Sizes, NEW k \in Nat
  PROVE  /\ k * Reservation[s] \in Nat /\ Reservation[s] \in Nat /\ MaxOverrun \in Nat
         /\ (k + 1) * Reservation[s] = k * Reservation[s] + Reservation[s]
         /\ k <= MaxAttempts => k * Reservation[s] <= MaxAttempts * Reservation[s]
<1>1. Reservation[s] \in Nat /\ MaxAttempts \in Nat /\ MaxOverrun \in Nat
  BY PriceType, ExecutorAssumption
<1>2. \A a, p \in Nat : a * p \in Nat /\ (a + 1) * p = a * p + p
  OBVIOUS
<1>3. \A a, b, p \in Nat : a <= b => a * p <= b * p
  <2> TAKE a, b, p \in Nat
  <2> HAVE a <= b
  <2>1. PICK d \in Nat : b = a + d
    <3>1. b - a \in Nat /\ b = a + (b - a)
      OBVIOUS
    <3> QED BY <3>1
  <2>2. (a + d) * p = a * p + d * p /\ d * p \in Nat /\ a * p \in Nat
    OBVIOUS
  <2> QED BY <2>1, <2>2
<1> QED
  BY <1>1, <1>2, <1>3

\* What a turn can be billed never exceeds the slack of its run.
LEMMA TurnWithin == IInv /\ TurnInv /\ writer.calls \in CallList => Within(Slack)
<1> SUFFICES ASSUME IInv, TurnInv, writer.calls \in CallList PROVE Within(Slack)
  OBVIOUS
<1>1. /\ size \in Sizes /\ charged \in Nat /\ attempts \in 0 .. MaxAttempts /\ MaxAttempts \in Nat
  BY ExecutorAssumption DEF IInv, LocalsOK
<1>2. Settled \in Nat /\ Settled <= MaxAttempts
  BY <1>1 DEF TurnInv, Settled
<1>3. /\ Bill(Settled) \in Nat /\ MaxOverrun \in Nat /\ Bill(Settled) <= Bill(MaxAttempts)
      /\ Bill(MaxAttempts) \in Nat
  BY <1>1, <1>2, BillStep DEF Bill, Price
<1>4. OnFile("measured") \in Nat /\ OnFile("forfeited") \in Nat
  BY TotalType DEF OnFile
<1>5. PICK m \in {0, MaxOverrun} : charged <= OnFile("measured") + OnFile("forfeited") + (Bill(Settled) + m)
  BY DEF TurnInv, Within
<1>6. \A A, B, x, y, k, h \in Nat :
        (h <= A + B + (x + m) /\ x <= y /\ m <= k /\ m \in Nat) => h <= A + B + (y + k)
  OBVIOUS
<1>7. Slack = Bill(MaxAttempts) + MaxOverrun /\ m \in Nat /\ m <= MaxOverrun
  BY <1>3 DEF Slack, Bill
<1> HIDE DEF Bill, Slack, OnFile
<1> QED
  BY <1>1, <1>3, <1>4, <1>5, <1>6, <1>7 DEF Within

\* A turn begins with nothing in hand.
LEMMA StartTurnKeeps == EInv /\ StartTurn => EInv'
<1> SUFFICES ASSUME EInv, StartTurn PROVE EInv'
  OBVIOUS
<1>1. /\ run = "between" /\ IInv /\ pc = "idle" /\ Whole /\ pending = NoCall /\ Booked /\ NotRefused
      /\ size \in Sizes /\ charged \in Nat
  BY DEF EInv, BetweenInv, StartTurn
<1>2. /\ Begin /\ run' = "deciding"
      /\ UNCHANGED <<how, code, failure, pending, stop, writer, file, bound>>
  BY DEF StartTurn, evidenceVars
<1>3. /\ pc' = "top" /\ attempts' = 0 /\ record' = <<>> /\ reason' = "none" /\ size' \in Sizes
      /\ guard' = guard /\ charged' = charged
  BY <1>2 DEF Begin
<1>4. IInv'
  BY <1>1, <1>2, LocalKeeps
<1>5. Covered /\ guard.events = <<>>
  BY <1>1, IdleCovered
<1>6. writer.calls \in CallList /\ writer'.calls = writer.calls
  BY <1>1, <1>2 DEF Whole, WriterSet
<1>7. Within(0)
  BY <1>1, <1>5, <1>6, BookedWithin
<1>8. Whole'
  BY <1>1, <1>2 DEF Whole
<1>9. Total(writer.calls, "measured") \in Nat /\ Total(writer.calls, "forfeited") \in Nat
  BY <1>6, TotalType
<1>10. TurnInv'
  <2>1. BookedInTurn'
    <3>1. \A what : Worth(guard'.events, what) = 0
      <4>1. guard.events \in EventLists
        BY <1>5 DEF EventLists
      <4> QED BY <1>3, <1>5, <4>1, WorthType
    <3>2. guard.measured = Total(writer.calls, "measured") + 0
          /\ guard.forfeited = Total(writer.calls, "forfeited") + 0
      BY <1>1 DEF Booked, Open, OnFile
    <3> QED BY <1>3, <1>6, <3>1, <3>2 DEF BookedInTurn, OnFile
  <2>2. Paired(record', guard'.events) /\ Len(record') <= attempts'
    BY <1>3, <1>5 DEF Paired
  <2>3. Settled' = 0 /\ Bill(0)' = 0
    BY <1>3, BillOfNone DEF Settled, Bill, Price
  <2>4. Within(Bill(Settled) + IF pc = "ended" /\ attempts > 0 THEN MaxOverrun ELSE 0)'
    <3>1. charged' <= Total(writer'.calls, "measured") + Total(writer'.calls, "forfeited") + (0 + 0)
      BY <1>3, <1>6, <1>7 DEF Within, OnFile
    <3>2. Bill(Settled)' = 0
      BY <2>3 DEF Bill
    <3> QED BY <1>3, <3>1, <3>2 DEF Within, OnFile
  <2> QED BY <1>3, <2>1, <2>2, <2>4 DEF TurnInv, Escaped
<1>11. (JournalIsTrue /\ SpendIsOnFile)'
  <2>1. (writer.calls \in CallList)'
    BY <1>6
  <2>2. Within(Slack)'
    BY <1>4, <1>10, <2>1, TurnWithin, PTL
  <2> QED BY <1>1, <1>3, <1>8, <2>2, WholeTrue
<1>12. DecidingInv'
  BY <1>1, <1>2, <1>4, <1>8, <1>10 DEF DecidingInv, NotRefused
<1> QED
  BY <1>1, <1>2, <1>3, <1>11, <1>12
     DEF EInv, FreshInv, BetweenInv, AnsweredInv, RaisedInv, FinishingInv, SealedInv

\* The engine is left, or the call budget is spent, between two turns.
LEMMA LeaveKeeps == EInv /\ (LeaveEngine \/ CallBudgetSpent) => EInv'
<1> SUFFICES ASSUME EInv, LeaveEngine \/ CallBudgetSpent PROVE EInv'
  OBVIOUS
<1>1. /\ run = "between" /\ IInv /\ pc = "idle" /\ Whole /\ pending = NoCall /\ Booked /\ NotRefused
      /\ size \in Sizes /\ charged \in Nat
  BY DEF EInv, BetweenInv, LeaveEngine, CallBudgetSpent
<1>2. /\ run' = "finishing" /\ how' \in Endings
      /\ UNCHANGED <<vars, failure, pending, stop, writer, file, bound>>
  BY DEF LeaveEngine, CallBudgetSpent, evidenceVars, Endings
<1>3. size' = size /\ charged' = charged /\ guard' = guard
  BY <1>2 DEF vars, turnVars
<1>4. Covered /\ writer.calls \in CallList
  BY <1>1, IdleCovered DEF Whole, WriterSet
<1>5. Within(Slack)
  BY <1>1, <1>4, BookedWithin
<1>6. Whole' /\ Within(Slack)' /\ Booked' /\ Covered' /\ NotRefused' /\ pending' = NoCall
  BY <1>1, <1>2, <1>3, <1>4, <1>5
     DEF Whole, Within, Slack, Price, OnFile, Open, Booked, Covered, NotRefused
<1>7. (JournalIsTrue /\ SpendIsOnFile)'
  BY <1>1, <1>3, <1>6, WholeTrue
<1>8. writer' \in WriterSet
  BY <1>6 DEF Whole
<1> QED
  BY <1>1, <1>2, <1>3, <1>6, <1>7, <1>8
     DEF EInv, FreshInv, BetweenInv, DecidingInv, AnsweredInv, RaisedInv, FinishingInv, SealedInv

\* The process dies between two steps.
LEMMA CrashKeeps == EInv /\ Crash => EInv'
<1> SUFFICES ASSUME EInv, Crash PROVE EInv'
  OBVIOUS
<1>1. /\ run' = "dead" /\ UNCHANGED <<vars, how, code, failure, pending, stop, writer, file, bound>>
  BY DEF Crash, evidenceVars
<1>2. size' = size /\ charged' = charged /\ guard' = guard
  BY <1>1 DEF vars, turnVars
<1>3. (JournalIsTrue /\ SpendIsOnFile)'
  BY <1>1, <1>2, SameTrue DEF EInv
<1> QED
  BY <1>1, <1>2, <1>3
     DEF EInv, FreshInv, BetweenInv, DecidingInv, AnsweredInv, RaisedInv, FinishingInv, SealedInv

-----------------------------------------------------------------------------
(* The steps of a turn.                                                      *)

\* An event more is worth what it came to.
LEMMA WorthAppended ==
  ASSUME NEW events \in EventLists, NEW kind \in {"measured", "forfeited"}, NEW paid \in Nat, NEW what
  PROVE  Worth(Append(events, Event(kind, paid)), what)
           = Worth(events, what) + IF kind = what THEN paid ELSE 0
<1> DEFINE n == Len(events)
           more == Append(events, Event(kind, paid))
           f == [i \in DOMAIN events |-> IF events[i].kind = what THEN events[i].amount ELSE 0]
           g == [i \in DOMAIN more |-> IF more[i].kind = what THEN more[i].amount ELSE 0]
<1>1. /\ n \in Nat /\ DOMAIN events = 1 .. n
      /\ \A i \in 1 .. n : events[i] \in Events
  BY DEF EventLists
<1>2. Event(kind, paid) \in Events /\ Event(kind, paid).kind = kind /\ Event(kind, paid).amount = paid
  BY DEF Event, Events
<1>3. /\ DOMAIN more = 1 .. n + 1 /\ (\A i \in 1 .. n : more[i] = events[i])
      /\ more[n + 1] = Event(kind, paid)
  BY <1>1, <1>2 DEF EventLists
<1> HIDE DEF more, n
<1>4. \A i \in 1 .. n : events[i].amount \in Nat
  BY <1>1 DEF Events
<1>5. f \in [1 .. n -> Nat]
  BY <1>1, <1>4
<1>6. \A i \in 1 .. n + 1 : i \in 1 .. n \/ i = n + 1
  BY <1>1
<1>7. (\A i \in 1 .. n : g[i] = f[i]) /\ g[n + 1] = IF kind = what THEN paid ELSE 0
  <2>1. \A i \in 1 .. n : i \in 1 .. n + 1
    BY <1>1
  <2>2. n + 1 \in 1 .. n + 1
    BY <1>1
  <2> QED BY <1>1, <1>2, <1>3, <2>1, <2>2
<1>8. g \in [1 .. n + 1 -> Nat]
  <2>1. \A i \in 1 .. n : more[i].amount \in Nat
    BY <1>3, <1>4
  <2>2. more[n + 1].amount \in Nat
    BY <1>2, <1>3
  <2> QED BY <1>3, <1>6, <2>1, <2>2
<1>9. Worth(events, what) = SumFunction(f) /\ Worth(more, what) = SumFunction(g)
  BY DEF Worth
<1> HIDE DEF f, g
<1>10. SumFunction(g) = SumFunction(f) + g[n + 1]
  BY <1>1, <1>5, <1>7, <1>8, TotalOfLonger
<1> QED
  BY <1>7, <1>9, <1>10 DEF more

\* A request in flight that is resolved, whichever way.
LEMMA ResolvedTurn ==
  ASSUME IInv, TurnInv, pc = "inflight", writer.calls \in CallList, UNCHANGED <<writer, attempts, size>>,
         NEW kind \in {"measured", "forfeited"}, NEW paid \in Nat, NEW c \in Nat,
         c <= Price + MaxOverrun, c <= Price \/ pc' = "ended", charged' = charged + c,
         guard'.events = Append(guard.events, Event(kind, paid)),
         guard'.measured = guard.measured + IF kind = "measured" THEN paid ELSE 0,
         guard'.forfeited = guard.forfeited + IF kind = "forfeited" THEN paid ELSE 0,
         NEW a \in Attempts, a.settlement = kind, record' = Append(record, a),
         \/ /\ pc' = "top" /\ reason' = reason
         \/ /\ pc' = "ended" /\ reason' # "pre_dispatch_refused" /\ result' # "escaped"
            /\ result' = "answer" => reason' = "response"
  PROVE  TurnInv'
<1>1. /\ guard.events \in EventLists /\ record \in Seq(Attempts) /\ size \in Sizes /\ charged \in Nat
      /\ attempts \in Nat /\ attempts = Len(record) + 1 /\ Paired(record, guard.events)
      /\ guard.measured \in Nat /\ guard.forfeited \in Nat
  BY ExecutorAssumption DEF IInv, LocalsOK, GuardSet, EvidenceInv, Escaped
<1>2. /\ Len(record') = Len(record) + 1 /\ Paired(record', guard'.events) /\ Len(record) \in Nat
      /\ record' \in Seq(Attempts)
  BY <1>1, PairedAppend
<1>3. \A what : Worth(guard'.events, what)
                  = Worth(guard.events, what) + IF kind = what THEN paid ELSE 0
  BY <1>1, WorthAppended
<1>4. /\ Worth(guard.events, "measured") \in Nat /\ Worth(guard.events, "forfeited") \in Nat
      /\ OnFile("measured") \in Nat /\ OnFile("forfeited") \in Nat
  BY <1>1, WorthType, TotalType DEF OnFile
<1>5. OnFile("measured")' = OnFile("measured") /\ OnFile("forfeited")' = OnFile("forfeited")
  BY DEF OnFile
<1>6. BookedInTurn'
  <2>1. /\ guard.measured = OnFile("measured") + Worth(guard.events, "measured")
        /\ guard.forfeited = OnFile("forfeited") + Worth(guard.events, "forfeited")
    BY DEF TurnInv, BookedInTurn
  <2>2. \A x, y, z, w \in Nat : x = y + z => x + w = y + (z + w)
    OBVIOUS
  <2>3. (IF kind = "measured" THEN paid ELSE 0) \in Nat /\ (IF kind = "forfeited" THEN paid ELSE 0) \in Nat
    OBVIOUS
  <2> HIDE DEF OnFile
  <2> QED BY <1>1, <1>3, <1>4, <1>5, <2>1, <2>2, <2>3 DEF BookedInTurn
<1>7. Within(Bill(Settled) + IF pc = "ended" /\ attempts > 0 THEN MaxOverrun ELSE 0)'
  <2> DEFINE k == attempts - 1
             m == IF pc' = "ended" THEN MaxOverrun ELSE 0
  <2>1. k \in Nat /\ k + 1 = attempts
    BY <1>1, <1>2
  <2>2. charged <= OnFile("measured") + OnFile("forfeited") + (k * Price + 0)
    BY DEF TurnInv, Within, Settled, Bill
  <2>3. k * Price \in Nat /\ attempts * Price = k * Price + Price /\ Price \in Nat /\ MaxOverrun \in Nat
    BY <1>1, <2>1, BillStep DEF Price
  <2>4. Settled' = attempts /\ Price' = Price
    BY DEF Settled, Price
  <2>5. Bill(Settled)' = k * Price + Price
    BY <2>3, <2>4 DEF Bill
  <2>6. (IF pc' = "ended" /\ attempts' > 0 THEN MaxOverrun ELSE 0) = m
    BY <1>1, <1>2
  <2>7. c <= Price + m /\ m \in Nat
    BY <2>3
  <2> HIDE DEF k, m, OnFile, Price, Bill
  <2>8. charged + c <= OnFile("measured") + OnFile("forfeited") + (k * Price + Price + m)
    <3>1. \A A, B, x, p, q, h \in Nat : (h <= A + B + (x + 0) /\ c <= p + q) => h + c <= A + B + (x + p + q)
      OBVIOUS
    <3> QED BY <1>1, <1>4, <2>2, <2>3, <2>7, <3>1
  <2> QED BY <1>5, <2>5, <2>6, <2>8 DEF Within
<1>8. Len(record') <= attempts' /\ record' # <<>> /\ attempts' > 0
  BY <1>1, <1>2
<1>9. reason = "none"
  BY DEF TurnInv
<1> QED
  BY <1>2, <1>6, <1>7, <1>8, <1>9 DEF TurnInv, Escaped

\* A forfeited attempt.
LEMMA ForfeitedTurn ==
  ASSUME IInv, TurnInv, writer.calls \in CallList, UNCHANGED <<writer, size>>,
         NEW d, NEW c \in 0..Price, InFlight(d, c),
         NEW outcome \in {"fault", "response", "unclassified_error"}, ForfeitAttempt(outcome),
         \/ /\ pc' = "top" /\ reason' = reason
         \/ /\ pc' = "ended" /\ reason' # "pre_dispatch_refused" /\ result' # "escaped"
            /\ result' = "answer" => reason' = "response"
  PROVE  TurnInv'
<1>1. /\ guard \in GuardSet /\ size \in Sizes /\ pc = "inflight" /\ HoldsOne(guard, size)
  BY DEF IInv, LocalsOK, InFlight, HoldingInv
<1>2. Price \in Nat /\ MaxOverrun \in Nat
  BY <1>1, BillStep DEF Price
<1>3. /\ guard'.measured = guard.measured /\ guard'.forfeited = guard.forfeited + Price
      /\ guard'.events = Append(guard.events, Event("forfeited", Price))
  BY <1>1, ForfeitResolves DEF ForfeitAttempt, Price
<1>4. guard.measured \in Nat
  BY <1>1 DEF GuardSet
<1>5. c \in Nat /\ c <= Price /\ c <= Price + MaxOverrun
  BY <1>2
<1>6. /\ Attempt(outcome, "forfeited") \in Attempts
      /\ Attempt(outcome, "forfeited").settlement = "forfeited"
      /\ record' = Append(record, Attempt(outcome, "forfeited"))
  BY DEF Attempt, Attempts, ForfeitAttempt
<1>7. charged' = charged + c /\ attempts' = attempts
  BY DEF InFlight
<1>8. guard'.measured = guard.measured + IF "forfeited" = "measured" THEN Price ELSE 0
  BY <1>3, <1>4
<1>9. guard'.forfeited = guard.forfeited + IF "forfeited" = "forfeited" THEN Price ELSE 0
  BY <1>3
<1> HIDE DEF Price
<1> QED
  BY <1>1, <1>2, <1>3, <1>5, <1>6, <1>7, <1>8, <1>9, ResolvedTurn

\* A step that resolves nothing keeps the bill and the events.
LEMMA QuietTurn ==
  ASSUME IInv, TurnInv, UNCHANGED <<writer, size, charged, record>>,
         guard'.events = guard.events, guard'.measured = guard.measured,
         guard'.forfeited = guard.forfeited, writer.calls \in CallList,
         Settled' = Settled, attempts' \in Nat, attempts <= attempts',
         pc \in {"top", "admitted"},
         pc' \in {"top", "admitted", "inflight", "ended"},
         pc' = "inflight" => attempts' > 0,
         (pc' # "ended" \/ result' = "escaped") => reason' = reason,
         pc' = "ended" => /\ result' # "answer"
                          /\ reason' = "pre_dispatch_refused" => result' = "refused"
  PROVE  TurnInv'
<1>1. /\ size \in Sizes /\ charged \in Nat /\ attempts \in Nat /\ record \in Seq(Attempts)
  BY ExecutorAssumption DEF IInv, LocalsOK
<1>2. BookedInTurn'
  BY DEF TurnInv, BookedInTurn, OnFile
<1>3. Paired(record', guard'.events) /\ Len(record') <= attempts'
  <2>1. Len(record) \in Nat /\ Len(record) <= attempts
    BY <1>1 DEF TurnInv
  <2> QED BY <1>1, <2>1 DEF TurnInv, Paired
<1>4. Within(Bill(Settled) + IF pc = "ended" /\ attempts > 0 THEN MaxOverrun ELSE 0)'
  <2>1. charged <= OnFile("measured") + OnFile("forfeited") + (Bill(Settled) + 0)
    BY DEF TurnInv, Within
  <2>2. Bill(Settled)' = Bill(Settled) /\ OnFile("measured")' = OnFile("measured")
        /\ OnFile("forfeited")' = OnFile("forfeited")
    BY DEF Bill, Price, OnFile
  <2>3. /\ OnFile("measured") \in Nat /\ OnFile("forfeited") \in Nat /\ Bill(Settled) \in Nat
    <3>1. Settled \in Nat
      BY <1>1 DEF Settled
    <3> QED BY <1>1, <3>1, BillStep, TotalType DEF OnFile, Bill, Price
  <2>4. \A A, B, x, m, h \in Nat : h <= A + B + (x + 0) => h <= A + B + (x + m)
    OBVIOUS
  <2>5. (IF pc' = "ended" /\ attempts' > 0 THEN MaxOverrun ELSE 0) \in Nat
    BY ExecutorAssumption
  <2> HIDE DEF OnFile, Bill
  <2>6. charged' <= OnFile("measured") + OnFile("forfeited")
                      + (Bill(Settled) + IF pc' = "ended" /\ attempts' > 0 THEN MaxOverrun ELSE 0)
    BY <1>1, <2>1, <2>3, <2>4, <2>5
  <2> QED BY <2>2, <2>6 DEF Within
<1>5. reason = "none"
  BY DEF TurnInv
<1> QED
  BY <1>2, <1>3, <1>4, <1>5 DEF TurnInv, Escaped

\* Every step of the loop.
LEMMA LoopTurn ==
  ASSUME IInv, TurnInv, writer.calls \in CallList, UNCHANGED writer, Loop
  PROVE  TurnInv' /\ size' = size
<1>1. /\ guard \in GuardSet /\ size \in Sizes /\ charged \in Nat /\ attempts \in Nat
  BY ExecutorAssumption DEF IInv, LocalsOK
<1>2. CASE OutOfTime \/ CapRefuses
  <2>1. /\ pc = "top" /\ pc' = "ended" /\ attempts' = attempts
        /\ UNCHANGED <<guard, size, charged, record>>
        /\ reason' \in {"deadline_exceeded", "cost_cap_exhausted"} /\ result' \in {"fault", "budget"}
    BY <1>2 DEF OutOfTime, CapRefuses, End
  <2>2. Settled' = Settled
    BY <2>1 DEF Settled
  <2> QED BY <1>1, <2>1, <2>2, QuietTurn
<1>3. CASE Reserve
  <2>1. /\ pc = "top" /\ pc' = "admitted" /\ guard' = Authorize(guard, size)
        /\ UNCHANGED <<attempts, size, charged, record, reason>>
    BY <1>3 DEF Reserve
  <2>2. HoldsNone(guard)
    BY <2>1 DEF IInv, HoldingInv, Escaped
  <2>3. /\ guard'.measured = guard.measured /\ guard'.forfeited = guard.forfeited
        /\ guard'.events = guard.events
    BY <1>1, <2>1, <2>2, AuthorizeHolds
  <2>4. Settled' = Settled
    BY <2>1 DEF Settled
  <2> QED BY <1>1, <2>1, <2>3, <2>4, QuietTurn
<1>4. CASE PreDispatchRefused
  <2>1. /\ pc = "admitted" /\ pc' = "ended" /\ guard' = Cancel(guard, size)
        /\ reason' = "pre_dispatch_refused" /\ result' = "refused"
        /\ UNCHANGED <<attempts, size, charged, record>>
    BY <1>4 DEF PreDispatchRefused, End
  <2>2. HoldsOne(guard, size) /\ guard.tokens >= Exposure[size]
    <3>1. HoldsOne(guard, size) /\ guard.tokens = sent + Exposure[size] /\ sent \in Nat
      BY <2>1 DEF IInv, HoldingInv, TokenInv, Escaped, LocalsOK
    <3> QED BY <1>1, <3>1, PriceType
  <2>3. /\ guard'.measured = guard.measured /\ guard'.forfeited = guard.forfeited
        /\ guard'.events = guard.events
    BY <1>1, <2>1, <2>2, CancelResolves
  <2>4. Settled' = Settled
    BY <2>1 DEF Settled
  <2> QED BY <1>1, <2>1, <2>3, <2>4, QuietTurn
<1>5. CASE CheckFails
  <2>1. /\ pc = "admitted" /\ pc' = "ended" /\ result' = "escaped"
        /\ UNCHANGED <<guard, attempts, size, charged, record, reason>>
    BY <1>5 DEF CheckFails
  <2>2. Settled' = Settled
    BY <2>1 DEF Settled
  <2>3. reason = "none"
    BY <2>1 DEF TurnInv
  <2> QED BY <1>1, <2>1, <2>2, <2>3, QuietTurn
<1>6. CASE Dispatch
  <2>1. /\ pc = "admitted" /\ pc' = "inflight" /\ attempts' = attempts + 1
        /\ UNCHANGED <<guard, size, charged, record, reason>>
    BY <1>6 DEF Dispatch
  <2>2. Settled' = Settled /\ attempts' \in Nat /\ attempts' > 0 /\ attempts <= attempts'
    BY <1>1, <2>1 DEF Settled
  <2> QED BY <1>1, <2>1, <2>2, QuietTurn
<1>7. CASE Failed
  <2>1. PICK kind \in Failures, d \in 0..budget, c \in 0..Price :
          /\ DispatchFailed(kind, d, c)
          /\ \E why \in Reasons \ {"pre_dispatch_refused"}, way \in {"error", "fault"} : End(why, way)
    BY <1>7 DEF Failed, Reasons
  <2>2. PICK outcome \in {"fault", "response", "unclassified_error"} : ForfeitAttempt(outcome)
    BY <2>1 DEF DispatchFailed
  <2> QED BY <2>1, <2>2, ForfeitedTurn DEF DispatchFailed, End
<1>8. CASE BackOff
  <2>1. PICK d \in 0..budget, c \in 0..Price :
          DispatchFailed("retryable", d, c) /\ pc' = "top" /\ UNCHANGED <<size, reason>>
    BY <1>8 DEF BackOff
  <2>2. ForfeitAttempt("fault")
    BY <2>1 DEF DispatchFailed
  <2> QED BY <2>1, <2>2, ForfeitedTurn DEF DispatchFailed
<1>9. CASE AnswerRefused
  <2>1. PICK d \in 0..budget, c \in 0..Price :
          /\ InFlight(d, c)
          /\ \E outcome \in {"fault", "unclassified_error"} : ForfeitAttempt(outcome)
          /\ \E why \in Reasons \ {"pre_dispatch_refused"}, way \in {"error", "fault"} : End(why, way)
    BY <1>9 DEF AnswerRefused, Reasons
  <2> QED BY <2>1, ForfeitedTurn DEF End
<1>10. CASE AnswerUnmeasured
  BY <1>10, ForfeitedTurn DEF AnswerUnmeasured, End
<1>11. CASE AnswerMeasured
  <2>1. PICK d \in 0..budget, c \in 0..(Price + MaxOverrun) :
          /\ InFlight(d, c) /\ guard' = Settle(guard, Price, c)
          /\ record' = Append(record, Attempt("response", "measured"))
          /\ End("response", IF c > Price THEN "breach" ELSE "answer")
    BY <1>11 DEF AnswerMeasured
  <2>2. /\ pc = "inflight" /\ charged' = charged + c /\ attempts' = attempts /\ pc' = "ended"
        /\ size' = size /\ reason' = "response" /\ result' \in {"breach", "answer"}
    BY <2>1 DEF InFlight, End
  <2>3. Price \in Nat /\ MaxOverrun \in Nat
    BY <1>1, BillStep DEF Price
  <2>4. c \in Nat /\ c <= Price + MaxOverrun
    BY <2>3
  <2>5. HoldsOne(guard, size)
    BY <2>2 DEF IInv, HoldingInv
  <2>6. /\ guard'.measured = guard.measured + c /\ guard'.forfeited = guard.forfeited
        /\ guard'.events = Append(guard.events, Event("measured", c))
    BY <1>1, <2>1, <2>4, <2>5, SettleResolves DEF Price
  <2>7. /\ guard'.measured = guard.measured + IF "measured" = "measured" THEN c ELSE 0
        /\ guard'.forfeited = guard.forfeited + IF "measured" = "forfeited" THEN c ELSE 0
    <3>1. guard.forfeited \in Nat
      BY <1>1 DEF GuardSet
    <3> QED BY <2>6, <3>1
  <2>8. Attempt("response", "measured") \in Attempts /\ Attempt("response", "measured").settlement = "measured"
    BY DEF Attempt, Attempts
  <2> HIDE DEF Price
  <2> QED BY <2>1, <2>2, <2>4, <2>6, <2>7, <2>8, ResolvedTurn
<1>12. CASE Interrupted
  <2>1. PICK d \in 0..budget, c \in 0..Price :
          /\ pc = "inflight" /\ charged' = charged + c /\ pc' = "ended" /\ result' = "escaped"
          /\ UNCHANGED <<guard, size, attempts, record, reason>>
    BY <1>12 DEF Interrupted, InFlight
  <2>2. /\ attempts > 0 /\ reason = "none" /\ Len(record) <= attempts /\ Paired(record, guard.events)
        /\ BookedInTurn
        /\ charged <= OnFile("measured") + OnFile("forfeited") + (Bill(attempts - 1) + 0)
    BY <2>1 DEF TurnInv, Within, Settled
  <2>3. BookedInTurn' /\ Paired(record', guard'.events)
    BY <2>1, <2>2 DEF BookedInTurn, OnFile
  <2>4. /\ attempts - 1 \in Nat /\ attempts - 1 + 1 = attempts
    BY <1>1, <2>2
  <2>5. /\ Bill(attempts - 1) \in Nat /\ Price \in Nat /\ MaxOverrun \in Nat
        /\ Bill(attempts) = Bill(attempts - 1) + Price
    BY <1>1, <2>4, BillStep DEF Bill, Price
  <2>6. /\ OnFile("measured") \in Nat /\ OnFile("forfeited") \in Nat
        /\ OnFile("measured")' = OnFile("measured") /\ OnFile("forfeited")' = OnFile("forfeited")
    BY TotalType DEF OnFile
  <2>7. c \in Nat /\ c <= Price
    BY <2>5
  <2>8. Within(Bill(Settled) + IF pc = "ended" /\ attempts > 0 THEN MaxOverrun ELSE 0)'
    <3>1. Bill(Settled)' = Bill(attempts)
      BY <2>1 DEF Bill, Settled, Price
    <3>2. (IF pc' = "ended" /\ attempts' > 0 THEN MaxOverrun ELSE 0) = MaxOverrun
      BY <2>1, <2>2
    <3>3. \A A, B, x, p, m, h, k \in Nat : (h <= A + B + (x + 0) /\ k <= p) => h + k <= A + B + (x + p + m)
      OBVIOUS
    <3> HIDE DEF Bill, Price, OnFile
    <3>4. charged' <= OnFile("measured") + OnFile("forfeited") + (Bill(attempts) + MaxOverrun)
      BY <1>1, <2>1, <2>2, <2>5, <2>6, <2>7, <3>3
    <3> QED BY <2>6, <3>1, <3>2, <3>4 DEF Within
  <2> QED BY <2>1, <2>2, <2>3, <2>8 DEF TurnInv, Escaped
<1> QED
  BY <1>2, <1>3, <1>4, <1>5, <1>6, <1>7, <1>8, <1>9, <1>10, <1>11, <1>12 DEF Loop

\* The turn goes on, or its deadline is cancelled.
LEMMA TurnKeeps == EInv /\ (Turn \/ TurnCancelled) => EInv'
<1> SUFFICES ASSUME EInv, Turn \/ TurnCancelled PROVE EInv'
  OBVIOUS
<1>1. /\ run = "deciding" /\ IInv /\ TurnInv /\ Whole /\ pending = NoCall /\ NotRefused
  BY DEF EInv, DecidingInv, Turn, TurnCancelled
<1>2. run' = run /\ UNCHANGED <<how, code, failure, pending, stop, writer, file, bound>>
  BY DEF Turn, TurnCancelled, episodeVars, evidenceVars
<1>3. writer.calls \in CallList /\ Checked(writer.calls)
  BY <1>1 DEF Whole, WriterSet
<1>4. IInv' /\ TurnInv' /\ size' = size
  <2>1. CASE Turn
    <3>1. Loop
      BY <2>1 DEF Turn
    <3>2. IInv'
      BY <1>1, <3>1, LocalKeeps, InFlightKeeps DEF Loop
    <3> QED BY <1>1, <1>2, <1>3, <3>1, <3>2, LoopTurn
  <2>2. CASE TurnCancelled
    <3>1. CancelDeadline
      BY <2>2 DEF TurnCancelled
    <3>2. IInv'
      BY <1>1, <3>1, LocalKeeps
    <3>3. UNCHANGED <<guard, pc, size, attempts, record, reason, result, charged, writer>>
      BY <1>2, <3>1 DEF CancelDeadline
    <3>4. TurnInv'
      BY <1>1, <3>3 DEF TurnInv, BookedInTurn, Within, Bill, Price, Settled, OnFile, Escaped
    <3> QED BY <3>2, <3>3, <3>4
  <2> QED BY <2>1, <2>2
<1>5. size' \in Sizes /\ charged' \in Nat
  BY <1>4 DEF IInv, LocalsOK
<1>6. Whole'
  BY <1>1, <1>2 DEF Whole
<1>7. Within(Slack)'
  <2>1. (writer.calls \in CallList)'
    BY <1>2, <1>3
  <2> QED BY <1>4, <2>1, TurnWithin, PTL
<1>8. (JournalIsTrue /\ SpendIsOnFile)'
  BY <1>5, <1>6, <1>7, WholeTrue
<1>9. DecidingInv'
  BY <1>1, <1>2, <1>4, <1>6 DEF DecidingInv, NotRefused
<1> QED
  BY <1>1, <1>2, <1>5, <1>8, <1>9
     DEF EInv, FreshInv, BetweenInv, AnsweredInv, RaisedInv, FinishingInv, SealedInv

-----------------------------------------------------------------------------
(* The end of a turn.                                                        *)

\* An open call is told from none.
LEMMA CallIsOpen == ASSUME NEW call \in CallSet PROVE call # NoCall
<1>1. call.index \in Nat
  BY DEF CallSet
<1>2. NoCall.index = -1
  BY DEF NoCall
<1> QED
  BY <1>1, <1>2

\* Where record and events are paired, the call states what the guard resolved.
LEMMA OpenCallIsTrue ==
  ASSUME record \in Seq(Attempts), guard.events \in EventLists, Paired(record, guard.events),
         reason \in Reasons, turns \in Nat, size \in Sizes, writer.calls \in CallList, NEW what
  PROVE  OpenCall \in CallSet /\ Paid(OpenCall, what) = Worth(guard.events, what)
<1> DEFINE n == Len(record)
           list == [i \in 1 .. n |-> LedgerAttempt(i)]
<1>1. /\ n \in Nat /\ Len(guard.events) = n /\ DOMAIN guard.events = 1 .. n
      /\ \A i \in 1 .. n : record[i] \in Attempts /\ guard.events[i] \in Events
  BY DEF Paired, EventLists
<1>2. Price \in Nat
  BY PriceType DEF Price
<1>3. \A i \in 1 .. n : LedgerAttempt(i) =
        [outcome |-> record[i].outcome, settlement |-> guard.events[i].kind,
         reserved |-> Price, amount |-> guard.events[i].amount]
  <2> TAKE i \in 1 .. n
  <2>1. i <= Len(guard.events) /\ guard.events[i].kind = record[i].settlement
    BY <1>1 DEF Paired
  <2> HIDE DEF Price, n
  <2> QED BY <2>1 DEF LedgerAttempt
<1>4. \A i \in 1 .. n : LedgerAttempt(i) \in AttemptSet
  <2> TAKE i \in 1 .. n
  <2>1. /\ record[i].outcome \in {"fault", "response", "unclassified_error"}
        /\ guard.events[i].kind \in {"measured", "forfeited"} /\ guard.events[i].amount \in Nat
    BY <1>1 DEF Attempts, Events
  <2> HIDE DEF Price, n
  <2> QED BY <1>2, <1>3, <2>1 DEF AttemptSet
<1>5. list \in Seq(AttemptSet) /\ DOMAIN list = 1 .. n
  <2> HIDE DEF n
  <2> QED BY <1>1, <1>4
<1>6. OpenCall = [index |-> Len(writer.calls), turn |-> turns, reason |-> reason, decided |-> FALSE,
                  attempts |-> list]
  BY DEF OpenCall
<1>7. Len(writer.calls) \in Nat
  BY DEF CallList
<1> HIDE DEF list
<1>8. OpenCall \in CallSet /\ OpenCall.attempts = list
  BY <1>5, <1>6, <1>7 DEF CallSet
<1>9. \A i \in 1 .. n : list[i].settlement = guard.events[i].kind /\ list[i].amount = guard.events[i].amount
  BY <1>3 DEF list
<1>10. [i \in DOMAIN list |-> IF list[i].settlement = what THEN list[i].amount ELSE 0]
         = [i \in DOMAIN guard.events |->
              IF guard.events[i].kind = what THEN guard.events[i].amount ELSE 0]
  <2> HIDE DEF n
  <2> QED BY <1>1, <1>5, <1>9
<1> QED
  BY <1>8, <1>10 DEF Paid, Worth

\* observe_provider_turn: the events become the open call, if the turn is told.
LEMMA TurnObserved ==
  ASSUME IInv, TurnInv, Whole, pending = NoCall, ObserveTurn
  PROVE  /\ UNCHANGED <<size, charged, writer, file, bound>> /\ pc' = "idle" /\ Whole'
         /\ pending' \in CallSet \cup {NoCall} /\ Within(Slack)'
         /\ reason # "none" => Booked' /\ Covered'
         /\ Escaped /\ attempts = 0 => Booked' /\ Covered'
         /\ reason # "none" /\ record # <<>> => pending' \in CallSet
         /\ reason # "pre_dispatch_refused" => NotRefused'
<1>1. /\ pc = "ended" /\ pc' = "idle" /\ guard' = TakeEvents(guard)
      /\ pending' = IF Telemetry = <<>> THEN NoCall ELSE OpenCall
      /\ stop' = IF reason \in ControlStops THEN reason ELSE "none"
      /\ UNCHANGED <<size, charged, writer, file, bound>>
  BY DEF ObserveTurn, turnVars
<1>2. /\ guard \in GuardSet /\ record \in Seq(Attempts) /\ reason \in Reasons \cup {"none"}
      /\ turns \in Nat /\ size \in Sizes /\ charged \in Nat /\ attempts \in Nat
  BY ExecutorAssumption DEF IInv, LocalsOK
<1>3. /\ guard.measured \in Nat /\ guard.forfeited \in Nat /\ guard.events \in EventLists
      /\ guard'.measured = guard.measured /\ guard'.forfeited = guard.forfeited
  BY <1>1, <1>2 DEF GuardSet, TakeEvents
<1>4. writer.calls \in CallList /\ Paired(record, guard.events) /\ BookedInTurn
      /\ Len(record) <= attempts
  BY DEF Whole, WriterSet, TurnInv
<1>5. Whole'
  BY <1>1 DEF Whole
<1>6. Within(Slack)'
  <2>1. Within(Slack)
    BY <1>4, TurnWithin
  <2> QED BY <1>1, <2>1 DEF Within, OnFile, Slack, Price
<1>7. reason \in Reasons => OpenCall \in CallSet
                              /\ \A what : Paid(OpenCall, what) = Worth(guard.events, what)
  BY <1>2, <1>3, <1>4, OpenCallIsTrue
<1>8. pending' \in CallSet \cup {NoCall}
  <2>1. CASE reason = "none"
    BY <1>1, <2>1 DEF Telemetry
  <2>2. CASE reason \in Reasons
    BY <1>1, <1>7, <2>2
  <2> QED BY <1>2, <2>1, <2>2
<1>9. reason # "none" /\ record # <<>> => pending' \in CallSet /\ pending' = OpenCall
  BY <1>1, <1>2, <1>7 DEF Telemetry
<1>10. OnFile("measured")' = OnFile("measured") /\ OnFile("forfeited")' = OnFile("forfeited")
       /\ OnFile("measured") \in Nat /\ OnFile("forfeited") \in Nat
  BY <1>1, <1>4, TotalType DEF OnFile
<1>11. record = <<>> => \A what : Worth(guard.events, what) = 0
  <2>1. record = <<>> => guard.events = <<>>
    BY <1>3, <1>4 DEF Paired, EventLists
  <2> QED BY <1>3, <2>1, WorthType
<1>12. (reason # "none" \/ record = <<>>) => Booked'
  <2>1. CASE record = <<>>
    <3>1. pending' = NoCall
      BY <1>1, <2>1 DEF Telemetry
    <3>2. Open("measured")' = 0 /\ Open("forfeited")' = 0
      BY <3>1 DEF Open
    <3>3. guard.measured = OnFile("measured") + 0 /\ guard.forfeited = OnFile("forfeited") + 0
      BY <1>4, <1>11, <2>1 DEF BookedInTurn
    <3> HIDE DEF OnFile
    <3> QED BY <1>3, <1>10, <3>2, <3>3 DEF Booked
  <2>2. CASE reason # "none" /\ record # <<>>
    <3>1. pending' = OpenCall /\ OpenCall \in CallSet
      BY <1>9, <2>2
    <3>2. pending' # NoCall
      BY <3>1, CallIsOpen
    <3>3. Open("measured")' = Worth(guard.events, "measured")
          /\ Open("forfeited")' = Worth(guard.events, "forfeited")
      BY <1>2, <1>7, <2>2, <3>1, <3>2 DEF Open
    <3> HIDE DEF OnFile
    <3> QED BY <1>3, <1>4, <1>10, <3>3 DEF Booked, BookedInTurn
  <2> QED BY <2>1, <2>2
<1>13. ~Escaped => charged <= guard.measured + guard.forfeited
  BY DEF IInv, MoneyInv
<1>14. Escaped => reason = "none"
  BY DEF TurnInv
<1>15. reason # "none" => Booked' /\ Covered'
  <2>1. reason # "none" => Covered'
    BY <1>1, <1>3, <1>13, <1>14 DEF Covered
  <2> QED BY <1>12, <2>1
<1>16. Escaped /\ attempts = 0 => Booked' /\ Covered'
  <2> SUFFICES ASSUME Escaped, attempts = 0 PROVE Booked' /\ Covered'
    OBVIOUS
  <2>1. record = <<>>
    <3>1. Len(record) = 0
      BY <1>2, <1>4
    <3> QED BY <1>2, <3>1
  <2>2. charged <= OnFile("measured") + OnFile("forfeited")
    <3>1. Settled = 0 /\ Bill(0) = 0
      BY <1>1, <1>2, BillOfNone DEF Settled, Bill, Price
    <3>2. charged <= OnFile("measured") + OnFile("forfeited") + (Bill(Settled) + 0)
      BY DEF TurnInv, Within
    <3>3. Bill(Settled) = 0
      BY <3>1
    <3> HIDE DEF OnFile, Bill, Settled
    <3> QED BY <1>2, <1>10, <3>2, <3>3
  <2>3. guard.measured = OnFile("measured") + 0 /\ guard.forfeited = OnFile("forfeited") + 0
    BY <1>4, <1>11, <2>1 DEF BookedInTurn
  <2>4. Covered'
    <3> HIDE DEF OnFile
    <3> QED BY <1>1, <1>2, <1>3, <1>10, <2>2, <2>3 DEF Covered
  <2> QED BY <1>12, <2>1, <2>4
<1>17. reason # "pre_dispatch_refused" => NotRefused'
  BY <1>1 DEF NotRefused
<1> QED
  BY <1>1, <1>5, <1>6, <1>8, <1>9, <1>15, <1>16, <1>17

\* The turn answered, or what it raised leaves decide.
LEMMA ObservedKeeps == EInv /\ (Answered \/ AnswerUnreadable \/ TurnRaised) => EInv'
<1> SUFFICES ASSUME EInv, Answered \/ AnswerUnreadable \/ TurnRaised PROVE EInv'
  OBVIOUS
<1>1. /\ ObserveTurn /\ run = "deciding" /\ pc = "ended"
  BY DEF Answered, AnswerUnreadable, TurnRaised, Raised, ObserveTurn
<1>2. IInv /\ TurnInv /\ Whole /\ pending = NoCall /\ size \in Sizes /\ charged \in Nat
  BY <1>1 DEF EInv, DecidingInv
<1>3. /\ UNCHANGED <<size, charged, writer, file, bound>> /\ pc' = "idle" /\ Whole'
      /\ pending' \in CallSet \cup {NoCall} /\ Within(Slack)'
      /\ reason # "none" => Booked' /\ Covered'
      /\ Escaped /\ attempts = 0 => Booked' /\ Covered'
      /\ reason # "none" /\ record # <<>> => pending' \in CallSet
      /\ reason # "pre_dispatch_refused" => NotRefused'
  BY <1>1, <1>2, TurnObserved
<1>4. (JournalIsTrue /\ SpendIsOnFile)' /\ size' \in Sizes /\ charged' \in Nat
  BY <1>2, <1>3, WholeTrue
<1>5. /\ ~Escaped => reason # "none"
      /\ Escaped => reason = "none"
      /\ reason = "pre_dispatch_refused" => result = "refused"
      /\ result = "answer" => reason = "response" /\ record # <<>>
  BY <1>1, <1>2 DEF IInv, EvidenceInv, TurnInv
<1>6. CASE Answered
  <2>1. run' = "answered" /\ result = "answer"
    BY <1>6 DEF Answered
  <2>2. Observe
    BY <1>1, <2>1 DEF ObserveTurn, Observe
  <2>3. IInv'
    BY <1>2, <2>2, LocalKeeps
  <2>4. AnsweredInv'
    BY <1>3, <1>5, <2>1, <2>3 DEF AnsweredInv
  <2> QED BY <1>4, <2>1, <2>4
             DEF EInv, FreshInv, BetweenInv, DecidingInv, RaisedInv, FinishingInv, SealedInv
<1>7. CASE AnswerUnreadable \/ TurnRaised
  <2>1. /\ run' = "raised" /\ how' \in {"excluded", "aborted"}
        /\ how' = "excluded" => result # "refused" /\ (~Escaped \/ attempts = 0)
    BY <1>7 DEF AnswerUnreadable, TurnRaised, Raised, Escaped
  <2>2. RaisedInv'
    BY <1>3, <1>5, <2>1 DEF RaisedInv
  <2> QED BY <1>4, <2>1, <2>2
             DEF EInv, FreshInv, BetweenInv, DecidingInv, AnsweredInv, FinishingInv, SealedInv
<1> QED
  BY <1>6, <1>7

-----------------------------------------------------------------------------
(* Recording a call.                                                         *)

\* What is left of a row on a whole file: the file, or the file and the row.
LEMMA LeftOf ==
  ASSUME NEW calls \in CallList, NEW f, f.rows = RowsOf(calls), f.tail = "ended",
         NEW row, NEW what \in Remains
  PROVE  /\ Written(f, row, what).rows = RowsOf(calls)
              \/ Written(f, row, what).rows = Append(RowsOf(calls), row)
         /\ what = "whole" => Written(f, row, what).rows = Append(RowsOf(calls), row)
                                /\ Written(f, row, what).tail = "ended"
         /\ what = "fragment" => Written(f, row, what).rows = RowsOf(calls)
         /\ Written(f, row, what).rows # RowsOf(calls) => Written(f, row, what).tail # "fragment"
BY DEF Written, Remains

\* record_call keeps the journal's promises, durable or not.
LEMMA RecordKeeps ==
  ASSUME Whole, pending \in CallSet, Within(Slack), size \in Sizes, charged \in Nat,
         NEW decided \in BOOLEAN, NEW to \in {"between", "finishing"}, RecordCall(decided, to)
  PROVE  /\ (JournalIsTrue /\ SpendIsOnFile)' /\ pending' = NoCall
         /\ UNCHANGED <<vars, stop>>
         /\ \/ /\ run' = to /\ how' = how /\ Whole' /\ Within(Slack)'
               /\ Booked => Booked'
            \/ run' = "finishing" /\ writer' \in WriterSet /\ writer'.poisoned
            \/ run' = "dead"
<1> DEFINE call == [pending EXCEPT !.decided = decided]
           row == Row(writer, "call", call)
           memory == [writer EXCEPT !.calls = Append(writer.calls, call)]
           calls == writer.calls
           more == Append(calls, call)
<1>1. /\ calls \in CallList /\ Checked(calls) /\ writer.next = Len(calls) + 1
      /\ file.rows = RowsOf(calls) /\ file.tail = "ended" /\ bound = NoBinding
      /\ writer \in WriterSet /\ Len(calls) \in Nat
  BY DEF Whole, WriterSet, CallList
<1>2. /\ CallWellFormed(call) /\ CallAdmissible(call, calls) /\ pending' = NoCall
      /\ UNCHANGED <<vars, stop, bound>>
      /\ \/ Durably(row, memory, to)
         \/ Fails(row, "finishing")
         \/ Dies(row)
  BY DEF RecordCall
<1>3. size' = size /\ charged' = charged /\ guard' = guard
  BY <1>2 DEF vars, turnVars
<1>4. call \in CallSet /\ \A what : Paid(call, what) = Paid(pending, what)
  BY PaidDecided
<1> HIDE DEF call
<1>5. row = CallRow(Len(calls) + 1, call)
  BY <1>1 DEF Row, CallRow
<1> HIDE DEF row
<1>6. Append(RowsOf(calls), row) = RowsOf(more)
  BY <1>1, <1>4, <1>5, RowAppended
<1>7. /\ more \in CallList /\ Checked(more) /\ Len(more) = Len(calls) + 1
      /\ \A what : Total(more, what) = Total(calls, what) + Paid(call, what)
  <2>1. Len(more) = Len(calls) + 1
    BY <1>1, <1>4 DEF CallList
  <2> QED BY <1>1, <1>2, <1>4, <2>1, CheckedAppended, TotalAppended
<1>8. /\ Total(calls, "measured") \in Nat /\ Total(calls, "forfeited") \in Nat
      /\ Paid(call, "measured") \in Nat /\ Paid(call, "forfeited") \in Nat
  BY <1>1, <1>4, TotalType, PaidType
<1>9. Slack' = Slack /\ Slack \in Nat
  BY <1>3, SlackType DEF Slack, Price
<1> HIDE DEF Slack
<1>10. /\ charged' <= Total(calls, "measured") + Total(calls, "forfeited") + Slack'
       /\ charged' <= Total(more, "measured") + Total(more, "forfeited") + Slack'
  <2>1. charged <= Total(calls, "measured") + Total(calls, "forfeited") + Slack
    BY DEF Within, OnFile
  <2>2. \A h, A, B, p, q, k \in Nat : h <= A + B + k => h <= (A + p) + (B + q) + k
    OBVIOUS
  <2>3. charged <= (Total(calls, "measured") + Paid(call, "measured"))
                      + (Total(calls, "forfeited") + Paid(call, "forfeited")) + Slack
    BY <1>8, <1>9, <2>1, <2>2
  <2> QED BY <1>3, <1>7, <1>9, <2>1, <2>3
<1> HIDE DEF more
<1>11. CASE Durably(row, memory, to)
  <2>1. /\ file' = Written(file, row, "whole") /\ writer' = Appended(memory) /\ run' = to
        /\ UNCHANGED <<how, code, failure>>
    BY <1>11 DEF Durably
  <2>2. file'.rows = RowsOf(more) /\ file'.tail = "ended"
    <3>1. "whole" \in Remains
      BY DEF Remains
    <3>2. /\ Written(file, row, "whole").rows = Append(RowsOf(calls), row)
          /\ Written(file, row, "whole").tail = "ended"
      BY <1>1, <3>1, LeftOf
    <3> QED BY <1>6, <2>1, <3>2
  <2>3. writer' \in WriterSet /\ writer'.calls = more /\ writer'.next = Len(more) + 1
        /\ writer'.poisoned = writer.poisoned
    <3>1. memory = [writer EXCEPT !.calls = more]
      BY DEF more
    <3>2. memory \in WriterSet /\ memory.calls = more /\ memory.next = writer.next
          /\ memory.poisoned = writer.poisoned
      BY <1>1, <1>7, <3>1 DEF WriterSet
    <3> HIDE DEF memory
    <3>3. memory.next + 1 = Len(more) + 1 /\ memory.next + 1 \in Nat
      BY <1>1, <1>7, <3>2
    <3>4. writer' = [memory EXCEPT !.next = memory.next + 1]
      BY <2>1 DEF Appended
    <3> QED BY <3>2, <3>3, <3>4 DEF WriterSet
  <2>4. Whole'
    BY <1>1, <1>2, <1>7, <2>2, <2>3 DEF Whole
  <2>5. Within(Slack)'
    BY <1>10, <2>3 DEF Within, OnFile
  <2>6. (JournalIsTrue /\ SpendIsOnFile)'
    BY <1>3, <2>4, <2>5, WholeTrue
  <2>7. Booked => Booked'
    <3>1. pending # NoCall
      BY CallIsOpen
    <3>2. Open("measured")' = 0 /\ Open("forfeited")' = 0
      BY <1>2 DEF Open
    <3>3. /\ OnFile("measured")' = Total(calls, "measured") + Paid(call, "measured")
          /\ OnFile("forfeited")' = Total(calls, "forfeited") + Paid(call, "forfeited")
      BY <1>7, <2>3 DEF OnFile
    <3>4. Booked => /\ guard'.measured = Total(calls, "measured") + Paid(call, "measured")
                    /\ guard'.forfeited = Total(calls, "forfeited") + Paid(call, "forfeited")
      BY <1>3, <1>4, <3>1 DEF Booked, Open, OnFile
    <3> QED BY <1>8, <3>2, <3>3, <3>4 DEF Booked
  <2> QED BY <1>2, <2>1, <2>4, <2>5, <2>6, <2>7
<1>12. ASSUME file'.rows \in {RowsOf(calls), RowsOf(more)}, run' = "dead" \/ writer'.poisoned
       PROVE  (JournalIsTrue /\ SpendIsOnFile)'
  <2>1. size' \in Sizes /\ charged' \in Nat /\ bound' = NoBinding
    BY <1>1, <1>2, <1>3
  <2>2. CASE file'.rows = RowsOf(calls)
    BY <1>1, <1>10, <1>12, <2>1, <2>2, PrefixTrue
  <2>3. CASE file'.rows = RowsOf(more)
    BY <1>7, <1>10, <1>12, <2>1, <2>3, PrefixTrue
  <2> QED BY <1>12, <2>2, <2>3
<1>13. CASE Fails(row, "finishing")
  <2>1. /\ run' = "finishing" /\ writer' = Poisoned(writer)
        /\ \E what \in Remains : file' \in {RolledBack(file, row, what), Written(file, row, what)}
    BY <1>13 DEF Fails
  <2>2. file'.rows \in {RowsOf(calls), RowsOf(more)}
    BY <1>1, <1>6, <2>1, LeftOf DEF RolledBack
  <2>3. writer' \in WriterSet /\ writer'.poisoned
    BY <1>1, <2>1 DEF Poisoned, WriterSet
  <2> QED BY <1>2, <1>12, <2>1, <2>2, <2>3
<1>14. CASE Dies(row)
  <2>1. run' = "dead" /\ \E what \in Remains : file' = Written(file, row, what)
    BY <1>14 DEF Dies
  <2>2. file'.rows \in {RowsOf(calls), RowsOf(more)}
    BY <1>1, <1>6, <2>1, LeftOf
  <2> QED BY <1>2, <1>12, <2>1, <2>2
<1> QED
  BY <1>2, <1>11, <1>13, <1>14

\* bind: the decision taken from an answer goes down with its call.
LEMMA BindDecisionKeeps == EInv /\ BindDecision => EInv'
<1> SUFFICES ASSUME EInv, BindDecision PROVE EInv'
  OBVIOUS
<1>1. /\ run = "answered" /\ IInv /\ pc = "idle" /\ Whole /\ pending \in CallSet /\ Booked
      /\ NotRefused /\ Within(Slack) /\ size \in Sizes /\ charged \in Nat
      /\ RecordCall(TRUE, "between")
  BY DEF EInv, AnsweredInv, BindDecision
<1>2. /\ (JournalIsTrue /\ SpendIsOnFile)' /\ pending' = NoCall /\ UNCHANGED <<vars, stop>>
      /\ \/ /\ run' = "between" /\ how' = how /\ Whole' /\ Within(Slack)'
            /\ Booked => Booked'
         \/ run' = "finishing" /\ writer' \in WriterSet /\ writer'.poisoned
         \/ run' = "dead"
  BY <1>1, RecordKeeps
<1>3. IInv' /\ size' = size /\ charged' = charged /\ pc' = pc
  BY <1>1, <1>2, ExecutorStands DEF vars, turnVars
<1>4. BetweenInv'
  BY <1>1, <1>2, <1>3 DEF BetweenInv, NotRefused
<1> QED
  BY <1>1, <1>2, <1>3, <1>4
     DEF EInv, FreshInv, DecidingInv, AnsweredInv, RaisedInv, FinishingInv, SealedInv

\* abandon_open_call: the open call of a turn that raised goes down without one.
LEMMA AbandonKeeps == EInv /\ AbandonOpenCall => EInv'
<1> SUFFICES ASSUME EInv, AbandonOpenCall PROVE EInv'
  OBVIOUS
<1>1. /\ run = "raised" /\ Whole /\ pending \in CallSet \cup {NoCall} /\ Within(Slack)
      /\ how \in {"excluded", "aborted"} /\ size \in Sizes /\ charged \in Nat
      /\ how = "excluded" => Booked /\ Covered /\ NotRefused
  BY DEF EInv, RaisedInv, AbandonOpenCall
<1>2. CASE pending # NoCall /\ RecordCall(FALSE, "finishing")
  <2>1. pending \in CallSet
    BY <1>1, <1>2
  <2>2. /\ (JournalIsTrue /\ SpendIsOnFile)' /\ pending' = NoCall /\ UNCHANGED <<vars, stop>>
        /\ \/ /\ run' = "finishing" /\ how' = how /\ Whole' /\ Within(Slack)'
              /\ Booked => Booked'
           \/ run' = "finishing" /\ writer' \in WriterSet /\ writer'.poisoned
           \/ run' = "dead"
    BY <1>1, <1>2, <2>1, RecordKeeps
  <2>3. size' = size /\ charged' = charged /\ guard' = guard
    BY <2>2 DEF vars, turnVars
  <2>4. FinishingInv'
    BY <1>1, <2>2, <2>3 DEF FinishingInv, Whole, Endings, Covered, NotRefused
  <2> QED BY <1>1, <2>2, <2>3, <2>4
             DEF EInv, FreshInv, BetweenInv, DecidingInv, AnsweredInv, RaisedInv, SealedInv
<1>3. CASE pending = NoCall /\ run' = "finishing" /\ UNCHANGED <<vars, how, code, evidenceVars>>
  <2>1. /\ run' = "finishing"
        /\ UNCHANGED <<size, charged, guard, how, pending, stop, writer, file, bound>>
    BY <1>3 DEF vars, turnVars, evidenceVars
  <2>2. Whole' /\ Within(Slack)' /\ (Booked => Booked') /\ (Covered => Covered')
        /\ (NotRefused => NotRefused') /\ writer' \in WriterSet
    BY <1>1, <2>1 DEF Whole, Within, Slack, Price, OnFile, Open, Booked, Covered, NotRefused
  <2>3. FinishingInv'
    BY <1>1, <1>3, <2>1, <2>2 DEF FinishingInv, Endings
  <2>4. (JournalIsTrue /\ SpendIsOnFile)'
    BY <1>1, <2>1, <2>2, WholeTrue
  <2> QED BY <1>1, <2>1, <2>3, <2>4
             DEF EInv, FreshInv, BetweenInv, DecidingInv, AnsweredInv, RaisedInv, SealedInv
<1> QED
  BY <1>2, <1>3 DEF AbandonOpenCall

-----------------------------------------------------------------------------
(* Finalising.                                                               *)

\* finalize appends the ending the run had, or part of it.
LEMMA FinalizeKeeps == EInv /\ Finalize => EInv'
<1> SUFFICES ASSUME EInv, Finalize PROVE EInv'
  OBVIOUS
<1> DEFINE calls == writer.calls
           end == [ending |-> Ending, code |-> EndingCode, totals |-> Totals(calls)]
           row == Row(writer, "terminal", end)
           memory == Closed([writer EXCEPT !.terminal = Ending])
           next == IF Ending = "scored" THEN "sealed" ELSE "over"
<1>1. /\ run = "finishing" /\ TerminalAdmissible(Ending, EndingCode, calls)
      /\ UNCHANGED <<vars, pending, stop, bound>>
      /\ \/ Durably(row, memory, next)
         \/ Fails(row, "over") /\ UNCHANGED <<how, code>>
         \/ Dies(row)
  BY DEF Finalize
<1>2. ~writer.poisoned
  BY <1>1 DEF Durably, Fails, Dies, MayAppend
<1>3. /\ Whole /\ pending = NoCall /\ Within(Slack) /\ how \in Endings
      /\ how \in {"scored", "excluded"} => Booked /\ Covered
      /\ how = "excluded" => NotRefused
      /\ size \in Sizes /\ charged \in Nat
  BY <1>1, <1>2 DEF EInv, FinishingInv
<1>4. /\ calls \in CallList /\ Checked(calls) /\ writer.next = Len(calls) + 1
      /\ file.rows = RowsOf(calls) /\ file.tail = "ended" /\ bound = NoBinding
      /\ writer \in WriterSet /\ Len(calls) \in Nat
  BY <1>3 DEF Whole, WriterSet, CallList
<1>5. size' = size /\ charged' = charged /\ guard' = guard /\ bound' = NoBinding
  BY <1>1, <1>4 DEF vars, turnVars
<1>6. Ending = how
  BY <1>3 DEF Ending, NotRefused
<1>7. /\ end.ending = how /\ end.totals = Totals(calls) /\ end.ending \in Endings
      /\ TerminalAdmissible(end.ending, end.code, calls)
  BY <1>1, <1>3, <1>6
<1> HIDE DEF end
<1>8. row = EndRow(Len(calls) + 1, end)
  BY <1>4 DEF Row, EndRow
<1> HIDE DEF row
<1>9. Append(RowsOf(calls), row) = RowsWith(calls, end) /\ RowsWith(calls, end) # RowsOf(calls)
  <2>1. Len(RowsOf(calls)) = Len(calls) + 1 /\ Len(RowsWith(calls, end)) = Len(calls) + 2
    BY <1>4, RowsShape
  <2>2. RowsWith(calls, end) # RowsOf(calls)
    BY <1>4, <2>1
  <2>3. \A call \in CallSet : Append(RowsOf(calls), row) = RowsWith(calls, end)
    BY <1>4, <1>8, RowAppended
  <2>4. \E call : call \in CallSet
    <3>1. [index |-> 0, turn |-> 0, reason |-> "response", decided |-> FALSE, attempts |-> <<>>] \in CallSet
      BY DEF CallSet, Reasons
    <3> QED BY <3>1
  <2> QED BY <2>2, <2>3, <2>4
<1>10. charged' <= Total(calls, "measured") + Total(calls, "forfeited") + Slack'
  BY <1>3, <1>5 DEF Within, OnFile, Slack, Price
<1>11. how \in {"scored", "excluded"} =>
         /\ guard'.measured = Total(calls, "measured")
         /\ guard'.forfeited = Total(calls, "forfeited")
         /\ charged' <= guard'.measured + guard'.forfeited
  <2>1. Total(calls, "measured") \in Nat /\ Total(calls, "forfeited") \in Nat
    BY <1>4, TotalType
  <2> QED BY <1>3, <1>5, <2>1 DEF Booked, Covered, Open, OnFile
<1> HIDE DEF Slack
<1>12. ASSUME how' = how, run' \in {"sealed", "over", "dead"},
              file'.rows = RowsWith(calls, end), file'.tail # "fragment",
              (run' # "dead" /\ ~writer'.poisoned) =>
                writer'.next = Len(calls) + 2 /\ writer'.calls = calls
       PROVE  (JournalIsTrue /\ SpendIsOnFile)' /\ Verdict(file') = how'
  BY <1>3, <1>4, <1>5, <1>7, <1>10, <1>11, <1>12, EndedTrue
<1>13. ASSUME how' = how, run' \in {"over", "dead"},
              file' = file \/ \E what \in Remains : file' = Written(file, row, what),
              run' = "dead" \/ writer'.poisoned
       PROVE  (JournalIsTrue /\ SpendIsOnFile)'
  <2>1. \/ file'.rows = RowsOf(calls)
        \/ (file'.rows = RowsWith(calls, end) /\ file'.tail # "fragment")
    BY <1>4, <1>9, <1>13, LeftOf
  <2>2. CASE file'.rows = RowsOf(calls)
    BY <1>3, <1>4, <1>5, <1>10, <1>13, <2>2, PrefixTrue
  <2>3. CASE file'.rows = RowsWith(calls, end) /\ file'.tail # "fragment"
    BY <1>12, <1>13, <2>3
  <2> QED BY <2>1, <2>2, <2>3
<1>14. CASE Durably(row, memory, next)
  <2>1. /\ file' = Written(file, row, "whole") /\ writer' = Appended(memory) /\ run' = next
        /\ how' = how
    BY <1>14 DEF Durably
  <2>2. file'.rows = RowsWith(calls, end) /\ file'.tail # "fragment"
    <3>1. "whole" \in Remains
      BY DEF Remains
    <3>2. /\ Written(file, row, "whole").rows = Append(RowsOf(calls), row)
          /\ Written(file, row, "whole").tail = "ended"
      BY <1>4, <3>1, LeftOf
    <3> QED BY <1>9, <2>1, <3>2
  <2>3. writer'.next = Len(calls) + 2 /\ writer'.calls = calls
    <3>1. memory = [writer EXCEPT !.terminal = Ending, !.closed = TRUE]
      BY <1>4 DEF Closed, WriterSet
    <3>2. memory.calls = calls /\ memory.next = writer.next
          /\ [memory EXCEPT !.next = Len(calls) + 2].calls = calls
          /\ [memory EXCEPT !.next = Len(calls) + 2].next = Len(calls) + 2
      BY <1>4, <3>1 DEF WriterSet
    <3> HIDE DEF memory
    <3>3. memory.next + 1 = Len(calls) + 2
      BY <1>4, <3>2
    <3> QED BY <2>1, <3>2, <3>3 DEF Appended
  <2>4. run' \in {"sealed", "over"} /\ (run' = "sealed" => how' = "scored")
    BY <1>6, <2>1
  <2>5. (JournalIsTrue /\ SpendIsOnFile)' /\ Verdict(file') = how'
    BY <1>12, <2>1, <2>2, <2>3, <2>4
  <2>6. SealedInv'
    BY <2>4, <2>5 DEF SealedInv
  <2> QED BY <1>3, <1>5, <2>4, <2>5, <2>6
             DEF EInv, FreshInv, BetweenInv, DecidingInv, AnsweredInv, RaisedInv, FinishingInv
<1>15. CASE Fails(row, "over") /\ UNCHANGED <<how, code>>
  <2>1. /\ run' = "over" /\ writer' = Poisoned(writer) /\ how' = how
        /\ \E what \in Remains : file' \in {RolledBack(file, row, what), Written(file, row, what)}
    BY <1>15 DEF Fails
  <2>2. writer'.poisoned
    BY <1>4, <2>1 DEF Poisoned, WriterSet
  <2>3. (JournalIsTrue /\ SpendIsOnFile)'
    BY <1>13, <2>1, <2>2 DEF RolledBack
  <2> QED BY <1>3, <1>5, <2>1, <2>3
             DEF EInv, FreshInv, BetweenInv, DecidingInv, AnsweredInv, RaisedInv, FinishingInv, SealedInv
<1>16. CASE Dies(row)
  <2>1. run' = "dead" /\ how' = how /\ \E what \in Remains : file' = Written(file, row, what)
    BY <1>16 DEF Dies
  <2>2. (JournalIsTrue /\ SpendIsOnFile)'
    BY <1>13, <2>1
  <2> QED BY <1>3, <1>5, <2>1, <2>2
             DEF EInv, FreshInv, BetweenInv, DecidingInv, AnsweredInv, RaisedInv, FinishingInv, SealedInv
<1> QED
  BY <1>1, <1>14, <1>15, <1>16

\* Finalising that appends nothing, and binding the artefact, leave the file alone.
LEMMA FinalKeeps == EInv /\ (FinalizePoisoned \/ FinalizeRefused \/ BindArtefact) => EInv'
<1> SUFFICES ASSUME EInv, FinalizePoisoned \/ FinalizeRefused \/ BindArtefact PROVE EInv'
  OBVIOUS
<1>1. run' = "over" /\ UNCHANGED <<vars, how, file>>
  BY DEF FinalizePoisoned, FinalizeRefused, BindArtefact
<1>2. size' = size /\ charged' = charged /\ guard' = guard /\ size \in Sizes /\ charged \in Nat
  BY <1>1 DEF vars, turnVars, EInv
<1>3. run # "dead" /\ JournalIsTrue /\ SpendIsOnFile
  BY DEF EInv, FinalizePoisoned, FinalizeRefused, BindArtefact
<1>4. (JournalIsTrue /\ SpendIsOnFile)'
  <2>1. CASE FinalizePoisoned
    <3>1. bound' = bound /\ writer' = [writer EXCEPT !.closed = TRUE] /\ writer \in WriterSet
      BY <2>1 DEF FinalizePoisoned, Closed, EInv, FinishingInv
    <3>2. writer'.next = writer.next /\ writer'.calls = writer.calls /\ writer'.poisoned = writer.poisoned
      BY <3>1 DEF WriterSet
    <3> QED BY <1>1, <1>2, <1>3, <3>1, <3>2, SameTrue
  <2>2. CASE FinalizeRefused
    <3>1. UNCHANGED <<writer, bound>>
      BY <2>2 DEF FinalizeRefused
    <3> QED BY <1>1, <1>2, <1>3, <3>1, SameTrue
  <2>3. CASE BindArtefact
    <3>1. /\ run = "sealed" /\ ~writer.poisoned /\ writer' = writer
          /\ bound' = [tip |-> writer.next, calls |-> writer.calls]
      BY <2>3 DEF BindArtefact
    <3>2. Verdict(file) = "scored"
      BY <3>1 DEF EInv, SealedInv
    <3>3. Len(file.rows) = writer.next /\ CallsOn(file) = writer.calls
      BY <1>3, <3>1 DEF JournalIsTrue, JournalIsReadable
    <3>4. bound'.tip = Len(file.rows) /\ bound'.calls = CallsOn(file)
      BY <3>1, <3>3
    <3> QED BY <1>1, <1>2, <1>3, <3>1, <3>2, <3>4, SameTrue
  <2> QED BY <2>1, <2>2, <2>3
<1> QED
  BY <1>1, <1>2, <1>4
     DEF EInv, FreshInv, BetweenInv, DecidingInv, AnsweredInv, RaisedInv, FinishingInv, SealedInv

-----------------------------------------------------------------------------
(* The results about the journal.                                            *)

\* The episode's invariant.
THEOREM EpisodeInductive == EpisodeSpec => []EInv
<1>1. EInv /\ [EpisodeNext]_allVars => EInv'
  <2> SUFFICES ASSUME EInv, [EpisodeNext]_allVars PROVE EInv'
    OBVIOUS
  <2>1. CASE UNCHANGED allVars
    <3>1. UNCHANGED <<vars, run, how, code, failure, pending, stop, writer, file, bound>>
      BY <2>1 DEF allVars, episodeVars, evidenceVars
    <3>2. IInv => IInv'
      BY <3>1, ExecutorStands
    <3>3. /\ UNCHANGED <<guard, pc, size, attempts, record, reason, result, charged, run, how, pending,
                         stop, writer, file, bound>>
      BY <3>1 DEF vars, turnVars
    <3>4. /\ Whole' = Whole /\ Booked' = Booked /\ Covered' = Covered /\ NotRefused' = NotRefused
          /\ TurnInv' = TurnInv /\ Within(Slack)' = Within(Slack)
      BY <3>3 DEF Whole, Booked, Covered, NotRefused, TurnInv, BookedInTurn, Within, Slack, Bill,
                  Price, Settled, OnFile, Open, Escaped
    <3>5. (JournalIsTrue /\ SpendIsOnFile)' = (JournalIsTrue /\ SpendIsOnFile)
      BY <3>3 DEF JournalIsTrue, JournalIsReadable, EndingIsTrue, BindingIsDurable, SpendIsOnFile, Price
    <3> QED BY <3>2, <3>3, <3>4, <3>5
               DEF EInv, FreshInv, BetweenInv, DecidingInv, AnsweredInv, RaisedInv, FinishingInv,
                   SealedInv
  <2> QED BY <2>1, OpenKeeps, StartTurnKeeps, LeaveKeeps, CrashKeeps, TurnKeeps, ObservedKeeps,
             BindDecisionKeeps, AbandonKeeps, FinalizeKeeps, FinalKeeps DEF EpisodeNext, Progress
<1> QED BY <1>1, EInvInit, PTL DEF EpisodeSpec

\* Whatever append fails, and wherever the process dies, the journal reads as a
\* verifiable prefix of what happened, an ending on file is the ending the run had,
\* and an artefact is bound to what stands there (execution_ledger.py, _append;
\* runner.py, run_episode).
THEOREM JournalTrue == EpisodeSpec => []JournalIsTrue
<1>1. EInv => JournalIsTrue
  BY DEF EInv
<1> QED BY <1>1, EpisodeInductive, PTL

\* A run that reads as ended accounts for all the guard spent and the provider
\* billed; one cut short misses at most the bill of its last turn (evidence.py,
\* observe_provider_turn to finalize).
THEOREM SpendOnFile == EpisodeSpec => []SpendIsOnFile
<1>1. EInv => SpendIsOnFile
  BY DEF EInv
<1> QED BY <1>1, EpisodeInductive, PTL
=============================================================================

--------------------------- MODULE BenchRunProofs ---------------------------
(***************************************************************************)
(* That the books of a resumable run are true, and that nothing follows    *)
(* its end, for every plan, cap, price and number of invocations.          *)
(*                                                                         *)
(* The guard is rebuilt from the rows by every invocation, so the argument *)
(* runs over the rows: what they add up to, with what the episode at work  *)
(* adds, is what the guard holds and what the cap was compared with.  What *)
(* the provider billed is under that, but for what a failed append or a    *)
(* killed process has lost.                                                *)
(***************************************************************************)
EXTENDS BenchRun, SumProofs

Places == {"away", "plan", "turn", "flight", "append", "report"}
Outcomes == {"ended", "terminal", "cap", "breach"}

RowSet == [episode : Nat, execution : Nat, outcome : Outcomes, measured : Nat,
           exposure : Nat, authorised : Nat, forfeited : Nat]
FileSet == [rows : Seq(RowSet), torn : BOOLEAN]
RunSet == [pc : Places, resumed : Nat, executed : Nat, stop : Stops \cup {Unlimited},
           starts : Nat]
GuardSet == [measured : Nat, exposure : Nat, episodeExposure : Nat, pending : Nat]
EpisodeSet == [turns : Nat, attempts : Nat, request : Nat, usage : Nat, authorised : Nat,
               forfeited : Nat, billed : Nat, outcome : Outcomes]
ActualSet == [billed : Nat, overrun : Nat, lost : Nat]

Shapes ==
  /\ manifest \in Nat /\ file \in FileSet /\ run \in RunSet
  /\ guard \in GuardSet /\ episode \in EpisodeSet /\ actual \in ActualSet

InEpisode == run.pc \in {"turn", "flight", "append"}

\* Where the invocation is on the plan, and what the ledger lets it do there.
Position ==
  /\ manifest = 0 => file.rows = <<>> /\ run.pc = "away"
  /\ run.pc # "away" => Done = Len(file.rows) /\ ~file.torn
  /\ run.pc \notin {"away", "report"} => ~Terminated(file.rows)
  /\ InEpisode => Done < Plan
  /\ ~InEpisode => episode = NewEpisode
  /\ run.pc \in {"turn", "flight"} => episode.outcome = "ended"

\* What the episode at work has cost, against its row and its reservations.
Accounted ==
  /\ InEpisode => guard.episodeExposure = episode.forfeited
  /\ episode.outcome # "breach" => episode.usage <= episode.authorised
  /\ episode.billed <= episode.usage + episode.forfeited

\* What was billed and what was written, against each other and the cap.
Paid ==
  LET written == Recovered(file.rows).measured + Recovered(file.rows).exposure IN
  /\ actual.billed <= written + actual.lost + episode.billed
  /\ written + episode.usage + episode.forfeited <= Cap + actual.overrun
  /\ run.pc = "flight" => guard.measured + guard.exposure + guard.pending <= Cap

IInv == Shapes /\ Position /\ Accounted /\ GuardMatchesRecord /\ Paid /\ LedgerIsSound

-----------------------------------------------------------------------------
(* What rows add up to.                                                      *)

\* recovered_spend is natural over any rows.
LEMMA RecoveredType ==
  ASSUME NEW rows \in Seq(RowSet)
  PROVE  Recovered(rows).measured \in Nat /\ Recovered(rows).exposure \in Nat
<1>1. Len(rows) \in Nat /\ DOMAIN rows = 1 .. Len(rows)
  OBVIOUS
<1>2. /\ [i \in DOMAIN rows |-> rows[i].measured] \in [1 .. Len(rows) -> Nat]
      /\ [i \in DOMAIN rows |-> rows[i].exposure] \in [1 .. Len(rows) -> Nat]
  <2>1. \A i \in 1 .. Len(rows) : rows[i] \in RowSet
    OBVIOUS
  <2>2. \A r \in RowSet : r.measured \in Nat /\ r.exposure \in Nat
    BY DEF RowSet
  <2> QED BY <1>1, <2>1, <2>2
<1> QED
  BY <1>1, <1>2, TotalOfSequence DEF Recovered

\* It is nothing over none.
LEMMA RecoveredNothing == Recovered(<<>>).measured = 0 /\ Recovered(<<>>).exposure = 0
<1>1. /\ [i \in DOMAIN <<>> |-> <<>>[i].measured] \in [1 .. 0 -> Nat]
      /\ [i \in DOMAIN <<>> |-> <<>>[i].exposure] \in [1 .. 0 -> Nat]
  OBVIOUS
<1> QED
  BY <1>1, TotalOfSequence DEF Recovered

\* A row appended adds what it states, whatever the rows before it.
LEMMA RecoveredMore ==
  ASSUME NEW rows \in Seq(RowSet), NEW row \in RowSet
  PROVE  /\ Recovered(Append(rows, row)).measured = Recovered(rows).measured + row.measured
         /\ Recovered(Append(rows, row)).exposure = Recovered(rows).exposure + row.exposure
<1> DEFINE n == Len(rows)
           more == Append(rows, row)
           M(s) == [i \in DOMAIN s |-> s[i].measured]
           X(s) == [i \in DOMAIN s |-> s[i].exposure]
<1>1. n \in Nat /\ DOMAIN rows = 1 .. n /\ DOMAIN more = 1 .. n + 1
  OBVIOUS
<1>2. (\A i \in 1 .. n : more[i] = rows[i]) /\ more[n + 1] = row
  OBVIOUS
<1>3. \A i \in 1 .. n : rows[i].measured \in Nat /\ rows[i].exposure \in Nat
  <2>1. \A i \in 1 .. n : rows[i] \in RowSet
    OBVIOUS
  <2>2. \A r \in RowSet : r.measured \in Nat /\ r.exposure \in Nat
    BY DEF RowSet
  <2> QED BY <2>1, <2>2
<1>4. row.measured \in Nat /\ row.exposure \in Nat
  BY DEF RowSet
<1> HIDE DEF n, more
<1>5. /\ M(rows) \in [1 .. n -> Nat] /\ M(more) \in [1 .. n + 1 -> Nat]
      /\ \A i \in 1 .. n : M(more)[i] = M(rows)[i]
      /\ M(more)[n + 1] = row.measured
  BY <1>1, <1>2, <1>3, <1>4
<1>6. /\ X(rows) \in [1 .. n -> Nat] /\ X(more) \in [1 .. n + 1 -> Nat]
      /\ \A i \in 1 .. n : X(more)[i] = X(rows)[i]
      /\ X(more)[n + 1] = row.exposure
  BY <1>1, <1>2, <1>3, <1>4
<1> HIDE DEF M, X
<1>7. SumFunction(M(more)) = SumFunction(M(rows)) + row.measured
  BY <1>1, <1>5, TotalOfLonger
<1>8. SumFunction(X(more)) = SumFunction(X(rows)) + row.exposure
  BY <1>1, <1>6, TotalOfLonger
<1> QED
  BY <1>7, <1>8 DEF M, X, Recovered, more

-----------------------------------------------------------------------------
(* Steps of an invocation.                                                   *)

\* Where the invocation moves, the rest of it stays.
LEMMA RunMoves ==
  ASSUME run \in RunSet, NEW p \in Places
  PROVE  LET r == [run EXCEPT !.pc = p]
         IN /\ r \in RunSet /\ r.pc = p
            /\ r.resumed = run.resumed /\ r.executed = run.executed
BY DEF RunSet

\* What the books are about are naturals.
LEMMA Amounts ==
  ASSUME Shapes
  PROVE  /\ file.rows \in Seq(RowSet) /\ Len(file.rows) \in Nat /\ file.torn \in BOOLEAN
         /\ Recovered(file.rows).measured \in Nat /\ Recovered(file.rows).exposure \in Nat
         /\ guard.measured \in Nat /\ guard.exposure \in Nat
         /\ guard.episodeExposure \in Nat /\ guard.pending \in Nat
         /\ episode.usage \in Nat /\ episode.authorised \in Nat
         /\ episode.forfeited \in Nat /\ episode.billed \in Nat
         /\ actual.billed \in Nat /\ actual.overrun \in Nat /\ actual.lost \in Nat
<1>1. file.rows \in Seq(RowSet) /\ file.torn \in BOOLEAN
  BY DEF Shapes, FileSet
<1>2. Recovered(file.rows).measured \in Nat /\ Recovered(file.rows).exposure \in Nat
  BY <1>1, RecoveredType
<1> QED
  BY <1>1, <1>2 DEF Shapes, GuardSet, EpisodeSet, ActualSet

\* A step inside an episode writes nothing.
LEMMA EpisodeStepKeeps ==
  ASSUME IInv, run.pc \in {"turn", "flight"}, NEW p \in {"turn", "flight", "append"},
         run' = [run EXCEPT !.pc = p], UNCHANGED <<manifest, file>>,
         guard' \in GuardSet, episode' \in EpisodeSet, actual' \in ActualSet,
         p # "append" => episode'.outcome = "ended",
         Accounted', GuardMatchesRecord', Paid'
  PROVE  IInv'
<1>1. run' \in RunSet /\ run'.pc = p /\ Done' = Done
  BY RunMoves DEF IInv, Shapes, Places, Done
<1>2. Shapes'
  BY <1>1 DEF IInv, Shapes
<1>3. Position'
  BY <1>1 DEF IInv, Position, InEpisode
<1>4. LedgerIsSound'
  BY DEF IInv, LedgerIsSound, LedgerIsAPrefix, RowsAreDerivable, CostAdmissible
<1> QED
  BY <1>2, <1>3, <1>4 DEF IInv

\* One that costs nothing keeps the books, too.
LEMMA QuietStepKeeps ==
  ASSUME IInv, run.pc \in {"turn", "flight"}, NEW p \in {"turn", "flight", "append"},
         run' = [run EXCEPT !.pc = p], UNCHANGED <<manifest, file, actual>>,
         guard' \in GuardSet, episode' \in EpisodeSet,
         p # "append" => episode'.outcome = "ended", episode'.outcome # "breach",
         guard'.measured = guard.measured, guard'.exposure = guard.exposure,
         guard'.episodeExposure = guard.episodeExposure,
         episode'.usage = episode.usage, episode'.authorised = episode.authorised,
         episode'.forfeited = episode.forfeited, episode'.billed = episode.billed,
         p = "flight" => guard.measured + guard.exposure + guard'.pending <= Cap
  PROVE  IInv'
<1>1. run'.pc = p
  BY RunMoves DEF IInv, Shapes, Places
<1>2. Accounted'
  BY <1>1 DEF IInv, Accounted, Position, InEpisode
<1>3. Recovered(file.rows)' = Recovered(file.rows)
  OBVIOUS
<1>4. GuardMatchesRecord'
  BY <1>3 DEF IInv, GuardMatchesRecord
<1>5. Paid'
  BY <1>1, <1>3 DEF IInv, Paid
<1> QED
  BY <1>2, <1>4, <1>5, EpisodeStepKeeps DEF IInv, Shapes

\* A reservation is made only under the cap.
LEMMA AttemptKeeps ==
  ASSUME IInv, NEW r \in Reservations, Attempt(r)
  PROVE  IInv'
<1>1. /\ run.pc = "turn" /\ run' = [run EXCEPT !.pc = "flight"]
      /\ guard' = [guard EXCEPT !.pending = r]
      /\ episode' = [episode EXCEPT !.attempts = @ + 1, !.request = r]
      /\ UNCHANGED <<manifest, file, actual>>
      /\ guard.measured + guard.exposure + r <= Cap
  BY DEF Attempt, Authorizes
<1>2. r \in Nat
  BY BenchAssumption
<1>3. /\ guard' \in GuardSet /\ guard'.pending = r
      /\ guard'.measured = guard.measured /\ guard'.exposure = guard.exposure
      /\ guard'.episodeExposure = guard.episodeExposure
  BY <1>1, <1>2 DEF IInv, Shapes, GuardSet
<1>4. /\ episode' \in EpisodeSet /\ episode'.outcome = episode.outcome
      /\ episode'.usage = episode.usage /\ episode'.authorised = episode.authorised
      /\ episode'.forfeited = episode.forfeited /\ episode'.billed = episode.billed
  <2>1. \A e \in EpisodeSet, n \in Nat :
          LET f == [e EXCEPT !.attempts = n, !.request = r]
          IN /\ f \in EpisodeSet /\ f.outcome = e.outcome
             /\ f.usage = e.usage /\ f.authorised = e.authorised
             /\ f.forfeited = e.forfeited /\ f.billed = e.billed
    BY <1>2 DEF EpisodeSet
  <2>2. episode \in EpisodeSet /\ episode.attempts + 1 \in Nat
    BY DEF IInv, Shapes, EpisodeSet
  <2> QED BY <1>1, <2>1, <2>2
<1>5. episode.outcome = "ended"
  BY <1>1 DEF IInv, Position
<1> QED
  BY <1>1, <1>3, <1>4, <1>5, QuietStepKeeps

\* A refused reservation ends the episode as cap_reached and costs nothing.
LEMMA CapReachedKeeps ==
  ASSUME IInv, NEW r \in Reservations, CapReached(r)
  PROVE  IInv'
<1>1. /\ run.pc = "turn" /\ run' = [run EXCEPT !.pc = "append"]
      /\ episode' = [episode EXCEPT !.outcome = "cap"]
      /\ UNCHANGED <<manifest, file, guard, actual>>
  BY DEF CapReached, Finish
<1>2. /\ episode' \in EpisodeSet /\ episode'.outcome = "cap"
      /\ episode'.usage = episode.usage /\ episode'.authorised = episode.authorised
      /\ episode'.forfeited = episode.forfeited /\ episode'.billed = episode.billed
  BY <1>1 DEF IInv, Shapes, EpisodeSet, Outcomes
<1>3. guard' \in GuardSet
  BY <1>1 DEF IInv, Shapes
<1> QED
  BY <1>1, <1>2, <1>3, QuietStepKeeps

\* So does an episode that just ends,
LEMMA EpisodeEndsKeeps == IInv /\ EpisodeEnds => IInv'
<1> SUFFICES ASSUME IInv, EpisodeEnds PROVE IInv'
  OBVIOUS
<1>1. /\ run.pc = "turn" /\ run' = [run EXCEPT !.pc = "append"]
      /\ UNCHANGED <<manifest, file, guard, episode, actual>>
  BY DEF EpisodeEnds, Finish
<1>2. guard' \in GuardSet /\ episode' \in EpisodeSet /\ episode'.outcome = "ended"
  BY <1>1 DEF IInv, Shapes, Position
<1> QED
  BY <1>1, <1>2, QuietStepKeeps

\* and one whose request never left.
LEMMA UndispatchedKeeps == IInv /\ Undispatched => IInv'
<1> SUFFICES ASSUME IInv, Undispatched PROVE IInv'
  OBVIOUS
<1>1. /\ run.pc = "flight" /\ run' = [run EXCEPT !.pc = "append"]
      /\ guard' = [guard EXCEPT !.pending = 0]
      /\ UNCHANGED <<manifest, file, episode, actual>>
  BY DEF Undispatched, Finish, Cancel
<1>2. episode' \in EpisodeSet /\ episode'.outcome = "ended"
  BY <1>1 DEF IInv, Shapes, Position
<1>3. /\ guard' \in GuardSet
      /\ guard'.measured = guard.measured /\ guard'.exposure = guard.exposure
      /\ guard'.episodeExposure = guard.episodeExposure
  BY <1>1 DEF IInv, Shapes, GuardSet
<1> QED
  BY <1>1, <1>2, <1>3, QuietStepKeeps

-----------------------------------------------------------------------------
(* What an answered attempt adds: to the guard, to the bill, to the episode.  *)

\* forfeit: the reservation becomes exposure, of the run and of the episode.
LEMMA ForfeitIs ==
  ASSUME NEW g \in GuardSet
  PROVE  /\ Forfeit(g) \in GuardSet
         /\ Forfeit(g).measured = g.measured /\ Forfeit(g).exposure = g.exposure + g.pending
         /\ Forfeit(g).episodeExposure = g.episodeExposure + g.pending
<1>1. ASSUME NEW x \in Nat, NEW y \in Nat
      PROVE  LET h == [g EXCEPT !.exposure = x, !.episodeExposure = y, !.pending = 0]
             IN /\ h \in GuardSet /\ h.measured = g.measured
                /\ h.exposure = x /\ h.episodeExposure = y
  BY DEF GuardSet
<1>2. g.exposure + g.pending \in Nat /\ g.episodeExposure + g.pending \in Nat
  BY DEF GuardSet
<1> QED
  BY <1>1, <1>2 DEF Forfeit

\* settle: what was measured, in place of the reservation.
LEMMA SettleIs ==
  ASSUME NEW g \in GuardSet, NEW c \in Nat
  PROVE  /\ Settle(g, c) \in GuardSet
         /\ Settle(g, c).measured = g.measured + c /\ Settle(g, c).exposure = g.exposure
         /\ Settle(g, c).episodeExposure = g.episodeExposure
<1>1. ASSUME NEW x \in Nat
      PROVE  LET h == [g EXCEPT !.measured = x, !.pending = 0]
             IN /\ h \in GuardSet /\ h.measured = x
                /\ h.exposure = g.exposure /\ h.episodeExposure = g.episodeExposure
  BY DEF GuardSet
<1>2. g.measured + c \in Nat
  BY DEF GuardSet
<1> QED
  BY <1>1, <1>2 DEF Settle

\* _accumulate_usage, and what the attempt had reserved.
LEMMA MeasureIs ==
  ASSUME NEW c \in Nat, episode \in EpisodeSet, guard \in GuardSet
  PROVE  /\ Measure(c) \in EpisodeSet
         /\ Measure(c).usage = episode.usage + c
         /\ Measure(c).authorised = episode.authorised + guard.pending
         /\ Measure(c).billed = episode.billed + c
         /\ Measure(c).forfeited = episode.forfeited
         /\ Measure(c).outcome = episode.outcome
<1>1. /\ episode.usage + c \in Nat /\ episode.authorised + guard.pending \in Nat
      /\ episode.billed + c \in Nat
  BY DEF EpisodeSet, GuardSet
<1>2. PICK x \in Nat, y \in Nat, z \in Nat :
        /\ x = episode.usage + c /\ y = episode.authorised + guard.pending
        /\ z = episode.billed + c
  BY <1>1
<1> DEFINE d == [episode EXCEPT !.usage = x, !.authorised = y, !.billed = z]
<1>3. /\ d \in EpisodeSet /\ d.usage = x /\ d.authorised = y /\ d.billed = z
      /\ d.forfeited = episode.forfeited /\ d.outcome = episode.outcome
  BY DEF EpisodeSet
<1>4. Measure(c) = d
  BY <1>2 DEF Measure
<1> HIDE DEF d
<1> QED
  BY <1>2, <1>3, <1>4

\* The provider's account: what it billed, and by how much more than reserved.
LEMMA BillIs ==
  ASSUME NEW c \in Nat, actual \in ActualSet, guard \in GuardSet, Bill(c)
  PROVE  /\ actual' \in ActualSet
         /\ actual'.billed = actual.billed + c
         /\ actual'.overrun = actual.overrun + Excess(c, guard.pending)
         /\ actual'.lost = actual.lost
<1>1. ASSUME NEW x \in Nat, NEW y \in Nat
      PROVE  LET a == [actual EXCEPT !.billed = x, !.overrun = y]
             IN a \in ActualSet /\ a.billed = x /\ a.overrun = y /\ a.lost = actual.lost
  BY DEF ActualSet
<1>2. Excess(c, guard.pending) \in Nat
  BY DEF GuardSet, Excess
<1>3. actual.billed + c \in Nat /\ actual.overrun + Excess(c, guard.pending) \in Nat
  BY <1>2 DEF ActualSet
<1> QED
  BY <1>1, <1>3 DEF Bill

\* What an attempt without a measure adds to the episode.
LEMMA ForfeitedIs ==
  ASSUME NEW c \in Nat, episode \in EpisodeSet, guard \in GuardSet
  PROVE  LET e == [episode EXCEPT !.forfeited = @ + guard.pending, !.billed = @ + c]
         IN /\ e \in EpisodeSet /\ e.forfeited = episode.forfeited + guard.pending
            /\ e.billed = episode.billed + c /\ e.usage = episode.usage
            /\ e.authorised = episode.authorised /\ e.outcome = episode.outcome
<1>1. ASSUME NEW x \in Nat, NEW y \in Nat
      PROVE  LET d == [episode EXCEPT !.forfeited = x, !.billed = y]
             IN /\ d \in EpisodeSet /\ d.forfeited = x /\ d.billed = y
                /\ d.usage = episode.usage /\ d.authorised = episode.authorised
                /\ d.outcome = episode.outcome
  BY DEF EpisodeSet
<1>2. episode.forfeited + guard.pending \in Nat /\ episode.billed + c \in Nat
  BY DEF EpisodeSet, GuardSet
<1> QED
  BY <1>1, <1>2

\* The next turn counts, and costs nothing by itself.
LEMMA NextTurnIs ==
  ASSUME NEW e \in EpisodeSet
  PROVE  LET n == [e EXCEPT !.turns = @ + 1, !.attempts = 0]
         IN /\ n \in EpisodeSet /\ n.usage = e.usage /\ n.authorised = e.authorised
            /\ n.forfeited = e.forfeited /\ n.billed = e.billed /\ n.outcome = e.outcome
<1>1. ASSUME NEW x \in Nat
      PROVE  LET n == [e EXCEPT !.turns = x, !.attempts = 0]
             IN /\ n \in EpisodeSet /\ n.usage = e.usage /\ n.authorised = e.authorised
                /\ n.forfeited = e.forfeited /\ n.billed = e.billed /\ n.outcome = e.outcome
  BY DEF EpisodeSet
<1>2. e.turns + 1 \in Nat
  BY DEF EpisodeSet
<1> QED
  BY <1>1, <1>2

\* Nor does the outcome.
LEMMA OutcomeIs ==
  ASSUME NEW e \in EpisodeSet, NEW o \in Outcomes
  PROVE  LET n == [e EXCEPT !.outcome = o]
         IN /\ n \in EpisodeSet /\ n.usage = e.usage /\ n.authorised = e.authorised
            /\ n.forfeited = e.forfeited /\ n.billed = e.billed /\ n.outcome = o
  BY DEF EpisodeSet

\* The rows are what they were while an episode is at work.
LEMMA RecordStays ==
  ASSUME UNCHANGED file
  PROVE  Recovered(file.rows)' = Recovered(file.rows)
OBVIOUS

\* What is added to the guard is added to the episode; what is billed is covered
\* by it, or is an overrun.
LEMMA AnswerKeeps ==
  ASSUME IInv, run.pc = "flight", NEW b \in Nat, Bill(b), UNCHANGED <<manifest, file>>,
         NEW m \in Nat, NEW x \in Nat, NEW a \in Nat,
         guard' \in GuardSet, guard'.measured = guard.measured + m,
         guard'.exposure = guard.exposure + x,
         guard'.episodeExposure = guard.episodeExposure + x,
         episode' \in EpisodeSet, episode'.usage = episode.usage + m,
         episode'.authorised = episode.authorised + a,
         episode'.forfeited = episode.forfeited + x, episode'.billed = episode.billed + b,
         b <= m + x, m + x <= guard.pending + Excess(b, guard.pending),
         episode'.outcome = "breach" \/ m <= a,
         NEW p \in {"turn", "append"}, run' = [run EXCEPT !.pc = p],
         p = "turn" => episode'.outcome = "ended"
  PROVE  IInv'
<1>1. run'.pc = p
  BY RunMoves DEF IInv, Shapes, Places
<1>2. /\ actual' \in ActualSet /\ actual'.billed = actual.billed + b
      /\ actual'.overrun = actual.overrun + Excess(b, guard.pending)
      /\ actual'.lost = actual.lost
  BY BillIs DEF IInv, Shapes
<1>3. Excess(b, guard.pending) \in Nat
  BY Amounts DEF IInv, Excess
<1>4. episode.outcome = "ended"
  BY DEF IInv, Position
<1>5. Accounted'
  <2>1. guard.episodeExposure = episode.forfeited /\ episode.usage <= episode.authorised
        /\ episode.billed <= episode.usage + episode.forfeited
    BY <1>4 DEF IInv, Accounted, InEpisode
  <2>2. /\ episode.usage \in Nat /\ episode.authorised \in Nat
        /\ episode.forfeited \in Nat /\ episode.billed \in Nat
    BY Amounts DEF IInv
  <2>3. episode'.billed <= episode'.usage + episode'.forfeited
    BY <2>1, <2>2
  <2>4. episode'.outcome # "breach" => episode'.usage <= episode'.authorised
    BY <2>1, <2>2
  <2> QED BY <2>1, <2>3, <2>4 DEF Accounted
<1> DEFINE M == Recovered(file.rows).measured
           X == Recovered(file.rows).exposure
<1>6. /\ M \in Nat /\ X \in Nat /\ M' = M /\ X' = X
      /\ guard.pending \in Nat /\ episode.usage \in Nat /\ episode.forfeited \in Nat
      /\ episode.billed \in Nat /\ actual.billed \in Nat /\ actual.overrun \in Nat
      /\ actual.lost \in Nat /\ Cap \in Nat
  BY Amounts, RecordStays, BenchAssumption DEF IInv
<1>7. guard.measured = M + episode.usage /\ guard.exposure = X + episode.forfeited
  BY DEF IInv, GuardMatchesRecord
<1>8. actual.billed <= M + X + actual.lost + episode.billed
  BY DEF IInv, Paid
<1>9. guard.measured + guard.exposure + guard.pending <= Cap
  BY DEF IInv, Paid
<1> HIDE DEF M, X
<1>10. guard'.measured = M + episode'.usage /\ guard'.exposure = X + episode'.forfeited
  BY <1>6, <1>7
<1>11. actual'.billed <= M + X + actual'.lost + episode'.billed
  BY <1>2, <1>6, <1>8
<1>12. M + X + episode'.usage + episode'.forfeited <= Cap + actual'.overrun
  BY <1>2, <1>3, <1>6, <1>7, <1>9
<1>13. GuardMatchesRecord'
  BY <1>6, <1>10 DEF GuardMatchesRecord, M, X
<1>14. Paid'
  BY <1>1, <1>6, <1>11, <1>12 DEF Paid, M, X
<1> QED
  BY <1>2, <1>5, <1>13, <1>14, EpisodeStepKeeps

\* The reservation of an attempt that nothing was measured of becomes exposure,
\* and covers whatever it was billed.
LEMMA UnmeasuredKeeps ==
  ASSUME IInv, NEW b \in 0 .. MaxBill, Unmeasured(b)
  PROVE  IInv'
<1>1. /\ run.pc = "flight" /\ b <= guard.pending /\ guard' = Forfeit(guard) /\ Bill(b)
      /\ UNCHANGED <<manifest, file>>
  BY DEF Unmeasured
<1>2. b \in Nat /\ guard.pending \in Nat /\ Excess(b, guard.pending) = 0
  BY <1>1, Amounts, BenchAssumption DEF IInv, Excess
<1>3. guard \in GuardSet /\ episode \in EpisodeSet /\ episode.outcome = "ended"
  BY <1>1 DEF IInv, Shapes, Position
<1>4. /\ guard' \in GuardSet /\ guard'.measured = guard.measured + 0
      /\ guard'.exposure = guard.exposure + guard.pending
      /\ guard'.episodeExposure = guard.episodeExposure + guard.pending
  <2>1. guard.measured \in Nat
    BY <1>3 DEF GuardSet
  <2> QED BY <1>1, <1>3, <2>1, ForfeitIs
<1> DEFINE e == [episode EXCEPT !.forfeited = @ + guard.pending, !.billed = @ + b]
<1>5. /\ e \in EpisodeSet /\ e.forfeited = episode.forfeited + guard.pending
      /\ e.billed = episode.billed + b /\ e.usage = episode.usage
      /\ e.authorised = episode.authorised /\ e.outcome = "ended"
  BY <1>2, <1>3, ForfeitedIs
<1>6. \/ episode' = e /\ run' = [run EXCEPT !.pc = "turn"]
      \/ episode' = [e EXCEPT !.turns = @ + 1, !.attempts = 0] /\ run' = [run EXCEPT !.pc = "turn"]
      \/ \E o \in {"ended", "terminal"} :
           episode' = [e EXCEPT !.outcome = o] /\ run' = [run EXCEPT !.pc = "append"]
  BY DEF Unmeasured, Finish
<1> HIDE DEF e
<1>7. PICK p \in {"turn", "append"} :
        /\ run' = [run EXCEPT !.pc = p] /\ episode' \in EpisodeSet
        /\ episode'.forfeited = episode.forfeited + guard.pending
        /\ episode'.billed = episode.billed + b /\ episode'.usage = episode.usage
        /\ episode'.authorised = episode.authorised
        /\ episode'.outcome # "breach" /\ (p = "turn" => episode'.outcome = "ended")
  <2>1. CASE episode' = e /\ run' = [run EXCEPT !.pc = "turn"]
    BY <1>5, <2>1
  <2>2. CASE episode' = [e EXCEPT !.turns = @ + 1, !.attempts = 0]
             /\ run' = [run EXCEPT !.pc = "turn"]
    BY <1>5, <2>2, NextTurnIs
  <2>3. CASE \E o \in {"ended", "terminal"} :
               episode' = [e EXCEPT !.outcome = o] /\ run' = [run EXCEPT !.pc = "append"]
    <3>1. PICK o \in {"ended", "terminal"} :
            episode' = [e EXCEPT !.outcome = o] /\ run' = [run EXCEPT !.pc = "append"]
      BY <2>3
    <3>2. o \in Outcomes
      BY DEF Outcomes
    <3> QED BY <1>5, <3>1, <3>2, OutcomeIs
  <2> QED BY <1>6, <2>1, <2>2, <2>3
<1>8. /\ episode'.usage = episode.usage + 0 /\ episode'.authorised = episode.authorised + 0
  <2>1. episode.usage \in Nat /\ episode.authorised \in Nat
    BY <1>3 DEF EpisodeSet
  <2> QED BY <1>7, <2>1
<1>9. b <= 0 + guard.pending /\ 0 + guard.pending <= guard.pending + Excess(b, guard.pending)
  BY <1>1, <1>2
<1> QED
  BY <1>1, <1>2, <1>4, <1>7, <1>8, <1>9, AnswerKeeps

\* A measured answer costs what it says, within its reservation.
LEMMA MeasuredKeeps ==
  ASSUME IInv, NEW c \in 0 .. MaxBill, Measured(c)
  PROVE  IInv'
<1>1. /\ run.pc = "flight" /\ c <= guard.pending /\ guard' = Settle(guard, c) /\ Bill(c)
      /\ episode' = [Measure(c) EXCEPT !.turns = @ + 1, !.attempts = 0]
      /\ run' = [run EXCEPT !.pc = "turn"] /\ UNCHANGED <<manifest, file>>
  BY DEF Measured
<1>2. c \in Nat /\ guard.pending \in Nat /\ Excess(c, guard.pending) = 0
  BY <1>1, Amounts, BenchAssumption DEF IInv, Excess
<1>3. guard \in GuardSet /\ episode \in EpisodeSet /\ episode.outcome = "ended"
  BY <1>1 DEF IInv, Shapes, Position
<1>4. /\ guard' \in GuardSet /\ guard'.measured = guard.measured + c
      /\ guard'.exposure = guard.exposure + 0
      /\ guard'.episodeExposure = guard.episodeExposure + 0
  <2>1. guard.exposure \in Nat /\ guard.episodeExposure \in Nat
    BY <1>3 DEF GuardSet
  <2>2. /\ guard' \in GuardSet /\ guard'.measured = guard.measured + c
        /\ guard'.exposure = guard.exposure
        /\ guard'.episodeExposure = guard.episodeExposure
    BY <1>1, <1>2, <1>3, SettleIs
  <2> QED BY <2>1, <2>2
<1>5. /\ episode' \in EpisodeSet /\ episode'.usage = episode.usage + c
      /\ episode'.authorised = episode.authorised + guard.pending
      /\ episode'.billed = episode.billed + c /\ episode'.outcome = "ended"
      /\ episode'.forfeited = episode.forfeited + 0
  <2>1. episode.forfeited \in Nat
    BY <1>3 DEF EpisodeSet
  <2>2. /\ Measure(c) \in EpisodeSet /\ Measure(c).usage = episode.usage + c
        /\ Measure(c).authorised = episode.authorised + guard.pending
        /\ Measure(c).billed = episode.billed + c
        /\ Measure(c).forfeited = episode.forfeited
        /\ Measure(c).outcome = episode.outcome
    BY <1>2, <1>3, MeasureIs
  <2>3. /\ episode' \in EpisodeSet /\ episode'.usage = Measure(c).usage
        /\ episode'.authorised = Measure(c).authorised
        /\ episode'.billed = Measure(c).billed /\ episode'.outcome = Measure(c).outcome
        /\ episode'.forfeited = Measure(c).forfeited
    BY <1>1, <2>2, NextTurnIs
  <2> QED BY <1>3, <2>1, <2>2, <2>3
<1>6. c <= c + 0 /\ c + 0 <= guard.pending + Excess(c, guard.pending)
  BY <1>1, <1>2
<1> QED
  BY <1>1, <1>2, <1>4, <1>5, <1>6, AnswerKeeps

\* One above its reservation overruns it by the difference, and says so.
LEMMA BreachedKeeps ==
  ASSUME IInv, NEW c \in 0 .. MaxBill, Breached(c)
  PROVE  IInv'
<1>1. /\ run.pc = "flight" /\ c > guard.pending /\ guard' = Settle(guard, c) /\ Bill(c)
      /\ episode' = [Measure(c) EXCEPT !.outcome = "breach"]
      /\ run' = [run EXCEPT !.pc = "append"] /\ UNCHANGED <<manifest, file>>
  BY DEF Breached, Finish
<1>2. c \in Nat /\ guard.pending \in Nat /\ Excess(c, guard.pending) = c - guard.pending
  BY <1>1, Amounts, BenchAssumption DEF IInv, Excess
<1>3. guard \in GuardSet /\ episode \in EpisodeSet
  BY DEF IInv, Shapes
<1>4. /\ guard' \in GuardSet /\ guard'.measured = guard.measured + c
      /\ guard'.exposure = guard.exposure + 0
      /\ guard'.episodeExposure = guard.episodeExposure + 0
  <2>1. guard.exposure \in Nat /\ guard.episodeExposure \in Nat
    BY <1>3 DEF GuardSet
  <2>2. /\ guard' \in GuardSet /\ guard'.measured = guard.measured + c
        /\ guard'.exposure = guard.exposure
        /\ guard'.episodeExposure = guard.episodeExposure
    BY <1>1, <1>2, <1>3, SettleIs
  <2> QED BY <2>1, <2>2
<1>5. /\ episode' \in EpisodeSet /\ episode'.usage = episode.usage + c
      /\ episode'.authorised = episode.authorised + guard.pending
      /\ episode'.billed = episode.billed + c /\ episode'.outcome = "breach"
      /\ episode'.forfeited = episode.forfeited + 0
  <2>1. episode.forfeited \in Nat
    BY <1>3 DEF EpisodeSet
  <2>2. "breach" \in Outcomes
    BY DEF Outcomes
  <2>3. /\ Measure(c) \in EpisodeSet /\ Measure(c).usage = episode.usage + c
        /\ Measure(c).authorised = episode.authorised + guard.pending
        /\ Measure(c).billed = episode.billed + c
        /\ Measure(c).forfeited = episode.forfeited
        /\ Measure(c).outcome = episode.outcome
    BY <1>2, <1>3, MeasureIs
  <2>4. /\ episode' \in EpisodeSet /\ episode'.usage = Measure(c).usage
        /\ episode'.authorised = Measure(c).authorised
        /\ episode'.billed = Measure(c).billed /\ episode'.outcome = "breach"
        /\ episode'.forfeited = Measure(c).forfeited
    BY <1>1, <2>3, <2>2, OutcomeIs
  <2> QED BY <1>3, <2>1, <2>3, <2>4
<1>6. c <= c + 0 /\ c + 0 <= guard.pending + Excess(c, guard.pending)
  BY <1>1, <1>2
<1> QED
  BY <1>1, <1>2, <1>4, <1>5, <1>6, AnswerKeeps

-----------------------------------------------------------------------------
(* Between episodes.                                                         *)

\* A step that leaves no episode under way and touches neither the ledger nor
\* what it adds up to.
LEMMA FreshKeeps ==
  ASSUME IInv, UNCHANGED <<manifest, file>>, run' \in RunSet, guard' \in GuardSet,
         actual' \in ActualSet, episode' = NewEpisode, Position', GuardMatchesRecord',
         InEpisode' => guard'.episodeExposure = 0, run'.pc # "flight",
         actual'.overrun = actual.overrun,
         actual'.billed <= Recovered(file.rows).measured + Recovered(file.rows).exposure
                             + actual'.lost
  PROVE  IInv'
<1>1. /\ episode' \in EpisodeSet /\ episode'.usage = 0 /\ episode'.authorised = 0
      /\ episode'.forfeited = 0 /\ episode'.billed = 0
  BY DEF NewEpisode, EpisodeSet, Outcomes
<1>2. Shapes'
  BY <1>1 DEF IInv, Shapes
<1>3. LedgerIsSound'
  BY DEF IInv, LedgerIsSound, LedgerIsAPrefix, RowsAreDerivable, CostAdmissible
<1>4. Accounted'
  BY <1>1 DEF Accounted
<1>5. Paid'
  <2> DEFINE M == Recovered(file.rows).measured
             X == Recovered(file.rows).exposure
  <2>1. /\ M \in Nat /\ X \in Nat /\ M' = M /\ X' = X /\ Cap \in Nat
        /\ episode.usage \in Nat /\ episode.forfeited \in Nat
        /\ actual'.lost \in Nat /\ actual.overrun \in Nat
    BY Amounts, RecordStays, BenchAssumption DEF IInv, ActualSet
  <2>2. M + X + episode.usage + episode.forfeited <= Cap + actual.overrun
    BY DEF IInv, Paid
  <2>3. actual'.billed <= M + X + actual'.lost
    OBVIOUS
  <2> HIDE DEF M, X
  <2>4. M + X + 0 + 0 <= Cap + actual.overrun
    BY <2>1, <2>2
  <2>5. M + X + actual'.lost + 0 = M + X + actual'.lost
    BY <2>1
  <2> QED BY <1>1, <2>1, <2>3, <2>4, <2>5 DEF Paid, M, X
<1> QED
  BY <1>2, <1>3, <1>4, <1>5 DEF IInv

\* Outside an episode what was billed is written, or lost.
LEMMA NothingOpen ==
  ASSUME IInv, episode = NewEpisode
  PROVE  actual.billed <= Recovered(file.rows).measured + Recovered(file.rows).exposure
                            + actual.lost
<1>1. episode.billed = 0
  BY DEF NewEpisode
<1>2. actual.billed <= Recovered(file.rows).measured + Recovered(file.rows).exposure
                         + actual.lost + episode.billed
  BY DEF IInv, Paid
<1>3. /\ Recovered(file.rows).measured \in Nat /\ Recovered(file.rows).exposure \in Nat
      /\ actual.lost \in Nat
  BY Amounts DEF IInv
<1> QED
  BY <1>1, <1>2, <1>3

\* An invocation refused at the door changes nothing but the count of them.
LEMMA RefusedKeeps == IInv /\ Refused => IInv'
<1> SUFFICES ASSUME IInv, Refused PROVE IInv'
  OBVIOUS
<1>1. /\ run.pc = "away" /\ run' = [run EXCEPT !.starts = @ + 1]
      /\ UNCHANGED <<manifest, file, guard, episode, actual>>
  BY DEF Refused, MayOpen
<1>2. run' \in RunSet /\ run'.pc = "away"
  <2>1. PICK n \in Nat : n = run.starts + 1
    BY DEF IInv, Shapes, RunSet
  <2>2. run' = [run EXCEPT !.starts = n]
    BY <1>1, <2>1
  <2> QED BY <1>1, <2>2 DEF IInv, Shapes, RunSet
<1>3. episode = NewEpisode
  BY <1>1 DEF IInv, Position, InEpisode
<1>4. Position'
  BY <1>1, <1>2, <1>3 DEF IInv, Position, InEpisode
<1>5. GuardMatchesRecord'
  BY <1>2 DEF GuardMatchesRecord
<1>6. guard' \in GuardSet /\ actual' \in ActualSet /\ ~InEpisode'
  BY <1>1, <1>2 DEF IInv, Shapes, InEpisode
<1> QED
  BY <1>1, <1>2, <1>3, <1>4, <1>5, <1>6, NothingOpen, FreshKeeps

\* An episode begins with no exposure of its own.
LEMMA BeginKeeps == IInv /\ Begin => IInv'
<1> SUFFICES ASSUME IInv, Begin PROVE IInv'
  OBVIOUS
<1>1. /\ run.pc = "plan" /\ Done < Plan /\ run' = [run EXCEPT !.pc = "turn"]
      /\ guard' = [guard EXCEPT !.episodeExposure = 0] /\ episode' = NewEpisode
      /\ UNCHANGED <<manifest, file, actual>>
  BY DEF Begin, BeginEpisode
<1>2. run' \in RunSet /\ run'.pc = "turn" /\ Done' = Done
  BY <1>1, RunMoves DEF IInv, Shapes, Places, Done
<1>3. episode = NewEpisode
  BY <1>1 DEF IInv, Position, InEpisode
<1>4. Position'
  BY <1>1, <1>2 DEF IInv, Position, InEpisode, NewEpisode
<1>5. /\ guard' \in GuardSet /\ guard'.measured = guard.measured
      /\ guard'.exposure = guard.exposure /\ guard'.episodeExposure = 0
  BY <1>1 DEF IInv, Shapes, GuardSet
<1>6. GuardMatchesRecord'
  BY <1>1, <1>3, <1>5, RecordStays DEF IInv, GuardMatchesRecord
<1>7. actual' \in ActualSet
  BY <1>1 DEF IInv, Shapes
<1> QED
  BY <1>1, <1>2, <1>3, <1>4, <1>5, <1>6, <1>7, NothingOpen, FreshKeeps

\* Leaving forgets the guard and the counts, and nothing that is written.
LEMMA LeaveIs ==
  ASSUME Shapes, Leave
  PROVE  /\ run' \in RunSet /\ run'.pc = "away" /\ ~InEpisode'
         /\ guard' \in GuardSet /\ episode' = NewEpisode /\ GuardMatchesRecord'
<1>1. run' = Away(run.starts) /\ guard' = NewGuard /\ episode' = NewEpisode
  BY DEF Leave
<1>2. run.starts \in Nat
  BY DEF Shapes, RunSet
<1>3. run' \in RunSet /\ run'.pc = "away"
  BY <1>1, <1>2 DEF Away, RunSet, Places
<1>4. guard' \in GuardSet
  BY <1>1 DEF NewGuard, GuardSet
<1> QED
  BY <1>1, <1>3, <1>4 DEF GuardMatchesRecord, InEpisode

\* The report reads; whatever it finds, the invocation is over.
LEMMA ReportKeeps == IInv /\ Report => IInv'
<1> SUFFICES ASSUME IInv, Report PROVE IInv'
  OBVIOUS
<1>1. run.pc \in {"report", "plan"} /\ Leave /\ UNCHANGED <<manifest, file, actual>>
  BY DEF Report
<1>2. /\ run' \in RunSet /\ run'.pc = "away" /\ ~InEpisode'
      /\ guard' \in GuardSet /\ episode' = NewEpisode /\ GuardMatchesRecord'
  BY <1>1, LeaveIs DEF IInv
<1>3. episode = NewEpisode
  BY <1>1 DEF IInv, Position, InEpisode
<1>4. Position'
  BY <1>1, <1>2 DEF IInv, Position, InEpisode
<1>5. actual' \in ActualSet
  BY <1>1 DEF IInv, Shapes
<1> QED
  BY <1>1, <1>2, <1>3, <1>4, <1>5, NothingOpen, FreshKeeps

\* A new invocation starts from what the rows say.
LEMMA OpenKeeps ==
  ASSUME IInv, NEW stop \in Stops, Open(stop)
  PROVE  IInv'
<1>1. /\ run.pc = "away" /\ Readable(file) /\ ~Terminated(file.rows)
      /\ manifest' = IF manifest = 0 THEN run.starts + 1 ELSE manifest
      /\ run' = [run EXCEPT !.pc = "plan", !.starts = @ + 1, !.stop = stop,
                            !.resumed = Len(file.rows), !.executed = 0]
      /\ guard' = Seed(file.rows) /\ episode' = NewEpisode /\ UNCHANGED <<file, actual>>
  BY DEF Open, MayOpen, MayContinue, Adopt
<1>2. /\ file.rows \in Seq(RowSet) /\ Len(file.rows) \in Nat
      /\ Recovered(file.rows).measured \in Nat /\ Recovered(file.rows).exposure \in Nat
  BY Amounts DEF IInv
<1>3. run' \in RunSet /\ run'.pc = "plan" /\ Done' = Len(file.rows)
  <2>1. PICK n \in Nat, k \in Nat, s \in Stops \cup {Unlimited} :
          n = run.starts + 1 /\ k = Len(file.rows) /\ s = stop
    BY <1>2 DEF IInv, Shapes, RunSet
  <2> DEFINE r == [run EXCEPT !.pc = "plan", !.starts = n, !.stop = s, !.resumed = k,
                              !.executed = 0]
  <2>2. r \in RunSet /\ r.pc = "plan" /\ r.resumed = k /\ r.executed = 0
    BY DEF IInv, Shapes, RunSet, Places
  <2>3. run' = r
    BY <1>1, <2>1
  <2> HIDE DEF r
  <2> QED BY <1>2, <2>1, <2>2, <2>3 DEF Done
<1>4. manifest' \in Nat /\ manifest' # 0
  BY <1>1 DEF IInv, Shapes, RunSet
<1>5. /\ guard' \in GuardSet /\ guard'.measured = Recovered(file.rows).measured
      /\ guard'.exposure = Recovered(file.rows).exposure
  <2>1. PICK m \in Nat, x \in Nat :
          m = Recovered(file.rows).measured /\ x = Recovered(file.rows).exposure
    BY <1>2
  <2> DEFINE g == [NewGuard EXCEPT !.measured = m, !.exposure = x]
  <2>2. g \in GuardSet /\ g.measured = m /\ g.exposure = x
    BY DEF NewGuard, GuardSet
  <2>3. guard' = g
    BY <1>1, <2>1 DEF Seed
  <2> HIDE DEF g
  <2> QED BY <2>1, <2>2, <2>3
<1>6. episode = NewEpisode /\ ~InEpisode'
  BY <1>1, <1>3 DEF IInv, Position, InEpisode
<1>7. /\ episode' \in EpisodeSet /\ episode'.usage = 0 /\ episode'.authorised = 0
      /\ episode'.forfeited = 0 /\ episode'.billed = 0
  BY <1>1 DEF NewEpisode, EpisodeSet, Outcomes
<1>8. Shapes'
  BY <1>1, <1>3, <1>4, <1>5, <1>7 DEF IInv, Shapes
<1>9. Position'
  BY <1>1, <1>3, <1>4, <1>6 DEF Position, Readable, InEpisode
<1>10. Accounted'
  BY <1>6, <1>7 DEF Accounted
<1>11. GuardMatchesRecord'
  BY <1>1, <1>2, <1>5, <1>7, RecordStays DEF GuardMatchesRecord
<1>12. Paid'
  <2>1. /\ Recovered(file.rows)' = Recovered(file.rows) /\ actual' = actual
        /\ run'.pc # "flight" /\ episode' = episode
    BY <1>1, <1>3, <1>6
  <2> QED BY <2>1 DEF IInv, Paid
<1>13. LedgerIsSound'
  <2>1. CASE manifest = 0
    <3>1. file'.rows = <<>>
      BY <1>1, <2>1 DEF IInv, Position
    <3>2. Len(file'.rows) = 0 /\ 1 .. Len(file'.rows) = {}
      BY <3>1
    <3> QED BY <3>2, BenchAssumption DEF LedgerIsSound, LedgerIsAPrefix, RowsAreDerivable
  <2>2. CASE manifest # 0
    BY <1>1, <2>2
    DEF IInv, LedgerIsSound, LedgerIsAPrefix, RowsAreDerivable, CostAdmissible
  <2> QED BY <2>1, <2>2
<1> QED
  BY <1>8, <1>9, <1>10, <1>11, <1>12, <1>13 DEF IInv

-----------------------------------------------------------------------------
(* The row of an episode.                                                    *)

\* It is the next of the plan, derivable, and adds what the episode has cost.
LEMMA RowIsTrue ==
  ASSUME IInv, run.pc = "append"
  PROVE  /\ ThisRow \in RowSet /\ ThisRow.episode = Len(file.rows) + 1
         /\ ThisRow.execution = manifest /\ ThisRow.outcome = episode.outcome
         /\ ThisRow.measured = episode.usage /\ ThisRow.exposure = episode.forfeited
         /\ ThisRow.outcome = "breach" \/ CostAdmissible(ThisRow)
<1>1. /\ Done = Len(file.rows) /\ guard.episodeExposure = episode.forfeited
      /\ (episode.outcome # "breach" => episode.usage <= episode.authorised)
  BY DEF IInv, Position, Accounted, InEpisode
<1>2. /\ Len(file.rows) + 1 \in Nat /\ manifest \in Nat /\ episode.outcome \in Outcomes
      /\ episode.usage \in Nat /\ episode.forfeited \in Nat /\ episode.authorised \in Nat
  BY Amounts DEF IInv, Shapes, EpisodeSet
<1>3. ThisRow = [episode |-> Len(file.rows) + 1, execution |-> manifest,
                 outcome |-> episode.outcome, measured |-> episode.usage,
                 exposure |-> episode.forfeited, authorised |-> episode.authorised,
                 forfeited |-> episode.forfeited]
  BY <1>1 DEF ThisRow, Row
<1>4. ThisRow \in RowSet
  BY <1>2, <1>3 DEF RowSet
<1>5. /\ ThisRow.episode = Len(file.rows) + 1 /\ ThisRow.execution = manifest
      /\ ThisRow.outcome = episode.outcome /\ ThisRow.measured = episode.usage
      /\ ThisRow.exposure = episode.forfeited /\ ThisRow.forfeited = episode.forfeited
      /\ ThisRow.authorised = episode.authorised
  BY <1>3
<1>6. ThisRow.outcome = "breach" \/ CostAdmissible(ThisRow)
  BY <1>1, <1>2, <1>5 DEF CostAdmissible
<1> QED
  BY <1>4, <1>5, <1>6

\* With it the ledger is still a sound one.
LEMMA RowIsSound ==
  ASSUME IInv, run.pc = "append", file' \in FileSet, file'.rows = Append(file.rows, ThisRow),
         UNCHANGED manifest
  PROVE  /\ Len(file'.rows) = Len(file.rows) + 1
         /\ Recovered(file'.rows).measured = Recovered(file.rows).measured + episode.usage
         /\ Recovered(file'.rows).exposure = Recovered(file.rows).exposure + episode.forfeited
         /\ Terminated(file.rows)' => episode.outcome \in RunTerminal
         /\ LedgerIsSound'
<1> DEFINE n == Len(file.rows)
           row == ThisRow
           more == Append(file.rows, row)
<1>1. file.rows \in Seq(RowSet) /\ n \in Nat /\ n < Plan /\ Plan \in Nat
  BY Amounts, BenchAssumption DEF IInv, Position, InEpisode
<1>2. /\ row \in RowSet /\ row.episode = n + 1
      /\ row.execution = manifest /\ row.outcome = episode.outcome
      /\ row.measured = episode.usage /\ row.exposure = episode.forfeited
      /\ row.outcome = "breach" \/ CostAdmissible(row)
  BY RowIsTrue
<1> HIDE DEF row
<1>3. /\ Recovered(more).measured = Recovered(file.rows).measured + episode.usage
      /\ Recovered(more).exposure = Recovered(file.rows).exposure + episode.forfeited
  BY <1>1, <1>2, RecoveredMore
<1>4. Len(more) = n + 1 /\ more[n + 1] = row /\ \A i \in 1 .. n : more[i] = file.rows[i]
  BY <1>1, <1>2
<1>5. \A i \in 1 .. n :
        /\ file.rows[i].episode = i /\ file.rows[i].execution = manifest
        /\ file.rows[i].outcome = "breach" \/ CostAdmissible(file.rows[i])
        /\ file.rows[i].outcome \notin RunTerminal
  BY DEF IInv, LedgerIsSound, LedgerIsAPrefix, RowsAreDerivable, Position, Terminated
<1>6. file'.rows = more
  BY DEF more, row
<1> HIDE DEF n, more
<1>7. \A i \in 1 .. n + 1 : i \in 1 .. n \/ i = n + 1
  BY <1>1
<1>8. \A i \in 1 .. n + 1 :
        /\ more[i].episode = i /\ more[i].execution = manifest
        /\ more[i].outcome = "breach" \/ CostAdmissible(more[i])
        /\ more[i].outcome \in RunTerminal => episode.outcome \in RunTerminal
  BY <1>2, <1>4, <1>5, <1>7
<1>9. LedgerIsAPrefix'
  BY <1>1, <1>4, <1>6, <1>8 DEF LedgerIsAPrefix
<1>10. RowsAreDerivable'
  BY <1>4, <1>6, <1>8 DEF RowsAreDerivable, CostAdmissible
<1>11. Terminated(file.rows)' => episode.outcome \in RunTerminal
  BY <1>4, <1>6, <1>8 DEF Terminated
<1> QED
  BY <1>3, <1>4, <1>6, <1>9, <1>10, <1>11 DEF LedgerIsSound, n

\* What an episode has cost moves from the episode to the rows.
LEMMA CostMovesToRow ==
  ASSUME NEW m \in Nat, NEW x \in Nat, NEW u \in Nat, NEW f \in Nat, NEW b \in Nat,
         NEW l \in Nat, NEW a \in Nat, NEW o \in Nat, NEW c \in Nat,
         a <= m + x + l + b, m + x + u + f <= c + o, b <= u + f
  PROVE  /\ a <= (m + u) + (x + f) + l + 0
         /\ (m + u) + (x + f) + 0 + 0 <= c + o
OBVIOUS

\* A step that writes it closes the episode.
LEMMA RowKeeps ==
  ASSUME IInv, run.pc = "append", file' \in FileSet, file'.rows = Append(file.rows, ThisRow),
         UNCHANGED <<manifest, actual>>, run' \in RunSet, guard' \in GuardSet,
         episode' = NewEpisode, ~InEpisode', Position', GuardMatchesRecord'
  PROVE  IInv'
<1>1. /\ episode' \in EpisodeSet /\ episode'.usage = 0 /\ episode'.authorised = 0
      /\ episode'.forfeited = 0 /\ episode'.billed = 0
  BY DEF NewEpisode, EpisodeSet, Outcomes
<1>2. Shapes'
  BY <1>1 DEF IInv, Shapes
<1>3. Accounted'
  BY <1>1 DEF Accounted
<1>4. /\ Recovered(file'.rows).measured = Recovered(file.rows).measured + episode.usage
      /\ Recovered(file'.rows).exposure = Recovered(file.rows).exposure + episode.forfeited
      /\ LedgerIsSound'
  BY RowIsSound
<1> DEFINE M == Recovered(file.rows).measured
           X == Recovered(file.rows).exposure
<1>5. M' = M + episode.usage /\ X' = X + episode.forfeited
  BY <1>4
<1>6. /\ M \in Nat /\ X \in Nat /\ episode.usage \in Nat /\ episode.forfeited \in Nat
      /\ episode.billed \in Nat /\ actual.lost \in Nat /\ actual.billed \in Nat
      /\ actual.overrun \in Nat /\ Cap \in Nat
  BY Amounts, BenchAssumption DEF IInv
<1>7. /\ actual.billed <= M + X + actual.lost + episode.billed
      /\ M + X + episode.usage + episode.forfeited <= Cap + actual.overrun
      /\ episode.billed <= episode.usage + episode.forfeited
  BY DEF IInv, Paid, Accounted
<1> HIDE DEF M, X
<1>8. /\ actual.billed <= M' + X' + actual.lost + 0
      /\ M' + X' + 0 + 0 <= Cap + actual.overrun
  <2>1. /\ actual.billed
             <= (M + episode.usage) + (X + episode.forfeited) + actual.lost + 0
        /\ (M + episode.usage) + (X + episode.forfeited) + 0 + 0 <= Cap + actual.overrun
    BY ONLY <1>6, <1>7, CostMovesToRow
  <2> QED BY <1>5, <2>1
<1>9. actual' = actual /\ run'.pc # "flight"
  BY DEF InEpisode
<1>10. Paid'
  BY <1>1, <1>8, <1>9 DEF Paid, M, X
<1> QED
  BY <1>2, <1>3, <1>4, <1>10 DEF IInv

\* The row is durable, and the run goes on unless it says it may not.
LEMMA AppendEpisodeKeeps == IInv /\ AppendEpisode => IInv'
<1> SUFFICES ASSUME IInv, AppendEpisode PROVE IInv'
  OBVIOUS
<1> DEFINE next == IF episode.outcome \in RunTerminal THEN "report" ELSE "plan"
<1>1. /\ run.pc = "append" /\ file' = [file EXCEPT !.rows = Append(@, ThisRow)]
      /\ run' = [run EXCEPT !.executed = @ + 1, !.pc = next]
      /\ episode' = NewEpisode /\ UNCHANGED <<manifest, guard, actual>>
  BY DEF AppendEpisode
<1>2. ThisRow \in RowSet /\ file.rows \in Seq(RowSet) /\ Len(file.rows) \in Nat
  BY <1>1, RowIsTrue, Amounts DEF IInv
<1>3. file' \in FileSet /\ file'.rows = Append(file.rows, ThisRow) /\ file'.torn = file.torn
  <2>1. PICK s \in Seq(RowSet) : s = Append(file.rows, ThisRow)
    <3>1. Append(file.rows, ThisRow) \in Seq(RowSet)
      BY <1>2
    <3> QED BY <3>1
  <2>2. file' = [file EXCEPT !.rows = s]
    BY <1>1, <2>1
  <2> QED BY <2>1, <2>2 DEF IInv, Shapes, FileSet
<1>4. /\ Len(file'.rows) = Len(file.rows) + 1
      /\ Recovered(file'.rows).measured = Recovered(file.rows).measured + episode.usage
      /\ Recovered(file'.rows).exposure = Recovered(file.rows).exposure + episode.forfeited
      /\ Terminated(file.rows)' => episode.outcome \in RunTerminal
  BY <1>1, <1>3, RowIsSound
<1>5. next \in {"report", "plan"}
  OBVIOUS
<1> HIDE DEF next
<1>6. run' \in RunSet /\ run'.pc = next /\ Done' = Done + 1
  <2>1. PICK n \in Nat : n = run.executed + 1
    BY DEF IInv, Shapes, RunSet
  <2>2. PICK q \in Places : q = next
    BY <1>5 DEF Places
  <2> DEFINE r == [run EXCEPT !.executed = n, !.pc = q]
  <2>3. r \in RunSet /\ r.pc = q /\ r.resumed = run.resumed /\ r.executed = n
    BY DEF IInv, Shapes, RunSet
  <2>4. run' = r
    BY <1>1, <2>1, <2>2
  <2>5. run.resumed \in Nat /\ run.executed \in Nat
    BY DEF IInv, Shapes, RunSet
  <2> HIDE DEF r
  <2> QED BY <2>1, <2>2, <2>3, <2>4, <2>5 DEF Done
<1>7. Done = Len(file.rows) /\ ~file.torn /\ manifest # 0
  BY <1>1 DEF IInv, Position
<1>8. ~InEpisode' /\ run'.pc # "away"
  BY <1>5, <1>6 DEF InEpisode
<1>9. Position'
  <2>1. run'.pc = "plan" => ~Terminated(file.rows)'
    BY <1>4, <1>6 DEF next
  <2>2. run'.pc \in {"report", "plan"}
    BY <1>5, <1>6
  <2> QED BY <1>1, <1>3, <1>4, <1>6, <1>7, <1>8, <2>1, <2>2 DEF Position
<1>10. GuardMatchesRecord'
  <2>1. /\ guard.measured = Recovered(file.rows).measured + episode.usage
        /\ guard.exposure = Recovered(file.rows).exposure + episode.forfeited
    BY <1>1 DEF IInv, GuardMatchesRecord
  <2>2. /\ Recovered(file'.rows).measured \in Nat /\ Recovered(file'.rows).exposure \in Nat
    BY <1>3, RecoveredType DEF FileSet
  <2>3. episode'.usage = 0 /\ episode'.forfeited = 0
    BY <1>1 DEF NewEpisode
  <2>4. /\ guard'.measured = Recovered(file'.rows).measured + 0
        /\ guard'.exposure = Recovered(file'.rows).exposure + 0
    BY <1>1, <1>4, <2>1, <2>2
  <2> QED BY <2>3, <2>4 DEF GuardMatchesRecord
<1>11. guard' \in GuardSet
  BY <1>1 DEF IInv, Shapes
<1> QED
  BY <1>1, <1>3, <1>6, <1>8, <1>9, <1>10, <1>11, RowKeeps

\* What an episode without a row was billed is lost, and no more than that.
LEMMA LostKeeps ==
  ASSUME IInv, run.pc # "away", Leave, NEW b \in Nat, file' \in FileSet,
         file'.rows = file.rows, UNCHANGED manifest,
         actual' \in ActualSet, actual'.billed = actual.billed + b,
         actual'.overrun = actual.overrun, actual'.lost = actual.lost + episode.billed + b
  PROVE  IInv'
<1>1. /\ run' \in RunSet /\ run'.pc = "away" /\ ~InEpisode'
      /\ guard' \in GuardSet /\ episode' = NewEpisode /\ GuardMatchesRecord'
  BY LeaveIs DEF IInv
<1>2. /\ episode' \in EpisodeSet /\ episode'.usage = 0 /\ episode'.authorised = 0
      /\ episode'.forfeited = 0 /\ episode'.billed = 0
  BY <1>1 DEF NewEpisode, EpisodeSet, Outcomes
<1>3. Shapes' /\ Accounted'
  BY <1>1, <1>2 DEF IInv, Shapes, Accounted
<1>4. Position'
  BY <1>1 DEF IInv, Position
<1>5. LedgerIsSound'
  BY DEF IInv, LedgerIsSound, LedgerIsAPrefix, RowsAreDerivable, CostAdmissible
<1> DEFINE M == Recovered(file.rows).measured
           X == Recovered(file.rows).exposure
<1>6. M' = M /\ X' = X
  OBVIOUS
<1>7. /\ M \in Nat /\ X \in Nat /\ episode.usage \in Nat /\ episode.forfeited \in Nat
      /\ episode.billed \in Nat /\ actual.lost \in Nat /\ actual.billed \in Nat
      /\ actual.overrun \in Nat /\ Cap \in Nat
  BY Amounts, BenchAssumption DEF IInv
<1>8. /\ actual.billed <= M + X + actual.lost + episode.billed
      /\ M + X + episode.usage + episode.forfeited <= Cap + actual.overrun
  BY DEF IInv, Paid
<1> HIDE DEF M, X
<1>9. /\ actual'.billed <= M + X + actual'.lost + 0
      /\ M + X + 0 + 0 <= Cap + actual'.overrun
  BY <1>7, <1>8
<1>10. Paid'
  BY <1>1, <1>2, <1>6, <1>9 DEF Paid, M, X
<1> QED
  BY <1>1, <1>3, <1>4, <1>5, <1>10 DEF IInv

\* An append that fails leaves the row, part of it or nothing; only the last
\* two lose the episode.
LEMMA InterruptedKeeps == IInv /\ run.pc # "away" /\ Interrupted => IInv'
<1> SUFFICES ASSUME IInv, run.pc # "away", Interrupted PROVE IInv'
  OBVIOUS
<1>1. Leave /\ UNCHANGED manifest
  BY DEF Interrupted
<1>2. PICK f \in IF run.pc = "append" THEN Leftovers(ThisRow) ELSE {file} :
        file' = f /\ (IF f.rows = file.rows THEN Lose ELSE UNCHANGED actual)
  BY DEF Interrupted
<1>3. file \in FileSet /\ file.rows \in Seq(RowSet)
  BY Amounts DEF IInv, Shapes
<1>4. CASE f \in {file, [file EXCEPT !.torn = TRUE]}
  <2>1. file' \in FileSet /\ file'.rows = file.rows
    BY <1>2, <1>3, <1>4 DEF FileSet
  <2>2. actual' = [actual EXCEPT !.lost = @ + episode.billed]
    BY <1>2, <2>1 DEF Lose
  <2>3. /\ actual' \in ActualSet /\ actual'.billed = actual.billed + 0
        /\ actual'.overrun = actual.overrun /\ actual'.lost = actual.lost + episode.billed + 0
    <3>1. actual.lost \in Nat /\ episode.billed \in Nat /\ actual.billed \in Nat
      BY Amounts DEF IInv
    <3>2. PICK x \in Nat : x = actual.lost + episode.billed
      BY <3>1
    <3>3. actual' = [actual EXCEPT !.lost = x]
      BY <2>2, <3>2
    <3>4. /\ actual' \in ActualSet /\ actual'.billed = actual.billed
          /\ actual'.overrun = actual.overrun /\ actual'.lost = x
      BY <3>3 DEF IInv, Shapes, ActualSet
    <3> QED BY <3>1, <3>2, <3>4
  <2> QED BY <1>1, <2>1, <2>3, LostKeeps
<1>5. CASE run.pc = "append" /\ f = [file EXCEPT !.rows = Append(@, ThisRow)]
  <2>1. ThisRow \in RowSet
    BY <1>5, RowIsTrue
  <2>2. file' \in FileSet /\ file'.rows = Append(file.rows, ThisRow)
    <3>1. PICK s \in Seq(RowSet) : s = Append(file.rows, ThisRow)
      <4>1. Append(file.rows, ThisRow) \in Seq(RowSet)
        BY <1>3, <2>1
      <4> QED BY <4>1
    <3>2. file' = [file EXCEPT !.rows = s]
      BY <1>2, <1>5, <3>1
    <3> QED BY <1>3, <3>1, <3>2 DEF FileSet
  <2>3. Len(file'.rows) = Len(file.rows) + 1 /\ Len(file.rows) \in Nat
    BY <1>3, <2>1, <2>2
  <2>4. UNCHANGED actual
    BY <1>2, <2>3
  <2>5. /\ run' \in RunSet /\ run'.pc = "away" /\ ~InEpisode'
        /\ guard' \in GuardSet /\ episode' = NewEpisode /\ GuardMatchesRecord'
    BY <1>1, LeaveIs DEF IInv
  <2>6. Position'
    BY <1>1, <2>5 DEF IInv, Position
  <2> QED BY <1>1, <1>5, <2>2, <2>4, <2>5, <2>6, RowKeeps
<1> QED
  BY <1>2, <1>4, <1>5 DEF Leftovers

\* A kill loses the episode, and with it a bill still to come.
LEMMA CrashKeeps == IInv /\ Crash => IInv'
<1> SUFFICES ASSUME IInv, Crash PROVE IInv'
  OBVIOUS
<1>1. CASE run.pc \notin {"away", "flight"} /\ Interrupted
  BY <1>1, InterruptedKeeps
<1>2. CASE ~(run.pc \notin {"away", "flight"} /\ Interrupted)
  <2>1. /\ run.pc = "flight" /\ Leave /\ UNCHANGED <<manifest, file>>
    BY <1>2 DEF Crash
  <2>2. PICK b \in 0 .. guard.pending :
          actual' = [actual EXCEPT !.billed = @ + b, !.lost = @ + episode.billed + b]
    BY <1>2 DEF Crash
  <2>3. /\ b \in Nat /\ actual.lost \in Nat /\ episode.billed \in Nat /\ actual.billed \in Nat
    BY Amounts DEF IInv
  <2>4. PICK x \in Nat, y \in Nat : x = actual.billed + b /\ y = actual.lost + episode.billed + b
    BY <2>3
  <2>5. actual' = [actual EXCEPT !.billed = x, !.lost = y]
    BY <2>2, <2>4
  <2>6. /\ actual' \in ActualSet /\ actual'.billed = x
        /\ actual'.overrun = actual.overrun /\ actual'.lost = y
    BY <2>5 DEF IInv, Shapes, ActualSet
  <2>7. file' \in FileSet /\ file'.rows = file.rows
    BY <2>1 DEF IInv, Shapes
  <2> QED BY <2>1, <2>3, <2>4, <2>6, <2>7, LostKeeps
<1> QED
  BY <1>1, <1>2

-----------------------------------------------------------------------------
(* The run.                                                                  *)

\* A fresh run directory,
LEMMA IInvInit == Init => IInv
<1> SUFFICES ASSUME Init PROVE IInv
  OBVIOUS
<1>1. /\ manifest = 0 /\ file = [rows |-> <<>>, torn |-> FALSE] /\ run = Away(0)
      /\ guard = NewGuard /\ episode = NewEpisode
      /\ actual = [billed |-> 0, overrun |-> 0, lost |-> 0]
  BY DEF Init
<1>2. run \in RunSet /\ run.pc = "away" /\ ~InEpisode
  BY <1>1 DEF Away, RunSet, Places, InEpisode
<1>3. file \in FileSet /\ file.rows = <<>>
  BY <1>1 DEF FileSet
<1>4. /\ episode \in EpisodeSet /\ episode.usage = 0 /\ episode.authorised = 0
      /\ episode.forfeited = 0 /\ episode.billed = 0
  BY <1>1 DEF NewEpisode, EpisodeSet, Outcomes
<1>5. Shapes
  BY <1>1, <1>2, <1>3, <1>4 DEF Shapes, NewGuard, GuardSet, ActualSet
<1>6. Position
  <2>1. ~Terminated(file.rows)
    BY <1>3 DEF Terminated
  <2> QED BY <1>1, <1>2, <1>3, <2>1 DEF Position
<1>7. Accounted /\ GuardMatchesRecord
  BY <1>2, <1>4 DEF Accounted, GuardMatchesRecord
<1>8. Paid
  BY <1>1, <1>2, <1>3, <1>4, RecoveredNothing, BenchAssumption DEF Paid
<1>9. LedgerIsSound
  BY <1>3, BenchAssumption DEF LedgerIsSound, LedgerIsAPrefix, RowsAreDerivable
<1> QED
  BY <1>5, <1>6, <1>7, <1>8, <1>9 DEF IInv

\* and every step of every invocation.
LEMMA IInvNext == IInv /\ [Next]_vars => IInv'
<1> SUFFICES ASSUME IInv, [Next]_vars PROVE IInv'
  OBVIOUS
<1>1. CASE Refused
  BY <1>1, RefusedKeeps
<1>2. CASE \E stop \in Stops : Open(stop)
  BY <1>2, OpenKeeps
<1>3. CASE Work
  <2>1. CASE Begin \/ Report
    BY <2>1, BeginKeeps, ReportKeeps
  <2>2. CASE EpisodeEnds \/ Undispatched
    BY <2>2, EpisodeEndsKeeps, UndispatchedKeeps
  <2>3. CASE AppendEpisode \/ AppendFails
    BY <2>3, AppendEpisodeKeeps, InterruptedKeeps DEF AppendFails
  <2>4. CASE \E r \in Reservations : Attempt(r) \/ CapReached(r)
    BY <2>4, AttemptKeeps, CapReachedKeeps
  <2>5. CASE \E c \in 0 .. MaxBill : Unmeasured(c) \/ Measured(c) \/ Breached(c)
    BY <2>5, UnmeasuredKeeps, MeasuredKeeps, BreachedKeeps
  <2> QED BY <1>3, <2>1, <2>2, <2>3, <2>4, <2>5 DEF Work
<1>4. CASE Crash
  BY <1>4, CrashKeeps
<1>5. CASE UNCHANGED vars
  BY <1>5
  DEF vars, IInv, Shapes, Position, InEpisode, Done, Terminated, Accounted, Paid,
      GuardMatchesRecord, LedgerIsSound, LedgerIsAPrefix, RowsAreDerivable, CostAdmissible
<1> QED
  BY <1>1, <1>2, <1>3, <1>4, <1>5 DEF Next

\* The invariant: the shape of the state, where the invocation is on the plan,
\* and the three accounts (guard, rows, provider) against each other.
THEOREM BookkeepingInvariant == Spec => []IInv
BY IInvInit, IInvNext, PTL DEF Spec

\* It has the three promises about the books in it.
LEMMA IInvBooks == IInv => BooksAreTrue
<1> SUFFICES ASSUME IInv PROVE BooksAreTrue
  OBVIOUS
<1> DEFINE M == Recovered(file.rows).measured
           X == Recovered(file.rows).exposure
<1>1. /\ M \in Nat /\ X \in Nat /\ episode.usage \in Nat /\ episode.forfeited \in Nat
      /\ episode.billed \in Nat /\ actual.lost \in Nat /\ actual.billed \in Nat
      /\ actual.overrun \in Nat /\ Cap \in Nat
  BY Amounts, BenchAssumption DEF IInv
<1>2. /\ actual.billed <= M + X + actual.lost + episode.billed
      /\ M + X + episode.usage + episode.forfeited <= Cap + actual.overrun
      /\ episode.billed <= episode.usage + episode.forfeited
  BY DEF IInv, Paid, Accounted
<1> HIDE DEF M, X
<1>3. CapHolds
  BY <1>1, <1>2 DEF CapHolds
<1> QED
  BY <1>3 DEF IInv, BooksAreTrue

\* For any plan, cap and prices, however often the run is stopped, killed or
\* resumed: recovered_spend and seed rebuild the guard the rows call for, the
\* provider bills no more than the cap but for overruns and lost episodes, and
\* the ledger is a prefix of the plan whose rows its reader derives.
THEOREM BooksTrue == Spec => []BooksAreTrue
BY BookkeepingInvariant, IInvBooks, PTL

\* A sealed run has no episode under way and opens no invocation.
LEMMA SealedStays ==
  ASSUME IInv, Next, Sealed
  PROVE  file' = file /\ actual' = actual
<1>1. ~Readable(file) \/ Terminated(file.rows)
  BY DEF Sealed, Readable
<1>2. run.pc \in {"away", "report"}
  BY DEF IInv, Position, Sealed
<1>3. CASE Refused
  BY <1>3 DEF Refused
<1>4. CASE \E stop \in Stops : Open(stop)
  BY <1>1, <1>4 DEF Open, MayContinue
<1>5. CASE Work
  BY <1>2, <1>5
  DEF Work, Begin, Report, EpisodeEnds, Undispatched, AppendEpisode, AppendFails,
      Attempt, CapReached, Unmeasured, Measured, Breached
<1>6. CASE Crash
  <2>1. run.pc = "report" /\ Interrupted
    BY <1>2, <1>6 DEF Crash
  <2>2. file' = file /\ Lose
    BY <2>1 DEF Interrupted
  <2>3. episode.billed = 0
    BY <2>1 DEF IInv, Position, InEpisode, NewEpisode
  <2>4. actual.lost + episode.billed = actual.lost
    BY <2>3, Amounts DEF IInv
  <2>5. actual' = [actual EXCEPT !.lost = actual.lost]
    BY <2>2, <2>4 DEF Lose
  <2> QED BY <2>2, <2>5 DEF IInv, Shapes, ActualSet
<1> QED
  BY <1>3, <1>4, <1>5, <1>6 DEF Next

\* RunTerminatedError and the torn-row check of read_ledger: once the ledger
\* holds a run-terminal or a partial row, no step of any invocation writes to
\* it or is billed.
THEOREM EndIsTheEnd == Spec => NothingAfterTheEnd
<1>1. IInv /\ [Next]_vars => [Sealed => file' = file /\ actual' = actual]_vars
  BY SealedStays DEF vars
<1> QED
  BY <1>1, BookkeepingInvariant, PTL DEF Spec, NothingAfterTheEnd

-----------------------------------------------------------------------------
(* How long an invocation may last.                                          *)

\* The attempts of a turn and the turns of an episode stay within their limits,
\* and a request is in flight only for a turn the episode may still take.
Paced ==
  /\ run.pc = "turn" =>
       /\ episode.turns <= MaxTurns /\ episode.attempts < MaxAttempts
       /\ episode.attempts > 0 => episode.turns < MaxTurns
  /\ run.pc = "flight" =>
       /\ episode.turns < MaxTurns
       /\ episode.attempts >= 1 /\ episode.attempts <= MaxAttempts

\* The steps an episode takes at most, and those the one at work has left: two for
\* every attempt it may still make, its end and its row.
EpisodeSteps == 2 * (MaxTurns * MaxAttempts) + 3
EpisodeLeft ==
  LET attemptsLeft == (MaxTurns - episode.turns) * MaxAttempts - episode.attempts
  IN CASE run.pc = "turn"   -> 2 * attemptsLeft + 2
       [] run.pc = "flight" -> 2 * attemptsLeft + 3
       [] run.pc = "append" -> 1
       [] OTHER             -> 0

\* Those of the invocation: the episodes after this one, this one, and the report.
InvocationLeft ==
  IF run.pc = "away" THEN 0
  ELSE (Plan - Done - (IF InEpisode THEN 1 ELSE 0)) * EpisodeSteps + EpisodeLeft + 1

\* An invocation runs down: whatever fails, is retried or is cut short, each step
\* of it leaves it fewer than it had, and it starts with Plan * EpisodeSteps + 1 at
\* most, however often the run was stopped or killed before (execute_run,
\* run_episode, and the retries of a turn).
InvocationRunsDown ==
  [][/\ run.pc # "away" => InvocationLeft' \in 0 .. (InvocationLeft - 1)
     /\ run.pc = "away" => InvocationLeft' <= Plan * EpisodeSteps + 1]_vars

\* What a step of an invocation may be: the next episode begins, the invocation is
\* over, a request leaves, its attempt is retried or its turn is answered, the
\* episode ends, its row is appended.
Stays == run'.resumed = run.resumed /\ run'.executed = run.executed
Begins   == /\ run.pc = "plan" /\ run'.pc = "turn" /\ Stays /\ Done < Plan
            /\ episode'.turns = 0 /\ episode'.attempts = 0
Over     == run'.pc = "away"
Asks     == /\ run.pc = "turn" /\ run'.pc = "flight" /\ Stays
            /\ episode.attempts = 0 => episode.turns < MaxTurns
            /\ episode'.turns = episode.turns /\ episode'.attempts = episode.attempts + 1
Retries  == /\ run.pc = "flight" /\ run'.pc = "turn" /\ Stays
            /\ episode.attempts < MaxAttempts
            /\ episode'.turns = episode.turns /\ episode'.attempts = episode.attempts
Answers  == /\ run.pc = "flight" /\ run'.pc = "turn" /\ Stays
            /\ episode'.turns = episode.turns + 1 /\ episode'.attempts = 0
Finishes == run.pc \in {"turn", "flight"} /\ run'.pc = "append" /\ Stays
Appends  == /\ run.pc = "append" /\ run'.pc \in {"plan", "report"}
            /\ run'.resumed = run.resumed /\ run'.executed = run.executed + 1

\* Ending an episode leaves the counts of the invocation as they are.
LEMMA FinishIs ==
  ASSUME Shapes, NEW e, Finish(e)
  PROVE  run'.pc = "append" /\ Stays
BY DEF Shapes, RunSet, Finish, Stays

\* A move of the invocation does too.
LEMMA MoveIs ==
  ASSUME Shapes, NEW where, run' = [run EXCEPT !.pc = where]
  PROVE  run'.pc = where /\ Stays
BY DEF Shapes, RunSet, Stays

\* Every step of an invocation is one of the seven.
LEMMA InvocationPace ==
  ASSUME IInv, Next, run.pc # "away"
  PROVE  Begins \/ Over \/ Asks \/ Retries \/ Answers \/ Finishes \/ Appends
<1>0. Shapes /\ episode \in EpisodeSet /\ run \in RunSet
  BY DEF IInv, Shapes
<1>1. ~Refused /\ \A stop \in Stops : ~Open(stop)
  BY DEF Refused, Open, MayOpen
<1>2. CASE Crash
  <2>1. Leave
    BY <1>2 DEF Crash, Interrupted
  <2> QED BY <2>1 DEF Leave, Away, Over
<1>3. CASE Begin
  BY <1>0, <1>3, MoveIs DEF Begin, NewEpisode, Begins
<1>4. CASE Report \/ AppendFails
  BY <1>4 DEF Report, AppendFails, Interrupted, Leave, Away, Over
<1>5. CASE EpisodeEnds \/ Undispatched \/ \E r \in Reservations : CapReached(r)
  BY <1>0, <1>5, FinishIs DEF EpisodeEnds, Undispatched, CapReached, Finishes
<1>6. ASSUME NEW r \in Reservations, Attempt(r) PROVE Asks
  <2>1. run'.pc = "flight" /\ Stays
    BY <1>0, <1>6, MoveIs DEF Attempt
  <2>2. episode'.turns = episode.turns /\ episode'.attempts = episode.attempts + 1
    BY <1>0, <1>6 DEF Attempt, EpisodeSet
  <2> QED BY <1>6, <2>1, <2>2 DEF Attempt, MayAttempt, Asks
<1>7. ASSUME NEW c \in 0 .. MaxBill, Unmeasured(c) PROVE Retries \/ Answers \/ Finishes
  <2> DEFINE e == [episode EXCEPT !.forfeited = @ + guard.pending, !.billed = @ + c]
  <2>2. e.turns = episode.turns /\ e.attempts = episode.attempts
    BY <1>0 DEF EpisodeSet
  <2>3. /\ run.pc = "flight"
        /\ \/ /\ e.attempts < MaxAttempts
              /\ episode' = e /\ run' = [run EXCEPT !.pc = "turn"]
           \/ /\ episode' = [e EXCEPT !.turns = @ + 1, !.attempts = 0]
              /\ run' = [run EXCEPT !.pc = "turn"]
           \/ \E o \in {"ended", "terminal"} : Finish([e EXCEPT !.outcome = o])
    BY <1>7 DEF Unmeasured
  <2>4. [e EXCEPT !.turns = @ + 1, !.attempts = 0].turns = e.turns + 1
    BY <1>0 DEF EpisodeSet
  <2>5. [e EXCEPT !.turns = @ + 1, !.attempts = 0].attempts = 0
    BY <1>0 DEF EpisodeSet
  <2> HIDE DEF e
  <2> QED BY <1>0, <2>2, <2>3, <2>4, <2>5, MoveIs, FinishIs DEF Retries, Answers, Finishes
<1>8. ASSUME NEW c \in 0 .. MaxBill, Measured(c) PROVE Answers
  <2>1. run.pc = "flight" /\ run'.pc = "turn" /\ Stays
    BY <1>0, <1>8, MoveIs DEF Measured
  <2>2. episode'.turns = episode.turns + 1 /\ episode'.attempts = 0
    BY <1>0, <1>8 DEF Measured, Measure, EpisodeSet
  <2> QED BY <2>1, <2>2 DEF Answers
<1>9. ASSUME NEW c \in 0 .. MaxBill, Breached(c) PROVE Finishes
  BY <1>0, <1>9, FinishIs DEF Breached, Finishes
<1>10. CASE AppendEpisode
  BY <1>0, <1>10 DEF AppendEpisode, RunSet, Appends
<1> QED BY <1>1, <1>2, <1>3, <1>4, <1>5, <1>6, <1>7, <1>8, <1>9, <1>10 DEF Next, Work

\* The pace is kept: an invocation that is opened or over has no episode.
LEMMA PacedKept == IInv /\ Paced /\ [Next]_vars => Paced'
<1> SUFFICES ASSUME IInv, Paced, [Next]_vars PROVE Paced'
  OBVIOUS
<1>1. /\ MaxTurns \in Nat \ {0} /\ MaxAttempts \in Nat \ {0}
      /\ episode.turns \in Nat /\ episode.attempts \in Nat
  BY BenchAssumption DEF IInv, Shapes, EpisodeSet
<1>2. CASE UNCHANGED vars
  BY <1>2 DEF vars, Paced
<1>3. CASE Next /\ run.pc = "away"
  <2>1. Refused \/ \E stop \in Stops : Open(stop)
    BY <1>3 DEF Next, Work, Begin, Report, EpisodeEnds, Undispatched, AppendEpisode,
                AppendFails, Attempt, CapReached, Unmeasured, Measured, Breached, Crash
  <2>2. run'.pc \in {"away", "plan"}
    BY <1>3, <2>1 DEF Refused, Open, IInv, Shapes, RunSet
  <2> QED BY <2>2 DEF Paced
<1>4. CASE Next /\ run.pc # "away"
  <2>1. CASE Begins
    BY <1>1, <2>1 DEF Begins, Paced
  <2>2. CASE Over \/ Finishes \/ Appends
    BY <2>2 DEF Over, Finishes, Appends, Paced
  <2>3. CASE Asks
    BY <1>1, <2>3 DEF Asks, Paced
  <2>4. CASE Retries
    BY <1>1, <2>4 DEF Retries, Paced
  <2>5. CASE Answers
    BY <1>1, <2>5 DEF Answers, Paced
  <2> QED BY <1>4, <2>1, <2>2, <2>3, <2>4, <2>5, InvocationPace
<1> QED BY <1>2, <1>3, <1>4

\* What n episodes, or n turns, are worth: one fewer is worth that much less.
LEMMA OneFewer ==
  ASSUME NEW n \in Nat, NEW c \in Nat
  PROVE  /\ n * c \in Nat
         /\ n > 0 => (n - 1) * c \in Nat /\ (n - 1) * c = n * c - c
OBVIOUS

\* Fewer episodes are worth less.
LEMMA FewerAreLess ==
  ASSUME NEW m \in Nat, NEW n \in Nat, NEW c \in Nat, m <= n
  PROVE  m * c <= n * c
<1>1. n = m + (n - m) /\ n - m \in Nat
  OBVIOUS
<1>2. (n - m) * c \in Nat
  BY <1>1
<1>3. n * c = m * c + (n - m) * c
  BY <1>1
<1> QED BY <1>2, <1>3

\* What the parts of the measure are: for an episode under way the turn it is at
\* is worth its attempts, and what is left of an episode is less than its worth.
Sized ==
  /\ EpisodeSteps \in Nat /\ Plan \in Nat /\ Done \in Nat
  /\ run.pc # "away" => Done <= Plan
  /\ EpisodeLeft \in Nat
  /\ run.pc \in {"turn", "flight"} => EpisodeLeft >= 2
  /\ InEpisode => EpisodeLeft >= 1 /\ Done < Plan
  /\ ~InEpisode => EpisodeLeft = 0

\* It is so in every state of a run.
LEMMA MeasureType == IInv /\ Paced => Sized
<1> SUFFICES ASSUME IInv, Paced PROVE Sized
  OBVIOUS
<1>1. /\ MaxTurns \in Nat /\ MaxAttempts \in Nat /\ Plan \in Nat
      /\ run.resumed \in Nat /\ run.executed \in Nat
      /\ episode.turns \in Nat /\ episode.attempts \in Nat
  BY BenchAssumption DEF IInv, Shapes, RunSet, EpisodeSet
<1>2. EpisodeSteps \in Nat /\ Done \in Nat
  <2>1. MaxTurns * MaxAttempts \in Nat
    BY <1>1, OneFewer
  <2> QED BY <1>1, <2>1 DEF EpisodeSteps, Done
<1>3. /\ run.pc # "away" => Done <= Plan
      /\ InEpisode => Done < Plan
  <2>1. Len(file.rows) <= Plan
    BY DEF IInv, LedgerIsSound, LedgerIsAPrefix
  <2> QED BY <2>1 DEF IInv, Position
<1>4. /\ EpisodeLeft \in Nat
      /\ run.pc \in {"turn", "flight"} => EpisodeLeft >= 2
      /\ InEpisode => EpisodeLeft >= 1
      /\ ~InEpisode => EpisodeLeft = 0
  <2> DEFINE t == MaxTurns - episode.turns
             w == t * MaxAttempts
  <2>1. CASE run.pc = "turn"
    <3>1. t \in Nat /\ (episode.attempts > 0 => t > 0) /\ episode.attempts < MaxAttempts
      BY <1>1, <2>1 DEF Paced
    <3>2. /\ w \in Nat
          /\ t > 0 => (t - 1) * MaxAttempts \in Nat /\ (t - 1) * MaxAttempts = w - MaxAttempts
      BY <1>1, <3>1, OneFewer
    <3>3. EpisodeLeft = 2 * (w - episode.attempts) + 2
      BY <2>1 DEF EpisodeLeft
    <3> HIDE DEF t, w
    <3>4. w - episode.attempts \in Nat
      BY <1>1, <3>1, <3>2
    <3> QED BY <2>1, <3>3, <3>4 DEF InEpisode
  <2>2. CASE run.pc = "flight"
    <3>1. t \in Nat /\ t > 0 /\ episode.attempts <= MaxAttempts
      BY <1>1, <2>2 DEF Paced
    <3>2. w \in Nat /\ (t - 1) * MaxAttempts \in Nat /\ (t - 1) * MaxAttempts = w - MaxAttempts
      BY <1>1, <3>1, OneFewer
    <3>3. EpisodeLeft = 2 * (w - episode.attempts) + 3
      BY <2>2 DEF EpisodeLeft
    <3> HIDE DEF t, w
    <3>4. w - episode.attempts \in Nat
      BY <1>1, <3>1, <3>2
    <3> QED BY <2>2, <3>3, <3>4 DEF InEpisode
  <2>3. CASE run.pc \notin {"turn", "flight"}
    BY <2>3 DEF EpisodeLeft, InEpisode
  <2> QED BY <2>1, <2>2, <2>3
<1> QED BY <1>1, <1>2, <1>3, <1>4 DEF Sized

\* A step inside an episode leaves it less.
LEMMA EpisodeWears ==
  ASSUME IInv, Paced, Asks \/ Retries \/ Answers \/ Finishes
  PROVE  EpisodeLeft' < EpisodeLeft
<1> DEFINE t == MaxTurns - episode.turns
           w == t * MaxAttempts
<1>1. /\ MaxTurns \in Nat /\ MaxAttempts \in Nat
      /\ episode.turns \in Nat /\ episode.attempts \in Nat
  BY BenchAssumption DEF IInv, Shapes, EpisodeSet
<1>2. ASSUME run.pc \in {"turn", "flight"} PROVE t \in Nat /\ w \in Nat
  BY <1>1, <1>2, OneFewer DEF Paced
<1>3. /\ run.pc = "turn" => EpisodeLeft = 2 * (w - episode.attempts) + 2
      /\ run.pc = "flight" => EpisodeLeft = 2 * (w - episode.attempts) + 3
  BY DEF EpisodeLeft
<1>4. CASE Asks
  <2>1. EpisodeLeft' = 2 * (w - episode'.attempts) + 3
    BY <1>4 DEF Asks, EpisodeLeft
  <2> HIDE DEF t, w
  <2> QED BY <1>1, <1>2, <1>3, <1>4, <2>1 DEF Asks
<1>5. CASE Retries
  <2>1. EpisodeLeft' = 2 * (w - episode.attempts) + 2
    BY <1>5 DEF Retries, EpisodeLeft
  <2> HIDE DEF t, w
  <2> QED BY <1>1, <1>2, <1>3, <1>5, <2>1 DEF Retries
<1>6. CASE Answers
  <2>1. MaxTurns - episode'.turns = t - 1 /\ t > 0 /\ episode.attempts <= MaxAttempts
    BY <1>1, <1>6 DEF Answers, Paced
  <2>2. EpisodeLeft' = 2 * ((t - 1) * MaxAttempts - 0) + 2
    BY <1>6, <2>1 DEF Answers, EpisodeLeft
  <2>3. (t - 1) * MaxAttempts \in Nat /\ (t - 1) * MaxAttempts = w - MaxAttempts
    BY <1>1, <1>2, <1>6, <2>1, OneFewer DEF Answers
  <2> DEFINE v == (t - 1) * MaxAttempts
  <2>4. EpisodeLeft' = 2 * (v - 0) + 2 /\ v \in Nat /\ v = w - MaxAttempts
    BY <2>2, <2>3
  <2> HIDE DEF t, w, v
  <2> QED BY <1>1, <1>2, <1>3, <1>6, <2>1, <2>4 DEF Answers
<1>7. CASE Finishes
  <2>1. EpisodeLeft' = 1
    BY <1>7 DEF Finishes, EpisodeLeft
  <2>2. EpisodeLeft \in Nat /\ EpisodeLeft >= 2
    BY <1>7, MeasureType DEF Finishes, Sized
  <2> QED BY <2>1, <2>2
<1> QED BY <1>4, <1>5, <1>6, <1>7

\* With as many episodes after it, less of this one is less of the invocation.
LEMMA LessOfOne ==
  ASSUME NEW after \in Nat, NEW x \in Nat, NEW y \in Nat, y < x,
         NEW all, NEW rest, all = after + x + 1, rest = after + y + 1
  PROVE  rest \in 0 .. (all - 1)
OBVIOUS

\* Every step of an invocation leaves it fewer.
LEMMA InvocationWears ==
  ASSUME IInv, Paced, Sized, Sized', Next, run.pc # "away"
  PROVE  InvocationLeft' \in 0 .. (InvocationLeft - 1)
<1> DEFINE n == Plan - Done
           e == EpisodeSteps
<1>1. /\ e \in Nat /\ n \in Nat /\ EpisodeLeft \in Nat /\ EpisodeLeft' \in Nat
      /\ InEpisode => EpisodeLeft >= 1 /\ n > 0
      /\ ~InEpisode => EpisodeLeft = 0
  BY DEF Sized
<1>2. n * e \in Nat /\ (n > 0 => (n - 1) * e \in Nat /\ (n - 1) * e = n * e - e)
  BY <1>1, OneFewer
<1>3. /\ ~InEpisode => InvocationLeft = n * e + 1
      /\ InEpisode => InvocationLeft = (n - 1) * e + EpisodeLeft + 1
  <2>1. n - 0 = n
    BY <1>1
  <2>2. CASE InEpisode
    BY <2>2 DEF InvocationLeft
  <2>3. CASE ~InEpisode
    <3>1. InvocationLeft = (n - 0) * e + 0 + 1
      BY <1>1, <2>3 DEF InvocationLeft
    <3> HIDE DEF n, e
    <3> QED BY <1>2, <2>1, <2>3, <3>1
  <2> QED BY <2>2, <2>3
<1>4. InvocationLeft \in Nat /\ InvocationLeft >= 1
  <2> HIDE DEF n, e
  <2> QED BY <1>1, <1>2, <1>3
<1>5. Stays => Plan - Done' = n
  BY DEF Stays, Done
<1>6. CASE Over
  <2>1. InvocationLeft' = 0
    BY <1>6 DEF Over, InvocationLeft
  <2> QED BY <1>4, <2>1
<1>7. CASE Begins
  <2>1. EpisodeLeft' = 2 * (MaxTurns * MaxAttempts) + 2
    <3>1. MaxTurns \in Nat /\ MaxAttempts \in Nat
      BY BenchAssumption
    <3>2. MaxTurns - 0 = MaxTurns
      BY <3>1
    <3>3. EpisodeLeft' = 2 * ((MaxTurns - 0) * MaxAttempts - 0) + 2
      BY <1>7 DEF Begins, EpisodeLeft
    <3>4. MaxTurns * MaxAttempts \in Nat
      BY <3>1, OneFewer
    <3> QED BY <3>2, <3>3, <3>4
  <2>2. EpisodeLeft' = e - 1
    <3>1. MaxTurns * MaxAttempts \in Nat
      BY BenchAssumption, OneFewer
    <3> QED BY <2>1, <3>1 DEF EpisodeSteps
  <2>3. InvocationLeft' = (n - 1) * e + EpisodeLeft' + 1
    <3>1. EpisodeSteps' = EpisodeSteps
      BY DEF EpisodeSteps
    <3> QED BY <1>5, <1>7, <3>1 DEF Begins, InvocationLeft, InEpisode
  <2>4. ~InEpisode /\ n > 0
    BY <1>1, <1>7 DEF Sized, Begins, InEpisode
  <2> HIDE DEF n, e
  <2> QED BY <1>1, <1>2, <1>3, <2>2, <2>3, <2>4
<1>8. CASE Asks \/ Retries \/ Answers \/ Finishes
  <2>1. EpisodeLeft' < EpisodeLeft /\ InEpisode
    BY <1>8, EpisodeWears DEF Asks, Retries, Answers, Finishes, InEpisode
  <2>2. InvocationLeft' = (n - 1) * e + EpisodeLeft' + 1
    BY <1>5, <1>8 DEF Asks, Retries, Answers, Finishes, InvocationLeft, InEpisode
  <2> DEFINE after == (n - 1) * e
  <2>3. /\ after \in Nat /\ InvocationLeft = after + EpisodeLeft + 1
        /\ InvocationLeft' = after + EpisodeLeft' + 1
    BY <1>1, <1>2, <1>3, <2>1, <2>2
  <2> HIDE DEF after
  <2>4. EpisodeLeft \in Nat /\ EpisodeLeft' \in Nat /\ EpisodeLeft' < EpisodeLeft
    BY <1>1, <2>1
  <2> QED BY <2>3, <2>4, LessOfOne, Zenon
<1>9. CASE Appends
  <2>1. Plan - Done' = n - 1
    BY <1>1, <1>9 DEF Sized, Appends, Done, IInv, Shapes, RunSet
  <2>2. InvocationLeft' = (n - 1 - 0) * e + 0 + 1
    BY <1>9, <2>1 DEF Appends, InvocationLeft, InEpisode, EpisodeLeft
  <2>3. InEpisode
    BY <1>9 DEF Appends, InEpisode
  <2>4. n - 1 - 0 = n - 1
    BY <1>1
  <2>5. InvocationLeft' = (n - 1) * e + 0 + 1
    BY <2>2, <2>4
  <2> HIDE DEF n, e
  <2> QED BY <1>1, <1>2, <1>3, <2>3, <2>5
<1> QED BY <1>6, <1>7, <1>8, <1>9, InvocationPace

\* An invocation that opens has the plan before it, at most.
LEMMA InvocationOpens ==
  ASSUME IInv, Sized', [Next]_vars, run.pc = "away"
  PROVE  InvocationLeft' <= Plan * EpisodeSteps + 1
<1>1. /\ EpisodeSteps \in Nat /\ Plan \in Nat /\ Done' \in Nat
      /\ run'.pc # "away" => Done' <= Plan
  BY DEF Sized
<1>2. Plan * EpisodeSteps \in Nat
  BY <1>1, OneFewer
<1>3. CASE run'.pc = "away"
  BY <1>2, <1>3 DEF InvocationLeft
<1>4. CASE run'.pc # "away"
  <2>1. run'.pc = "plan"
    BY <1>4 DEF vars, Next, Work, Begin, Report, EpisodeEnds, Undispatched, AppendEpisode,
                AppendFails, Attempt, CapReached, Unmeasured, Measured, Breached, Crash,
                Refused, Open, IInv, Shapes, RunSet
  <2> DEFINE m == Plan - Done'
  <2>2. InvocationLeft' = (m - 0) * EpisodeSteps + 0 + 1
    BY <2>1 DEF InvocationLeft, InEpisode, EpisodeLeft
  <2>3. m \in Nat /\ m <= Plan /\ m - 0 = m
    <3>1. \A p, d \in Nat : d <= p => p - d \in Nat /\ p - d <= p /\ (p - d) - 0 = p - d
      OBVIOUS
    <3> QED BY <1>1, <1>4, <3>1, Zenon
  <2>4. m * EpisodeSteps <= Plan * EpisodeSteps /\ m * EpisodeSteps \in Nat
    BY <1>1, <2>3, FewerAreLess, OneFewer
  <2>5. InvocationLeft' = m * EpisodeSteps + 0 + 1
    BY <2>2, <2>3
  <2> HIDE DEF m
  <2> QED BY <1>2, <2>4, <2>5
<1> QED BY <1>3, <1>4

\* Every invocation of every run is as short as InvocationRunsDown says: what ends
\* it is only that its next step is taken (execute_run, run_episode).
THEOREM InvocationsAreShort == Spec => InvocationRunsDown
<1>1. Init => Paced
  BY DEF Init, Away, Paced
<1>2. IInv /\ Paced /\ Sized /\ Sized' /\ [Next]_vars =>
        [/\ run.pc # "away" => InvocationLeft' \in 0 .. (InvocationLeft - 1)
         /\ run.pc = "away" => InvocationLeft' <= Plan * EpisodeSteps + 1]_vars
  BY InvocationWears, InvocationOpens
<1> QED
  BY <1>1, <1>2, MeasureType, PacedKept, BookkeepingInvariant, PTL DEF Spec, InvocationRunsDown
=============================================================================

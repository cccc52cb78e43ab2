------------------------------ MODULE Campaign ------------------------------
(***************************************************************************)
(* run_campaign, tools/three_flow_campaign.py: trials played by a pool of  *)
(* worker threads against one budget, in one invocation and in those that  *)
(* resume it.  A thread reserves, passes the gate its model's trials share *)
(* (MetaRatePacer), dispatches, announces the request in the journal and   *)
(* sends it; what it holds across these steps is what the other threads, a *)
(* failed write or the death of the process can invalidate.                *)
(***************************************************************************)
EXTENDS CampaignBudget

CONSTANTS
  Order,      \* the trials in the order they are submitted to the pool
  Workers,
  Model,      \* the model of a trial behind the gate, NoModel for another
  NoModel,
  Nobody,
  Bills,      \* what its provider may bill a trial for a request
  Turns,      \* bound: requests of a trial in one invocation
  MaxLives,   \* bound: invocations
  MaxFaults   \* bound: appends and files that fail

ASSUME CampaignAssumption ==
  /\ Order \in [1 .. Cardinality(Trials) -> Trials]
  /\ {Workers, MaxLives, MaxFaults} \subseteq Nat
  /\ Turns \in [Trials -> Nat]
  /\ Bills \in [Trials -> SUBSET Nat] /\ Nobody \notin Trials

VARIABLES
  life,     \* which invocation this is, its phase and what it reported
  ledger,
  gate,     \* stopped, and the trial each model lock is held by
  trial,    \* what the thread of a trial knows
  files,    \* what a trial has on disk: absent, torn or whole
  rows,     \* what the worker of a trial returned
  world,    \* ghost: what the providers billed, and in which invocations
  faults

vars == <<life, ledger, gate, trial, files, rows, world, faults>>

Gated == {t \in Trials : Model[t] # NoModel}
Models == {Model[t] : t \in Gated}

\* sent counts the captures of this invocation.
NewTrial == [pc |-> "queued", sent |-> 0, bill |-> 0]
NoRow == [class |-> "none", cost |-> 0, doubtful |-> FALSE]
OpenGate == [stopped |-> FALSE, holder |-> [m \in Models |-> Nobody]]

Init ==
  /\ life = [n |-> 1, phase |-> "running", report |-> "none"]
  /\ ledger = NewLedger
  /\ gate = OpenGate
  /\ trial = [t \in Trials |-> NewTrial]
  /\ files = [t \in Trials |-> [assigned |-> "absent", binding |-> "absent", closure |-> "absent"]]
  /\ rows = [t \in Trials |-> NoRow]
  /\ world = [t \in Trials |-> [billed |-> 0, excess |-> 0, sent |-> 0, lives |-> {}]]
  /\ faults = 0

Go(t, pc) == trial' = [trial EXCEPT ![t].pc = pc]
At(t, pc) == life.phase = "running" /\ trial[t].pc = pc

Faulty(fails) == (fails => faults < MaxFaults) /\ faults' = faults + (IF fails THEN 1 ELSE 0)

\* An event of the journal: then, if it becomes durable; closing, if not.
Event(t, book, then) ==
  \E outcome \in Outcomes :
    /\ Faulty(outcome # "durable")
    /\ ledger' = Appended(ledger, book, outcome)
    /\ Go(t, IF outcome = "durable" THEN then ELSE "closing")

\* write_private: fails with the file absent, torn or whole.
Remains == {"absent", "torn", "whole"}
Write(t, file, done, failed) ==
  \E fails \in BOOLEAN, left \in Remains :
    /\ ~fails => left = "whole"
    /\ Faulty(fails)
    /\ files' = [files EXCEPT ![t][file] = left]
    /\ Go(t, IF fails THEN failed ELSE done)

Lock(t) == gate' = [gate EXCEPT !.holder[Model[t]] = t]
\* Mutant: the lock is let go only by a thread that got its answer.
KeepLock(t) ==
  IF t \in Gated /\ trial[t].pc = "flight"
  THEN gate' = [gate EXCEPT !.holder[Model[t]] = Nobody] ELSE UNCHANGED gate

Unlock(t) ==
  IF t \in Gated
  THEN gate' = [gate EXCEPT !.holder[Model[t]] = Nobody] ELSE UNCHANGED gate

(************************ The start of a worker ****************************)
Working == {t \in Trials : trial[t].pc \notin {"queued", "returned", "raised"}}

\* The pool takes the trials in the order they were submitted.
IsNext(t) ==
  /\ At(t, "queued") /\ Cardinality(Working) < Workers
  /\ \E i \in DOMAIN Order :
       Order[i] = t /\ \A j \in 1 .. (i - 1) : trial[Order[j]].pc # "queued"

\* Mutant: a row counts what was settled only.
SettledCost(t) ==
  OfTrial(ledger.book, t, {"settled"})

\* financial_row, from the book in memory.
Cost(t) ==
  OfTrial(ledger.book, t, Spent)

Row(t, class, doubtful) ==
  rows' = [rows EXCEPT ![t] = [class |-> class, cost |-> Cost(t), doubtful |-> doubtful]]

\* A closure on file is reconciled with the journal; one that does not parse
\* is an exception of the worker.
Reconcile(t) ==
  /\ IsNext(t) /\ files[t].closure # "absent"
  /\ IF files[t].closure = "torn" THEN Go(t, "raised") /\ UNCHANGED rows
     ELSE Go(t, "returned") /\ Row(t, "closed", FALSE)
  /\ UNCHANGED <<life, ledger, gate, files, world, faults>>

\* A trial that was started and not closed is closed, never played again.
Interrupted(t) ==
  /\ IsNext(t) /\ files[t].closure = "absent" /\ files[t].assigned # "absent"
  /\ Go(t, IF files[t].assigned = "torn" THEN "raised" ELSE "closing")
  /\ UNCHANGED <<life, ledger, gate, files, rows, world, faults>>

Fresh(t) == IsNext(t) /\ files[t].closure = "absent" /\ files[t].assigned = "absent"

Defer(t) ==
  /\ Fresh(t) /\ t \in Gated /\ gate.stopped
  /\ Go(t, "returned") /\ Row(t, "pending", FALSE)
  /\ UNCHANGED <<life, ledger, gate, files, world, faults>>

Assign(t) ==
  /\ Fresh(t) /\ ~(t \in Gated /\ gate.stopped)
  /\ Write(t, "assigned", "assigned", "raised")
  /\ UNCHANGED <<life, ledger, gate, rows, world>>

\* The binding and the runtime directory are created once, too; whether they
\* are is all that is ever asked of them.
Bind(t) ==
  /\ At(t, "assigned")
  /\ IF files[t].binding = "absent"
     THEN \E fails \in BOOLEAN :
            /\ Faulty(fails)
            /\ files' = [files EXCEPT ![t].binding = "whole"]
            /\ Go(t, IF fails THEN "closing" ELSE "ready")
     ELSE Go(t, "closing") /\ UNCHANGED <<files, faults>>
  /\ UNCHANGED <<life, ledger, gate, rows, world>>

(*************************** One request of a trial ************************)
\* The episode needs no further request, or its answer ended it.
EpisodeEnds(t) ==
  /\ At(t, "ready")
  /\ Go(t, "closing")
  /\ UNCHANGED <<life, ledger, gate, files, rows, world, faults>>

\* authorize: a broken journal and a full budget both end the trial.
Reserve(t) ==
  /\ At(t, "ready") /\ trial[t].sent < Turns[t]
  /\ IF ledger.broken \/ ~Fits(Reserved(ledger.book, t))
     THEN Go(t, "closing") /\ UNCHANGED <<ledger, faults>>
     ELSE Event(t, Reserved(ledger.book, t), "reserved")
  /\ UNCHANGED <<life, gate, files, rows, world>>

\* MetaRatePacer.call: the lock is held from the look at the gate to the answer.
PassGate(t) ==
  /\ At(t, "reserved")
  /\ IF t \in Gated
     THEN /\ gate.holder[Model[t]] = Nobody
          /\ IF gate.stopped THEN Go(t, "barred") /\ UNCHANGED gate
             ELSE Go(t, "gated") /\ Lock(t)
     ELSE Go(t, "gated") /\ UNCHANGED gate
  /\ UNCHANGED <<life, ledger, files, rows, world, faults>>

\* Mutant: only the reservation is held against the cap.
DispatchUnchecked(t, extra) ==
  /\ At(t, "gated") /\ ~ledger.broken
  /\ Event(t, Dispatched(ledger.book, t, extra), "dispatched")
  /\ IF ledger'.broken THEN Unlock(t) ELSE UNCHANGED gate
  /\ UNCHANGED <<life, files, rows, world>>

\* The cap is looked at again, at the size of the serialised request.
Dispatch(t, extra) ==
  /\ At(t, "gated")
  /\ LET book == Dispatched(ledger.book, t, extra) IN
     IF ledger.broken \/ ~Fits(book)
     THEN Go(t, "failing") /\ Unlock(t) /\ UNCHANGED <<ledger, faults>>
     ELSE /\ Event(t, book, "dispatched")
          /\ IF ledger'.broken THEN Unlock(t) ELSE UNCHANGED gate
  /\ UNCHANGED <<life, files, rows, world>>

\* The capture, which the observer may fail to persist, and raw_rpc.
Announce(t) ==
  /\ At(t, "dispatched")
  /\ \/ ~ledger.broken /\ Event(t, Announced(ledger.book, t), "announced")
     \/ ledger.broken /\ Go(t, "failing") /\ UNCHANGED <<ledger, faults>>
  /\ IF ledger'.broken THEN Unlock(t) ELSE UNCHANGED gate
  /\ UNCHANGED <<life, files, rows, world>>

ObserverFails(t) ==
  /\ At(t, "dispatched") /\ Faulty(TRUE)
  /\ Go(t, "failing") /\ Unlock(t)
  /\ UNCHANGED <<life, ledger, files, rows, world>>

\* The request is on the wire: the provider will bill it, whatever we learn.
Transmit(t, bill) ==
  /\ At(t, "announced")
  /\ LET book == ledger.book[t]
         held == book[Len(book)].bound
     IN world' = [world EXCEPT
          ![t].billed = @ + bill, ![t].excess = @ + (IF bill > held THEN bill - held ELSE 0),
          ![t].sent = @ + 1, ![t].lives = @ \cup {life.n}]
  /\ trial' = [trial EXCEPT ![t].pc = "flight", ![t].bill = bill, ![t].sent = @ + 1]
  /\ UNCHANGED <<life, ledger, gate, files, rows, faults>>

Answered(t) ==
  /\ At(t, "flight")
  /\ Go(t, "answered") /\ Unlock(t)
  /\ UNCHANGED <<life, ledger, files, rows, world, faults>>

\* No answer, or one that cannot be used; losing the provider or an HTTP 429
\* stops the gate for every model behind it.
Unanswered(t) ==
  /\ At(t, "flight")
  /\ Go(t, "failing")
  /\ \E stops \in BOOLEAN :
       (stops => t \in Gated) /\ gate' = [gate EXCEPT !.stopped = @ \/ stops,
                  !.holder = [m \in Models |-> IF m = Model[t] THEN Nobody ELSE @[m]]]
  /\ UNCHANGED <<life, ledger, files, rows, world, faults>>

\* settle: usage above the bounds keeps the full bound as unknown and ends the
\* trial, as a usage nobody reported would be kept and the trial go on.
Settle(t) ==
  /\ At(t, "answered")
  /\ \E reported \in BOOLEAN :
       IF ledger.broken THEN Go(t, "closing") /\ UNCHANGED <<ledger, faults>>
       ELSE IF ~reported THEN Event(t, Forfeited(ledger.book, t), "ready")
       ELSE IF MaySettle(ledger.book, t, trial[t].bill)
            THEN Event(t, Settled(ledger.book, t, trial[t].bill), "ready")
            ELSE Event(t, Forfeited(ledger.book, t), "closing")
  /\ UNCHANGED <<life, gate, files, rows, world>>

\* The exception of a request: its reservation is kept as unknown.
Forfeit(t) ==
  /\ At(t, "failing")
  /\ IF ledger.broken THEN Go(t, "closing") /\ UNCHANGED <<ledger, faults>>
     ELSE Event(t, Forfeited(ledger.book, t), "closing")
  /\ UNCHANGED <<life, gate, files, rows, world>>

(********************** Stopped at the gate, and closing *******************)
\* Mutant: only the request that was stopped is looked at.
UnsentTurn(t) ==
  TRUE

\* Neither this request nor one before it reached the wire.
Unsent(t) ==
  trial[t].sent = 0

\* The one reservation that is given back: it was never dispatched.
Barred(t) ==
  /\ At(t, "barred")
  /\ LET then == IF Unsent(t) THEN "archiving" ELSE "closing" IN
     IF ledger.broken THEN Go(t, then) /\ UNCHANGED <<ledger, faults>>
     ELSE \E outcome \in Outcomes :
            /\ Faulty(outcome # "durable")
            /\ ledger' = Appended(ledger, Resolved(ledger.book, t, "cancelled"), outcome)
            /\ Go(t, then)
  /\ UNCHANGED <<life, gate, files, rows, world>>

\* A trial that sent nothing gives its files up, so that a resumption plays it.
Unassign(t) ==
  /\ At(t, "archiving") /\ files[t].assigned # "absent"
  /\ files' = [files EXCEPT ![t].assigned = "absent"]
  /\ UNCHANGED <<life, ledger, gate, trial, rows, world, faults>>

Archive(t) ==
  /\ At(t, "archiving") /\ files[t].assigned = "absent"
  /\ files' = [files EXCEPT ![t].binding = "absent"]
  /\ Go(t, "returned") /\ Row(t, "pending", FALSE)
  /\ UNCHANGED <<life, ledger, gate, world, faults>>

\* The archive cannot be made, or a file cannot be moved to it.
ArchiveFails(t) ==
  /\ At(t, "archiving") /\ Faulty(TRUE)
  /\ Go(t, "raised")
  /\ UNCHANGED <<life, ledger, gate, files, rows, world>>

\* The row, counted while the journal may be broken, is the trial's closure.
Close(t) ==
  /\ At(t, "closing")
  /\ Write(t, "closure", "returned", "raised")
  /\ IF trial'[t].pc = "returned" THEN Row(t, "closed", ledger.broken) ELSE UNCHANGED rows
  /\ UNCHANGED <<life, ledger, gate, world>>

(*************************** The invocation ********************************)
Worker(t) ==
  \/ Reconcile(t) \/ Interrupted(t) \/ Defer(t) \/ Assign(t) \/ Bind(t)
  \/ EpisodeEnds(t) \/ Reserve(t) \/ PassGate(t) \/ Announce(t) \/ ObserverFails(t)
  \/ (\E extra \in Supplements : Dispatch(t, extra)) \/ (\E bill \in Bills[t] : Transmit(t, bill))
  \/ Answered(t) \/ Unanswered(t) \/ Settle(t) \/ Forfeit(t)
  \/ Barred(t) \/ Unassign(t) \/ Archive(t) \/ ArchiveFails(t) \/ Close(t)

\* The pool waits for every worker; an exception of one leaves no terminal.
Conclude ==
  /\ life.phase = "running"
  /\ \A t \in Trials : trial[t].pc \in {"returned", "raised"}
  /\ life' = [life EXCEPT !.phase = "ended", !.report =
       IF \E t \in Trials : trial[t].pc = "raised" THEN "none"
       ELSE IF \E t \in Trials : rows[t].class = "pending" THEN "incomplete" ELSE "complete"]
  /\ UNCHANGED <<ledger, gate, trial, files, rows, world, faults>>

\* What the process knew is gone with it.
Forget ==
  /\ ledger' = Opened(ledger)
  /\ gate' = OpenGate
  /\ trial' = [t \in Trials |-> NewTrial]
  /\ rows' = [t \in Trials |-> NoRow]

Crash ==
  /\ life.phase \in {"opening", "running"}
  /\ life' = [life EXCEPT !.phase = "ended"]
  /\ Forget
  /\ UNCHANGED <<files, world, faults>>

Resume ==
  /\ life.phase = "ended" /\ life.n < MaxLives /\ MayOpen(ledger)
  /\ life' = [n |-> life.n + 1, phase |-> "opening", report |-> "none"]
  /\ Forget
  /\ UNCHANGED <<files, world, faults>>

\* CampaignBudget.__init__: nothing shows that an unresolved request stayed off
\* the wire, so all of them are forfeited before a worker starts.
Recover(t) ==
  /\ life.phase = "opening" /\ In(ledger.book, t, Unresolved)
  /\ \E outcome \in Outcomes :
       /\ Faulty(outcome # "durable")
       /\ ledger' = Appended(ledger, Forfeited(ledger.book, t), outcome)
       /\ life' = IF outcome = "durable" THEN life ELSE [life EXCEPT !.phase = "ended"]
  /\ UNCHANGED <<gate, trial, files, rows, world>>

Started ==
  /\ life.phase = "opening" /\ \A t \in Trials : ~In(ledger.book, t, Unresolved)
  /\ life' = [life EXCEPT !.phase = "running"]
  /\ UNCHANGED <<ledger, gate, trial, files, rows, world, faults>>

Work == Conclude \/ Started \/ \E t \in Trials : Worker(t) \/ Recover(t)

Next == Work \/ Crash \/ Resume

Spec == Init /\ [][Next]_vars
\* As long as a thread can take a step, one does.
FairSpec == Spec /\ WF_vars(Work)

(****************************** Properties *********************************)
\* Whatever crashed, failed or was stopped, the requests of a trial reach the
\* provider in one invocation: resuming never submits it again.
NoTrialIsPlayedTwice == \A t \in Trials : Cardinality(world[t].lives) <= 1

\* What a provider billed a trial for is on the journal's file at every moment,
\* as known, pending or unknown, but for what exceeds a request's bound; and
\* every request that left was announced there first.
SpendIsOnTheJournal ==
  \A t \in Trials :
    /\ world[t].billed <= OfTrial(ledger.file, t, Spent \cup Unresolved) + world[t].excess
    /\ world[t].sent <= Requests(ledger.file, t)

\* A pending row is of a trial the provider never saw, which a resumption may
\* start; a closed row covers what its trial was billed, unless the journal
\* had failed when it was written; and a complete report closes every trial.
RowsAreTrue ==
  /\ \A t \in Trials :
       /\ rows[t].class = "pending" =>
            world[t].sent = 0 /\ files[t].assigned = "absent"
       /\ rows[t].class = "closed" /\ ~rows[t].doubtful =>
            world[t].billed <= rows[t].cost + world[t].excess
  /\ life.report = "complete" => \A t \in Trials : files[t].closure = "whole"

\* However many threads and invocations draw on it, the journal keeps one cap.
TheCap == INSTANCE SpendingCap WITH
  spent <- Total(ledger.file, Spent), held <- Total(ledger.file, Unresolved), overrun <- 0
CampaignKeepsTheCap == TheCap!Spec

\* An invocation ends, whichever threads fail and whoever stops the gate.
InvocationEnds == life.phase = "running" ~> life.phase = "ended"

=============================================================================

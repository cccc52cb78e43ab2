--------------------------- MODULE CampaignProofs ---------------------------
(***************************************************************************)
(* What a campaign owes its budget and its providers, proved for any set   *)
(* of trials, pool, price, number of crashes and of failures.              *)
(*                                                                         *)
(* That no trial is played in two invocations is about what has left for   *)
(* the providers, which nothing in the process remembers; what carries it  *)
(* from one invocation to the next is the assigned file.  PlayInv says so: *)
(* what was played has that file, whoever is playing now is the only       *)
(* invocation that has, and a trial about to give the file up has sent     *)
(* nothing.                                                                *)
(*                                                                         *)
(* The money needs more, MoneyInv: the book in memory and the one on file  *)
(* differ only where an append failed; a thread's place decides the state  *)
(* its latest reservation has on file, and how much of that is not billed  *)
(* yet; a trial that waits, or closes with a sound journal, has nothing    *)
(* unresolved.  That the journal covers the bills, that rows are true and  *)
(* that the campaign implements SpendingCap follow from it.                *)
(***************************************************************************)
EXTENDS Campaign, SumProofs

\* A thread that may still send a request, or has one to account for.
Playing == {"assigned", "ready", "reserved", "gated", "dispatched", "announced",
            "flight", "answered", "failing", "barred"}
Places == Playing \cup {"queued", "archiving", "closing", "returned", "raised"}

LifeShape == [n : Nat, phase : {"opening", "running", "ended"},
              report : {"none", "incomplete", "complete"}]
FilesOfTrial == [assigned : Remains, binding : Remains, closure : Remains]
TrialShape == [pc : Places, sent : Nat, bill : Nat]

Shapes ==
  /\ life \in LifeShape
  /\ trial \in [Trials -> TrialShape]
  /\ files \in [Trials -> FilesOfTrial]
  /\ world = [t \in Trials |-> [billed |-> world[t].billed, excess |-> world[t].excess,
                                sent |-> world[t].sent, lives |-> world[t].lives]]

\* Together: the trial has been played in one invocation at most.
OneLife(t) == \A m, n \in world[t].lives : m = n
PlayedIsAssigned(t) == world[t].lives # {} => files[t].assigned # "absent"
PlayerIsAlone(t) ==
  trial[t].pc \in Playing =>
    /\ files[t].assigned # "absent"
    /\ world[t].lives \subseteq {life.n}
    /\ trial[t].sent = 0 => world[t].lives = {}
ArchivedIsUnplayed(t) == trial[t].pc = "archiving" => world[t].lives = {}

Once(t) == OneLife(t) /\ PlayedIsAssigned(t) /\ PlayerIsAlone(t) /\ ArchivedIsUnplayed(t)
PlayInv == Shapes /\ \A t \in Trials : Once(t)

-----------------------------------------------------------------------------
\* Where one thread moves, on the same invocation, with no trial's assigned
\* file touched and nothing sent, it may go anywhere but into play from
\* outside, or to the archive with something sent.
LEMMA MovesKeep ==
  ASSUME PlayInv, NEW t \in Trials, NEW pc \in Places, Go(t, pc),
         UNCHANGED world, life' \in LifeShape, life'.n = life.n,
         files' \in [Trials -> FilesOfTrial],
         \A u \in Trials : files'[u].assigned = files[u].assigned,
         pc \in Playing => trial[t].pc \in Playing,
         pc = "archiving" => world[t].lives = {}
  PROVE  PlayInv'
<1>1. trial' \in [Trials -> TrialShape]
  BY DEF PlayInv, Shapes, Go, TrialShape
<1>2. /\ trial'[t].pc = pc /\ trial'[t].sent = trial[t].sent
      /\ \A u \in Trials \ {t} : trial'[u] = trial[u]
  BY DEF PlayInv, Shapes, Go, TrialShape
<1>3. ASSUME NEW u \in Trials PROVE Once(u)'
  <2>1. Once(u)
    BY DEF PlayInv
  <2>2. CASE u = t
    BY <2>1, <2>2, <1>2 DEF Once, OneLife, PlayedIsAssigned, PlayerIsAlone, ArchivedIsUnplayed
  <2>3. CASE u # t
    BY <2>1, <2>3, <1>2 DEF Once, OneLife, PlayedIsAssigned, PlayerIsAlone, ArchivedIsUnplayed
  <2> QED
    BY <2>2, <2>3
<1> QED
  BY <1>1, <1>3 DEF PlayInv, Shapes

\* The same for a step that leaves the files alone, too.
LEMMA StepsKeep ==
  ASSUME PlayInv, NEW t \in Trials, NEW pc \in Places, Go(t, pc),
         UNCHANGED <<life, files, world>>,
         pc \in Playing => trial[t].pc \in Playing,
         pc = "archiving" => world[t].lives = {}
  PROVE  PlayInv'
<1>1. life' \in LifeShape /\ life'.n = life.n /\ files' \in [Trials -> FilesOfTrial]
  BY DEF PlayInv, Shapes
<1>2. \A u \in Trials : files'[u].assigned = files[u].assigned
  OBVIOUS
<1> QED
  BY <1>1, <1>2, MovesKeep

\* A new process knows nothing of any trial, so nobody is playing.
LEMMA ForgetKeeps ==
  ASSUME PlayInv, Forget, life' \in LifeShape, UNCHANGED <<files, world>>
  PROVE  PlayInv'
<1>1. /\ trial' \in [Trials -> TrialShape]
      /\ \A u \in Trials : trial'[u].pc = "queued"
  BY DEF Forget, NewTrial, TrialShape, Places, Playing
<1>2. ASSUME NEW u \in Trials PROVE Once(u)'
  <2>1. trial'[u].pc \notin Playing /\ trial'[u].pc # "archiving"
    BY <1>1 DEF Playing
  <2>2. Once(u)
    BY DEF PlayInv
  <2> QED
    BY <2>1, <2>2 DEF Once, OneLife, PlayedIsAssigned, PlayerIsAlone, ArchivedIsUnplayed
<1> QED
  BY <1>1, <1>2 DEF PlayInv, Shapes

-----------------------------------------------------------------------------
\* Nothing has been played when the first invocation starts.
LEMMA PlayInvInit == Init => PlayInv
<1> SUFFICES ASSUME Init PROVE PlayInv
  OBVIOUS
<1>1. life \in LifeShape
  BY DEF Init, LifeShape
<1>2. trial \in [Trials -> TrialShape] /\ \A t \in Trials : trial[t].pc = "queued"
  BY DEF Init, NewTrial, TrialShape, Places, Playing
<1>3. files \in [Trials -> FilesOfTrial]
  BY DEF Init, FilesOfTrial, Remains
<1>4. /\ \A t \in Trials : world[t].lives = {}
      /\ world = [t \in Trials |-> [billed |-> world[t].billed, excess |-> world[t].excess,
                                    sent |-> world[t].sent, lives |-> world[t].lives]]
  BY DEF Init
<1>5. ASSUME NEW t \in Trials PROVE Once(t)
  BY <1>2, <1>4 DEF Once, OneLife, PlayedIsAssigned, PlayerIsAlone, ArchivedIsUnplayed, Playing
<1> QED
  BY <1>1, <1>2, <1>3, <1>4, <1>5 DEF PlayInv, Shapes

-----------------------------------------------------------------------------
(* The steps of a worker. *)

\* Only a trial without the file is started, so it has not been played.
LEMMA AssignKeeps ==
  ASSUME PlayInv, NEW t \in Trials, Assign(t)
  PROVE  PlayInv'
<1>1. /\ files[t].assigned = "absent"
      /\ UNCHANGED <<life, world>>
  BY DEF Assign, Fresh
<1>2. PICK fails \in BOOLEAN, left \in Remains :
        /\ ~fails => left = "whole"
        /\ files' = [files EXCEPT ![t]["assigned"] = left]
        /\ Go(t, IF fails THEN "raised" ELSE "assigned")
  BY DEF Assign, Write
<1>3. /\ files' \in [Trials -> FilesOfTrial]
      /\ files'[t].assigned = left
      /\ \A u \in Trials \ {t} : files'[u] = files[u]
  BY <1>2 DEF PlayInv, Shapes, FilesOfTrial
<1>4. /\ trial' \in [Trials -> TrialShape]
      /\ trial'[t].pc = (IF fails THEN "raised" ELSE "assigned")
      /\ \A u \in Trials \ {t} : trial'[u] = trial[u]
  BY <1>2 DEF PlayInv, Shapes, Go, TrialShape, Places, Playing
<1>5. world[t].lives = {}
  BY <1>1 DEF PlayInv, Once, PlayedIsAssigned
<1>6. ASSUME NEW u \in Trials PROVE Once(u)'
  <2>1. CASE u = t
    <3>1. trial'[t].pc \in Playing => files'[t].assigned # "absent"
      BY <1>2, <1>3, <1>4 DEF Playing
    <3> QED
      BY <2>1, <3>1, <1>1, <1>4, <1>5
      DEF Once, OneLife, PlayedIsAssigned, PlayerIsAlone, ArchivedIsUnplayed
  <2>2. CASE u # t
    BY <2>2, <1>1, <1>3, <1>4
    DEF PlayInv, Once, OneLife, PlayedIsAssigned, PlayerIsAlone, ArchivedIsUnplayed
  <2> QED
    BY <2>1, <2>2
<1> QED
  BY <1>1, <1>3, <1>4, <1>6 DEF PlayInv, Shapes

\* The request leaves in this invocation, the only one that has played it.
LEMMA TransmitKeeps ==
  ASSUME PlayInv, NEW t \in Trials, NEW bill \in Bills[t], Transmit(t, bill)
  PROVE  PlayInv'
<1>1. trial[t].pc = "announced" /\ UNCHANGED <<life, files>>
  BY DEF Transmit, At
<1>2. bill \in Nat
  BY CampaignAssumption
<1>4. trial \in [Trials -> TrialShape] /\ trial[t] \in TrialShape /\ trial[t].sent \in Nat
  BY DEF PlayInv, Shapes, TrialShape
<1>3. /\ trial' \in [Trials -> TrialShape]
      /\ trial'[t].pc = "flight" /\ trial'[t].sent = trial[t].sent + 1
      /\ \A u \in Trials \ {t} : trial'[u] = trial[u]
  <2> DEFINE new == [trial[t] EXCEPT !.pc = "flight", !.bill = bill, !.sent = @ + 1]
  <2>1. trial' = [trial EXCEPT ![t] = new]
    BY DEF Transmit
  <2>2. new \in TrialShape /\ new.pc = "flight" /\ new.sent = trial[t].sent + 1
    <3>1. "flight" \in Places
      BY DEF Places, Playing
    <3>2. ASSUME NEW n \in Nat, NEW r \in TrialShape
          PROVE  LET u == [r EXCEPT !.pc = "flight", !.bill = bill, !.sent = n]
                 IN u \in TrialShape /\ u.pc = "flight" /\ u.sent = n
      BY <1>2, <3>1 DEF TrialShape
    <3>3. trial[t].sent + 1 \in Nat
      BY <1>4
    <3> QED BY <1>4, <3>2, <3>3
  <2> HIDE DEF new
  <2> QED BY <1>4, <2>1, <2>2
<1>5. trial'[t].sent # 0
  BY <1>3, <1>4
<1>6. /\ world' = [u \in Trials |-> [billed |-> world'[u].billed, excess |-> world'[u].excess,
                                     sent |-> world'[u].sent, lives |-> world'[u].lives]]
      /\ world'[t].lives = world[t].lives \cup {life.n}
      /\ \A u \in Trials \ {t} : world'[u] = world[u]
  <2>1. PICK billed, excess, sent :
          world' = [world EXCEPT ![t].billed = billed, ![t].excess = excess,
                                 ![t].sent = sent, ![t].lives = @ \cup {life.n}]
    BY DEF Transmit
  <2>2. world = [u \in Trials |-> [billed |-> world[u].billed, excess |-> world[u].excess,
                                   sent |-> world[u].sent, lives |-> world[u].lives]]
    BY DEF PlayInv, Shapes
  <2>3. world'[t] = [billed |-> billed, excess |-> excess, sent |-> sent,
                     lives |-> world[t].lives \cup {life.n}]
    <3>1. t \in DOMAIN world
      BY <2>2
    <3>2. world'[t] = [world[t] EXCEPT !.billed = billed, !.excess = excess,
                                       !.sent = sent, !.lives = @ \cup {life.n}]
      BY <2>1, <3>1
    <3>3. world[t] = [billed |-> world[t].billed, excess |-> world[t].excess,
                      sent |-> world[t].sent, lives |-> world[t].lives]
      BY <2>2
    <3> QED
      BY <3>2, <3>3
  <2>4. \A u \in Trials \ {t} : world'[u] = world[u]
    BY <2>1, <2>2
  <2>5. world' = [u \in Trials |-> world'[u]]
    <3>1. DOMAIN world = Trials
      BY <2>2
    <3>2. world' = [u \in DOMAIN world |-> world'[u]]
      BY <2>1
    <3> QED
      BY <3>1, <3>2
  <2>6. ASSUME NEW u \in Trials
        PROVE  world'[u] = [billed |-> world'[u].billed, excess |-> world'[u].excess,
                            sent |-> world'[u].sent, lives |-> world'[u].lives]
    <3>1. CASE u = t
      BY <2>3, <3>1
    <3>2. CASE u # t
      BY <2>2, <2>4, <3>2
    <3> QED
      BY <3>1, <3>2
  <2> QED
    BY <2>3, <2>4, <2>5, <2>6
<1>7. files[t].assigned # "absent" /\ world[t].lives \subseteq {life.n}
  BY <1>1 DEF PlayInv, Once, PlayerIsAlone, Playing
<1>8. ASSUME NEW u \in Trials PROVE Once(u)'
  <2>1. CASE u = t
    BY <2>1, <1>1, <1>3, <1>5, <1>6, <1>7
    DEF Once, OneLife, PlayedIsAssigned, PlayerIsAlone, ArchivedIsUnplayed
  <2>2. CASE u # t
    BY <2>2, <1>1, <1>3, <1>6
    DEF PlayInv, Once, OneLife, PlayedIsAssigned, PlayerIsAlone, ArchivedIsUnplayed
  <2> QED
    BY <2>1, <2>2
<1> QED
  BY <1>1, <1>3, <1>6, <1>8 DEF PlayInv, Shapes

\* The file is given up for a trial that has sent nothing.
LEMMA UnassignKeeps ==
  ASSUME PlayInv, NEW t \in Trials, Unassign(t)
  PROVE  PlayInv'
<1>1. /\ trial[t].pc = "archiving" /\ UNCHANGED <<life, trial, world>>
      /\ files' = [files EXCEPT ![t].assigned = "absent"]
  BY DEF Unassign, At
<1>2. /\ files' \in [Trials -> FilesOfTrial]
      /\ \A u \in Trials \ {t} : files'[u] = files[u]
  BY <1>1 DEF PlayInv, Shapes, FilesOfTrial, Remains
<1>3. world[t].lives = {}
  BY <1>1 DEF PlayInv, Once, ArchivedIsUnplayed
<1>4. ASSUME NEW u \in Trials PROVE Once(u)'
  <2>1. CASE u = t
    BY <2>1, <1>1, <1>3
    DEF Once, OneLife, PlayedIsAssigned, PlayerIsAlone, ArchivedIsUnplayed, Playing
  <2>2. CASE u # t
    BY <2>2, <1>1, <1>2
    DEF PlayInv, Once, OneLife, PlayedIsAssigned, PlayerIsAlone, ArchivedIsUnplayed
  <2> QED
    BY <2>1, <2>2
<1> QED
  BY <1>1, <1>2, <1>4 DEF PlayInv, Shapes

\* Barred at the gate: to the archive only with nothing sent.
LEMMA BarredKeeps ==
  ASSUME PlayInv, NEW t \in Trials, Barred(t)
  PROVE  PlayInv'
<1>1. /\ trial[t].pc = "barred" /\ UNCHANGED <<life, files, world>>
      /\ Go(t, IF Unsent(t) THEN "archiving" ELSE "closing")
  BY DEF Barred, At
<1>2. Unsent(t) => world[t].lives = {}
  BY <1>1 DEF PlayInv, Once, PlayerIsAlone, Playing, Unsent
<1>3. CASE Unsent(t)
  BY <1>1, <1>2, <1>3, StepsKeep DEF Places, Playing
<1>4. CASE ~Unsent(t)
  BY <1>1, <1>4, StepsKeep DEF Places, Playing
<1> QED
  BY <1>3, <1>4

\* What else touches a file: the binding or the closure, never the assigned.
LEMMA FilesKeep ==
  ASSUME PlayInv, NEW t \in Trials, Bind(t) \/ Archive(t) \/ Close(t)
  PROVE  PlayInv'
<1>1. UNCHANGED <<life, world>> /\ life' \in LifeShape
  BY DEF Bind, Archive, Close, PlayInv, Shapes
<1>2. CASE Bind(t)
  <2>1. PICK pc \in {"closing", "ready"} : Go(t, pc)
    BY <1>2 DEF Bind
  <2>2. files' = files \/ files' = [files EXCEPT ![t].binding = "whole"]
    BY <1>2 DEF Bind
  <2>3. /\ files' \in [Trials -> FilesOfTrial]
        /\ \A u \in Trials : files'[u].assigned = files[u].assigned
    <3>1. files \in [Trials -> FilesOfTrial]
      BY DEF PlayInv, Shapes
    <3>2. CASE files' = files
      BY <3>1, <3>2
    <3>3. CASE files' = [files EXCEPT ![t].binding = "whole"]
      BY <3>1, <3>3 DEF FilesOfTrial, Remains
    <3> QED
      BY <2>2, <3>2, <3>3
  <2>4. trial[t].pc \in Playing
    BY <1>2 DEF Bind, At, Playing
  <2> QED
    BY <1>1, <2>1, <2>3, <2>4, MovesKeep DEF Places, Playing
<1>3. CASE Archive(t)
  <2>1. /\ files' \in [Trials -> FilesOfTrial]
        /\ \A u \in Trials : files'[u].assigned = files[u].assigned
    BY <1>3 DEF Archive, PlayInv, Shapes, FilesOfTrial, Remains
  <2>2. Go(t, "returned")
    BY <1>3 DEF Archive
  <2> QED
    BY <1>1, <2>1, <2>2, MovesKeep DEF Places, Playing
<1>4. CASE Close(t)
  <2>1. PICK fails \in BOOLEAN, left \in Remains :
          /\ files' = [files EXCEPT ![t]["closure"] = left]
          /\ Go(t, IF fails THEN "raised" ELSE "returned")
    BY <1>4 DEF Close, Write
  <2>2. /\ files' \in [Trials -> FilesOfTrial]
        /\ \A u \in Trials : files'[u].assigned = files[u].assigned
    BY <2>1 DEF PlayInv, Shapes, FilesOfTrial
  <2>3. PICK pc \in {"raised", "returned"} : Go(t, pc)
    BY <2>1
  <2> QED
    BY <1>1, <2>2, <2>3, MovesKeep DEF Places, Playing
<1> QED
  BY <1>2, <1>3, <1>4

\* The start of a worker that plays nothing.
LEMMA StartsKeep ==
  ASSUME PlayInv, NEW t \in Trials, Reconcile(t) \/ Interrupted(t) \/ Defer(t)
  PROVE  PlayInv'
<1>1. UNCHANGED <<life, files, world>>
  BY DEF Reconcile, Interrupted, Defer
<1>2. PICK pc \in {"raised", "returned", "closing"} : Go(t, pc)
  BY DEF Reconcile, Interrupted, Defer
<1> QED
  BY <1>1, <1>2, StepsKeep DEF Places, Playing

\* The steps of a request but its transmission: where it has a next one it
\* was in play before.
Inside(t) ==
  \/ EpisodeEnds(t) \/ Reserve(t) \/ PassGate(t) \/ Announce(t) \/ ObserverFails(t)
  \/ (\E extra \in Supplements : Dispatch(t, extra))
  \/ Answered(t) \/ Unanswered(t) \/ Settle(t) \/ Forfeit(t) \/ ArchiveFails(t)

\* The steps of one request: the thread stays in play or goes to its close.
LEMMA RequestsKeep ==
  ASSUME PlayInv, NEW t \in Trials, Inside(t)
  PROVE  PlayInv'
<1> DEFINE Next_ == Playing \cup {"closing"}
<1>1. UNCHANGED <<life, files, world>>
  BY DEF Inside, EpisodeEnds, Reserve, PassGate, Announce, ObserverFails, Dispatch, Answered,
         Unanswered, Settle, Forfeit, ArchiveFails
<1>2. CASE ArchiveFails(t)
  BY <1>1, <1>2, StepsKeep DEF ArchiveFails, Places, Playing
<1>3. CASE ~ArchiveFails(t)
  <2>1. trial[t].pc \in Playing
    BY <1>3 DEF Inside, EpisodeEnds, Reserve, PassGate, Announce, ObserverFails, Dispatch,
                Answered, Unanswered, Settle, Forfeit, At, Playing
  <2>2. ASSUME NEW book, NEW then \in Next_, Event(t, book, then)
        PROVE  \E pc \in Next_ : Go(t, pc)
    BY <2>2 DEF Event
  <2>3. CASE \/ EpisodeEnds(t) \/ PassGate(t) \/ ObserverFails(t)
             \/ Answered(t) \/ Unanswered(t)
    <3>1. PICK pc \in {"closing", "barred", "gated", "failing", "answered"} : Go(t, pc)
      BY <2>3 DEF EpisodeEnds, PassGate, ObserverFails, Answered, Unanswered
    <3> QED
      BY <1>1, <2>1, <3>1, StepsKeep DEF Places, Playing
  <2>4. CASE Reserve(t) \/ Announce(t) \/ (\E extra \in Supplements : Dispatch(t, extra))
             \/ Settle(t) \/ Forfeit(t)
    <3>1. \/ \E pc \in {"closing", "failing"} : Go(t, pc)
          \/ \E book : \E then \in {"closing", "reserved", "announced", "dispatched", "ready"} :
               Event(t, book, then)
      BY <2>4 DEF Reserve, Announce, Dispatch, Settle, Forfeit
    <3>2. \E pc \in Next_ : Go(t, pc)
      BY <3>1, <2>2 DEF Playing
    <3> QED
      BY <1>1, <2>1, <3>2, StepsKeep DEF Places, Playing
  <2> QED
    BY <1>3, <2>3, <2>4 DEF Inside
<1> QED
  BY <1>2, <1>3

\* Whatever a worker does, its trial is played in one invocation.
LEMMA WorkerKeeps ==
  ASSUME PlayInv, NEW t \in Trials, Worker(t)
  PROVE  PlayInv'
<1>1. CASE \E bill \in Bills[t] : Transmit(t, bill)
  BY <1>1, TransmitKeeps
<1>2. CASE Assign(t) \/ Unassign(t) \/ Barred(t)
  BY <1>2, AssignKeeps, UnassignKeeps, BarredKeeps
<1>3. CASE Bind(t) \/ Archive(t) \/ Close(t)
  BY <1>3, FilesKeep
<1>4. CASE Reconcile(t) \/ Interrupted(t) \/ Defer(t)
  BY <1>4, StartsKeep
<1>5. CASE Inside(t)
  BY <1>5, RequestsKeep
<1> QED
  BY <1>1, <1>2, <1>3, <1>4, <1>5 DEF Worker, Inside

-----------------------------------------------------------------------------
(* The steps of the invocation. *)

\* Steps of the process that leave every thread where it is.
LEMMA ProcessKeeps ==
  ASSUME PlayInv, UNCHANGED <<trial, files, world>>, life' \in LifeShape, life'.n = life.n
  PROVE  PlayInv'
<1>1. ASSUME NEW t \in Trials PROVE Once(t)'
  BY DEF PlayInv, Once, OneLife, PlayedIsAssigned, PlayerIsAlone, ArchivedIsUnplayed
<1> QED
  BY <1>1 DEF PlayInv, Shapes

\* So do the start, the end and the death of an invocation.
LEMMA InvocationKeeps ==
  ASSUME PlayInv, \/ Conclude \/ Started \/ Crash \/ Resume
                  \/ \E t \in Trials : Recover(t)
  PROVE  PlayInv'
<1>0. life \in LifeShape
  BY DEF PlayInv, Shapes
<1>1. CASE Conclude
  <2>1. life' \in LifeShape /\ life'.n = life.n
    BY <1>0, <1>1 DEF Conclude, LifeShape
  <2> QED
    BY <1>1, <2>1, ProcessKeeps DEF Conclude
<1>2. CASE Started
  <2>1. life' \in LifeShape /\ life'.n = life.n
    BY <1>0, <1>2 DEF Started, LifeShape
  <2> QED
    BY <1>2, <2>1, ProcessKeeps DEF Started
<1>3. CASE \E t \in Trials : Recover(t)
  <2>1. /\ life' = life \/ life' = [life EXCEPT !.phase = "ended"]
        /\ UNCHANGED <<trial, files, world>>
    BY <1>3 DEF Recover
  <2>2. life' \in LifeShape /\ life'.n = life.n
    BY <1>0, <2>1 DEF LifeShape
  <2> QED
    BY <2>1, <2>2, ProcessKeeps
<1>4. CASE Crash
  <2>1. life' \in LifeShape
    BY <1>0, <1>4 DEF Crash, LifeShape
  <2> QED
    BY <1>4, <2>1, ForgetKeeps DEF Crash
<1>5. CASE Resume
  <2>1. life' \in LifeShape
    BY <1>0, <1>5 DEF Resume, LifeShape
  <2> QED
    BY <1>5, <2>1, ForgetKeeps DEF Resume
<1> QED
  BY <1>1, <1>2, <1>3, <1>4, <1>5

\* The invariant of the lives is inductive.
LEMMA NextKeeps == PlayInv /\ [Next]_vars => PlayInv'
<1> SUFFICES ASSUME PlayInv, [Next]_vars PROVE PlayInv'
  OBVIOUS
<1>1. CASE UNCHANGED vars
  BY <1>1, ProcessKeeps DEF vars, PlayInv, Shapes
<1>2. CASE \E t \in Trials : Worker(t)
  BY <1>2, WorkerKeeps
<1>3. CASE \/ Conclude \/ Started \/ Crash \/ Resume
           \/ \E t \in Trials : Recover(t)
  BY <1>3, InvocationKeeps
<1> QED
  BY <1>1, <1>2, <1>3 DEF Next, Work

-----------------------------------------------------------------------------
\* However a campaign crashes, is stopped at a gate, fails to write a file or
\* to append to its journal, and however often it is resumed, the requests of
\* a trial reach the provider in one invocation only (resuming closes what was
\* assigned and never submits it again).
THEOREM PlayedOnce == Spec => []NoTrialIsPlayedTwice
<1>1. PlayInv => NoTrialIsPlayedTwice
  <2> SUFFICES ASSUME PlayInv, NEW t \in Trials
               PROVE  Cardinality(world[t].lives) <= 1
    BY DEF NoTrialIsPlayedTwice
  <2>1. OneLife(t)
    BY DEF PlayInv, Once
  <2>2. CASE world[t].lives = {}
    <3>1. Cardinality(world[t].lives) = 0
      BY <2>2, FS_EmptySet
    <3> QED
      BY <3>1
  <2>3. CASE world[t].lives # {}
    <3>1. PICK m : world[t].lives = {m}
      BY <2>1, <2>3 DEF OneLife
    <3>2. Cardinality(world[t].lives) = 1
      BY <3>1, FS_Singleton
    <3> QED
      BY <3>2
  <2> QED
    BY <2>2, <2>3
<1> QED
  BY <1>1, PlayInvInit, NextKeeps, PTL DEF Spec

-----------------------------------------------------------------------------
(* The journal: what an event makes of the books.                            *)

States == {"reserved", "sent", "settled", "unknown", "cancelled"}
RecordSet == [state : States, bound : Nat, actual : Nat, rpcs : Nat]
BookSet == [Trials -> Seq(RecordSet)]

LastOf(s) == s[Len(s)]
Due == Spent \cup Unresolved

\* The latest reservation of a trial becomes r, and nothing else changes.
Rewrites(old, new, t, r) ==
  /\ new \in BookSet /\ \A u \in Trials \ {t} : new[u] = old[u]
  /\ Len(new[t]) = Len(old[t]) /\ LastOf(new[t]) = r
  /\ \A i \in 1 .. Len(old[t]) - 1 : new[t][i] = old[t][i]

\* Or r is added as the latest.
Adds(old, new, t, r) ==
  /\ new \in BookSet /\ \A u \in Trials \ {t} : new[u] = old[u]
  /\ new[t] = Append(old[t], r)

\* What a reservation counts for is natural.
LEMMA WorthIs ==
  ASSUME NEW r \in RecordSet, NEW S
  PROVE  Worth(r, S) \in Nat /\ r.rpcs \in Nat
BY DEF Worth, Counted, RecordSet

\* A trial's part of a book: its reservations, and the latest when there is one.
LEMMA BookOf ==
  ASSUME NEW book \in BookSet, NEW t \in Trials
  PROVE  /\ book[t] \in Seq(RecordSet) /\ Len(book[t]) \in Nat
         /\ DOMAIN book[t] = 1 .. Len(book[t])
         /\ \A i \in 1 .. Len(book[t]) : book[t][i] \in RecordSet
         /\ book[t] # <<>> => /\ Len(book[t]) \in 1 .. Len(book[t])
                              /\ LastOf(book[t]) \in RecordSet
<1>1. book[t] \in Seq(RecordSet)
  BY DEF BookSet
<1>2. /\ Len(book[t]) \in Nat /\ DOMAIN book[t] = 1 .. Len(book[t])
      /\ \A i \in 1 .. Len(book[t]) : book[t][i] \in RecordSet
      /\ book[t] # <<>> => Len(book[t]) \in 1 .. Len(book[t])
  BY <1>1
<1> QED
  BY <1>1, <1>2 DEF LastOf

\* What a trial's reservations count for, as a function on them.
WorthsOf(book, t, S) == [i \in DOMAIN book[t] |-> Worth(book[t][i], S)]
RpcsOf(book, t) == [i \in DOMAIN book[t] |-> book[t][i].rpcs]

\* The sums of a trial add naturals up, so they are naturals.
LEMMA WorthsAre ==
  ASSUME NEW book \in BookSet, NEW t \in Trials, NEW S
  PROVE  /\ WorthsOf(book, t, S) \in [1 .. Len(book[t]) -> Nat]
         /\ RpcsOf(book, t) \in [1 .. Len(book[t]) -> Nat]
         /\ OfTrial(book, t, S) = SumFunction(WorthsOf(book, t, S))
         /\ Requests(book, t) = SumFunction(RpcsOf(book, t))
         /\ OfTrial(book, t, S) \in Nat /\ Requests(book, t) \in Nat
<1>1. /\ Len(book[t]) \in Nat /\ DOMAIN book[t] = 1 .. Len(book[t])
      /\ \A i \in 1 .. Len(book[t]) : book[t][i] \in RecordSet
  BY BookOf
<1>2. /\ WorthsOf(book, t, S) \in [1 .. Len(book[t]) -> Nat]
      /\ RpcsOf(book, t) \in [1 .. Len(book[t]) -> Nat]
  BY <1>1, WorthIs DEF WorthsOf, RpcsOf
<1>3. /\ OfTrial(book, t, S) = SumFunction(WorthsOf(book, t, S))
      /\ Requests(book, t) = SumFunction(RpcsOf(book, t))
  BY DEF OfTrial, Requests, WorthsOf, RpcsOf
<1> QED
  BY <1>1, <1>2, <1>3, TotalOfSequence

\* A rewritten reservation counts for what it now is.
LEMMA RewrittenSums ==
  ASSUME NEW old \in BookSet, NEW new, NEW t \in Trials, NEW r \in RecordSet, NEW S,
         old[t] # <<>>, Rewrites(old, new, t, r)
  PROVE  /\ OfTrial(new, t, S)
              = OfTrial(old, t, S) - Worth(LastOf(old[t]), S) + Worth(r, S)
         /\ Requests(new, t) = Requests(old, t) - LastOf(old[t]).rpcs + r.rpcs
<1> DEFINE n == Len(old[t])
           D == 1 .. n
<1>1. new \in BookSet /\ Len(new[t]) = n
  BY DEF Rewrites
<1>2. /\ n \in Nat /\ n \in D /\ DOMAIN old[t] = D /\ DOMAIN new[t] = D
  BY <1>1, BookOf
<1>3. /\ WorthsOf(old, t, S) \in [D -> Nat] /\ WorthsOf(new, t, S) \in [D -> Nat]
      /\ RpcsOf(old, t) \in [D -> Nat] /\ RpcsOf(new, t) \in [D -> Nat]
      /\ OfTrial(old, t, S) = SumFunction(WorthsOf(old, t, S))
      /\ OfTrial(new, t, S) = SumFunction(WorthsOf(new, t, S))
      /\ Requests(old, t) = SumFunction(RpcsOf(old, t))
      /\ Requests(new, t) = SumFunction(RpcsOf(new, t))
  BY <1>1, WorthsAre
<1>4. \A i \in D \ {n} : new[t][i] = old[t][i]
  BY <1>2 DEF Rewrites
<1>5. /\ \A i \in D \ {n} : /\ WorthsOf(new, t, S)[i] = WorthsOf(old, t, S)[i]
                            /\ RpcsOf(new, t)[i] = RpcsOf(old, t)[i]
      /\ WorthsOf(new, t, S)[n] = Worth(r, S) /\ RpcsOf(new, t)[n] = r.rpcs
      /\ WorthsOf(old, t, S)[n] = Worth(LastOf(old[t]), S)
      /\ RpcsOf(old, t)[n] = LastOf(old[t]).rpcs
  BY <1>1, <1>2, <1>4 DEF WorthsOf, RpcsOf, Rewrites, LastOf
<1>6. IsFiniteSet(D)
  BY <1>2, FS_Interval
<1> HIDE DEF D, n
<1>7. SumFunction(WorthsOf(new, t, S))
        = SumFunction(WorthsOf(old, t, S)) - WorthsOf(old, t, S)[n] + WorthsOf(new, t, S)[n]
  <2>1. \A i \in D \ {n} : WorthsOf(new, t, S)[i] = WorthsOf(old, t, S)[i]
    BY <1>5
  <2> QED BY ONLY <1>2, <1>3, <1>6, <2>1, TotalChanges
<1>8. SumFunction(RpcsOf(new, t))
        = SumFunction(RpcsOf(old, t)) - RpcsOf(old, t)[n] + RpcsOf(new, t)[n]
  <2>1. \A i \in D \ {n} : RpcsOf(new, t)[i] = RpcsOf(old, t)[i]
    BY <1>5
  <2> QED BY ONLY <1>2, <1>3, <1>6, <2>1, TotalChanges
<1> QED
  BY <1>3, <1>5, <1>7, <1>8

\* An added one counts beside the others.
LEMMA AddedSums ==
  ASSUME NEW old \in BookSet, NEW new, NEW t \in Trials, NEW r \in RecordSet, NEW S,
         Adds(old, new, t, r)
  PROVE  /\ OfTrial(new, t, S) = OfTrial(old, t, S) + Worth(r, S)
         /\ Requests(new, t) = Requests(old, t) + r.rpcs
<1> DEFINE n == Len(old[t])
<1>1. /\ new \in BookSet /\ old[t] \in Seq(RecordSet) /\ n \in Nat
      /\ DOMAIN old[t] = 1 .. n
  BY BookOf DEF Adds
<1>2. /\ Len(new[t]) = n + 1 /\ DOMAIN new[t] = 1 .. n + 1
      /\ new[t][n + 1] = r /\ \A i \in 1 .. n : new[t][i] = old[t][i]
  BY <1>1 DEF Adds
<1>3. /\ WorthsOf(old, t, S) \in [1 .. n -> Nat] /\ WorthsOf(new, t, S) \in [1 .. n + 1 -> Nat]
      /\ RpcsOf(old, t) \in [1 .. n -> Nat] /\ RpcsOf(new, t) \in [1 .. n + 1 -> Nat]
      /\ OfTrial(old, t, S) = SumFunction(WorthsOf(old, t, S))
      /\ OfTrial(new, t, S) = SumFunction(WorthsOf(new, t, S))
      /\ Requests(old, t) = SumFunction(RpcsOf(old, t))
      /\ Requests(new, t) = SumFunction(RpcsOf(new, t))
  BY <1>1, <1>2, WorthsAre
<1>4. /\ \A i \in 1 .. n : /\ WorthsOf(new, t, S)[i] = WorthsOf(old, t, S)[i]
                           /\ RpcsOf(new, t)[i] = RpcsOf(old, t)[i]
      /\ WorthsOf(new, t, S)[n + 1] = Worth(r, S) /\ RpcsOf(new, t)[n + 1] = r.rpcs
  BY <1>1, <1>2 DEF WorthsOf, RpcsOf
<1> HIDE DEF n
<1> QED
  BY <1>1, <1>3, <1>4, TotalOfLonger

\* The campaign's total moves with the one trial that does.
LEMMA TotalMoves ==
  ASSUME NEW old \in BookSet, NEW new \in BookSet, NEW t \in Trials, NEW S,
         \A u \in Trials \ {t} : new[u] = old[u]
  PROVE  Total(new, S) = Total(old, S) - OfTrial(old, t, S) + OfTrial(new, t, S)
<1> DEFINE F(b) == [u \in Trials |-> OfTrial(b, u, S)]
<1>1. F(old) \in [Trials -> Nat] /\ F(new) \in [Trials -> Nat]
  BY WorthsAre
<1>2. \A u \in Trials \ {t} : F(new)[u] = F(old)[u]
  BY DEF OfTrial
<1>3. F(old)[t] = OfTrial(old, t, S) /\ F(new)[t] = OfTrial(new, t, S)
  OBVIOUS
<1>4. Total(old, S) = SumFunction(F(old)) /\ Total(new, S) = SumFunction(F(new))
  BY DEF Total
<1> HIDE DEF F
<1> QED
  BY <1>1, <1>2, <1>3, <1>4, TotalChanges, BudgetAssumption

\* So are the totals of a book.
LEMMA TotalIs ==
  ASSUME NEW book \in BookSet, NEW S
  PROVE  Total(book, S) \in Nat
<1> DEFINE F == [u \in Trials |-> OfTrial(book, u, S)]
<1>1. DOMAIN F = Trials /\ \A u \in Trials : F[u] \in Nat
  BY WorthsAre
<1> HIDE DEF F
<1>2. SumFunction(F) \in Nat
  BY <1>1, TotalIsNatural, BudgetAssumption
<1> QED
  BY <1>2 DEF Total, F

\* An empty book adds up to nothing.
LEMMA TotalOfEmpty ==
  ASSUME NEW book \in BookSet, \A t \in Trials : book[t] = <<>>, NEW S
  PROVE  Total(book, S) = 0
<1>1. ASSUME NEW t \in Trials PROVE OfTrial(book, t, S) = 0
  <2>1. Len(book[t]) = 0
    OBVIOUS
  <2>2. WorthsOf(book, t, S) \in [1 .. 0 -> Nat]
    BY <2>1, WorthsAre
  <2> QED BY <2>2, WorthsAre, TotalOfSequence
<1> DEFINE f == [t \in Trials |-> OfTrial(book, t, S)]
<1>2. \A t \in DOMAIN f : f[t] = 0
  BY <1>1
<1>3. IsFiniteSet(DOMAIN f)
  BY BudgetAssumption
<1> HIDE DEF f
<1>4. SumFunction(f) = 0
  BY <1>2, <1>3, TotalOfZeros
<1> QED
  BY <1>4 DEF Total, f


\* What is due is what is spent and what is held.
LEMMA DueIs ==
  ASSUME NEW book \in BookSet
  PROVE  Total(book, Due) = Total(book, Spent) + Total(book, Unresolved)
<1>1. ASSUME NEW t \in Trials
      PROVE  OfTrial(book, t, Due) = OfTrial(book, t, Spent) + OfTrial(book, t, Unresolved)
  <2> DEFINE D == DOMAIN book[t]
             W(S) == WorthsOf(book, t, S)
  <2>1. IsFiniteSet(D) /\ \A i \in D : book[t][i] \in RecordSet
    BY BookOf, FS_Interval
  <2>2. \A i \in D : /\ W(Spent)[i] \in Nat /\ W(Unresolved)[i] \in Nat
                     /\ W(Due)[i] = W(Spent)[i] + W(Unresolved)[i]
    <3>1. ASSUME NEW r \in RecordSet
          PROVE  /\ Worth(r, Spent) \in Nat /\ Worth(r, Unresolved) \in Nat
                 /\ Worth(r, Due) = Worth(r, Spent) + Worth(r, Unresolved)
      BY WorthIs DEF Worth, Due, Spent, Unresolved, Counted, RecordSet
    <3> QED BY <2>1, <3>1 DEF WorthsOf
  <2>3. DOMAIN W(Due) = D /\ DOMAIN W(Spent) = D /\ DOMAIN W(Unresolved) = D
    BY DEF WorthsOf
  <2>4. /\ OfTrial(book, t, Due) = SumFunction(W(Due))
        /\ OfTrial(book, t, Spent) = SumFunction(W(Spent))
        /\ OfTrial(book, t, Unresolved) = SumFunction(W(Unresolved))
    BY WorthsAre
  <2> HIDE DEF D, W
  <2>5. SumFunctionOnSet(W(Due), D)
          = SumFunctionOnSet(W(Spent), D) + SumFunctionOnSet(W(Unresolved), D)
    BY <2>1, <2>2, SumsAdd
  <2> QED BY <2>3, <2>4, <2>5 DEF SumFunction
<1> DEFINE F(S) == [u \in Trials |-> OfTrial(book, u, S)]
<1>2. \A t \in Trials : /\ F(Spent)[t] \in Nat /\ F(Unresolved)[t] \in Nat
                        /\ F(Due)[t] = F(Spent)[t] + F(Unresolved)[t]
  BY <1>1, WorthsAre
<1>3. DOMAIN F(Due) = Trials /\ DOMAIN F(Spent) = Trials /\ DOMAIN F(Unresolved) = Trials
  OBVIOUS
<1>4. /\ Total(book, Due) = SumFunction(F(Due))
      /\ Total(book, Spent) = SumFunction(F(Spent))
      /\ Total(book, Unresolved) = SumFunction(F(Unresolved))
  BY DEF Total
<1> HIDE DEF F
<1>5. SumFunctionOnSet(F(Due), Trials)
        = SumFunctionOnSet(F(Spent), Trials) + SumFunctionOnSet(F(Unresolved), Trials)
  BY <1>2, SumsAdd, BudgetAssumption
<1> QED
  BY <1>3, <1>4, <1>5 DEF SumFunction

-----------------------------------------------------------------------------
(* The events of the journal.                                                *)

\* Writing the latest reservation rewrites the book.
LEMMA RewriteIs ==
  ASSUME NEW book \in BookSet, NEW t \in Trials, book[t] # <<>>, NEW r \in RecordSet,
         NEW new, new = [book EXCEPT ![t] = [@ EXCEPT ![Len(book[t])] = r]]
  PROVE  Rewrites(book, new, t, r)
<1> DEFINE s == book[t]
           n == Len(s)
           s1 == [s EXCEPT ![n] = r]
<1>1. s \in Seq(RecordSet) /\ n \in Nat /\ n \in 1 .. n
  BY BookOf
<1>2. s1 \in Seq(RecordSet) /\ Len(s1) = n /\ s1[n] = r /\ \A i \in 1 .. n - 1 : s1[i] = s[i]
  BY <1>1
<1>3. new = [book EXCEPT ![t] = s1]
  OBVIOUS
<1> HIDE DEF s, s1, n
<1>4. new \in BookSet /\ new[t] = s1 /\ \A u \in Trials \ {t} : new[u] = book[u]
  BY <1>2, <1>3 DEF BookSet
<1> QED
  BY <1>2, <1>4 DEF Rewrites, LastOf, s, n

\* _reduce, one state for another: the reservation is as it was but for it.
LEMMA ResolvedIs ==
  ASSUME NEW book \in BookSet, NEW t \in Trials, book[t] # <<>>, NEW state \in States
  PROVE  \E r \in RecordSet :
           /\ Rewrites(book, Resolved(book, t, state), t, r)
           /\ r.state = state /\ r.bound = LastOf(book[t]).bound
           /\ r.actual = LastOf(book[t]).actual /\ r.rpcs = LastOf(book[t]).rpcs
<1> DEFINE l == LastOf(book[t])
           r == [l EXCEPT !.state = state]
<1>1. l \in RecordSet
  BY BookOf
<1>2. /\ r \in RecordSet /\ r.state = state /\ r.bound = l.bound
      /\ r.actual = l.actual /\ r.rpcs = l.rpcs
  BY <1>1 DEF RecordSet
<1>3. Resolved(book, t, state) = [book EXCEPT ![t] = [@ EXCEPT ![Len(book[t])] = r]]
  BY DEF Resolved, LastOf
<1> HIDE DEF r
<1> QED
  BY <1>2, <1>3, RewriteIs

\* Two rewrites of one reservation are one.
LEMMA RewriteTwice ==
  ASSUME NEW a, NEW b, NEW c, NEW t \in Trials, NEW r, NEW q,
         Rewrites(a, b, t, r), Rewrites(b, c, t, q)
  PROVE  Rewrites(a, c, t, q)
BY DEF Rewrites

\* _reduce, dispatched: sent, and its bound as much larger as the wire.
LEMMA DispatchedIs ==
  ASSUME NEW book \in BookSet, NEW t \in Trials, book[t] # <<>>, NEW extra \in Nat
  PROVE  \E r \in RecordSet :
           /\ Rewrites(book, Dispatched(book, t, extra), t, r)
           /\ r.state = "sent" /\ r.bound = LastOf(book[t]).bound + extra
           /\ r.actual = LastOf(book[t]).actual /\ r.rpcs = LastOf(book[t]).rpcs
<1> DEFINE b == Resolved(book, t, "sent")
           n == Len(book[t])
<1>1. PICK r \in RecordSet :
        /\ Rewrites(book, b, t, r)
        /\ r.state = "sent" /\ r.bound = LastOf(book[t]).bound
        /\ r.actual = LastOf(book[t]).actual /\ r.rpcs = LastOf(book[t]).rpcs
  <2>1. "sent" \in States
    BY DEF States
  <2> QED BY <2>1, ResolvedIs
<1>2. /\ b \in BookSet /\ Len(b[t]) = n /\ b[t][n] = r
  BY <1>1 DEF Rewrites, LastOf
<1>3. b[t] # <<>>
  BY <1>2, BookOf
<1>4. PICK x \in Nat : x = r.bound + extra
  BY DEF RecordSet
<1> DEFINE q == [r EXCEPT !.bound = x]
<1>5. /\ q \in RecordSet /\ q.state = r.state /\ q.bound = x
      /\ q.actual = r.actual /\ q.rpcs = r.rpcs
  BY DEF RecordSet
<1>6. Dispatched(book, t, extra)
        = [b EXCEPT ![t] = [b[t] EXCEPT ![n] = [b[t][n] EXCEPT !.bound = b[t][n].bound + extra]]]
  BY DEF Dispatched
<1> HIDE DEF b, n
<1>7. Dispatched(book, t, extra) = [b EXCEPT ![t] = [@ EXCEPT ![Len(b[t])] = q]]
  BY <1>2, <1>4, <1>6
<1> HIDE DEF q
<1>8. Rewrites(b, Dispatched(book, t, extra), t, q)
  BY <1>2, <1>3, <1>5, <1>7, RewriteIs
<1> QED
  BY <1>1, <1>4, <1>5, <1>8, RewriteTwice DEF b

\* _reduce, announced: one request more.
LEMMA AnnouncedIs ==
  ASSUME NEW book \in BookSet, NEW t \in Trials, book[t] # <<>>
  PROVE  \E r \in RecordSet :
           /\ Rewrites(book, Announced(book, t), t, r)
           /\ r.state = LastOf(book[t]).state /\ r.bound = LastOf(book[t]).bound
           /\ r.actual = LastOf(book[t]).actual /\ r.rpcs = LastOf(book[t]).rpcs + 1
<1> DEFINE l == LastOf(book[t])
<1>1. l \in RecordSet
  BY BookOf
<1>2. PICK x \in Nat : x = l.rpcs + 1
  BY <1>1 DEF RecordSet
<1> DEFINE r == [l EXCEPT !.rpcs = x]
<1>3. /\ r \in RecordSet /\ r.state = l.state /\ r.bound = l.bound
      /\ r.actual = l.actual /\ r.rpcs = x
  BY <1>1 DEF RecordSet
<1>4. Announced(book, t) = [book EXCEPT ![t] = [@ EXCEPT ![Len(book[t])] = r]]
  BY <1>2 DEF Announced, LastOf
<1> HIDE DEF r
<1> QED
  BY <1>2, <1>3, <1>4, RewriteIs

\* _reduce, settled: what was reported is what it counts for.
LEMMA SettledIs ==
  ASSUME NEW book \in BookSet, NEW t \in Trials, book[t] # <<>>, NEW usage \in Nat
  PROVE  \E r \in RecordSet :
           /\ Rewrites(book, Settled(book, t, usage), t, r)
           /\ r.state = "settled" /\ r.bound = LastOf(book[t]).bound
           /\ r.actual = usage /\ r.rpcs = LastOf(book[t]).rpcs
<1> DEFINE b == Resolved(book, t, "settled")
           n == Len(book[t])
<1>1. PICK r \in RecordSet :
        /\ Rewrites(book, b, t, r)
        /\ r.state = "settled" /\ r.bound = LastOf(book[t]).bound
        /\ r.rpcs = LastOf(book[t]).rpcs
  <2>1. "settled" \in States
    BY DEF States
  <2> QED BY <2>1, ResolvedIs
<1>2. /\ b \in BookSet /\ Len(b[t]) = n /\ b[t][n] = r
  BY <1>1 DEF Rewrites, LastOf
<1>3. b[t] # <<>>
  BY <1>2, BookOf
<1> DEFINE q == [r EXCEPT !.actual = usage]
<1>4. /\ q \in RecordSet /\ q.state = r.state /\ q.bound = r.bound
      /\ q.actual = usage /\ q.rpcs = r.rpcs
  BY DEF RecordSet
<1>5. Settled(book, t, usage)
        = [b EXCEPT ![t] = [b[t] EXCEPT ![n] = [b[t][n] EXCEPT !.actual = usage]]]
  BY DEF Settled
<1> HIDE DEF b, n
<1>6. Settled(book, t, usage) = [b EXCEPT ![t] = [@ EXCEPT ![Len(b[t])] = q]]
  BY <1>2, <1>5
<1> HIDE DEF q
<1>7. Rewrites(b, Settled(book, t, usage), t, q)
  BY <1>2, <1>3, <1>4, <1>6, RewriteIs
<1> QED
  BY <1>1, <1>4, <1>7, RewriteTwice DEF b

\* _reduce, reserved: one reservation more, at the bound.
LEMMA ReservedIs ==
  ASSUME NEW book \in BookSet, NEW t \in Trials
  PROVE  \E r \in RecordSet :
           /\ Adds(book, Reserved(book, t), t, r)
           /\ r.state = "reserved" /\ r.bound = Bound /\ r.rpcs = 0
<1> DEFINE r == [state |-> "reserved", bound |-> Bound, actual |-> 0, rpcs |-> 0]
           s == Append(book[t], r)
<1>1. r \in RecordSet /\ r.state = "reserved" /\ r.bound = Bound /\ r.rpcs = 0
  BY BudgetAssumption DEF RecordSet, States
<1>2. s \in Seq(RecordSet)
  <2>1. book[t] \in Seq(RecordSet)
    BY BookOf
  <2> HIDE DEF r
  <2> QED BY <1>1, <2>1
<1>3. Reserved(book, t) = [book EXCEPT ![t] = s]
  BY DEF Reserved
<1> HIDE DEF r
<1>4. Adds(book, Reserved(book, t), t, r)
  <2> HIDE DEF s
  <2>1. /\ Reserved(book, t) \in BookSet /\ Reserved(book, t)[t] = s
        /\ \A u \in Trials \ {t} : Reserved(book, t)[u] = book[u]
    BY <1>2, <1>3 DEF BookSet
  <2> QED BY <2>1 DEF Adds, s
<1> QED
  BY <1>1, <1>4

\* At most the latest reservation of a trial is unresolved.
Ordered(book, t) == \A i \in 1 .. Len(book[t]) - 1 : book[t][i].state \notin Unresolved

\* What SpendingCap allows, of the totals of the books before and after.
KeepsCap(old, new) ==
  LET s == Total(old, Spent)
      h == Total(old, Unresolved)
      s1 == Total(new, Spent)
      h1 == Total(new, Unresolved)
  IN \/ h1 > h /\ s1 = s /\ s + h1 <= Cap
     \/ h1 <= h /\ s1 >= s /\ s1 - s <= h - h1

\* What a reservation counts for, by its state.
LEMMA WorthByState ==
  ASSUME NEW r \in RecordSet
  PROVE  /\ r.bound \in Nat /\ r.actual \in Nat /\ r.rpcs \in Nat
         /\ r.state \in Unresolved =>
              Worth(r, Spent) = 0 /\ Worth(r, Unresolved) = r.bound /\ Worth(r, Due) = r.bound
         /\ r.state = "unknown" =>
              Worth(r, Spent) = r.bound /\ Worth(r, Unresolved) = 0 /\ Worth(r, Due) = r.bound
         /\ r.state = "settled" =>
              Worth(r, Spent) = r.actual /\ Worth(r, Unresolved) = 0 /\ Worth(r, Due) = r.actual
         /\ r.state = "cancelled" =>
              Worth(r, Spent) = 0 /\ Worth(r, Unresolved) = 0 /\ Worth(r, Due) = 0
BY DEF RecordSet, Worth, Counted, Spent, Unresolved, Due

\* What a rewrite does to the amounts of its trial and of the campaign.
LEMMA RewriteEffect ==
  ASSUME NEW old \in BookSet, NEW new, NEW t \in Trials, NEW r \in RecordSet,
         old[t] # <<>>, Ordered(old, t), Rewrites(old, new, t, r)
  PROVE  LET l == LastOf(old[t]) IN
         /\ new \in BookSet /\ (\A u \in Trials \ {t} : new[u] = old[u]) /\ Ordered(new, t)
         /\ new[t] # <<>> /\ LastOf(new[t]) = r /\ l \in RecordSet
         /\ OfTrial(new, t, Due) = OfTrial(old, t, Due) - Worth(l, Due) + Worth(r, Due)
         /\ Requests(new, t) = Requests(old, t) - l.rpcs + r.rpcs
         /\ Total(new, Spent) = Total(old, Spent) - Worth(l, Spent) + Worth(r, Spent)
         /\ Total(new, Unresolved)
              = Total(old, Unresolved) - Worth(l, Unresolved) + Worth(r, Unresolved)
<1> DEFINE l == LastOf(old[t])
<1>1. /\ new \in BookSet /\ Len(new[t]) = Len(old[t]) /\ LastOf(new[t]) = r
      /\ \A u \in Trials \ {t} : new[u] = old[u]
      /\ \A i \in 1 .. Len(old[t]) - 1 : new[t][i] = old[t][i]
  BY DEF Rewrites
<1>2. l \in RecordSet /\ Len(old[t]) # 0 /\ old[t] \in Seq(RecordSet)
  BY BookOf
<1>3. new[t] # <<>> /\ Ordered(new, t)
  BY <1>1, <1>2 DEF Ordered
<1> HIDE DEF l
<1>4. ASSUME NEW S
      PROVE  /\ OfTrial(new, t, S) = OfTrial(old, t, S) - Worth(l, S) + Worth(r, S)
             /\ Requests(new, t) = Requests(old, t) - l.rpcs + r.rpcs
             /\ Total(new, S) = Total(old, S) - Worth(l, S) + Worth(r, S)
  <2>1. /\ OfTrial(new, t, S) = OfTrial(old, t, S) - Worth(l, S) + Worth(r, S)
        /\ Requests(new, t) = Requests(old, t) - l.rpcs + r.rpcs
    BY RewrittenSums DEF l
  <2>2. Total(new, S) = Total(old, S) - OfTrial(old, t, S) + OfTrial(new, t, S)
    BY <1>1, TotalMoves
  <2>3. /\ OfTrial(old, t, S) \in Nat /\ OfTrial(new, t, S) \in Nat /\ Total(old, S) \in Nat
        /\ Worth(l, S) \in Nat /\ Worth(r, S) \in Nat
    BY <1>1, <1>2, WorthsAre, TotalIs, WorthIs
  <2> QED BY ONLY <2>1, <2>2, <2>3
<1> QED
  BY <1>1, <1>2, <1>3, <1>4 DEF l

\* A reservation: more is held, where it fits.
LEMMA ReserveEvent ==
  ASSUME NEW old \in BookSet, NEW t \in Trials, Ordered(old, t), ~In(old, t, Unresolved),
         Fits(Reserved(old, t))
  PROVE  LET new == Reserved(old, t) IN
         /\ new \in BookSet /\ (\A u \in Trials \ {t} : new[u] = old[u]) /\ Ordered(new, t)
         /\ In(new, t, {"reserved"}) /\ LastOf(new[t]).bound = Bound
         /\ OfTrial(new, t, Due) = OfTrial(old, t, Due) + Bound
         /\ Requests(new, t) = Requests(old, t) /\ KeepsCap(old, new)
<1> DEFINE new == Reserved(old, t)
           n == Len(old[t])
<1>1. PICK r \in RecordSet :
        Adds(old, new, t, r) /\ r.state = "reserved" /\ r.bound = Bound /\ r.rpcs = 0
  BY ReservedIs
<1>2. Total(new, Due) <= Cap
  BY DEF Fits, Due
<1> HIDE DEF new
<1>3. new \in BookSet /\ \A u \in Trials \ {t} : new[u] = old[u]
  BY <1>1 DEF Adds
<1>4. /\ old[t] \in Seq(RecordSet) /\ n \in Nat
      /\ (old[t] # <<>> => n \in 1 .. n) /\ (old[t] = <<>> => n = 0)
  BY BookOf
<1>5. Len(new[t]) = n + 1 /\ new[t][n + 1] = r /\ \A i \in 1 .. n : new[t][i] = old[t][i]
  BY <1>1, <1>4 DEF Adds
<1>6. \A i \in 1 .. n : old[t][i].state \notin Unresolved
  <2>1. \A i \in 1 .. n : i \in 1 .. n - 1 \/ i = n
    BY <1>4
  <2>2. n \in 1 .. n => old[t][n].state \notin Unresolved
    BY <1>4 DEF In
  <2> QED BY <1>4, <2>1, <2>2 DEF Ordered
<1>7. Ordered(new, t) /\ In(new, t, {"reserved"}) /\ LastOf(new[t]) = r
  <2>1. new[t] # <<>> /\ Len(new[t]) - 1 = n
    BY <1>3, <1>4, <1>5, BookOf
  <2> QED BY <1>1, <1>5, <1>6, <2>1 DEF Ordered, In, LastOf
<1>8. ASSUME NEW S
      PROVE  /\ OfTrial(new, t, S) = OfTrial(old, t, S) + Worth(r, S)
             /\ Requests(new, t) = Requests(old, t) + r.rpcs
             /\ Total(new, S) = Total(old, S) + Worth(r, S)
  <2>1. /\ OfTrial(new, t, S) = OfTrial(old, t, S) + Worth(r, S)
        /\ Requests(new, t) = Requests(old, t) + r.rpcs
    BY <1>1, AddedSums, SMTT(20)
  <2>2. Total(new, S) = Total(old, S) - OfTrial(old, t, S) + OfTrial(new, t, S)
    BY <1>3, TotalMoves
  <2>3. /\ OfTrial(old, t, S) \in Nat /\ Total(old, S) \in Nat /\ Worth(r, S) \in Nat
    BY WorthsAre, TotalIs, WorthIs
  <2> QED BY ONLY <2>1, <2>2, <2>3
<1>9. Worth(r, Spent) = 0 /\ Worth(r, Unresolved) = Bound /\ Worth(r, Due) = Bound
  BY <1>1, WorthByState DEF Unresolved
<1>10. /\ Total(old, Spent) \in Nat /\ Total(old, Unresolved) \in Nat /\ Bound \in Nat \ {0}
       /\ Requests(old, t) \in Nat /\ Total(new, Due) = Total(new, Spent) + Total(new, Unresolved)
  BY <1>3, WorthsAre, TotalIs, DueIs, BudgetAssumption
<1>11. /\ Total(new, Spent) = Total(old, Spent) + 0
       /\ Total(new, Unresolved) = Total(old, Unresolved) + Bound
       /\ Requests(new, t) = Requests(old, t) + 0
  BY <1>1, <1>8, <1>9
<1>12. KeepsCap(old, new)
  <2>1. /\ Total(new, Spent) = Total(old, Spent)
        /\ Total(new, Unresolved) > Total(old, Unresolved)
        /\ Total(old, Spent) + Total(new, Unresolved) <= Cap
    BY ONLY <1>2, <1>10, <1>11, BudgetAssumption
  <2> QED BY <2>1 DEF KeepsCap
<1> QED
  BY <1>1, <1>3, <1>7, <1>8, <1>9, <1>10, <1>11, <1>12 DEF new

\* A dispatch: what is held grows to the size of the wire, where it fits.
LEMMA DispatchEvent ==
  ASSUME NEW old \in BookSet, NEW t \in Trials, Ordered(old, t), In(old, t, {"reserved"}),
         NEW extra \in Nat, Fits(Dispatched(old, t, extra))
  PROVE  LET new == Dispatched(old, t, extra) IN
         /\ new \in BookSet /\ (\A u \in Trials \ {t} : new[u] = old[u]) /\ Ordered(new, t)
         /\ In(new, t, {"sent"}) /\ LastOf(new[t]).bound = LastOf(old[t]).bound + extra
         /\ OfTrial(new, t, Due) = OfTrial(old, t, Due) + extra
         /\ Requests(new, t) = Requests(old, t)
         /\ KeepsCap(old, new)
<1> DEFINE new == Dispatched(old, t, extra)
           l == LastOf(old[t])
<1>1. old[t] # <<>> /\ l.state \in {"reserved"}
  BY DEF In, LastOf
<1>2. Total(new, Due) <= Cap
  BY DEF Fits, Due
<1>3. PICK r \in RecordSet :
        /\ Rewrites(old, new, t, r) /\ r.state = "sent" /\ r.bound = l.bound + extra
        /\ r.rpcs = l.rpcs
  BY <1>1, DispatchedIs
<1>10. extra \in Nat /\ Cap \in Nat
  BY BudgetAssumption
<1> HIDE DEF new
<1>4. /\ new \in BookSet /\ (\A u \in Trials \ {t} : new[u] = old[u]) /\ Ordered(new, t)
      /\ new[t] # <<>> /\ LastOf(new[t]) = r /\ l \in RecordSet
      /\ OfTrial(new, t, Due) = OfTrial(old, t, Due) - Worth(l, Due) + Worth(r, Due)
      /\ Requests(new, t) = Requests(old, t) - l.rpcs + r.rpcs
      /\ Total(new, Spent) = Total(old, Spent) - Worth(l, Spent) + Worth(r, Spent)
      /\ Total(new, Unresolved)
           = Total(old, Unresolved) - Worth(l, Unresolved) + Worth(r, Unresolved)
  BY <1>1, <1>3, RewriteEffect
<1> HIDE DEF l
<1>5. /\ Worth(l, Spent) = 0 /\ Worth(l, Unresolved) = l.bound /\ Worth(l, Due) = l.bound
      /\ l.bound \in Nat /\ l.rpcs \in Nat
  BY <1>1, <1>4, WorthByState DEF Unresolved
<1>6. Worth(r, Spent) = 0 /\ Worth(r, Unresolved) = r.bound /\ Worth(r, Due) = r.bound
  BY <1>3, WorthByState DEF Unresolved
<1>7. /\ OfTrial(old, t, Due) \in Nat /\ Requests(old, t) \in Nat
      /\ Total(old, Spent) \in Nat /\ Total(old, Unresolved) \in Nat
      /\ Total(new, Spent) \in Nat /\ Total(new, Unresolved) \in Nat
      /\ Total(new, Due) = Total(new, Spent) + Total(new, Unresolved)
  BY <1>4, WorthsAre, TotalIs, DueIs
<1>8. /\ OfTrial(new, t, Due) = OfTrial(old, t, Due) + extra
      /\ Requests(new, t) = Requests(old, t)
      /\ Total(new, Spent) = Total(old, Spent)
      /\ Total(new, Unresolved) = Total(old, Unresolved) + extra
  <2>1. r.bound = l.bound + extra /\ r.bound \in Nat
    BY ONLY <1>3, <1>5, <1>10
  <2>2. OfTrial(new, t, Due) = OfTrial(old, t, Due) + extra
    BY ONLY <2>1, <1>4, <1>5, <1>6, <1>7, <1>10
  <2>3. Requests(new, t) = Requests(old, t)
    BY ONLY <1>3, <1>4, <1>5, <1>7
  <2>4. Total(new, Spent) = Total(old, Spent)
    BY ONLY <1>4, <1>5, <1>6, <1>7
  <2>5. Total(new, Unresolved) = Total(old, Unresolved) + extra
    BY ONLY <2>1, <1>4, <1>5, <1>6, <1>7, <1>10
  <2> QED BY ONLY <2>2, <2>3, <2>4, <2>5
<1>9. KeepsCap(old, new)
  BY ONLY <1>3, <1>2, <1>5, <1>7, <1>8, <1>10 DEF KeepsCap
<1> QED
  BY <1>3, <1>4, <1>8, <1>9 DEF new, l, In, LastOf

\* An announcement: one more request, nothing more held.
LEMMA AnnounceEvent ==
  ASSUME NEW old \in BookSet, NEW t \in Trials, Ordered(old, t), In(old, t, {"sent"})
  PROVE  LET new == Announced(old, t) IN
         /\ new \in BookSet /\ (\A u \in Trials \ {t} : new[u] = old[u]) /\ Ordered(new, t)
         /\ In(new, t, {"sent"}) /\ LastOf(new[t]).bound = LastOf(old[t]).bound
         /\ OfTrial(new, t, Due) = OfTrial(old, t, Due)
         /\ Requests(new, t) = Requests(old, t) + 1
         /\ KeepsCap(old, new)
<1> DEFINE new == Announced(old, t)
           l == LastOf(old[t])
<1>1. old[t] # <<>> /\ l.state \in {"sent"}
  BY DEF In, LastOf
<1>3. PICK r \in RecordSet :
        /\ Rewrites(old, new, t, r) /\ r.state = l.state /\ r.bound = l.bound
        /\ r.rpcs = l.rpcs + 1
  BY <1>1, AnnouncedIs
<1> HIDE DEF new
<1>4. /\ new \in BookSet /\ (\A u \in Trials \ {t} : new[u] = old[u]) /\ Ordered(new, t)
      /\ new[t] # <<>> /\ LastOf(new[t]) = r /\ l \in RecordSet
      /\ OfTrial(new, t, Due) = OfTrial(old, t, Due) - Worth(l, Due) + Worth(r, Due)
      /\ Requests(new, t) = Requests(old, t) - l.rpcs + r.rpcs
      /\ Total(new, Spent) = Total(old, Spent) - Worth(l, Spent) + Worth(r, Spent)
      /\ Total(new, Unresolved)
           = Total(old, Unresolved) - Worth(l, Unresolved) + Worth(r, Unresolved)
  BY <1>1, <1>3, RewriteEffect
<1> HIDE DEF l
<1>5. /\ Worth(l, Spent) = 0 /\ Worth(l, Unresolved) = l.bound /\ Worth(l, Due) = l.bound
      /\ l.bound \in Nat /\ l.rpcs \in Nat
  BY <1>1, <1>4, WorthByState DEF Unresolved
<1>6. Worth(r, Spent) = 0 /\ Worth(r, Unresolved) = r.bound /\ Worth(r, Due) = r.bound
  BY <1>1, <1>3, WorthByState DEF Unresolved
<1>7. /\ OfTrial(old, t, Due) \in Nat /\ Requests(old, t) \in Nat
      /\ Total(old, Spent) \in Nat /\ Total(old, Unresolved) \in Nat
      /\ Total(new, Spent) \in Nat /\ Total(new, Unresolved) \in Nat
      /\ Total(new, Due) = Total(new, Spent) + Total(new, Unresolved)
  BY <1>4, WorthsAre, TotalIs, DueIs
<1>8. /\ OfTrial(new, t, Due) = OfTrial(old, t, Due)
      /\ Requests(new, t) = Requests(old, t) + 1
      /\ Total(new, Spent) = Total(old, Spent)
      /\ Total(new, Unresolved) = Total(old, Unresolved)
  BY ONLY <1>3, <1>4, <1>5, <1>6, <1>7
<1>9. KeepsCap(old, new)
  BY ONLY <1>3, <1>5, <1>7, <1>8 DEF KeepsCap
<1> QED
  BY <1>3, <1>4, <1>8, <1>9 DEF new, l, In, LastOf

\* A settlement within the bound: what is held is spent in part.
LEMMA SettleEvent ==
  ASSUME NEW old \in BookSet, NEW t \in Trials, Ordered(old, t), In(old, t, {"sent"}),
         NEW usage \in Nat, usage <= LastOf(old[t]).bound
  PROVE  LET new == Settled(old, t, usage) IN
         /\ new \in BookSet /\ (\A u \in Trials \ {t} : new[u] = old[u]) /\ Ordered(new, t)
         /\ In(new, t, {"settled"})
         /\ OfTrial(new, t, Due) = OfTrial(old, t, Due) - LastOf(old[t]).bound + usage
         /\ Requests(new, t) = Requests(old, t)
         /\ KeepsCap(old, new)
<1> DEFINE new == Settled(old, t, usage)
           l == LastOf(old[t])
<1>1. old[t] # <<>> /\ l.state \in {"sent"}
  BY DEF In, LastOf
<1>3. PICK r \in RecordSet :
        /\ Rewrites(old, new, t, r) /\ r.state = "settled" /\ r.actual = usage
        /\ r.rpcs = l.rpcs
  BY <1>1, SettledIs
<1>10. usage \in Nat /\ usage <= l.bound
  OBVIOUS
<1> HIDE DEF new
<1>4. /\ new \in BookSet /\ (\A u \in Trials \ {t} : new[u] = old[u]) /\ Ordered(new, t)
      /\ new[t] # <<>> /\ LastOf(new[t]) = r /\ l \in RecordSet
      /\ OfTrial(new, t, Due) = OfTrial(old, t, Due) - Worth(l, Due) + Worth(r, Due)
      /\ Requests(new, t) = Requests(old, t) - l.rpcs + r.rpcs
      /\ Total(new, Spent) = Total(old, Spent) - Worth(l, Spent) + Worth(r, Spent)
      /\ Total(new, Unresolved)
           = Total(old, Unresolved) - Worth(l, Unresolved) + Worth(r, Unresolved)
  BY <1>1, <1>3, RewriteEffect
<1> HIDE DEF l
<1>5. /\ Worth(l, Spent) = 0 /\ Worth(l, Unresolved) = l.bound /\ Worth(l, Due) = l.bound
      /\ l.bound \in Nat /\ l.rpcs \in Nat
  BY <1>1, <1>4, WorthByState DEF Unresolved
<1>6. Worth(r, Spent) = usage /\ Worth(r, Unresolved) = 0 /\ Worth(r, Due) = usage
  BY <1>3, WorthByState DEF Unresolved
<1>7. /\ OfTrial(old, t, Due) \in Nat /\ Requests(old, t) \in Nat
      /\ Total(old, Spent) \in Nat /\ Total(old, Unresolved) \in Nat
      /\ Total(new, Spent) \in Nat /\ Total(new, Unresolved) \in Nat
      /\ Total(new, Due) = Total(new, Spent) + Total(new, Unresolved)
  BY <1>4, WorthsAre, TotalIs, DueIs
<1>8. /\ OfTrial(new, t, Due) = OfTrial(old, t, Due) - l.bound + usage
      /\ Requests(new, t) = Requests(old, t)
      /\ Total(new, Spent) = Total(old, Spent) + usage
      /\ Total(new, Unresolved) = Total(old, Unresolved) - l.bound
  BY ONLY <1>3, <1>4, <1>5, <1>6, <1>7, <1>10
<1>9. KeepsCap(old, new)
  BY ONLY <1>3, <1>5, <1>7, <1>8, <1>10 DEF KeepsCap
<1> QED
  BY <1>3, <1>4, <1>8, <1>9 DEF new, l, In, LastOf

\* A forfeit: it is spent in full.
LEMMA ForfeitEvent ==
  ASSUME NEW old \in BookSet, NEW t \in Trials, Ordered(old, t), In(old, t, Unresolved)
  PROVE  LET new == Forfeited(old, t) IN
         /\ new \in BookSet /\ (\A u \in Trials \ {t} : new[u] = old[u]) /\ Ordered(new, t)
         /\ In(new, t, {"unknown"}) /\ LastOf(new[t]).bound = LastOf(old[t]).bound
         /\ OfTrial(new, t, Due) = OfTrial(old, t, Due)
         /\ Requests(new, t) = Requests(old, t)
         /\ KeepsCap(old, new)
<1> DEFINE new == Forfeited(old, t)
           l == LastOf(old[t])
<1>1. old[t] # <<>> /\ l.state \in Unresolved
  BY DEF In, LastOf
<1>3. PICK r \in RecordSet :
        /\ Rewrites(old, new, t, r) /\ r.state = "unknown" /\ r.bound = l.bound
        /\ r.rpcs = l.rpcs
  <2>1. "unknown" \in States
    BY DEF States
  <2> QED BY <1>1, <2>1, ResolvedIs DEF Forfeited
<1> HIDE DEF new
<1>4. /\ new \in BookSet /\ (\A u \in Trials \ {t} : new[u] = old[u]) /\ Ordered(new, t)
      /\ new[t] # <<>> /\ LastOf(new[t]) = r /\ l \in RecordSet
      /\ OfTrial(new, t, Due) = OfTrial(old, t, Due) - Worth(l, Due) + Worth(r, Due)
      /\ Requests(new, t) = Requests(old, t) - l.rpcs + r.rpcs
      /\ Total(new, Spent) = Total(old, Spent) - Worth(l, Spent) + Worth(r, Spent)
      /\ Total(new, Unresolved)
           = Total(old, Unresolved) - Worth(l, Unresolved) + Worth(r, Unresolved)
  BY <1>1, <1>3, RewriteEffect
<1> HIDE DEF l
<1>5. /\ Worth(l, Spent) = 0 /\ Worth(l, Unresolved) = l.bound /\ Worth(l, Due) = l.bound
      /\ l.bound \in Nat /\ l.rpcs \in Nat
  BY <1>1, <1>4, WorthByState DEF Unresolved
<1>6. Worth(r, Spent) = r.bound /\ Worth(r, Unresolved) = 0 /\ Worth(r, Due) = r.bound
  BY <1>3, WorthByState DEF Unresolved
<1>7. /\ OfTrial(old, t, Due) \in Nat /\ Requests(old, t) \in Nat
      /\ Total(old, Spent) \in Nat /\ Total(old, Unresolved) \in Nat
      /\ Total(new, Spent) \in Nat /\ Total(new, Unresolved) \in Nat
      /\ Total(new, Due) = Total(new, Spent) + Total(new, Unresolved)
  BY <1>4, WorthsAre, TotalIs, DueIs
<1>8. /\ OfTrial(new, t, Due) = OfTrial(old, t, Due)
      /\ Requests(new, t) = Requests(old, t)
      /\ Total(new, Spent) = Total(old, Spent) + l.bound
      /\ Total(new, Unresolved) = Total(old, Unresolved) - l.bound
  BY ONLY <1>3, <1>4, <1>5, <1>6, <1>7
<1>9. KeepsCap(old, new)
  BY ONLY <1>3, <1>5, <1>7, <1>8 DEF KeepsCap
<1> QED
  BY <1>3, <1>4, <1>8, <1>9 DEF new, l, In, LastOf

\* A cancellation: it is let go.
LEMMA CancelEvent ==
  ASSUME NEW old \in BookSet, NEW t \in Trials, Ordered(old, t), In(old, t, {"reserved"})
  PROVE  LET new == Resolved(old, t, "cancelled") IN
         /\ new \in BookSet /\ (\A u \in Trials \ {t} : new[u] = old[u]) /\ Ordered(new, t)
         /\ In(new, t, {"cancelled"})
         /\ OfTrial(new, t, Due) = OfTrial(old, t, Due) - LastOf(old[t]).bound
         /\ Requests(new, t) = Requests(old, t)
         /\ KeepsCap(old, new)
<1> DEFINE new == Resolved(old, t, "cancelled")
           l == LastOf(old[t])
<1>1. old[t] # <<>> /\ l.state \in {"reserved"}
  BY DEF In, LastOf
<1>3. PICK r \in RecordSet :
        /\ Rewrites(old, new, t, r) /\ r.state = "cancelled"
        /\ r.rpcs = l.rpcs
  <2>1. "cancelled" \in States
    BY DEF States
  <2> QED BY <1>1, <2>1, ResolvedIs
<1> HIDE DEF new
<1>4. /\ new \in BookSet /\ (\A u \in Trials \ {t} : new[u] = old[u]) /\ Ordered(new, t)
      /\ new[t] # <<>> /\ LastOf(new[t]) = r /\ l \in RecordSet
      /\ OfTrial(new, t, Due) = OfTrial(old, t, Due) - Worth(l, Due) + Worth(r, Due)
      /\ Requests(new, t) = Requests(old, t) - l.rpcs + r.rpcs
      /\ Total(new, Spent) = Total(old, Spent) - Worth(l, Spent) + Worth(r, Spent)
      /\ Total(new, Unresolved)
           = Total(old, Unresolved) - Worth(l, Unresolved) + Worth(r, Unresolved)
  BY <1>1, <1>3, RewriteEffect
<1> HIDE DEF l
<1>5. /\ Worth(l, Spent) = 0 /\ Worth(l, Unresolved) = l.bound /\ Worth(l, Due) = l.bound
      /\ l.bound \in Nat /\ l.rpcs \in Nat
  BY <1>1, <1>4, WorthByState DEF Unresolved
<1>6. Worth(r, Spent) = 0 /\ Worth(r, Unresolved) = 0 /\ Worth(r, Due) = 0
  BY <1>3, WorthByState DEF Unresolved
<1>7. /\ OfTrial(old, t, Due) \in Nat /\ Requests(old, t) \in Nat
      /\ Total(old, Spent) \in Nat /\ Total(old, Unresolved) \in Nat
      /\ Total(new, Spent) \in Nat /\ Total(new, Unresolved) \in Nat
      /\ Total(new, Due) = Total(new, Spent) + Total(new, Unresolved)
  BY <1>4, WorthsAre, TotalIs, DueIs
<1>8. /\ OfTrial(new, t, Due) = OfTrial(old, t, Due) - l.bound
      /\ Requests(new, t) = Requests(old, t)
      /\ Total(new, Spent) = Total(old, Spent)
      /\ Total(new, Unresolved) = Total(old, Unresolved) - l.bound
  BY ONLY <1>3, <1>4, <1>5, <1>6, <1>7
<1>9. KeepsCap(old, new)
  BY ONLY <1>3, <1>5, <1>7, <1>8 DEF KeepsCap
<1> QED
  BY <1>3, <1>4, <1>8, <1>9 DEF new, l, In, LastOf

-----------------------------------------------------------------------------
(* The invariant of the money.                                               *)

LedgerSet == [book : BookSet, file : BookSet, torn : BOOLEAN, broken : BOOLEAN]
WorldSet == [Trials -> [billed : Nat, excess : Nat, sent : Nat, lives : SUBSET Nat]]
RowsSet == [Trials -> [class : {"none", "pending", "closed"}, cost : Nat, doubtful : BOOLEAN]]

Types == ledger \in LedgerSet /\ world \in WorldSet /\ rows \in RowsSet

\* Memory and file differ only where an append has failed.
Agreed ==
  /\ ~ledger.broken => ledger.book = ledger.file
  /\ life.phase = "opening" => ~ledger.broken /\ \A t \in Trials : trial[t].pc = "queued"
  /\ life.phase = "running" =>
       \A t \in Trials :
         trial[t].pc \in {"queued", "announced"} => ledger.book[t] = ledger.file[t]

\* The latest reservation of a trial, by where its thread is,
Placed(book, t, pc) ==
  /\ Ordered(book, t)
  /\ pc \in {"reserved", "gated", "barred"} => In(book, t, {"reserved"})
  /\ pc \in {"dispatched", "announced", "flight", "answered"} => In(book, t, {"sent"})
  /\ pc = "failing" => In(book, t, Unresolved)
  /\ pc \in {"assigned", "ready"} => ~In(book, t, Unresolved)

\* and what the trial was billed, against what is due for it.
Covered(book, t, pc) ==
  LET w == world[t]
      due == OfTrial(book, t, Due)
      bound == LastOf(book[t]).bound
  IN /\ w.billed <= due + w.excess
     /\ w.sent <= Requests(book, t)
     /\ pc \in {"reserved", "gated", "barred", "dispatched", "announced"} =>
          w.billed + bound <= due + w.excess
     /\ pc = "announced" => w.sent + 1 <= Requests(book, t)
     /\ pc \in {"flight", "answered"} => w.billed + bound <= due + w.excess + trial[t].bill

\* A trial that waits for its worker, or is about to be closed, owes nothing.
Cleared(t) ==
  \/ trial[t].pc = "queued" /\ life.phase = "running"
  \/ trial[t].pc = "closing" /\ ~ledger.broken
  => ~In(ledger.file, t, Unresolved)

\* What its row says.
Told(t) ==
  /\ rows[t].class # "none" <=> trial[t].pc = "returned"
  /\ rows[t].class = "pending" => world[t].sent = 0 /\ files[t].assigned = "absent"
  /\ rows[t].class = "closed" => files[t].closure = "whole"
  /\ rows[t].class = "closed" /\ ~rows[t].doubtful =>
       world[t].billed <= rows[t].cost + world[t].excess
  /\ world[t].lives = {} => world[t].sent = 0

Accounted(t) ==
  /\ Placed(ledger.file, t, trial[t].pc) /\ Covered(ledger.file, t, trial[t].pc)
  /\ Cleared(t) /\ Told(t)

Reported ==
  /\ life.report # "none" => life.phase = "ended"
  /\ life.report = "complete" => \A t \in Trials : files[t].closure = "whole"

MoneyInv == PlayInv /\ Types /\ Agreed /\ Reported /\ \A t \in Trials : Accounted(t)

\* A thread moves: what is another trial's stays as it is.
LEMMA ThreadKeeps ==
  ASSUME MoneyInv, PlayInv', NEW t \in Trials, life.phase = "running", UNCHANGED life, Types',
         \A u \in Trials \ {t} :
           /\ trial'[u] = trial[u] /\ files'[u] = files[u] /\ rows'[u] = rows[u]
           /\ world'[u] = world[u] /\ ledger'.book[u] = ledger.book[u]
           /\ ledger'.file[u] = ledger.file[u],
         ledger.broken => ledger'.broken, ~ledger'.broken => ledger'.book = ledger'.file,
         trial'[t].pc \in {"queued", "announced"} => ledger'.book[t] = ledger'.file[t],
         Accounted(t)'
  PROVE  MoneyInv'
<1>1. Reported'
  BY DEF MoneyInv, Reported
<1>2. Agreed'
  BY DEF MoneyInv, Agreed
<1>3. ASSUME NEW u \in Trials \ {t} PROVE Accounted(u)'
  <2>1. Accounted(u)
    BY DEF MoneyInv
  <2>2. Placed(ledger.file, u, trial[u].pc)'
    BY <2>1 DEF Accounted, Placed, Ordered, In
  <2>3. Covered(ledger.file, u, trial[u].pc)'
    BY <2>1 DEF Accounted, Covered, OfTrial, Requests, LastOf
  <2>4. Cleared(u)'
    BY <2>1 DEF Accounted, Cleared, In
  <2>5. Told(u)'
    BY <2>1 DEF Accounted, Told
  <2> QED BY <2>2, <2>3, <2>4, <2>5 DEF Accounted
<1> QED
  BY <1>1, <1>2, <1>3 DEF MoneyInv

\* Where a thread may go without an event of the journal: a trial about to be
\* closed has nothing unresolved, unless the journal has failed.
MayGo(from, to, broken) ==
  \/ to \in {"raised", "returned", "archiving"}
  \/ to = "closing" /\ (broken \/ from \in {"queued", "assigned", "ready", "closing"})
  \/ to = "assigned" /\ from = "queued"
  \/ to = "ready" /\ from = "assigned"
  \/ to \in {"gated", "barred"} /\ from = "reserved"
  \/ to = "failing" /\ from \in {"gated", "dispatched", "flight"}
  \/ to = "answered" /\ from = "flight"

\* A thread that moves without an event and without a bill.
LEMMA MoveKeeps ==
  ASSUME MoneyInv, PlayInv', NEW t \in Trials, life.phase = "running", UNCHANGED life,
         NEW pc \in Places, Go(t, pc), MayGo(trial[t].pc, pc, ledger.broken),
         UNCHANGED <<ledger, world>>, rows' \in RowsSet,
         \A u \in Trials \ {t} : files'[u] = files[u] /\ rows'[u] = rows[u],
         Told(t)'
  PROVE  MoneyInv'
<1>1. /\ trial'[t].pc = pc /\ trial'[t].bill = trial[t].bill
      /\ \A u \in Trials \ {t} : trial'[u] = trial[u]
  BY DEF Go, MoneyInv, PlayInv, Shapes, TrialShape
<1>2. /\ Accounted(t) /\ Types
  BY DEF MoneyInv
<1>3. Types'
  BY <1>2 DEF Types
<1>4. Placed(ledger.file, t, trial[t].pc)'
  <2>1. Placed(ledger.file, t, pc)
    BY <1>2 DEF Accounted, Placed, Cleared, MayGo, In, Unresolved
  <2> QED BY <1>1, <2>1 DEF Placed, Ordered, In
<1>5. Covered(ledger.file, t, trial[t].pc)'
  <2>1. Covered(ledger.file, t, pc)
    BY <1>2 DEF Accounted, Covered, MayGo
  <2> QED BY <1>1, <2>1 DEF Covered
<1>6. Cleared(t)'
  <2>1. pc = "closing" /\ ~ledger.broken => ~In(ledger.file, t, Unresolved)
    BY <1>2 DEF Accounted, Placed, Cleared, MayGo
  <2>2. pc # "queued"
    BY DEF MayGo
  <2> QED BY <1>1, <2>1, <2>2 DEF Cleared
<1>7. Accounted(t)'
  BY <1>4, <1>5, <1>6 DEF Accounted
<1>8. ~ledger.broken => ledger.book = ledger.file
  BY DEF MoneyInv, Agreed
<1>9. pc \notin {"queued", "announced"}
  BY DEF MayGo
<1> QED
  BY <1>1, <1>3, <1>7, <1>8, <1>9, ThreadKeeps

\* An event appended, or not: what then is, is on file when it is durable.
LEMMA EventKeeps ==
  ASSUME MoneyInv, PlayInv', NEW t \in Trials, life.phase = "running", UNCHANGED life,
         ~ledger.broken, NEW outcome \in Outcomes, NEW new \in BookSet,
         ledger' = Appended(ledger, new, outcome),
         \A u \in Trials \ {t} : new[u] = ledger.file[u],
         NEW then \in Places \ {"queued", "returned"},
         NEW else \in {"closing", "archiving"},
         Go(t, IF outcome = "durable" THEN then ELSE else),
         UNCHANGED <<files, rows, world>>, trial[t].pc # "returned",
         Placed(new, t, then), Covered(new, t, then),
         then = "closing" => ~In(new, t, Unresolved)
  PROVE  MoneyInv'
<1>1. /\ ledger \in LedgerSet /\ ledger.book = ledger.file /\ Accounted(t) /\ Types
  BY DEF MoneyInv, Types, Agreed
<1> DEFINE pc == IF outcome = "durable" THEN then ELSE else
<1>2. /\ trial'[t].pc = pc /\ trial'[t].bill = trial[t].bill
      /\ \A u \in Trials \ {t} : trial'[u] = trial[u]
  BY DEF Go, MoneyInv, PlayInv, Shapes, TrialShape
<1>3. /\ ledger' \in LedgerSet
      /\ outcome = "durable" => ledger'.book = new /\ ledger'.file = new /\ ~ledger'.broken
      /\ outcome # "durable" =>
           ledger'.book = ledger.book /\ ledger'.file \in {new, ledger.file} /\ ledger'.broken
  <2>1. CASE outcome = "durable"
    BY <1>1, <2>1 DEF Appended, LedgerSet
  <2>2. CASE outcome # "durable"
    <3>1. PICK f \in {new, ledger.file}, b \in BOOLEAN :
            ledger' = [ledger EXCEPT !.broken = TRUE, !.torn = b, !.file = f]
      BY <2>2 DEF Appended
    <3>2. f \in BookSet
      BY <1>1, <3>1 DEF LedgerSet
    <3> QED BY <1>1, <2>2, <3>1, <3>2 DEF LedgerSet
  <2> QED BY <2>1, <2>2
<1>4. Types'
  BY <1>1, <1>3 DEF Types
<1>5. ASSUME NEW f \in {new, ledger.file}
      PROVE  Placed(f, t, else) /\ Covered(f, t, else)
  BY <1>1 DEF Accounted, Placed, Covered
<1>6. /\ Placed(ledger'.file, t, pc) /\ Covered(ledger'.file, t, pc)
      /\ pc = "closing" /\ ~ledger'.broken => ~In(ledger'.file, t, Unresolved)
  BY <1>3, <1>5
<1>7. pc # "queued" /\ pc # "returned" /\ (pc = "announced" => outcome = "durable")
  OBVIOUS
<1> HIDE DEF pc
<1>8. Placed(ledger.file, t, trial[t].pc)' /\ Covered(ledger.file, t, trial[t].pc)'
  BY <1>2, <1>6 DEF Placed, Ordered, In, Covered, OfTrial, Requests, LastOf
<1>9. Cleared(t)'
  BY <1>2, <1>6, <1>7 DEF Cleared
<1>10. Told(t)'
  BY <1>1, <1>2, <1>7 DEF Accounted, Told
<1>11. Accounted(t)'
  BY <1>8, <1>9, <1>10 DEF Accounted
<1>12. \A u \in Trials \ {t} :
         ledger'.book[u] = ledger.book[u] /\ ledger'.file[u] = ledger.file[u]
  BY <1>1, <1>3
<1>13. ~ledger'.broken => ledger'.book = ledger'.file
  BY <1>3
<1>14. trial'[t].pc \in {"queued", "announced"} => ledger'.book[t] = ledger'.file[t]
  BY <1>2, <1>3, <1>7
<1> QED
  BY <1>2, <1>4, <1>11, <1>12, <1>13, <1>14, ThreadKeeps

-----------------------------------------------------------------------------
(* The threads.                                                              *)

\* A thread that moves on with nothing to tell yet.
LEMMA PlainKeeps ==
  ASSUME MoneyInv, PlayInv', NEW t \in Trials, life.phase = "running", UNCHANGED life,
         NEW pc \in Places \ {"returned"}, Go(t, pc), trial[t].pc # "returned",
         MayGo(trial[t].pc, pc, ledger.broken), UNCHANGED <<ledger, world, rows>>,
         \A u \in Trials \ {t} : files'[u] = files[u]
  PROVE  MoneyInv'
<1>1. trial'[t].pc = pc
  BY DEF Go, MoneyInv, PlayInv, Shapes, TrialShape
<1>2. Told(t)'
  BY <1>1 DEF MoneyInv, Accounted, Told
<1>3. rows' \in RowsSet
  BY DEF MoneyInv, Types
<1> QED
  BY <1>2, <1>3, MoveKeeps

\* One trial's file is written: the files of the others are as they were.
LEMMA FilesMove ==
  ASSUME PlayInv, NEW t \in Trials, NEW file, NEW left, files' = [files EXCEPT ![t][file] = left]
  PROVE  \A u \in Trials \ {t} : files'[u] = files[u]
BY DEF PlayInv, Shapes

\* The steps between which nothing is reserved, sent, resolved or told.
LEMMA PlainStepsKeep ==
  ASSUME MoneyInv, PlayInv', NEW t \in Trials,
         \/ Interrupted(t) \/ Assign(t) \/ Bind(t) \/ EpisodeEnds(t) \/ PassGate(t)
         \/ ObserverFails(t) \/ Answered(t) \/ Unanswered(t) \/ ArchiveFails(t)
  PROVE  MoneyInv'
<1>1. PlayInv
  BY DEF MoneyInv
<1>2. /\ life.phase = "running" /\ UNCHANGED <<life, ledger, world, rows>>
  BY DEF Interrupted, Assign, Bind, EpisodeEnds, PassGate, ObserverFails, Answered, Unanswered,
         ArchiveFails, Fresh, IsNext, At
<1>3. CASE Interrupted(t)
  <2>1. PICK pc \in {"raised", "closing"} : Go(t, pc)
    BY <1>3 DEF Interrupted
  <2>2. trial[t].pc = "queued" /\ UNCHANGED files
    BY <1>3 DEF Interrupted, IsNext, At
  <2>3. MayGo(trial[t].pc, pc, ledger.broken) /\ pc \in Places \ {"returned"}
    BY <2>2 DEF MayGo, Places
  <2> QED BY <1>2, <2>1, <2>2, <2>3, PlainKeeps
<1>4. CASE Assign(t)
  <2>1. PICK pc \in {"raised", "assigned"}, left \in Remains :
          Go(t, pc) /\ files' = [files EXCEPT ![t]["assigned"] = left]
    <3>1. PICK fails \in BOOLEAN, left \in Remains :
            /\ files' = [files EXCEPT ![t]["assigned"] = left]
            /\ Go(t, IF fails THEN "raised" ELSE "assigned")
      BY <1>4 DEF Assign, Write
    <3> QED BY <3>1
  <2>2. trial[t].pc = "queued"
    BY <1>4 DEF Assign, Fresh, IsNext, At
  <2>3. MayGo(trial[t].pc, pc, ledger.broken) /\ pc \in Places \ {"returned"}
    BY <2>2 DEF MayGo, Places, Playing
  <2> QED BY <1>1, <1>2, <2>1, <2>2, <2>3, FilesMove, PlainKeeps
<1>5. CASE Bind(t)
  <2>1. PICK pc \in {"closing", "ready"} : Go(t, pc)
    BY <1>5 DEF Bind
  <2>2. files' = files \/ files' = [files EXCEPT ![t]["binding"] = "whole"]
    BY <1>5 DEF Bind
  <2>3. trial[t].pc = "assigned"
    BY <1>5 DEF Bind, At
  <2>4. MayGo(trial[t].pc, pc, ledger.broken) /\ pc \in Places \ {"returned"}
    BY <2>3 DEF MayGo, Places, Playing
  <2>5. \A u \in Trials \ {t} : files'[u] = files[u]
    BY <1>1, <2>2, FilesMove
  <2> QED BY <1>2, <2>1, <2>3, <2>4, <2>5, PlainKeeps
<1>6. CASE EpisodeEnds(t) \/ PassGate(t) \/ ObserverFails(t) \/ Answered(t) \/ Unanswered(t)
           \/ ArchiveFails(t)
  <2>1. PICK pc \in {"closing", "barred", "gated", "failing", "answered", "raised"} :
          Go(t, pc) /\ MayGo(trial[t].pc, pc, ledger.broken) /\ trial[t].pc # "returned"
    BY <1>6 DEF EpisodeEnds, PassGate, ObserverFails, Answered, Unanswered, ArchiveFails, At, MayGo
  <2>2. UNCHANGED files /\ pc \in Places \ {"returned"}
    BY <1>6 DEF EpisodeEnds, PassGate, ObserverFails, Answered, Unanswered, ArchiveFails,
                Places, Playing
  <2> QED BY <1>2, <2>1, <2>2, PlainKeeps
<1> QED
  BY <1>3, <1>4, <1>5, <1>6

\* A trial without an unresolved reservation has spent what is due.
LEMMA SpentIsDue ==
  ASSUME NEW book \in BookSet, NEW t \in Trials, Ordered(book, t), ~In(book, t, Unresolved)
  PROVE  OfTrial(book, t, Spent) = OfTrial(book, t, Due)
<1>1. /\ Len(book[t]) \in Nat /\ DOMAIN book[t] = 1 .. Len(book[t])
      /\ (book[t] = <<>> => Len(book[t]) = 0)
  BY BookOf
<1>2. \A i \in 1 .. Len(book[t]) : i \in 1 .. Len(book[t]) - 1 \/ i = Len(book[t])
  BY <1>1
<1>3. \A i \in DOMAIN book[t] : book[t][i].state \notin Unresolved
  BY <1>1, <1>2 DEF Ordered, In
<1>4. \A i \in DOMAIN book[t] : Worth(book[t][i], Spent) = Worth(book[t][i], Due)
  BY <1>3 DEF Worth, Due
<1> QED
  BY <1>4 DEF OfTrial

\* A row is of one trial, and says what its reservations cost.
LEMMA RowIs ==
  ASSUME Types, NEW t \in Trials, NEW class \in {"pending", "closed"}, NEW doubtful \in BOOLEAN,
         Row(t, class, doubtful)
  PROVE  /\ rows' \in RowsSet /\ \A u \in Trials \ {t} : rows'[u] = rows[u]
         /\ rows'[t].class = class /\ rows'[t].cost = OfTrial(ledger.book, t, Spent)
         /\ rows'[t].doubtful = doubtful
<1>1. ledger.book \in BookSet
  BY DEF Types, LedgerSet
<1>2. PICK cost \in Nat : cost = OfTrial(ledger.book, t, Spent)
  BY <1>1, WorthsAre
<1>3. rows' = [rows EXCEPT ![t] = [class |-> class, cost |-> cost, doubtful |-> doubtful]]
  BY <1>2 DEF Row, Cost
<1> QED
  BY <1>2, <1>3 DEF Types, RowsSet

\* A closed row of a trial with nothing unresolved covers its bills.
LEMMA CostCovers ==
  ASSUME MoneyInv, NEW t \in Trials, ledger.book[t] = ledger.file[t],
         ~In(ledger.file, t, Unresolved)
  PROVE  world[t].billed <= OfTrial(ledger.book, t, Spent) + world[t].excess
<1>1. ledger.file \in BookSet /\ Accounted(t)
  BY DEF MoneyInv, Types, LedgerSet
<1>2. OfTrial(ledger.file, t, Spent) = OfTrial(ledger.file, t, Due)
  BY <1>1, SpentIsDue DEF Accounted, Placed
<1>3. OfTrial(ledger.book, t, Spent) = OfTrial(ledger.file, t, Spent)
  BY DEF OfTrial
<1> QED
  BY <1>1, <1>2, <1>3 DEF Accounted, Covered

\* A closed trial of an earlier invocation has nothing unresolved any more.
LEMMA ReconcileKeeps ==
  ASSUME MoneyInv, PlayInv', NEW t \in Trials, Reconcile(t)
  PROVE  MoneyInv'
<1>1. /\ life.phase = "running" /\ trial[t].pc = "queued" /\ files[t].closure # "absent"
      /\ UNCHANGED <<life, ledger, world, files>>
  BY DEF Reconcile, IsNext, At
<1>2. CASE files[t].closure = "torn"
  <2>1. Go(t, "raised") /\ UNCHANGED rows
    BY <1>2 DEF Reconcile
  <2>2. MayGo("queued", "raised", ledger.broken) /\ "raised" \in Places \ {"returned"}
    BY DEF MayGo, Places
  <2> QED BY <1>1, <2>1, <2>2, PlainKeeps
<1>3. CASE files[t].closure # "torn"
  <2>1. Go(t, "returned") /\ Row(t, "closed", FALSE)
    BY <1>3 DEF Reconcile
  <2>2. /\ rows' \in RowsSet /\ \A u \in Trials \ {t} : rows'[u] = rows[u]
        /\ rows'[t].class = "closed" /\ rows'[t].cost = OfTrial(ledger.book, t, Spent)
        /\ rows'[t].doubtful = FALSE
    BY <2>1, RowIs DEF MoneyInv
  <2>3. files[t].closure = "whole"
    BY <1>1, <1>3 DEF MoneyInv, PlayInv, Shapes, FilesOfTrial, Remains
  <2>4. world[t].billed <= OfTrial(ledger.book, t, Spent) + world[t].excess
    BY <1>1, CostCovers DEF MoneyInv, Agreed, Accounted, Cleared
  <2>5. trial'[t].pc = "returned"
    BY <2>1 DEF Go, MoneyInv, PlayInv, Shapes, TrialShape
  <2>6. Told(t)'
    BY <1>1, <2>2, <2>3, <2>4, <2>5 DEF Told, MoneyInv, Accounted
  <2>7. MayGo("queued", "returned", ledger.broken) /\ "returned" \in Places
    BY DEF MayGo, Places
  <2> QED BY <1>1, <2>1, <2>2, <2>6, <2>7, MoveKeeps
<1> QED
  BY <1>2, <1>3

\* A trial is pending only if it was never sent and its assignment is gone.
LEMMA PendingKeeps ==
  ASSUME MoneyInv, PlayInv', NEW t \in Trials, Defer(t) \/ Archive(t)
  PROVE  MoneyInv'
<1>1. /\ life.phase = "running" /\ UNCHANGED <<life, ledger, world>>
      /\ Go(t, "returned") /\ Row(t, "pending", FALSE) /\ files[t].assigned = "absent"
      /\ files' = files \/ files' = [files EXCEPT ![t]["binding"] = "absent"]
      /\ trial[t].pc \in {"queued", "archiving"}
  BY DEF Defer, Archive, Fresh, IsNext, At
<1>2. /\ rows' \in RowsSet /\ (\A u \in Trials \ {t} : rows'[u] = rows[u])
      /\ rows'[t].class = "pending"
  BY <1>1, RowIs DEF MoneyInv
<1>3. PlayInv /\ Accounted(t)
  BY DEF MoneyInv
<1>4. world[t].lives = {}
  BY <1>1, <1>3 DEF PlayInv, Once, PlayedIsAssigned
<1>5. world[t].sent = 0
  BY <1>3, <1>4 DEF Accounted, Told
<1>6. (\A u \in Trials \ {t} : files'[u] = files[u]) /\ files'[t].assigned = "absent"
  BY <1>1, <1>3 DEF PlayInv, Shapes, FilesOfTrial
<1>7. trial'[t].pc = "returned"
  BY <1>1, <1>3 DEF Go, PlayInv, Shapes, TrialShape
<1>8. Told(t)'
  BY <1>1, <1>2, <1>5, <1>6, <1>7 DEF Told
<1>9. MayGo(trial[t].pc, "returned", ledger.broken) /\ "returned" \in Places
  BY DEF MayGo, Places
<1> QED
  BY <1>1, <1>2, <1>6, <1>8, <1>9, MoveKeeps

\* Nor has one that closes, unless its journal failed: then the row is doubtful.
LEMMA CloseKeeps ==
  ASSUME MoneyInv, PlayInv', NEW t \in Trials, Close(t)
  PROVE  MoneyInv'
<1>1. /\ life.phase = "running" /\ trial[t].pc = "closing" /\ UNCHANGED <<life, ledger, world>>
  BY DEF Close, At
<1>2. PICK fails \in BOOLEAN, left \in Remains :
        /\ ~fails => left = "whole"
        /\ files' = [files EXCEPT ![t]["closure"] = left]
        /\ Go(t, IF fails THEN "raised" ELSE "returned")
  BY DEF Close, Write
<1>3. PlayInv /\ Accounted(t)
  BY DEF MoneyInv
<1>4. \A u \in Trials \ {t} : files'[u] = files[u]
  BY <1>2, <1>3, FilesMove
<1>5. trial'[t].pc = (IF fails THEN "raised" ELSE "returned")
  BY <1>2, <1>3 DEF Go, PlayInv, Shapes, TrialShape
<1>6. CASE fails
  <2>1. Go(t, "raised") /\ UNCHANGED rows
    BY <1>2, <1>5, <1>6 DEF Close
  <2>2. MayGo("closing", "raised", ledger.broken) /\ "raised" \in Places \ {"returned"}
    BY DEF MayGo, Places
  <2> QED BY <1>1, <1>4, <2>1, <2>2, PlainKeeps
<1>7. CASE ~fails
  <2>1. Go(t, "returned") /\ Row(t, "closed", ledger.broken)
    BY <1>2, <1>5, <1>7 DEF Close
  <2>2. ledger.broken \in BOOLEAN
    BY DEF MoneyInv, Types, LedgerSet
  <2>3. /\ rows' \in RowsSet /\ \A u \in Trials \ {t} : rows'[u] = rows[u]
        /\ rows'[t].class = "closed" /\ rows'[t].cost = OfTrial(ledger.book, t, Spent)
        /\ rows'[t].doubtful = ledger.broken
    BY <2>1, <2>2, RowIs DEF MoneyInv
  <2>4. files'[t].closure = "whole"
    BY <1>2, <1>3, <1>7 DEF PlayInv, Shapes, FilesOfTrial
  <2>5. ~ledger.broken => world[t].billed <= OfTrial(ledger.book, t, Spent) + world[t].excess
    BY <1>1, <1>3, CostCovers DEF MoneyInv, Agreed, Accounted, Cleared
  <2>6. Told(t)'
    BY <1>1, <1>3, <1>5, <1>7, <2>3, <2>4, <2>5 DEF Told, Accounted
  <2>7. MayGo("closing", "returned", ledger.broken) /\ "returned" \in Places
    BY DEF MayGo, Places
  <2> QED BY <1>1, <1>4, <2>1, <2>3, <2>6, <2>7, MoveKeeps
<1> QED
  BY <1>6, <1>7

\* Giving the assigned file up bills nothing.
LEMMA UnassignCounts ==
  ASSUME MoneyInv, PlayInv', NEW t \in Trials, Unassign(t)
  PROVE  MoneyInv'
<1>1. /\ life.phase = "running" /\ trial[t].pc = "archiving"
      /\ files' = [files EXCEPT ![t]["assigned"] = "absent"]
      /\ UNCHANGED <<life, ledger, trial, rows, world>>
  BY DEF Unassign, At
<1>2. PlayInv /\ Accounted(t) /\ Types
  BY DEF MoneyInv
<1>3. \A u \in Trials \ {t} : files'[u] = files[u]
  BY <1>1, <1>2, FilesMove
<1>4. Told(t)'
  BY <1>1, <1>2 DEF Told, Accounted
<1>5. Placed(ledger.file, t, trial[t].pc)' /\ Covered(ledger.file, t, trial[t].pc)' /\ Cleared(t)'
  BY <1>1, <1>2 DEF Accounted, Placed, Ordered, In, Covered, Cleared
<1>6. Types' /\ Accounted(t)'
  BY <1>1, <1>2, <1>4, <1>5 DEF Accounted, Types
<1>7. ~ledger.broken => ledger.book = ledger.file
  BY DEF MoneyInv, Agreed
<1> QED
  BY <1>1, <1>3, <1>6, <1>7, ThreadKeeps

-----------------------------------------------------------------------------
(* The events of a thread: each keeps the invariant, and the cap.            *)

CapStep == ledger'.file = ledger.file \/ KeepsCap(ledger.file, ledger'.file)

\* An event that keeps the cap keeps it on file, durable or not.
LEMMA EventCaps ==
  ASSUME Types, NEW new \in BookSet, NEW outcome \in Outcomes,
         ledger' = Appended(ledger, new, outcome), KeepsCap(ledger.file, new)
  PROVE  CapStep
<1>1. CASE outcome = "durable"
  BY <1>1 DEF Types, LedgerSet, Appended, CapStep
<1>2. CASE outcome # "durable"
  BY <1>2 DEF Types, LedgerSet, Appended, CapStep
<1> QED
  BY <1>1, <1>2

\* What the sums of a trial are compared with are naturals.
LEMMA TrialAmounts ==
  ASSUME MoneyInv, NEW t \in Trials
  PROVE  /\ ledger.file \in BookSet /\ world[t].billed \in Nat /\ world[t].excess \in Nat
         /\ world[t].sent \in Nat /\ trial[t].bill \in Nat
         /\ OfTrial(ledger.file, t, Due) \in Nat /\ Requests(ledger.file, t) \in Nat
         /\ ledger.file[t] # <<>> => LastOf(ledger.file[t]).bound \in Nat
<1>1. ledger.file \in BookSet
  BY DEF MoneyInv, Types, LedgerSet
<1>2. ledger.file[t] # <<>> => LastOf(ledger.file[t]).bound \in Nat
  BY <1>1, BookOf DEF RecordSet
<1> QED
  BY <1>1, <1>2, WorthsAre DEF MoneyInv, Types, WorldSet, PlayInv, Shapes, TrialShape

\* A reservation is due in full before anything is sent.
LEMMA ReserveKeeps ==
  ASSUME MoneyInv, PlayInv', NEW t \in Trials, Reserve(t)
  PROVE  MoneyInv' /\ CapStep
<1>1. /\ life.phase = "running" /\ trial[t].pc = "ready"
      /\ UNCHANGED <<life, files, rows, world>>
  BY DEF Reserve, At
<1>2. CASE ledger.broken \/ ~Fits(Reserved(ledger.book, t))
  <2>1. Go(t, "closing") /\ UNCHANGED ledger
    BY <1>2 DEF Reserve
  <2>2. MayGo("ready", "closing", ledger.broken) /\ "closing" \in Places \ {"returned"}
    BY DEF MayGo, Places
  <2> QED BY <1>1, <2>1, <2>2, PlainKeeps DEF CapStep
<1>3. CASE ~ledger.broken /\ Fits(Reserved(ledger.book, t))
  <2> DEFINE old == ledger.file
             new == Reserved(old, t)
  <2>1. ledger.book = old /\ Placed(old, t, "ready") /\ Covered(old, t, "ready") /\ Types
    BY <1>1, <1>3 DEF MoneyInv, Agreed, Accounted
  <2>2. PICK outcome \in Outcomes :
          /\ ledger' = Appended(ledger, new, outcome)
          /\ Go(t, IF outcome = "durable" THEN "reserved" ELSE "closing")
    BY <1>3, <2>1 DEF Reserve, Event
  <2>3. /\ old \in BookSet /\ world[t].billed \in Nat /\ world[t].excess \in Nat
        /\ OfTrial(old, t, Due) \in Nat /\ Bound \in Nat
    BY TrialAmounts, BudgetAssumption
  <2>4. /\ new \in BookSet /\ (\A u \in Trials \ {t} : new[u] = old[u]) /\ Ordered(new, t)
        /\ In(new, t, {"reserved"}) /\ LastOf(new[t]).bound = Bound
        /\ OfTrial(new, t, Due) = OfTrial(old, t, Due) + Bound
        /\ Requests(new, t) = Requests(old, t) /\ KeepsCap(old, new)
    BY <1>3, <2>1, <2>3, ReserveEvent DEF Placed
  <2> HIDE DEF new
  <2>5. Placed(new, t, "reserved")
    BY <2>4 DEF Placed
  <2>6. Covered(new, t, "reserved")
    <3>1. world[t].billed <= OfTrial(old, t, Due) + world[t].excess
          /\ world[t].sent <= Requests(old, t)
      BY <2>1 DEF Covered
    <3>2. world[t].billed + Bound <= OfTrial(old, t, Due) + Bound + world[t].excess
      BY ONLY <2>3, <3>1
    <3>3. world[t].billed <= OfTrial(old, t, Due) + Bound + world[t].excess
      BY ONLY <2>3, <3>1
    <3> QED BY <2>4, <3>1, <3>2, <3>3 DEF Covered
  <2>7. "reserved" \in Places \ {"queued", "returned"}
    BY DEF Places, Playing
  <2>8. CapStep
    BY <2>1, <2>2, <2>4, EventCaps
  <2>9. MoneyInv'
    BY <1>1, <1>3, <2>2, <2>4, <2>5, <2>6, <2>7, EventKeeps
  <2> QED BY <2>8, <2>9
<1> QED
  BY <1>2, <1>3

\* The wire's size adds to what is due, within the cap.
LEMMA DispatchKeeps ==
  ASSUME MoneyInv, PlayInv', NEW t \in Trials, NEW extra \in Supplements, Dispatch(t, extra)
  PROVE  MoneyInv' /\ CapStep
<1>1. /\ life.phase = "running" /\ trial[t].pc = "gated"
      /\ UNCHANGED <<life, files, rows, world>>
  BY DEF Dispatch, At
<1>2. CASE ledger.broken \/ ~Fits(Dispatched(ledger.book, t, extra))
  <2>1. Go(t, "failing") /\ UNCHANGED ledger
    BY <1>2 DEF Dispatch
  <2>2. MayGo("gated", "failing", ledger.broken) /\ "failing" \in Places \ {"returned"}
    BY DEF MayGo, Places, Playing
  <2> QED BY <1>1, <2>1, <2>2, PlainKeeps DEF CapStep
<1>3. CASE ~ledger.broken /\ Fits(Dispatched(ledger.book, t, extra))
  <2> DEFINE old == ledger.file
             new == Dispatched(old, t, extra)
             bound == LastOf(old[t]).bound
  <2>1. ledger.book = old /\ Placed(old, t, "gated") /\ Covered(old, t, "gated") /\ Types
    BY <1>1, <1>3 DEF MoneyInv, Agreed, Accounted
  <2>2. PICK outcome \in Outcomes :
          /\ ledger' = Appended(ledger, new, outcome)
          /\ Go(t, IF outcome = "durable" THEN "dispatched" ELSE "closing")
    BY <1>3, <2>1 DEF Dispatch, Event
  <2>3. In(old, t, {"reserved"}) /\ Ordered(old, t) /\ old[t] # <<>>
    BY <2>1 DEF Placed, In
  <2>4. /\ old \in BookSet /\ world[t].billed \in Nat /\ world[t].excess \in Nat
        /\ OfTrial(old, t, Due) \in Nat /\ bound \in Nat /\ extra \in Nat
    BY <2>3, TrialAmounts, BudgetAssumption
  <2>5. /\ new \in BookSet /\ (\A u \in Trials \ {t} : new[u] = old[u]) /\ Ordered(new, t)
        /\ In(new, t, {"sent"}) /\ LastOf(new[t]).bound = bound + extra
        /\ OfTrial(new, t, Due) = OfTrial(old, t, Due) + extra
        /\ Requests(new, t) = Requests(old, t) /\ KeepsCap(old, new)
    BY <1>3, <2>1, <2>3, <2>4, DispatchEvent
  <2> HIDE DEF new
  <2>6. Placed(new, t, "dispatched")
    BY <2>5 DEF Placed
  <2>7. Covered(new, t, "dispatched")
    <3>1. /\ world[t].billed <= OfTrial(old, t, Due) + world[t].excess
          /\ world[t].billed + bound <= OfTrial(old, t, Due) + world[t].excess
          /\ world[t].sent <= Requests(old, t)
      BY <2>1 DEF Covered
    <3>2. world[t].billed + (bound + extra) <= OfTrial(old, t, Due) + extra + world[t].excess
      BY ONLY <2>4, <3>1
    <3>3. world[t].billed <= OfTrial(old, t, Due) + extra + world[t].excess
      BY ONLY <2>4, <3>1
    <3> QED BY <2>5, <3>1, <3>2, <3>3 DEF Covered
  <2>8. "dispatched" \in Places \ {"queued", "returned"}
    BY DEF Places, Playing
  <2>9. CapStep
    BY <2>1, <2>2, <2>5, EventCaps
  <2>10. MoneyInv'
    BY <1>1, <1>3, <2>2, <2>5, <2>6, <2>7, <2>8, EventKeeps
  <2> QED BY <2>9, <2>10
<1> QED
  BY <1>2, <1>3

\* A request is on file before it leaves.
LEMMA AnnounceKeeps ==
  ASSUME MoneyInv, PlayInv', NEW t \in Trials, Announce(t)
  PROVE  MoneyInv' /\ CapStep
<1>1. /\ life.phase = "running" /\ trial[t].pc = "dispatched"
      /\ UNCHANGED <<life, files, rows, world>>
  BY DEF Announce, At
<1>2. CASE ledger.broken
  <2>1. Go(t, "failing") /\ UNCHANGED ledger
    BY <1>2 DEF Announce
  <2>2. MayGo("dispatched", "failing", ledger.broken) /\ "failing" \in Places \ {"returned"}
    BY DEF MayGo, Places, Playing
  <2> QED BY <1>1, <2>1, <2>2, PlainKeeps DEF CapStep
<1>3. CASE ~ledger.broken
  <2> DEFINE old == ledger.file
             new == Announced(old, t)
             bound == LastOf(old[t]).bound
  <2>1. ledger.book = old /\ Placed(old, t, "dispatched") /\ Covered(old, t, "dispatched") /\ Types
    BY <1>1, <1>3 DEF MoneyInv, Agreed, Accounted
  <2>2. PICK outcome \in Outcomes :
          /\ ledger' = Appended(ledger, new, outcome)
          /\ Go(t, IF outcome = "durable" THEN "announced" ELSE "closing")
    BY <1>3, <2>1 DEF Announce, Event
  <2>3. In(old, t, {"sent"}) /\ Ordered(old, t) /\ old[t] # <<>>
    BY <2>1 DEF Placed, In
  <2>4. old \in BookSet /\ world[t].sent \in Nat /\ Requests(old, t) \in Nat
    BY TrialAmounts
  <2>5. /\ new \in BookSet /\ (\A u \in Trials \ {t} : new[u] = old[u]) /\ Ordered(new, t)
        /\ In(new, t, {"sent"}) /\ LastOf(new[t]).bound = bound
        /\ OfTrial(new, t, Due) = OfTrial(old, t, Due)
        /\ Requests(new, t) = Requests(old, t) + 1 /\ KeepsCap(old, new)
    BY <2>3, <2>4, AnnounceEvent
  <2> HIDE DEF new
  <2>6. Placed(new, t, "announced")
    BY <2>5 DEF Placed
  <2>7. Covered(new, t, "announced")
    <3>1. /\ world[t].billed <= OfTrial(old, t, Due) + world[t].excess
          /\ world[t].billed + bound <= OfTrial(old, t, Due) + world[t].excess
          /\ world[t].sent <= Requests(old, t)
      BY <2>1 DEF Covered
    <3>2. world[t].sent <= Requests(old, t) + 1 /\ world[t].sent + 1 <= Requests(old, t) + 1
      BY ONLY <2>4, <3>1
    <3> QED BY <2>5, <3>1, <3>2 DEF Covered
  <2>8. "announced" \in Places \ {"queued", "returned"}
    BY DEF Places, Playing
  <2>9. CapStep
    BY <2>1, <2>2, <2>5, EventCaps
  <2>10. MoneyInv'
    BY <1>1, <1>3, <2>2, <2>5, <2>6, <2>7, <2>8, EventKeeps
  <2> QED BY <2>9, <2>10
<1> QED
  BY <1>2, <1>3

\* A reservation kept as unknown stays due in full, whoever keeps it.
LEMMA ForfeitedKeeps ==
  ASSUME MoneyInv, PlayInv', NEW t \in Trials, life.phase = "running", UNCHANGED life,
         trial[t].pc \in {"answered", "failing"}, ~ledger.broken,
         NEW then \in {"ready", "closing"}, Event(t, Forfeited(ledger.book, t), then),
         UNCHANGED <<files, rows, world>>
  PROVE  MoneyInv' /\ CapStep
<1> DEFINE old == ledger.file
           new == Forfeited(old, t)
<1>1. /\ ledger.book = old /\ Placed(old, t, trial[t].pc) /\ Covered(old, t, trial[t].pc)
      /\ Types
  BY DEF MoneyInv, Agreed, Accounted
<1>2. PICK outcome \in Outcomes :
        /\ ledger' = Appended(ledger, new, outcome)
        /\ Go(t, IF outcome = "durable" THEN then ELSE "closing")
  BY <1>1 DEF Event
<1>3. In(old, t, Unresolved) /\ Ordered(old, t) /\ old \in BookSet
  BY <1>1, TrialAmounts DEF Placed, In, Unresolved
<1>4. /\ new \in BookSet /\ (\A u \in Trials \ {t} : new[u] = old[u]) /\ Ordered(new, t)
      /\ In(new, t, {"unknown"}) /\ OfTrial(new, t, Due) = OfTrial(old, t, Due)
      /\ Requests(new, t) = Requests(old, t) /\ KeepsCap(old, new)
  BY <1>3, ForfeitEvent
<1> HIDE DEF new
<1>5. ~In(new, t, Unresolved)
  BY <1>4 DEF In, Unresolved
<1>6. Placed(new, t, then) /\ Covered(new, t, then)
  BY <1>1, <1>4, <1>5 DEF Placed, Covered
<1>7. then \in Places \ {"queued", "returned"}
  BY DEF Places, Playing
<1>8. CapStep
  BY <1>1, <1>2, <1>4, EventCaps
<1>9. MoneyInv'
  BY <1>2, <1>4, <1>5, <1>6, <1>7, EventKeeps
<1> QED
  BY <1>8, <1>9

\* A request that failed stays due in full.
LEMMA ForfeitKeeps ==
  ASSUME MoneyInv, PlayInv', NEW t \in Trials, Forfeit(t)
  PROVE  MoneyInv' /\ CapStep
<1>1. /\ life.phase = "running" /\ trial[t].pc = "failing"
      /\ UNCHANGED <<life, files, rows, world>>
  BY DEF Forfeit, At
<1>2. CASE ledger.broken
  <2>1. Go(t, "closing") /\ UNCHANGED ledger
    BY <1>2 DEF Forfeit
  <2>2. MayGo("failing", "closing", ledger.broken) /\ "closing" \in Places \ {"returned"}
    BY <1>2 DEF MayGo, Places
  <2> QED BY <1>1, <2>1, <2>2, PlainKeeps DEF CapStep
<1>3. CASE ~ledger.broken
  BY <1>1, <1>3, ForfeitedKeeps DEF Forfeit
<1> QED
  BY <1>2, <1>3

\* What a settlement takes off a trial's due, the answer was billed.
LEMMA SettleKeeps ==
  ASSUME MoneyInv, PlayInv', NEW t \in Trials, Settle(t)
  PROVE  MoneyInv' /\ CapStep
<1> DEFINE bill == trial[t].bill
<1>1. /\ life.phase = "running" /\ trial[t].pc = "answered"
      /\ UNCHANGED <<life, files, rows, world>>
  BY DEF Settle, At
<1>2. CASE ledger.broken
  <2>1. Go(t, "closing") /\ UNCHANGED ledger
    BY <1>2 DEF Settle
  <2>2. MayGo("answered", "closing", ledger.broken) /\ "closing" \in Places \ {"returned"}
    BY <1>2 DEF MayGo, Places
  <2> QED BY <1>1, <2>1, <2>2, PlainKeeps DEF CapStep
<1>3. CASE ~ledger.broken /\ \E then \in {"ready", "closing"} :
                               Event(t, Forfeited(ledger.book, t), then)
  BY <1>1, <1>3, ForfeitedKeeps
<1>4. CASE /\ ~ledger.broken /\ MaySettle(ledger.book, t, bill)
           /\ Event(t, Settled(ledger.book, t, bill), "ready")
  <2> DEFINE old == ledger.file
             new == Settled(old, t, bill)
             bound == LastOf(old[t]).bound
  <2>1. ledger.book = old /\ Placed(old, t, "answered") /\ Covered(old, t, "answered") /\ Types
    BY <1>1, <1>4 DEF MoneyInv, Agreed, Accounted
  <2>2. PICK outcome \in Outcomes :
          /\ ledger' = Appended(ledger, new, outcome)
          /\ Go(t, IF outcome = "durable" THEN "ready" ELSE "closing")
    BY <1>4, <2>1 DEF Event
  <2>3. In(old, t, {"sent"}) /\ Ordered(old, t) /\ old[t] # <<>>
    BY <2>1 DEF Placed, In
  <2>4. /\ old \in BookSet /\ world[t].billed \in Nat /\ world[t].excess \in Nat
        /\ OfTrial(old, t, Due) \in Nat /\ bound \in Nat /\ bill \in Nat
    BY <2>3, TrialAmounts
  <2>5. bill <= bound
    BY <1>4, <2>1 DEF MaySettle, LastOf
  <2>6. /\ new \in BookSet /\ (\A u \in Trials \ {t} : new[u] = old[u]) /\ Ordered(new, t)
        /\ In(new, t, {"settled"})
        /\ OfTrial(new, t, Due) = OfTrial(old, t, Due) - bound + bill
        /\ Requests(new, t) = Requests(old, t) /\ KeepsCap(old, new)
    BY <2>3, <2>4, <2>5, SettleEvent
  <2> HIDE DEF new
  <2>7. Placed(new, t, "ready")
    BY <2>6 DEF Placed, In, Unresolved
  <2>8. Covered(new, t, "ready")
    <3>1. /\ world[t].billed + bound <= OfTrial(old, t, Due) + world[t].excess + bill
          /\ world[t].sent <= Requests(old, t)
      BY <2>1 DEF Covered
    <3>2. world[t].billed <= (OfTrial(old, t, Due) - bound + bill) + world[t].excess
      BY ONLY <2>4, <3>1
    <3> QED BY <2>6, <3>1, <3>2 DEF Covered
  <2>9. "ready" \in Places \ {"queued", "returned"}
    BY DEF Places, Playing
  <2>10. CapStep
    BY <2>1, <2>2, <2>6, EventCaps
  <2>11. MoneyInv'
    BY <1>1, <1>4, <2>2, <2>6, <2>7, <2>8, <2>9, EventKeeps
  <2> QED BY <2>10, <2>11
<1> QED
  BY <1>2, <1>3, <1>4 DEF Settle

\* A reservation barred at the gate is given back: it was never dispatched.
LEMMA BarredCounts ==
  ASSUME MoneyInv, PlayInv', NEW t \in Trials, Barred(t)
  PROVE  MoneyInv' /\ CapStep
<1>1. /\ life.phase = "running" /\ trial[t].pc = "barred"
      /\ UNCHANGED <<life, files, rows, world>>
  BY DEF Barred, At
<1>2. PICK then \in {"archiving", "closing"} :
        \/ ledger.broken /\ Go(t, then) /\ UNCHANGED ledger
        \/ /\ ~ledger.broken /\ Go(t, then)
           /\ \E outcome \in Outcomes :
                ledger' = Appended(ledger, Resolved(ledger.book, t, "cancelled"), outcome)
  BY DEF Barred
<1>3. CASE ledger.broken
  <2>1. MayGo("barred", then, ledger.broken) /\ then \in Places \ {"returned"}
    BY <1>3 DEF MayGo, Places
  <2> QED BY <1>1, <1>2, <1>3, <2>1, PlainKeeps DEF CapStep
<1>4. CASE ~ledger.broken
  <2> DEFINE old == ledger.file
             new == Resolved(old, t, "cancelled")
             bound == LastOf(old[t]).bound
  <2>1. ledger.book = old /\ Placed(old, t, "barred") /\ Covered(old, t, "barred") /\ Types
    BY <1>1, <1>4 DEF MoneyInv, Agreed, Accounted
  <2>2. PICK outcome \in Outcomes : ledger' = Appended(ledger, new, outcome) /\ Go(t, then)
    BY <1>2, <1>4, <2>1
  <2>3. In(old, t, {"reserved"}) /\ Ordered(old, t) /\ old[t] # <<>>
    BY <2>1 DEF Placed, In
  <2>4. /\ old \in BookSet /\ world[t].billed \in Nat /\ world[t].excess \in Nat
        /\ OfTrial(old, t, Due) \in Nat /\ bound \in Nat
    BY <2>3, TrialAmounts
  <2>5. /\ new \in BookSet /\ (\A u \in Trials \ {t} : new[u] = old[u]) /\ Ordered(new, t)
        /\ In(new, t, {"cancelled"})
        /\ OfTrial(new, t, Due) = OfTrial(old, t, Due) - bound
        /\ Requests(new, t) = Requests(old, t) /\ KeepsCap(old, new)
    BY <2>3, <2>4, CancelEvent
  <2> HIDE DEF new
  <2>6. Placed(new, t, then) /\ ~In(new, t, Unresolved)
    BY <2>5 DEF Placed, In, Unresolved
  <2>7. Covered(new, t, then)
    <3>1. /\ world[t].billed + bound <= OfTrial(old, t, Due) + world[t].excess
          /\ world[t].sent <= Requests(old, t)
      BY <2>1 DEF Covered
    <3>2. world[t].billed <= (OfTrial(old, t, Due) - bound) + world[t].excess
      BY ONLY <2>4, <3>1
    <3> QED BY <2>5, <3>1, <3>2 DEF Covered
  <2>8. then \in Places \ {"queued", "returned"}
    BY DEF Places
  <2>9. CapStep
    BY <2>1, <2>2, <2>5, EventCaps
  <2>10. Go(t, IF outcome = "durable" THEN then ELSE then)
    BY <2>2
  <2>11. MoneyInv'
    BY <1>1, <1>4, <2>2, <2>5, <2>6, <2>7, <2>8, <2>10, EventKeeps
  <2> QED BY <2>9, <2>11
<1> QED
  BY <1>3, <1>4

\* A request on the wire: it was announced, and its bill is within its bound
\* or in excess of it.
LEMMA TransmitCounts ==
  ASSUME MoneyInv, PlayInv', NEW t \in Trials, NEW bill \in Bills[t], Transmit(t, bill)
  PROVE  MoneyInv'
<1> DEFINE book == ledger.book[t]
           held == book[Len(book)].bound
           more == IF bill > held THEN bill - held ELSE 0
           w == world[t]
           old == ledger.file
           bound == LastOf(old[t]).bound
<1>1. /\ life.phase = "running" /\ trial[t].pc = "announced"
      /\ UNCHANGED <<life, ledger, gate, files, rows>>
      /\ trial' = [trial EXCEPT ![t].pc = "flight", ![t].bill = bill, ![t].sent = @ + 1]
      /\ world' = [world EXCEPT ![t].billed = @ + bill, ![t].excess = @ + more,
                                ![t].sent = @ + 1, ![t].lives = @ \cup {life.n}]
  BY DEF Transmit, At
<1>2. Placed(old, t, "announced") /\ Covered(old, t, "announced") /\ Types /\ Told(t)
  BY <1>1 DEF MoneyInv, Accounted
<1>3. ledger.book[t] = old[t] /\ In(old, t, {"sent"}) /\ old[t] # <<>>
  BY <1>1, <1>2 DEF MoneyInv, Agreed, Placed, In
<1>4. /\ held = bound /\ bound \in Nat /\ bill \in Nat /\ more \in Nat
      /\ w.billed \in Nat /\ w.excess \in Nat /\ w.sent \in Nat /\ life.n \in Nat
      /\ OfTrial(old, t, Due) \in Nat /\ Requests(old, t) \in Nat
  <2>1. held = bound /\ bound \in Nat
    BY <1>3, TrialAmounts DEF LastOf
  <2>2. bill \in Nat
    BY CampaignAssumption
  <2>3. life.n \in Nat
    BY DEF MoneyInv, PlayInv, Shapes, LifeShape
  <2> QED BY <2>1, <2>2, <2>3, TrialAmounts
<1>5. more = IF bill > bound THEN bill - bound ELSE 0
  BY <1>4
<1> HIDE DEF more, held, book
<1>6. /\ trial'[t].pc = "flight" /\ trial'[t].bill = bill
      /\ \A u \in Trials \ {t} : trial'[u] = trial[u]
  <2>1. PICK n : trial' = [trial EXCEPT ![t].pc = "flight", ![t].bill = bill, ![t].sent = n]
    BY <1>1
  <2> QED BY <2>1 DEF MoneyInv, PlayInv, Shapes, TrialShape
<1>7. /\ world' \in WorldSet /\ \A u \in Trials \ {t} : world'[u] = world[u]
      /\ world'[t].billed = w.billed + bill /\ world'[t].excess = w.excess + more
      /\ world'[t].sent = w.sent + 1 /\ world'[t].lives # {}
  <2> DEFINE b == w.billed + bill
             x == w.excess + more
             n == w.sent + 1
             l == w.lives \cup {life.n}
  <2>1. b \in Nat /\ x \in Nat /\ n \in Nat /\ l \in SUBSET Nat
    BY <1>2, <1>4 DEF Types, WorldSet
  <2> DEFINE next == [world[t] EXCEPT !.billed = b, !.excess = x, !.sent = n, !.lives = l]
  <2>2. world' = [world EXCEPT ![t].billed = b, ![t].excess = x, ![t].sent = n, ![t].lives = l]
    BY <1>1
  <2>3. l # {}
    OBVIOUS
  <2> HIDE DEF b, x, n, l
  <2>4. /\ world'[t].billed = b /\ world'[t].excess = x
        /\ world'[t].sent = n /\ world'[t].lives = l
        /\ (\A u \in Trials \ {t} : world'[u] = world[u]) /\ world' \in WorldSet
    <3>1. world[t] \in [billed : Nat, excess : Nat, sent : Nat, lives : SUBSET Nat]
      BY <1>2 DEF Types, WorldSet
    <3>2. /\ next \in [billed : Nat, excess : Nat, sent : Nat, lives : SUBSET Nat]
          /\ next.billed = b /\ next.excess = x /\ next.sent = n /\ next.lives = l
      BY <2>1, <3>1
    <3>3. world' = [world EXCEPT ![t] = next]
      BY <2>2
    <3> HIDE DEF next
    <3> QED BY <1>2, <3>2, <3>3 DEF Types, WorldSet
  <2> QED BY <2>3, <2>4 DEF b, x, n
<1>8. Types'
  BY <1>1, <1>2, <1>7 DEF Types
<1>9. Placed(ledger.file, t, trial[t].pc)'
  <2>1. Placed(old, t, "flight")
    BY <1>2, <1>3 DEF Placed
  <2> QED BY <1>1, <1>6, <2>1 DEF Placed, Ordered, In
<1>10. Covered(ledger.file, t, trial[t].pc)'
  <2>1. /\ w.billed + bound <= OfTrial(old, t, Due) + w.excess
        /\ w.sent + 1 <= Requests(old, t)
    BY <1>2 DEF Covered
  <2>2. /\ w.billed + bill <= OfTrial(old, t, Due) + (w.excess + more)
        /\ w.billed + bill + bound <= OfTrial(old, t, Due) + (w.excess + more) + bill
    BY ONLY <1>4, <1>5, <2>1
  <2>3. /\ OfTrial(ledger.file, t, Due)' = OfTrial(old, t, Due)
        /\ Requests(ledger.file, t)' = Requests(old, t) /\ LastOf(ledger.file[t])'.bound = bound
    BY <1>1 DEF OfTrial, Requests, LastOf
  <2> QED BY <1>6, <1>7, <2>1, <2>2, <2>3 DEF Covered
<1>11. Cleared(t)' /\ Told(t)'
  BY <1>1, <1>2, <1>6, <1>7 DEF Cleared, Told
<1>12. ~ledger.broken => ledger.book = ledger.file
  BY DEF MoneyInv, Agreed
<1>13. Accounted(t)'
  BY <1>9, <1>10, <1>11 DEF Accounted
<1> QED
  BY <1>1, <1>6, <1>7, <1>8, <1>12, <1>13, ThreadKeeps

\* Whatever a worker does keeps the books, and the cap.
LEMMA WorkersKeep ==
  ASSUME MoneyInv, PlayInv', NEW t \in Trials, Worker(t)
  PROVE  MoneyInv' /\ CapStep
<1>1. CASE \/ Interrupted(t) \/ Assign(t) \/ Bind(t) \/ EpisodeEnds(t) \/ PassGate(t)
           \/ ObserverFails(t) \/ Answered(t) \/ Unanswered(t) \/ ArchiveFails(t)
  <2>1. UNCHANGED ledger
    BY <1>1 DEF Interrupted, Assign, Bind, EpisodeEnds, PassGate, ObserverFails, Answered,
                Unanswered, ArchiveFails
  <2> QED BY <1>1, <2>1, PlainStepsKeep DEF CapStep
<1>2. CASE Reconcile(t)
  BY <1>2, ReconcileKeeps DEF Reconcile, CapStep
<1>3. CASE Defer(t) \/ Archive(t)
  BY <1>3, PendingKeeps DEF Defer, Archive, CapStep
<1>4. CASE Close(t)
  BY <1>4, CloseKeeps DEF Close, CapStep
<1>5. CASE Unassign(t)
  BY <1>5, UnassignCounts DEF Unassign, CapStep
<1>6. CASE \E bill \in Bills[t] : Transmit(t, bill)
  <2>1. PICK bill \in Bills[t] : Transmit(t, bill)
    BY <1>6
  <2>2. UNCHANGED ledger
    BY <2>1 DEF Transmit
  <2> QED BY <2>1, <2>2, TransmitCounts DEF CapStep
<1>7. CASE Reserve(t) \/ Announce(t) \/ Settle(t) \/ Forfeit(t) \/ Barred(t)
  BY <1>7, ReserveKeeps, AnnounceKeeps, SettleKeeps, ForfeitKeeps, BarredCounts
<1>8. CASE \E extra \in Supplements : Dispatch(t, extra)
  BY <1>8, DispatchKeeps
<1> QED
  BY <1>1, <1>2, <1>3, <1>4, <1>5, <1>6, <1>7, <1>8 DEF Worker

-----------------------------------------------------------------------------
(* The invocations.                                                          *)

\* Opening the journal forfeits what it finds unresolved, due in full as before.
LEMMA RecoverKeeps ==
  ASSUME MoneyInv, PlayInv', NEW t \in Trials, Recover(t)
  PROVE  MoneyInv' /\ CapStep
<1> DEFINE old == ledger.file
           new == Forfeited(old, t)
<1>1. /\ life.phase = "opening" /\ UNCHANGED <<trial, files, rows, world>>
      /\ ledger.book = old /\ Types /\ ledger \in LedgerSet /\ life \in LifeShape
      /\ \A u \in Trials : trial[u].pc = "queued" /\ Accounted(u)
  BY DEF Recover, MoneyInv, Agreed, Types, PlayInv, Shapes
<1>2. PICK outcome \in Outcomes :
        /\ ledger' = Appended(ledger, new, outcome)
        /\ life' = IF outcome = "durable" THEN life ELSE [life EXCEPT !.phase = "ended"]
  BY <1>1 DEF Recover
<1>3. In(old, t, Unresolved) /\ Ordered(old, t) /\ old \in BookSet
  BY <1>1 DEF Recover, Accounted, Placed, LedgerSet
<1>4. /\ new \in BookSet /\ (\A u \in Trials \ {t} : new[u] = old[u]) /\ Ordered(new, t)
      /\ OfTrial(new, t, Due) = OfTrial(old, t, Due)
      /\ Requests(new, t) = Requests(old, t) /\ KeepsCap(old, new)
  BY <1>3, ForfeitEvent
<1> HIDE DEF new
<1>5. CapStep
  BY <1>1, <1>2, <1>4, EventCaps
<1>6. /\ ledger' \in LedgerSet /\ ledger'.file \in {old, new}
      /\ ledger'.broken \/ ledger'.book = ledger'.file
      /\ life'.phase = "ended" \/ (life' = life /\ ~ledger'.broken)
      /\ life'.report = life.report
  <2>1. CASE outcome = "durable"
    BY <1>1, <1>2, <1>4, <2>1 DEF Appended, LedgerSet, MoneyInv, Agreed
  <2>2. CASE outcome # "durable"
    <3>1. PICK f \in {new, old}, b \in BOOLEAN :
            ledger' = [ledger EXCEPT !.broken = TRUE, !.torn = b, !.file = f]
      BY <1>2, <2>2 DEF Appended
    <3>2. f \in BookSet
      BY <1>3, <1>4, <3>1
    <3>3. ledger' \in LedgerSet /\ ledger'.file \in {old, new} /\ ledger'.broken
      BY <1>1, <3>1, <3>2 DEF LedgerSet
    <3>4. life'.phase = "ended" /\ life'.report = life.report
      BY <1>1, <1>2, <2>2 DEF LifeShape
    <3> QED BY <3>3, <3>4
  <2> QED BY <2>1, <2>2
<1>7. Types' /\ Agreed' /\ Reported'
  BY <1>1, <1>6 DEF Types, Agreed, Reported, MoneyInv
<1>8. ASSUME NEW u \in Trials PROVE Accounted(u)'
  <2>1. Ordered(ledger'.file, u)
    BY <1>1, <1>4, <1>6 DEF Accounted, Placed, Ordered
  <2>2. /\ OfTrial(ledger'.file, u, Due) = OfTrial(old, u, Due)
        /\ Requests(ledger'.file, u) = Requests(old, u)
    BY <1>4, <1>6 DEF OfTrial, Requests
  <2>3. trial[u].pc = "queued" /\ trial' = trial /\ world' = world
    BY <1>1
  <2>4. Covered(old, u, "queued")
    BY <1>1 DEF Accounted
  <2>5. Placed(ledger.file, u, trial[u].pc)' /\ Covered(ledger.file, u, trial[u].pc)'
    BY <2>1, <2>2, <2>3, <2>4 DEF Placed, Covered, OfTrial, Requests, Ordered, LastOf
  <2>6. Cleared(u)'
    BY <1>1, <1>6, <2>3 DEF Cleared
  <2>7. Told(u)'
    BY <1>1 DEF Accounted, Told
  <2> QED BY <2>5, <2>6, <2>7 DEF Accounted
<1> QED
  BY <1>5, <1>7, <1>8 DEF MoneyInv

\* Where neither journal, files nor bills move, each trial is as accounted for
\* as before, if it is cleared.
LEMMA StillAccounted ==
  ASSUME NEW t \in Trials, Accounted(t), UNCHANGED <<ledger, trial, files, rows, world>>, Cleared(t)'
  PROVE  Accounted(t)'
<1>1. Placed(ledger.file, t, trial[t].pc)' /\ Covered(ledger.file, t, trial[t].pc)'
  BY DEF Accounted, Placed, Ordered, In, Covered, OfTrial, Requests, LastOf
<1>2. Told(t)'
  BY DEF Accounted, Told
<1> QED
  BY <1>1, <1>2 DEF Accounted

\* An invocation starts when nothing is left unresolved.
LEMMA StartedKeeps ==
  ASSUME MoneyInv, PlayInv', Started
  PROVE  MoneyInv'
<1>1. /\ life.phase = "opening" /\ \A t \in Trials : ~In(ledger.book, t, Unresolved)
      /\ UNCHANGED <<ledger, trial, files, rows, world>>
      /\ life' = [life EXCEPT !.phase = "running"]
  BY DEF Started
<1>2. /\ ~ledger.broken /\ ledger.book = ledger.file
      /\ \A t \in Trials : trial[t].pc = "queued"
  BY <1>1 DEF MoneyInv, Agreed
<1>3. life \in LifeShape /\ life.report = "none"
  BY <1>1 DEF MoneyInv, PlayInv, Shapes, Reported
<1>4. life'.phase = "running" /\ life'.report = "none"
  BY <1>1, <1>3 DEF LifeShape
<1>5. Types' /\ Agreed' /\ Reported'
  BY <1>1, <1>2, <1>4 DEF Types, Agreed, Reported, MoneyInv
<1>6. ASSUME NEW t \in Trials PROVE Accounted(t)'
  <2>1. Cleared(t)'
    BY <1>1, <1>2 DEF Cleared, In
  <2> QED BY <1>1, <2>1, StillAccounted DEF MoneyInv
<1> QED
  BY <1>5, <1>6 DEF MoneyInv

\* A complete report is of returned trials with no row pending: each is closed.
LEMMA ConcludeKeeps ==
  ASSUME MoneyInv, PlayInv', Conclude
  PROVE  MoneyInv'
<1>1. /\ UNCHANGED <<ledger, trial, files, rows, world>>
      /\ \A t \in Trials : trial[t].pc \in {"returned", "raised"}
  BY DEF Conclude
<1>2. life \in LifeShape
  BY DEF MoneyInv, PlayInv, Shapes
<1>3. /\ life'.phase = "ended"
      /\ life'.report = "complete" =>
           \A t \in Trials : trial[t].pc # "raised" /\ rows[t].class # "pending"
  BY <1>2 DEF Conclude, LifeShape
<1>4. ASSUME life'.report = "complete", NEW t \in Trials PROVE files[t].closure = "whole"
  <2>1. trial[t].pc = "returned" /\ rows[t].class # "pending"
    BY <1>1, <1>3, <1>4
  <2>2. rows[t].class \in {"none", "pending", "closed"} /\ Told(t)
    BY DEF MoneyInv, Types, RowsSet, Accounted
  <2> QED BY <2>1, <2>2 DEF Told
<1>5. Types' /\ Agreed' /\ Reported'
  BY <1>1, <1>3, <1>4 DEF Types, Agreed, Reported, MoneyInv
<1>6. ASSUME NEW t \in Trials PROVE Accounted(t)'
  <2>1. Cleared(t)'
    BY <1>1 DEF Cleared
  <2> QED BY <1>1, <2>1, StillAccounted DEF MoneyInv
<1> QED
  BY <1>5, <1>6 DEF MoneyInv

\* What the process forgets is on file; what it had not resolved is still due.
LEMMA ForgetCounts ==
  ASSUME MoneyInv, PlayInv', Forget, life' \in LifeShape, life'.phase # "running",
         life'.report = "none", UNCHANGED <<files, world>>
  PROVE  MoneyInv' /\ CapStep
<1>1. ledger \in LedgerSet /\ world \in WorldSet
  BY DEF MoneyInv, Types
<1>2. /\ ledger' \in LedgerSet /\ ledger'.file = ledger.file /\ ledger'.book = ledger.file
      /\ ~ledger'.broken
  BY <1>1 DEF Forget, Opened, LedgerSet
<1>3. /\ rows' \in RowsSet
      /\ \A t \in Trials : rows'[t].class = "none" /\ trial'[t].pc = "queued"
  BY DEF Forget, RowsSet, NoRow, NewTrial
<1>4. Types' /\ Agreed' /\ Reported'
  BY <1>1, <1>2, <1>3 DEF Types, Agreed, Reported
<1>5. ASSUME NEW t \in Trials PROVE Accounted(t)'
  <2>1. Accounted(t)
    BY DEF MoneyInv
  <2>2. Placed(ledger.file, t, trial[t].pc)' /\ Covered(ledger.file, t, trial[t].pc)'
    BY <1>2, <1>3, <2>1 DEF Accounted, Placed, Ordered, Covered, OfTrial, Requests, LastOf
  <2>3. Cleared(t)'
    BY <1>3 DEF Cleared
  <2>4. Told(t)'
    BY <1>3, <2>1 DEF Accounted, Told
  <2> QED BY <2>2, <2>3, <2>4 DEF Accounted
<1> QED
  BY <1>2, <1>4, <1>5 DEF MoneyInv, CapStep

\* However an invocation starts, ends or dies, the books and the cap are kept.
LEMMA LivesKeep ==
  ASSUME MoneyInv, PlayInv', \/ Conclude \/ Started \/ Crash \/ Resume
                             \/ \E t \in Trials : Recover(t)
  PROVE  MoneyInv' /\ CapStep
<1>1. life \in LifeShape
  BY DEF MoneyInv, PlayInv, Shapes
<1>2. CASE Conclude
  BY <1>2, ConcludeKeeps DEF Conclude, CapStep
<1>3. CASE Started
  BY <1>3, StartedKeeps DEF Started, CapStep
<1>4. CASE \E t \in Trials : Recover(t)
  BY <1>4, RecoverKeeps
<1>5. CASE Crash
  <2>1. life.report = "none"
    BY <1>1, <1>5 DEF Crash, MoneyInv, Reported
  <2>2. life' \in LifeShape /\ life'.phase = "ended" /\ life'.report = "none"
    BY <1>1, <1>5, <2>1 DEF Crash, LifeShape
  <2> QED BY <1>5, <2>2, ForgetCounts DEF Crash
<1>6. CASE Resume
  <2>1. life' \in LifeShape /\ life'.phase = "opening" /\ life'.report = "none"
    BY <1>1, <1>6 DEF Resume, LifeShape
  <2> QED BY <1>6, <2>1, ForgetCounts DEF Resume
<1> QED
  BY <1>2, <1>3, <1>4, <1>5, <1>6

\* Nothing was reserved, sent or billed yet.
LEMMA MoneyInvInit == Init => MoneyInv
<1> SUFFICES ASSUME Init PROVE MoneyInv
  OBVIOUS
<1>1. /\ ledger = NewLedger /\ \A t \in Trials : ledger.book[t] = <<>> /\ ledger.file[t] = <<>>
  BY DEF Init, NewLedger
<1>2. Types
  BY DEF Init, NewLedger, NoRow, Types, LedgerSet, BookSet, WorldSet, RowsSet
<1>3. Agreed /\ Reported
  BY DEF Init, NewLedger, NewTrial, Agreed, Reported
<1>4. ASSUME NEW t \in Trials PROVE Accounted(t)
  <2>1. ledger.file \in BookSet /\ ledger.file[t] = <<>>
    BY <1>1, <1>2 DEF Types, LedgerSet
  <2>2. OfTrial(ledger.file, t, Due) \in Nat /\ Requests(ledger.file, t) \in Nat
    BY <2>1, WorthsAre
  <2>3. /\ trial[t].pc = "queued" /\ rows[t].class = "none" /\ world[t].billed = 0
        /\ world[t].excess = 0 /\ world[t].sent = 0
    BY DEF Init, NewTrial, NoRow
  <2>4. Placed(ledger.file, t, "queued") /\ Cleared(t)
    BY <2>1, <2>3 DEF Placed, Ordered, Cleared, In
  <2>5. Covered(ledger.file, t, "queued")
    BY <2>2, <2>3 DEF Covered
  <2>6. Told(t)
    BY <2>3 DEF Told
  <2> QED BY <2>3, <2>4, <2>5, <2>6 DEF Accounted
<1> QED
  BY <1>2, <1>3, <1>4, PlayInvInit DEF MoneyInv

\* Every step keeps the books and the cap.
LEMMA MoneyKept == MoneyInv /\ [Next]_vars => MoneyInv' /\ CapStep
<1> SUFFICES ASSUME MoneyInv, [Next]_vars PROVE MoneyInv' /\ CapStep
  OBVIOUS
<1>1. PlayInv'
  BY NextKeeps DEF MoneyInv
<1>2. CASE UNCHANGED vars
  <2>1. UNCHANGED <<life, ledger, trial, files, rows, world>>
    BY <1>2 DEF vars
  <2>2. ASSUME NEW t \in Trials PROVE Accounted(t)'
    <3>1. Cleared(t)'
      BY <2>1 DEF MoneyInv, Accounted, Cleared, In
    <3> QED BY <2>1, <3>1, StillAccounted DEF MoneyInv
  <2>3. Types' /\ Agreed' /\ Reported'
    BY <2>1 DEF MoneyInv, Types, Agreed, Reported
  <2> QED BY <1>1, <2>1, <2>2, <2>3 DEF MoneyInv, CapStep
<1>3. CASE \E t \in Trials : Worker(t)
  BY <1>1, <1>3, WorkersKeep
<1>4. CASE \/ Conclude \/ Started \/ Crash \/ Resume
           \/ \E t \in Trials : Recover(t)
  BY <1>1, <1>4, LivesKeep
<1> QED
  BY <1>2, <1>3, <1>4 DEF Next, Work

-----------------------------------------------------------------------------
\* What a provider billed is on the journal's file at every moment, as known,
\* pending or unknown, but for what exceeds a request's bound, and every request
\* that left was announced there before (the order of reserve, dispatch, the
\* announcement and the settlement of CampaignBudget), whatever crashed.
THEOREM SpendIsJournaled == Spec => []SpendIsOnTheJournal
<1>1. MoneyInv => SpendIsOnTheJournal
  <2> SUFFICES ASSUME MoneyInv, NEW t \in Trials
               PROVE  /\ world[t].billed <= OfTrial(ledger.file, t, Due) + world[t].excess
                      /\ world[t].sent <= Requests(ledger.file, t)
    BY DEF SpendIsOnTheJournal, Due
  <2> QED BY DEF MoneyInv, Accounted, Covered
<1> QED
  BY <1>1, MoneyInvInit, MoneyKept, PTL DEF Spec

\* A row is pending only of a trial the provider never saw; a closed one covers
\* its bills unless the journal had failed; a complete report closes every trial
\* (financial_row, the archive of an unsent trial, and the campaign's terminal).
THEOREM RowsTrue == Spec => []RowsAreTrue
<1>1. MoneyInv => RowsAreTrue
  BY DEF MoneyInv, Accounted, Told, Reported, RowsAreTrue
<1> QED
  BY <1>1, MoneyInvInit, MoneyKept, PTL DEF Spec

\* The one journal of a campaign implements the spending cap, whatever threads
\* draw on it and however often it is opened again: only authorize and dispatch
\* raise what is held, under the cap, and a settlement spends at most what was.
THEOREM CampaignCapped == Spec => CampaignKeepsTheCap
<1>1. Init => TheCap!Init
  <2> SUFFICES ASSUME Init PROVE TheCap!Init
    OBVIOUS
  <2>1. ledger.file \in BookSet /\ \A t \in Trials : ledger.file[t] = <<>>
    BY DEF Init, NewLedger, BookSet
  <2>2. ASSUME NEW S PROVE Total(ledger.file, S) = 0
    BY <2>1, TotalOfEmpty
  <2> QED BY <2>2 DEF TheCap!Init
<1>2. MoneyInv /\ [Next]_vars => [TheCap!Next]_(TheCap!vars)
  <2> SUFFICES ASSUME MoneyInv, [Next]_vars PROVE [TheCap!Next]_(TheCap!vars)
    OBVIOUS
  <2>1. MoneyInv' /\ CapStep
    BY MoneyKept
  <2> DEFINE s == Total(ledger.file, Spent)
             h == Total(ledger.file, Unresolved)
             s1 == Total(ledger'.file, Spent)
             h1 == Total(ledger'.file, Unresolved)
  <2>2. ledger.file \in BookSet /\ ledger'.file \in BookSet
    BY <2>1 DEF MoneyInv, Types, LedgerSet
  <2>3. s \in Nat /\ h \in Nat /\ s1 \in Nat /\ h1 \in Nat
    BY <2>2, TotalIs
  <2>4. s' = s1 /\ h' = h1
    BY DEF Total, OfTrial
  <2>5. CASE ledger'.file = ledger.file
    BY <2>4, <2>5 DEF TheCap!vars
  <2>6. CASE KeepsCap(ledger.file, ledger'.file)
    <3>1. \/ h1 > h /\ s1 = s /\ s + h1 <= Cap
          \/ h1 <= h /\ s1 >= s /\ s1 - s <= h - h1
      BY <2>6 DEF KeepsCap
    <3> HIDE DEF s, h, s1, h1
    <3>2. h1 <= h => h1 \in 0..h
      BY <2>3
    <3>3. \/ h' \in Nat /\ h' > h /\ s + h' <= Cap /\ s' = s
          \/ /\ h' \in 0..h /\ s' \in Nat /\ s' >= s
             /\ 0 = 0 + (IF (s' - s) - (h - h') > 0 THEN (s' - s) - (h - h') ELSE 0)
      BY <2>3, <2>4, <3>1, <3>2
    <3> QED BY <3>3 DEF s, h, TheCap!Next, TheCap!Hold, TheCap!Resolve
  <2> QED BY <2>1, <2>5, <2>6 DEF CapStep
<1> QED
  BY <1>1, <1>2, MoneyInvInit, MoneyKept, PTL DEF Spec, CampaignKeepsTheCap, TheCap!Spec

\* So what is spent and held on the file never passes the cap of the campaign,
\* which no settlement can overrun: a bill above its bound is kept as unknown.
THEOREM JournalUnderCap == Spec => []TheCap!UnderCap
<1> DEFINE spent == Total(ledger.file, Spent)
           held == Total(ledger.file, Unresolved)
           Within == spent \in Nat /\ held \in Nat /\ spent + held <= Cap
<1>1. TheCap!Init => Within
  BY BudgetAssumption DEF TheCap!Init
<1>2. Within /\ [TheCap!Next]_(TheCap!vars) => Within'
  <2> SUFFICES ASSUME Within, [TheCap!Next]_(TheCap!vars) PROVE Within'
    OBVIOUS
  <2>1. \/ /\ held' \in Nat /\ spent + held' <= Cap
           /\ spent' = spent /\ 0 = 0
        \/ /\ held' \in 0 .. held /\ spent' \in Nat
           /\ LET excess == (spent' - spent) - (held - held')
              IN 0 = 0 + (IF excess > 0 THEN excess ELSE 0)
        \/ spent' = spent /\ held' = held /\ 0 = 0
    BY DEF TheCap!Next, TheCap!Hold, TheCap!Resolve, TheCap!vars
  <2> HIDE DEF spent, held
  <2>2. spent' \in Nat /\ held' \in Nat /\ 0 \in Nat /\ spent' + held' <= Cap + 0
    BY <2>1, CapKept, BudgetAssumption
  <2>3. \A x, y \in Nat : x + y <= Cap + 0 => x + y <= Cap
    BY BudgetAssumption
  <2>4. spent' + held' <= Cap
    BY <2>2, <2>3, Zenon
  <2> QED BY <2>2, <2>4
<1>3. Within => TheCap!UnderCap
  BY BudgetAssumption DEF TheCap!UnderCap
<1> QED
  BY <1>1, <1>2, <1>3, CampaignCapped, PTL DEF CampaignKeepsTheCap, TheCap!Spec

\* What the providers billed all trials for, whichever invocation asked.
AllBilled == SumFunction([t \in Trials |-> world[t].billed])
\* By how much single answers were billed above the bound of their request.
AllExcess == SumFunction([t \in Trials |-> world[t].excess])

\* And so a campaign costs its cap at most, over all invocations, but for what
\* single answers were billed above the bound their request was reserved with
\* (authorize against one journal, the recovery of what a crash left on it).
THEOREM CampaignCostsItsCap == Spec => [](AllBilled <= Cap + AllExcess)
<1>1. MoneyInv /\ TheCap!UnderCap => AllBilled <= Cap + AllExcess
  <2> SUFFICES ASSUME MoneyInv, TheCap!UnderCap PROVE AllBilled <= Cap + AllExcess
    OBVIOUS
  <2> DEFINE b == [t \in Trials |-> world[t].billed]
             e == [t \in Trials |-> world[t].excess]
             d == [t \in Trials |-> OfTrial(ledger.file, t, Due)]
             sum == [t \in Trials |-> d[t] + e[t]]
  <2>1. ledger.file \in BookSet
    BY DEF MoneyInv, Types, LedgerSet
  <2>2. \A t \in Trials : world[t].billed \in Nat /\ world[t].excess \in Nat
    BY DEF MoneyInv, Types, WorldSet
  <2>3. \A t \in Trials : OfTrial(ledger.file, t, Due) \in Nat
    BY <2>1, WorthsAre
  <2>4. \A t \in Trials : world[t].billed <= OfTrial(ledger.file, t, Due) + world[t].excess
    BY DEF MoneyInv, Accounted, Covered
  <2>5. /\ DOMAIN b = Trials /\ DOMAIN e = Trials /\ DOMAIN d = Trials
        /\ \A t \in Trials : /\ b[t] \in Nat /\ e[t] \in Nat /\ d[t] \in Nat
                             /\ sum[t] = d[t] + e[t] /\ sum[t] \in Nat
                             /\ b[t] <= sum[t]
    BY <2>2, <2>3, <2>4
  <2>6. Total(ledger.file, Due) = SumFunction(d)
    BY DEF Total
  <2>7. Total(ledger.file, Due) \in Nat /\ Total(ledger.file, Due) <= Cap
    <3>1. Total(ledger.file, Due) = Total(ledger.file, Spent) + Total(ledger.file, Unresolved)
      BY <2>1, DueIs
    <3>2. Total(ledger.file, Spent) + Total(ledger.file, Unresolved) <= Cap + 0
      BY DEF TheCap!UnderCap
    <3> QED BY <2>1, <3>1, <3>2, TotalIs, BudgetAssumption
  <2>8. AllBilled = SumFunction(b) /\ AllExcess = SumFunction(e)
    BY DEF AllBilled, AllExcess
  <2> HIDE DEF b, e, d, sum
  <2>9. /\ SumFunction(b) = SumFunctionOnSet(b, Trials)
        /\ SumFunction(e) = SumFunctionOnSet(e, Trials)
        /\ SumFunction(d) = SumFunctionOnSet(d, Trials)
    BY <2>5 DEF SumFunction
  <2>10. SumFunctionOnSet(b, Trials) <= SumFunctionOnSet(sum, Trials)
    BY <2>5, SumIsMonotone, BudgetAssumption
  <2>11. SumFunctionOnSet(sum, Trials) = SumFunctionOnSet(d, Trials) + SumFunctionOnSet(e, Trials)
    BY <2>5, SumsAdd, BudgetAssumption
  <2>12. SumFunctionOnSet(b, Trials) \in Nat /\ SumFunctionOnSet(e, Trials) \in Nat
    BY <2>5, SumIsNatural, BudgetAssumption
  <2> QED BY <2>6, <2>7, <2>8, <2>9, <2>10, <2>11, <2>12, BudgetAssumption
<1> QED
  BY <1>1, JournalUnderCap, MoneyInvInit, MoneyKept, PTL DEF Spec

-----------------------------------------------------------------------------
(* The locks of the gate.                                                    *)

\* From the look at the gate to the answer a thread behind it has its model's lock.
Carrying == {"gated", "dispatched", "announced", "flight"}

\* A lock that is held is held by a thread on its way, of that model, and every
\* thread on its way behind the gate holds the lock of its model.
GateInv ==
  /\ gate \in [stopped : BOOLEAN, holder : [Models -> Trials \cup {Nobody}]]
  /\ \A m \in Models : gate.holder[m] # Nobody =>
       LET u == gate.holder[m]
       IN u \in Gated /\ Model[u] = m /\ trial[u].pc \in Carrying
  /\ \A u \in Gated : trial[u].pc \in Carrying => gate.holder[Model[u]] = u

\* One thread goes on, to pc; the others stay where they are.
Steps(t, pc) ==
  /\ trial' \in [Trials -> TrialShape] /\ trial'[t].pc = pc
  /\ \A u \in Trials \ {t} : trial'[u].pc = trial[u].pc

\* A move of a thread is such a step.
LEMMA GoSteps ==
  ASSUME Shapes, NEW t \in Trials, NEW pc \in Places, Go(t, pc)
  PROVE  Steps(t, pc)
BY DEF Shapes, TrialShape, Go, Steps

\* A thread that stays on this side of its answer leaves the locks in order.
LEMMA LockStays ==
  ASSUME GateInv, NEW t \in Trials, NEW pc, Steps(t, pc), UNCHANGED gate,
         t \in Gated => (trial[t].pc \in Carrying <=> pc \in Carrying)
  PROVE  GateInv'
<1>1. \A u \in Gated : trial'[u].pc \in Carrying <=> trial[u].pc \in Carrying
  BY DEF Steps, Gated
<1> QED BY <1>1 DEF GateInv

\* So does one that takes a free lock and sets out.
LEMMA LockTaken ==
  ASSUME GateInv, NEW t \in Gated, NEW pc \in Carrying, Steps(t, pc),
         gate.holder[Model[t]] = Nobody, Lock(t)
  PROVE  GateInv'
<1>1. Model[t] \in Models /\ t \in Trials /\ t # Nobody
  BY CampaignAssumption DEF Models, Gated
<1>2. /\ gate' \in [stopped : BOOLEAN, holder : [Models -> Trials \cup {Nobody}]]
      /\ gate'.holder[Model[t]] = t
      /\ \A m \in Models \ {Model[t]} : gate'.holder[m] = gate.holder[m]
  BY <1>1 DEF Lock, GateInv
<1>3. \A u \in Gated : u \in Trials /\ Model[u] \in Models
  BY DEF Gated, Models
<1>4. ASSUME NEW u \in Gated \ {t}, trial'[u].pc \in Carrying
      PROVE  gate'.holder[Model[u]] = u
  <2>1. gate.holder[Model[u]] = u
    BY <1>3, <1>4 DEF Steps, GateInv
  <2>2. Model[u] # Model[t]
    BY <1>3, <2>1, CampaignAssumption
  <2> QED BY <1>2, <1>3, <2>1, <2>2
<1>5. ASSUME NEW m \in Models, gate'.holder[m] # Nobody
      PROVE  LET u == gate'.holder[m]
             IN u \in Gated /\ Model[u] = m /\ trial'[u].pc \in Carrying
  <2>1. CASE m = Model[t]
    BY <1>2, <2>1 DEF Steps
  <2>2. CASE m # Model[t]
    <3>1. gate'.holder[m] = gate.holder[m]
      BY <1>2, <2>2
    <3>2. LET u == gate.holder[m] IN u \in Gated /\ Model[u] = m /\ trial[u].pc \in Carrying
      BY <1>5, <3>1 DEF GateInv
    <3> QED BY <1>3, <2>2, <3>1, <3>2 DEF Steps
  <2> QED BY <2>1, <2>2
<1> QED BY <1>2, <1>4, <1>5 DEF GateInv, Steps

\* And one that has its answer, or failed on its way, and lets its lock go.
LEMMA LockLet ==
  ASSUME GateInv, NEW t \in Gated, NEW pc, pc \notin Carrying, Steps(t, pc),
         trial[t].pc \in Carrying,
         gate' \in [stopped : BOOLEAN, holder : [Models -> Trials \cup {Nobody}]],
         gate'.holder[Model[t]] = Nobody,
         \A m \in Models \ {Model[t]} : gate'.holder[m] = gate.holder[m]
  PROVE  GateInv'
<1>1. Model[t] \in Models /\ t \in Trials
  BY DEF Models, Gated
<1>2. \A u \in Gated : u \in Trials /\ Model[u] \in Models
  BY DEF Gated, Models
<1>3. gate.holder[Model[t]] = t
  BY DEF GateInv
<1>4. ASSUME NEW u \in Gated, trial'[u].pc \in Carrying
      PROVE  gate'.holder[Model[u]] = u
  <2>1. u # t
    BY <1>4 DEF Steps
  <2>2. gate.holder[Model[u]] = u
    BY <1>2, <1>4, <2>1 DEF Steps, GateInv
  <2>3. Model[u] # Model[t]
    BY <1>3, <2>1, <2>2
  <2> QED BY <1>2, <2>2, <2>3
<1>5. ASSUME NEW m \in Models, gate'.holder[m] # Nobody
      PROVE  LET u == gate'.holder[m]
             IN u \in Gated /\ Model[u] = m /\ trial'[u].pc \in Carrying
  <2>1. m # Model[t] /\ gate'.holder[m] = gate.holder[m]
    BY <1>5
  <2>2. LET u == gate.holder[m] IN u \in Gated /\ Model[u] = m /\ trial[u].pc \in Carrying
    BY <1>5, <2>1 DEF GateInv
  <2> QED BY <1>2, <2>1, <2>2 DEF Steps
<1> QED BY <1>4, <1>5 DEF GateInv

\* Unlock lets go of the lock of a thread that has one.
LEMMA UnlockLets ==
  ASSUME GateInv, NEW t \in Trials, NEW pc, pc \notin Carrying, Steps(t, pc),
         trial[t].pc \in Carrying, Unlock(t)
  PROVE  GateInv'
<1>1. CASE t \in Gated
  <2>1. Model[t] \in Models
    BY <1>1 DEF Models
  <2>2. /\ gate' \in [stopped : BOOLEAN, holder : [Models -> Trials \cup {Nobody}]]
        /\ gate'.holder[Model[t]] = Nobody
        /\ \A m \in Models \ {Model[t]} : gate'.holder[m] = gate.holder[m]
    BY <1>1, <2>1 DEF Unlock, GateInv
  <2> QED BY <1>1, <2>2, LockLet
<1>2. CASE t \notin Gated
  BY <1>2, LockStays DEF Unlock
<1> QED BY <1>1, <1>2

\* An event of the journal breaks it exactly when it ends the request.
LEMMA EventBreaks ==
  ASSUME Shapes, ledger \in LedgerSet, NEW t \in Trials, NEW book, NEW then \in Places,
         ~ledger.broken, Event(t, book, then)
  PROVE  \/ ~ledger'.broken /\ Steps(t, then)
         \/ ledger'.broken /\ Steps(t, "closing")
<1>1. PICK outcome \in Outcomes :
        /\ ledger' = Appended(ledger, book, outcome)
        /\ Go(t, IF outcome = "durable" THEN then ELSE "closing")
  BY DEF Event
<1>2. "closing" \in Places
  BY DEF Places
<1>3. CASE outcome = "durable"
  <2>1. ledger'.broken = ledger.broken
    BY <1>1, <1>3 DEF Appended, LedgerSet
  <2> QED BY <1>1, <1>3, <2>1, GoSteps
<1>4. CASE outcome # "durable"
  <2>1. ledger'.broken = TRUE
    BY <1>1, <1>4 DEF Appended, LedgerSet
  <2> QED BY <1>1, <1>2, <1>4, <2>1, GoSteps
<1> QED BY <1>3, <1>4

\* A thread that is not on its way and does not set out leaves the gate alone.
LEMMA OutsideKeeps ==
  ASSUME GateInv, Shapes, NEW t \in Trials, NEW pc \in Places \ Carrying, Go(t, pc),
         UNCHANGED gate, trial[t].pc \notin Carrying
  PROVE  GateInv'
BY GoSteps, LockStays

\* What a step of a thread is to its lock: it stays outside, passes the gate, or is
\* on its way and goes on, or lets its lock go.
LEMMA GateWorker ==
  ASSUME GateInv, Shapes, ledger \in LedgerSet, NEW t \in Trials, Worker(t)
  PROVE  GateInv'
<1> USE DEF Places, Playing, Carrying
<1>1. CASE \/ Reconcile(t) \/ Interrupted(t) \/ Defer(t)
  BY <1>1, OutsideKeeps DEF Reconcile, Interrupted, Defer, Fresh, IsNext, At
<1>2. CASE Assign(t) \/ Close(t)
  BY <1>2, OutsideKeeps DEF Assign, Close, Write, Fresh, IsNext, At
<1>3. CASE Bind(t) \/ EpisodeEnds(t) \/ Reserve(t)
  BY <1>3, OutsideKeeps DEF Bind, EpisodeEnds, Reserve, Event, At
<1>4. CASE Settle(t) \/ Forfeit(t) \/ Barred(t)
  BY <1>4, OutsideKeeps DEF Settle, Forfeit, Barred, Event, At
<1>5. CASE Archive(t) \/ ArchiveFails(t)
  BY <1>5, OutsideKeeps DEF Archive, ArchiveFails, At
<1>6. CASE Unassign(t)
  BY <1>6 DEF Unassign, GateInv
<1>7. CASE PassGate(t)
  <2>1. trial[t].pc = "reserved"
    BY <1>7 DEF PassGate, At
  <2>2. CASE t \in Gated /\ ~gate.stopped
    <3>1. Steps(t, "gated") /\ Lock(t) /\ gate.holder[Model[t]] = Nobody
      BY <1>7, <2>2, GoSteps DEF PassGate
    <3> QED BY <2>2, <3>1, LockTaken
  <2>3. CASE t \in Gated /\ gate.stopped
    BY <1>7, <2>1, <2>3, OutsideKeeps DEF PassGate
  <2>4. CASE t \notin Gated
    BY <1>7, <2>4, GoSteps, LockStays DEF PassGate
  <2> QED BY <2>2, <2>3, <2>4
<1>8. ASSUME NEW extra \in Supplements, Dispatch(t, extra) PROVE GateInv'
  <2>1. trial[t].pc = "gated"
    BY <1>8 DEF Dispatch, At
  <2>2. CASE ledger.broken \/ ~Fits(Dispatched(ledger.book, t, extra))
    BY <1>8, <2>1, <2>2, GoSteps, UnlockLets DEF Dispatch
  <2>3. CASE ~ledger.broken /\ Fits(Dispatched(ledger.book, t, extra))
    <3>1. /\ Event(t, Dispatched(ledger.book, t, extra), "dispatched")
          /\ IF ledger'.broken THEN Unlock(t) ELSE UNCHANGED gate
      BY <1>8, <2>3 DEF Dispatch
    <3>2. \/ ~ledger'.broken /\ Steps(t, "dispatched")
          \/ ledger'.broken /\ Steps(t, "closing")
      BY <2>3, <3>1, EventBreaks
    <3> QED BY <2>1, <3>1, <3>2, LockStays, UnlockLets
  <2> QED BY <2>2, <2>3
<1>9. CASE Announce(t)
  <2>1. /\ trial[t].pc = "dispatched"
        /\ IF ledger'.broken THEN Unlock(t) ELSE UNCHANGED gate
    BY <1>9 DEF Announce, At
  <2>2. CASE ~ledger.broken /\ Event(t, Announced(ledger.book, t), "announced")
    <3>1. \/ ~ledger'.broken /\ Steps(t, "announced")
          \/ ledger'.broken /\ Steps(t, "closing")
      BY <2>2, EventBreaks
    <3> QED BY <2>1, <3>1, LockStays, UnlockLets
  <2>3. CASE ledger.broken /\ Go(t, "failing") /\ UNCHANGED ledger
    BY <2>1, <2>3, GoSteps, UnlockLets
  <2> QED BY <1>9, <2>2, <2>3 DEF Announce
<1>10. CASE ObserverFails(t)
  BY <1>10, GoSteps, UnlockLets DEF ObserverFails, At
<1>11. ASSUME NEW bill \in Bills[t], Transmit(t, bill) PROVE GateInv'
  <2>1. trial[t].pc = "announced" /\ UNCHANGED gate
    BY <1>11 DEF Transmit, At
  <2>2. bill \in Nat
    BY CampaignAssumption
  <2>3. trial' = [trial EXCEPT ![t].pc = "flight", ![t].bill = bill, ![t].sent = @ + 1]
    BY <1>11 DEF Transmit
  <2>4. Steps(t, "flight")
    BY <2>2, <2>3 DEF Shapes, TrialShape, Steps
  <2> QED BY <2>1, <2>4, LockStays
<1>12. CASE Answered(t)
  BY <1>12, GoSteps, UnlockLets DEF Answered, At
<1>13. CASE Unanswered(t)
  <2>1. trial[t].pc = "flight" /\ Steps(t, "failing")
    BY <1>13, GoSteps DEF Unanswered, At
  <2>2. PICK stops \in BOOLEAN :
          /\ stops => t \in Gated
          /\ gate' = [gate EXCEPT !.stopped = @ \/ stops,
                        !.holder = [m \in Models |-> IF m = Model[t] THEN Nobody ELSE @[m]]]
    BY <1>13 DEF Unanswered
  <2>3. /\ gate' \in [stopped : BOOLEAN, holder : [Models -> Trials \cup {Nobody}]]
        /\ \A m \in Models : gate'.holder[m] = IF m = Model[t] THEN Nobody ELSE gate.holder[m]
    BY <2>2 DEF GateInv
  <2>4. CASE t \in Gated
    <3>1. Model[t] \in Models
      BY <2>4 DEF Models
    <3> QED BY <2>1, <2>3, <2>4, <3>1, LockLet
  <2>5. CASE t \notin Gated
    <3>1. Model[t] \notin Models
      BY <2>5 DEF Gated, Models
    <3>2. \A m \in Models : gate'.holder[m] = gate.holder[m]
      BY <2>3, <3>1
    <3>3. gate'.stopped = gate.stopped
      BY <2>2, <2>5 DEF GateInv
    <3>4. gate' = gate
      BY <2>3, <3>2, <3>3 DEF GateInv
    <3> QED BY <2>1, <2>5, <3>4, LockStays
  <2> QED BY <2>4, <2>5
<1> QED
  BY <1>1, <1>2, <1>3, <1>4, <1>5, <1>6, <1>7, <1>8, <1>9, <1>10, <1>11, <1>12, <1>13
  DEF Worker

\* A new process has no locks.
LEMMA GateOpens ==
  ASSUME gate' = OpenGate, \A u \in Trials : trial'[u].pc = "queued"
  PROVE  GateInv'
<1>1. /\ gate' \in [stopped : BOOLEAN, holder : [Models -> Trials \cup {Nobody}]]
      /\ \A m \in Models : gate'.holder[m] = Nobody
  BY DEF OpenGate
<1>2. \A u \in Gated : trial'[u].pc \notin Carrying
  BY DEF Gated, Carrying
<1> QED BY <1>1, <1>2 DEF GateInv

\* Every step keeps the locks in order.
LEMMA GateKept == GateInv /\ MoneyInv /\ [Next]_vars => GateInv'
<1> SUFFICES ASSUME GateInv, MoneyInv, [Next]_vars PROVE GateInv'
  OBVIOUS
<1>1. Shapes /\ ledger \in LedgerSet
  BY DEF MoneyInv, PlayInv, Types
<1>2. ASSUME NEW t \in Trials, Worker(t) PROVE GateInv'
  BY <1>1, <1>2, GateWorker
<1>3. CASE Crash \/ Resume
  BY <1>3, GateOpens DEF Crash, Resume, Forget, NewTrial
<1>4. CASE Conclude \/ Started \/ \E t \in Trials : Recover(t)
  BY <1>4 DEF Conclude, Started, Recover, GateInv
<1>5. CASE UNCHANGED vars
  BY <1>5 DEF vars, GateInv
<1> QED BY <1>2, <1>3, <1>4, <1>5 DEF Next, Work

\* At any moment one request of a model behind the gate is on its way at most, and
\* a thread that waits for its model's lock waits for one that is on its way and
\* waits for none: there is no circle to break.
GateIsSerial ==
  /\ \A t, u \in Gated :
       /\ Model[t] = Model[u]
       /\ trial[t].pc \in Carrying /\ trial[u].pc \in Carrying
       => t = u
  /\ \A t \in Gated :
       trial[t].pc = "reserved" /\ gate.holder[Model[t]] # Nobody =>
         \E u \in Gated \ {t} : /\ Model[u] = Model[t] /\ gate.holder[Model[t]] = u
                                /\ trial[u].pc \in Carrying

\* Whichever requests fail, wherever the journal breaks and whoever stops the gate,
\* every way out of MetaRatePacer.call lets the lock go, so requests of a model go
\* one at a time and no thread waits for a lock that nobody will let go.
THEOREM GateStaysSerial == Spec => []GateIsSerial
<1>1. Init => GateInv
  <2>1. Init => /\ gate = OpenGate /\ \A u \in Trials : trial[u].pc = "queued"
    BY DEF Init, NewTrial
  <2>2. OpenGate \in [stopped : BOOLEAN, holder : [Models -> Trials \cup {Nobody}]]
    BY DEF OpenGate
  <2>3. \A m \in Models : OpenGate.holder[m] = Nobody
    BY DEF OpenGate
  <2> QED BY <2>1, <2>2, <2>3 DEF GateInv, Gated, Carrying
<1>2. GateInv => GateIsSerial
  <2> SUFFICES ASSUME GateInv PROVE GateIsSerial
    OBVIOUS
  <2>1. \A t \in Gated : Model[t] \in Models
    BY DEF Models
  <2> QED BY <2>1 DEF GateInv, GateIsSerial, Carrying
<1> QED
  BY <1>1, <1>2, GateKept, MoneyInvInit, MoneyKept, PTL DEF Spec
=============================================================================

-------------------------- MODULE AuditBudgetProofs --------------------------
(***************************************************************************)
(* What the audit budget owes whoever counts with it, for any declaration, *)
(* any number of transitions and batches of any length.                    *)
(*                                                                         *)
(* The invariant is the integrity check itself, strengthened by what a     *)
(* reservation promises (Fits). A commit keeps it because its rows and the *)
(* intents it staged are one for one: rows of later batches stand later    *)
(* (RowsInOrder), so they take as many positions as there are, which are   *)
(* all of the next ones (RowsTakeTheNext). The account is implemented step *)
(* by step: only a commit charges, and a halt or the end closes it.        *)
(***************************************************************************)
EXTENDS AuditBudget, SumProofs

\* A batch, a transition under way and a committed row.
BatchSet == [source : Sources, intents : Seq(Intents), next : Nat]
ActiveSet == [transition : Transitions, batches : Seq(BatchSet), reexecution : BOOLEAN]
RowSet == [intent : Intents, source : Sources, transition : Transitions,
           ordinal : Nat, position : Int]

-----------------------------------------------------------------------------
(* The batches of a transition.                                              *)

\* Batches and intents are numbered from one, and a batch's size is its length.
LEMMA BatchShape ==
  ASSUME NEW a \in ActiveSet
  PROVE  /\ Len(a.batches) \in Nat /\ DOMAIN a.batches = 1 .. Len(a.batches)
         /\ \A k \in DOMAIN a.batches :
              LET b == a.batches[k]
              IN /\ b \in BatchSet /\ Len(b.intents) \in Nat
                 /\ DOMAIN b.intents = 1 .. Len(b.intents)
                 /\ \A i \in DOMAIN b.intents : b.intents[i] \in Intents
                 /\ Sizes(a.batches)[k] = Len(b.intents)
         /\ IsFiniteSet(DOMAIN a.batches)
         /\ \A k \in DOMAIN a.batches : Sizes(a.batches)[k] \in Nat
<1>1. a.batches \in Seq(BatchSet)
  BY DEF ActiveSet
<1>2. Len(a.batches) \in Nat /\ DOMAIN a.batches = 1 .. Len(a.batches)
  BY <1>1
<1>3. \A k \in DOMAIN a.batches : a.batches[k] \in BatchSet
  BY <1>1
<1>4. \A k \in DOMAIN a.batches : a.batches[k].intents \in Seq(Intents)
  BY <1>3 DEF BatchSet
<1>5. IsFiniteSet(DOMAIN a.batches)
  BY <1>2, FS_Interval
<1>6. \A q \in Seq(Intents) :
        /\ Len(q) \in Nat /\ DOMAIN q = 1 .. Len(q) /\ \A i \in DOMAIN q : q[i] \in Intents
  OBVIOUS
<1> QED BY <1>2, <1>3, <1>4, <1>5, <1>6 DEF Sizes

\* What some of the batches hold is a natural number, and no more than all hold.
LEMMA StagedInType ==
  ASSUME NEW a \in ActiveSet, NEW K \in SUBSET DOMAIN a.batches
  PROVE  /\ StagedIn(a.batches, K) \in Nat /\ IsFiniteSet(K)
         /\ \A J \in SUBSET K : StagedIn(a.batches, J) <= StagedIn(a.batches, K)
<1>1. IsFiniteSet(K) /\ \A k \in K : Sizes(a.batches)[k] \in Nat
  BY BatchShape, FS_Subset
<1>2. SumFunctionOnSet(Sizes(a.batches), K) \in Nat
  BY <1>1, SumIsNatural
<1>3. \A J \in SUBSET K :
        SumFunctionOnSet(Sizes(a.batches), J) <= SumFunctionOnSet(Sizes(a.batches), K)
  BY <1>1, SumOfPart
<1> QED BY <1>1, <1>2, <1>3 DEF StagedIn

\* The rows of a batch come after those of the batches before it.
LEMMA StagedUpTo ==
  ASSUME NEW a \in ActiveSet, NEW k \in DOMAIN a.batches
  PROVE  /\ StagedIn(a.batches, 1 .. (k - 1)) \in Nat
         /\ StagedIn(a.batches, 1 .. k) =
              StagedIn(a.batches, 1 .. (k - 1)) + Len(a.batches[k].intents)
         /\ StagedIn(a.batches, 1 .. k) <= Staged(a.batches)
         /\ Staged(a.batches) \in Nat
         /\ \A j \in DOMAIN a.batches : j < k =>
              StagedIn(a.batches, 1 .. j) <= StagedIn(a.batches, 1 .. (k - 1))
<1> DEFINE sz == Sizes(a.batches)
           n == Len(a.batches)
<1>1. n \in Nat /\ k \in 1 .. n /\ DOMAIN a.batches = 1 .. n
  BY BatchShape
<1>2. \A j \in 1 .. n : sz[j] \in Nat
  BY <1>1, BatchShape
<1> HIDE DEF sz, n
<1>3. /\ 1 .. k \in SUBSET (1 .. n) /\ 1 .. (k - 1) \in SUBSET (1 .. n)
      /\ \A j \in 1 .. n : j < k => 1 .. j \in SUBSET (1 .. (k - 1))
      /\ k - 1 \in Nat /\ (k - 1) + 1 = k
  BY <1>1
<1>4. SumFunctionOnSet(sz, 1 .. k) = SumFunctionOnSet(sz, 1 .. (k - 1)) + sz[k]
  <2> DEFINE m == k - 1
  <2>1. m \in Nat /\ m + 1 = k
    BY <1>3
  <2>2. (\A i \in 1 .. m : sz[i] \in Nat /\ sz[i] = sz[i]) /\ sz[m + 1] \in Nat
    BY <1>1, <1>2, <2>1
  <2> HIDE DEF m
  <2>3. SumFunctionOnSet(sz, 1 .. m + 1) = SumFunctionOnSet(sz, 1 .. m) + sz[m + 1]
    BY <2>1, <2>2, SumGrows
  <2> QED BY <2>1, <2>3 DEF m
<1>5. sz[k] = Len(a.batches[k].intents)
  BY BatchShape DEF sz
<1>6. /\ StagedIn(a.batches, 1 .. (k - 1)) \in Nat
      /\ \A j \in 1 .. n : j < k =>
           StagedIn(a.batches, 1 .. j) <= StagedIn(a.batches, 1 .. (k - 1))
  BY <1>1, <1>3, StagedInType
<1>7. /\ StagedIn(a.batches, 1 .. k) <= StagedIn(a.batches, 1 .. n)
      /\ StagedIn(a.batches, 1 .. n) \in Nat
  BY <1>1, <1>3, StagedInType
<1>8. StagedIn(a.batches, 1 .. k) = StagedIn(a.batches, 1 .. (k - 1)) + sz[k]
  BY <1>4 DEF StagedIn, sz
<1> QED BY <1>1, <1>5, <1>6, <1>7, <1>8 DEF Staged

-----------------------------------------------------------------------------
(* The rows a commit writes.                                                 *)

\* The rows of some of the batches.
RowsIn(a, before, K) ==
  UNION {{Row(a, before, k, i) : i \in DOMAIN a.batches[k].intents} : k \in K}

\* What a row says.
LEMMA RowSays ==
  ASSUME NEW a \in ActiveSet, NEW before \in Nat,
         NEW k \in DOMAIN a.batches, NEW i \in DOMAIN a.batches[k].intents
  PROVE  LET r == Row(a, before, k, i) IN
         /\ r \in RowSet
         /\ r.intent = a.batches[k].intents[i] /\ r.source = a.batches[k].source
         /\ r.transition = a.transition /\ r.ordinal = i - 1
         /\ r.position = before + StagedIn(a.batches, 1 .. (k - 1)) + i
<1>1. /\ a.batches[k].intents[i] \in Intents /\ a.batches[k].source \in Sources
      /\ i \in Nat /\ i >= 1
  BY BatchShape DEF BatchSet
<1>2. StagedIn(a.batches, 1 .. (k - 1)) \in Nat
  BY StagedUpTo
<1>3. a.transition \in Transitions
  BY DEF ActiveSet
<1>4. i - 1 \in Nat /\ before + StagedIn(a.batches, 1 .. (k - 1)) + i \in Int
  BY <1>1, <1>2
<1> QED BY <1>1, <1>3, <1>4 DEF Row, RowSet

\* Rows are numbered as batches are reserved and intents are named in them.
LEMMA RowsInOrder ==
  ASSUME NEW a \in ActiveSet, NEW before \in Nat,
         NEW k \in DOMAIN a.batches, NEW i \in DOMAIN a.batches[k].intents,
         NEW l \in DOMAIN a.batches, NEW j \in DOMAIN a.batches[l].intents
  PROVE  /\ k < l => Row(a, before, k, i).position < Row(a, before, l, j).position
         /\ k = l => (Row(a, before, k, i).position < Row(a, before, l, j).position <=> i < j)
         /\ Row(a, before, k, i).position \in (before + 1) .. (before + Staged(a.batches))
<1> DEFINE p(m) == StagedIn(a.batches, 1 .. (m - 1))
           q(m) == StagedIn(a.batches, 1 .. m)
<1>1. /\ k \in Int /\ l \in Int /\ i \in 1 .. Len(a.batches[k].intents) /\ j \in Nat /\ j >= 1
      /\ Len(a.batches[k].intents) \in Nat
  BY BatchShape
<1>2. /\ p(k) \in Nat /\ p(l) \in Nat /\ q(k) = p(k) + Len(a.batches[k].intents)
      /\ q(k) <= Staged(a.batches) /\ Staged(a.batches) \in Nat
      /\ k < l => q(k) <= p(l)
  BY StagedUpTo
<1>3. /\ Row(a, before, k, i).position = before + p(k) + i
      /\ Row(a, before, l, j).position = before + p(l) + j
  BY RowSays
<1> HIDE DEF p, q
<1>4. k < l => before + p(k) + i < before + p(l) + j
  BY <1>1, <1>2, SMTT(20)
<1>5. k = l => (before + p(k) + i < before + p(l) + j <=> i < j)
  BY <1>1, <1>2, SMTT(20)
<1>6. before + p(k) + i \in (before + 1) .. (before + Staged(a.batches))
  BY <1>1, <1>2, SMTT(20)
<1> QED BY <1>3, <1>4, <1>5, <1>6

\* No two rows of a commit name the same intent.
LEMMA RowsNameOnce ==
  ASSUME NEW a \in ActiveSet, NEW before \in Nat, NEW ids, ActiveValid(a, ids),
         NEW k \in DOMAIN a.batches, NEW i \in DOMAIN a.batches[k].intents,
         NEW l \in DOMAIN a.batches, NEW j \in DOMAIN a.batches[l].intents,
         a.batches[k].intents[i] = a.batches[l].intents[j]
  PROVE  k = l /\ i = j
<1>1. CASE k # l
  <2>1. /\ a.batches[k].intents[i] \in Range(a.batches[k].intents)
        /\ a.batches[k].intents[i] \in Range(a.batches[l].intents)
    BY DEF Range
  <2>2. Range(a.batches[k].intents) \cap Range(a.batches[l].intents) = {}
    BY <1>1 DEF ActiveValid
  <2> QED BY <2>1, <2>2
<1>2. CASE k = l
  <2>1. a.batches[k] \in Range(a.batches)
    BY DEF Range
  <2>2. IsInjective(a.batches[k].intents)
    BY <2>1 DEF ActiveValid
  <2> QED BY <1>2, <2>2 DEF IsInjective
<1> QED BY <1>1, <1>2

\* So there are as many rows as intents staged, and as many intents.
LEMMA RowsCount ==
  ASSUME NEW a \in ActiveSet, NEW before \in Nat, NEW ids, ActiveValid(a, ids),
         NEW K \in SUBSET DOMAIN a.batches
  PROVE  /\ IsFiniteSet(RowsIn(a, before, K))
         /\ Cardinality(RowsIn(a, before, K)) = StagedIn(a.batches, K)
         /\ IsFiniteSet(CommittedIntents(RowsIn(a, before, K)))
         /\ Cardinality(CommittedIntents(RowsIn(a, before, K))) = StagedIn(a.batches, K)
<1> DEFINE U == Units(Sizes(a.batches), K)
           R == RowsIn(a, before, K)
           I == CommittedIntents(R)
           f == [u \in U |-> Row(a, before, u[1], u[2])]
           g == [r \in R |-> r.intent]
<1>1. \A k \in K : Sizes(a.batches)[k] \in Nat /\ DOMAIN a.batches[k].intents = 1 .. Sizes(a.batches)[k]
  BY BatchShape
<1>2. IsFiniteSet(K)
  BY StagedInType
<1>3. IsFiniteSet(U) /\ Cardinality(U) = StagedIn(a.batches, K)
  BY <1>1, <1>2, UnitsFinite, SumIsCount DEF StagedIn
<1>4. \A u \in U : /\ u[1] \in K /\ u[2] \in DOMAIN a.batches[u[1]].intents
                   /\ u = <<u[1], u[2]>>
  BY <1>1 DEF Units
<1>5. \A k \in K : \A i \in DOMAIN a.batches[k].intents : <<k, i>> \in U
  BY <1>1 DEF Units
<1>6. \A k \in K : \A i \in DOMAIN a.batches[k].intents :
        Row(a, before, k, i).intent = a.batches[k].intents[i]
  BY RowSays
<1> HIDE DEF U
<1>7. f \in Bijection(U, R)
  <2>1. \A u \in U : f[u] \in R
    BY <1>4 DEF RowsIn
  <2>2. ASSUME NEW u \in U, NEW v \in U, f[u] = f[v] PROVE u = v
    <3>1. a.batches[u[1]].intents[u[2]] = a.batches[v[1]].intents[v[2]]
      BY <1>4, <1>6, <2>2
    <3>2. u[1] = v[1] /\ u[2] = v[2]
      BY <1>4, <3>1, RowsNameOnce
    <3> QED BY <1>4, <3>2
  <2>3. ASSUME NEW r \in R PROVE \E u \in U : f[u] = r
    <3>1. PICK k \in K : \E i \in DOMAIN a.batches[k].intents : r = Row(a, before, k, i)
      BY <2>3 DEF RowsIn
    <3>2. PICK i \in DOMAIN a.batches[k].intents : r = Row(a, before, k, i)
      BY <3>1
    <3>3. <<k, i>> \in U /\ f[<<k, i>>] = r
      BY <1>5, <3>2
    <3> QED BY <3>3
  <2>4. f \in [U -> R]
    BY <2>1
  <2>5. f \in Injection(U, R)
    BY <2>2, <2>4 DEF Injection, IsInjective
  <2>6. f \in Surjection(U, R)
    BY <2>3, <2>4 DEF Surjection
  <2> QED BY <2>5, <2>6 DEF Bijection
<1>8. ASSUME NEW r \in R, NEW x \in R, r.intent = x.intent PROVE r = x
  <2>1. PICK k \in K : \E i \in DOMAIN a.batches[k].intents : r = Row(a, before, k, i)
    BY <1>8 DEF RowsIn
  <2>2. PICK i \in DOMAIN a.batches[k].intents : r = Row(a, before, k, i)
    BY <2>1
  <2>3. PICK l \in K : \E j \in DOMAIN a.batches[l].intents : x = Row(a, before, l, j)
    BY <1>8 DEF RowsIn
  <2>4. PICK j \in DOMAIN a.batches[l].intents : x = Row(a, before, l, j)
    BY <2>3
  <2>5. a.batches[k].intents[i] = a.batches[l].intents[j]
    BY <1>6, <1>8, <2>2, <2>4
  <2>6. k = l /\ i = j
    BY <2>5, RowsNameOnce
  <2> QED BY <2>2, <2>4, <2>6
<1> HIDE DEF R, f
<1>9. g \in Bijection(R, I)
  <2>1. g \in [R -> I] /\ \A y \in I : \E r \in R : g[r] = y
    BY DEF CommittedIntents
  <2>2. g \in Injection(R, I)
    BY <1>8, <2>1 DEF Injection, IsInjective
  <2>3. g \in Surjection(R, I)
    BY <2>1 DEF Surjection
  <2> QED BY <2>2, <2>3 DEF Bijection
<1>10. IsFiniteSet(R) /\ Cardinality(R) = Cardinality(U)
  <2>1. ExistsBijection(U, R)
    BY <1>7 DEF ExistsBijection
  <2> QED BY <1>3, <2>1, FS_Bijection
<1>11. IsFiniteSet(I) /\ Cardinality(I) = Cardinality(R)
  <2>1. ExistsBijection(R, I)
    BY <1>9 DEF ExistsBijection
  <2> HIDE DEF I
  <2> QED BY <1>10, <2>1, FS_Bijection
<1> QED BY <1>3, <1>10, <1>11 DEF R

\* A row of a commit is the row of one intent of one batch.
LEMMA RowOfBatch ==
  ASSUME NEW a \in ActiveSet, NEW before, NEW K \in SUBSET DOMAIN a.batches, NEW r
  PROVE  r \in RowsIn(a, before, K) <=>
           \E k \in K : \E i \in DOMAIN a.batches[k].intents : r = Row(a, before, k, i)
BY DEF RowsIn

\* The rows of a commit take the next positions, each one.
LEMMA RowsTakeTheNext ==
  ASSUME NEW a \in ActiveSet, NEW before \in Nat, NEW ids, ActiveValid(a, ids)
  PROVE  {r.position : r \in RowsOf(a, before)} = (before + 1) .. (before + Staged(a.batches))
<1> DEFINE R == RowsIn(a, before, DOMAIN a.batches)
           P == (before + 1) .. (before + Staged(a.batches))
           f == [r \in R |-> r.position]
<1>0. R = RowsOf(a, before)
  BY DEF RowsIn, RowsOf
<1>1. \A r \in R : \E k \in DOMAIN a.batches : \E i \in DOMAIN a.batches[k].intents :
                     r = Row(a, before, k, i)
  BY RowOfBatch
<1>2. IsFiniteSet(R) /\ Cardinality(R) = Staged(a.batches)
  BY RowsCount DEF Staged
<1> HIDE DEF R
<1>3. \A r \in R : r.position \in P
  BY <1>1, RowsInOrder
<1>4. ASSUME NEW r \in R, NEW x \in R, r.position = x.position PROVE r = x
  <2>1. PICK k \in DOMAIN a.batches : \E i \in DOMAIN a.batches[k].intents : r = Row(a, before, k, i)
    BY <1>1
  <2>2. PICK i \in DOMAIN a.batches[k].intents : r = Row(a, before, k, i)
    BY <2>1
  <2>3. PICK l \in DOMAIN a.batches : \E j \in DOMAIN a.batches[l].intents : x = Row(a, before, l, j)
    BY <1>1
  <2>4. PICK j \in DOMAIN a.batches[l].intents : x = Row(a, before, l, j)
    BY <2>3
  <2>5. /\ k \in Int /\ l \in Int /\ i \in Int /\ j \in Int
    BY BatchShape
  <2>6. /\ r.position \in Int /\ x.position \in Int
    BY <2>2, <2>4, RowSays DEF RowSet
  <2>7. ~(k < l) /\ ~(l < k)
    BY <1>4, <2>2, <2>4, <2>6, RowsInOrder
  <2>8. k = l
    BY <2>5, <2>7
  <2>9. ~(i < j) /\ ~(j < i)
    BY <1>4, <2>2, <2>4, <2>6, <2>8, RowsInOrder
  <2>10. i = j
    BY <2>5, <2>9
  <2> QED BY <2>2, <2>4, <2>8, <2>10
<1>5. Staged(a.batches) \in Nat
  BY StagedInType DEF Staged
<1>6. IsFiniteSet(P) /\ Cardinality(P) = Staged(a.batches)
  <2> DEFINE m == Staged(a.batches)
  <2>1. m \in Nat
    BY <1>5
  <2> HIDE DEF m
  <2>2. IsFiniteSet((before + 1) .. (before + m)) /\ Cardinality((before + 1) .. (before + m)) = m
    BY <2>1, FS_Interval
  <2> QED BY <2>2 DEF m
<1> HIDE DEF P
<1>7. f \in Injection(R, P)
  BY <1>3, <1>4 DEF Injection, IsInjective
<1>8. f \in Surjection(R, P)
  BY <1>2, <1>6, <1>7, FS_Injection
<1>9. \A p \in P : \E r \in R : r.position = p
  BY <1>8 DEF Surjection
<1>10. {r.position : r \in R} = P
  BY <1>3, <1>9
<1> QED BY <1>0, <1>10 DEF P

-----------------------------------------------------------------------------
(* The invariant.                                                            *)

\* What the runtime's state is made of.
Typed(st) ==
  /\ st = [rows |-> st.rows, count |-> st.count, ids |-> st.ids,
           transitions |-> st.transitions, counts |-> st.counts,
           occurrences |-> st.occurrences, final |-> st.final, halt |-> st.halt,
           active |-> st.active]
  /\ st.rows \in SUBSET RowSet /\ IsFiniteSet(st.rows)
  /\ st.count \in Nat /\ st.final \in BOOLEAN
  /\ st.counts \in [Sources -> Nat] /\ st.occurrences \in [Sources -> Nat]
  /\ st.active # None => st.active \in ActiveSet

\* What the open transition has reserved fits: nothing of it is committed, a retry
\* reserves nothing, and each batch has its place under its source's limits and
\* all of them under the aggregate.
Fits(st) ==
  st.active # None =>
    LET batches == st.active.batches
    IN /\ st.halt = None /\ ~st.final
       /\ st.active.reexecution = (st.active.transition \in st.transitions)
       /\ st.active.reexecution => batches = <<>>
       /\ st.count + Staged(batches) <= DeclaredMaxEvents
       /\ \A k \in DOMAIN batches :
            LET s == batches[k].source
            IN /\ st.occurrences[s] < MaxOccurrences[s]
               /\ st.counts[s] + Len(batches[k].intents) <= SourceLimit(s)

\* Each step keeps all three: the shape, the place of what is reserved, the check.
BudgetInv == Typed(state) /\ Fits(state) /\ IntegrityValid(state)

\* What of the integrity check is about the history.
History(rows, count, ids, transitions, counts, occurrences) ==
  LET Of(s)       == {r \in rows : r.source = s}
      Group(s, t) == {r \in Of(s) : r.transition = t}
  IN
  /\ count = Cardinality(rows)
  /\ {r.position : r \in rows} = 1 .. count
  /\ Cardinality(CommittedIntents(rows)) = count
  /\ ids = CommittedIntents(rows)
  /\ transitions = {r.transition : r \in rows}
  /\ \A s \in Sources :
       /\ counts[s] = Cardinality(Of(s)) /\ counts[s] <= SourceLimit(s)
       /\ occurrences[s] = Cardinality({r.transition : r \in Of(s)})
       /\ occurrences[s] <= MaxOccurrences[s]
       /\ \A t \in transitions :
            /\ Cardinality(Group(s, t)) <= MaxEvents[s]
            /\ \A r \in Group(s, t) :
                 r.ordinal = Cardinality({x \in Group(s, t) : x.position < r.position})
  /\ count <= DeclaredMaxEvents
\* The same of a state.
HistoryValid(st) ==
  History(st.rows, st.count, st.ids, st.transitions, st.counts, st.occurrences)

\* The rest of the check is about what stands open and about the halt record.
LEMMA IntegritySplit ==
  ASSUME NEW st
  PROVE  IntegrityValid(st) <=>
           /\ HistoryValid(st)
           /\ st.final => st.active = None
           /\ st.halt # None => st.active = None /\ HaltValid(st.halt, st)
           /\ st.active # None => ActiveValid(st.active, st.ids)
BY DEF IntegrityValid, HistoryValid, History

\* A transition that may be committed: it is open and holds a reservation.
Ready(st) ==
  /\ Typed(st) /\ Fits(st) /\ IntegrityValid(st)
  /\ st.active # None /\ st.active.batches # <<>>

\* What is known of it.
LEMMA ReadyHas ==
  ASSUME NEW st, Ready(st)
  PROVE  LET a == st.active IN
         /\ a \in ActiveSet /\ ActiveValid(a, st.ids) /\ HistoryValid(st)
         /\ st.halt = None /\ st.final = FALSE /\ a.transition \notin st.transitions
         /\ 1 \in DOMAIN a.batches
         /\ st.count \in Nat /\ st.rows \in SUBSET RowSet /\ IsFiniteSet(st.rows)
         /\ st.ids = CommittedIntents(st.rows)
         /\ st.transitions = {r.transition : r \in st.rows}
<1>1. st.active \in ActiveSet /\ ActiveValid(st.active, st.ids) /\ HistoryValid(st)
  BY IntegritySplit DEF Ready, Typed
<1>2. st.active.batches # <<>> /\ st.active.batches \in Seq(BatchSet)
  BY <1>1 DEF Ready, ActiveSet
<1>3. 1 \in DOMAIN st.active.batches
  BY <1>2
<1>4. st.halt = None /\ ~st.final /\ st.active.transition \notin st.transitions
  BY <1>2 DEF Ready, Fits, Typed
<1> QED BY <1>1, <1>3, <1>4 DEF HistoryValid, History, Ready, Typed

\* The rows of a commit are new, in what they name and in their transition.
LEMMA RowsAreNew ==
  ASSUME NEW st, Ready(st)
  PROVE  LET R == RowsOf(st.active, st.count) IN
         /\ R \in SUBSET RowSet /\ IsFiniteSet(R) /\ R # {}
         /\ \A r \in R : r.transition = st.active.transition
         /\ CommittedIntents(R) = StagedIntents(st.active.batches)
         /\ CommittedIntents(R) \cap CommittedIntents(st.rows) = {}
         /\ R \cap st.rows = {}
<1> DEFINE a == st.active
           R == RowsIn(a, st.count, DOMAIN a.batches)
<1>0. R = RowsOf(a, st.count)
  BY DEF RowsIn, RowsOf
<1>1. /\ a \in ActiveSet /\ ActiveValid(a, st.ids) /\ st.count \in Nat
      /\ 1 \in DOMAIN a.batches /\ st.ids = CommittedIntents(st.rows)
  BY ReadyHas
<1> HIDE DEF a
<1>2. \A r \in R : \E k \in DOMAIN a.batches : \E i \in DOMAIN a.batches[k].intents :
        r = Row(a, st.count, k, i)
  BY DEF RowsIn
<1>3. \A k \in DOMAIN a.batches : \A i \in DOMAIN a.batches[k].intents :
        Row(a, st.count, k, i) \in R
  BY DEF RowsIn
<1>4. IsFiniteSet(R)
  BY <1>1, RowsCount
<1>5. \A k \in DOMAIN a.batches : \A i \in DOMAIN a.batches[k].intents :
        /\ Row(a, st.count, k, i) \in RowSet
        /\ Row(a, st.count, k, i).intent = a.batches[k].intents[i]
        /\ Row(a, st.count, k, i).transition = a.transition
  BY <1>1, RowSays
<1>6. \A b \in Range(a.batches) : Len(b.intents) >= 1 /\ Range(b.intents) \cap st.ids = {}
  <2> SUFFICES ASSUME NEW b \in Range(a.batches)
               PROVE  Len(b.intents) >= 1 /\ Range(b.intents) \cap st.ids = {}
    OBVIOUS
  <2>1. Len(b.intents) \in 1 .. MaxEvents[b.source] /\ Range(b.intents) \cap st.ids = {}
    BY <1>1 DEF ActiveValid
  <2> QED BY <2>1
<1>7. R # {}
  <2>1. a.batches[1] \in Range(a.batches)
    BY <1>1 DEF Range
  <2>2. DOMAIN a.batches[1].intents = 1 .. Len(a.batches[1].intents) /\ Len(a.batches[1].intents) \in Nat
    BY <1>1, BatchShape
  <2>3. 1 \in DOMAIN a.batches[1].intents
    BY <1>6, <2>1, <2>2
  <2> QED BY <1>1, <1>3, <2>3
<1> HIDE DEF R
<1>8. \A k \in DOMAIN a.batches : a.batches[k] \in Range(a.batches)
  BY DEF Range
<1>9. CommittedIntents(R) = StagedIntents(a.batches)
  <2>1. ASSUME NEW x \in CommittedIntents(R) PROVE x \in StagedIntents(a.batches)
    <3>1. PICK r \in R : x = r.intent
      BY DEF CommittedIntents
    <3>2. PICK k \in DOMAIN a.batches : \E i \in DOMAIN a.batches[k].intents : r = Row(a, st.count, k, i)
      BY <1>2
    <3>3. x \in Range(a.batches[k].intents)
      BY <1>5, <3>1, <3>2 DEF Range
    <3> QED BY <1>8, <3>3 DEF StagedIntents
  <2>2. ASSUME NEW x \in StagedIntents(a.batches) PROVE x \in CommittedIntents(R)
    <3>1. PICK b \in Range(a.batches) : x \in Range(b.intents)
      BY DEF StagedIntents
    <3>2. PICK k \in DOMAIN a.batches : b = a.batches[k]
      BY DEF Range
    <3>3. PICK i \in DOMAIN a.batches[k].intents : x = a.batches[k].intents[i]
      BY <3>1, <3>2 DEF Range
    <3> QED BY <1>3, <1>5, <3>3 DEF CommittedIntents
  <2> QED BY <2>1, <2>2
<1>10. StagedIntents(a.batches) \cap st.ids = {}
  BY <1>6 DEF StagedIntents
<1>11. R \cap st.rows = {}
  <2>1. \A r \in R : r.intent \in CommittedIntents(R)
    BY DEF CommittedIntents
  <2>2. \A r \in st.rows : r.intent \in CommittedIntents(st.rows)
    BY DEF CommittedIntents
  <2> QED BY <1>1, <1>9, <1>10, <2>1, <2>2
<1>12. \A r \in R : r \in RowSet /\ r.transition = a.transition
  BY <1>2, <1>5
<1> QED BY <1>0, <1>1, <1>4, <1>7, <1>9, <1>10, <1>11, <1>12 DEF a

\* A source has one batch in a transition, or none.
LEMMA OneBatchEach ==
  ASSUME NEW a \in ActiveSet, NEW ids, ActiveValid(a, ids), NEW s
  PROVE  LET K == BatchesOf(a.batches, s) IN
         /\ K \in SUBSET DOMAIN a.batches
         /\ K = {} => StagedIn(a.batches, K) = 0 /\ Cardinality(K) = 0
         /\ \A k \in K : /\ K = {k} /\ Cardinality(K) = 1
                         /\ StagedIn(a.batches, K) = Len(a.batches[k].intents)
<1> DEFINE K == BatchesOf(a.batches, s)
<1>1. K \in SUBSET DOMAIN a.batches
  BY DEF BatchesOf
<1>2. ASSUME K = {} PROVE StagedIn(a.batches, K) = 0 /\ Cardinality(K) = 0
  BY <1>2, SumOfNothing, FS_EmptySet DEF StagedIn
<1>3. ASSUME NEW k \in K
      PROVE  /\ K = {k} /\ Cardinality(K) = 1
             /\ StagedIn(a.batches, K) = Len(a.batches[k].intents)
  <2>1. \A j \in K : j = k
    BY <1>1, <1>3 DEF BatchesOf, ActiveValid
  <2>2. K = {k}
    BY <2>1
  <2>3. Cardinality({k}) = 1 /\ IsFiniteSet({k})
    BY FS_Singleton
  <2>4. Sizes(a.batches)[k] = Len(a.batches[k].intents) /\ Len(a.batches[k].intents) \in Nat
    BY <1>1, BatchShape
  <2>5. \A x \in {k} : Sizes(a.batches)[x] \in Nat
    BY <2>4
  <2>6. SumFunctionOnSet(Sizes(a.batches), {k}) =
          Sizes(a.batches)[k] + SumFunctionOnSet(Sizes(a.batches), {k} \ {k})
    BY <2>3, <2>5, SumSplits
  <2>7. {k} \ {k} = {}
    OBVIOUS
  <2>8. SumFunctionOnSet(Sizes(a.batches), {}) = 0
    BY SumOfNothing
  <2>9. SumFunctionOnSet(Sizes(a.batches), {k}) = Len(a.batches[k].intents) + 0
    BY <2>4, <2>6, <2>7, <2>8
  <2>10. SumFunctionOnSet(Sizes(a.batches), {k}) = Len(a.batches[k].intents)
    BY <2>4, <2>9
  <2> QED BY <2>2, <2>3, <2>10 DEF StagedIn
<1> QED BY <1>1, <1>2, <1>3

\* The rows of a source are those of its batch.
LEMMA RowsOfSource ==
  ASSUME NEW a \in ActiveSet, NEW before \in Nat, NEW s
  PROVE  {r \in RowsOf(a, before) : r.source = s} =
           RowsIn(a, before, BatchesOf(a.batches, s))
<1> DEFINE R == RowsIn(a, before, DOMAIN a.batches)
           K == BatchesOf(a.batches, s)
<1>0. R = RowsOf(a, before)
  BY DEF RowsIn, RowsOf
<1>1. \A k \in DOMAIN a.batches : \A i \in DOMAIN a.batches[k].intents :
        Row(a, before, k, i).source = a.batches[k].source
  BY RowSays
<1>2. \A r : r \in R <=> \E k \in DOMAIN a.batches : \E i \in DOMAIN a.batches[k].intents :
                           r = Row(a, before, k, i)
  BY RowOfBatch
<1>3. K \in SUBSET DOMAIN a.batches
  BY DEF BatchesOf
<1>4. \A r : r \in RowsIn(a, before, K) <=> \E k \in K : \E i \in DOMAIN a.batches[k].intents :
                           r = Row(a, before, k, i)
  BY <1>3, RowOfBatch
<1>5. \A k \in DOMAIN a.batches : k \in K <=> a.batches[k].source = s
  BY DEF BatchesOf
<1> HIDE DEF R, K
<1>6. \A r : r \in {x \in R : x.source = s} <=> r \in RowsIn(a, before, K)
  BY <1>1, <1>2, <1>3, <1>4, <1>5
<1>7. {x \in R : x.source = s} = RowsIn(a, before, K)
  BY <1>6
<1> QED BY <1>0, <1>7 DEF K

\* Within a batch a row's ordinal counts the rows before it.
LEMMA OrdinalsCount ==
  ASSUME NEW a \in ActiveSet, NEW before \in Nat, NEW ids, ActiveValid(a, ids),
         NEW k \in DOMAIN a.batches, NEW r \in RowsIn(a, before, {k})
  PROVE  r.ordinal = Cardinality({x \in RowsIn(a, before, {k}) : x.position < r.position})
<1>1. PICK i \in DOMAIN a.batches[k].intents : r = Row(a, before, k, i)
  BY RowOfBatch
<1> DEFINE row(j) == Row(a, before, k, j)
           D == DOMAIN a.batches[k].intents
           before_r == {x \in RowsIn(a, before, {k}) : x.position < r.position}
           J == 1 .. (i - 1)
           f == [j \in J |-> row(j)]
<1>2. \A x : x \in RowsIn(a, before, {k}) <=> \E j \in D : x = row(j)
  BY DEF RowsIn
<1>3. D = 1 .. Len(a.batches[k].intents) /\ Len(a.batches[k].intents) \in Nat /\ i \in D
  BY BatchShape
<1>4. \A j \in D : row(j).position < r.position <=> j < i
  BY <1>1, RowsInOrder
<1>5. \A j, l \in D : row(j) = row(l) => j = l
  <2>1. \A j \in D : row(j).intent = a.batches[k].intents[j]
    BY RowSays
  <2> QED BY <2>1, RowsNameOnce
<1>6. r.ordinal = i - 1
  BY <1>1, RowSays
<1> HIDE DEF row, D
<1>7. J \in SUBSET D /\ \A j \in D : j \in J <=> j < i
  BY <1>3
<1>8. \A x : x \in before_r <=> \E j \in J : x = row(j)
  BY <1>2, <1>4, <1>7
<1>9. f \in Bijection(J, before_r)
  <2> HIDE DEF before_r, J
  <2>1. f \in [J -> before_r] /\ \A x \in before_r : \E j \in J : f[j] = x
    BY <1>8
  <2>2. f \in Injection(J, before_r)
    BY <1>5, <1>7, <2>1 DEF Injection, IsInjective
  <2>3. f \in Surjection(J, before_r)
    BY <2>1 DEF Surjection
  <2> QED BY <2>2, <2>3 DEF Bijection
<1>10. IsFiniteSet(J) /\ Cardinality(J) = i - 1
  <2> DEFINE m == i - 1
  <2>1. m \in Nat
    BY <1>3
  <2> HIDE DEF m
  <2>2. IsFiniteSet(1 .. m) /\ Cardinality(1 .. m) = m
    BY <2>1, FS_Interval
  <2> QED BY <2>2 DEF m
<1>11. Cardinality(before_r) = i - 1
  <2>1. ExistsBijection(J, before_r)
    BY <1>9 DEF ExistsBijection
  <2> HIDE DEF J, before_r
  <2> QED BY <1>10, <2>1, FS_Bijection
<1> QED BY <1>6, <1>11

\* What finitely many rows say is finite.
LEMMA FieldsFinite ==
  ASSUME NEW S, IsFiniteSet(S)
  PROVE  IsFiniteSet({r.intent : r \in S}) /\ IsFiniteSet({r.transition : r \in S})
<1>1. [r \in S |-> r.intent] \in Surjection(S, {r.intent : r \in S})
  BY DEF Surjection
<1>2. [r \in S |-> r.transition] \in Surjection(S, {r.transition : r \in S})
  BY DEF Surjection
<1> QED BY <1>1, <1>2, FS_Surjection

\* Two finite sets that share nothing count together what each counts.
LEMMA CountTogether ==
  ASSUME NEW S, NEW T, IsFiniteSet(S), IsFiniteSet(T), S \cap T = {}
  PROVE  /\ IsFiniteSet(S \cup T)
         /\ Cardinality(S \cup T) = Cardinality(S) + Cardinality(T)
         /\ Cardinality(S) \in Nat /\ Cardinality(T) \in Nat
<1>1. Cardinality(S) \in Nat /\ Cardinality(T) \in Nat /\ Cardinality(S \cap T) = 0
  BY FS_CardinalityType, FS_EmptySet
<1>2. Cardinality(S \cup T) = Cardinality(S) + Cardinality(T) - Cardinality(S \cap T)
  BY FS_Union
<1> QED BY <1>1, <1>2, FS_Union

-----------------------------------------------------------------------------
(* What a commit publishes passes the integrity check.                       *)

\* The history: as many rows as counted, at positions without gaps, each intent
\* once.
LEMMA ChargedHistory ==
  ASSUME NEW st, Ready(st)
  PROVE  LET c == Charged(st) IN
         /\ c.count = Cardinality(c.rows) /\ IsFiniteSet(c.rows)
         /\ {r.position : r \in c.rows} = 1 .. c.count
         /\ Cardinality(CommittedIntents(c.rows)) = c.count
         /\ c.ids = CommittedIntents(c.rows)
         /\ c.transitions = {r.transition : r \in c.rows}
         /\ c.count \in Nat /\ c.count <= DeclaredMaxEvents
<1> DEFINE a == st.active
           R == RowsOf(a, st.count)
           n == Staged(a.batches)
<1>1. /\ a \in ActiveSet /\ ActiveValid(a, st.ids) /\ st.count \in Nat
      /\ IsFiniteSet(st.rows) /\ st.ids = CommittedIntents(st.rows)
      /\ st.transitions = {r.transition : r \in st.rows} /\ HistoryValid(st)
  BY ReadyHas
<1>2. /\ IsFiniteSet(R) /\ R # {} /\ \A r \in R : r.transition = a.transition
      /\ CommittedIntents(R) = StagedIntents(a.batches)
      /\ CommittedIntents(R) \cap CommittedIntents(st.rows) = {}
      /\ R \cap st.rows = {}
  BY RowsAreNew
<1>3. /\ Charged(st).rows = st.rows \cup R /\ Charged(st).count = st.count + n
      /\ Charged(st).ids = st.ids \cup StagedIntents(a.batches)
      /\ Charged(st).transitions = st.transitions \cup {a.transition}
  BY DEF Charged
<1>4. /\ Cardinality(R) = n /\ n \in Nat
      /\ IsFiniteSet(CommittedIntents(R)) /\ Cardinality(CommittedIntents(R)) = n
  <2>1. R = RowsIn(a, st.count, DOMAIN a.batches)
    BY DEF RowsIn, RowsOf
  <2> QED BY <1>1, <2>1, RowsCount, StagedInType, SMTT(20) DEF Staged
<1>5. {r.position : r \in R} = (st.count + 1) .. (st.count + n)
  BY <1>1, RowsTakeTheNext
<1>6. /\ Cardinality(st.rows) = st.count /\ {r.position : r \in st.rows} = 1 .. st.count
      /\ Cardinality(CommittedIntents(st.rows)) = st.count
  BY <1>1 DEF HistoryValid, History
<1>7. st.count + n <= DeclaredMaxEvents
  BY DEF Ready, Fits
<1> HIDE DEF a, R, n
<1>8. Cardinality(st.rows \cup R) = st.count + n /\ IsFiniteSet(st.rows \cup R)
  <2>1. st.rows \cap R = {}
    BY <1>2
  <2>2. /\ Cardinality(st.rows \cup R) = Cardinality(st.rows) + Cardinality(R)
        /\ IsFiniteSet(st.rows \cup R)
    BY <1>1, <1>2, <2>1, CountTogether
  <2> QED BY <1>4, <1>6, <2>2
<1>9. {r.position : r \in st.rows \cup R} = 1 .. (st.count + n)
  <2>1. {r.position : r \in st.rows \cup R} = (1 .. st.count) \cup ((st.count + 1) .. (st.count + n))
    BY <1>5, <1>6
  <2>2. \A x, y \in Nat : (1 .. x) \cup ((x + 1) .. (x + y)) = 1 .. (x + y)
    OBVIOUS
  <2> QED BY <1>1, <1>4, <2>1, <2>2
<1>10. CommittedIntents(st.rows \cup R) = CommittedIntents(st.rows) \cup CommittedIntents(R)
  BY DEF CommittedIntents
<1>11. Cardinality(CommittedIntents(st.rows \cup R)) = st.count + n
  <2>1. IsFiniteSet(CommittedIntents(st.rows))
    BY <1>1, FieldsFinite DEF CommittedIntents
  <2>2. CommittedIntents(st.rows) \cap CommittedIntents(R) = {}
    BY <1>2
  <2>3. Cardinality(CommittedIntents(st.rows) \cup CommittedIntents(R)) =
          Cardinality(CommittedIntents(st.rows)) + Cardinality(CommittedIntents(R))
    BY <1>4, <2>1, <2>2, CountTogether
  <2> QED BY <1>4, <1>6, <1>10, <2>3
<1>12. {r.transition : r \in st.rows \cup R} = st.transitions \cup {a.transition}
  BY <1>1, <1>2
<1>13. st.count + n \in Nat
  BY <1>1, <1>4
<1> QED BY <1>1, <1>2, <1>3, <1>7, <1>8, <1>9, <1>10, <1>11, <1>12, <1>13

\* The counters: what was added batch by batch is what the rows of each source
\* say, and it keeps within what the source declared.
LEMMA ChargedCounts ==
  ASSUME NEW st, Ready(st), NEW s \in Sources
  PROVE  LET c == Charged(st)
             Of == {r \in c.rows : r.source = s}
         IN /\ c.counts[s] = Cardinality(Of) /\ c.counts[s] <= SourceLimit(s)
            /\ c.occurrences[s] = Cardinality({r.transition : r \in Of})
            /\ c.occurrences[s] <= MaxOccurrences[s]
            /\ c.counts[s] \in Nat /\ c.occurrences[s] \in Nat
<1> DEFINE a == st.active
           K == BatchesOf(a.batches, s)
           R == RowsOf(a, st.count)
           old == {r \in st.rows : r.source = s}
           new == RowsIn(a, st.count, K)
           of == {r \in Charged(st).rows : r.source = s}
           n == StagedIn(a.batches, K)
           m == Cardinality(K)
<1>1. /\ a \in ActiveSet /\ ActiveValid(a, st.ids) /\ st.count \in Nat
      /\ IsFiniteSet(st.rows) /\ a.transition \notin st.transitions
      /\ st.transitions = {r.transition : r \in st.rows} /\ HistoryValid(st)
      /\ 1 \in DOMAIN a.batches
  BY ReadyHas
<1>2. R \cap st.rows = {} /\ \A r \in R : r.transition = a.transition
  BY RowsAreNew
<1>3. new = {r \in R : r.source = s}
  BY <1>1, RowsOfSource
<1>4. of = old \cup new
  <2>1. Charged(st).rows = st.rows \cup R
    BY DEF Charged
  <2> HIDE DEF R, new
  <2> QED BY <1>3, <2>1
<1>5. /\ K \in SUBSET DOMAIN a.batches
      /\ K = {} => n = 0 /\ m = 0
      /\ \A k \in K : K = {k} /\ m = 1 /\ n = Len(a.batches[k].intents)
  BY <1>1, OneBatchEach
<1>6. IsFiniteSet(new) /\ Cardinality(new) = n /\ n \in Nat
  BY <1>1, <1>5, RowsCount, StagedInType
<1>7. /\ st.counts[s] = Cardinality(old) /\ st.counts[s] <= SourceLimit(s)
      /\ st.occurrences[s] = Cardinality({r.transition : r \in old})
      /\ st.occurrences[s] <= MaxOccurrences[s]
  BY <1>1 DEF HistoryValid, History
<1>8. st.counts[s] \in Nat /\ st.occurrences[s] \in Nat /\ MaxOccurrences[s] \in Nat
  BY BudgetAssumption DEF Ready, Typed
<1>9. /\ Charged(st).counts[s] = st.counts[s] + n
      /\ Charged(st).occurrences[s] = st.occurrences[s] + m
  BY DEF Charged
<1>10. ASSUME NEW k \in K
       PROVE  /\ st.occurrences[s] < MaxOccurrences[s]
              /\ st.counts[s] + Len(a.batches[k].intents) <= SourceLimit(s)
  <2>1. k \in DOMAIN a.batches /\ a.batches[k].source = s
    BY <1>10 DEF BatchesOf
  <2> QED BY <2>1 DEF Ready, Fits
<1>11. K # {} => new # {}
  <2> SUFFICES ASSUME NEW k \in K PROVE new # {}
    OBVIOUS
  <2>1. k \in DOMAIN a.batches /\ a.batches[k] \in Range(a.batches)
    BY <1>5 DEF Range
  <2>2. Len(a.batches[k].intents) >= 1
    <3>1. Len(a.batches[k].intents) \in 1 .. MaxEvents[a.batches[k].source]
      BY <1>1, <2>1 DEF ActiveValid
    <3> QED BY <3>1
  <2>3. 1 \in DOMAIN a.batches[k].intents
    BY <1>1, <2>1, <2>2, BatchShape
  <2> QED BY <2>3 DEF RowsIn
<1>12. K = {} => new = {}
  BY DEF RowsIn
<1>13. IsFiniteSet(old)
  BY <1>1, FS_Subset
<1>14. old \cap new = {}
  BY <1>2, <1>3
<1> HIDE DEF a, K, R, old, new, of, n, m
<1>15. Cardinality(of) = st.counts[s] + n
  <2>1. Cardinality(old \cup new) = Cardinality(old) + Cardinality(new)
    BY <1>6, <1>13, <1>14, CountTogether
  <2> QED BY <1>4, <1>6, <1>7, <2>1
<1>16. st.counts[s] + n <= SourceLimit(s)
  <2>1. CASE K = {}
    <3>1. st.counts[s] + n = st.counts[s]
      BY <1>5, <1>8, <2>1
    <3> QED BY <1>7, <3>1
  <2>2. CASE K # {}
    BY <1>5, <1>10, <2>2
  <2> QED BY <2>1, <2>2
<1>17. /\ Cardinality({r.transition : r \in of}) = st.occurrences[s] + m
       /\ m \in Nat /\ st.occurrences[s] + m <= MaxOccurrences[s]
  <2>1. CASE K = {}
    <3>1. of = old /\ m = 0
      BY <1>4, <1>5, <1>12, <2>1
    <3>2. st.occurrences[s] + m = st.occurrences[s]
      BY <1>8, <3>1
    <3> QED BY <1>7, <3>1, <3>2
  <2>2. CASE K # {}
    <3>1. m = 1 /\ new # {} /\ st.occurrences[s] < MaxOccurrences[s]
      BY <1>5, <1>10, <1>11, <2>2
    <3> DEFINE before == {r.transition : r \in old}
    <3>2. {r.transition : r \in of} = before \cup {a.transition}
      BY <1>2, <1>3, <1>4, <3>1
    <3>3. IsFiniteSet(before)
      BY <1>13, FieldsFinite
    <3>4. a.transition \notin before
      BY <1>1 DEF old
    <3>5. Cardinality(before \cup {a.transition}) = Cardinality(before) + 1
      BY <3>3, <3>4, FS_AddElement
    <3>6. st.occurrences[s] + 1 <= MaxOccurrences[s]
      BY <1>8, <3>1
    <3> QED BY <1>7, <3>1, <3>2, <3>5, <3>6
  <2> QED BY <2>1, <2>2
<1> QED BY <1>6, <1>8, <1>9, <1>15, <1>16, <1>17 DEF of

\* The rows a source has in a transition, and what the check asks of them.
Group(st, s, t) == {r \in {x \in st.rows : x.source = s} : r.transition = t}
GroupValid(G, s) ==
  /\ Cardinality(G) <= MaxEvents[s]
  /\ \A r \in G : r.ordinal = Cardinality({x \in G : x.position < r.position})

\* The groups: no transition gives a source more than it may have at once, and
\* ordinals count from zero in the order of commitment.
LEMMA ChargedGroups ==
  ASSUME NEW st, Ready(st), NEW s \in Sources, NEW t \in Charged(st).transitions
  PROVE  GroupValid(Group(Charged(st), s, t), s)
<1> DEFINE a == st.active
           K == BatchesOf(a.batches, s)
           R == RowsOf(a, st.count)
           new == RowsIn(a, st.count, K)
           G == Group(Charged(st), s, t)
           H == Group(st, s, t)
<1>1. /\ a \in ActiveSet /\ ActiveValid(a, st.ids) /\ st.count \in Nat
      /\ a.transition \notin st.transitions
      /\ st.transitions = {r.transition : r \in st.rows} /\ HistoryValid(st)
  BY ReadyHas
<1>2. \A r \in R : r.transition = a.transition
  BY RowsAreNew
<1>3. new = {r \in R : r.source = s}
  BY <1>1, RowsOfSource
<1>4. Charged(st).rows = st.rows \cup R /\ Charged(st).transitions = st.transitions \cup {a.transition}
  BY DEF Charged
<1>5. /\ K \in SUBSET DOMAIN a.batches
      /\ K = {} => StagedIn(a.batches, K) = 0
      /\ \A k \in K : K = {k} /\ StagedIn(a.batches, K) = Len(a.batches[k].intents)
  BY <1>1, OneBatchEach
<1>6. MaxEvents[s] \in Nat
  BY BudgetAssumption
<1> HIDE DEF R, new
<1>7. CASE t # a.transition
  <2>1. G = H /\ t \in st.transitions
    BY <1>2, <1>4, <1>7 DEF Group
  <2>2. GroupValid(H, s)
    BY <1>1, <2>1 DEF HistoryValid, History, Group, GroupValid
  <2> QED BY <2>1, <2>2
<1>8. CASE t = a.transition
  <2>1. G = new
    BY <1>1, <1>2, <1>3, <1>4, <1>8 DEF Group
  <2>2. CASE K = {}
    <3>1. new = {}
      BY <2>2 DEF new, RowsIn
    <3>2. Cardinality(new) <= MaxEvents[s]
      BY <1>6, <3>1, FS_EmptySet
    <3> QED BY <2>1, <3>1, <3>2 DEF GroupValid
  <2>3. CASE K # {}
    <3>1. PICK k \in K : K = {k}
      BY <1>5, <2>3
    <3>2. k \in DOMAIN a.batches /\ a.batches[k].source = s /\ a.batches[k] \in Range(a.batches)
      BY <3>1 DEF BatchesOf, Range
    <3>3. Len(a.batches[k].intents) \in 1 .. MaxEvents[s]
      BY <1>1, <3>2 DEF ActiveValid
    <3>4. Cardinality(new) = Len(a.batches[k].intents)
      BY <1>1, <1>5, <3>1, RowsCount DEF new
    <3>5. Cardinality(new) <= MaxEvents[s]
      BY <1>6, <3>3, <3>4
    <3>6. new = RowsIn(a, st.count, {k})
      BY <3>1 DEF new
    <3>7. \A r \in new : r.ordinal = Cardinality({x \in new : x.position < r.position})
      BY <1>1, <3>2, <3>6, OrdinalsCount
    <3> QED BY <2>1, <3>5, <3>7 DEF GroupValid
  <2> QED BY <2>2, <2>3
<1> QED BY <1>7, <1>8

\* All of it: what fits can be committed, and the check accepts the result.
LEMMA ChargedValid ==
  ASSUME NEW st, Ready(st)
  PROVE  Typed(Charged(st)) /\ Fits(Charged(st)) /\ IntegrityValid(Charged(st))
<1> DEFINE c == Charged(st)
<1>1. c.final = FALSE /\ c.halt = None /\ c.active = None
  BY DEF Charged
<1>2. HistoryValid(c)
  <2>1. \A s \in Sources :
          /\ c.counts[s] = Cardinality({r \in c.rows : r.source = s})
          /\ c.counts[s] <= SourceLimit(s)
          /\ c.occurrences[s] = Cardinality({r.transition : r \in {x \in c.rows : x.source = s}})
          /\ c.occurrences[s] <= MaxOccurrences[s]
    BY ChargedCounts
  <2>2. \A s \in Sources : \A t \in c.transitions :
          GroupValid(Group(c, s, t), s)
    BY ChargedGroups
  <2>3. /\ c.count = Cardinality(c.rows)
        /\ {r.position : r \in c.rows} = 1 .. c.count
        /\ Cardinality(CommittedIntents(c.rows)) = c.count
        /\ c.ids = CommittedIntents(c.rows)
        /\ c.transitions = {r.transition : r \in c.rows}
        /\ c.count <= DeclaredMaxEvents
    BY ChargedHistory
  <2> HIDE DEF c
  <2> QED BY <2>1, <2>2, <2>3 DEF HistoryValid, History, Group, GroupValid
<1>3. IntegrityValid(c)
  <2> HIDE DEF c
  <2> QED BY <1>1, <1>2, IntegritySplit
<1>4. Typed(c)
  <2>1. c = [rows |-> c.rows, count |-> c.count, ids |-> c.ids,
             transitions |-> c.transitions, counts |-> c.counts,
             occurrences |-> c.occurrences, final |-> c.final, halt |-> c.halt,
             active |-> c.active]
    BY DEF Charged
  <2>2. c.rows \in SUBSET RowSet
    BY ReadyHas, RowsAreNew DEF Charged
  <2>3. c.count \in Nat /\ IsFiniteSet(c.rows)
    BY ChargedHistory
  <2>4. c.counts \in [Sources -> Nat] /\ c.occurrences \in [Sources -> Nat]
    <3>1. \A s \in Sources : c.counts[s] \in Nat /\ c.occurrences[s] \in Nat
      BY ChargedCounts
    <3>2. c.counts = [s \in Sources |-> c.counts[s]] /\ c.occurrences = [s \in Sources |-> c.occurrences[s]]
      BY DEF Charged
    <3> HIDE DEF c
    <3> QED BY <3>1, <3>2
  <2> HIDE DEF c
  <2> QED BY <1>1, <2>1, <2>2, <2>3, <2>4 DEF Typed
<1>5. Fits(c)
  BY <1>1 DEF Fits
<1> QED BY <1>3, <1>4, <1>5

-----------------------------------------------------------------------------
(* Every step keeps the invariant.                                           *)

\* What was declared is a natural number, so nothing committed is within it.
LEMMA DeclaredIsNatural == DeclaredMaxEvents \in Nat /\ \A s \in Sources : SourceLimit(s) \in Nat
<1>1. \A x, y \in Nat : x * y \in Nat
  OBVIOUS
<1>2. \A s \in Sources : MaxOccurrences[s] \in Nat /\ MaxEvents[s] \in Nat
  BY BudgetAssumption
<1>3. \A s \in Sources : SourceLimit(s) \in Nat
  BY <1>1, <1>2 DEF SourceLimit
<1> DEFINE f == [s \in Sources |-> SourceLimit(s)]
<1>4. DOMAIN f = Sources /\ IsFiniteSet(Sources) /\ \A s \in Sources : f[s] \in Nat
  BY <1>3, BudgetAssumption
<1> HIDE DEF f
<1>5. SumFunction(f) \in Nat
  BY <1>4, TotalIsNatural
<1> QED BY <1>3, <1>5 DEF DeclaredMaxEvents, f

\* Nothing is committed, reserved or refused at first.
LEMMA InitBudget == Init => BudgetInv
<1> SUFFICES ASSUME Init PROVE BudgetInv
  OBVIOUS
<1>1. /\ state.rows = {} /\ state.count = 0 /\ state.ids = {} /\ state.transitions = {}
      /\ \A s \in Sources : state.counts[s] = 0 /\ state.occurrences[s] = 0
      /\ state.final = FALSE /\ state.halt = None /\ state.active = None
  BY DEF Init
<1>2. IsFiniteSet({}) /\ Cardinality({}) = 0
  BY FS_EmptySet
<1>3. Typed(state)
  BY <1>1, <1>2 DEF Init, Typed
<1>4. HistoryValid(state)
  <2>1. \A s \in Sources : 0 <= SourceLimit(s) /\ 0 <= MaxOccurrences[s] /\ 0 <= DeclaredMaxEvents
    BY DeclaredIsNatural, BudgetAssumption
  <2>2. 0 <= DeclaredMaxEvents
    BY DeclaredIsNatural
  <2>3. /\ {r.position : r \in {}} = 1 .. 0 /\ CommittedIntents({}) = {}
        /\ {r.transition : r \in {}} = {}
        /\ \A s \in Sources : {r \in {} : r.source = s} = {}
    BY DEF CommittedIntents
  <2> QED BY <1>1, <1>2, <2>1, <2>2, <2>3 DEF HistoryValid, History
<1>5. Fits(state)
  BY <1>1 DEF Fits
<1>6. IntegrityValid(state)
  BY <1>1, <1>4, IntegritySplit
<1> QED BY <1>3, <1>5, <1>6 DEF BudgetInv

\* A halted runtime has nothing open.
LEMMA HaltedShape ==
  ASSUME NEW st, Typed(st), NEW h, NEW c, c = [st EXCEPT !.halt = h, !.active = None]
  PROVE  Typed(c) /\ c.active = None
<1>1. /\ c.rows = st.rows /\ c.count = st.count /\ c.ids = st.ids
      /\ c.transitions = st.transitions /\ c.counts = st.counts
      /\ c.occurrences = st.occurrences /\ c.final = st.final /\ c.active = None
  BY DEF Typed
<1>2. c = [rows |-> c.rows, count |-> c.count, ids |-> c.ids,
           transitions |-> c.transitions, counts |-> c.counts,
           occurrences |-> c.occurrences, final |-> c.final, halt |-> c.halt,
           active |-> c.active]
  BY DEF Typed
<1> QED BY <1>1, <1>2 DEF Typed

\* A refusal publishes a record that passes the check, or changes nothing.
LEMMA StopKeeps ==
  ASSUME BudgetInv, NEW class, NEW source, NEW requested, Stop(class, source, requested)
  PROVE  BudgetInv'
<1> DEFINE h == [class |-> class, source |-> source, requested |-> requested,
                 before |-> state.count, seized |-> active,
                 transition |-> IF active = None THEN None ELSE active.transition]
           c == [state EXCEPT !.halt = h, !.active = None]
<1>1. CASE IntegrityValid(c)
  <2>1. state' = c
    BY <1>1 DEF Stop, Publish
  <2>2. Typed(c) /\ c.active = None
    <3> HIDE DEF h
    <3> QED BY HaltedShape DEF BudgetInv
  <2> HIDE DEF c
  <2>3. Fits(c)
    BY <2>2 DEF Fits
  <2> QED BY <1>1, <2>1, <2>2, <2>3 DEF BudgetInv
<1>2. CASE ~IntegrityValid(c)
  <2>1. state' = state
    BY <1>2 DEF Stop
  <2> QED BY <2>1 DEF BudgetInv
<1> QED BY <1>1, <1>2

\* What leaves the history alone leaves it valid.
LEMMA HistoryStays ==
  ASSUME NEW st, NEW c, HistoryValid(st),
         c.rows = st.rows, c.count = st.count, c.ids = st.ids,
         c.transitions = st.transitions, c.counts = st.counts, c.occurrences = st.occurrences
  PROVE  HistoryValid(c)
BY DEF HistoryValid

\* A state with another open transition, or another answer to finality.
LEMMA OpenChanges ==
  ASSUME BudgetInv, Running, NEW x, NEW f \in BOOLEAN,
         NEW c, c = [state EXCEPT !.active = x, !.final = f],
         x # None => x \in ActiveSet /\ ~f /\ ActiveValid(x, state.ids),
         Fits(c)
  PROVE  Typed(c) /\ Fits(c) /\ IntegrityValid(c)
<1>1. /\ c.rows = state.rows /\ c.count = state.count /\ c.ids = state.ids
      /\ c.transitions = state.transitions /\ c.counts = state.counts
      /\ c.occurrences = state.occurrences /\ c.halt = state.halt
      /\ c.active = x /\ c.final = f
  BY DEF BudgetInv, Typed
<1>2. c = [rows |-> c.rows, count |-> c.count, ids |-> c.ids,
           transitions |-> c.transitions, counts |-> c.counts,
           occurrences |-> c.occurrences, final |-> c.final, halt |-> c.halt,
           active |-> c.active]
  BY DEF BudgetInv, Typed
<1>3. HistoryValid(c)
  <2>1. HistoryValid(state)
    BY IntegritySplit DEF BudgetInv
  <2> QED BY <1>1, <2>1, HistoryStays
<1>4. c.halt = None
  BY <1>1 DEF Running
<1>5. IntegrityValid(c)
  BY <1>1, <1>3, <1>4, IntegritySplit
<1>6. Typed(c)
  BY <1>1, <1>2 DEF BudgetInv, Typed
<1> QED BY <1>5, <1>6

\* Closing a transition without a charge, or marking finality.
LEMMA ClosingKeeps ==
  ASSUME BudgetInv, Running, NEW f \in BOOLEAN,
         state' = [state EXCEPT !.active = None, !.final = f]
  PROVE  BudgetInv'
<1> DEFINE c == [state EXCEPT !.active = None, !.final = f]
<1>1. c.active = None
  BY DEF BudgetInv, Typed
<1>2. Fits(c)
  BY <1>1 DEF Fits
<1>3. Typed(c) /\ Fits(c) /\ IntegrityValid(c)
  BY <1>2, OpenChanges
<1> HIDE DEF c
<1> QED BY <1>3 DEF BudgetInv, c

\* A transition opens with nothing reserved; a retry is known by the history.
LEMMA BeginKeeps ==
  ASSUME BudgetInv, NEW t \in Transitions, BeginTransition(t)
  PROVE  BudgetInv'
<1> DEFINE x == [transition |-> t, batches |-> <<>>, reexecution |-> t \in state.transitions]
           c == [state EXCEPT !.active = x, !.final = FALSE]
<1>1. Running /\ state.final = FALSE /\ state' = [state EXCEPT !.active = x]
  BY DEF BeginTransition, Publish, BudgetInv, Typed
<1>2. state' = c
  BY <1>1 DEF BudgetInv, Typed
<1>3. x \in ActiveSet /\ x.batches = <<>> /\ x.reexecution = (x.transition \in state.transitions)
  BY DEF ActiveSet
<1>4. ActiveValid(x, state.ids)
  BY <1>3 DEF ActiveValid, Range
<1>5. Staged(<<>>) = 0
  BY SumOfNothing DEF Staged, StagedIn
<1>6. /\ c.active = x /\ c.halt = None /\ c.final = FALSE /\ c.count = state.count
      /\ c.transitions = state.transitions
  BY <1>1 DEF BudgetInv, Typed, Running
<1>7. state.count + 0 <= DeclaredMaxEvents
  BY DeclaredIsNatural, IntegritySplit DEF BudgetInv, HistoryValid, History, Typed
<1> HIDE DEF x, c
<1>8. Fits(c)
  BY <1>3, <1>5, <1>6, <1>7 DEF Fits
<1>9. Typed(c) /\ Fits(c) /\ IntegrityValid(c)
  BY <1>1, <1>3, <1>4, <1>8, OpenChanges DEF c
<1> QED BY <1>2, <1>9 DEF BudgetInv

\* A request names intents, at most as many as it may.
LEMMA RequestShape ==
  ASSUME NEW q \in Requests
  PROVE  q \in Seq(Intents) /\ Len(q) \in Nat /\ DOMAIN q = 1 .. Len(q)
<1>1. PICK n \in 0 .. MaxRequest : q \in [1 .. n -> Intents]
  BY DEF Requests
<1>2. n \in Nat
  BY <1>1
<1> QED BY <1>1, <1>2

\* One batch more stages its own intents more.
LEMMA StagedGrows ==
  ASSUME NEW batches \in Seq(BatchSet), NEW b \in BatchSet
  PROVE  /\ Append(batches, b) \in Seq(BatchSet)
         /\ Staged(Append(batches, b)) = Staged(batches) + Len(b.intents)
         /\ Staged(batches) \in Nat /\ Len(b.intents) \in Nat
<1> DEFINE n == Len(batches)
           more == Append(batches, b)
           f == Sizes(batches)
           g == Sizes(more)
<1>1. /\ n \in Nat /\ DOMAIN batches = 1 .. n /\ DOMAIN more = 1 .. n + 1
      /\ more[n + 1] = b /\ \A i \in 1 .. n : more[i] = batches[i]
      /\ more \in Seq(BatchSet)
  OBVIOUS
<1>2. \A x \in BatchSet : Len(x.intents) \in Nat
  BY DEF BatchSet
<1>3. \A i \in 1 .. n : batches[i] \in BatchSet
  BY <1>1
<1>4. \A i \in 1 .. n : f[i] = Len(batches[i].intents)
  BY <1>1 DEF Sizes
<1>5. (\A i \in 1 .. n : g[i] = Len(batches[i].intents)) /\ g[n + 1] = Len(b.intents)
  <2> HIDE DEF more
  <2>1. \A i \in 1 .. n + 1 : g[i] = Len(more[i].intents)
    BY <1>1 DEF Sizes
  <2>2. n + 1 \in 1 .. n + 1 /\ \A i \in 1 .. n : i \in 1 .. n + 1
    BY <1>1
  <2> HIDE DEF g
  <2> QED BY <1>1, <2>1, <2>2
<1> HIDE DEF n, more, f, g
<1>6. (\A i \in 1 .. n : f[i] \in Nat /\ g[i] = f[i]) /\ g[n + 1] \in Nat
  BY <1>2, <1>3, <1>4, <1>5
<1>7. SumFunctionOnSet(g, 1 .. n + 1) = SumFunctionOnSet(f, 1 .. n) + g[n + 1]
  BY <1>1, <1>6, SumGrows
<1>8. SumFunctionOnSet(f, 1 .. n) \in Nat
  <2>1. IsFiniteSet(1 .. n) /\ \A i \in 1 .. n : f[i] \in Nat
    BY <1>1, <1>6, FS_Interval
  <2> QED BY <2>1, SumIsNatural
<1> QED BY <1>1, <1>2, <1>5, <1>7, <1>8 DEF Staged, StagedIn, more, f, g, n

\* A batch is added only where it fits with what is reserved already.
LEMMA ReserveKeeps ==
  ASSUME BudgetInv, NEW s \in Sources, NEW q \in Requests, Reserve(s, q)
  PROVE  BudgetInv'
<1> DEFINE a == state.active
           b == [source |-> s, intents |-> q, next |-> 0]
           more == Append(a.batches, b)
           x == [transition |-> a.transition, batches |-> more, reexecution |-> a.reexecution]
           c == [state EXCEPT !.active = x, !.final = FALSE]
<1>1. /\ Running /\ a # None /\ ~a.reexecution /\ ~BadShape(s, q)
      /\ ~AboveAggregate(Len(q)) /\ ~AboveSource(s, Len(q))
      /\ state' = [state EXCEPT !.active.batches = Append(@, b)]
  BY DEF Reserve, InTransition, Publish, active
<1>2. a \in ActiveSet /\ state.final = FALSE /\ Fits(state) /\ IntegrityValid(state)
  BY <1>1 DEF BudgetInv, Typed, Fits
<1>3. a.batches \in Seq(BatchSet) /\ a.transition \in Transitions /\ a.reexecution = FALSE
  BY <1>1, <1>2 DEF ActiveSet
<1>4. q \in Seq(Intents) /\ Len(q) \in Nat /\ b \in BatchSet
  BY RequestShape DEF BatchSet
<1>5. x \in ActiveSet /\ x.batches = more /\ x.transition = a.transition /\ x.reexecution = FALSE
  <2>1. more \in Seq(BatchSet)
    BY <1>3, <1>4, StagedGrows
  <2> HIDE DEF more
  <2> QED BY <1>3, <2>1 DEF ActiveSet
<1>6. state' = c
  <2>1. [a EXCEPT !.batches = more] = x
    BY <1>2, SMTT(20) DEF ActiveSet
  <2>2. state' = [state EXCEPT !.active = [a EXCEPT !.batches = more]]
    BY <1>1 DEF BudgetInv, Typed
  <2> HIDE DEF x, more, b
  <2> QED BY <1>2, <2>1, <2>2 DEF BudgetInv, Typed
<1>7. /\ c.active = x /\ c.halt = None /\ c.final = FALSE /\ c.count = state.count
      /\ c.transitions = state.transitions /\ c.counts = state.counts
      /\ c.occurrences = state.occurrences
  <2> HIDE DEF x
  <2> QED BY <1>1 DEF BudgetInv, Typed, Running
<1> DEFINE n == Len(a.batches)
<1>8. /\ n \in Nat /\ DOMAIN a.batches = 1 .. n /\ DOMAIN more = 1 .. n + 1
      /\ more[n + 1] = b /\ \A i \in 1 .. n : more[i] = a.batches[i]
  <2> HIDE DEF b, a
  <2> QED BY <1>3, <1>4
<1>9. b.source = s /\ b.intents = q /\ b.next = 0
  OBVIOUS
<1>10. /\ Len(q) \in 1 .. MaxEvents[s] /\ IsInjective(q)
       /\ \A k \in DOMAIN a.batches : a.batches[k].source # s
       /\ Range(q) \cap StagedIntents(a.batches) = {} /\ Range(q) \cap state.ids = {}
  BY <1>1 DEF BadShape, BatchesOf, active
<1> HIDE DEF b, more, n, c, x
<1>11. \A i \in DOMAIN more : i = n + 1 \/ i \in DOMAIN a.batches
  BY <1>8
<1>12. \A k \in DOMAIN a.batches : Range(a.batches[k].intents) \subseteq StagedIntents(a.batches)
  BY DEF StagedIntents, Range
<1>13. ActiveValid(x, state.ids)
  <2>1. ActiveValid(a, state.ids)
    BY <1>1, <1>2, IntegritySplit
  <2>2. ASSUME NEW i \in DOMAIN more, NEW j \in DOMAIN more, i # j
        PROVE  /\ more[i].source # more[j].source
               /\ Range(more[i].intents) \cap Range(more[j].intents) = {}
    <3>1. CASE i = n + 1
      <4>1. j \in DOMAIN a.batches /\ more[j] = a.batches[j] /\ more[i] = b
        BY <1>8, <1>11, <2>2, <3>1
      <4> QED BY <1>9, <1>10, <1>12, <4>1
    <3>2. CASE j = n + 1
      <4>1. i \in DOMAIN a.batches /\ more[i] = a.batches[i] /\ more[j] = b
        BY <1>8, <1>11, <2>2, <3>2
      <4> QED BY <1>9, <1>10, <1>12, <4>1
    <3>3. CASE i # n + 1 /\ j # n + 1
      <4>1. i \in DOMAIN a.batches /\ more[i] = a.batches[i] /\ j \in DOMAIN a.batches /\ more[j] = a.batches[j]
        BY <1>8, <1>11, <3>3
      <4> QED BY <2>1, <2>2, <4>1 DEF ActiveValid
    <3> QED BY <3>1, <3>2, <3>3
  <2>3. ASSUME NEW y \in Range(more)
        PROVE  /\ Len(y.intents) \in 1 .. MaxEvents[y.source]
               /\ IsInjective(y.intents) /\ y.next \in 0 .. Len(y.intents)
               /\ Range(y.intents) \cap state.ids = {}
    <3>1. PICK i \in DOMAIN more : y = more[i]
      BY DEF Range
    <3>2. CASE i = n + 1
      <4>1. 0 \in 0 .. Len(q)
        BY <1>4
      <4> QED BY <1>8, <1>9, <1>10, <3>1, <3>2, <4>1
    <3>3. CASE i # n + 1
      <4>1. i \in DOMAIN a.batches /\ more[i] = a.batches[i]
        BY <1>8, <1>11, <3>3
      <4>2. y \in Range(a.batches)
        BY <3>1, <4>1 DEF Range
      <4> QED BY <2>1, <4>2 DEF ActiveValid
    <3> QED BY <3>2, <3>3
  <2> QED BY <1>5, <2>2, <2>3 DEF ActiveValid
<1>14. Fits(c)
  <2>1. state.count + Staged(more) <= DeclaredMaxEvents
    <3>1. Staged(more) = Staged(a.batches) + Len(q) /\ Staged(a.batches) \in Nat
      BY <1>3, <1>4, <1>9, StagedGrows DEF more
    <3>2. ~(state.count + Staged(a.batches) + Len(q) > DeclaredMaxEvents)
      BY <1>1 DEF AboveAggregate, active
    <3>3. DeclaredMaxEvents \in Nat /\ state.count \in Nat
      BY DeclaredIsNatural DEF BudgetInv, Typed
    <3> QED BY <1>4, <3>1, <3>2, <3>3
  <2>2. state.occurrences[s] < MaxOccurrences[s] /\ state.counts[s] + Len(q) <= SourceLimit(s)
    <3>1. state.occurrences[s] \in Nat /\ state.counts[s] \in Nat
      BY DEF BudgetInv, Typed
    <3>2. MaxOccurrences[s] \in Nat /\ SourceLimit(s) \in Nat
      BY BudgetAssumption, DeclaredIsNatural
    <3>3. ~(state.occurrences[s] >= MaxOccurrences[s]) /\ ~(state.counts[s] + Len(q) > SourceLimit(s))
      BY <1>1 DEF AboveSource
    <3> QED BY <1>4, <3>1, <3>2, <3>3
  <2>3. ASSUME NEW k \in DOMAIN more
        PROVE  /\ state.occurrences[more[k].source] < MaxOccurrences[more[k].source]
               /\ state.counts[more[k].source] + Len(more[k].intents) <= SourceLimit(more[k].source)
    <3>1. CASE k = n + 1
      BY <1>8, <1>9, <2>2, <3>1
    <3>2. CASE k # n + 1
      <4>1. k \in DOMAIN a.batches /\ more[k] = a.batches[k]
        BY <1>8, <1>11, <3>2
      <4> QED BY <1>1, <1>2, <4>1 DEF Fits
    <3> QED BY <3>1, <3>2
  <2>4. a.transition \notin state.transitions
    BY <1>1, <1>2 DEF Fits
  <2>5. c.active.reexecution = (c.active.transition \in c.transitions)
    <3>1. c.active.reexecution = FALSE /\ (c.active.transition \in c.transitions) = FALSE
      BY <1>5, <1>7, <2>4
    <3> QED BY <3>1
  <2>6. c.active.batches = more /\ c.active.reexecution = FALSE
    BY <1>5, <1>7
  <2> QED BY <1>7, <2>1, <2>3, <2>5, <2>6 DEF Fits
<1>15. Typed(c) /\ Fits(c) /\ IntegrityValid(c)
  BY <1>1, <1>5, <1>13, <1>14, OpenChanges DEF c
<1> QED BY <1>6, <1>15 DEF BudgetInv

\* Consuming an intent moves one batch on and stages what it staged before.
LEMMA ConsumeKeeps ==
  ASSUME BudgetInv, InTransition, NEW k \in DOMAIN active.batches, NEW intent, Consume(k, intent)
  PROVE  BudgetInv'
<1> DEFINE a == state.active
           b == a.batches[k]
           y == [source |-> b.source, intents |-> b.intents, next |-> b.next + 1]
           moved == [a.batches EXCEPT ![k] = y]
           x == [transition |-> a.transition, batches |-> moved, reexecution |-> a.reexecution]
           c == [state EXCEPT !.active = x, !.final = FALSE]
<1>1. CASE ~(Unconsumed(b) /\ intent = b.intents[b.next + 1])
  <2>1. Misuse(b)
    BY <1>1 DEF Consume, active
  <2> QED BY <2>1, StopKeeps DEF Misuse
<1>2. CASE Unconsumed(b) /\ intent = b.intents[b.next + 1]
  <2>1. /\ Running /\ a # None
        /\ state' = [state EXCEPT !.active.batches[k].next = @ + 1]
    BY <1>2 DEF Consume, InTransition, Publish, active
  <2>2. a \in ActiveSet /\ state.final = FALSE /\ Fits(state) /\ IntegrityValid(state)
    BY <2>1 DEF BudgetInv, Typed, Fits
  <2>3. a.batches \in Seq(BatchSet) /\ b \in BatchSet /\ k \in DOMAIN a.batches
    <3>1. k \in DOMAIN a.batches
      BY DEF active
    <3> QED BY <2>2, <3>1, BatchShape DEF ActiveSet
  <2>4. y \in BatchSet /\ y.source = b.source /\ y.intents = b.intents /\ y.next = b.next + 1
    BY <2>3 DEF BatchSet
  <2>5. /\ moved \in Seq(BatchSet) /\ DOMAIN moved = DOMAIN a.batches /\ moved[k] = y
        /\ \A j \in DOMAIN a.batches : j # k => moved[j] = a.batches[j]
        /\ Len(moved) = Len(a.batches)
    <3> HIDE DEF y
    <3> QED BY <2>3, <2>4
  <2>6. x \in ActiveSet /\ x.batches = moved /\ x.transition = a.transition /\ x.reexecution = a.reexecution
    <3> HIDE DEF moved
    <3> QED BY <2>2, <2>5 DEF ActiveSet
  <2>7. state' = c
    <3>1. y = [b EXCEPT !.next = b.next + 1]
      BY <2>3, SMTT(20) DEF BatchSet
    <3>2. moved = [a.batches EXCEPT ![k] = [b EXCEPT !.next = b.next + 1]]
      BY <3>1
    <3>3. x = [a EXCEPT !.batches = moved]
      BY <2>2 DEF ActiveSet
    <3>4. state' = [state EXCEPT !.active = [a EXCEPT !.batches =
                      [a.batches EXCEPT ![k] = [b EXCEPT !.next = b.next + 1]]]]
      BY <2>1
    <3>5. state' = [state EXCEPT !.active = x]
      BY <3>2, <3>3, <3>4
    <3> HIDE DEF x, moved, y
    <3> QED BY <2>2, <3>5 DEF BudgetInv, Typed
  <2>8. /\ c.active = x /\ c.halt = None /\ c.final = FALSE /\ c.count = state.count
        /\ c.transitions = state.transitions /\ c.counts = state.counts
        /\ c.occurrences = state.occurrences
    <3> HIDE DEF x
    <3> QED BY <2>1 DEF BudgetInv, Typed, Running
  <2> HIDE DEF y, moved, x, c
  <2>9. \A j \in DOMAIN a.batches : /\ moved[j].source = a.batches[j].source
                                    /\ moved[j].intents = a.batches[j].intents
    BY <2>4, <2>5
  <2>10. Staged(moved) = Staged(a.batches)
    <3>1. Sizes(moved) = Sizes(a.batches)
      BY <2>5, <2>9 DEF Sizes
    <3> QED BY <2>5, <3>1 DEF Staged, StagedIn
  <2>11. ActiveValid(x, state.ids)
    <3>1. ActiveValid(a, state.ids)
      BY <2>1, <2>2, IntegritySplit
    <3>2. \A i, j \in DOMAIN moved : i # j =>
            /\ moved[i].source # moved[j].source
            /\ Range(moved[i].intents) \cap Range(moved[j].intents) = {}
      BY <2>5, <2>9, <3>1 DEF ActiveValid
    <3>3. ASSUME NEW z \in Range(moved)
          PROVE  /\ Len(z.intents) \in 1 .. MaxEvents[z.source]
                 /\ IsInjective(z.intents) /\ z.next \in 0 .. Len(z.intents)
                 /\ Range(z.intents) \cap state.ids = {}
      <4>1. PICK i \in DOMAIN a.batches : z = moved[i]
        BY <2>5 DEF Range
      <4>2. a.batches[i] \in Range(a.batches)
        BY DEF Range
      <4>3. /\ Len(z.intents) \in 1 .. MaxEvents[z.source]
            /\ IsInjective(z.intents)
            /\ Range(z.intents) \cap state.ids = {}
        BY <2>9, <3>1, <4>1, <4>2 DEF ActiveValid
      <4>4. z.next \in 0 .. Len(z.intents)
        <5>1. CASE i = k
          <6>1. z.next = b.next + 1 /\ Len(z.intents) = Len(b.intents)
            BY <2>4, <2>5, <4>1, <5>1
          <6>2. b.next \in Nat /\ Len(b.intents) \in Nat /\ b.next < Len(b.intents)
            BY <1>2, <2>2, <2>3, BatchShape DEF BatchSet, Unconsumed
          <6> QED BY <6>1, <6>2, SMTT(20)
        <5>2. CASE i # k
          BY <2>5, <3>1, <4>1, <4>2, <5>2 DEF ActiveValid
        <5> QED BY <5>1, <5>2
      <4> QED BY <4>3, <4>4
    <3> QED BY <2>6, <3>2, <3>3 DEF ActiveValid
  <2>12. Fits(c)
    <3>1. /\ a.reexecution = (a.transition \in state.transitions)
          /\ a.reexecution => a.batches = <<>>
          /\ state.count + Staged(a.batches) <= DeclaredMaxEvents
          /\ \A j \in DOMAIN a.batches :
               /\ state.occurrences[a.batches[j].source] < MaxOccurrences[a.batches[j].source]
               /\ state.counts[a.batches[j].source] + Len(a.batches[j].intents)
                    <= SourceLimit(a.batches[j].source)
      BY <2>1, <2>2 DEF Fits
    <3>2. ~a.reexecution
      BY <2>3, <3>1
    <3>3. /\ c.active.reexecution = (c.active.transition \in c.transitions)
          /\ ~c.active.reexecution /\ c.active.batches = moved
      BY <2>6, <2>8, <3>1, <3>2
    <3>4. c.count + Staged(moved) <= DeclaredMaxEvents
      BY <2>8, <2>10, <3>1
    <3>5. \A j \in DOMAIN moved :
            /\ c.occurrences[moved[j].source] < MaxOccurrences[moved[j].source]
            /\ c.counts[moved[j].source] + Len(moved[j].intents) <= SourceLimit(moved[j].source)
      BY <2>5, <2>8, <2>9, <3>1
    <3> QED BY <2>8, <3>3, <3>4, <3>5 DEF Fits
  <2>13. Typed(c) /\ Fits(c) /\ IntegrityValid(c)
    BY <2>1, <2>6, <2>11, <2>12, OpenChanges DEF c
  <2> QED BY <2>7, <2>13 DEF BudgetInv
<1> QED BY <1>1, <1>2

\* A commit publishes what the reservations promised.
LEMMA CommitKeeps == ASSUME BudgetInv, Commit PROVE BudgetInv'
<1>1. Ready(state) /\ state' = Charged(state)
  BY DEF Commit, InTransition, Publish, Ready, BudgetInv, active
<1>2. Typed(Charged(state)) /\ Fits(Charged(state)) /\ IntegrityValid(Charged(state))
  BY <1>1, ChargedValid
<1> QED BY <1>1, <1>2 DEF BudgetInv

\* What is refused stops the runtime, whatever is refused.
Refused ==
  \/ Overlap \/ PostFinality \/ CommitIncomplete
  \/ \E s \in Sources \cup {Unknown}, kindFits \in BOOLEAN, intents \in Requests :
       ReserveRefused(s, kindFits, intents)

\* A refused reservation halts, or leaves the state alone where its record is void.
LEMMA RefusedStops ==
  ASSUME Refused
  PROVE  Running /\ \E class, source, requested : Stop(class, source, requested)
BY DEF Refused, Overlap, PostFinality, CommitIncomplete, ReserveRefused, Misuse, InTransition

\* One case per call.
LEMMA BudgetStep == BudgetInv /\ [Next]_vars => BudgetInv'
<1> SUFFICES ASSUME BudgetInv, [Next]_vars PROVE BudgetInv'
  OBVIOUS
<1>1. CASE Refused
  BY <1>1, RefusedStops, StopKeeps
<1>2. ASSUME NEW t \in Transitions, BeginTransition(t) PROVE BudgetInv'
  BY <1>2, BeginKeeps
<1>3. ASSUME NEW s \in Sources, NEW intents \in Requests, Reserve(s, intents) PROVE BudgetInv'
  BY <1>3, ReserveKeeps
<1>4. ASSUME InTransition, NEW k \in DOMAIN active.batches, NEW intent \in Intents,
             Consume(k, intent)
      PROVE  BudgetInv'
  BY <1>4, ConsumeKeeps
<1>5. CASE CommitAgain \/ Abort
  <2>1. Running /\ state' = [state EXCEPT !.active = None]
    BY <1>5 DEF CommitAgain, Abort, InTransition, Publish
  <2>2. state.final \in BOOLEAN /\ state' = [state EXCEPT !.active = None, !.final = state.final]
    BY <2>1 DEF BudgetInv, Typed
  <2> QED BY <2>1, <2>2, ClosingKeeps
<1>6. CASE Commit
  BY <1>6, CommitKeeps
<1>7. CASE MarkFinality
  <2>1. Running /\ active = None /\ state' = [state EXCEPT !.final = TRUE]
    BY <1>7 DEF MarkFinality, Publish
  <2>2. state' = [state EXCEPT !.active = None, !.final = TRUE]
    BY <2>1 DEF BudgetInv, Typed, active
  <2> QED BY <2>1, <2>2, ClosingKeeps
<1>8. CASE UNCHANGED vars
  BY <1>8 DEF vars, BudgetInv
<1> QED BY <1>1, <1>2, <1>3, <1>4, <1>5, <1>6, <1>7, <1>8 DEF Next, Refused

\* The invariant of the runtime: what is kept is of its shape and passes the
\* check, and what is reserved has its place (AuditBudgetRuntime).
THEOREM BudgetKeptWhole == Spec => []BudgetInv
BY InitBudget, BudgetStep, PTL DEF Spec

\* Whatever is begun, retried, reserved, misused, aborted and refused, the
\* runtime publishes only states its integrity check accepts, and what is
\* reserved can always be committed, though commit compares nothing with the
\* limits (_integrity_valid_locked, _commit).
THEOREM RuntimeSound == Spec => []RuntimeIsSound
<1>1. BudgetInv => RuntimeIsSound
  <2> SUFFICES ASSUME BudgetInv PROVE RuntimeIsSound
    OBVIOUS
  <2>1. active # None /\ active.batches # <<>> => Ready(state)
    BY DEF Ready, BudgetInv, active
  <2> QED BY <2>1, ChargedValid DEF RuntimeIsSound, BudgetInv
<1> QED BY <1>1, BudgetKeptWhole, PTL

-----------------------------------------------------------------------------
(* The runtime implements the abstract account.                              *)

\* What the account sees of the history.
Paid(rows) == {[intent |-> r.intent, source |-> r.source, transition |-> r.transition] : r \in rows}

\* Where there are as many intents as rows, an intent has one row.
LEMMA IntentHasOneRow ==
  ASSUME NEW rows, IsFiniteSet(rows), Cardinality(CommittedIntents(rows)) = Cardinality(rows),
         NEW r \in rows, NEW x \in rows, r.intent = x.intent
  PROVE  r = x
<1> DEFINE I == CommittedIntents(rows)
           f == [y \in rows |-> y.intent]
<1>1. f \in Surjection(rows, I)
  BY DEF Surjection, CommittedIntents
<1>2. IsFiniteSet(I)
  BY <1>1, FS_Surjection
<1> HIDE DEF I
<1>3. f \in Injection(rows, I)
  BY <1>1, <1>2, FS_Surjection DEF I
<1> QED BY <1>3 DEF Injection, IsInjective

\* A commit charges one whole transition, once, within every source's limits.
LEMMA CommitCharges ==
  ASSUME NEW st, Ready(st)
  PROVE  LET c == Charged(st)
             new == Paid(c.rows) \ Paid(st.rows)
         IN /\ Paid(st.rows) \subseteq Paid(c.rows)
            /\ Cardinality(Account!TransitionsOf(new)) = 1
            /\ Account!TransitionsOf(new) \cap Account!TransitionsOf(Paid(st.rows)) = {}
            /\ \A r, x \in Paid(c.rows) : r.intent = x.intent => r = x
            /\ \A s \in Sources :
                 /\ \A t \in Account!TransitionsOf(new) :
                      Cardinality(Account!Batch(new, t, s)) <= MaxEvents[s]
                 /\ Cardinality(Account!Occurrences(Paid(c.rows), s)) <= MaxOccurrences[s]
<1> DEFINE a == st.active
           c == Charged(st)
           R == RowsOf(a, st.count)
           new == Paid(c.rows) \ Paid(st.rows)
           seen(r) == [intent |-> r.intent, source |-> r.source, transition |-> r.transition]
<1>1. /\ st.transitions = {r.transition : r \in st.rows} /\ a.transition \notin st.transitions
  BY ReadyHas
<1>2. /\ R # {} /\ \A r \in R : r.transition = a.transition
      /\ CommittedIntents(R) \cap CommittedIntents(st.rows) = {}
  BY RowsAreNew
<1>3. c.rows = st.rows \cup R /\ c.transitions = st.transitions \cup {a.transition}
  BY DEF Charged
<1>4. IsFiniteSet(c.rows) /\ Cardinality(CommittedIntents(c.rows)) = Cardinality(c.rows)
  BY ChargedHistory
<1>5. \A s \in Sources : GroupValid(Group(c, s, a.transition), s)
  BY <1>3, ChargedGroups
<1>6. \A s \in Sources :
        /\ c.occurrences[s] = Cardinality({r.transition : r \in {x \in c.rows : x.source = s}})
        /\ c.occurrences[s] <= MaxOccurrences[s]
  BY ChargedCounts
<1> HIDE DEF a, c, R
<1>7. Paid(c.rows) = Paid(st.rows) \cup Paid(R)
  BY <1>3 DEF Paid
<1>8. Paid(R) \cap Paid(st.rows) = {}
  <2> SUFFICES ASSUME NEW r \in R, NEW x \in st.rows, seen(r) = seen(x) PROVE FALSE
    BY DEF Paid
  <2>1. r.intent = x.intent
    OBVIOUS
  <2> QED BY <1>2, <2>1 DEF CommittedIntents
<1>9. new = Paid(R)
  BY <1>7, <1>8
<1>10. Account!TransitionsOf(Paid(R)) = {a.transition}
  <2>1. \A p \in Paid(R) : p.transition = a.transition
    BY <1>2 DEF Paid
  <2>2. Paid(R) # {}
    BY <1>2 DEF Paid
  <2> QED BY <2>1, <2>2 DEF Account!TransitionsOf
<1>11. Account!TransitionsOf(Paid(st.rows)) = st.transitions
  <2> DEFINE T == Account!TransitionsOf(Paid(st.rows))
  <2>1. ASSUME NEW r \in st.rows PROVE r.transition \in T
    <3>1. seen(r) \in Paid(st.rows) /\ seen(r).transition = r.transition
      BY DEF Paid
    <3> QED BY <3>1 DEF Account!TransitionsOf
  <2>2. ASSUME NEW t \in T PROVE \E r \in st.rows : t = r.transition
    <3>1. PICK p \in Paid(st.rows) : t = p.transition
      BY DEF Account!TransitionsOf
    <3>2. PICK r \in st.rows : p = seen(r)
      BY DEF Paid
    <3> QED BY <3>1, <3>2
  <2> HIDE DEF T
  <2> QED BY <1>1, <2>1, <2>2 DEF T
<1>12. Cardinality({a.transition}) = 1
  BY FS_Singleton
<1>13. ASSUME NEW p \in Paid(c.rows), NEW q \in Paid(c.rows), p.intent = q.intent PROVE p = q
  <2>1. PICK r \in c.rows : p = seen(r)
    BY <1>13 DEF Paid
  <2>2. PICK x \in c.rows : q = seen(x)
    BY <1>13 DEF Paid
  <2>3. r.intent = x.intent
    BY <1>13, <2>1, <2>2
  <2>4. r = x
    BY <1>4, <2>3, IntentHasOneRow
  <2> QED BY <2>1, <2>2, <2>4
<1>14. ASSUME NEW s \in Sources
       PROVE  Cardinality(Account!Batch(Paid(R), a.transition, s)) <= MaxEvents[s]
  <2> DEFINE G == Group(c, s, a.transition)
             B == Account!Batch(Paid(R), a.transition, s)
             f == [r \in G |-> seen(r)]
  <2>1. \A r \in G : r \in c.rows /\ r.source = s /\ r.transition = a.transition
    BY DEF Group
  <2>2. \A r \in G : r \in R
    BY <1>1, <1>3, <2>1
  <2>3. f \in [G -> B]
    <3>1. \A r \in G : seen(r) \in B
      BY <2>1, <2>2 DEF Account!Batch, Paid
    <3> HIDE DEF G, B
    <3> QED BY <3>1
  <2>4. \A p \in B : \E r \in G : seen(r) = p
    <3> TAKE p \in B
    <3>1. p \in Paid(R) /\ p.source = s
      BY DEF Account!Batch
    <3>2. PICK r \in R : p = seen(r)
      BY <3>1 DEF Paid
    <3>3. r \in G
      BY <1>2, <1>3, <3>1, <3>2 DEF Group
    <3> QED BY <3>2, <3>3
  <2>5. f \in Surjection(G, B)
    <3> HIDE DEF G, B
    <3> QED BY <2>3, <2>4 DEF Surjection
  <2>6. IsFiniteSet(G)
    <3>1. G \in SUBSET c.rows
      BY DEF Group
    <3> QED BY <1>4, <3>1, FS_Subset
  <2>7. IsFiniteSet(B) /\ Cardinality(B) <= Cardinality(G)
    <3> HIDE DEF G, B, f
    <3> QED BY <2>5, <2>6, FS_Surjection
  <2>8. Cardinality(G) <= MaxEvents[s]
    BY <1>5 DEF GroupValid
  <2>9. Cardinality(B) \in Nat /\ Cardinality(G) \in Nat /\ MaxEvents[s] \in Nat
    BY <2>6, <2>7, FS_CardinalityType, BudgetAssumption
  <2> HIDE DEF G, B
  <2>10. Cardinality(B) <= MaxEvents[s]
    BY <2>7, <2>8, <2>9
  <2> QED BY <2>10 DEF B
<1>15. ASSUME NEW s \in Sources
       PROVE  Cardinality(Account!Occurrences(Paid(c.rows), s)) <= MaxOccurrences[s]
  <2> DEFINE T == Account!Occurrences(Paid(c.rows), s)
             H == {x \in c.rows : x.source = s}
  <2>1. ASSUME NEW r \in H PROVE r.transition \in T
    <3>1. seen(r) \in Paid(c.rows) /\ seen(r).source = s /\ seen(r).transition = r.transition
      BY DEF Paid
    <3> QED BY <3>1 DEF Account!Occurrences
  <2>2. ASSUME NEW t \in T PROVE \E r \in H : t = r.transition
    <3>1. PICK p \in Paid(c.rows) : t = p.transition /\ p.source = s
      BY DEF Account!Occurrences
    <3>2. PICK r \in c.rows : p = seen(r)
      BY DEF Paid
    <3> QED BY <3>1, <3>2
  <2>3. T = {r.transition : r \in H}
    <3> HIDE DEF T, H
    <3> QED BY <2>1, <2>2
  <2> QED BY <1>6, <2>3
<1>16. Paid(st.rows) \subseteq Paid(c.rows)
  BY <1>7
<1>17. {a.transition} \cap st.transitions = {}
  BY <1>1
<1> HIDE DEF new
<1> QED BY <1>9, <1>10, <1>11, <1>12, <1>13, <1>14, <1>15, <1>16, <1>17 DEF c, new

\* The account counts with the same numbers.
LEMMA SameCount == \A S : Account!Cardinality(S) = Cardinality(S)
BY DEF Account!Cardinality, Cardinality

\* A step that leaves the history alone closes the account, or changes nothing of it.
LEMMA ClosesOrStutters ==
  ASSUME Running, state'.rows = state.rows, state.final => state'.final
  PROVE  Account!Close \/ UNCHANGED Account!account
<1> DEFINE open == Running /\ ~state.final
<1>1. Paid(state'.rows) = Paid(state.rows)
  OBVIOUS
<1>2. ~open => ~open'
  BY DEF Running
<1>3. CASE open /\ ~open'
  BY <1>1, <1>3 DEF Account!Close, Paid
<1>4. CASE open /\ open'
  <2>1. open = TRUE /\ open' = TRUE
    BY <1>4
  <2> QED BY <1>1, <2>1 DEF Account!account, Paid
<1>5. CASE ~open
  <2>1. open = FALSE /\ open' = FALSE
    BY <1>2, <1>5
  <2> QED BY <1>1, <2>1 DEF Account!account, Paid
<1> QED BY <1>3, <1>4, <1>5

\* Every step but a commit leaves the history alone, and finality is final.
LEMMA OnlyCommitCharges ==
  ASSUME Typed(state), [Next]_vars, ~Commit, state' # state
  PROVE  Running /\ state'.rows = state.rows /\ (state.final => state'.final)
<1> DEFINE Kept == Running /\ state'.rows = state.rows /\ (state.final => state'.final)
<1>0. /\ \A new : LET c == [state EXCEPT !.active = new] IN
                  c.rows = state.rows /\ c.final = state.final
      /\ \A new : LET c == [state EXCEPT !.halt = new, !.active = None] IN
                  c.rows = state.rows /\ c.final = state.final
      /\ LET c == [state EXCEPT !.final = TRUE] IN c.rows = state.rows /\ c.final = TRUE
  BY DEF Typed
<1>1. CASE Refused
  <2>1. PICK class, source, requested : Running /\ Stop(class, source, requested)
    BY <1>1, RefusedStops
  <2>2. \E h : state' = [state EXCEPT !.halt = h, !.active = None]
    BY <2>1 DEF Stop, Publish
  <2> QED BY <1>0, <2>1, <2>2
<1>2. ASSUME NEW t \in Transitions, BeginTransition(t) PROVE Kept
  BY <1>0, <1>2 DEF BeginTransition, Publish
<1>3. ASSUME NEW s \in Sources, NEW intents \in Requests, Reserve(s, intents) PROVE Kept
  <2>1. Running /\ \E new : state' = [state EXCEPT !.active = new]
    BY <1>3 DEF Reserve, Publish, InTransition
  <2> QED BY <1>0, <2>1
<1>4. ASSUME InTransition, NEW k \in DOMAIN active.batches, NEW intent \in Intents,
             Consume(k, intent)
      PROVE  Kept
  <2>1. \/ \E new : state' = [state EXCEPT !.active = new]
        \/ \E h : state' = [state EXCEPT !.halt = h, !.active = None]
    BY <1>4 DEF Consume, Publish, Misuse, Stop
  <2> QED BY <1>0, <1>4, <2>1 DEF InTransition
<1>5. CASE CommitAgain \/ Abort
  BY <1>0, <1>5 DEF CommitAgain, Abort, InTransition, Publish
<1>6. CASE MarkFinality
  BY <1>0, <1>6 DEF MarkFinality, Publish
<1>7. CASE UNCHANGED vars
  BY <1>7 DEF vars
<1> QED BY <1>1, <1>2, <1>3, <1>4, <1>5, <1>6, <1>7 DEF Next, Refused

\* An empty history has charged nothing.
LEMMA AccountOpens == Init => Account!Init
<1> SUFFICES ASSUME Init PROVE Account!Init
  OBVIOUS
<1>1. state.rows = {} /\ state.halt = None /\ state.final = FALSE
  BY DEF Init
<1>2. (Running /\ ~state.final) = TRUE
  BY <1>1 DEF Running
<1> QED BY <1>1, <1>2 DEF Account!Init

\* Every step of the runtime is one of the account, or none.
LEMMA AccountStep == BudgetInv /\ [Next]_vars => [Account!Next]_(Account!account)
<1> SUFFICES ASSUME BudgetInv, [Next]_vars PROVE [Account!Next]_(Account!account)
  OBVIOUS
<1>1. CASE Commit
  <2>1. Ready(state) /\ state' = Charged(state) /\ Running
    BY <1>1 DEF Commit, InTransition, Publish, Ready, BudgetInv, active
  <2>2. ~state.final
    BY <2>1, ReadyHas
  <2>3. state'.halt = None /\ ~state'.final
    BY <2>1 DEF Charged
  <2>4. (Running /\ ~state.final) /\ (Running /\ ~state.final)'
    BY <2>1, <2>2, <2>3 DEF Running
  <2> HIDE DEF Running
  <2> DEFINE P == {[intent |-> r.intent, source |-> r.source, transition |-> r.transition] :
                      r \in state.rows}
             new == P' \ P
  <2>5. P = Paid(state.rows) /\ P' = Paid(Charged(state).rows)
    BY <2>1 DEF Paid
  <2> HIDE DEF P
  <2>6. /\ P \subseteq P'
        /\ Cardinality(Account!TransitionsOf(new)) = 1
        /\ Account!TransitionsOf(new) \cap Account!TransitionsOf(P) = {}
        /\ \A r, x \in P' : r.intent = x.intent => r = x
        /\ \A s \in Sources :
             /\ \A t \in Account!TransitionsOf(new) :
                  Cardinality(Account!Batch(new, t, s)) <= MaxEvents[s]
             /\ Cardinality(Account!Occurrences(P', s)) <= MaxOccurrences[s]
    BY <2>1, <2>5, CommitCharges
  <2>7. Account!ChargeOneTransition
    BY <2>4, <2>6, SameCount DEF P, Account!ChargeOneTransition
  <2> QED BY <2>7 DEF Account!Next
<1>2. CASE ~Commit /\ state' # state
  BY <1>2, OnlyCommitCharges, ClosesOrStutters DEF BudgetInv, Account!Next
<1>3. CASE state' = state
  BY <1>3 DEF Account!account, Running
<1> QED BY <1>1, <1>2, <1>3

\* Whatever transitions, retries and misuses do, the runtime charges as the
\* abstract account says: whole transitions, every intent and every transition
\* once, within each source's limits, nothing after the end (_commit, _halt).
THEOREM AccountImplemented == Spec => ChargesOnce
BY AccountOpens, BudgetKeptWhole, AccountStep, PTL DEF Spec, ChargesOnce, Account!Spec

-----------------------------------------------------------------------------
(* Which refusals fail to halt the runtime.                                  *)

\* The record of a refusal that its validator accepts is published.
LEMMA ValidRecordHalts ==
  ASSUME BudgetInv, NEW class, NEW source, NEW requested, Stop(class, source, requested),
         \A h, c : /\ h = [class |-> class, source |-> source, requested |-> requested,
                           before |-> state.count, seized |-> active,
                           transition |-> IF active = None THEN None ELSE active.transition]
                   /\ c.count = state.count /\ c.final = state.final
                   /\ c.occurrences = state.occurrences /\ c.counts = state.counts
                   => HaltValid(h, c)
  PROVE  escaped' = escaped
<1> DEFINE h == [class |-> class, source |-> source, requested |-> requested,
                 before |-> state.count, seized |-> active,
                 transition |-> IF active = None THEN None ELSE active.transition]
           c == [state EXCEPT !.halt = h, !.active = None]
<1>1. /\ c.rows = state.rows /\ c.count = state.count /\ c.ids = state.ids
      /\ c.transitions = state.transitions /\ c.counts = state.counts
      /\ c.occurrences = state.occurrences /\ c.final = state.final
      /\ c.active = None /\ c.halt = h
  <2> HIDE DEF h
  <2> QED BY DEF BudgetInv, Typed
<1>2. HaltValid(h, c)
  <2> HIDE DEF c
  <2> QED BY <1>1
<1>3. HistoryValid(c)
  <2>1. HistoryValid(state)
    BY IntegritySplit DEF BudgetInv
  <2> HIDE DEF c
  <2> QED BY <1>1, <2>1, HistoryStays
<1>4. IntegrityValid(c)
  <2> HIDE DEF c, h
  <2> QED BY <1>1, <1>2, <1>3, IntegritySplit
<1> QED BY <1>4 DEF Stop, Publish

\* The misuse of a reservation is recorded in its name.
LEMMA MisuseHalts ==
  ASSUME BudgetInv, InTransition, NEW b \in Range(active.batches), Misuse(b)
  PROVE  escaped' = escaped
<1>1. active # None /\ active \in ActiveSet /\ ~state.final
  BY DEF InTransition, BudgetInv, Typed, Fits, active
<1>2. b.source \in Sources /\ b.source # None
  <2>1. b \in BatchSet
    BY <1>1, BatchShape DEF Range
  <2> QED BY <2>1, BudgetAssumption DEF BatchSet
<1> DEFINE class == "reservation_lifecycle_violation"
           requested == Len(b.intents)
<1>3. ASSUME NEW h, NEW c,
             h = [class |-> class, source |-> b.source, requested |-> requested,
                  before |-> state.count, seized |-> active,
                  transition |-> IF active = None THEN None ELSE active.transition],
             c.count = state.count, c.final = state.final
      PROVE  HaltValid(h, c)
  <2>1. /\ h.class = class /\ h.source = b.source /\ h.requested = requested
        /\ h.before = c.count /\ h.seized = active /\ h.transition = active.transition
    BY <1>1, <1>3
  <2> QED BY <1>1, <1>2, <1>3, <2>1 DEF HaltValid
<1>4. Stop(class, b.source, requested)
  BY DEF Misuse
<1> HIDE DEF class, requested
<1> QED BY <1>3, <1>4, ValidRecordHalts

\* A refused reservation is recorded, but for a shape that is refused in the name
\* of a source nobody declared.
LEMMA ReservationHalts ==
  ASSUME BudgetInv, NEW s \in Sources \cup {Unknown}, NEW kindFits \in BOOLEAN,
         NEW intents \in Requests, ReserveRefused(s, kindFits, intents),
         s = Unknown => ~active.reexecution /\ intents # <<>>
  PROVE  escaped' = escaped
<1> DEFINE n == Len(intents)
           Record(class, requested) ==
             [class |-> class, source |-> s, requested |-> requested,
              before |-> state.count, seized |-> active,
              transition |-> IF active = None THEN None ELSE active.transition]
<1>1. InTransition /\ active # None /\ active \in ActiveSet /\ ~state.final
  BY DEF ReserveRefused, InTransition, BudgetInv, Typed, Fits, active
<1>2. n \in Nat /\ (intents # <<>> <=> n # 0) /\ s # None
  BY RequestShape, BudgetAssumption
<1>3. ASSUME NEW class, NEW requested, NEW h, NEW c, h = Record(class, requested),
             c.count = state.count, c.final = state.final
      PROVE  /\ h.class = class /\ h.source = s /\ h.requested = requested
             /\ h.before = state.count /\ h.before = c.count
             /\ h.seized = active /\ h.transition = active.transition
             /\ ~c.final /\ h.seized # None /\ h.source # None
  BY <1>1, <1>2, <1>3
<1>4. CASE Stop("invalid_batch_or_identity", s, 0) /\ s # Unknown
  <2>1. ASSUME NEW h, NEW c, h = Record("invalid_batch_or_identity", 0),
               c.count = state.count, c.final = state.final
        PROVE  HaltValid(h, c)
    <3> HIDE DEF Record
    <3> QED BY <1>3, <1>4, <2>1 DEF HaltValid
  <2> QED BY <1>4, <2>1, ValidRecordHalts
<1>5. CASE Stop("unknown_source_or_kind", s, n) /\ n # 0
  <2>1. n > 0
    BY <1>2, <1>5
  <2>2. ASSUME NEW h, NEW c, h = Record("unknown_source_or_kind", n),
               c.count = state.count, c.final = state.final
        PROVE  HaltValid(h, c)
    <3> HIDE DEF Record, n
    <3> QED BY <1>3, <2>1, <2>2 DEF HaltValid
  <2> HIDE DEF n
  <2> QED BY <1>5, <2>2, ValidRecordHalts
<1>6. CASE /\ Stop("valid_reservation_above_declared_aggregate", s, n)
           /\ s # Unknown /\ ~BadShape(s, intents) /\ AboveAggregate(n)
  <2>1. n > 0
    BY <1>2, <1>6, BudgetAssumption DEF BadShape
  <2>2. ASSUME NEW h, NEW c, h = Record("valid_reservation_above_declared_aggregate", n),
               c.count = state.count, c.final = state.final
        PROVE  HaltValid(h, c)
    <3> HIDE DEF Record, n
    <3> QED BY <1>3, <1>6, <2>1, <2>2 DEF HaltValid, AboveAggregate
  <2> HIDE DEF n
  <2> QED BY <1>6, <2>2, ValidRecordHalts
<1>7. CASE /\ Stop("valid_reservation_above_declared_source", s, n)
           /\ s # Unknown /\ ~BadShape(s, intents) /\ ~AboveAggregate(n) /\ AboveSource(s, n)
  <2>1. n > 0
    BY <1>2, <1>7, BudgetAssumption DEF BadShape
  <2>2. state.count + Staged(active.batches) + n <= DeclaredMaxEvents
    <3>1. state.count \in Nat /\ Staged(active.batches) \in Nat /\ DeclaredMaxEvents \in Nat
      BY <1>1, DeclaredIsNatural, StagedInType DEF Staged, BudgetInv, Typed
    <3> QED BY <1>2, <1>7, <3>1 DEF AboveAggregate
  <2>3. ASSUME NEW h, NEW c, h = Record("valid_reservation_above_declared_source", n),
               c.count = state.count, c.final = state.final,
               c.occurrences = state.occurrences, c.counts = state.counts
        PROVE  HaltValid(h, c)
    <3> HIDE DEF Record, n
    <3> QED BY <1>3, <1>7, <2>1, <2>2, <2>3 DEF HaltValid, AboveSource
  <2> HIDE DEF n
  <2> QED BY <1>7, <2>3, ValidRecordHalts
<1> QED BY <1>2, <1>4, <1>5, <1>6, <1>7 DEF ReserveRefused

\* An attempt after the end is recorded.
LEMMA AttemptAfterEndHalts == ASSUME BudgetInv, PostFinality PROVE escaped' = escaped
<1>1. state.final /\ active = None
  BY DEF PostFinality, BudgetInv, IntegrityValid, active
<1>2. ASSUME NEW h, NEW c,
             h = [class |-> "post_finality_attempt", source |-> None, requested |-> 0,
                  before |-> state.count, seized |-> active,
                  transition |-> IF active = None THEN None ELSE active.transition],
             c.count = state.count, c.final = state.final
      PROVE  HaltValid(h, c)
  <2>1. /\ h.class = "post_finality_attempt" /\ h.source = None /\ h.requested = 0
        /\ h.before = c.count /\ h.seized = None /\ h.transition = None
    BY <1>1, <1>2
  <2> QED BY <1>1, <1>2, <2>1 DEF HaltValid
<1> QED BY <1>2, ValidRecordHalts DEF PostFinality

\* A refusal fails to halt the runtime only where an undeclared source reserves an
\* empty batch or reserves inside a retried transition: there the validator of
\* halt records wants a declared source (_reserve, _halt_valid).
OnlyUndeclaredEscapes ==
  [][escaped' # escaped =>
       /\ InTransition
       /\ \E kindFits \in BOOLEAN, intents \in Requests :
            /\ ReserveRefused(Unknown, kindFits, intents)
            /\ active.reexecution \/ intents = <<>>]_vars

\* Every other refusal halts for ever, of a declared source in particular, whatever
\* is open and however much was committed before it.
\* So every refusal that is not of that kind halts the runtime for good
\* (_halt_valid, _publish_halt_locked).
THEOREM EscapesExplained == Spec => OnlyUndeclaredEscapes
<1>1. BudgetInv /\ [Next]_vars =>
        [escaped' # escaped =>
           /\ InTransition
           /\ \E kindFits \in BOOLEAN, intents \in Requests :
                /\ ReserveRefused(Unknown, kindFits, intents)
                /\ active.reexecution \/ intents = <<>>]_vars
  <2> SUFFICES ASSUME BudgetInv, Next, escaped' # escaped
               PROVE  /\ InTransition
                      /\ \E kindFits \in BOOLEAN, intents \in Requests :
                           /\ ReserveRefused(Unknown, kindFits, intents)
                           /\ active.reexecution \/ intents = <<>>
    BY DEF vars
  <2>1. CASE Overlap
    <3>1. InTransition /\ Misuse(Head(active.batches)) /\ active.batches # <<>>
      BY <2>1 DEF Overlap, InTransition
    <3>2. active.batches \in Seq(BatchSet)
      BY <3>1 DEF InTransition, BudgetInv, Typed, ActiveSet, active
    <3>3. Head(active.batches) \in Range(active.batches)
      BY <3>1, <3>2 DEF Range
    <3> QED BY <3>1, <3>3, MisuseHalts
  <2>2. CASE PostFinality
    BY <2>2, AttemptAfterEndHalts
  <2>3. CASE CommitIncomplete
    <3>1. PICK k \in DOMAIN active.batches : Misuse(active.batches[k])
      BY <2>3 DEF CommitIncomplete
    <3>2. InTransition /\ active.batches[k] \in Range(active.batches)
      BY <2>3 DEF CommitIncomplete, Range
    <3> QED BY <3>1, <3>2, MisuseHalts
  <2>4. ASSUME InTransition, NEW k \in DOMAIN active.batches, NEW intent \in Intents,
               Consume(k, intent)
        PROVE  FALSE
    <3>1. Misuse(active.batches[k])
      BY <2>4 DEF Consume, Publish
    <3>2. active.batches[k] \in Range(active.batches)
      BY DEF Range
    <3> QED BY <2>4, <3>1, <3>2, MisuseHalts
  <2>5. ASSUME NEW s \in Sources \cup {Unknown}, NEW kindFits \in BOOLEAN,
               NEW intents \in Requests, ReserveRefused(s, kindFits, intents)
        PROVE  /\ InTransition
               /\ \E k \in BOOLEAN, i \in Requests :
                    ReserveRefused(Unknown, k, i) /\ (active.reexecution \/ i = <<>>)
    <3>1. s = Unknown /\ (active.reexecution \/ intents = <<>>)
      BY <2>5, ReservationHalts
    <3>2. InTransition
      BY <2>5 DEF ReserveRefused
    <3> QED BY <2>5, <3>1, <3>2
  <2>6. /\ \A t \in Transitions : ~BeginTransition(t)
        /\ \A s \in Sources, intents \in Requests : ~Reserve(s, intents)
        /\ ~CommitAgain /\ ~Commit /\ ~Abort /\ ~MarkFinality
    BY DEF BeginTransition, Reserve, CommitAgain, Commit, Abort, MarkFinality, Publish
  <2> QED BY <2>1, <2>2, <2>3, <2>4, <2>5, <2>6 DEF Next
<1> QED BY <1>1, BudgetKeptWhole, PTL DEF Spec, OnlyUndeclaredEscapes
=============================================================================

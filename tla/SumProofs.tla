------------------------------ MODULE SumProofs ------------------------------
(***************************************************************************)
(* The laws of sums that the proofs about money rest on.  The models add   *)
(* up with SumFunction and SumFunctionOnSet of Functions, which fold the   *)
(* values of a function in an order nobody specifies.  A sum of naturals   *)
(* counts units, one pair <<x, i>> for each i up to f[x]; every law of a   *)
(* sum is then a law of cardinalities.  Last, the arithmetic of a cap.     *)
(***************************************************************************)
EXTENDS Integers, Sequences, FiniteSetTheorems, Functions, TLAPS

\* What a sum over S counts.
Units(f, S) == UNION {{<<x, i>> : i \in 1 .. f[x]} : x \in S}

\* One element more counts its own units more.
LEMMA UnitsStep ==
  ASSUME NEW S, IsFiniteSet(S), NEW f, \A x \in S : f[x] \in Nat, NEW x \in S
  PROVE  /\ IsFiniteSet(Units(f, S \ {x})) => IsFiniteSet(Units(f, S))
         /\ IsFiniteSet(Units(f, S \ {x})) =>
              Cardinality(Units(f, S)) = f[x] + Cardinality(Units(f, S \ {x}))
<1> SUFFICES ASSUME IsFiniteSet(Units(f, S \ {x}))
             PROVE  /\ IsFiniteSet(Units(f, S))
                    /\ Cardinality(Units(f, S)) = f[x] + Cardinality(Units(f, S \ {x}))
  OBVIOUS
<1> DEFINE own == {<<x, i>> : i \in 1 .. f[x]}
           rest == Units(f, S \ {x})
<1>1. IsFiniteSet(own) /\ Cardinality(own) = f[x]
  <2>1. IsFiniteSet(1 .. f[x]) /\ Cardinality(1 .. f[x]) = f[x]
    <3>1. f[x] \in Nat
      OBVIOUS
    <3>2. IsFiniteSet(1 .. f[x]) /\ Cardinality(1 .. f[x]) = (IF 1 > f[x] THEN 0 ELSE f[x] - 1 + 1)
      BY <3>1, FS_Interval
    <3> QED BY <3>1, <3>2
  <2>2. [i \in 1 .. f[x] |-> <<x, i>>] \in Bijection(1 .. f[x], own)
    BY DEF Bijection, Injection, Surjection, IsInjective
  <2> QED
    BY <2>1, <2>2, FS_Bijection DEF ExistsBijection
<1>2. Units(f, S) = own \cup rest /\ own \cap rest = {}
  BY DEF Units
<1>3. Cardinality(own \cap rest) = 0
  BY <1>2, FS_EmptySet
<1>4. Cardinality(rest) \in Nat
  BY FS_CardinalityType
<1>5. IsFiniteSet(rest)
  OBVIOUS
<1>6. f[x] \in Nat
  OBVIOUS
<1>7. Units(f, S) = own \cup rest /\ rest = Units(f, S \ {x})
  BY <1>2
<1> HIDE DEF own, rest
<1>8. IsFiniteSet(own \cup rest)
      /\ Cardinality(own \cup rest) = Cardinality(own) + Cardinality(rest) - Cardinality(own \cap rest)
  BY <1>1, <1>5, FS_Union
<1> QED
  BY <1>1, <1>3, <1>4, <1>6, <1>7, <1>8

\* Induction over the subsets of a finite set: among those that break a law
\* one has no smaller one below it.
LEMMA LeastSubset ==
  ASSUME NEW S, IsFiniteSet(S), NEW B, B \subseteq SUBSET S, B # {}
  PROVE  \E T \in B : \A U \in B : ~(U \subseteq T /\ U # T)
<1>1. SUBSET S = FiniteSubsetsOf(S)
  BY FS_FiniteSubsetsOfFinite
<1>2. PICK T \in B : \A U \in B : ~(<<U, T>> \in StrictSubsetOrdering(S))
  BY <1>1, FS_StrictSubsetOrderingWellFounded, WFMin
<1> QED
  BY <1>2 DEF StrictSubsetOrdering

\* There are finitely many units.
LEMMA UnitsFinite ==
  ASSUME NEW S, IsFiniteSet(S), NEW f, \A x \in S : f[x] \in Nat
  PROVE  IsFiniteSet(Units(f, S))
<1>1. \A x \in S : IsFiniteSet({<<x, i>> : i \in 1 .. f[x]})
  <2> TAKE x \in S
  <2>1. IsFiniteSet(1 .. f[x])
    BY FS_Interval
  <2>2. [i \in 1 .. f[x] |-> <<x, i>>] \in Surjection(1 .. f[x], {<<x, i>> : i \in 1 .. f[x]})
    BY DEF Surjection
  <2> QED BY <2>1, <2>2, FS_Surjection
<1> DEFINE g == [x \in S |-> {<<x, i>> : i \in 1 .. f[x]}]
           P == {{<<x, i>> : i \in 1 .. f[x]} : x \in S}
<1>2. g \in Surjection(S, P)
  BY DEF Surjection
<1>3. IsFiniteSet(P)
  BY <1>2, FS_Surjection
<1> QED BY <1>1, <1>3, FS_UNION DEF Units

\* The fold is the count: the recursion that defines it has one solution.
LEMMA SumIsCount ==
  ASSUME NEW S, IsFiniteSet(S), NEW f, \A x \in S : f[x] \in Nat
  PROVE  SumFunctionOnSet(f, S) = Cardinality(Units(f, S))
<1> DEFINE IsSum(h) == h = [s \in SUBSET S |-> IF s = {} THEN 0
                          ELSE f[CHOOSE x \in s : TRUE] + h[s \ {CHOOSE x \in s : TRUE}]]
           count == [s \in SUBSET S |-> Cardinality(Units(f, s))]
<1>1. \A s \in SUBSET S : IsFiniteSet(s)
  BY FS_Subset
<1>2. ASSUME NEW s \in SUBSET S
      PROVE  count[s] = IF s = {} THEN 0
                  ELSE f[CHOOSE x \in s : TRUE] + count[s \ {CHOOSE x \in s : TRUE}]
  <2>1. CASE s = {}
    BY <2>1, FS_EmptySet DEF Units
  <2>2. CASE s # {}
    <3> DEFINE x == CHOOSE y \in s : TRUE
    <3>1. x \in s
      BY <2>2
    <3>2. IsFiniteSet(Units(f, s \ {x}))
      <4>1. IsFiniteSet(s \ {x})
        BY <1>1
      <4> QED BY <4>1, UnitsFinite
    <3> QED BY <1>1, <2>2, <3>1, <3>2, UnitsStep
  <2> QED BY <2>1, <2>2
<1> HIDE DEF count
<1>3. IsSum(count)
  BY <1>2 DEF count
<1>4. ASSUME NEW h, IsSum(h) PROVE h = count
  <2> DEFINE B == {s \in SUBSET S : h[s] # count[s]}
  <2>1. CASE B = {}
    BY <1>3, <1>4, <2>1
  <2>2. CASE B # {}
    <3>1. PICK T \in B : \A U \in B : ~(U \subseteq T /\ U # T)
      <4>1. B \subseteq SUBSET S
        OBVIOUS
      <4> HIDE DEF B
      <4> QED BY <2>2, <4>1, LeastSubset
    <3> DEFINE x == CHOOSE y \in T : TRUE
    <3>2. T # {}
      <4>1. {} \in SUBSET S => h[{}] = 0 /\ count[{}] = 0
        BY <1>2, <1>4
      <4> QED BY <4>1
    <3>3. x \in T /\ T \ {x} \in SUBSET S /\ T \ {x} \notin B
      BY <3>1, <3>2
    <3>4. h[T] = f[x] + h[T \ {x}] /\ count[T] = f[x] + count[T \ {x}]
      BY <1>2, <1>4, <3>2
    <3> QED BY <3>1, <3>3, <3>4
  <2> QED BY <2>1, <2>2
<1>5. (CHOOSE h : IsSum(h)) = count
  BY <1>3, <1>4
<1> QED
  BY <1>5 DEF SumFunctionOnSet, FoldFunctionOnSet, MapThenFoldSet, count

\* A sum of naturals is one.
LEMMA SumIsNatural ==
  ASSUME NEW S, IsFiniteSet(S), NEW f, \A x \in S : f[x] \in Nat
  PROVE  SumFunctionOnSet(f, S) \in Nat
BY SumIsCount, UnitsFinite, FS_CardinalityType

\* Nothing adds up to zero.
LEMMA SumOfNothing == ASSUME NEW f PROVE SumFunctionOnSet(f, {}) = 0
<1>1. \A x \in {} : f[x] \in Nat
  OBVIOUS
<1>2. IsFiniteSet({}) /\ Units(f, {}) = {}
  BY FS_EmptySet DEF Units
<1> QED
  BY <1>1, <1>2, SumIsCount, FS_EmptySet

\* Any element may be taken out first.
LEMMA SumSplits ==
  ASSUME NEW S, IsFiniteSet(S), NEW f, \A x \in S : f[x] \in Nat, NEW x \in S
  PROVE  SumFunctionOnSet(f, S) = f[x] + SumFunctionOnSet(f, S \ {x})
<1>1. IsFiniteSet(S \ {x})
  BY FS_RemoveElement
<1>2. SumFunctionOnSet(f, S) = Cardinality(Units(f, S))
  BY SumIsCount
<1>3. SumFunctionOnSet(f, S \ {x}) = Cardinality(Units(f, S \ {x}))
  BY <1>1, SumIsCount
<1>4. IsFiniteSet(Units(f, S \ {x}))
  BY <1>1, UnitsFinite
<1> QED
  BY <1>2, <1>3, <1>4, UnitsStep

\* Only the values count.
LEMMA SumsAgree ==
  ASSUME NEW S, IsFiniteSet(S), NEW f, NEW g,
         \A x \in S : f[x] \in Nat /\ g[x] = f[x]
  PROVE  SumFunctionOnSet(g, S) = SumFunctionOnSet(f, S)
<1>1. Units(g, S) = Units(f, S)
  BY DEF Units
<1>2. \A x \in S : g[x] \in Nat
  OBVIOUS
<1>3. SumFunctionOnSet(f, S) = Cardinality(Units(f, S))
  BY SumIsCount
<1>4. SumFunctionOnSet(g, S) = Cardinality(Units(g, S))
  BY <1>2, SumIsCount
<1> QED
  BY <1>1, <1>3, <1>4

\* Larger values, larger sum.
LEMMA SumIsMonotone ==
  ASSUME NEW S, IsFiniteSet(S), NEW f, NEW g,
         \A x \in S : f[x] \in Nat /\ g[x] \in Nat /\ f[x] <= g[x]
  PROVE  SumFunctionOnSet(f, S) <= SumFunctionOnSet(g, S)
<1>1. Units(f, S) \subseteq Units(g, S)
  BY DEF Units
<1>2. IsFiniteSet(Units(g, S))
  BY UnitsFinite
<1>3. Cardinality(Units(f, S)) <= Cardinality(Units(g, S))
  BY <1>1, <1>2, FS_Subset
<1>4. SumFunctionOnSet(f, S) = Cardinality(Units(f, S))
  BY SumIsCount
<1>5. SumFunctionOnSet(g, S) = Cardinality(Units(g, S))
  BY SumIsCount
<1> QED
  BY <1>3, <1>4, <1>5

\* A sum in which one value changed.
LEMMA SumChanges ==
  ASSUME NEW S, IsFiniteSet(S), NEW f, NEW g, NEW x \in S,
         \A y \in S : f[y] \in Nat /\ g[y] \in Nat,
         \A y \in S \ {x} : g[y] = f[y]
  PROVE  SumFunctionOnSet(g, S) = SumFunctionOnSet(f, S) - f[x] + g[x]
<1>1. IsFiniteSet(S \ {x})
  BY FS_RemoveElement
<1>2. SumFunctionOnSet(g, S \ {x}) = SumFunctionOnSet(f, S \ {x})
  BY <1>1, SumsAgree
<1>3. SumFunctionOnSet(f, S \ {x}) \in Nat
  BY <1>1, SumIsNatural
<1>4. SumFunctionOnSet(f, S) = f[x] + SumFunctionOnSet(f, S \ {x})
  BY SumSplits
<1>5. SumFunctionOnSet(g, S) = g[x] + SumFunctionOnSet(g, S \ {x})
  BY SumSplits
<1>6. f[x] \in Nat /\ g[x] \in Nat
  OBVIOUS
<1> QED
  BY <1>2, <1>3, <1>4, <1>5, <1>6

\* A sum over one index more.
LEMMA SumGrows ==
  ASSUME NEW n \in Nat, NEW f, NEW g,
         \A i \in 1 .. n : f[i] \in Nat /\ g[i] = f[i], g[n + 1] \in Nat
  PROVE  SumFunctionOnSet(g, 1 .. n + 1) = SumFunctionOnSet(f, 1 .. n) + g[n + 1]
<1>1. IsFiniteSet(1 .. n) /\ IsFiniteSet(1 .. n + 1)
  BY FS_Interval
<1>2. (1 .. n + 1) \ {n + 1} = 1 .. n /\ n + 1 \in 1 .. n + 1
  OBVIOUS
<1>3. \A i \in 1 .. n + 1 : g[i] \in Nat
  OBVIOUS
<1>4. SumFunctionOnSet(g, 1 .. n + 1) = g[n + 1] + SumFunctionOnSet(g, (1 .. n + 1) \ {n + 1})
  BY <1>1, <1>2, <1>3, SumSplits
<1>5. SumFunctionOnSet(g, 1 .. n) = SumFunctionOnSet(f, 1 .. n)
  BY <1>1, SumsAgree
<1>6. SumFunctionOnSet(f, 1 .. n) \in Nat
  BY <1>1, SumIsNatural
<1>7. SumFunctionOnSet(g, 1 .. n + 1) = g[n + 1] + SumFunctionOnSet(f, 1 .. n)
  BY <1>2, <1>4, <1>5
<1>8. g[n + 1] \in Nat
  OBVIOUS
<1> QED
  BY <1>6, <1>7, <1>8

\* The sum of sums, value by value.
LEMMA SumsAdd ==
  ASSUME NEW S, IsFiniteSet(S), NEW f, NEW g, NEW h,
         \A x \in S : f[x] \in Nat /\ g[x] \in Nat /\ h[x] = f[x] + g[x]
  PROVE  SumFunctionOnSet(h, S) = SumFunctionOnSet(f, S) + SumFunctionOnSet(g, S)
<1> DEFINE Adds(s) == SumFunctionOnSet(h, s) = SumFunctionOnSet(f, s) + SumFunctionOnSet(g, s)
           B == {s \in SUBSET S : ~Adds(s)}
<1>1. Adds({})
  BY SumOfNothing
<1>2. ASSUME NEW s \in SUBSET S, NEW x \in s, Adds(s \ {x}) PROVE Adds(s)
  <2>1. IsFiniteSet(s) /\ IsFiniteSet(s \ {x})
    BY FS_Subset, FS_RemoveElement
  <2>2. \A y \in s : f[y] \in Nat /\ g[y] \in Nat /\ h[y] = f[y] + g[y] /\ h[y] \in Nat
    OBVIOUS
  <2>3. SumFunctionOnSet(f, s) = f[x] + SumFunctionOnSet(f, s \ {x})
    BY <2>1, <2>2, SumSplits
  <2>4. SumFunctionOnSet(g, s) = g[x] + SumFunctionOnSet(g, s \ {x})
    BY <2>1, <2>2, SumSplits
  <2>5. SumFunctionOnSet(h, s) = h[x] + SumFunctionOnSet(h, s \ {x})
    BY <2>1, <2>2, SumSplits
  <2>6. SumFunctionOnSet(f, s \ {x}) \in Nat /\ SumFunctionOnSet(g, s \ {x}) \in Nat
    BY <2>1, <2>2, SumIsNatural
  <2> QED
    BY <1>2, <2>2, <2>3, <2>4, <2>5, <2>6
<1>3. B \subseteq SUBSET S
  OBVIOUS
<1>4. ASSUME B # {} PROVE FALSE
  <2>1. PICK T \in B : \A U \in B : ~(U \subseteq T /\ U # T)
    <3> HIDE DEF B
    <3> QED BY <1>3, <1>4, LeastSubset
  <2>2. T # {}
    BY <1>1
  <2>3. PICK x \in T : TRUE
    BY <2>2
  <2>4. T \ {x} \in SUBSET S /\ T \ {x} \notin B
    BY <2>1, <2>3
  <2>5. Adds(T \ {x}) /\ ~Adds(T)
    BY <2>4
  <2> HIDE DEF Adds
  <2> QED BY <1>2, <2>5
<1>5. S \in SUBSET S
  OBVIOUS
<1> QED
  BY <1>4, <1>5

-----------------------------------------------------------------------------
(* The same of whole functions and of sequences.                             *)

\* The sum of a function of naturals is a natural.
LEMMA TotalIsNatural ==
  ASSUME NEW f, IsFiniteSet(DOMAIN f), \A x \in DOMAIN f : f[x] \in Nat
  PROVE  SumFunction(f) \in Nat
BY SumIsNatural DEF SumFunction

\* A sequence adds up to a natural, the empty one to zero.
LEMMA TotalOfSequence ==
  ASSUME NEW n \in Nat, NEW f \in [1 .. n -> Nat]
  PROVE  SumFunction(f) \in Nat /\ (n = 0 => SumFunction(f) = 0)
<1>1. DOMAIN f = 1 .. n /\ IsFiniteSet(1 .. n)
  BY FS_Interval
<1>2. SumFunction(f) = SumFunctionOnSet(f, 1 .. n)
  BY <1>1 DEF SumFunction
<1>3. n = 0 => 1 .. n = {}
  OBVIOUS
<1> QED
  BY <1>1, <1>2, <1>3, SumIsNatural, SumOfNothing

\* Zeros add up to zero.
LEMMA TotalOfZeros ==
  ASSUME NEW f, IsFiniteSet(DOMAIN f), \A x \in DOMAIN f : f[x] = 0
  PROVE  SumFunction(f) = 0
<1>1. \A x \in DOMAIN f : f[x] \in Nat
  OBVIOUS
<1>2. \A x \in DOMAIN f : 1 .. f[x] = {}
  OBVIOUS
<1>3. Units(f, DOMAIN f) = {}
  BY <1>2 DEF Units
<1> QED
  BY <1>1, <1>3, SumIsCount, FS_EmptySet DEF SumFunction

\* A value appended to a sequence is added to its sum.
LEMMA TotalOfLonger ==
  ASSUME NEW n \in Nat, NEW f \in [1 .. n -> Nat], NEW g \in [1 .. n + 1 -> Nat],
         \A i \in 1 .. n : g[i] = f[i]
  PROVE  SumFunction(g) = SumFunction(f) + g[n + 1]
<1>1. DOMAIN f = 1 .. n /\ DOMAIN g = 1 .. n + 1
  OBVIOUS
<1>2. SumFunction(f) = SumFunctionOnSet(f, 1 .. n)
  BY <1>1 DEF SumFunction
<1>3. SumFunction(g) = SumFunctionOnSet(g, 1 .. n + 1)
  BY <1>1 DEF SumFunction
<1>4. (\A i \in 1 .. n : f[i] \in Nat /\ g[i] = f[i]) /\ g[n + 1] \in Nat
  OBVIOUS
<1> QED
  BY <1>2, <1>3, <1>4, SumGrows

\* A part of what is added up never adds up to more.
LEMMA SumOfPart ==
  ASSUME NEW S, IsFiniteSet(S), NEW f, \A x \in S : f[x] \in Nat, NEW T \in SUBSET S
  PROVE  SumFunctionOnSet(f, T) <= SumFunctionOnSet(f, S)
<1>1. IsFiniteSet(T) /\ Units(f, T) \subseteq Units(f, S)
  BY FS_Subset DEF Units
<1>2. SumFunctionOnSet(f, T) = Cardinality(Units(f, T))
  BY <1>1, SumIsCount
<1>3. SumFunctionOnSet(f, S) = Cardinality(Units(f, S)) /\ IsFiniteSet(Units(f, S))
  BY SumIsCount, UnitsFinite
<1> QED BY <1>1, <1>2, <1>3, FS_Subset

\* Where one value of a function changes, so does its sum.
LEMMA TotalChanges ==
  ASSUME NEW S, IsFiniteSet(S), NEW f \in [S -> Nat], NEW g \in [S -> Nat], NEW x \in S,
         \A y \in S \ {x} : g[y] = f[y]
  PROVE  SumFunction(g) = SumFunction(f) - f[x] + g[x]
<1>1. DOMAIN f = S /\ DOMAIN g = S
  OBVIOUS
<1>2. SumFunction(f) = SumFunctionOnSet(f, S) /\ SumFunction(g) = SumFunctionOnSet(g, S)
  BY <1>1 DEF SumFunction
<1>3. \A y \in S : f[y] \in Nat /\ g[y] \in Nat
  OBVIOUS
<1> QED
  BY <1>2, <1>3, SumChanges

\* The arithmetic of a cap: what is held fits under it, and what is resolved
\* beyond what was held is an overrun.
LEMMA CapKept ==
  ASSUME NEW cap \in Nat, NEW s \in Nat, NEW h \in Nat, NEW o \in Nat, s + h <= cap + o,
         NEW s1, NEW h1, NEW o1,
         \/ h1 \in Nat /\ s + h1 <= cap /\ s1 = s /\ o1 = o
         \/ /\ h1 \in 0 .. h /\ s1 \in Nat
            /\ LET excess == (s1 - s) - (h - h1)
               IN o1 = o + (IF excess > 0 THEN excess ELSE 0)
         \/ s1 = s /\ h1 = h /\ o1 = o
  PROVE  s1 \in Nat /\ h1 \in Nat /\ o1 \in Nat /\ s1 + h1 <= cap + o1
OBVIOUS
=============================================================================

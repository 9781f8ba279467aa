------------------------------ MODULE SumProofs ------------------------------
(***************************************************************************)
(* Lemmas about the sum of the values of a function over a finite set, the *)
(* operator with which the models add up amounts, quantities and exposures *)
(* (SumFunction and SumFunctionOnSet of the community module Functions).   *)
(* The definition folds over an element it chooses; the lemmas say that    *)
(* the order does not matter, and what a command that changes one summand, *)
(* adds one or changes several does to a sum.                              *)
(***************************************************************************)
EXTENDS Functions, Integers, FiniteSets, FiniteSetTheorems, WellFoundedInduction, TLAPS

\* What holds of a subset as soon as it holds of it without any one of its elements holds of every
\* subset of a finite set.  G is a set of subsets, so the rule needs no operator as a parameter.
LEMMA SubsetInduction ==
    ASSUME NEW S, IsFiniteSet(S), NEW G,
           \A T \in SUBSET S : (\A x \in T : T \ {x} \in G) => T \in G
    PROVE  \A T \in SUBSET S : T \in G
  <1> DEFINE B == {T \in SUBSET S : T \notin G}
  <1> SUFFICES ASSUME B # {} PROVE FALSE
    OBVIOUS
  <1>1. IsWellFoundedOn(StrictSubsetOrdering(S), SUBSET S)
    <2>1. FiniteSubsetsOf(S) = SUBSET S
      BY FS_FiniteSubsetsOfFinite
    <2>2. IsWellFoundedOn(StrictSubsetOrdering(S), FiniteSubsetsOf(S))
      BY FS_StrictSubsetOrderingWellFounded
    <2> QED BY <2>1, <2>2
  <1>2. \E T \in B : \A U \in B : <<U, T>> \notin StrictSubsetOrdering(S)
    <2> HIDE DEF B
    <2> B \subseteq SUBSET S BY DEF B
    <2> QED BY <1>1, WFMin
  <1>3. PICK T \in B : \A U \in B : <<U, T>> \notin StrictSubsetOrdering(S)
    BY <1>2
  <1>4. ASSUME NEW x \in T PROVE T \ {x} \in G
    <2>1. <<T \ {x}, T>> \in StrictSubsetOrdering(S)
      BY DEF StrictSubsetOrdering
    <2> QED BY <2>1, <1>3
  <1> QED BY <1>3, <1>4

\* Any natural numbers have a least one.
LEMMA LeastNumber ==
    ASSUME NEW T \in SUBSET Nat, T # {}
    PROVE  \E x \in T : \A y \in T : x <= y
<1>1. PICK n \in T : TRUE OBVIOUS
<1> DEFINE V == 0..n
           G == {U \in SUBSET V : U = {} \/ \E x \in U : \A y \in U : x <= y}
<1>2. IsFiniteSet(V)
  BY FS_Interval
<1>3. ASSUME NEW U \in SUBSET V, \A x \in U : U \ {x} \in G PROVE U \in G
  <2> SUFFICES ASSUME U # {} PROVE \E x \in U : \A y \in U : x <= y
    OBVIOUS
  <2>1. PICK x \in U : TRUE OBVIOUS
  <2>2. U \ {x} \in G BY <1>3, <2>1
  <2>3. CASE U \ {x} = {} BY <2>3, <2>1
  <2>4. CASE U \ {x} # {}
    <3>1. PICK z \in U \ {x} : \A y \in U \ {x} : z <= y BY <2>2, <2>4
    <3>2. x \in Int /\ z \in Int /\ \A y \in U : y \in Int OBVIOUS
    <3>3. CASE x <= z BY <3>1, <3>2, <3>3, <2>1
    <3>4. CASE ~(x <= z) BY <3>1, <3>2, <3>4, <2>1
    <3> QED BY <3>3, <3>4
  <2> QED BY <2>3, <2>4
<1> HIDE DEF G
<1>4. \A U \in SUBSET V : U \in G
  <2> HIDE DEF V
  <2> QED BY <1>2, <1>3, SubsetInduction
<1>5. PICK x \in T \intersect V : \A y \in T \intersect V : x <= y
  <2>1. T \intersect V \in G /\ n \in T \intersect V BY <1>4
  <2> QED BY <2>1 DEF G
<1>6. \A y \in T : x <= y
  <2> SUFFICES ASSUME NEW y \in T PROVE x <= y
    OBVIOUS
  <2>1. CASE y \in V BY <1>5, <2>1
  <2>2. CASE y \notin V BY <2>2
  <2> QED BY <2>1, <2>2
<1> QED BY <1>5, <1>6

-----------------------------------------------------------------------------
\* The fold behind a sum: g gives every subset of S its sum, an element it picks first.
Pick(s) == CHOOSE x \in s : TRUE
Body(f, g, s) == IF s = {} THEN 0 ELSE f[Pick(s)] + g[s \ {Pick(s)}]
Adds(f, g, S) == g = [s \in SUBSET S |-> Body(f, g, s)]

\* A sum is what such a fold gives the whole set.
LEMMA Unfold ==
   ASSUME NEW f, NEW S
   PROVE  SumFunctionOnSet(f, S) = (CHOOSE g : Adds(f, g, S))[S]
  BY DEF SumFunctionOnSet, FoldFunctionOnSet, MapThenFoldSet, Adds, Body, Pick

\* The element picked is one of the set.
LEMMA PickIn == ASSUME NEW s, s # {} PROVE Pick(s) \in s
  BY DEF Pick

\* A fold at one subset, in terms of a smaller one.
LEMMA AddsAt ==
   ASSUME NEW f, NEW S, NEW g, Adds(f, g, S), NEW s \in SUBSET S
   PROVE  g[s] = IF s = {} THEN 0 ELSE f[Pick(s)] + g[s \ {Pick(s)}]
  <1>1. g = [t \in SUBSET S |-> Body(f, g, t)]
    BY DEF Adds
  <1>2. g[s] = Body(f, g, s)
    <2> DEFINE h == [t \in SUBSET S |-> Body(f, g, t)]
    <2>1. h[s] = Body(f, g, s) OBVIOUS
    <2> HIDE DEF h
    <2> g = h BY <1>1 DEF h
    <2> QED BY <2>1
  <1> QED BY <1>2 DEF Body

\* Folds over a set and over a part of it agree on the subsets of the part.
LEMMA AddsAgree ==
   ASSUME NEW f, NEW S, IsFiniteSet(S), NEW g, Adds(f, g, S), NEW T \in SUBSET S, NEW h, Adds(f, h, T)
   PROVE  \A U \in SUBSET T : g[U] = h[U]
  <1> DEFINE G == {U \in SUBSET T : g[U] = h[U]}
  <1>1. ASSUME NEW U \in SUBSET T, \A x \in U : U \ {x} \in G PROVE U \in G
    <2>1. CASE U = {}
      <3>1. g[U] = 0 BY <2>1, AddsAt
      <3>2. h[U] = 0 BY <2>1, AddsAt
      <3> QED BY <3>1, <3>2
    <2>2. CASE U # {}
      <3>1. Pick(U) \in U BY <2>2, PickIn
      <3>2. g[U \ {Pick(U)}] = h[U \ {Pick(U)}] BY <3>1, <1>1
      <3>3. g[U] = f[Pick(U)] + g[U \ {Pick(U)}] BY <2>2, AddsAt
      <3>4. h[U] = f[Pick(U)] + h[U \ {Pick(U)}] BY <2>2, AddsAt
      <3> QED BY <3>2, <3>3, <3>4
    <2> QED BY <2>1, <2>2
  <1>2. IsFiniteSet(T) BY FS_Subset
  <1> HIDE DEF G
  <1>3. \A U \in SUBSET T : U \in G BY <1>1, <1>2, SubsetInduction
  <1> QED BY <1>3 DEF G

\* There is a fold over every subset of a finite set.
LEMMA AddsExists ==
   ASSUME NEW f, NEW S, IsFiniteSet(S)
   PROVE  \A T \in SUBSET S : \E g : Adds(f, g, T)
  <1> DEFINE G == {T \in SUBSET S : \A U \in SUBSET T : \E g : Adds(f, g, U)}
  <1>1. ASSUME NEW T \in SUBSET S, \A x \in T : T \ {x} \in G PROVE T \in G
    <2>1. ASSUME NEW U \in SUBSET T, U # T PROVE \E g : Adds(f, g, U)
      <3>1. PICK x \in T : x \notin U BY <2>1
      <3>2. T \ {x} \in G BY <1>1
      <3>3. U \in SUBSET (T \ {x}) BY <3>1
      <3> QED BY <3>2, <3>3
    <2>2. \E g : Adds(f, g, T)
      <3> DEFINE V(U) == (CHOOSE g : Adds(f, g, U))[U]
                 W == IF T = {} THEN 0 ELSE f[Pick(T)] + V(T \ {Pick(T)})
                 g0 == [U \in SUBSET T |-> IF U = T THEN W ELSE V(U)]
      <3>1. ASSUME NEW U \in SUBSET T PROVE g0[U] = Body(f, g0, U)
        <4>1. CASE U = T
          <5>1. CASE T = {} BY <4>1, <5>1 DEF Body
          <5>2. CASE T # {}
            <6>1. Pick(T) \in T BY <5>2, PickIn
            <6>2. T \ {Pick(T)} \in SUBSET T /\ T \ {Pick(T)} # T BY <6>1
            <6>3. g0[T \ {Pick(T)}] = V(T \ {Pick(T)}) BY <6>2
            <6>4. g0[T] = f[Pick(T)] + V(T \ {Pick(T)}) BY <5>2
            <6> HIDE DEF g0, V
            <6> QED BY <4>1, <5>2, <6>3, <6>4 DEF Body
          <5> QED BY <5>1, <5>2
        <4>2. CASE U # T
          <5>0. Adds(f, CHOOSE g : Adds(f, g, U), U) BY <2>1, <4>2
          <5>a. g0[U] = V(U) BY <4>2
          <5>1. CASE U = {}
            <6>1. V(U) = 0 BY <5>0, <5>1, AddsAt
            <6> HIDE DEF V, g0
            <6> QED BY <5>1, <5>a, <6>1 DEF Body
          <5>2. CASE U # {}
            <6> DEFINE X == U \ {Pick(U)}
            <6>1. Pick(U) \in U BY <5>2, PickIn
            <6>2. X \in SUBSET T /\ X # T /\ X \in SUBSET U BY <6>1
            <6>3. Adds(f, CHOOSE g : Adds(f, g, X), X)
              <7> HIDE DEF X
              <7> QED BY <6>2, <2>1
            <6>4. (CHOOSE g : Adds(f, g, U))[X] = V(X)
              <7>1. IsFiniteSet(U) BY FS_Subset
              <7>2. X \in SUBSET X OBVIOUS
              <7> HIDE DEF X
              <7> QED BY <7>1, <7>2, <5>0, <6>2, <6>3, AddsAgree
            <6>5. V(U) = f[Pick(U)] + V(X)
              <7>1. U \in SUBSET U OBVIOUS
              <7>2. V(U) = f[Pick(U)] + (CHOOSE g : Adds(f, g, U))[X]
                BY <5>0, <5>2, <7>1, AddsAt
              <7> HIDE DEF X
              <7> QED BY <6>4, <7>2
            <6>6. g0[X] = V(X)
              <7> HIDE DEF X
              <7> QED BY <6>2
            <6> HIDE DEF V, g0
            <6> QED BY <5>2, <5>a, <6>5, <6>6 DEF Body
          <5> QED BY <5>1, <5>2
        <4> QED BY <4>1, <4>2
      <3> HIDE DEF V, W
      <3>2. g0 = [U \in SUBSET T |-> g0[U]] OBVIOUS
      <3> HIDE DEF g0
      <3>3. g0 = [U \in SUBSET T |-> Body(f, g0, U)] BY <3>1, <3>2
      <3> QED BY <3>3 DEF Adds
    <2> QED BY <2>1, <2>2
  <1> HIDE DEF G
  <1>2. \A T \in SUBSET S : T \in G BY <1>1, SubsetInduction
  <1> QED BY <1>2 DEF G

-----------------------------------------------------------------------------
\* A sum is nothing over no element, and one summand plus the rest otherwise.
LEMMA SumDef ==
   ASSUME NEW f, NEW S, IsFiniteSet(S)
   PROVE  /\ S = {} => SumFunctionOnSet(f, S) = 0
          /\ S # {} => SumFunctionOnSet(f, S) = f[Pick(S)] + SumFunctionOnSet(f, S \ {Pick(S)})
  <1> DEFINE g == CHOOSE h : Adds(f, h, S)
             T == S \ {Pick(S)}
             h == CHOOSE h : Adds(f, h, T)
  <1>1. Adds(f, g, S) BY AddsExists
  <1>2. Adds(f, h, T)
    <2>1. T \in SUBSET S OBVIOUS
    <2> HIDE DEF T
    <2> QED BY <2>1, AddsExists
  <1>3. SumFunctionOnSet(f, S) = g[S] /\ SumFunctionOnSet(f, T) = h[T]
    BY Unfold
  <1>4. g[T] = h[T]
    <2>1. T \in SUBSET S /\ T \in SUBSET T OBVIOUS
    <2> HIDE DEF T, g, h
    <2> QED BY <1>1, <1>2, <2>1, AddsAgree
  <1> HIDE DEF g, h
  <1>5. S \in SUBSET S OBVIOUS
  <1>6. g[S] = IF S = {} THEN 0 ELSE f[Pick(S)] + g[S \ {Pick(S)}]
    BY <1>1, <1>5, AddsAt
  <1> QED BY <1>3, <1>4, <1>6

\* Nothing adds up to 0.
LEMMA SumEmpty == ASSUME NEW f PROVE SumFunctionOnSet(f, {}) = 0
  BY SumDef, FS_EmptySet

\* Sums of integers are integers.
LEMMA SumInt ==
   ASSUME NEW f, NEW S, IsFiniteSet(S), \A x \in S : f[x] \in Int
   PROVE  SumFunctionOnSet(f, S) \in Int
  <1> DEFINE G == {T \in SUBSET S : SumFunctionOnSet(f, T) \in Int}
  <1>1. ASSUME NEW T \in SUBSET S, \A x \in T : T \ {x} \in G PROVE T \in G
    <2>0. IsFiniteSet(T) BY FS_Subset
    <2>1. CASE T = {} BY <2>1, SumEmpty
    <2>2. CASE T # {}
      <3>1. Pick(T) \in T BY <2>2, PickIn
      <3>2. SumFunctionOnSet(f, T \ {Pick(T)}) \in Int BY <3>1, <1>1
      <3>3. SumFunctionOnSet(f, T) = f[Pick(T)] + SumFunctionOnSet(f, T \ {Pick(T)}) BY <2>0, <2>2, SumDef
      <3>4. f[Pick(T)] \in Int BY <3>1
      <3> QED BY <3>2, <3>3, <3>4
    <2> QED BY <2>1, <2>2
  <1> HIDE DEF G
  <1>2. \A T \in SUBSET S : T \in G BY <1>1, SubsetInduction
  <1> QED BY <1>2 DEF G

\* Any element can be taken out first.
LEMMA SumTake ==
   ASSUME NEW f, NEW S, IsFiniteSet(S), \A x \in S : f[x] \in Int
   PROVE  \A x \in S : SumFunctionOnSet(f, S) = f[x] + SumFunctionOnSet(f, S \ {x})
  <1> DEFINE G == {T \in SUBSET S : \A x \in T : SumFunctionOnSet(f, T) = f[x] + SumFunctionOnSet(f, T \ {x})}
  <1>1. ASSUME NEW T \in SUBSET S, \A x \in T : T \ {x} \in G PROVE T \in G
    <2> SUFFICES ASSUME NEW x \in T
                 PROVE  SumFunctionOnSet(f, T) = f[x] + SumFunctionOnSet(f, T \ {x})
      OBVIOUS
    <2> DEFINE p == Pick(T)
               R == (T \ {p}) \ {x}
    <2>0. IsFiniteSet(T) BY FS_Subset
    <2>1. p \in T BY PickIn
    <2>2. SumFunctionOnSet(f, T) = f[p] + SumFunctionOnSet(f, T \ {p}) BY <2>0, SumDef
    <2> HIDE DEF p
    <2>3. CASE x = p BY <2>2, <2>3
    <2>4. CASE x # p
      <3>1. SumFunctionOnSet(f, T \ {p}) = f[x] + SumFunctionOnSet(f, R)
        BY <1>1, <2>1, <2>4
      <3>2. SumFunctionOnSet(f, T \ {x}) = f[p] + SumFunctionOnSet(f, R)
        <4>1. (T \ {x}) \ {p} = R OBVIOUS
        <4>2. p \in T \ {x} /\ T \ {x} \in G BY <1>1, <2>1, <2>4
        <4> HIDE DEF R
        <4> QED BY <4>1, <4>2
      <3>3. f[x] \in Int /\ f[p] \in Int BY <2>1
      <3>4. SumFunctionOnSet(f, R) \in Int
        <4>1. R \in SUBSET S OBVIOUS
        <4> HIDE DEF R
        <4>2. IsFiniteSet(R) BY <4>1, FS_Subset
        <4> QED BY <4>1, <4>2, SumInt
      <3> HIDE DEF R
      <3> QED BY <2>2, <3>1, <3>2, <3>3, <3>4
    <2> QED BY <2>3, <2>4
  <1> HIDE DEF G
  <1>2. \A T \in SUBSET S : T \in G BY <1>1, SubsetInduction
  <1>3. S \in G BY <1>2
  <1> QED BY <1>3 DEF G

\* A sum depends on the values on its set only.
LEMMA SumSame ==
   ASSUME NEW f, NEW g, NEW S, IsFiniteSet(S), \A x \in S : f[x] = g[x]
   PROVE  SumFunctionOnSet(f, S) = SumFunctionOnSet(g, S)
  <1> DEFINE G == {T \in SUBSET S : SumFunctionOnSet(f, T) = SumFunctionOnSet(g, T)}
  <1>1. ASSUME NEW T \in SUBSET S, \A x \in T : T \ {x} \in G PROVE T \in G
    <2>0. IsFiniteSet(T) BY FS_Subset
    <2>1. CASE T = {} BY <2>1, SumEmpty
    <2>2. CASE T # {}
      <3>1. Pick(T) \in T BY <2>2, PickIn
      <3>2. SumFunctionOnSet(f, T \ {Pick(T)}) = SumFunctionOnSet(g, T \ {Pick(T)}) BY <3>1, <1>1
      <3>3. /\ SumFunctionOnSet(f, T) = f[Pick(T)] + SumFunctionOnSet(f, T \ {Pick(T)})
            /\ SumFunctionOnSet(g, T) = g[Pick(T)] + SumFunctionOnSet(g, T \ {Pick(T)})
        BY <2>0, <2>2, SumDef
      <3>4. f[Pick(T)] = g[Pick(T)] BY <3>1
      <3> QED BY <3>2, <3>3, <3>4
    <2> QED BY <2>1, <2>2
  <1> HIDE DEF G
  <1>2. \A T \in SUBSET S : T \in G BY <1>1, SubsetInduction
  <1> QED BY <1>2 DEF G

\* Sums of naturals are naturals.
LEMMA SumNat ==
   ASSUME NEW f, NEW S, IsFiniteSet(S), \A x \in S : f[x] \in Nat
   PROVE  SumFunctionOnSet(f, S) \in Nat
  <1> DEFINE G == {T \in SUBSET S : SumFunctionOnSet(f, T) \in Nat}
  <1>1. ASSUME NEW T \in SUBSET S, \A x \in T : T \ {x} \in G PROVE T \in G
    <2>0. IsFiniteSet(T) BY FS_Subset
    <2>1. CASE T = {} BY <2>1, SumEmpty
    <2>2. CASE T # {}
      <3>1. Pick(T) \in T BY <2>2, PickIn
      <3>2. SumFunctionOnSet(f, T \ {Pick(T)}) \in Nat BY <3>1, <1>1
      <3>3. SumFunctionOnSet(f, T) = f[Pick(T)] + SumFunctionOnSet(f, T \ {Pick(T)}) BY <2>0, <2>2, SumDef
      <3>4. f[Pick(T)] \in Nat BY <3>1
      <3> QED BY <3>2, <3>3, <3>4
    <2> QED BY <2>1, <2>2
  <1> HIDE DEF G
  <1>2. \A T \in SUBSET S : T \in G BY <1>1, SubsetInduction
  <1> QED BY <1>2 DEF G

\* Changing one summand changes the sum by as much.
LEMMA SumChange ==
   ASSUME NEW f, NEW g, NEW S, IsFiniteSet(S), NEW x \in S,
          \A y \in S : f[y] \in Int /\ g[y] \in Int,
          \A y \in S \ {x} : f[y] = g[y]
   PROVE  SumFunctionOnSet(g, S) = SumFunctionOnSet(f, S) - f[x] + g[x]
  <1>1. SumFunctionOnSet(f, S) = f[x] + SumFunctionOnSet(f, S \ {x}) BY SumTake
  <1>2. SumFunctionOnSet(g, S) = g[x] + SumFunctionOnSet(g, S \ {x}) BY SumTake
  <1>3. IsFiniteSet(S \ {x}) BY FS_RemoveElement
  <1>4. SumFunctionOnSet(f, S \ {x}) = SumFunctionOnSet(g, S \ {x}) BY <1>3, SumSame
  <1>5. SumFunctionOnSet(f, S \ {x}) \in Int BY <1>3, SumInt
  <1> QED BY <1>1, <1>2, <1>4, <1>5

\* Another element adds its summand.
LEMMA SumAdd ==
   ASSUME NEW f, NEW S, IsFiniteSet(S), NEW x, x \notin S, \A y \in S \union {x} : f[y] \in Int
   PROVE  SumFunctionOnSet(f, S \union {x}) = SumFunctionOnSet(f, S) + f[x]
  <1>1. IsFiniteSet(S \union {x}) BY FS_AddElement
  <1>2. SumFunctionOnSet(f, S \union {x}) = f[x] + SumFunctionOnSet(f, (S \union {x}) \ {x})
    BY <1>1, SumTake
  <1>3. (S \union {x}) \ {x} = S OBVIOUS
  <1>4. SumFunctionOnSet(f, S) \in Int BY SumInt
  <1>5. f[x] \in Int OBVIOUS
  <1>6. SumFunctionOnSet(f, S \union {x}) = f[x] + SumFunctionOnSet(f, S) BY <1>2, <1>3, Zenon
  <1> QED BY <1>4, <1>5, <1>6

\* Adding two functions adds their sums.
LEMMA SumPlus ==
   ASSUME NEW f, NEW g, NEW h, NEW S, IsFiniteSet(S),
          \A x \in S : f[x] \in Int /\ g[x] \in Int /\ h[x] = f[x] + g[x]
   PROVE  SumFunctionOnSet(h, S) = SumFunctionOnSet(f, S) + SumFunctionOnSet(g, S)
  <1> DEFINE G == {T \in SUBSET S : SumFunctionOnSet(h, T) = SumFunctionOnSet(f, T) + SumFunctionOnSet(g, T)}
  <1>1. ASSUME NEW T \in SUBSET S, \A x \in T : T \ {x} \in G PROVE T \in G
    <2>0. IsFiniteSet(T) BY FS_Subset
    <2>1. CASE T = {} BY <2>1, SumEmpty
    <2>2. CASE T # {}
      <3>1. Pick(T) \in T BY <2>2, PickIn
      <3>2. SumFunctionOnSet(h, T \ {Pick(T)}) = SumFunctionOnSet(f, T \ {Pick(T)}) + SumFunctionOnSet(g, T \ {Pick(T)})
        BY <3>1, <1>1
      <3>3. /\ SumFunctionOnSet(f, T) = f[Pick(T)] + SumFunctionOnSet(f, T \ {Pick(T)})
            /\ SumFunctionOnSet(g, T) = g[Pick(T)] + SumFunctionOnSet(g, T \ {Pick(T)})
            /\ SumFunctionOnSet(h, T) = h[Pick(T)] + SumFunctionOnSet(h, T \ {Pick(T)})
        BY <2>0, <2>2, SumDef
      <3>4. f[Pick(T)] \in Int /\ g[Pick(T)] \in Int /\ h[Pick(T)] = f[Pick(T)] + g[Pick(T)] BY <3>1
      <3>5. IsFiniteSet(T \ {Pick(T)}) BY <2>0, FS_RemoveElement
      <3>6. SumFunctionOnSet(f, T \ {Pick(T)}) \in Int /\ SumFunctionOnSet(g, T \ {Pick(T)}) \in Int BY <3>5, SumInt
      <3> QED BY <3>2, <3>3, <3>4, <3>6
    <2> QED BY <2>1, <2>2
  <1> HIDE DEF G
  <1>2. \A T \in SUBSET S : T \in G BY <1>1, SubsetInduction
  <1> QED BY <1>2 DEF G

\* A sum of naturals is at least each summand.
LEMMA SumBounds ==
   ASSUME NEW f, NEW S, IsFiniteSet(S), \A x \in S : f[x] \in Nat, NEW x \in S
   PROVE  f[x] <= SumFunctionOnSet(f, S)
  <1>1. SumFunctionOnSet(f, S) = f[x] + SumFunctionOnSet(f, S \ {x}) BY SumTake
  <1>2. IsFiniteSet(S \ {x}) BY FS_RemoveElement
  <1>3. SumFunctionOnSet(f, S \ {x}) \in Nat BY <1>2, SumNat
  <1> QED BY <1>1, <1>3

\* Zeros add up to 0.
LEMMA SumZero ==
   ASSUME NEW f, NEW S, IsFiniteSet(S), \A x \in S : f[x] = 0
   PROVE  SumFunctionOnSet(f, S) = 0
  <1> DEFINE G == {T \in SUBSET S : SumFunctionOnSet(f, T) = 0}
  <1>1. ASSUME NEW T \in SUBSET S, \A x \in T : T \ {x} \in G PROVE T \in G
    <2>0. IsFiniteSet(T) BY FS_Subset
    <2>1. CASE T = {} BY <2>1, SumEmpty
    <2>2. CASE T # {}
      <3>1. Pick(T) \in T BY <2>2, PickIn
      <3>2. SumFunctionOnSet(f, T \ {Pick(T)}) = 0 BY <3>1, <1>1
      <3>3. SumFunctionOnSet(f, T) = f[Pick(T)] + SumFunctionOnSet(f, T \ {Pick(T)}) BY <2>0, <2>2, SumDef
      <3>4. f[Pick(T)] = 0 BY <3>1
      <3> QED BY <3>2, <3>3, <3>4
    <2> QED BY <2>1, <2>2
  <1> HIDE DEF G
  <1>2. \A T \in SUBSET S : T \in G BY <1>1, SubsetInduction
  <1> QED BY <1>2 DEF G

\* Elements with the summand 0 can be left out.
LEMMA SumWithin ==
   ASSUME NEW f, NEW S, IsFiniteSet(S), \A x \in S : f[x] \in Int,
          NEW T \in SUBSET S, \A x \in S \ T : f[x] = 0
   PROVE  SumFunctionOnSet(f, S) = SumFunctionOnSet(f, T)
  <1> DEFINE G == {U \in SUBSET S : SumFunctionOnSet(f, U) = SumFunctionOnSet(f, U \intersect T)}
  <1>1. ASSUME NEW U \in SUBSET S, \A x \in U : U \ {x} \in G PROVE U \in G
    <2>0. IsFiniteSet(U) /\ IsFiniteSet(U \intersect T) BY FS_Subset
    <2>1. CASE U = {}
      <3>1. U \intersect T = U BY <2>1
      <3> QED BY <3>1
    <2>2. CASE U # {}
      <3>1. PICK x \in U : TRUE BY <2>2
      <3>2. SumFunctionOnSet(f, U) = f[x] + SumFunctionOnSet(f, U \ {x}) BY <2>0, SumTake
      <3>3. SumFunctionOnSet(f, U \ {x}) = SumFunctionOnSet(f, (U \ {x}) \intersect T) BY <1>1
      <3>4. CASE x \in T
        <4>1. SumFunctionOnSet(f, U \intersect T) = f[x] + SumFunctionOnSet(f, (U \intersect T) \ {x})
          BY <2>0, <3>4, SumTake
        <4>2. (U \intersect T) \ {x} = (U \ {x}) \intersect T OBVIOUS
        <4> QED BY <3>2, <3>3, <4>1, <4>2
      <3>5. CASE x \notin T
        <4>1. (U \ {x}) \intersect T = U \intersect T BY <3>5
        <4>2. IsFiniteSet(U \ {x}) BY <2>0, FS_RemoveElement
        <4>3. SumFunctionOnSet(f, U \ {x}) \in Int BY <4>2, SumInt
        <4>4. f[x] = 0 BY <3>5
        <4>5. SumFunctionOnSet(f, U) = SumFunctionOnSet(f, U \ {x}) BY <3>2, <4>3, <4>4
        <4>6. SumFunctionOnSet(f, U) = SumFunctionOnSet(f, U \intersect T) BY <3>3, <4>1, <4>5
        <4> QED BY <4>6
      <3> QED BY <3>4, <3>5
    <2> QED BY <2>1, <2>2
  <1>2. S \in G
    <2> HIDE DEF G
    <2> QED BY <1>1, SubsetInduction
  <1>3. S \intersect T = T OBVIOUS
  <1> QED BY <1>2, <1>3

\* Larger summands have the larger sum.
LEMMA SumOrder ==
   ASSUME NEW f, NEW g, NEW S, IsFiniteSet(S), \A x \in S : f[x] \in Int /\ g[x] \in Int /\ f[x] <= g[x]
   PROVE  SumFunctionOnSet(f, S) <= SumFunctionOnSet(g, S)
  <1> DEFINE h == [x \in S |-> g[x] - f[x]]
  <1>1. \A x \in S : h[x] \in Nat /\ h[x] \in Int /\ g[x] = f[x] + h[x]
    OBVIOUS
  <1> HIDE DEF h
  <1>2. SumFunctionOnSet(g, S) = SumFunctionOnSet(f, S) + SumFunctionOnSet(h, S)
    BY <1>1, SumPlus
  <1>3. SumFunctionOnSet(h, S) \in Nat
    BY <1>1, SumNat
  <1>4. SumFunctionOnSet(f, S) \in Int
    BY SumInt
  <1> QED BY <1>2, <1>3, <1>4

\* The operator of the models, of a function and of a part of one.
LEMMA SumOfAll == ASSUME NEW f, NEW S, DOMAIN f = S PROVE SumFunction(f) = SumFunctionOnSet(f, S)
  BY DEF SumFunction
\* The same of a function's own sum
LEMMA TotalInt ==
   ASSUME NEW S, IsFiniteSet(S), NEW f, DOMAIN f = S, \A x \in S : f[x] \in Int
   PROVE  SumFunction(f) \in Int
  BY SumOfAll, SumInt

LEMMA TotalNat ==
   ASSUME NEW S, IsFiniteSet(S), NEW f, DOMAIN f = S, \A x \in S : f[x] \in Nat
   PROVE  SumFunction(f) \in Nat
  BY SumOfAll, SumNat

LEMMA TotalZero ==
   ASSUME NEW S, IsFiniteSet(S), NEW f, DOMAIN f = S, \A x \in S : f[x] = 0
   PROVE  SumFunction(f) = 0
  BY SumOfAll, SumZero

LEMMA TotalSame ==
   ASSUME NEW S, IsFiniteSet(S), NEW f, NEW g, DOMAIN f = S, DOMAIN g = S, \A x \in S : f[x] = g[x]
   PROVE  SumFunction(f) = SumFunction(g)
  BY SumOfAll, SumSame

LEMMA TotalOrder ==
   ASSUME NEW S, IsFiniteSet(S), NEW f, NEW g, DOMAIN f = S, DOMAIN g = S,
          \A x \in S : f[x] \in Int /\ g[x] \in Int /\ f[x] <= g[x]
   PROVE  SumFunction(f) <= SumFunction(g)
  BY SumOfAll, SumOrder

LEMMA TotalChange ==
   ASSUME NEW S, IsFiniteSet(S), NEW x \in S, NEW f, NEW g, DOMAIN f = S, DOMAIN g = S,
          \A y \in S : f[y] \in Int /\ g[y] \in Int, \A y \in S \ {x} : f[y] = g[y]
   PROVE  SumFunction(g) = SumFunction(f) - f[x] + g[x]
  BY SumOfAll, SumChange

\* A sum over some of a set is that of the function that is 0 for the others.
LEMMA TotalWithin ==
   ASSUME NEW S, IsFiniteSet(S), NEW T \in SUBSET S, NEW f, NEW g, DOMAIN f = T, DOMAIN g = S,
          \A x \in S : g[x] \in Int /\ g[x] = IF x \in T THEN f[x] ELSE 0
   PROVE  SumFunction(f) = SumFunction(g)
  <1>1. IsFiniteSet(T) BY FS_Subset
  <1>2. SumFunctionOnSet(g, S) = SumFunctionOnSet(g, T) BY SumWithin
  <1>3. SumFunctionOnSet(f, T) = SumFunctionOnSet(g, T) BY <1>1, SumSame
  <1> QED BY <1>2, <1>3, SumOfAll

\* Summands that are each within one of another sum's own have the smaller sum.
LEMMA TotalInjection ==
   ASSUME NEW S, IsFiniteSet(S), NEW R, IsFiniteSet(R), NEW f, NEW g, NEW h, DOMAIN f = S, DOMAIN g = R,
          \A x \in S : h[x] \in R /\ f[x] \in Int /\ f[x] <= g[h[x]],
          \A y \in R : g[y] \in Nat,
          \A x, y \in S : h[x] = h[y] => x = y
   PROVE  SumFunction(f) <= SumFunction(g)
  <1> DEFINE Image(T) == {h[x] : x \in T}
             G == {T \in SUBSET S : SumFunctionOnSet(f, T) <= SumFunctionOnSet(g, Image(T))}
  <1>1. ASSUME NEW T \in SUBSET S, \A x \in T : T \ {x} \in G PROVE T \in G
    <2>0. IsFiniteSet(T) /\ Image(T) \in SUBSET R BY FS_Subset
    <2>1. IsFiniteSet(Image(T)) BY <2>0, FS_Subset
    <2>2. CASE T = {}
      <3>1. Image(T) = {} BY <2>2
      <3> HIDE DEF Image
      <3>2. SumFunctionOnSet(f, T) = 0 /\ SumFunctionOnSet(g, Image(T)) = 0 BY <2>2, <3>1, SumEmpty
      <3> QED BY <3>2
    <2>3. CASE T # {}
      <3>1. PICK x \in T : TRUE BY <2>3
      <3>2. SumFunctionOnSet(f, T) = f[x] + SumFunctionOnSet(f, T \ {x}) BY <2>0, SumTake
      <3>3. h[x] \in Image(T) /\ h[x] \in R BY <3>1
      <3>4. Image(T) \ {h[x]} = Image(T \ {x}) BY <3>1
      <3>5. SumFunctionOnSet(f, T \ {x}) <= SumFunctionOnSet(g, Image(T \ {x})) BY <1>1, <3>1
      <3> HIDE DEF Image
      <3>6. SumFunctionOnSet(g, Image(T)) = g[h[x]] + SumFunctionOnSet(g, Image(T) \ {h[x]})
        BY <2>0, <2>1, <3>3, SumTake
      <3>7. IsFiniteSet(T \ {x}) /\ IsFiniteSet(Image(T) \ {h[x]}) BY <2>0, <2>1, FS_RemoveElement
      <3>8. SumFunctionOnSet(f, T \ {x}) \in Int BY <3>7, SumInt
      <3>9. SumFunctionOnSet(g, Image(T) \ {h[x]}) \in Nat BY <2>0, <3>7, SumNat
      <3>10. f[x] \in Int /\ f[x] <= g[h[x]] /\ g[h[x]] \in Nat BY <3>1, <3>3
      <3>11. SumFunctionOnSet(f, T \ {x}) <= SumFunctionOnSet(g, Image(T) \ {h[x]}) BY <3>4, <3>5
      <3>12. SumFunctionOnSet(f, T) <= SumFunctionOnSet(g, Image(T))
        BY <3>2, <3>6, <3>8, <3>9, <3>10, <3>11
      <3> QED BY <3>12
    <2> QED BY <2>2, <2>3
  <1>2. S \in G
    <2> HIDE DEF G, Image
    <2>1. \A T \in SUBSET S : T \in G BY <1>1, SubsetInduction
    <2> QED BY <2>1
  <1>3. Image(S) \in SUBSET R OBVIOUS
  <1> DEFINE part == [y \in R |-> IF y \in Image(S) THEN g[y] ELSE 0]
  <1>4. SumFunctionOnSet(f, S) <= SumFunctionOnSet(g, Image(S)) BY <1>2
  <1> HIDE DEF Image, G
  <1>5. IsFiniteSet(Image(S)) BY <1>3, FS_Subset
  <1>6. \A y \in Image(S) : part[y] = g[y] BY <1>3
  <1>7. \A y \in R : part[y] \in Int /\ g[y] \in Int /\ part[y] <= g[y] BY <1>3
  <1>8. \A y \in R \ Image(S) : part[y] = 0 OBVIOUS
  <1> HIDE DEF part
  <1>9. SumFunctionOnSet(part, R) = SumFunctionOnSet(part, Image(S)) BY <1>3, <1>7, <1>8, SumWithin
  <1>10. SumFunctionOnSet(part, Image(S)) = SumFunctionOnSet(g, Image(S)) BY <1>5, <1>6, SumSame
  <1>11. SumFunctionOnSet(part, R) <= SumFunctionOnSet(g, R) BY <1>7, SumOrder
  <1>12. SumFunctionOnSet(g, Image(S)) <= SumFunctionOnSet(g, R) BY <1>9, <1>10, <1>11
  <1>13. SumFunctionOnSet(f, S) \in Int BY SumInt
  <1>14. SumFunctionOnSet(g, Image(S)) \in Int BY <1>3, <1>5, <1>7, SumInt
  <1>15. SumFunctionOnSet(g, R) \in Int BY <1>7, SumInt
  <1>16. SumFunctionOnSet(f, S) <= SumFunctionOnSet(g, R) BY <1>4, <1>12, <1>13, <1>14, <1>15
  <1> QED BY <1>16, SumOfAll
=============================================================================

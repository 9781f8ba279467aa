---------------------------- MODULE NettingProofs ----------------------------
(***************************************************************************)
(* What the calculation of a clearing cycle returns for every input: it    *)
(* balances, and leaves no closed path it could still clear; and that the  *)
(* cycles between nodes keep every net position.  The loops of the         *)
(* calculation are recursive functions over the number of the round: what  *)
(* every round keeps, the loop keeps (RunStays), and every round that goes *)
(* on uses up an obligation (UsedUp).                                      *)
(***************************************************************************)
EXTENDS FederatedNetting, SumProofs, SequenceTheorems

\* What holds of 0 and of every number up to k that follows one of which it holds, holds of k.
LEMMA StepByStep ==
   ASSUME NEW k \in Nat, NEW P, 0 \in P, \A i \in 1..k : i - 1 \in P => i \in P
   PROVE  \A i \in 0..k : i \in P
<1> DEFINE B == {i \in 0..k : i \notin P}
<1> SUFFICES ASSUME B # {} PROVE FALSE
  OBVIOUS
<1>1. B \in SUBSET Nat
  OBVIOUS
<1>2. PICK i \in B : \A j \in B : i <= j
  BY <1>1, LeastNumber
<1>3. i \in 1..k /\ i - 1 \in 0..k /\ i - 1 \notin B
  BY <1>2
<1> QED BY <1>2, <1>3

\* A loop over the states of S has a run of any length.
Runs(f, n, b, G) == DOMAIN f = 0..n /\ f[0] = b /\ \A i \in 1..n : f[i] = G[f[i - 1]]

LEMMA LoopExists ==
   ASSUME NEW S, NEW b \in S, NEW G \in [S -> S], NEW k \in Nat
   PROVE  \E f \in [0..k -> S] : Runs(f, k, b, G)
<1> DEFINE P == {n \in Nat : \E f \in [0..n -> S] : Runs(f, n, b, G)}
<1>1. 0 \in P
  <2>1. Runs([i \in 0..0 |-> b], 0, b, G) BY DEF Runs
  <2> QED BY <2>1
<1>2. ASSUME NEW n \in 1..k, n - 1 \in P PROVE n \in P
  <2>1. PICK f \in [0..n - 1 -> S] : Runs(f, n - 1, b, G) BY <1>2
  <2> DEFINE g == [i \in 0..n |-> IF i < n THEN f[i] ELSE G[f[n - 1]]]
  <2>2. \A i \in 0..n - 1 : f[i] \in S OBVIOUS
  <2>3. g \in [0..n -> S]
    <3>1. f[n - 1] \in S BY <2>2
    <3> QED BY <2>2, <3>1
  <2>4. g[0] = b BY <2>1 DEF Runs
  <2>5. ASSUME NEW i \in 1..n PROVE g[i] = G[g[i - 1]]
    <3>1. g[i - 1] = f[i - 1] OBVIOUS
    <3>2. CASE i < n
      <4>1. g[i] = f[i] /\ i \in 1..n - 1 BY <3>2
      <4> HIDE DEF g
      <4> QED BY <2>1, <3>1, <4>1 DEF Runs
    <3>3. CASE i = n BY <3>1, <3>3
    <3> QED BY <3>2, <3>3
  <2> HIDE DEF g
  <2>6. Runs(g, n, b, G) BY <2>3, <2>4, <2>5 DEF Runs
  <2> QED BY <2>3, <2>6
<1>3. k \in P
  <2> HIDE DEF P
  <2>1. \A i \in 0..k : i \in P BY <1>1, <1>2, StepByStep
  <2> QED BY <2>1
<1> QED BY <1>3

\* What holds at the start of a run and is kept by each of its rounds holds all along.
LEMMA RunStays ==
   ASSUME NEW S, NEW k \in Nat, NEW g, g[0] \in S, \A i \in 1..k : g[i - 1] \in S => g[i] \in S
   PROVE  \A i \in 0..k : g[i] \in S
<1> DEFINE P == {i \in 0..k : g[i] \in S}
<1>1. 0 \in P
  OBVIOUS
<1>2. \A i \in 1..k : i - 1 \in P => i \in P
  OBVIOUS
<1> HIDE DEF P
<1>3. \A i \in 0..k : i \in P
  BY <1>1, <1>2, StepByStep
<1> QED BY <1>3 DEF P

-----------------------------------------------------------------------------
\* What the proofs ask of the obligations and of the policy: a member owes another, and there
\* are finitely many obligations, numbered like the members in the order of their identifiers.
NettingAssumptions ==
    /\ IsFiniteSet(Obligations) /\ Obligations \subseteq Nat
    /\ \A o \in Obligations : Terms[o].debtor \in Nat /\ Terms[o].creditor \in Nat
    /\ \A o \in Obligations : Terms[o].debtor # Terms[o].creditor
    /\ MinimumOperation \in Nat /\ MaxIterations \in Nat /\ MaxCycleLength \in Int

\* What the amounts f are to member m: what he is owed is his, what he owes is not
Share(f, m) == [o \in DOMAIN f |-> IF Terms[o].creditor = m THEN f[o]
                                   ELSE IF Terms[o].debtor = m THEN 0 - f[o] ELSE 0]

\* A net position is one sum over the obligations.
LEMMA NetIsShares ==
   ASSUME NettingAssumptions, NEW S \in SUBSET Obligations, NEW f \in [S -> Int], NEW m
   PROVE  /\ Net(m, f) = SumFunctionOnSet(Share(f, m), S) /\ Net(m, f) \in Int
          /\ Payable(m, f) \in Int
<1> DEFINE owed == [o \in S |-> IF Terms[o].creditor = m THEN f[o] ELSE 0]
           owes == [o \in S |-> IF Terms[o].debtor = m THEN f[o] ELSE 0]
<1>0. IsFiniteSet(S)
  BY FS_Subset DEF NettingAssumptions
<1>1. /\ \A o \in S : owed[o] \in Int /\ owes[o] \in Int /\ Share(f, m)[o] \in Int
      /\ \A o \in S : owed[o] = Share(f, m)[o] + owes[o]
  BY DEF Share, NettingAssumptions
<1>2. Payable(m, f) = SumFunctionOnSet(owes, S)
  <2> DEFINE T == {p \in S : Terms[p].debtor = m}
             part == [o \in {p \in DOMAIN f : Terms[p].debtor = m} |-> f[o]]
  <2>1. T \in SUBSET S /\ DOMAIN part = T /\ \A o \in T : part[o] = f[o] OBVIOUS
  <2>2. DOMAIN owes = S /\ \A o \in S : owes[o] \in Int /\ owes[o] = IF o \in T THEN part[o] ELSE 0
    OBVIOUS
  <2>3. Payable(m, f) = SumFunction(part) BY DEF Payable
  <2> HIDE DEF owes, T, part
  <2> QED BY <1>0, <2>1, <2>2, <2>3, TotalWithin, SumOfAll
<1>3. Receivable(m, f) = SumFunctionOnSet(owed, S)
  <2> DEFINE T == {p \in S : Terms[p].creditor = m}
             part == [o \in {p \in DOMAIN f : Terms[p].creditor = m} |-> f[o]]
  <2>1. T \in SUBSET S /\ DOMAIN part = T /\ \A o \in T : part[o] = f[o] OBVIOUS
  <2>2. DOMAIN owed = S /\ \A o \in S : owed[o] \in Int /\ owed[o] = IF o \in T THEN part[o] ELSE 0
    OBVIOUS
  <2>3. Receivable(m, f) = SumFunction(part) BY DEF Receivable
  <2> HIDE DEF owed, T, part
  <2> QED BY <1>0, <2>1, <2>2, <2>3, TotalWithin, SumOfAll
<1> HIDE DEF owed, owes
<1>4. SumFunctionOnSet(owed, S) = SumFunctionOnSet(Share(f, m), S) + SumFunctionOnSet(owes, S)
  BY <1>0, <1>1, SumPlus
<1>5. SumFunctionOnSet(Share(f, m), S) \in Int /\ SumFunctionOnSet(owes, S) \in Int
  BY <1>0, <1>1, SumInt
<1> QED BY <1>2, <1>3, <1>4, <1>5 DEF Net

\* Adding up amounts adds up positions.
LEMMA NetAdds ==
   ASSUME NettingAssumptions, NEW S \in SUBSET Obligations, NEW m,
          NEW f \in [S -> Int], NEW g \in [S -> Int], NEW h \in [S -> Int], \A o \in S : h[o] = f[o] + g[o]
   PROVE  Net(m, h) = Net(m, f) + Net(m, g)
<1>1. IsFiniteSet(S)
  BY FS_Subset DEF NettingAssumptions
<1>2. \A o \in S : /\ Share(f, m)[o] \in Int /\ Share(g, m)[o] \in Int
                   /\ Share(h, m)[o] = Share(f, m)[o] + Share(g, m)[o]
  BY DEF Share
<1>3. SumFunctionOnSet(Share(h, m), S) = SumFunctionOnSet(Share(f, m), S) + SumFunctionOnSet(Share(g, m), S)
  BY <1>1, <1>2, SumPlus
<1> QED BY <1>3, NetIsShares

\* A closed path: each of its members owes once and is owed once in it
Ring(P) ==
    \A o \in P :
        /\ \E x \in P : Terms[x].creditor = Terms[o].debtor
        /\ \E x \in P : Terms[x].debtor = Terms[o].creditor
        /\ \A x \in P : (Terms[x].debtor = Terms[o].debtor \/ Terms[x].creditor = Terms[o].creditor) => x = o

\* One amount along a closed path is nothing to anybody.
LEMMA RingIsNeutral ==
   ASSUME NettingAssumptions, NEW S \in SUBSET Obligations, NEW P \in SUBSET S, Ring(P), NEW a \in Int, NEW m,
          NEW f \in [S -> Int], \A o \in S : f[o] = IF o \in P THEN a ELSE 0
   PROVE  Net(m, f) = 0
<1> DEFINE h == Share(f, m)
<1>0. IsFiniteSet(S)
  BY FS_Subset DEF NettingAssumptions
<1>1. \A o \in S : h[o] \in Int
  BY DEF Share
<1>2. CASE \A o \in P : Terms[o].debtor # m
  <2>1. \A o \in P : Terms[o].creditor # m BY <1>2 DEF Ring
  <2>2. \A o \in S : h[o] = 0 BY <1>2, <2>1 DEF Share
  <2> HIDE DEF h
  <2>3. SumFunctionOnSet(h, S) = 0 BY <1>0, <2>2, SumZero
  <2> QED BY <2>3, NetIsShares DEF h
<1>3. CASE \E o \in P : Terms[o].debtor = m
  <2>1. PICK x \in P : Terms[x].debtor = m BY <1>3
  <2>2. PICK y \in P : Terms[y].creditor = m BY <2>1 DEF Ring
  <2> DEFINE T == {x, y}
  <2>3. x # y /\ T \in SUBSET S BY <2>1, <2>2 DEF NettingAssumptions
  <2>4. \A o \in S \ T : h[o] = 0 BY <2>1, <2>2 DEF Share, Ring
  <2>5. h[x] = 0 - a /\ h[y] = a BY <2>1, <2>2, <2>3 DEF Share, NettingAssumptions
  <2>6. T \ {x} = {y} /\ {y} \ {y} = {} /\ x \in T /\ y \in {y} BY <2>3
  <2>7. IsFiniteSet({y}) /\ IsFiniteSet(T) BY <1>0, <2>3, FS_Subset, FS_Singleton
  <2>8. \A o \in T : h[o] \in Int BY <1>1, <2>3
  <2> HIDE DEF h, T
  <2>9. SumFunctionOnSet(h, S) = SumFunctionOnSet(h, T) BY <1>0, <1>1, <2>3, <2>4, SumWithin
  <2>10. SumFunctionOnSet(h, T) = h[x] + SumFunctionOnSet(h, {y}) BY <2>6, <2>7, <2>8, SumTake
  <2>11. SumFunctionOnSet(h, {y}) = h[y] + SumFunctionOnSet(h, {}) BY <1>1, <2>6, <2>7, SumTake
  <2>12. SumFunctionOnSet(h, {}) = 0 BY SumEmpty
  <2>13. SumFunctionOnSet(h, S) = 0 BY <2>5, <2>9, <2>10, <2>11, <2>12
  <2> QED BY <2>13, NetIsShares DEF h
<1> QED BY <1>2, <1>3

-----------------------------------------------------------------------------
\* A state s of the calculation over what was available at first: no more is available of an
\* obligation, and what is left is worth the same to everybody.
Sound(s, top) ==
    /\ s \in [left : [DOMAIN top -> Nat], n : Nat]
    /\ \A o \in DOMAIN top : s.left[o] <= top[o]
    /\ \A m : Net(m, s.left) = Net(m, top)

\* An allocation of what is available along a closed path leaves the calculation sound.
LEMMA AllocateSound ==
   ASSUME NettingAssumptions, NEW D \in SUBSET Obligations, NEW top \in [D -> Nat], NEW s, Sound(s, top),
          NEW P \in SUBSET D, Ring(P), NEW a \in Nat, \A o \in P : a <= s.left[o]
   PROVE  Sound(Engine!Allocate(s, P, a), top)
<1> DEFINE t == Engine!Allocate(s, P, a)
           d == [o \in D |-> IF o \in P THEN a ELSE 0]
<1>1. s.left \in [D -> Nat] /\ s.n \in Nat
  BY DEF Sound
<1>2. /\ t = [left |-> t.left, n |-> s.n + 1] /\ DOMAIN t.left = D
      /\ \A o \in D : t.left[o] = IF o \in P THEN s.left[o] - a ELSE s.left[o]
  BY <1>1 DEF Engine!Allocate
<1>3. t.left = [o \in D |-> IF o \in P THEN s.left[o] - a ELSE s.left[o]]
  BY <1>1 DEF Engine!Allocate
<1> HIDE DEF t
<1>4. ASSUME NEW o \in D PROVE t.left[o] \in Nat /\ t.left[o] <= top[o]
  <2>1. s.left[o] \in Nat /\ s.left[o] <= top[o] /\ top[o] \in Nat BY <1>1 DEF Sound
  <2>2. CASE o \in P BY <1>2, <2>1, <2>2
  <2>3. CASE o \notin P BY <1>2, <2>1, <2>3
  <2> QED BY <2>2, <2>3
<1>5. t.left \in [D -> Nat]
  BY <1>2, <1>3, <1>4
<1>6. ASSUME NEW m PROVE Net(m, t.left) = Net(m, top)
  <2>1. d \in [D -> Int] /\ s.left \in [D -> Int] /\ t.left \in [D -> Int] BY <1>1, <1>5
  <2>2. \A o \in D : s.left[o] = t.left[o] + d[o]
    <3> SUFFICES ASSUME NEW o \in D PROVE s.left[o] = t.left[o] + d[o]
      OBVIOUS
    <3>1. s.left[o] \in Int BY <1>1
    <3> QED BY <1>2, <3>1
  <2>3. \A o \in D : d[o] = IF o \in P THEN a ELSE 0 OBVIOUS
  <2> HIDE DEF d
  <2>4. Net(m, s.left) = Net(m, t.left) + Net(m, d) BY <2>1, <2>2, NetAdds
  <2>5. Net(m, d) = 0 BY <2>1, <2>3, RingIsNeutral
  <2>6. Net(m, t.left) \in Int BY <2>1, NetIsShares
  <2> QED BY <2>4, <2>5, <2>6 DEF Sound
<1>7. t \in [left : [D -> Nat], n : Nat]
  BY <1>1, <1>2, <1>5
<1>8. Sound(t, top)
  BY <1>4, <1>6, <1>7 DEF Sound
<1> QED BY <1>8 DEF t

-----------------------------------------------------------------------------
\* The lowest number of a set is one of it.
LEMMA MinIn ==
   ASSUME NEW T \in SUBSET Nat, T # {}
   PROVE  Engine!Min(T) \in T /\ \A x \in T : Engine!Min(T) <= x
BY LeastNumber DEF Engine!Min

LEMMA RoundedBelow ==
   ASSUME NettingAssumptions, NEW a \in Nat
   PROVE  Engine!Rounded(a) \in Nat /\ Engine!Rounded(a) <= a
BY DEF Engine!Rounded, NettingAssumptions

\* The states of the loop over one pair
Facing(top, l, r) ==
    {t \in [s : [left : [DOMAIN top -> Nat], n : Nat], there : SUBSET DOMAIN top, back : SUBSET DOMAIN top] :
        /\ Sound(t.s, top)
        /\ \A o \in t.there : Terms[o].debtor = l /\ Terms[o].creditor = r
        /\ \A o \in t.back : Terms[o].debtor = r /\ Terms[o].creditor = l}

\* A round of the loop over one pair stays in them: two facing obligations are a closed path.
LEMMA OffsetRoundSound ==
   ASSUME NettingAssumptions, NEW D \in SUBSET Obligations, NEW top \in [D -> Nat],
          NEW l, NEW r, NEW t \in Facing(top, l, r)
   PROVE  Engine!OffsetRound(t) \in Facing(top, l, r)
<1> DEFINE first  == Engine!Min(t.there)
           second == Engine!Min(t.back)
           amount == Engine!Rounded(Engine!Min({t.s.left[first], t.s.left[second]}))
           next   == Engine!Allocate(t.s, {first, second}, amount)
           Rest(q, o) == IF next.left[o] < MinimumOperation THEN q \ {o} ELSE q
<1>1. /\ Sound(t.s, top) /\ t.there \in SUBSET D /\ t.back \in SUBSET D
      /\ t.s \in [left : [D -> Nat], n : Nat] /\ t = [s |-> t.s, there |-> t.there, back |-> t.back]
  BY DEF Facing
<1>2. Engine!OffsetRound(t) =
        IF t.there = {} \/ t.back = {} \/ t.s.n >= MaxIterations THEN t
        ELSE IF amount <= 0 THEN [t EXCEPT !.there = {}]
        ELSE [s |-> next, there |-> Rest(t.there, first), back |-> Rest(t.back, second)]
  BY DEF Engine!OffsetRound
<1>3. [t EXCEPT !.there = {}] \in Facing(top, l, r)
  BY <1>1 DEF Facing
<1>4. ASSUME t.there # {}, t.back # {}
      PROVE  [s |-> next, there |-> Rest(t.there, first), back |-> Rest(t.back, second)] \in Facing(top, l, r)
  <2>1. t.there \in SUBSET Nat /\ t.back \in SUBSET Nat BY <1>1 DEF NettingAssumptions
  <2>2. first \in t.there /\ second \in t.back BY <1>4, <2>1, MinIn
  <2>3. /\ Terms[first].debtor = l /\ Terms[first].creditor = r
        /\ Terms[second].debtor = r /\ Terms[second].creditor = l
    BY <2>2 DEF Facing
  <2>4. first \in D /\ second \in D BY <1>1, <2>2
  <2> HIDE DEF first, second
  <2>5. l # r BY <2>3, <2>4 DEF NettingAssumptions
  <2>6. Ring({first, second}) BY <2>3, <2>5 DEF Ring
  <2> DEFINE both == {t.s.left[first], t.s.left[second]}
  <2>7. both \in SUBSET Nat /\ both # {} /\ t.s.left[first] \in both /\ t.s.left[second] \in both
    BY <1>1, <2>4
  <2>8. amount \in Nat /\ amount <= Engine!Min(both) /\ Engine!Min(both) \in Nat
        /\ Engine!Min(both) <= t.s.left[first] /\ Engine!Min(both) <= t.s.left[second]
    <3> HIDE DEF both
    <3>1. Engine!Min(both) \in both /\ \A x \in both : Engine!Min(both) <= x BY <2>7, MinIn
    <3>2. Engine!Min(both) \in Nat BY <2>7, <3>1
    <3>3. Engine!Rounded(Engine!Min(both)) \in Nat /\ Engine!Rounded(Engine!Min(both)) <= Engine!Min(both)
      BY <3>2, RoundedBelow
    <3> QED BY <2>7, <3>1, <3>2, <3>3 DEF both
  <2> HIDE DEF amount, both
  <2>9. \A o \in {first, second} : amount <= t.s.left[o]
    <3>1. t.s.left[first] \in Nat /\ t.s.left[second] \in Nat BY <1>1, <2>4
    <3> QED BY <2>8, <3>1
  <2>10. {first, second} \in SUBSET D BY <2>4
  <2>11. Sound(next, top) BY <1>1, <2>6, <2>8, <2>9, <2>10, AllocateSound
  <2> HIDE DEF next
  <2>12. Rest(t.there, first) \in SUBSET t.there /\ Rest(t.back, second) \in SUBSET t.back OBVIOUS
  <2> HIDE DEF Rest
  <2>13. next \in [left : [D -> Nat], n : Nat] BY <2>11 DEF Sound
  <2> QED BY <1>1, <2>11, <2>12, <2>13 DEF Facing
<1> HIDE DEF amount, next, Rest, first, second
<1>5. CASE t.there = {} \/ t.back = {} \/ t.s.n >= MaxIterations
  BY <1>2, <1>5
<1>6. CASE ~(t.there = {} \/ t.back = {} \/ t.s.n >= MaxIterations)
  BY <1>2, <1>3, <1>4, <1>6
<1> QED BY <1>5, <1>6

\* The loop over one pair is a run of its rounds.
LEMMA OffsetRuns ==
   ASSUME NettingAssumptions, NEW D \in SUBSET Obligations, NEW top \in [D -> Nat],
          NEW l, NEW r, NEW s, Sound(s, top)
   PROVE  \E h : /\ h[0] = [s |-> s, there |-> Engine!Owed(s, l, r), back |-> Engine!Owed(s, r, l)]
                 /\ \A i \in 1..MaxIterations : h[i] = Engine!OffsetRound(h[i - 1])
                 /\ \A i \in 0..MaxIterations : h[i] \in Facing(top, l, r)
                 /\ Engine!Offset(s, l, r) = h[MaxIterations].s
<1> DEFINE S == Facing(top, l, r)
           b == [s |-> s, there |-> Engine!Owed(s, l, r), back |-> Engine!Owed(s, r, l)]
           R == [x \in S |-> Engine!OffsetRound(x)]
           Is(g) == g = [i \in 0..MaxIterations |-> IF i = 0 THEN b ELSE Engine!OffsetRound(g[i - 1])]
           g == CHOOSE g : Is(g)
<1>1. MaxIterations \in Nat
  BY DEF NettingAssumptions
<1>2. b \in S
  BY DEF Facing, Sound, Engine!Owed, Engine!Debtor, Engine!Creditor
<1>3. \A x \in S : Engine!OffsetRound(x) \in S
  BY OffsetRoundSound
<1>4. Engine!Offset(s, l, r) = g[MaxIterations].s
  BY DEF Engine!Offset, Engine!After
<1> HIDE DEF S, b
<1>5. \E f : Is(f)
  <2>1. R \in [S -> S] BY <1>3
  <2>2. \A x \in S : R[x] = Engine!OffsetRound(x) OBVIOUS
  <2> HIDE DEF R
  <2>3. PICK f \in [0..MaxIterations -> S] : Runs(f, MaxIterations, b, R)
    BY <1>1, <1>2, <2>1, LoopExists
  <2>4. ASSUME NEW i \in 0..MaxIterations PROVE f[i] = IF i = 0 THEN b ELSE Engine!OffsetRound(f[i - 1])
    <3>1. CASE i = 0 BY <2>3, <3>1 DEF Runs
    <3>2. CASE i # 0
      <4>1. i \in 1..MaxIterations /\ f[i - 1] \in S BY <1>1, <3>2
      <4>2. f[i] = R[f[i - 1]] BY <2>3, <4>1 DEF Runs
      <4> QED BY <2>2, <3>2, <4>1, <4>2
    <3> QED BY <3>1, <3>2
  <2>5. f = [i \in 0..MaxIterations |-> f[i]] OBVIOUS
  <2>6. Is(f) BY <2>4, <2>5
  <2> QED BY <2>6
<1>6. Is(g)
  <2> HIDE DEF Is
  <2> QED BY <1>5
<1> HIDE DEF g
<1>7. \A i \in 0..MaxIterations : g[i] = IF i = 0 THEN b ELSE Engine!OffsetRound(g[i - 1])
  BY <1>6
<1>8. g[0] = b /\ \A i \in 1..MaxIterations : g[i] = Engine!OffsetRound(g[i - 1])
  BY <1>1, <1>7
<1>9. \A i \in 0..MaxIterations : g[i] \in S
  BY <1>1, <1>2, <1>3, <1>8, RunStays
<1> QED BY <1>4, <1>8, <1>9 DEF S, b

\* The loop over one pair leaves the calculation sound.
LEMMA OffsetSound ==
   ASSUME NettingAssumptions, NEW D \in SUBSET Obligations, NEW top \in [D -> Nat],
          NEW l, NEW r, NEW s, Sound(s, top)
   PROVE  Sound(Engine!Offset(s, l, r), top)
<1>1. PICK h : /\ h[0] = [s |-> s, there |-> Engine!Owed(s, l, r), back |-> Engine!Owed(s, r, l)]
               /\ \A i \in 1..MaxIterations : h[i] = Engine!OffsetRound(h[i - 1])
               /\ \A i \in 0..MaxIterations : h[i] \in Facing(top, l, r)
               /\ Engine!Offset(s, l, r) = h[MaxIterations].s
  BY OffsetRuns
<1>2. MaxIterations \in 0..MaxIterations
  BY DEF NettingAssumptions
<1> QED BY <1>1, <1>2 DEF Facing

-----------------------------------------------------------------------------
\* The values of a function on a finite set are finitely many.
LEMMA ImageFinite ==
   ASSUME NEW S, IsFiniteSet(S), NEW f, DOMAIN f = S, NEW T, T = {f[x] : x \in S}
   PROVE  IsFiniteSet(T)
<1> DEFINE h == [x \in S |-> f[x]]
<1>1. h \in Surjection(S, T)
  BY DEF Surjection
<1> HIDE DEF h
<1> QED BY <1>1, FS_Surjection

\* The members of the obligations of D, and the pairs of them
PersonsOf(D) == {Terms[o].debtor : o \in D} \union {Terms[o].creditor : o \in D}
PairsOf(D) == {p \in PersonsOf(D) \X PersonsOf(D) : p[1] < p[2]}

LEMMA PairsFinite ==
   ASSUME NettingAssumptions, NEW D \in SUBSET Obligations
   PROVE  IsFiniteSet(PairsOf(D)) /\ IsFiniteSet(PersonsOf(D)) /\ PersonsOf(D) \in SUBSET Nat
<1>0. IsFiniteSet(D)
  BY FS_Subset DEF NettingAssumptions
<1>1. IsFiniteSet({Terms[o].debtor : o \in D})
  <2> DEFINE f == [o \in D |-> Terms[o].debtor]
             T == {Terms[o].debtor : o \in D}
  <2>1. T = {f[o] : o \in D} OBVIOUS
  <2>2. DOMAIN f = D OBVIOUS
  <2> HIDE DEF f, T
  <2>3. IsFiniteSet(T) BY <1>0, <2>1, <2>2, ImageFinite
  <2> QED BY <2>3 DEF T
<1>2. IsFiniteSet({Terms[o].creditor : o \in D})
  <2> DEFINE f == [o \in D |-> Terms[o].creditor]
             T == {Terms[o].creditor : o \in D}
  <2>1. T = {f[o] : o \in D} OBVIOUS
  <2>2. DOMAIN f = D OBVIOUS
  <2> HIDE DEF f, T
  <2>3. IsFiniteSet(T) BY <1>0, <2>1, <2>2, ImageFinite
  <2> QED BY <2>3 DEF T
<1>3. IsFiniteSet(PersonsOf(D))
  BY <1>1, <1>2, FS_Union DEF PersonsOf
<1>4. IsFiniteSet(PersonsOf(D) \X PersonsOf(D))
  BY <1>3, FS_Product
<1>5. PairsOf(D) \in SUBSET (PersonsOf(D) \X PersonsOf(D))
  BY DEF PairsOf
<1>6. PersonsOf(D) \in SUBSET Nat
  BY DEF PersonsOf, NettingAssumptions
<1> QED BY <1>3, <1>4, <1>5, <1>6, FS_Subset

\* Among pairs of numbers there is a first one.
LEMMA FirstPairIn ==
   ASSUME NEW P \in SUBSET (Nat \X Nat), P # {}
   PROVE  Engine!FirstPair(P) \in P
<1> DEFINE A == {p[1] : p \in P}
<1>1. A \in SUBSET Nat /\ A # {}
  OBVIOUS
<1>2. PICK a \in A : \A x \in A : a <= x
  <2> HIDE DEF A
  <2> QED BY <1>1, LeastNumber
<1> DEFINE B == {p[2] : p \in {q \in P : q[1] = a}}
<1>3. B \in SUBSET Nat /\ B # {}
  BY <1>2
<1>4. PICK b \in B : \A x \in B : b <= x
  <2> HIDE DEF A, B
  <2> QED BY <1>3, LeastNumber
<1>5. PICK p \in P : p[1] = a /\ p[2] = b
  BY <1>4
<1>6. ASSUME NEW q \in P PROVE p[1] < q[1] \/ (p[1] = q[1] /\ p[2] <= q[2])
  <2>1. q[1] \in A /\ a <= q[1] /\ a \in Nat /\ q[1] \in Nat BY <1>1, <1>2
  <2>2. CASE q[1] = a
    <3>1. q[2] \in B BY <2>2
    <3> QED BY <1>4, <1>5, <2>2, <3>1
  <2>3. CASE q[1] # a BY <1>5, <2>1, <2>3
  <2> QED BY <2>2, <2>3
<1> HIDE DEF A, B
<1> QED BY <1>5, <1>6 DEF Engine!FirstPair

\* The states of the loop over the pairs
Sweeping(top) ==
    {t \in [s : [left : [DOMAIN top -> Nat], n : Nat], pairs : SUBSET PairsOf(DOMAIN top)] : Sound(t.s, top)}

LEMMA PairRoundSound ==
   ASSUME NettingAssumptions, NEW D \in SUBSET Obligations, NEW top \in [D -> Nat], NEW t \in Sweeping(top)
   PROVE  Engine!PairRound(t) \in Sweeping(top)
<1> DEFINE p == Engine!FirstPair(t.pairs)
           next == Engine!Offset(t.s, p[1], p[2])
<1>1. Sound(t.s, top) /\ t.pairs \in SUBSET PairsOf(D)
  BY DEF Sweeping
<1>2. Sound(next, top)
  BY <1>1, OffsetSound
<1>3. Engine!PairRound(t) = IF t.pairs = {} THEN t ELSE [s |-> next, pairs |-> t.pairs \ {p}]
  BY DEF Engine!PairRound
<1> HIDE DEF p, next
<1>4. [s |-> next, pairs |-> t.pairs \ {p}] \in Sweeping(top)
  BY <1>1, <1>2 DEF Sweeping, Sound
<1> QED BY <1>3, <1>4

\* The bilateral offsets are a run of rounds, one for each pair.
LEMMA BilateralRuns ==
   ASSUME NettingAssumptions, NEW D \in SUBSET Obligations, NEW top \in [D -> Nat], NEW s, Sound(s, top),
          NEW k, k = Cardinality(PairsOf(D))
   PROVE  /\ k \in Nat
          /\ \E h : /\ h[0] = [s |-> s, pairs |-> PairsOf(D)]
                    /\ \A i \in 1..k : h[i] = Engine!PairRound(h[i - 1])
                    /\ \A i \in 0..k : h[i] \in Sweeping(top)
                    /\ Engine!Bilateral(s) = h[k].s
<1> DEFINE S == Sweeping(top)
           b == [s |-> s, pairs |-> Engine!Pairs(s)]
           R == [x \in S |-> Engine!PairRound(x)]
           Is(g) == g = [i \in 0..k |-> IF i = 0 THEN b ELSE Engine!PairRound(g[i - 1])]
           g == CHOOSE g : Is(g)
<1>0. Engine!Pairs(s) = PairsOf(D)
  BY DEF Engine!Pairs, Engine!Persons, Engine!Debtor, Engine!Creditor, PairsOf, PersonsOf, Sound
<1>1. k \in Nat /\ Engine!Cardinality(Engine!Pairs(s)) = k
  <2>1. Engine!Cardinality(Engine!Pairs(s)) = Cardinality(Engine!Pairs(s))
    BY DEF Engine!Cardinality, Cardinality
  <2> QED BY <1>0, <2>1, PairsFinite, FS_CardinalityType
<1>2. b \in S
  BY <1>0 DEF Sweeping, Sound
<1>3. \A x \in S : Engine!PairRound(x) \in S
  BY PairRoundSound
<1>4. Engine!Bilateral(s) = g[k].s
  BY <1>1 DEF Engine!Bilateral, Engine!After
<1> HIDE DEF S, b
<1>5. \E f : Is(f)
  <2>1. R \in [S -> S] BY <1>3
  <2>2. \A x \in S : R[x] = Engine!PairRound(x) OBVIOUS
  <2> HIDE DEF R
  <2>3. PICK f \in [0..k -> S] : Runs(f, k, b, R)
    BY <1>1, <1>2, <2>1, LoopExists
  <2>4. ASSUME NEW i \in 0..k PROVE f[i] = IF i = 0 THEN b ELSE Engine!PairRound(f[i - 1])
    <3>1. CASE i = 0 BY <2>3, <3>1 DEF Runs
    <3>2. CASE i # 0
      <4>1. i \in 1..k /\ f[i - 1] \in S BY <1>1, <3>2
      <4>2. f[i] = R[f[i - 1]] BY <2>3, <4>1 DEF Runs
      <4> QED BY <2>2, <3>2, <4>1, <4>2
    <3> QED BY <3>1, <3>2
  <2>5. f = [i \in 0..k |-> f[i]] OBVIOUS
  <2>6. Is(f) BY <2>4, <2>5
  <2> QED BY <2>6
<1>6. Is(g)
  <2> HIDE DEF Is
  <2> QED BY <1>5
<1> HIDE DEF g
<1>7. \A i \in 0..k : g[i] = IF i = 0 THEN b ELSE Engine!PairRound(g[i - 1])
  BY <1>6
<1>8. g[0] = b /\ \A i \in 1..k : g[i] = Engine!PairRound(g[i - 1])
  BY <1>1, <1>7
<1>9. \A i \in 0..k : g[i] \in S
  BY <1>1, <1>2, <1>3, <1>8, RunStays
<1> QED BY <1>0, <1>1, <1>4, <1>8, <1>9 DEF S, b

\* The bilateral offsets leave the calculation sound.
LEMMA BilateralSound ==
   ASSUME NettingAssumptions, NEW D \in SUBSET Obligations, NEW top \in [D -> Nat], NEW s, Sound(s, top)
   PROVE  Sound(Engine!Bilateral(s), top)
<1> DEFINE k == Cardinality(PairsOf(D))
<1> HIDE DEF k
<1>1. k = Cardinality(PairsOf(D))
  BY DEF k
<1>2. k \in Nat
  BY <1>1, BilateralRuns
<1>3. PICK h : /\ h[0] = [s |-> s, pairs |-> PairsOf(D)]
               /\ \A i \in 1..k : h[i] = Engine!PairRound(h[i - 1])
               /\ \A i \in 0..k : h[i] \in Sweeping(top)
               /\ Engine!Bilateral(s) = h[k].s
  BY <1>1, BilateralRuns
<1>4. h[k] \in Sweeping(top)
  BY <1>2, <1>3
<1> QED BY <1>3, <1>4 DEF Sweeping

-----------------------------------------------------------------------------
\* The paths of n obligations that lead from member to member without meeting a debtor twice
Paths(arcs, n) ==
    {q \in [1..n -> arcs] : /\ \A i \in 1..n - 1 : Terms[q[i + 1]].debtor = Terms[q[i]].creditor
                            /\ \A i, j \in 1..n : Terms[q[i]].debtor = Terms[q[j]].debtor => i = j}

\* One more obligation makes such a path a longer one.
LEMMA PathGrows ==
   ASSUME NEW arcs, NEW n \in Nat, n >= 1, NEW q \in Paths(arcs, n), NEW o \in Engine!Onward(arcs, q)
   PROVE  Append(q, o) \in Paths(arcs, n + 1)
<1>1. q \in Seq(arcs) /\ Len(q) = n /\ DOMAIN q = 1..n
  BY DEF Paths
<1>2. o \in arcs /\ Terms[o].debtor = Terms[q[n]].creditor /\ \A i \in 1..n : Terms[o].debtor # Terms[q[i]].debtor
  BY <1>1 DEF Engine!Onward, Engine!Last, Engine!Debtor, Engine!Creditor
<1> DEFINE p == Append(q, o)
<1>3. /\ p \in [1..n + 1 -> arcs] /\ p[n + 1] = o /\ \A i \in 1..n : p[i] = q[i]
  <2>1. p \in Seq(arcs) /\ Len(p) = n + 1 /\ p[n + 1] = o /\ \A i \in 1..n : p[i] = q[i]
    BY <1>1, <1>2, AppendProperties
  <2> HIDE DEF p
  <2>2. p \in [1..Len(p) -> arcs] BY <2>1
  <2> QED BY <2>1, <2>2
<1> HIDE DEF p
<1>4. ASSUME NEW i \in 1..n PROVE Terms[p[i + 1]].debtor = Terms[p[i]].creditor
  <2>1. CASE i = n BY <1>2, <1>3, <2>1
  <2>2. CASE i # n
    <3>1. i \in 1..n - 1 /\ i + 1 \in 1..n BY <2>2
    <3> QED BY <1>3, <3>1 DEF Paths
  <2> QED BY <2>1, <2>2
<1>5. ASSUME NEW i \in 1..n + 1, NEW j \in 1..n + 1, Terms[p[i]].debtor = Terms[p[j]].debtor PROVE i = j
  <2>1. CASE i \in 1..n /\ j \in 1..n BY <1>3, <1>5, <2>1 DEF Paths
  <2>2. CASE i = n + 1 /\ j \in 1..n BY <1>2, <1>3, <1>5, <2>2
  <2>3. CASE i \in 1..n /\ j = n + 1 BY <1>2, <1>3, <1>5, <2>3
  <2>4. CASE i = n + 1 /\ j = n + 1 BY <2>4
  <2> QED BY <2>1, <2>2, <2>3, <2>4
<1>6. (n + 1) - 1 = n
  OBVIOUS
<1> QED BY <1>3, <1>4, <1>5, <1>6 DEF Paths, p

\* Without its last obligation a path is a shorter one.
LEMMA PathShrinks ==
   ASSUME NEW arcs, NEW m \in Nat, m >= 2, NEW p \in Paths(arcs, m)
   PROVE  \E q \in Paths(arcs, m - 1) : \E o \in Engine!Onward(arcs, q) : p = Append(q, o)
<1> DEFINE n == m - 1
<1>0. n \in Nat /\ n >= 1 /\ m = n + 1
  OBVIOUS
<1> HIDE DEF n
<1> DEFINE q == [i \in 1..n |-> p[i]]
           o == p[n + 1]
<1>1. /\ p \in [1..n + 1 -> arcs] /\ n + 1 \in 1..n + 1 /\ \A i \in 1..n : i \in 1..n + 1
      /\ \A i \in 1..n : Terms[p[i + 1]].debtor = Terms[p[i]].creditor
      /\ \A i, j \in 1..n + 1 : Terms[p[i]].debtor = Terms[p[j]].debtor => i = j
  <2>1. (n + 1) - 1 = n BY <1>0
  <2> QED BY <1>0, <2>1 DEF Paths
<1>2. q \in [1..n -> arcs] /\ o \in arcs /\ \A i \in 1..n : q[i] = p[i]
  BY <1>0, <1>1
<1>3. q \in Paths(arcs, n)
  <2>1. \A i \in 1..n - 1 : Terms[q[i + 1]].debtor = Terms[q[i]].creditor
    <3> SUFFICES ASSUME NEW i \in 1..n - 1 PROVE Terms[q[i + 1]].debtor = Terms[q[i]].creditor
      OBVIOUS
    <3>1. i \in 1..n /\ i + 1 \in 1..n BY <1>0
    <3> HIDE DEF q
    <3> QED BY <1>1, <1>2, <3>1
  <2>2. \A i, j \in 1..n : Terms[q[i]].debtor = Terms[q[j]].debtor => i = j BY <1>1
  <2> HIDE DEF q
  <2> QED BY <1>2, <2>1, <2>2 DEF Paths
<1>4. q \in Seq(arcs) /\ Len(q) = n /\ DOMAIN q = 1..n
  BY <1>0, <1>2
<1>5. o \in Engine!Onward(arcs, q)
  <2>1. n \in 1..n /\ Terms[o].debtor = Terms[q[n]].creditor BY <1>0, <1>1, <1>2
  <2>2. ASSUME NEW i \in 1..n PROVE Terms[o].debtor # Terms[q[i]].debtor
    <3>1. i \in 1..n + 1 /\ i # n + 1 /\ q[i] = p[i] BY <1>0, <1>2
    <3> QED BY <1>1, <3>1
  <2> HIDE DEF q, o
  <2> QED BY <1>2, <1>4, <2>1, <2>2 DEF Engine!Onward, Engine!Last, Engine!Debtor, Engine!Creditor
<1>6. p = Append(q, o)
  <2> HIDE DEF q
  <2>1. p \in Seq(arcs) /\ Len(p) = n + 1 BY <1>0, <1>1
  <2>2. Append(q, o) \in Seq(arcs) /\ Len(Append(q, o)) = n + 1 /\ Append(q, o)[n + 1] = o
        /\ \A i \in 1..n : Append(q, o)[i] = q[i]
    BY <1>2, <1>4, AppendProperties
  <2>3. \A i \in 1..n + 1 : Append(q, o)[i] = p[i]
    <3> SUFFICES ASSUME NEW i \in 1..n + 1 PROVE Append(q, o)[i] = p[i]
      OBVIOUS
    <3>1. CASE i = n + 1 BY <2>2, <3>1
    <3>2. CASE i # n + 1
      <4>1. i \in 1..n BY <1>0, <3>2
      <4> QED BY <1>2, <2>2, <4>1
    <3> QED BY <3>1, <3>2
  <2> QED BY <2>1, <2>2, <2>3, SeqEqual
<1> QED BY <1>3, <1>5, <1>6 DEF n

\* The trails of the search are collected by a run that makes them longer.
LEMMA TrailsRuns ==
   ASSUME NEW arcs, NEW n \in Nat, n >= 1
   PROVE  \E h : /\ h[0] = {<<o>> : o \in arcs}
                 /\ \A i \in 1..n - 1 : h[i] = UNION {{Append(q, o) : o \in Engine!Onward(arcs, q)} : q \in h[i - 1]}
                 /\ Engine!Trails(arcs, n) = h[n - 1]
<1> DEFINE S == SUBSET Seq(arcs)
           k == n - 1
           b == {<<o>> : o \in arcs}
           Longer(T) == UNION {{Append(q, o) : o \in Engine!Onward(arcs, q)} : q \in T}
           R == [x \in S |-> Longer(x)]
           Is(g) == g = [i \in 0..k |-> IF i = 0 THEN b ELSE Longer(g[i - 1])]
           g == CHOOSE g : Is(g)
<1>1. k \in Nat
  OBVIOUS
<1>2. b \in S
  <2>1. \A o \in arcs : <<o>> \in Seq(arcs) OBVIOUS
  <2> QED BY <2>1
<1>3. ASSUME NEW x \in S PROVE Longer(x) \in S
  <2> SUFFICES ASSUME NEW q \in x, NEW o \in Engine!Onward(arcs, q) PROVE Append(q, o) \in Seq(arcs)
    OBVIOUS
  <2> QED BY DEF Engine!Onward
<1>4. Engine!Trails(arcs, n) = g[k]
  BY DEF Engine!Trails, Engine!After
<1> HIDE DEF S, b, k, Longer
<1>7. \E f : Is(f)
  <2>1. R \in [S -> S] BY <1>3
  <2>2. \A x \in S : R[x] = Longer(x) OBVIOUS
  <2> HIDE DEF R
  <2>3. PICK f \in [0..k -> S] : Runs(f, k, b, R)
    BY <1>1, <1>2, <2>1, LoopExists
  <2>4. ASSUME NEW i \in 0..k PROVE f[i] = IF i = 0 THEN b ELSE Longer(f[i - 1])
    <3>1. CASE i = 0 BY <2>3, <3>1 DEF Runs
    <3>2. CASE i # 0
      <4>1. i \in 1..k /\ f[i - 1] \in S BY <1>1, <3>2
      <4>2. f[i] = R[f[i - 1]] BY <2>3, <4>1 DEF Runs
      <4> QED BY <2>2, <3>2, <4>1, <4>2
    <3> QED BY <3>1, <3>2
  <2>5. f = [i \in 0..k |-> f[i]] OBVIOUS
  <2>6. Is(f) BY <2>4, <2>5
  <2> QED BY <2>6
<1>8. Is(g)
  <2> HIDE DEF Is
  <2> QED BY <1>7
<1> HIDE DEF g
<1>9. \A i \in 0..k : g[i] = IF i = 0 THEN b ELSE Longer(g[i - 1])
  BY <1>8
<1>10. g[0] = b /\ \A i \in 1..k : g[i] = Longer(g[i - 1])
  BY <1>1, <1>9
<1> QED BY <1>4, <1>10 DEF b, k, Longer

\* The trails are the paths.
LEMMA TrailsArePaths ==
   ASSUME NEW arcs, NEW n \in Nat, n >= 1
   PROVE  Engine!Trails(arcs, n) = Paths(arcs, n)
<1> DEFINE k == n - 1
           b == {<<o>> : o \in arcs}
           Longer(T) == UNION {{Append(q, o) : o \in Engine!Onward(arcs, q)} : q \in T}
<1>1. PICK g : g[0] = b /\ (\A i \in 1..k : g[i] = Longer(g[i - 1])) /\ Engine!Trails(arcs, n) = g[k]
  BY TrailsRuns
<1>2. b = Paths(arcs, 1)
  <2>1. b \in SUBSET Paths(arcs, 1) BY DEF Paths
  <2>2. ASSUME NEW q \in Paths(arcs, 1) PROVE q \in b
    <3>1. q \in [1..1 -> arcs] BY DEF Paths
    <3>2. q[1] \in arcs /\ q = <<q[1]>> BY <3>1
    <3> QED BY <3>2
  <2> QED BY <2>1, <2>2
<1>3. ASSUME NEW i \in Nat, i >= 1 PROVE Longer(Paths(arcs, i)) = Paths(arcs, i + 1)
  <2>1. ASSUME NEW p \in Longer(Paths(arcs, i)) PROVE p \in Paths(arcs, i + 1)
    <3>1. PICK q \in Paths(arcs, i) : \E o \in Engine!Onward(arcs, q) : p = Append(q, o)
      OBVIOUS
    <3>2. PICK o \in Engine!Onward(arcs, q) : p = Append(q, o)
      BY <3>1
    <3>3. Append(q, o) \in Paths(arcs, i + 1)
      BY <1>3, PathGrows
    <3> QED BY <3>2, <3>3
  <2>2. ASSUME NEW p \in Paths(arcs, i + 1) PROVE p \in Longer(Paths(arcs, i))
    <3>1. \E q \in Paths(arcs, i) : \E o \in Engine!Onward(arcs, q) : p = Append(q, o)
      <4> DEFINE m == i + 1
      <4>1. m \in Nat /\ m >= 2 /\ m - 1 = i /\ p \in Paths(arcs, m) BY <1>3
      <4> HIDE DEF m, Longer
      <4>2. \E q \in Paths(arcs, m - 1) : \E o \in Engine!Onward(arcs, q) : p = Append(q, o)
        BY <4>1, PathShrinks
      <4> QED BY <4>1, <4>2
    <3> QED BY <3>1
  <2> QED BY <2>1, <2>2
<1> HIDE DEF b, k, Longer
<1>4. k \in Nat /\ k + 1 = n
  BY DEF k
<1> DEFINE P == {i \in 0..k : g[i] = Paths(arcs, i + 1)}
<1>5. 0 \in P
  BY <1>1, <1>2, <1>4
<1>6. ASSUME NEW i \in 1..k, i - 1 \in P PROVE i \in P
  <2>1. i \in Nat /\ i >= 1 /\ i \in 0..k /\ (i - 1) + 1 = i BY <1>4
  <2>2. g[i - 1] = Paths(arcs, i) BY <1>6, <2>1
  <2>3. g[i] = Longer(g[i - 1]) BY <1>1
  <2> QED BY <1>3, <2>1, <2>2, <2>3
<1>7. k \in P
  <2> HIDE DEF P
  <2>1. \A i \in 0..k : i \in P BY <1>4, <1>5, <1>6, StepByStep
  <2> QED BY <1>4, <2>1
<1> QED BY <1>1, <1>4, <1>7

\* There are finitely many paths.
LEMMA PathsFinite ==
   ASSUME NEW arcs, IsFiniteSet(arcs), NEW n \in Nat
   PROVE  IsFiniteSet(Paths(arcs, n))
<1> DEFINE F == [1..n -> arcs]
           T == SUBSET ((1..n) \X arcs)
           h == [q \in F |-> {<<i, q[i]>> : i \in 1..n}]
<1>1. h \in [F -> T]
  OBVIOUS
<1>2. ASSUME NEW q \in F, NEW r \in F, h[q] = h[r] PROVE q = r
  <2>1. ASSUME NEW i \in 1..n PROVE q[i] = r[i]
    <3>1. <<i, q[i]>> \in h[r] BY <1>2
    <3>2. PICK j \in 1..n : <<i, q[i]>> = <<j, r[j]>> BY <3>1
    <3> QED BY <3>2
  <2> QED BY <2>1
<1>3. h \in Injection(F, T)
  <2>1. \A q, r \in F : h[q] = h[r] => q = r BY <1>2
  <2> HIDE DEF h, F, T
  <2> QED BY <1>1, <2>1 DEF Injection, IsInjective
<1> HIDE DEF h
<1>4. IsFiniteSet(1..n)
  BY FS_Interval
<1>5. IsFiniteSet((1..n) \X arcs)
  BY <1>4, FS_Product
<1>6. IsFiniteSet(T)
  BY <1>5, FS_SUBSET
<1> HIDE DEF T, F
<1>7. IsFiniteSet(F)
  BY <1>3, <1>6, FS_Injection
<1>8. Paths(arcs, n) \in SUBSET F
  BY DEF Paths, F
<1> QED BY <1>7, <1>8, FS_Subset

\* Of finitely many things in a strict order one comes first.
LEMMA FirstInOrder ==
   ASSUME NEW S, IsFiniteSet(S), S # {}, NEW R,
          \A x, y \in S : x # y => <<x, y>> \in R \/ <<y, x>> \in R,
          \A x, y, z \in S : <<x, y>> \in R /\ <<y, z>> \in R => <<x, z>> \in R
   PROVE  \E x \in S : \A y \in S \ {x} : <<x, y>> \in R
<1> DEFINE G == {U \in SUBSET S : U = {} \/ \E x \in U : \A y \in U \ {x} : <<x, y>> \in R}
<1>1. ASSUME NEW U \in SUBSET S, \A x \in U : U \ {x} \in G PROVE U \in G
  <2> SUFFICES ASSUME U # {} PROVE \E x \in U : \A y \in U \ {x} : <<x, y>> \in R
    OBVIOUS
  <2>1. PICK x \in U : TRUE OBVIOUS
  <2> DEFINE W == U \ {x}
  <2>2. W \in G BY <1>1, <2>1
  <2>3. CASE W = {} BY <2>1, <2>3
  <2>4. CASE W # {}
    <3>1. PICK z \in W : \A y \in W \ {z} : <<z, y>> \in R BY <2>2, <2>4
    <3>2. x \in S /\ z \in S /\ x # z BY <2>1, <3>1
    <3>3. CASE <<z, x>> \in R
      <4>1. \A y \in U \ {z} : <<z, y>> \in R BY <3>1, <3>3
      <4> QED BY <3>1, <4>1
    <3>4. CASE <<x, z>> \in R
      <4>1. ASSUME NEW y \in U \ {x} PROVE <<x, y>> \in R
        <5>1. CASE y = z BY <3>4, <5>1
        <5>2. CASE y # z
          <6>1. <<z, y>> \in R /\ y \in S BY <3>1, <5>2
          <6> QED BY <3>2, <3>4, <6>1
        <5> QED BY <5>1, <5>2
      <4> QED BY <2>1, <4>1
    <3> QED BY <3>2, <3>3, <3>4
  <2> QED BY <2>3, <2>4
<1>2. \A U \in SUBSET S : U \in G
  <2> HIDE DEF G
  <2> QED BY <1>1, SubsetInduction
<1>3. S \in G
  BY <1>2
<1> QED BY <1>3

\* The closed paths
Circles(arcs, n) == {q \in Paths(arcs, n) : Terms[q[n]].creditor = Terms[q[1]].debtor}
IsCircle(arcs, q) == \E n \in Nat : n >= 1 /\ q \in Circles(arcs, n)

\* Of two closed paths one precedes the other.
LEMMA PrecedesOneWay ==
   ASSUME NettingAssumptions, NEW arcs \in SUBSET Obligations,
          NEW q, IsCircle(arcs, q), NEW r, IsCircle(arcs, r), q # r
   PROVE  Engine!Precedes(q, r) \/ Engine!Precedes(r, q)
<1>1. PICK n \in Nat : n >= 1 /\ q \in Circles(arcs, n)
  BY DEF IsCircle
<1>2. PICK m \in Nat : m >= 1 /\ r \in Circles(arcs, m)
  BY DEF IsCircle
<1>3. /\ q \in [1..n -> arcs] /\ r \in [1..m -> arcs]
      /\ \A i \in 1..n : q[i] \in Nat /\ Terms[q[i]].debtor \in Nat /\ Terms[q[i]].creditor \in Nat
      /\ \A i \in 1..m : r[i] \in Nat /\ Terms[r[i]].debtor \in Nat /\ Terms[r[i]].creditor \in Nat
  <2>1. q \in [1..n -> arcs] /\ r \in [1..m -> arcs] BY <1>1, <1>2 DEF Circles, Paths
  <2> QED BY <2>1 DEF NettingAssumptions
<1>4. CASE Terms[q[1]].debtor # Terms[r[1]].debtor
  BY <1>1, <1>2, <1>3, <1>4 DEF Engine!Precedes, Engine!Debtor
<1>5. CASE Terms[q[1]].debtor = Terms[r[1]].debtor
  <2> DEFINE B == {i \in 1..n \intersect 1..m : q[i] # r[i]}
  <2>1. CASE B = {}
    <3>0. \A i \in 1..n \intersect 1..m : q[i] = r[i] BY <2>1
    <3>1. n # m
      <4> SUFFICES ASSUME n = m PROVE FALSE
        OBVIOUS
      <4>1. \A i \in 1..n : q[i] = r[i] BY <3>0
      <4> QED BY <1>3, <4>1
    <3>2. CASE n < m
      <4>1. n \in 1..n \intersect 1..m /\ n \in 1..m - 1 /\ n + 1 \in 1..m /\ 1 \in 1..m BY <1>1, <3>2
      <4>2. q[n] = r[n] BY <3>0, <4>1
      <4>3. Terms[r[n + 1]].debtor = Terms[r[n]].creditor BY <1>2, <4>1 DEF Circles, Paths
      <4>4. Terms[q[n]].creditor = Terms[q[1]].debtor BY <1>1 DEF Circles
      <4>5. Terms[r[n + 1]].debtor = Terms[r[1]].debtor BY <1>5, <4>2, <4>3, <4>4
      <4>6. n + 1 = 1 BY <1>2, <4>1, <4>5 DEF Circles, Paths
      <4> QED BY <1>1, <4>6
    <3>3. CASE m < n
      <4>1. m \in 1..n \intersect 1..m /\ m \in 1..n - 1 /\ m + 1 \in 1..n /\ 1 \in 1..n BY <1>2, <3>3
      <4>2. q[m] = r[m] BY <3>0, <4>1
      <4>3. Terms[q[m + 1]].debtor = Terms[q[m]].creditor BY <1>1, <4>1 DEF Circles, Paths
      <4>4. Terms[r[m]].creditor = Terms[r[1]].debtor BY <1>2 DEF Circles
      <4>5. Terms[q[m + 1]].debtor = Terms[q[1]].debtor BY <1>5, <4>2, <4>3, <4>4
      <4>6. m + 1 = 1 BY <1>1, <4>1, <4>5 DEF Circles, Paths
      <4> QED BY <1>2, <4>6
    <3> QED BY <3>1, <3>2, <3>3
  <2>2. CASE B # {}
    <3>1. B \in SUBSET Nat OBVIOUS
    <3>2. PICK i \in B : \A j \in B : i <= j
      <4> HIDE DEF B
      <4> QED BY <2>2, <3>1, LeastNumber
    <3>3. /\ i \in DOMAIN q \intersect DOMAIN r /\ i \in DOMAIN r \intersect DOMAIN q
          /\ i \in 1..n /\ i \in 1..m /\ q[i] # r[i]
      BY <1>3, <3>2
    <3>4. \A j \in 1..i - 1 : q[j] = r[j] /\ r[j] = q[j]
      <4> SUFFICES ASSUME NEW j \in 1..i - 1, q[j] # r[j] PROVE FALSE
        OBVIOUS
      <4>1. j \in B /\ i <= j /\ i \in Nat BY <3>2, <3>3
      <4> QED BY <4>1
    <3>5. \/ Terms[q[i]].creditor < Terms[r[i]].creditor
          \/ Terms[r[i]].creditor < Terms[q[i]].creditor
          \/ Terms[q[i]].creditor = Terms[r[i]].creditor /\ (q[i] < r[i] \/ r[i] < q[i])
      BY <1>3, <3>3
    <3> QED BY <1>5, <3>3, <3>4, <3>5 DEF Engine!Precedes, Engine!Debtor, Engine!Creditor
  <2> QED BY <2>1, <2>2
<1> QED BY <1>4, <1>5

\* The order of closed paths is transitive.
LEMMA PrecedesOn ==
   ASSUME NettingAssumptions, NEW arcs \in SUBSET Obligations,
          NEW q, IsCircle(arcs, q), NEW r, IsCircle(arcs, r), NEW u, IsCircle(arcs, u),
          Engine!Precedes(q, r), Engine!Precedes(r, u)
   PROVE  Engine!Precedes(q, u)
<1>1. ASSUME NEW w, IsCircle(arcs, w)
      PROVE  \E n \in Nat : /\ DOMAIN w = 1..n /\ n >= 1
                            /\ \A i \in 1..n : w[i] \in Nat /\ Terms[w[i]].debtor \in Nat /\ Terms[w[i]].creditor \in Nat
  <2>1. PICK n \in Nat : n >= 1 /\ w \in Circles(arcs, n) BY <1>1 DEF IsCircle
  <2>2. w \in [1..n -> arcs] BY <2>1 DEF Circles, Paths
  <2> QED BY <2>1, <2>2 DEF NettingAssumptions
<1>2. PICK n \in Nat : /\ DOMAIN q = 1..n /\ n >= 1
                       /\ \A i \in 1..n : q[i] \in Nat /\ Terms[q[i]].debtor \in Nat /\ Terms[q[i]].creditor \in Nat
  BY <1>1
<1>3. PICK m \in Nat : /\ DOMAIN r = 1..m /\ m >= 1
                       /\ \A i \in 1..m : r[i] \in Nat /\ Terms[r[i]].debtor \in Nat /\ Terms[r[i]].creditor \in Nat
  BY <1>1
<1>4. PICK k \in Nat : /\ DOMAIN u = 1..k /\ k >= 1
                       /\ \A i \in 1..k : u[i] \in Nat /\ Terms[u[i]].debtor \in Nat /\ Terms[u[i]].creditor \in Nat
  BY <1>1
<1>5. Terms[q[1]].debtor \in Nat /\ Terms[r[1]].debtor \in Nat /\ Terms[u[1]].debtor \in Nat
  BY <1>2, <1>3, <1>4
<1> DEFINE Below(a, b) == Terms[a].creditor < Terms[b].creditor \/ (Terms[a].creditor = Terms[b].creditor /\ a < b)
           First(v, w, i) == i \in DOMAIN v \intersect DOMAIN w /\ (\A j \in 1..i - 1 : v[j] = w[j]) /\ Below(v[i], w[i])
<1>6. \A v, w : Engine!Precedes(v, w) <=> \/ Terms[v[1]].debtor < Terms[w[1]].debtor
                                          \/ Terms[v[1]].debtor = Terms[w[1]].debtor /\ \E i : First(v, w, i)
  BY DEF Engine!Precedes, Engine!Debtor, Engine!Creditor
<1>7. CASE Terms[q[1]].debtor < Terms[u[1]].debtor
  BY <1>6, <1>7
<1>8. CASE ~(Terms[q[1]].debtor < Terms[u[1]].debtor)
  <2>1. Terms[q[1]].debtor = Terms[r[1]].debtor /\ Terms[r[1]].debtor = Terms[u[1]].debtor
    BY <1>5, <1>6, <1>8
  <2>2. PICK i : First(q, r, i) BY <1>5, <1>6, <2>1
  <2>3. PICK j : First(r, u, j) BY <1>5, <1>6, <2>1
  <2>4. i \in Nat /\ i >= 1 /\ i <= n /\ i <= m /\ j \in Nat /\ j >= 1 /\ j <= m /\ j <= k
    <3>1. i \in 1..n /\ i \in 1..m /\ j \in 1..m /\ j \in 1..k BY <1>2, <1>3, <1>4, <2>2, <2>3
    <3> QED BY <3>1
  <2>5. CASE i < j
    <3>1. i \in DOMAIN u /\ i \in DOMAIN q /\ i \in 1..j - 1 BY <1>2, <1>4, <2>4, <2>5
    <3>2. u[i] = r[i] BY <2>3, <3>1
    <3>3. \A h \in 1..i - 1 : q[h] = u[h]
      <4> SUFFICES ASSUME NEW h \in 1..i - 1 PROVE q[h] = u[h]
        OBVIOUS
      <4>1. h \in 1..j - 1 BY <2>4, <2>5
      <4> QED BY <2>2, <2>3, <4>1
    <3>4. First(q, u, i) BY <2>2, <3>1, <3>2, <3>3
    <3> QED BY <1>6, <2>1, <3>4
  <2>6. CASE j < i
    <3>1. j \in DOMAIN u /\ j \in DOMAIN q /\ j \in 1..i - 1 BY <1>2, <1>4, <2>4, <2>6
    <3>2. q[j] = r[j] BY <2>2, <3>1
    <3>3. \A h \in 1..j - 1 : q[h] = u[h]
      <4> SUFFICES ASSUME NEW h \in 1..j - 1 PROVE q[h] = u[h]
        OBVIOUS
      <4>1. h \in 1..i - 1 BY <2>4, <2>6
      <4> QED BY <2>2, <2>3, <4>1
    <3>4. First(q, u, j) BY <2>3, <3>1, <3>2, <3>3
    <3> QED BY <1>6, <2>1, <3>4
  <2>7. CASE i = j
    <3>1. i \in DOMAIN u /\ i \in DOMAIN q /\ i \in DOMAIN r BY <2>2, <2>3, <2>7
    <3>2. \A h \in 1..i - 1 : q[h] = u[h] BY <2>2, <2>3, <2>7
    <3>3. Below(q[i], r[i]) /\ Below(r[i], u[i]) BY <2>2, <2>3, <2>7
    <3>4. /\ q[i] \in Nat /\ r[i] \in Nat /\ u[i] \in Nat
          /\ Terms[q[i]].creditor \in Nat /\ Terms[r[i]].creditor \in Nat /\ Terms[u[i]].creditor \in Nat
      BY <1>2, <1>3, <1>4, <3>1
    <3>5. Below(q[i], u[i]) BY <3>3, <3>4
    <3>6. First(q, u, i) BY <3>1, <3>2, <3>5
    <3> QED BY <1>6, <2>1, <3>6
  <2> QED BY <2>4, <2>5, <2>6, <2>7
<1> QED BY <1>7, <1>8

\* What the search finds: a closed path of what is available.
LEMMA FirstCycleIn ==
   ASSUME NettingAssumptions, NEW D \in SUBSET Obligations, NEW top \in [D -> Nat], NEW s, Sound(s, top),
          Engine!ClosedTrails(s) # {}
   PROVE  \E n \in Nat : n >= 1 /\ Engine!FirstCycle(Engine!ClosedTrails(s)) \in Circles(Engine!Arcs(s), n)
<1> DEFINE arcs == Engine!Arcs(s)
           C == Engine!ClosedTrails(s)
           N == 3..MaxCycleLength
           all == {Engine!Trails(arcs, n) : n \in N}
           R == {p \in C \X C : Engine!Precedes(p[1], p[2])}
<1>1. arcs \in SUBSET D /\ IsFiniteSet(arcs)
  <2>1. arcs \in SUBSET D BY DEF Engine!Arcs, Sound
  <2>2. IsFiniteSet(D) BY FS_Subset DEF NettingAssumptions
  <2> HIDE DEF arcs
  <2> QED BY <2>1, <2>2, FS_Subset
<1>2. ASSUME NEW n \in N PROVE /\ n \in Nat /\ n >= 1 /\ Engine!Trails(arcs, n) \in SUBSET Paths(arcs, n)
                               /\ IsFiniteSet(Engine!Trails(arcs, n))
  <2>1. n \in Nat /\ n >= 1 OBVIOUS
  <2> HIDE DEF arcs
  <2>2. Engine!Trails(arcs, n) \in SUBSET Paths(arcs, n) BY <2>1, TrailsArePaths
  <2>3. IsFiniteSet(Paths(arcs, n)) BY <1>1, <2>1, PathsFinite
  <2> QED BY <2>1, <2>2, <2>3, FS_Subset
<1>3. C = {q \in UNION all : Terms[Engine!Last(q)].creditor = Terms[q[1]].debtor}
  BY DEF Engine!ClosedTrails, Engine!Debtor, Engine!Creditor
<1> HIDE DEF arcs, C
<1>4. ASSUME NEW q \in C PROVE \E n \in Nat : n >= 1 /\ q \in Circles(arcs, n)
  <2>1. PICK n \in N : q \in Engine!Trails(arcs, n) BY <1>3
  <2>2. q \in Paths(arcs, n) /\ n \in Nat /\ n >= 1 BY <1>2, <2>1
  <2>3. Len(q) = n BY <2>2 DEF Paths
  <2>4. Engine!Last(q) = q[n] BY <2>3 DEF Engine!Last
  <2>5. Terms[q[n]].creditor = Terms[q[1]].debtor BY <1>3, <2>4
  <2> QED BY <2>2, <2>5 DEF Circles
<1>5. IsFiniteSet(C)
  <2>1. IsFiniteSet(N) BY FS_Interval DEF NettingAssumptions
  <2> DEFINE f == [n \in N |-> Engine!Trails(arcs, n)]
  <2>2. DOMAIN f = N /\ all = {f[n] : n \in N} OBVIOUS
  <2>3. \A T \in all : IsFiniteSet(T) BY <1>2
  <2> HIDE DEF f, all, N
  <2>4. IsFiniteSet(all) BY <2>1, <2>2, ImageFinite
  <2>5. IsFiniteSet(UNION all) BY <2>3, <2>4, FS_UNION
  <2>6. C \in SUBSET UNION all BY <1>3
  <2> QED BY <2>5, <2>6, FS_Subset
<1>6. arcs \in SUBSET Obligations /\ \A q \in C : IsCircle(arcs, q)
  BY <1>1, <1>4 DEF IsCircle
<1>7. \A x, y \in C : x # y => <<x, y>> \in R \/ <<y, x>> \in R
  BY <1>6, PrecedesOneWay
<1>8. \A x, y, z \in C : <<x, y>> \in R /\ <<y, z>> \in R => <<x, z>> \in R
  BY <1>6, PrecedesOn
<1>9. \E q \in C : \A r \in C \ {q} : <<q, r>> \in R
  <2>1. C # {} BY DEF C
  <2> HIDE DEF R
  <2> QED BY <1>5, <1>7, <1>8, <2>1, FirstInOrder
<1>10. \E q \in C : \A r \in C \ {q} : Engine!Precedes(q, r)
  BY <1>9
<1>11. Engine!FirstCycle(C) \in C
  BY <1>10 DEF Engine!FirstCycle
<1> QED BY <1>4, <1>11 DEF C, arcs

\* The obligations of a closed path are one amount's way round.
LEMMA CircleIsRing ==
   ASSUME NettingAssumptions, NEW arcs, NEW n \in Nat, n >= 1, NEW q \in Circles(arcs, n)
   PROVE  Ring(Engine!Range(q)) /\ Engine!Range(q) \in SUBSET arcs /\ Engine!Range(q) # {}
<1>1. q \in [1..n -> arcs] /\ Engine!Range(q) = {q[i] : i \in 1..n}
  BY DEF Circles, Paths, Engine!Range
<1>2. \A i \in 1..n : q[i] \in Engine!Range(q)
  BY <1>1
<1> DEFINE next(i) == IF i = n THEN 1 ELSE i + 1
           prev(i) == IF i = 1 THEN n ELSE i - 1
<1>3. ASSUME NEW i \in 1..n
      PROVE  next(i) \in 1..n /\ prev(i) \in 1..n /\ next(prev(i)) = i
  OBVIOUS
<1>4. ASSUME NEW i \in 1..n PROVE Terms[q[next(i)]].debtor = Terms[q[i]].creditor
  <2>1. CASE i = n BY <2>1 DEF Circles
  <2>2. CASE i # n
    <3>1. i \in 1..n - 1 BY <2>2
    <3> QED BY <2>2, <3>1 DEF Circles, Paths
  <2> QED BY <2>1, <2>2
<1>5. ASSUME NEW i \in 1..n, NEW j \in 1..n, Terms[q[i]].debtor = Terms[q[j]].debtor PROVE i = j
  BY <1>5 DEF Circles, Paths
<1>6. ASSUME NEW i \in 1..n, NEW j \in 1..n, Terms[q[i]].creditor = Terms[q[j]].creditor PROVE i = j
  <2>1. Terms[q[next(i)]].debtor = Terms[q[next(j)]].debtor BY <1>4, <1>6
  <2>2. next(i) = next(j)
    <3>1. next(i) \in 1..n /\ next(j) \in 1..n BY <1>3
    <3> HIDE DEF next
    <3> QED BY <1>5, <2>1, <3>1
  <2> QED BY <2>2
<1>7. ASSUME NEW o \in Engine!Range(q)
      PROVE  /\ \E x \in Engine!Range(q) : Terms[x].creditor = Terms[o].debtor
             /\ \E x \in Engine!Range(q) : Terms[x].debtor = Terms[o].creditor
             /\ \A x \in Engine!Range(q) :
                  (Terms[x].debtor = Terms[o].debtor \/ Terms[x].creditor = Terms[o].creditor) => x = o
  <2>1. PICK i \in 1..n : o = q[i] BY <1>1
  <2>2. prev(i) \in 1..n /\ next(i) \in 1..n /\ next(prev(i)) = i BY <1>3
  <2> HIDE DEF next, prev
  <2>3. Terms[q[prev(i)]].creditor = Terms[o].debtor BY <1>4, <2>1, <2>2
  <2>4. Terms[q[next(i)]].debtor = Terms[o].creditor BY <1>4, <2>1
  <2>5. ASSUME NEW x \in Engine!Range(q), Terms[x].debtor = Terms[o].debtor \/ Terms[x].creditor = Terms[o].creditor
        PROVE  x = o
    <3>1. PICK j \in 1..n : x = q[j] BY <1>1
    <3>2. j = i BY <1>5, <1>6, <2>1, <2>5, <3>1
    <3> QED BY <2>1, <3>1, <3>2
  <2> QED BY <1>2, <2>2, <2>3, <2>4, <2>5
<1>8. Ring(Engine!Range(q))
  BY <1>7 DEF Ring
<1>9. q[1] \in Engine!Range(q)
  BY <1>2
<1> QED BY <1>1, <1>8, <1>9

\* What is left of the obligations of a path
LeftOn(s, path) == {s.left[o] : o \in path}

\* The obligations of the cycle that is offset first, and what is offset along it
FirstPath(s) == Engine!Range(Engine!FirstCycle(Engine!ClosedTrails(s)))
FirstShare(s) == Engine!Rounded(Engine!Min(LeftOn(s, FirstPath(s))))

\* What is offset along the cycle that was found: the least that is left on it, enough for an operation
Offsetable(s, D) ==
    /\ Ring(FirstPath(s)) /\ FirstPath(s) \in SUBSET D
    /\ \E x \in FirstPath(s) : /\ FirstShare(s) = s.left[x]
                               /\ s.left[x] > 0 /\ s.left[x] >= MinimumOperation
                               /\ \A o \in FirstPath(s) : s.left[x] <= s.left[o]

LEMMA CycleFound ==
   ASSUME NettingAssumptions, NEW D \in SUBSET Obligations, NEW top \in [D -> Nat], NEW s, Sound(s, top),
          Engine!ClosedTrails(s) # {}
   PROVE  Offsetable(s, D)
<1> DEFINE path == FirstPath(s)
           left == LeftOn(s, path)
<1>1. PICK n \in Nat : n >= 1 /\ Engine!FirstCycle(Engine!ClosedTrails(s)) \in Circles(Engine!Arcs(s), n)
  BY FirstCycleIn
<1>2. Ring(path) /\ path \in SUBSET Engine!Arcs(s) /\ path # {}
  BY <1>1, CircleIsRing DEF FirstPath
<1> HIDE DEF path
<1>3. DOMAIN s.left = D /\ \A o \in D : s.left[o] \in Nat
  BY DEF Sound
<1>4. path \in SUBSET D /\ \A o \in path : s.left[o] > 0 /\ s.left[o] >= MinimumOperation /\ s.left[o] \in Nat
  BY <1>2, <1>3 DEF Engine!Arcs
<1>5. left \in SUBSET Nat /\ left # {} /\ \A o \in path : s.left[o] \in left
  BY <1>2, <1>4 DEF LeftOn
<1>6. Engine!Min(left) \in left /\ \A v \in left : Engine!Min(left) <= v
  <2> HIDE DEF left
  <2> QED BY <1>5, MinIn
<1>7. PICK x \in path : Engine!Min(left) = s.left[x]
  BY <1>6 DEF LeftOn
<1>8. \A o \in path : s.left[x] <= s.left[o]
  BY <1>5, <1>6, <1>7
<1> HIDE DEF left
<1>9. Engine!Rounded(Engine!Min(left)) = s.left[x]
  <2>1. s.left[x] \in Nat /\ s.left[x] >= MinimumOperation /\ MinimumOperation \in Nat BY <1>4 DEF NettingAssumptions
  <2> QED BY <1>7, <2>1 DEF Engine!Rounded
<1> QED BY <1>2, <1>4, <1>8, <1>9 DEF left, path, FirstShare, Offsetable

\* The states of the loop over the cycles
Circling(top) == {t \in [s : [left : [DOMAIN top -> Nat], n : Nat], over : BOOLEAN] : Sound(t.s, top)}

LEMMA CycleRoundSound ==
   ASSUME NettingAssumptions, NEW D \in SUBSET Obligations, NEW top \in [D -> Nat], NEW t \in Circling(top)
   PROVE  Engine!CycleRound(t) \in Circling(top)
<1> DEFINE trails == Engine!ClosedTrails(t.s)
           path   == FirstPath(t.s)
           amount == FirstShare(t.s)
           next   == Engine!Allocate(t.s, path, amount)
<1>1. /\ Sound(t.s, top) /\ t.s \in [left : [D -> Nat], n : Nat]
      /\ t = [s |-> t.s, over |-> t.over] /\ t.over \in BOOLEAN
  BY DEF Circling
<1>2. Engine!CycleRound(t) =
        IF t.over \/ t.s.n >= MaxIterations \/ trails = {} THEN [t EXCEPT !.over = TRUE]
        ELSE IF amount <= 0 THEN [t EXCEPT !.over = TRUE] ELSE [t EXCEPT !.s = next]
  BY DEF Engine!CycleRound, FirstPath, FirstShare, LeftOn
<1>3. [t EXCEPT !.over = TRUE] \in Circling(top)
  BY <1>1 DEF Circling
<1>4. ASSUME trails # {} PROVE Sound(next, top)
  <2>1. /\ Ring(path) /\ path \in SUBSET D
        /\ \E x \in path : amount = t.s.left[x] /\ \A o \in path : t.s.left[x] <= t.s.left[o]
    <3>1. Offsetable(t.s, D) BY <1>1, <1>4, CycleFound
    <3> QED BY <3>1 DEF Offsetable
  <2>2. PICK x \in path : amount = t.s.left[x] /\ \A o \in path : t.s.left[x] <= t.s.left[o]
    BY <2>1
  <2>3. x \in D /\ t.s.left[x] \in Nat
    <3> HIDE DEF path
    <3> QED BY <1>1, <2>1
  <2>4. next = Engine!Allocate(t.s, path, t.s.left[x]) BY <2>2
  <2> HIDE DEF path, amount, next
  <2> QED BY <1>1, <2>1, <2>2, <2>3, <2>4, AllocateSound
<1> HIDE DEF trails, amount, next
<1>5. ASSUME trails # {} PROVE [t EXCEPT !.s = next] \in Circling(top)
  <2>1. Sound(next, top) BY <1>4, <1>5
  <2>2. next \in [left : [D -> Nat], n : Nat] BY <2>1 DEF Sound
  <2>3. [t EXCEPT !.s = next] = [s |-> next, over |-> t.over] BY <1>1
  <2> QED BY <1>1, <2>1, <2>2, <2>3 DEF Circling
<1> QED BY <1>2, <1>3, <1>5

\* The offsets along cycles are a run of rounds.
LEMMA CirculateRuns ==
   ASSUME NettingAssumptions, NEW D \in SUBSET Obligations, NEW top \in [D -> Nat], NEW s, Sound(s, top)
   PROVE  \E h : /\ h[0] = [s |-> s, over |-> FALSE]
                 /\ \A i \in 1..MaxIterations : h[i] = Engine!CycleRound(h[i - 1])
                 /\ \A i \in 0..MaxIterations : h[i] \in Circling(top)
                 /\ Engine!Circulate(s) = h[MaxIterations].s
<1> DEFINE S == Circling(top)
           b == [s |-> s, over |-> FALSE]
           R == [x \in S |-> Engine!CycleRound(x)]
           Is(g) == g = [i \in 0..MaxIterations |-> IF i = 0 THEN b ELSE Engine!CycleRound(g[i - 1])]
           g == CHOOSE g : Is(g)
<1>1. MaxIterations \in Nat
  BY DEF NettingAssumptions
<1>2. b \in S
  BY DEF Circling, Sound
<1>3. \A x \in S : Engine!CycleRound(x) \in S
  BY CycleRoundSound
<1>4. Engine!Circulate(s) = g[MaxIterations].s
  BY DEF Engine!Circulate, Engine!After
<1> HIDE DEF S, b
<1>5. \E f : Is(f)
  <2>1. R \in [S -> S] BY <1>3
  <2>2. \A x \in S : R[x] = Engine!CycleRound(x) OBVIOUS
  <2> HIDE DEF R
  <2>3. PICK f \in [0..MaxIterations -> S] : Runs(f, MaxIterations, b, R)
    BY <1>1, <1>2, <2>1, LoopExists
  <2>4. ASSUME NEW i \in 0..MaxIterations PROVE f[i] = IF i = 0 THEN b ELSE Engine!CycleRound(f[i - 1])
    <3>1. CASE i = 0 BY <2>3, <3>1 DEF Runs
    <3>2. CASE i # 0
      <4>1. i \in 1..MaxIterations /\ f[i - 1] \in S BY <1>1, <3>2
      <4>2. f[i] = R[f[i - 1]] BY <2>3, <4>1 DEF Runs
      <4> QED BY <2>2, <3>2, <4>1, <4>2
    <3> QED BY <3>1, <3>2
  <2>5. f = [i \in 0..MaxIterations |-> f[i]] OBVIOUS
  <2>6. Is(f) BY <2>4, <2>5
  <2> QED BY <2>6
<1>6. Is(g)
  <2> HIDE DEF Is
  <2> QED BY <1>5
<1> HIDE DEF g
<1>7. \A i \in 0..MaxIterations : g[i] = IF i = 0 THEN b ELSE Engine!CycleRound(g[i - 1])
  BY <1>6
<1>8. g[0] = b /\ \A i \in 1..MaxIterations : g[i] = Engine!CycleRound(g[i - 1])
  BY <1>1, <1>7
<1>9. \A i \in 0..MaxIterations : g[i] \in S
  BY <1>1, <1>2, <1>3, <1>8, RunStays
<1> QED BY <1>4, <1>8, <1>9 DEF S, b

\* The offsets along cycles leave the calculation sound.
LEMMA CirculateSound ==
   ASSUME NettingAssumptions, NEW D \in SUBSET Obligations, NEW top \in [D -> Nat], NEW s, Sound(s, top)
   PROVE  Sound(Engine!Circulate(s), top)
<1>1. PICK h : /\ h[0] = [s |-> s, over |-> FALSE]
               /\ \A i \in 1..MaxIterations : h[i] = Engine!CycleRound(h[i - 1])
               /\ \A i \in 0..MaxIterations : h[i] \in Circling(top)
               /\ Engine!Circulate(s) = h[MaxIterations].s
  BY CirculateRuns
<1>2. MaxIterations \in 0..MaxIterations
  BY DEF NettingAssumptions
<1> QED BY <1>1, <1>2 DEF Circling

-----------------------------------------------------------------------------
\* Obligations of which nothing is taken do not count.
LEMMA NetWithin ==
   ASSUME NettingAssumptions, NEW S \in SUBSET Obligations, NEW T \in SUBSET S, NEW m,
          NEW f \in [S -> Int], NEW g \in [T -> Int], \A o \in S : f[o] = IF o \in T THEN g[o] ELSE 0
   PROVE  Net(m, f) = Net(m, g)
<1>1. IsFiniteSet(S) /\ IsFiniteSet(T) /\ T \in SUBSET Obligations
  BY FS_Subset DEF NettingAssumptions
<1>2. \A o \in S : Share(f, m)[o] \in Int
  BY DEF Share
<1>3. /\ \A o \in S \ T : Share(f, m)[o] = 0
      /\ \A o \in T : Share(f, m)[o] = Share(g, m)[o]
  BY DEF Share
<1>4. SumFunctionOnSet(Share(f, m), S) = SumFunctionOnSet(Share(f, m), T)
  BY <1>1, <1>2, <1>3, SumWithin
<1>5. SumFunctionOnSet(Share(f, m), T) = SumFunctionOnSet(Share(g, m), T)
  BY <1>1, <1>3, SumSame
<1>6. Net(m, f) = SumFunctionOnSet(Share(f, m), S)
  BY NetIsShares
<1>7. Net(m, g) = SumFunctionOnSet(Share(g, m), T)
  BY <1>1, NetIsShares
<1> QED BY <1>4, <1>5, <1>6, <1>7

\* For every input calculate_clearing clears of no entry more than is outstanding, of an excluded one
\* all of it, and of the entries that take part it takes from what each member owes exactly as much as
\* from what he is owed.
THEOREM CalculationBalances ==
   ASSUME NettingAssumptions, NEW D \in SUBSET Obligations, NEW input, DOMAIN input = D,
          \A o \in D : input[o].amount \in Nat /\ input[o].excluded \in BOOLEAN
   PROVE  /\ Engine!CalculateClearing(input) \in [D -> Nat]
          /\ \A o \in D : Engine!CalculateClearing(input)[o] <= input[o].amount
          /\ \A o \in D : input[o].excluded => Engine!CalculateClearing(input)[o] = input[o].amount
          /\ \A m : Net(m, [o \in {p \in D : ~input[p].excluded} |-> Engine!CalculateClearing(input)[o]]) = 0
<1> DEFINE result == Engine!CalculateClearing(input)
           start == Engine!Limits(input)
           top == start.left
           left == Engine!Circulate(Engine!Bilateral(start)).left
           T == {p \in D : ~input[p].excluded}
           part == [o \in T |-> result[o]]
           f == [o \in D |-> IF o \in T THEN result[o] ELSE 0]
<1>1. /\ start = [left |-> top, n |-> 0] /\ top \in [D -> Nat]
      /\ \A o \in D : top[o] = IF input[o].excluded THEN 0 ELSE input[o].amount
  BY DEF Engine!Limits
<1>2. result = [o \in D |-> input[o].amount - left[o]]
  BY DEF Engine!CalculateClearing
<1> HIDE DEF top, start, result, left
<1>3. Sound(start, top)
  BY <1>1 DEF Sound
<1>4. Sound(Engine!Bilateral(start), top)
  BY <1>1, <1>3, BilateralSound
<1>5. Sound(Engine!Circulate(Engine!Bilateral(start)), top)
  BY <1>1, <1>4, CirculateSound
<1>6. left \in [D -> Nat] /\ (\A o \in D : left[o] <= top[o]) /\ \A m : Net(m, left) = Net(m, top)
  BY <1>1, <1>5 DEF Sound, left
<1>7. ASSUME NEW o \in D
      PROVE  /\ result[o] \in Nat /\ result[o] <= input[o].amount
             /\ input[o].excluded => result[o] = input[o].amount
             /\ top[o] = left[o] + f[o]
  <2>1. left[o] \in Nat /\ top[o] \in Nat /\ input[o].amount \in Nat /\ left[o] <= top[o] BY <1>1, <1>6
  <2>2. result[o] = input[o].amount - left[o] BY <1>2
  <2>3. CASE input[o].excluded
    <3>1. left[o] = 0 /\ top[o] = 0 BY <1>1, <2>1, <2>3
    <3>2. f[o] = 0 BY <2>3
    <3> QED BY <2>1, <2>2, <3>1, <3>2
  <2>4. CASE ~input[o].excluded
    <3>1. top[o] = input[o].amount /\ f[o] = result[o] BY <1>1, <2>4
    <3> HIDE DEF f
    <3> QED BY <2>1, <2>2, <2>4, <3>1
  <2> QED BY <2>3, <2>4
<1>8. result \in [D -> Nat]
  BY <1>2, <1>7
<1>9. ASSUME NEW m PROVE Net(m, part) = 0
  <2>1. f \in [D -> Int] /\ part \in [T -> Int] /\ T \in SUBSET D BY <1>8
  <2>2. \A o \in D : f[o] = IF o \in T THEN part[o] ELSE 0 OBVIOUS
  <2> HIDE DEF f, part, T
  <2>3. Net(m, f) = Net(m, part) BY <2>1, <2>2, NetWithin
  <2>4. top \in [D -> Int] /\ left \in [D -> Int] BY <1>1, <1>6
  <2>5. Net(m, top) = Net(m, left) + Net(m, f) BY <1>7, <2>1, <2>4, NetAdds
  <2>6. Net(m, f) \in Int /\ Net(m, left) \in Int BY <2>1, <2>4, NetIsShares
  <2> QED BY <1>6, <2>3, <2>5, <2>6
<1> QED BY <1>7, <1>8, <1>9 DEF result

-----------------------------------------------------------------------------
\* What is not yet cleared of a later state s of the calculation is less than of an earlier one.
Follows(s, from) == DOMAIN s.left = DOMAIN from.left /\ \A o \in DOMAIN from.left : s.left[o] <= from.left[o]

\* Every allocation uses up an obligation, so there are never more of them than obligations.
Counted(s) == s.n + Cardinality(Engine!Arcs(s)) <= Cardinality(DOMAIN s.left)

LEMMA ArcsFinite ==
   ASSUME NettingAssumptions, NEW D \in SUBSET Obligations, NEW top \in [D -> Nat], NEW s, Sound(s, top)
   PROVE  /\ DOMAIN s.left = D /\ (\A o \in D : s.left[o] \in Nat) /\ s.n \in Nat
          /\ Engine!Arcs(s) \in SUBSET D /\ IsFiniteSet(Engine!Arcs(s))
          /\ Cardinality(Engine!Arcs(s)) \in Nat /\ Cardinality(D) \in Nat
<1>1. DOMAIN s.left = D /\ (\A o \in D : s.left[o] \in Nat) /\ s.n \in Nat
  BY DEF Sound
<1>2. Engine!Arcs(s) \in SUBSET D
  BY <1>1 DEF Engine!Arcs
<1>3. IsFiniteSet(D)
  BY FS_Subset DEF NettingAssumptions
<1> QED BY <1>1, <1>2, <1>3, FS_Subset, FS_CardinalityType

LEMMA AllocateCounts ==
   ASSUME NettingAssumptions, NEW D \in SUBSET Obligations, NEW top \in [D -> Nat], NEW s, Sound(s, top), Counted(s),
          NEW P \in SUBSET D, NEW x \in P, s.left[x] > 0, s.left[x] >= MinimumOperation,
          \A o \in P : s.left[x] <= s.left[o], NEW t, t = Engine!Allocate(s, P, s.left[x])
   PROVE  Counted(t) /\ t.n = s.n + 1 /\ Follows(t, s) /\ t.left[x] = 0 /\ \A o \in D \ P : t.left[o] = s.left[o]
<1> DEFINE A == Engine!Arcs(s)
           B == Engine!Arcs(t)
<1>1. /\ DOMAIN s.left = D /\ (\A o \in D : s.left[o] \in Nat) /\ s.n \in Nat
      /\ A \in SUBSET D /\ IsFiniteSet(A) /\ Cardinality(A) \in Nat /\ Cardinality(D) \in Nat
  BY ArcsFinite
<1>2. /\ t.n = s.n + 1 /\ DOMAIN t.left = D
      /\ \A o \in D : t.left[o] = IF o \in P THEN s.left[o] - s.left[x] ELSE s.left[o]
  BY <1>1 DEF Engine!Allocate
<1>3. \A o \in D : t.left[o] \in Nat /\ t.left[o] <= s.left[o]
  <2> SUFFICES ASSUME NEW o \in D PROVE t.left[o] \in Nat /\ t.left[o] <= s.left[o]
    OBVIOUS
  <2>1. s.left[o] \in Nat /\ s.left[x] \in Nat BY <1>1
  <2> QED BY <1>2, <2>1
<1>4. t.left[x] = 0
  <2>1. x \in D /\ s.left[x] \in Nat BY <1>1
  <2> QED BY <1>2, <2>1
<1>5. x \in A
  BY <1>1 DEF Engine!Arcs
<1>6. B \in SUBSET (A \ {x})
  <2> SUFFICES ASSUME NEW o \in B PROVE o \in A \ {x}
    OBVIOUS
  <2>1. o \in D /\ t.left[o] >= MinimumOperation /\ t.left[o] > 0 BY <1>2 DEF Engine!Arcs
  <2>2. s.left[o] >= MinimumOperation /\ s.left[o] > 0
    <3>1. s.left[o] \in Nat /\ t.left[o] \in Nat /\ t.left[o] <= s.left[o] /\ MinimumOperation \in Nat
      BY <1>1, <1>3, <2>1 DEF NettingAssumptions
    <3> QED BY <2>1, <3>1
  <2> QED BY <1>1, <1>4, <2>1, <2>2 DEF Engine!Arcs
<1> HIDE DEF A, B
<1>7. /\ IsFiniteSet(A \ {x}) /\ Cardinality(A \ {x}) = Cardinality(A) - 1
  BY <1>1, <1>5, FS_RemoveElement
<1>8. Cardinality(B) <= Cardinality(A) - 1 /\ Cardinality(B) \in Nat
  BY <1>6, <1>7, FS_Subset, FS_CardinalityType
<1>9. s.n + Cardinality(A) <= Cardinality(D)
  BY <1>1 DEF Counted, A
<1>10. Counted(t)
  <2>1. (s.n + 1) + Cardinality(B) <= Cardinality(D) BY <1>1, <1>8, <1>9
  <2> QED BY <1>2, <2>1 DEF Counted, B
<1> QED BY <1>1, <1>2, <1>3, <1>4, <1>10 DEF Follows

\* When as many allocations were made as there are obligations, nothing is left to allocate.
LEMMA UsedUp ==
   ASSUME NettingAssumptions, NEW D \in SUBSET Obligations, NEW top \in [D -> Nat], NEW s, Sound(s, top), Counted(s),
          s.n >= MaxIterations, Cardinality(D) <= MaxIterations
   PROVE  Engine!Arcs(s) = {}
<1>1. /\ DOMAIN s.left = D /\ s.n \in Nat /\ IsFiniteSet(Engine!Arcs(s))
      /\ Cardinality(Engine!Arcs(s)) \in Nat /\ Cardinality(D) \in Nat /\ MaxIterations \in Nat
  BY ArcsFinite DEF NettingAssumptions
<1>2. Cardinality(Engine!Arcs(s)) = 0
  BY <1>1 DEF Counted
<1> QED BY <1>1, <1>2, FS_EmptySet

\* Nothing is left to offset between l and r.
Offsetted(s, l, r) == Engine!Owed(s, l, r) = {} \/ Engine!Owed(s, r, l) = {}

LEMMA StaysOffsetted ==
   ASSUME NettingAssumptions, NEW D \in SUBSET Obligations, NEW top \in [D -> Nat], NEW s, Sound(s, top),
          NEW t, Sound(t, top), Follows(t, s), NEW l, NEW r
   PROVE  /\ Engine!Owed(t, l, r) \in SUBSET Engine!Owed(s, l, r)
          /\ Offsetted(s, l, r) => Offsetted(t, l, r)
<1>1. ASSUME NEW a, NEW b PROVE Engine!Owed(t, a, b) \in SUBSET Engine!Owed(s, a, b)
  <2> SUFFICES ASSUME NEW o \in Engine!Owed(t, a, b) PROVE o \in Engine!Owed(s, a, b)
    OBVIOUS
  <2>1. o \in DOMAIN t.left /\ t.left[o] > 0 /\ Engine!Debtor(o) = a /\ Engine!Creditor(o) = b BY DEF Engine!Owed
  <2>2. o \in DOMAIN s.left /\ t.left[o] <= s.left[o] BY <2>1 DEF Follows
  <2>3. s.left[o] \in Nat /\ t.left[o] \in Nat
    <3>1. DOMAIN s.left = D /\ (\A x \in D : s.left[x] \in Nat) /\ \A x \in D : t.left[x] \in Nat BY ArcsFinite
    <3> QED BY <2>2, <3>1
  <2>4. s.left[o] > 0 BY <2>1, <2>2, <2>3
  <2> QED BY <2>1, <2>2, <2>4 DEF Engine!Owed
<1>2. Engine!Owed(t, l, r) \in SUBSET Engine!Owed(s, l, r) /\ Engine!Owed(t, r, l) \in SUBSET Engine!Owed(s, r, l)
  BY <1>1
<1> QED BY <1>2 DEF Offsetted

LEMMA FollowsOn ==
   ASSUME NettingAssumptions, NEW D \in SUBSET Obligations, NEW top \in [D -> Nat], NEW s, Sound(s, top),
          NEW t, Sound(t, top), NEW u, Sound(u, top), Follows(t, s), Follows(u, t)
   PROVE  Follows(u, s)
<1>1. /\ DOMAIN s.left = D /\ DOMAIN t.left = D /\ DOMAIN u.left = D
      /\ \A o \in D : s.left[o] \in Nat /\ t.left[o] \in Nat /\ u.left[o] \in Nat
  BY ArcsFinite
<1>2. ASSUME NEW o \in D PROVE u.left[o] <= s.left[o]
  <2>1. s.left[o] \in Nat /\ t.left[o] \in Nat /\ u.left[o] \in Nat BY <1>1
  <2>2. u.left[o] <= t.left[o] /\ t.left[o] <= s.left[o] BY <1>1 DEF Follows
  <2> QED BY <2>1, <2>2
<1> QED BY <1>1, <1>2 DEF Follows

\* Where the loop over one pair is after i rounds from s: with a minimum operation of one quantum it has lost
\* sight of nothing, and every round was an allocation unless one side is used up.
Offsetting(t, s, l, r, i) ==
    /\ Counted(t.s) /\ Follows(t.s, s)
    /\ MinimumOperation = 1 => /\ t.there = Engine!Owed(t.s, l, r) /\ t.back = Engine!Owed(t.s, r, l)
                               /\ t.there = {} \/ t.back = {} \/ t.s.n >= MaxIterations \/ t.s.n >= i

LEMMA OffsetRoundCounts ==
   ASSUME NettingAssumptions, NEW D \in SUBSET Obligations, NEW top \in [D -> Nat], NEW s, Sound(s, top),
          NEW l, NEW r, l # r, NEW t \in Facing(top, l, r), NEW i \in Nat, Offsetting(t, s, l, r, i)
   PROVE  Offsetting(Engine!OffsetRound(t), s, l, r, i + 1)
<1> DEFINE first  == Engine!Min(t.there)
           second == Engine!Min(t.back)
           both   == {t.s.left[first], t.s.left[second]}
           amount == Engine!Rounded(Engine!Min(both))
           next   == Engine!Allocate(t.s, {first, second}, amount)
           Rest(q, o) == IF next.left[o] < MinimumOperation THEN q \ {o} ELSE q
           u == Engine!OffsetRound(t)
<1>1. /\ Sound(t.s, top) /\ t.there \in SUBSET D /\ t.back \in SUBSET D /\ MinimumOperation \in Nat
      /\ t = [s |-> t.s, there |-> t.there, back |-> t.back] /\ DOMAIN t.s.left = D
      /\ \A o \in D : t.s.left[o] \in Nat
      /\ t.s.n \in Nat /\ MaxIterations \in Nat
  BY DEF Facing, NettingAssumptions, Sound
<1>2. u = IF t.there = {} \/ t.back = {} \/ t.s.n >= MaxIterations THEN t
          ELSE IF amount <= 0 THEN [t EXCEPT !.there = {}]
          ELSE [s |-> next, there |-> Rest(t.there, first), back |-> Rest(t.back, second)]
  BY DEF Engine!OffsetRound
<1>3. CASE t.there = {} \/ t.back = {} \/ t.s.n >= MaxIterations
  BY <1>2, <1>3 DEF Offsetting
<1>4. CASE ~(t.there = {} \/ t.back = {} \/ t.s.n >= MaxIterations)
  <2>1. t.there \in SUBSET Nat /\ t.back \in SUBSET Nat BY <1>1 DEF NettingAssumptions
  <2>2. first \in t.there /\ second \in t.back BY <1>4, <2>1, MinIn
  <2>3. /\ Terms[first].debtor = l /\ Terms[first].creditor = r
        /\ Terms[second].debtor = r /\ Terms[second].creditor = l
    BY <2>2 DEF Facing
  <2>4. first \in D /\ second \in D /\ t.s.left[first] \in Nat /\ t.s.left[second] \in Nat BY <1>1, <2>2
  <2> HIDE DEF first, second
  <2>5. PICK x \in {first, second} :
          /\ Engine!Min(both) = t.s.left[x] /\ t.s.left[x] <= t.s.left[first] /\ t.s.left[x] <= t.s.left[second]
    <3>1. both \in SUBSET Nat /\ both # {} /\ t.s.left[first] \in both /\ t.s.left[second] \in both BY <2>4
    <3>2. Engine!Min(both) \in both /\ \A y \in both : Engine!Min(both) <= y
      <4> HIDE DEF both
      <4> QED BY <3>1, MinIn
    <3>3. Engine!Min(both) <= t.s.left[first] /\ Engine!Min(both) <= t.s.left[second] BY <3>1, <3>2
    <3>4. Engine!Min(both) = t.s.left[first] \/ Engine!Min(both) = t.s.left[second] BY <3>2
    <3> QED BY <3>3, <3>4
  <2>6. x \in D /\ t.s.left[x] \in Nat BY <2>4, <2>5
  <2>7. amount = IF t.s.left[x] < MinimumOperation THEN 0 ELSE t.s.left[x] BY <2>5 DEF Engine!Rounded
  <2> HIDE DEF both
  <2>8. CASE amount <= 0
    <3>1. u = [t EXCEPT !.there = {}] BY <1>2, <1>4, <2>8
    <3>2. u.s = t.s BY <1>1, <3>1
    <3>3. MinimumOperation # 1
      <4> SUFFICES ASSUME MinimumOperation = 1 PROVE FALSE
        OBVIOUS
      <4>1. x \in Engine!Owed(t.s, l, r) \/ x \in Engine!Owed(t.s, r, l) BY <2>2, <2>5 DEF Offsetting
      <4>2. t.s.left[x] > 0 BY <4>1 DEF Engine!Owed
      <4> QED BY <2>6, <2>7, <2>8, <4>2
    <3> QED BY <3>2, <3>3 DEF Offsetting
  <2>9. CASE ~(amount <= 0)
    <3>1. amount = t.s.left[x] /\ t.s.left[x] > 0 /\ t.s.left[x] >= MinimumOperation
      BY <1>1, <2>6, <2>7, <2>9
    <3>2. u = [s |-> next, there |-> Rest(t.there, first), back |-> Rest(t.back, second)] BY <1>2, <1>4, <2>9
    <3> DEFINE v == Engine!Allocate(t.s, {first, second}, t.s.left[x])
               P == {first, second}
    <3>3. next = v BY <3>1
    <3>4. P \in SUBSET D /\ x \in P /\ \A o \in P : t.s.left[x] <= t.s.left[o] BY <2>4, <2>5
    <3>5. /\ Counted(v) /\ v.n = t.s.n + 1 /\ Follows(v, t.s)
          /\ \A o \in D \ P : v.left[o] = t.s.left[o]
      <4> HIDE DEF P
      <4>1. Counted(t.s) BY DEF Offsetting
      <4>2. v = Engine!Allocate(t.s, P, t.s.left[x]) BY DEF P
      <4> HIDE DEF v
      <4> QED BY <1>1, <3>1, <3>4, <4>1, <4>2, AllocateCounts
    <3>6. Sound(v, top)
      <4>1. Ring(P) BY <2>3 DEF Ring
      <4>2. v = Engine!Allocate(t.s, P, t.s.left[x]) OBVIOUS
      <4> HIDE DEF P, v
      <4> QED BY <1>1, <2>6, <3>4, <4>1, <4>2, AllocateSound
    <3> HIDE DEF v
    <3>7. Follows(v, s) BY <1>1, <3>5, <3>6, FollowsOn DEF Offsetting
    <3>8. u.s = v /\ u.there = Rest(t.there, first) /\ u.back = Rest(t.back, second) BY <3>2, <3>3
    <3>9. DOMAIN v.left = D /\ (\A o \in D : v.left[o] \in Nat) /\ v.n \in Nat BY <3>6, ArcsFinite
    <3>10. ASSUME MinimumOperation = 1
           PROVE  /\ Rest(t.there, first) = Engine!Owed(v, l, r) /\ Rest(t.back, second) = Engine!Owed(v, r, l)
                  /\ v.n >= MaxIterations \/ v.n >= i + 1
      <4>1. t.there = Engine!Owed(t.s, l, r) /\ t.back = Engine!Owed(t.s, r, l) /\ t.s.n >= i
        BY <1>4, <3>10 DEF Offsetting
      <4>2. /\ Rest(t.there, first) = {o \in t.there : o # first \/ v.left[o] > 0}
            /\ Rest(t.back, second) = {o \in t.back : o # second \/ v.left[o] > 0}
        <5>1. v.left[first] \in Nat /\ v.left[second] \in Nat BY <2>4, <3>9
        <5>2. (v.left[first] < MinimumOperation) <=> ~(v.left[first] > 0) BY <3>10, <5>1
        <5>3. (v.left[second] < MinimumOperation) <=> ~(v.left[second] > 0) BY <3>10, <5>1
        <5> QED BY <3>3, <5>2, <5>3
      <4> HIDE DEF Rest
      <4>3. ASSUME NEW o \in D
            PROVE  /\ o \in Rest(t.there, first) <=> o \in Engine!Owed(v, l, r)
                   /\ o \in Rest(t.back, second) <=> o \in Engine!Owed(v, r, l)
        <5>1. /\ o \in Engine!Owed(v, l, r) <=> Terms[o].debtor = l /\ Terms[o].creditor = r /\ v.left[o] > 0
              /\ o \in Engine!Owed(v, r, l) <=> Terms[o].debtor = r /\ Terms[o].creditor = l /\ v.left[o] > 0
              /\ o \in t.there <=> Terms[o].debtor = l /\ Terms[o].creditor = r /\ t.s.left[o] > 0
              /\ o \in t.back <=> Terms[o].debtor = r /\ Terms[o].creditor = l /\ t.s.left[o] > 0
          BY <1>1, <3>9, <4>1 DEF Engine!Owed, Engine!Debtor, Engine!Creditor
        <5>2. v.left[o] > 0 => t.s.left[o] > 0
          <6>1. v.left[o] \in Nat /\ t.s.left[o] \in Nat /\ v.left[o] <= t.s.left[o] BY <1>1, <3>5, <3>9 DEF Follows
          <6> QED BY <6>1
        <5>3. o # first /\ o # second => v.left[o] = t.s.left[o] BY <3>5
        <5> QED BY <2>3, <4>2, <5>1, <5>2, <5>3
      <4>4. Rest(t.there, first) \in SUBSET D /\ Rest(t.back, second) \in SUBSET D BY <1>1, <4>2
      <4>5. Engine!Owed(v, l, r) \in SUBSET D /\ Engine!Owed(v, r, l) \in SUBSET D BY <3>9 DEF Engine!Owed
      <4>6. Rest(t.there, first) = Engine!Owed(v, l, r) BY <4>3, <4>4, <4>5
      <4>7. Rest(t.back, second) = Engine!Owed(v, r, l) BY <4>3, <4>4, <4>5
      <4> QED BY <1>1, <3>5, <4>1, <4>6, <4>7
    <3> HIDE DEF Rest
    <3> QED BY <3>5, <3>7, <3>8, <3>10 DEF Offsetting
  <2> QED BY <2>8, <2>9
<1> QED BY <1>3, <1>4

\* With enough rounds a pair is offset until one of the two owes the other nothing.
LEMMA OffsetComplete ==
   ASSUME NettingAssumptions, NEW D \in SUBSET Obligations, NEW top \in [D -> Nat], NEW s, Sound(s, top), Counted(s),
          NEW l, NEW r, l # r, NEW t, t = Engine!Offset(s, l, r)
   PROVE  /\ Sound(t, top) /\ Counted(t) /\ Follows(t, s)
          /\ MinimumOperation = 1 /\ Cardinality(D) <= MaxIterations => Offsetted(t, l, r)
<1>0. Sound(t, top) /\ MaxIterations \in Nat
  BY OffsetSound DEF NettingAssumptions
<1>1. PICK h : /\ h[0] = [s |-> s, there |-> Engine!Owed(s, l, r), back |-> Engine!Owed(s, r, l)]
               /\ \A i \in 1..MaxIterations : h[i] = Engine!OffsetRound(h[i - 1])
               /\ \A i \in 0..MaxIterations : h[i] \in Facing(top, l, r)
               /\ t = h[MaxIterations].s
  BY OffsetRuns
<1> DEFINE P == {i \in 0..MaxIterations : Offsetting(h[i], s, l, r, i)}
<1>2. 0 \in P
  <2>1. h[0].s = s /\ h[0].there = Engine!Owed(s, l, r) /\ h[0].back = Engine!Owed(s, r, l) BY <1>1
  <2>2. Follows(s, s) /\ s.n >= 0
    <3>1. DOMAIN s.left = D /\ (\A o \in D : s.left[o] \in Nat) /\ s.n \in Nat BY ArcsFinite
    <3> QED BY <3>1 DEF Follows
  <2>3. Offsetting(h[0], s, l, r, 0) BY <2>1, <2>2 DEF Offsetting
  <2> QED BY <1>0, <2>3
<1>3. ASSUME NEW i \in 1..MaxIterations, i - 1 \in P PROVE i \in P
  <2>1. i - 1 \in Nat /\ (i - 1) + 1 = i /\ i \in 0..MaxIterations /\ i - 1 \in 0..MaxIterations BY <1>0
  <2>2. h[i - 1] \in Facing(top, l, r) /\ h[i] = Engine!OffsetRound(h[i - 1]) BY <1>1, <2>1
  <2>3. Offsetting(h[i - 1], s, l, r, i - 1) BY <1>3
  <2>4. Offsetting(h[i], s, l, r, (i - 1) + 1) BY <2>1, <2>2, <2>3, OffsetRoundCounts
  <2> QED BY <2>1, <2>4
<1>4. Offsetting(h[MaxIterations], s, l, r, MaxIterations)
  <2> HIDE DEF P
  <2>1. \A i \in 0..MaxIterations : i \in P BY <1>0, <1>2, <1>3, StepByStep
  <2> QED BY <1>0, <2>1 DEF P
<1>5. Counted(t) /\ Follows(t, s)
  BY <1>1, <1>4 DEF Offsetting
<1>6. ASSUME MinimumOperation = 1, Cardinality(D) <= MaxIterations PROVE Offsetted(t, l, r)
  <2>1. Engine!Owed(t, l, r) = {} \/ Engine!Owed(t, r, l) = {} \/ t.n >= MaxIterations
    BY <1>1, <1>4, <1>6 DEF Offsetting
  <2>2. CASE t.n >= MaxIterations
    <3>1. Engine!Arcs(t) = {} BY <1>0, <1>5, <1>6, <2>2, UsedUp
    <3>2. DOMAIN t.left = D /\ \A o \in D : t.left[o] \in Nat BY <1>0, ArcsFinite
    <3>3. ASSUME NEW o \in Engine!Owed(t, l, r) PROVE FALSE
      <4>1. o \in D /\ t.left[o] > 0 /\ t.left[o] \in Nat BY <3>2 DEF Engine!Owed
      <4>2. o \in Engine!Arcs(t) BY <1>6, <3>2, <4>1 DEF Engine!Arcs
      <4> QED BY <3>1, <4>2
    <3> QED BY <3>3 DEF Offsetted
  <2> QED BY <2>1, <2>2 DEF Offsetted
<1> QED BY <1>0, <1>5, <1>6

\* Where the bilateral offsets are after i of their k rounds
Swept(t, s, D, k, i) ==
    /\ Counted(t.s) /\ Follows(t.s, s)
    /\ t.pairs = {} \/ Cardinality(t.pairs) <= k - i
    /\ MinimumOperation = 1 /\ Cardinality(D) <= MaxIterations =>
         \A p \in PairsOf(D) \ t.pairs : Offsetted(t.s, p[1], p[2])

LEMMA PairRoundCounts ==
   ASSUME NettingAssumptions, NEW D \in SUBSET Obligations, NEW top \in [D -> Nat], NEW s, Sound(s, top),
          NEW k \in Nat, NEW i \in Nat, NEW t \in Sweeping(top), Swept(t, s, D, k, i)
   PROVE  Swept(Engine!PairRound(t), s, D, k, i + 1)
<1> DEFINE p == Engine!FirstPair(t.pairs)
           v == Engine!Offset(t.s, p[1], p[2])
<1>1. /\ Sound(t.s, top) /\ t.pairs \in SUBSET PairsOf(D) /\ Counted(t.s) /\ Follows(t.s, s)
  BY DEF Sweeping, Swept
<1>2. Engine!PairRound(t) = IF t.pairs = {} THEN t ELSE [s |-> v, pairs |-> t.pairs \ {p}]
  BY DEF Engine!PairRound
<1>3. CASE t.pairs = {}
  BY <1>2, <1>3 DEF Swept
<1>4. CASE t.pairs # {}
  <2>1. PairsOf(D) \in SUBSET (Nat \X Nat) /\ IsFiniteSet(PairsOf(D)) BY PairsFinite DEF PairsOf
  <2>2. p \in t.pairs BY <1>1, <1>4, <2>1, FirstPairIn
  <2> HIDE DEF p
  <2>3. p \in PairsOf(D) /\ p[1] # p[2]
    <3>1. p \in PairsOf(D) BY <1>1, <2>2
    <3>2. p[1] \in Nat /\ p[2] \in Nat /\ p[1] < p[2] BY <2>1, <3>1 DEF PairsOf
    <3> QED BY <3>1, <3>2
  <2>4. /\ Sound(v, top) /\ Counted(v) /\ Follows(v, t.s)
        /\ MinimumOperation = 1 /\ Cardinality(D) <= MaxIterations => Offsetted(v, p[1], p[2])
    <3> HIDE DEF v
    <3>1. v = Engine!Offset(t.s, p[1], p[2]) BY DEF v
    <3> QED BY <1>1, <2>3, <3>1, OffsetComplete
  <2> HIDE DEF v
  <2>5. Follows(v, s) BY <1>1, <2>4, FollowsOn
  <2> DEFINE Q == t.pairs \ {p}
             u == Engine!PairRound(t)
  <2>6. u = [s |-> v, pairs |-> Q] BY <1>2, <1>4
  <2>7. u.s = v /\ u.pairs = Q BY <2>6
  <2>8. Cardinality(Q) <= k - (i + 1)
    <3>1. IsFiniteSet(t.pairs) BY <1>1, <2>1, FS_Subset
    <3>2. Cardinality(t.pairs) \in Nat /\ Cardinality(Q) = Cardinality(t.pairs) - 1
      BY <2>2, <3>1, FS_RemoveElement, FS_CardinalityType
    <3>3. Cardinality(t.pairs) <= k - i BY <1>4 DEF Swept
    <3> QED BY <3>2, <3>3
  <2>9. ASSUME MinimumOperation = 1, Cardinality(D) <= MaxIterations, NEW w \in PairsOf(D) \ Q
        PROVE  Offsetted(v, w[1], w[2])
    <3>1. CASE w = p BY <2>4, <2>9, <3>1
    <3>2. CASE w # p
      <4>1. Offsetted(t.s, w[1], w[2]) BY <2>9, <3>2 DEF Swept
      <4> QED BY <1>1, <2>4, <4>1, StaysOffsetted
    <3> QED BY <3>1, <3>2
  <2> HIDE DEF u, Q
  <2> QED BY <2>4, <2>5, <2>7, <2>8, <2>9 DEF Swept, u
<1> QED BY <1>3, <1>4

\* With enough rounds no two members owe each other after the bilateral offsets.
LEMMA BilateralComplete ==
   ASSUME NettingAssumptions, NEW D \in SUBSET Obligations, NEW top \in [D -> Nat], NEW s, Sound(s, top), Counted(s),
          NEW t, t = Engine!Bilateral(s)
   PROVE  /\ Sound(t, top) /\ Counted(t)
          /\ MinimumOperation = 1 /\ Cardinality(D) <= MaxIterations =>
               \A p \in PairsOf(D) : Offsetted(t, p[1], p[2])
<1> DEFINE k == Cardinality(PairsOf(D))
<1> HIDE DEF k
<1>0. k = Cardinality(PairsOf(D)) /\ Sound(t, top)
  BY BilateralSound DEF k
<1>1. PICK h : /\ h[0] = [s |-> s, pairs |-> PairsOf(D)]
               /\ \A i \in 1..k : h[i] = Engine!PairRound(h[i - 1])
               /\ \A i \in 0..k : h[i] \in Sweeping(top)
               /\ t = h[k].s
  BY <1>0, BilateralRuns
<1>2. k \in Nat
  BY <1>0, BilateralRuns
<1> DEFINE P == {i \in 0..k : Swept(h[i], s, D, k, i)}
<1>3. 0 \in P
  <2>1. h[0].s = s /\ h[0].pairs = PairsOf(D) BY <1>1
  <2>2. Follows(s, s)
    <3>1. DOMAIN s.left = D /\ \A o \in D : s.left[o] \in Nat BY ArcsFinite
    <3> QED BY <3>1 DEF Follows
  <2>3. Cardinality(PairsOf(D)) <= k - 0 BY <1>0, <1>2
  <2>4. Swept(h[0], s, D, k, 0) BY <2>1, <2>2, <2>3 DEF Swept
  <2> QED BY <1>2, <2>4
<1>4. ASSUME NEW i \in 1..k, i - 1 \in P PROVE i \in P
  <2>1. i - 1 \in Nat /\ (i - 1) + 1 = i /\ i \in 0..k /\ i - 1 \in 0..k BY <1>2
  <2>2. h[i - 1] \in Sweeping(top) /\ h[i] = Engine!PairRound(h[i - 1]) BY <1>1, <2>1
  <2>3. Swept(h[i - 1], s, D, k, i - 1) BY <1>4
  <2>4. Swept(h[i], s, D, k, (i - 1) + 1) BY <1>2, <2>1, <2>2, <2>3, PairRoundCounts
  <2> QED BY <2>1, <2>4
<1>5. Swept(h[k], s, D, k, k)
  <2> HIDE DEF P
  <2>1. \A i \in 0..k : i \in P BY <1>2, <1>3, <1>4, StepByStep
  <2> QED BY <1>2, <2>1 DEF P
<1>6. h[k].pairs = {}
  <2>1. h[k] \in Sweeping(top) BY <1>1, <1>2
  <2>2. h[k].pairs \in SUBSET PairsOf(D) BY <2>1 DEF Sweeping
  <2>3. IsFiniteSet(h[k].pairs) BY <2>2, PairsFinite, FS_Subset
  <2>4. Cardinality(h[k].pairs) \in Nat BY <2>3, FS_CardinalityType
  <2>5. h[k].pairs = {} \/ Cardinality(h[k].pairs) <= k - k BY <1>5 DEF Swept
  <2>6. h[k].pairs = {} \/ Cardinality(h[k].pairs) = 0 BY <1>2, <2>4, <2>5
  <2> QED BY <2>3, <2>6, FS_EmptySet
<1> QED BY <1>0, <1>1, <1>5, <1>6 DEF Swept

\* Where the offsets along cycles are after i rounds
Circled(t, s, i) ==
    /\ Counted(t.s) /\ Follows(t.s, s)
    /\ t.over \/ t.s.n >= i
    /\ t.over => t.s.n >= MaxIterations \/ Engine!ClosedTrails(t.s) = {}

LEMMA CycleRoundCounts ==
   ASSUME NettingAssumptions, NEW D \in SUBSET Obligations, NEW top \in [D -> Nat], NEW s, Sound(s, top),
          NEW i \in Nat, NEW t \in Circling(top), Circled(t, s, i)
   PROVE  Circled(Engine!CycleRound(t), s, i + 1)
<1> DEFINE trails == Engine!ClosedTrails(t.s)
           path   == FirstPath(t.s)
           amount == FirstShare(t.s)
           next   == Engine!Allocate(t.s, path, amount)
           u == Engine!CycleRound(t)
<1>1. /\ Sound(t.s, top) /\ Counted(t.s) /\ Follows(t.s, s) /\ t.s.n \in Nat /\ MaxIterations \in Nat
      /\ t = [s |-> t.s, over |-> t.over] /\ t.over \in BOOLEAN
  BY DEF Circling, Circled, NettingAssumptions, Sound
<1>2. u = IF t.over \/ t.s.n >= MaxIterations \/ trails = {} THEN [t EXCEPT !.over = TRUE]
          ELSE IF amount <= 0 THEN [t EXCEPT !.over = TRUE] ELSE [t EXCEPT !.s = next]
  BY DEF Engine!CycleRound, FirstPath, FirstShare, LeftOn
<1>3. CASE t.over \/ t.s.n >= MaxIterations \/ trails = {}
  <2>1. u.s = t.s /\ u.over = TRUE BY <1>1, <1>2, <1>3
  <2>2. t.s.n >= MaxIterations \/ trails = {} BY <1>3 DEF Circled
  <2> QED BY <2>1, <2>2 DEF Circled
<1>4. CASE ~(t.over \/ t.s.n >= MaxIterations \/ trails = {})
  <2>0. trails # {} /\ ~t.over BY <1>4
  <2>1. /\ Ring(path) /\ path \in SUBSET D
        /\ \E x \in path : /\ amount = t.s.left[x] /\ t.s.left[x] > 0 /\ t.s.left[x] >= MinimumOperation
                           /\ \A o \in path : t.s.left[x] <= t.s.left[o]
    <3>1. Offsetable(t.s, D) BY <1>1, <2>0, CycleFound
    <3> QED BY <3>1 DEF Offsetable
  <2>2. PICK x \in path : /\ amount = t.s.left[x] /\ t.s.left[x] > 0 /\ t.s.left[x] >= MinimumOperation
                          /\ \A o \in path : t.s.left[x] <= t.s.left[o]
    BY <2>1
  <2>3. next = Engine!Allocate(t.s, path, t.s.left[x]) BY <2>2
  <2>4. x \in D /\ t.s.left[x] \in Nat
    <3>1. \A o \in D : t.s.left[o] \in Nat BY <1>1, ArcsFinite
    <3> HIDE DEF path
    <3> QED BY <2>1, <3>1
  <2>5. u = [t EXCEPT !.s = next]
    <3> HIDE DEF trails, amount, next
    <3> QED BY <1>2, <1>4, <2>2, <2>4
  <2> HIDE DEF path, amount, next
  <2>6. Counted(next) /\ next.n = t.s.n + 1 /\ Follows(next, t.s)
    BY <1>1, <2>1, <2>2, <2>3, AllocateCounts
  <2>7. Sound(next, top) BY <1>1, <2>1, <2>2, <2>3, <2>4, AllocateSound
  <2>8. Follows(next, s) BY <1>1, <2>6, <2>7, FollowsOn
  <2>9. u.s = next /\ u.over = t.over BY <1>1, <2>5
  <2>10. next.n >= i + 1
    <3>1. t.s.n >= i BY <2>0 DEF Circled
    <3> QED BY <1>1, <2>6, <3>1
  <2> QED BY <2>0, <2>6, <2>8, <2>9, <2>10 DEF Circled
<1> QED BY <1>3, <1>4

\* With enough rounds the search ends because there is no closed trail.
LEMMA CirculateComplete ==
   ASSUME NettingAssumptions, NEW D \in SUBSET Obligations, NEW top \in [D -> Nat], NEW s, Sound(s, top), Counted(s),
          Cardinality(D) <= MaxIterations, NEW t, t = Engine!Circulate(s)
   PROVE  Sound(t, top) /\ Follows(t, s) /\ Engine!ClosedTrails(t) = {}
<1>0. Sound(t, top) /\ MaxIterations \in Nat
  BY CirculateSound DEF NettingAssumptions
<1>1. PICK h : /\ h[0] = [s |-> s, over |-> FALSE]
               /\ \A i \in 1..MaxIterations : h[i] = Engine!CycleRound(h[i - 1])
               /\ \A i \in 0..MaxIterations : h[i] \in Circling(top)
               /\ t = h[MaxIterations].s
  BY CirculateRuns
<1> DEFINE P == {i \in 0..MaxIterations : Circled(h[i], s, i)}
<1>2. 0 \in P
  <2>1. h[0].s = s /\ h[0].over = FALSE BY <1>1
  <2>2. Follows(s, s) /\ s.n >= 0
    <3>1. DOMAIN s.left = D /\ (\A o \in D : s.left[o] \in Nat) /\ s.n \in Nat BY ArcsFinite
    <3> QED BY <3>1 DEF Follows
  <2>3. Circled(h[0], s, 0) BY <2>1, <2>2 DEF Circled
  <2> QED BY <1>0, <2>3
<1>3. ASSUME NEW i \in 1..MaxIterations, i - 1 \in P PROVE i \in P
  <2>1. i - 1 \in Nat /\ (i - 1) + 1 = i /\ i \in 0..MaxIterations /\ i - 1 \in 0..MaxIterations BY <1>0
  <2>2. h[i - 1] \in Circling(top) /\ h[i] = Engine!CycleRound(h[i - 1]) BY <1>1, <2>1
  <2>3. Circled(h[i - 1], s, i - 1) BY <1>3
  <2>4. Circled(h[i], s, (i - 1) + 1) BY <2>1, <2>2, <2>3, CycleRoundCounts
  <2> QED BY <2>1, <2>4
<1>4. Circled(h[MaxIterations], s, MaxIterations)
  <2> HIDE DEF P
  <2>1. \A i \in 0..MaxIterations : i \in P BY <1>0, <1>2, <1>3, StepByStep
  <2> QED BY <1>0, <2>1 DEF P
<1>5. Counted(t) /\ Follows(t, s) /\ (t.n >= MaxIterations \/ Engine!ClosedTrails(t) = {})
  BY <1>1, <1>4 DEF Circled
<1>6. ASSUME t.n >= MaxIterations PROVE Engine!ClosedTrails(t) = {}
  <2> SUFFICES ASSUME Engine!ClosedTrails(t) # {} PROVE FALSE
    OBVIOUS
  <2>1. Engine!Arcs(t) = {} BY <1>0, <1>5, <1>6, UsedUp
  <2>2. PICK n \in Nat : n >= 1 /\ Engine!FirstCycle(Engine!ClosedTrails(t)) \in Circles(Engine!Arcs(t), n)
    BY <1>0, FirstCycleIn
  <2>3. Engine!FirstCycle(Engine!ClosedTrails(t))[1] \in Engine!Arcs(t) BY <2>2 DEF Circles, Paths
  <2> QED BY <2>1, <2>3
<1> QED BY <1>0, <1>5, <1>6

\* The calculation leaves nothing it could still clear (docs/clearing_algorithm.md, step 7), provided it may
\* make as many allocations as it has entries: among the debts that remain and are large enough for an operation
\* no closed path has 3 to MaxCycleLength obligations.  With a minimum operation of one quantum no two
\* members owe each other either; and if a path may be as long as there are members, none is closed at all.
THEOREM CalculationLeavesNoCircle ==
   ASSUME NettingAssumptions, NEW D \in SUBSET Obligations, NEW input, DOMAIN input = D,
          \A o \in D : input[o].amount \in Nat /\ input[o].excluded \in BOOLEAN,
          Cardinality(D) <= MaxIterations,
          NEW large, large = {o \in D : LET remains == input[o].amount - Engine!CalculateClearing(input)[o]
                                        IN  remains > 0 /\ remains >= MinimumOperation}
   PROVE  /\ \A n \in 3..MaxCycleLength : Circles(large, n) = {}
          /\ MinimumOperation = 1 => Circles(large, 2) = {}
          /\ MinimumOperation = 1 /\ Cardinality(PersonsOf(D)) <= MaxCycleLength =>
               \A n \in Nat \ {0} : Circles(large, n) = {}
<1> DEFINE start == Engine!Limits(input)
           top == start.left
           s == Engine!Bilateral(start)
           t == Engine!Circulate(s)
<1>1. /\ start = [left |-> top, n |-> 0] /\ top \in [D -> Nat]
  BY DEF Engine!Limits
<1>2. Engine!CalculateClearing(input) = [o \in D |-> input[o].amount - t.left[o]]
  BY DEF Engine!CalculateClearing
<1> HIDE DEF top, start
<1>3. Sound(start, top) /\ Counted(start)
  <2>1. Sound(start, top) BY <1>1 DEF Sound
  <2>2. IsFiniteSet(D) BY FS_Subset DEF NettingAssumptions
  <2>3. Engine!Arcs(start) \in SUBSET D /\ start.n = 0 /\ DOMAIN start.left = D BY <1>1 DEF Engine!Arcs
  <2>4. Cardinality(Engine!Arcs(start)) <= Cardinality(D) /\ Cardinality(Engine!Arcs(start)) \in Nat
    BY <2>2, <2>3, FS_Subset, FS_CardinalityType
  <2>5. 0 + Cardinality(Engine!Arcs(start)) <= Cardinality(D) BY <2>4
  <2> QED BY <2>1, <2>3, <2>5 DEF Counted
<1>4. /\ Sound(s, top) /\ Counted(s)
      /\ MinimumOperation = 1 => \A p \in PairsOf(D) : Offsetted(s, p[1], p[2])
  <2> HIDE DEF s
  <2>1. s = Engine!Bilateral(start) BY DEF s
  <2> QED BY <1>1, <1>3, <2>1, BilateralComplete
<1> HIDE DEF s
<1>5. Sound(t, top) /\ Follows(t, s) /\ Engine!ClosedTrails(t) = {}
  <2> HIDE DEF t
  <2>1. t = Engine!Circulate(s) BY DEF t
  <2> QED BY <1>1, <1>4, <2>1, CirculateComplete
<1> HIDE DEF t
<1>6. large = Engine!Arcs(t)
  <2>1. DOMAIN t.left = D /\ \A o \in D : t.left[o] \in Nat BY <1>1, <1>5, ArcsFinite
  <2>2. ASSUME NEW o \in D PROVE input[o].amount - Engine!CalculateClearing(input)[o] = t.left[o]
    <3>1. input[o].amount \in Nat /\ t.left[o] \in Nat /\ Engine!CalculateClearing(input)[o] = input[o].amount - t.left[o]
      BY <1>2, <2>1
    <3> QED BY <3>1
  <2> QED BY <2>1, <2>2 DEF Engine!Arcs
<1>7. large \in SUBSET D
  OBVIOUS
<1>8. ASSUME NEW n \in 3..MaxCycleLength PROVE Circles(large, n) = {}
  <2> SUFFICES ASSUME NEW q \in Circles(large, n) PROVE FALSE
    OBVIOUS
  <2>1. n \in Nat /\ n >= 1 OBVIOUS
  <2>2. q \in Paths(large, n) /\ Terms[q[n]].creditor = Terms[q[1]].debtor BY DEF Circles
  <2>3. q \in Engine!Trails(Engine!Arcs(t), n) BY <1>6, <2>1, <2>2, TrailsArePaths
  <2>4. Len(q) = n BY <2>1, <2>2 DEF Paths
  <2>5. q \in Engine!ClosedTrails(t)
    BY <2>2, <2>3, <2>4 DEF Engine!ClosedTrails, Engine!Last, Engine!Debtor, Engine!Creditor
  <2> QED BY <1>5, <2>5
<1>9. ASSUME MinimumOperation = 1, NEW q \in Circles(large, 2) PROVE FALSE
  <2> DEFINE o == q[1]
             p == q[2]
             l == Terms[o].debtor
             r == Terms[o].creditor
  <2>1. o \in large /\ p \in large /\ Terms[p].debtor = r /\ Terms[p].creditor = l
    <3>1. q \in [1..2 -> large] /\ 1 \in 1..2 - 1 BY DEF Circles, Paths
    <3>2. Terms[q[1 + 1]].debtor = Terms[q[1]].creditor /\ Terms[q[2]].creditor = Terms[q[1]].debtor
      BY <3>1 DEF Circles, Paths
    <3> QED BY <3>1, <3>2
  <2> HIDE DEF o, p
  <2>2. o \in Engine!Owed(t, l, r) /\ p \in Engine!Owed(t, r, l)
    BY <1>6, <2>1 DEF Engine!Arcs, Engine!Owed, Engine!Debtor, Engine!Creditor
  <2>3. l \in PersonsOf(D) /\ r \in PersonsOf(D) BY <1>7, <2>1 DEF PersonsOf
  <2>4. l \in Nat /\ r \in Nat /\ l # r BY <1>7, <2>1 DEF NettingAssumptions
  <2> HIDE DEF l, r
  <2>5. <<l, r>> \in PairsOf(D) \/ <<r, l>> \in PairsOf(D) BY <2>3, <2>4 DEF PairsOf
  <2>6. Offsetted(s, l, r) \/ Offsetted(s, r, l) BY <1>4, <1>9, <2>5
  <2>7. Offsetted(t, l, r) \/ Offsetted(t, r, l) BY <1>1, <1>4, <1>5, <2>6, StaysOffsetted
  <2> QED BY <2>2, <2>7 DEF Offsetted
<1>10. ASSUME MinimumOperation = 1, Cardinality(PersonsOf(D)) <= MaxCycleLength, NEW n \in Nat \ {0},
              NEW q \in Circles(large, n)
       PROVE  FALSE
  <2>1. /\ q \in [1..n -> large] /\ Terms[q[n]].creditor = Terms[q[1]].debtor
        /\ \A i, j \in 1..n : Terms[q[i]].debtor = Terms[q[j]].debtor => i = j
    BY DEF Circles, Paths
  <2>2. n <= Cardinality(PersonsOf(D)) /\ Cardinality(PersonsOf(D)) \in Nat
    <3> DEFINE f == [i \in 1..n |-> Terms[q[i]].debtor]
    <3>1. f \in [1..n -> PersonsOf(D)] BY <1>7, <2>1 DEF PersonsOf
    <3>2. \A i, j \in 1..n : f[i] = f[j] => i = j BY <2>1
    <3> HIDE DEF f
    <3>3. f \in Injection(1..n, PersonsOf(D)) BY <3>1, <3>2 DEF Injection, IsInjective
    <3>4. IsFiniteSet(PersonsOf(D)) BY PairsFinite
    <3>5. Cardinality(1..n) = n BY FS_Interval
    <3> QED BY <3>3, <3>4, <3>5, FS_Injection, FS_CardinalityType
  <2>3. CASE n = 1
    <3>1. q[1] \in D /\ Terms[q[1]].creditor = Terms[q[1]].debtor BY <1>7, <2>1, <2>3
    <3> QED BY <3>1 DEF NettingAssumptions
  <2>4. CASE n = 2 BY <1>9, <1>10, <2>4
  <2>5. CASE n # 1 /\ n # 2
    <3>1. n \in 3..MaxCycleLength BY <1>10, <2>2, <2>5 DEF NettingAssumptions
    <3> QED BY <1>8, <3>1
  <2> QED BY <2>3, <2>4, <2>5
<1> QED BY <1>8, <1>9, <1>10

-----------------------------------------------------------------------------
\* The bounds of the model on the amounts
BoundAssumption == \A o \in Obligations : MaxAmount[o] \in Nat

\* The rows of the nodes
RowsOK == /\ Registered \subseteq Obligations
          /\ registered \in [Registered -> [home : Nat, original : Nat, outstanding : Nat]]
          /\ \A o \in Registered : /\ registered[o].home \in Parties(o)
                                   /\ Outstanding(o) <= registered[o].original

\* What a node that has applied the proposal has taken from a row; before that, nothing
Taken(o) == IF o \in DOMAIN cleared /\ registered[o].home \in applied THEN cleared[o] ELSE 0

\* A snapshot is of rows of its node between participants; they were then what they would be now
\* had the node not applied the proposal.
SnapshotsOK ==
    /\ DOMAIN snapshots \subseteq participants
    /\ \A n \in DOMAIN snapshots : \A o \in DOMAIN snapshots[n] :
          /\ o \in Registered /\ registered[o].home = n /\ Parties(o) \subseteq participants
          /\ snapshots[n][o] = Outstanding(o) + Taken(o)

\* The proposal is over all snapshots, clears no more than they say, and balances.
ProposalOK ==
    /\ cleared \in [DOMAIN cleared -> Nat] /\ DOMAIN cleared \in {{}, Input}
    /\ DOMAIN cleared # {} => DOMAIN snapshots = participants
    /\ \A n \in DOMAIN snapshots : \A o \in DOMAIN snapshots[n] \intersect DOMAIN cleared : cleared[o] <= snapshots[n][o]
    /\ \A m : Net(m, cleared) = 0
    /\ applied \subseteq Affected

\* What applied proposals took, over all cycles, balances, once what is applied of an open one is put back.
Gone == [o \in Registered |-> registered[o].original - (Outstanding(o) + Taken(o))]
GoneOK == \A m : Net(m, Gone) = 0

NetInv == RowsOK /\ SnapshotsOK /\ ProposalOK /\ GoneOK

LEMMA NothingIsNeutral ==
   ASSUME NettingAssumptions, NEW f, f = Nothing, NEW m
   PROVE  Net(m, f) = 0
<1>1. f \in [{} -> Int] /\ {} \in SUBSET Obligations
  BY DEF Nothing
<1>2. Net(m, f) = SumFunctionOnSet(Share(f, m), {})
  BY <1>1, NetIsShares
<1> QED BY <1>2, SumEmpty

LEMMA InitNet == NettingAssumptions /\ Init => NetInv
<1> SUFFICES ASSUME NettingAssumptions, Init PROVE NetInv
  OBVIOUS
<1>1. /\ registered = Nothing /\ participants = {} /\ snapshots = Nothing /\ cleared = Nothing /\ applied = {}
  BY DEF Init
<1>2. DOMAIN Nothing = {} /\ Nothing \in [{} -> Nat]
  BY DEF Nothing
<1>3. RowsOK
  <2>1. registered \in [{} -> [home : Nat, original : Nat, outstanding : Nat]] BY <1>1 DEF Nothing
  <2> QED BY <1>1, <1>2, <2>1 DEF RowsOK, Registered
<1>4. SnapshotsOK
  BY <1>1, <1>2 DEF SnapshotsOK
<1>5. ProposalOK
  BY <1>1, <1>2, NothingIsNeutral DEF ProposalOK
<1>6. Gone = Nothing
  BY <1>1, <1>2 DEF Gone, Registered, Nothing
<1> QED BY <1>3, <1>4, <1>5, <1>6, NothingIsNeutral DEF NetInv, GoneOK

\* An obligation is in the snapshot of its home alone, so that snapshot says what it was before.
LEMMA BeforeIs ==
   ASSUME NetInv, NEW n \in DOMAIN snapshots, NEW o \in DOMAIN snapshots[n]
   PROVE  /\ Before(o) = snapshots[n][o] /\ Before(o) = Outstanding(o) + Taken(o)
          /\ o \in Input /\ o \in Registered /\ registered[o].home = n
<1>1. \A k \in DOMAIN snapshots : o \in DOMAIN snapshots[k] => k = n
  BY DEF NetInv, SnapshotsOK
<1>2. (CHOOSE k \in DOMAIN snapshots : o \in DOMAIN snapshots[k]) = n
  BY <1>1
<1>3. Before(o) = snapshots[n][o]
  BY <1>2 DEF Before
<1>4. snapshots[n][o] = Outstanding(o) + Taken(o) /\ o \in Registered /\ registered[o].home = n
  BY DEF NetInv, SnapshotsOK
<1> QED BY <1>3, <1>4 DEF Input

LEMMA InputRegistered ==
   ASSUME NetInv, NEW o \in Input
   PROVE  o \in Registered /\ registered[o].home \in DOMAIN snapshots /\ o \in DOMAIN snapshots[registered[o].home]
<1>1. PICK n \in DOMAIN snapshots : o \in DOMAIN snapshots[n]
  BY DEF Input
<1> QED BY <1>1, BeforeIs

\* What is in a row is a number, and so is what was taken from it.
LEMMA RowNumbers ==
   ASSUME NettingAssumptions, NetInv, NEW o \in Registered
   PROVE  /\ registered[o].original \in Nat /\ Outstanding(o) \in Nat /\ Taken(o) \in Nat /\ registered[o].home \in Nat
          /\ o \in Obligations /\ Gone[o] = registered[o].original - (Outstanding(o) + Taken(o)) /\ Gone[o] \in Int
<1>1. registered[o] \in [home : Nat, original : Nat, outstanding : Nat] /\ o \in Obligations
  BY DEF NetInv, RowsOK
<1>2. Taken(o) \in Nat
  BY DEF NetInv, ProposalOK, Taken
<1> QED BY <1>1, <1>2 DEF Outstanding, Gone

LEMMA RegisterKeeps ==
   ASSUME NettingAssumptions, BoundAssumption, NetInv, NEW o \in Obligations, NEW home \in Parties(o),
          NEW amount \in 1..MaxAmount[o], Register(o, home, amount)
   PROVE  NetInv'
<1> DEFINE row == [home |-> home, original |-> amount, outstanding |-> amount]
<1>1. o \notin Registered /\ registered' = [x \in Registered \union {o} |-> IF x = o THEN row ELSE registered[x]]
      /\ participants' = participants /\ snapshots' = snapshots /\ cleared' = cleared /\ applied' = applied
  BY DEF Register
<1>2. /\ registered' = [x \in Registered \union {o} |-> IF x = o THEN row ELSE registered[x]]
      /\ Registered' = Registered \union {o}
  BY <1>1 DEF Registered
<1>3. registered'[o] = row /\ \A x \in Registered : registered'[x] = registered[x]
  BY <1>1, <1>2
<1>4. amount \in Nat /\ home \in Nat
  BY DEF BoundAssumption, NettingAssumptions, Parties
<1>5. RowsOK'
  <2>1. row \in [home : Nat, original : Nat, outstanding : Nat] BY <1>4
  <2> HIDE DEF row
  <2>2. registered' \in [Registered' -> [home : Nat, original : Nat, outstanding : Nat]]
    BY <1>2, <2>1 DEF NetInv, RowsOK
  <2>3. ASSUME NEW x \in Registered' PROVE registered'[x].home \in Parties(x) /\ Outstanding(x)' <= registered'[x].original
    <3>1. CASE x \in Registered BY <1>3, <3>1 DEF NetInv, RowsOK, Outstanding
    <3>2. CASE x = o BY <1>3, <1>4, <3>2 DEF Outstanding, row
    <3> QED BY <1>2, <3>1, <3>2
  <2> QED BY <1>2, <2>2, <2>3 DEF RowsOK, NetInv, Parties
<1> HIDE DEF row
<1>6. \A x \in Registered : Taken(x)' = Taken(x) /\ Outstanding(x)' = Outstanding(x)
  BY <1>1, <1>3 DEF Taken, Outstanding
<1>7. SnapshotsOK'
  BY <1>1, <1>2, <1>3, <1>6 DEF SnapshotsOK, NetInv, Parties
<1>8. DOMAIN cleared \subseteq Registered
  BY InputRegistered DEF NetInv, ProposalOK
<1>9. Affected' = Affected
  BY <1>1, <1>3, <1>8 DEF Affected, Parties
<1>10. ProposalOK'
  BY <1>1, <1>9 DEF ProposalOK, NetInv, Input, Net, Payable, Receivable
<1>11. ASSUME NEW m PROVE Net(m, Gone') = 0
  <2>1. Gone'[o] = 0
    <3>1. Taken(o)' = 0 BY <1>1, <1>8 DEF Taken
    <3> QED BY <1>2, <1>3, <1>4, <3>1 DEF Gone, Outstanding, row
  <2>2. \A x \in Registered : Gone'[x] = Gone[x] /\ Gone[x] \in Int
    BY <1>2, <1>3, <1>6, RowNumbers DEF Gone
  <2>3. DOMAIN Gone' = Registered \union {o} /\ Gone' = [x \in Registered \union {o} |-> Gone'[x]]
    BY <1>2 DEF Gone
  <2>4. Gone' \in [Registered \union {o} -> Int]
    BY <2>1, <2>2, <2>3
  <2>5. Gone \in [Registered -> Int] BY <2>2 DEF Gone
  <2>6. Registered \union {o} \in SUBSET Obligations /\ Registered \in SUBSET (Registered \union {o})
    BY DEF NetInv, RowsOK
  <2>7. \A x \in Registered \union {o} : Gone'[x] = IF x \in Registered THEN Gone[x] ELSE 0
    BY <1>1, <2>1, <2>2
  <2> DEFINE f == Gone'
             S == Registered \union {o}
             T == Registered
             g == Gone
  <2>8. Net(m, g) = 0 BY DEF NetInv, GoneOK
  <2> HIDE DEF f, S, T, g
  <2>9. Net(m, f) = Net(m, g)
    BY <2>4, <2>5, <2>6, <2>7, NetWithin DEF f, S, T, g
  <2> QED BY <2>8, <2>9 DEF f
<1>12. GoneOK'
  BY <1>11 DEF GoneOK, Net, Payable, Receivable
<1> QED BY <1>5, <1>7, <1>10, <1>12 DEF NetInv

LEMMA CreateKeeps ==
   ASSUME NettingAssumptions, NetInv, NEW P, CreateCycle(P)
   PROVE  NetInv'
<1>1. /\ participants = {} /\ registered' = registered /\ snapshots' = snapshots
      /\ cleared' = cleared /\ applied' = applied
  BY DEF CreateCycle
<1>2. DOMAIN snapshots = {} /\ Input = {} /\ DOMAIN cleared = {}
  <2>1. DOMAIN snapshots = {} BY <1>1 DEF NetInv, SnapshotsOK
  <2>2. Input = {} BY <2>1 DEF Input
  <2> QED BY <2>1, <2>2 DEF NetInv, ProposalOK
<1>3. \A o \in Registered : Taken(o)' = Taken(o) /\ Outstanding(o)' = Outstanding(o)
  BY <1>1 DEF Taken, Outstanding
<1>4. RowsOK'
  BY <1>1 DEF NetInv, RowsOK, Registered, Outstanding, Parties
<1>5. SnapshotsOK'
  BY <1>1, <1>2 DEF SnapshotsOK
<1>6. ProposalOK'
  BY <1>1, <1>2 DEF NetInv, ProposalOK, Affected, Input, Net, Payable, Receivable, Parties
<1>7. GoneOK'
  <2>1. Gone' = Gone BY <1>1 DEF Gone, Registered, Outstanding, Taken
  <2> QED BY <2>1 DEF NetInv, GoneOK, Net, Payable, Receivable
<1> QED BY <1>4, <1>5, <1>6, <1>7 DEF NetInv

LEMMA SignKeeps ==
   ASSUME NettingAssumptions, NetInv, NEW n, SignSnapshot(n)
   PROVE  NetInv'
<1>1. /\ n \in participants /\ n \notin DOMAIN snapshots /\ DOMAIN snapshots' = DOMAIN snapshots \union {n}
      /\ snapshots'[n] = [o \in Kept(n) |-> Outstanding(o)]
      /\ \A m \in DOMAIN snapshots : snapshots'[m] = snapshots[m]
      /\ registered' = registered /\ participants' = participants /\ cleared' = cleared /\ applied' = applied
  BY DEF SignSnapshot
<1>2. DOMAIN cleared = {}
  BY <1>1 DEF NetInv, ProposalOK
<1>3. \A o \in Registered : Taken(o) = 0 /\ Taken(o)' = 0 /\ Outstanding(o)' = Outstanding(o)
  BY <1>1, <1>2 DEF Taken, Outstanding
<1>4. RowsOK'
  BY <1>1 DEF NetInv, RowsOK, Registered, Outstanding, Parties
<1>5. SnapshotsOK'
  <2>1. DOMAIN snapshots' \subseteq participants' BY <1>1 DEF NetInv, SnapshotsOK
  <2>2. ASSUME NEW m \in DOMAIN snapshots', NEW o \in DOMAIN snapshots'[m]
        PROVE  /\ o \in Registered' /\ registered'[o].home = m /\ Parties(o)' \subseteq participants'
               /\ snapshots'[m][o] = Outstanding(o)' + Taken(o)'
    <3>1. CASE m = n
      <4>1. o \in Kept(n) /\ snapshots'[n][o] = Outstanding(o) BY <1>1, <2>2, <3>1
      <4>2. o \in Registered /\ registered[o].home = n /\ Parties(o) \subseteq participants BY <4>1 DEF Kept
      <4>3. Outstanding(o) \in Nat BY <4>2, RowNumbers
      <4> QED BY <1>1, <1>3, <3>1, <4>1, <4>2, <4>3 DEF Registered, Parties
    <3>2. CASE m \in DOMAIN snapshots
      <4>1. o \in DOMAIN snapshots[m] /\ snapshots'[m] = snapshots[m] BY <1>1, <2>2, <3>2
      <4>2. /\ o \in Registered /\ registered[o].home = m /\ Parties(o) \subseteq participants
            /\ snapshots[m][o] = Outstanding(o) + Taken(o)
        BY <3>2, <4>1 DEF NetInv, SnapshotsOK
      <4> QED BY <1>1, <1>3, <4>1, <4>2 DEF Registered, Parties
    <3> QED BY <1>1, <3>1, <3>2
  <2> QED BY <2>1, <2>2 DEF SnapshotsOK
<1>6. ProposalOK'
  BY <1>1, <1>2 DEF NetInv, ProposalOK, Affected, Input, Net, Payable, Receivable, Parties
<1>7. GoneOK'
  <2>1. Gone' = Gone BY <1>1 DEF Gone, Registered, Outstanding, Taken
  <2> QED BY <2>1 DEF NetInv, GoneOK, Net, Payable, Receivable
<1> QED BY <1>4, <1>5, <1>6, <1>7 DEF NetInv

\* The calculation over the snapshots returns what a proposal has to be.
LEMMA ProposeKeeps ==
   ASSUME NettingAssumptions, NetInv, Propose
   PROVE  NetInv'
<1>1. /\ DOMAIN snapshots = participants /\ Input # {} /\ cleared = Nothing
      /\ cleared' = Engine!CalculateClearing(Entries)
      /\ registered' = registered /\ participants' = participants /\ snapshots' = snapshots /\ applied' = applied
  BY DEF Propose
<1>2. DOMAIN cleared = {} /\ applied = {}
  BY <1>1 DEF Nothing, NetInv, ProposalOK, Affected
<1>3. /\ DOMAIN Entries = Input /\ Input \in SUBSET Obligations
      /\ \A o \in Input : Entries[o].amount = Before(o) /\ Entries[o].excluded = FALSE /\ Before(o) \in Nat
  <2>1. \A o \in Input : Before(o) \in Nat /\ o \in Obligations
    BY InputRegistered, BeforeIs, RowNumbers
  <2> QED BY <2>1 DEF Entries
<1>4. \A o \in Input : Entries[o].amount \in Nat /\ Entries[o].excluded \in BOOLEAN
  BY <1>3
<1>5. /\ cleared' \in [Input -> Nat] /\ \A o \in Input : cleared'[o] <= Before(o)
      /\ \A m : Net(m, cleared') = 0
  <2> DEFINE result == Engine!CalculateClearing(Entries)
             T == {p \in Input : ~Entries[p].excluded}
             part == [o \in T |-> result[o]]
  <2>1. /\ result \in [Input -> Nat] /\ \A o \in Input : result[o] <= Entries[o].amount
        /\ \A m : Net(m, part) = 0
    <3> HIDE DEF result
    <3>1. DOMAIN Entries = Input /\ Input \in SUBSET Obligations
          /\ \A o \in Input : Entries[o].amount \in Nat /\ Entries[o].excluded \in BOOLEAN
      BY <1>3, <1>4
    <3> DEFINE D == Input
               input == Entries
    <3> HIDE DEF D, input
    <3>2. /\ Engine!CalculateClearing(input) \in [D -> Nat]
          /\ \A o \in D : Engine!CalculateClearing(input)[o] <= input[o].amount
          /\ \A m : Net(m, [o \in {p \in D : ~input[p].excluded} |-> Engine!CalculateClearing(input)[o]]) = 0
      BY <3>1, CalculationBalances DEF D, input
    <3> QED BY <3>2 DEF D, input, result
  <2>2. T = Input BY <1>3
  <2> HIDE DEF result, T
  <2>3. part = result BY <2>1, <2>2
  <2> HIDE DEF part
  <2> QED BY <1>1, <1>3, <2>1, <2>3 DEF result
<1>6. \A o \in Registered : Taken(o) = 0 /\ Taken(o)' = 0 /\ Outstanding(o)' = Outstanding(o)
  BY <1>1, <1>2 DEF Taken, Outstanding
<1>7. RowsOK'
  BY <1>1 DEF NetInv, RowsOK, Registered, Outstanding, Parties
<1>8. SnapshotsOK'
  BY <1>1, <1>6 DEF NetInv, SnapshotsOK, Registered, Parties
<1>9. ProposalOK'
  <2>1. Input' = Input /\ DOMAIN cleared' = Input BY <1>1, <1>5 DEF Input
  <2>2. ASSUME NEW n \in DOMAIN snapshots, NEW o \in DOMAIN snapshots[n] PROVE cleared'[o] <= snapshots[n][o]
    BY <1>5, BeforeIs
  <2>3. \A n \in DOMAIN snapshots' : \A o \in DOMAIN snapshots'[n] \intersect DOMAIN cleared' :
          cleared'[o] <= snapshots'[n][o]
    BY <1>1, <2>2
  <2>4. \A m : Net(m, cleared)' = 0
    BY <1>5 DEF Net, Payable, Receivable
  <2> QED BY <1>1, <1>2, <1>5, <2>1, <2>3, <2>4 DEF ProposalOK
<1>10. GoneOK'
  <2>1. Gone' = Gone BY <1>1, <1>6 DEF Gone, Registered
  <2> QED BY <2>1 DEF NetInv, GoneOK, Net, Payable, Receivable
<1> QED BY <1>7, <1>8, <1>9, <1>10 DEF NetInv

\* A node takes from its rows what the proposal clears of them; with that put back they are as before.
LEMMA ApplyKeeps ==
   ASSUME NettingAssumptions, NetInv, NEW n, Apply(n)
   PROVE  NetInv'
<1>1. /\ n \in Affected /\ n \notin applied /\ applied' = applied \union {n}
      /\ registered' = [o \in Registered |-> IF o \in LocalEntries(n)
                                             THEN [registered[o] EXCEPT !.outstanding = @ - cleared[o]]
                                             ELSE registered[o]]
      /\ participants' = participants /\ snapshots' = snapshots /\ cleared' = cleared
  BY DEF Apply
<1>2. DOMAIN cleared = Input /\ DOMAIN snapshots = participants
  BY <1>1 DEF Affected, NetInv, ProposalOK
<1>3. n \in participants
  <2>1. PICK o \in DOMAIN cleared : n \in Parties(o) \union {registered[o].home} BY <1>1 DEF Affected
  <2>2. o \in Registered /\ registered[o].home \in DOMAIN snapshots /\ o \in DOMAIN snapshots[registered[o].home]
    BY <1>2, <2>1, InputRegistered
  <2>3. Parties(o) \subseteq participants /\ registered[o].home \in Parties(o)
    BY <2>2 DEF NetInv, SnapshotsOK, RowsOK
  <2> QED BY <2>1, <2>3
<1>4. ASSUME NEW o \in Registered
      PROVE  /\ Registered' = Registered /\ registered'[o] \in [home : Nat, original : Nat, outstanding : Nat]
             /\ registered'[o].home = registered[o].home /\ registered'[o].original = registered[o].original
             /\ Outstanding(o)' + Taken(o)' = Outstanding(o) + Taken(o)
             /\ Outstanding(o)' <= registered'[o].original
  <2>1. /\ registered[o].original \in Nat /\ Outstanding(o) \in Nat /\ Taken(o) \in Nat
        /\ registered[o] \in [home : Nat, original : Nat, outstanding : Nat]
        /\ Outstanding(o) <= registered[o].original
    BY RowNumbers DEF NetInv, RowsOK
  <2>2. CASE o \in DOMAIN snapshots[n]
    <3>1. /\ registered[o].home = n /\ o \in DOMAIN cleared /\ snapshots[n][o] = Outstanding(o) + Taken(o)
          /\ cleared[o] <= snapshots[n][o] /\ cleared[o] \in Nat
      BY <1>2, <1>3, <2>2, BeforeIs DEF NetInv, ProposalOK
    <3>2. Taken(o) = 0 BY <1>1, <3>1 DEF Taken
    <3>3. registered'[o] = [registered[o] EXCEPT !.outstanding = @ - cleared[o]]
      BY <1>1, <2>2 DEF LocalEntries
    <3>4. registered[o].outstanding = Outstanding(o) BY DEF Outstanding
    <3>5. /\ registered'[o].outstanding = Outstanding(o) - cleared[o] /\ registered'[o].home = registered[o].home
          /\ registered'[o].original = registered[o].original
          /\ registered'[o] \in [home : Nat, original : Nat, outstanding : Nat]
      BY <2>1, <3>1, <3>2, <3>3, <3>4
    <3>6. Taken(o)' = cleared[o] BY <1>1, <3>1, <3>5 DEF Taken
    <3> QED BY <1>1, <2>1, <3>1, <3>2, <3>5, <3>6 DEF Outstanding, Registered
  <2>3. CASE o \notin DOMAIN snapshots[n]
    <3>1. registered'[o] = registered[o] BY <1>1, <2>3 DEF LocalEntries
    <3>2. ASSUME o \in DOMAIN cleared PROVE registered[o].home # n
      BY <1>2, <2>3, <3>2, InputRegistered
    <3>3. Taken(o)' = Taken(o) BY <1>1, <3>1, <3>2 DEF Taken
    <3> QED BY <1>1, <2>1, <3>1, <3>3 DEF Outstanding, Registered
  <2> QED BY <2>2, <2>3
<1>5. Registered' = Registered
  BY <1>1 DEF Registered
<1>6. RowsOK'
  <2>1. registered' \in [Registered -> [home : Nat, original : Nat, outstanding : Nat]]
    BY <1>1, <1>4
  <2>2. \A o \in Registered : registered'[o].home \in Parties(o) /\ Outstanding(o)' <= registered'[o].original
    BY <1>4 DEF NetInv, RowsOK
  <2> QED BY <1>5, <2>1, <2>2 DEF NetInv, RowsOK, Parties
<1>7. SnapshotsOK'
  <2>1. ASSUME NEW k \in DOMAIN snapshots', NEW o \in DOMAIN snapshots'[k]
        PROVE  /\ o \in Registered' /\ registered'[o].home = k /\ Parties(o)' \subseteq participants'
               /\ snapshots'[k][o] = Outstanding(o)' + Taken(o)'
    <3>1. k \in DOMAIN snapshots /\ o \in DOMAIN snapshots[k] /\ snapshots'[k][o] = snapshots[k][o]
      BY <1>1, <2>1
    <3>2. /\ o \in Registered /\ registered[o].home = k /\ Parties(o) \subseteq participants
          /\ snapshots[k][o] = Outstanding(o) + Taken(o)
      BY <3>1 DEF NetInv, SnapshotsOK
    <3>3. Registered' = Registered /\ registered'[o].home = k /\ Outstanding(o)' + Taken(o)' = Outstanding(o) + Taken(o)
      BY <1>4, <3>2
    <3> QED BY <1>1, <3>1, <3>2, <3>3 DEF Parties
  <2>2. DOMAIN snapshots' \subseteq participants' BY <1>1 DEF NetInv, SnapshotsOK
  <2> QED BY <2>1, <2>2 DEF SnapshotsOK
<1>8. ProposalOK'
  <2>1. Affected' = Affected
    <3>1. \A o \in DOMAIN cleared : registered'[o].home = registered[o].home
      BY <1>2, <1>4, InputRegistered
    <3> DEFINE C == {p \in DOMAIN cleared : cleared[p] > 0}
    <3>2. Affected' = UNION {Parties(o) \union {registered'[o].home} : o \in C} BY <1>1 DEF Affected, Parties
    <3>3. Affected = UNION {Parties(o) \union {registered[o].home} : o \in C} BY DEF Affected
    <3>4. \A o \in C : registered'[o].home = registered[o].home BY <3>1
    <3> HIDE DEF C
    <3> QED BY <3>2, <3>3, <3>4
  <2> QED BY <1>1, <2>1 DEF NetInv, ProposalOK, Input, Net, Payable, Receivable
<1>9. GoneOK'
  <2>1. Gone' = Gone
    <3>1. \A o \in Registered : registered'[o].original - (Outstanding(o)' + Taken(o)')
                                  = registered[o].original - (Outstanding(o) + Taken(o))
      BY <1>4
    <3> QED BY <1>5, <3>1 DEF Gone
  <2> QED BY <2>1 DEF NetInv, GoneOK, Net, Payable, Receivable
<1> QED BY <1>6, <1>7, <1>8, <1>9 DEF NetInv

\* When no affected node has applied the proposal, or all have, what is gone is what is no longer outstanding.
LEMMA GoneIsCleared ==
   ASSUME NettingAssumptions, NetInv, applied \in {{}, Affected}, NEW m
   PROVE  Net(m, [o \in Registered |-> registered[o].original - Outstanding(o)]) = 0
<1> DEFINE f == [o \in Registered |-> registered[o].original - Outstanding(o)]
           taken == [o \in Registered |-> Taken(o)]
           S == Registered
<1>1. S \in SUBSET Obligations /\ DOMAIN cleared \in SUBSET S
  BY InputRegistered DEF NetInv, RowsOK, ProposalOK
<1>2. /\ f \in [S -> Int] /\ taken \in [S -> Int] /\ Gone \in [S -> Int]
      /\ \A o \in S : f[o] = Gone[o] + taken[o]
  <2>1. ASSUME NEW o \in S
        PROVE  f[o] \in Int /\ taken[o] \in Int /\ Gone[o] \in Int /\ f[o] = Gone[o] + taken[o]
    BY RowNumbers
  <2>2. DOMAIN Gone = S /\ Gone = [o \in S |-> Gone[o]] BY DEF Gone
  <2> QED BY <2>1, <2>2
<1>3. Net(m, Gone) = 0 /\ Net(m, cleared) = 0
  BY DEF NetInv, GoneOK, ProposalOK
<1>4. Net(m, taken) = 0
  <2>1. CASE applied = {}
    <3> DEFINE T == {}
               none == Nothing
    <3>1. \A o \in S : taken[o] = 0 BY <2>1 DEF Taken
    <3>2. none \in [T -> Int] BY DEF Nothing
    <3>3. Net(m, none) = 0 BY NothingIsNeutral
    <3>4. T \in SUBSET S /\ \A o \in S : o \notin T OBVIOUS
    <3>5. S \in SUBSET Obligations /\ taken \in [S -> Int] BY <1>1, <1>2
    <3> HIDE DEF taken, S, T, none
    <3>6. \A o \in S : taken[o] = IF o \in T THEN none[o] ELSE 0 BY <3>1, <3>4
    <3>7. Net(m, taken) = Net(m, none) BY <3>2, <3>4, <3>5, <3>6, NetWithin
    <3> QED BY <3>3, <3>7
  <2>2. CASE applied = Affected
    <3>1. ASSUME NEW o \in S PROVE taken[o] = IF o \in DOMAIN cleared THEN cleared[o] ELSE 0
      <4>1. CASE o \in DOMAIN cleared /\ cleared[o] > 0
        <5>1. registered[o].home \in Affected BY <4>1 DEF Affected
        <5> QED BY <2>2, <4>1, <5>1 DEF Taken
      <4>2. CASE o \in DOMAIN cleared /\ ~(cleared[o] > 0)
        <5>1. cleared[o] = 0 BY <4>2 DEF NetInv, ProposalOK
        <5> QED BY <4>2, <5>1 DEF Taken
      <4>3. CASE o \notin DOMAIN cleared BY <4>3 DEF Taken
      <4> QED BY <4>1, <4>2, <4>3
    <3>2. cleared \in [DOMAIN cleared -> Int] BY DEF NetInv, ProposalOK
    <3> DEFINE T == DOMAIN cleared
    <3>3. \A o \in S : taken[o] = IF o \in T THEN cleared[o] ELSE 0 BY <3>1
    <3>4. /\ T \in SUBSET S /\ cleared \in [T -> Int]
          /\ S \in SUBSET Obligations /\ taken \in [S -> Int]
      BY <1>1, <1>2, <3>2
    <3> HIDE DEF taken, S, T
    <3>5. Net(m, taken) = Net(m, cleared) BY <3>3, <3>4, NetWithin
    <3> QED BY <1>3, <3>5
  <2> QED BY <2>1, <2>2
<1> HIDE DEF f, taken, S
<1>5. Net(m, f) = Net(m, Gone) + Net(m, taken)
  BY <1>1, <1>2, NetAdds
<1>6. Net(m, f) = 0
  BY <1>3, <1>4, <1>5
<1> QED BY <1>6 DEF f, S

LEMMA EndKeeps ==
   ASSUME NettingAssumptions, NetInv, End
   PROVE  NetInv'
<1>1. /\ applied \in {{}, Affected} /\ registered' = registered
      /\ participants' = {} /\ snapshots' = Nothing /\ cleared' = Nothing /\ applied' = {}
  BY DEF End
<1>2. DOMAIN Nothing = {} /\ Nothing \in [{} -> Nat]
  BY DEF Nothing
<1>3. RowsOK'
  BY <1>1 DEF NetInv, RowsOK, Registered, Outstanding, Parties
<1>4. SnapshotsOK'
  BY <1>1, <1>2 DEF SnapshotsOK
<1>5. ProposalOK'
  <2>1. ASSUME NEW m PROVE Net(m, cleared') = 0 BY <1>1, NothingIsNeutral
  <2>2. \A m : Net(m, cleared)' = 0 BY <2>1 DEF Net, Payable, Receivable
  <2> QED BY <1>1, <1>2, <2>2 DEF ProposalOK
<1>6. GoneOK'
  <2>1. Gone' = [o \in Registered |-> registered[o].original - Outstanding(o)]
    <3>1. \A o \in Registered : Taken(o)' = 0 /\ Outstanding(o)' = Outstanding(o) BY <1>1, <1>2 DEF Taken, Outstanding
    <3>2. ASSUME NEW o \in Registered PROVE registered[o].original - (Outstanding(o) + 0) = registered[o].original - Outstanding(o)
      BY RowNumbers
    <3> QED BY <1>1, <3>1, <3>2 DEF Gone, Registered
  <2>2. ASSUME NEW m PROVE Net(m, Gone') = 0 BY <1>1, <2>1, GoneIsCleared
  <2> QED BY <2>2 DEF GoneOK, Net, Payable, Receivable
<1> QED BY <1>3, <1>4, <1>5, <1>6 DEF NetInv

LEMMA NextNet ==
   ASSUME NettingAssumptions, BoundAssumption, NetInv, [Next]_vars
   PROVE  NetInv'
<1>1. CASE UNCHANGED vars
  <2>1. /\ registered' = registered /\ participants' = participants /\ snapshots' = snapshots
        /\ cleared' = cleared /\ applied' = applied
    BY <1>1 DEF vars
  <2>2. RowsOK' BY <2>1 DEF NetInv, RowsOK, Registered, Outstanding, Parties
  <2>3. SnapshotsOK' BY <2>1 DEF NetInv, SnapshotsOK, Registered, Outstanding, Taken, Parties
  <2>4. Input' = Input /\ Affected' = Affected /\ Gone' = Gone
    BY <2>1 DEF Input, Affected, Gone, Registered, Outstanding, Taken, Parties
  <2>5. ProposalOK' BY <2>1, <2>4 DEF NetInv, ProposalOK, Net, Payable, Receivable
  <2>6. GoneOK' BY <2>4 DEF NetInv, GoneOK, Net, Payable, Receivable
  <2> QED BY <2>2, <2>3, <2>5, <2>6 DEF NetInv
<1>2. CASE \E o \in Obligations : \E home \in Parties(o), amount \in 1..MaxAmount[o] : Register(o, home, amount)
  BY <1>2, RegisterKeeps
<1>3. CASE \E P \in SUBSET Nodes : CreateCycle(P)
  BY <1>3, CreateKeeps
<1>4. CASE \E n \in Nodes : SignSnapshot(n) \/ Apply(n)
  BY <1>4, SignKeeps, ApplyKeeps
<1>5. CASE Propose
  BY <1>5, ProposeKeeps
<1>6. CASE End
  BY <1>6, EndKeeps
<1> QED BY <1>1, <1>2, <1>3, <1>4, <1>5, <1>6 DEF Next

LEMMA NetInvKeeps == ASSUME NettingAssumptions, NetInv PROVE NetPositionsKept
<1>1. \A n \in Nodes : Net(n, cleared) = 0
  BY DEF NetInv, ProposalOK
<1>2. ASSUME applied \in {{}, Affected}, NEW n \in Nodes
      PROVE  Net(n, [o \in Registered |-> registered[o].original]) = Net(n, [o \in Registered |-> Outstanding(o)])
  <2> DEFINE f == [o \in Registered |-> registered[o].original]
             g == [o \in Registered |-> Outstanding(o)]
             d == [o \in Registered |-> registered[o].original - Outstanding(o)]
             S == Registered
  <2>1. ASSUME NEW o \in S PROVE f[o] \in Int /\ g[o] \in Int /\ d[o] \in Int /\ f[o] = g[o] + d[o]
    BY RowNumbers
  <2>2. f \in [S -> Int] /\ g \in [S -> Int] /\ d \in [S -> Int] BY <2>1
  <2>3. S \in SUBSET Obligations BY DEF NetInv, RowsOK
  <2>4. Net(n, d) = 0 BY <1>2, GoneIsCleared
  <2> HIDE DEF f, g, d, S
  <2>5. Net(n, f) = Net(n, g) + Net(n, d) BY <2>1, <2>2, <2>3, NetAdds
  <2>6. Net(n, g) \in Int BY <2>2, <2>3, NetIsShares
  <2>7. Net(n, f) = Net(n, g) BY <2>4, <2>5, <2>6
  <2> QED BY <2>7 DEF f, g
<1>3. ASSUME applied = Affected, NEW n \in Nodes
      PROVE  Payable(n, [o \in DOMAIN cleared |-> Before(o) - cleared[o]])
               = Payable(n, [o \in DOMAIN cleared |-> Outstanding(o)])
  <2>1. ASSUME NEW o \in DOMAIN cleared PROVE Before(o) - cleared[o] = Outstanding(o)
    <3>1. o \in Input /\ cleared[o] \in Nat BY DEF NetInv, ProposalOK
    <3>2. o \in Registered /\ Before(o) = Outstanding(o) + Taken(o) BY <3>1, InputRegistered, BeforeIs
    <3>3. Outstanding(o) \in Nat BY <3>2, RowNumbers
    <3>4. CASE cleared[o] > 0
      <4>1. registered[o].home \in Affected BY <3>4 DEF Affected
      <4>2. Taken(o) = cleared[o] BY <1>3, <4>1 DEF Taken
      <4> QED BY <3>1, <3>2, <3>3, <4>2
    <3>5. CASE ~(cleared[o] > 0)
      <4>1. cleared[o] = 0 /\ Taken(o) = 0 BY <3>1, <3>5 DEF Taken
      <4> QED BY <3>2, <3>3, <4>1
    <3> QED BY <3>4, <3>5
  <2>2. [o \in DOMAIN cleared |-> Before(o) - cleared[o]] = [o \in DOMAIN cleared |-> Outstanding(o)]
    BY <2>1
  <2> QED BY <2>2
<1> QED BY <1>1, <1>2, <1>3 DEF NetPositionsKept

\* Over any number of cycles, among any nodes and obligations: a proposal balances, and when its affected
\* nodes have applied it, each on its own rows, every net position is the one the debts were registered with.
THEOREM NetPositionsAlwaysKept ==
   ASSUME NettingAssumptions, BoundAssumption
   PROVE  Spec => []NetPositionsKept
<1>1. Init => NetInv
  BY InitNet
<1>2. NetInv /\ [Next]_vars => NetInv'
  BY NextNet
<1>3. NetInv => NetPositionsKept
  BY NetInvKeeps
<1> QED BY <1>1, <1>2, <1>3, PTL DEF Spec
=============================================================================

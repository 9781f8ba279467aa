---------------------------- MODULE LocalNetting ----------------------------
(***************************************************************************)
(* LOCAL_NETTING 1.0.0, the pure calculation behind a clearing cycle: an   *)
(* input says how much of each obligation is outstanding and whether it is *)
(* excluded; the result is what is cleared of each.  Numbers stand for the *)
(* identifiers, which the code sorts.  An amount is a multiple of the      *)
(* policy's quantum (one scale for unit and policy), so rounding is only   *)
(* the minimum operation; a risk limit is the amount itself.               *)
(***************************************************************************)
EXTENDS Integers, Sequences, FiniteSets, SequencesExt

CONSTANTS
    Terms,             \* Terms[o].debtor owes Terms[o].creditor
    MinimumOperation,  \* minimum_operation of the policy, in quanta
    MaxIterations,     \* max_iterations
    MaxCycleLength     \* max_cycle_length

Debtor(o)   == Terms[o].debtor
Creditor(o) == Terms[o].creditor

\* Mutant: the reason of an exclusion is not looked at
LimitsOfAll(input) == [left |-> [o \in DOMAIN input |-> input[o].amount], n |-> 0]

\* The state of a calculation: what is available of each obligation, and the allocations made
Limits(input) == [left |-> [o \in DOMAIN input |-> IF input[o].excluded THEN 0 ELSE input[o].amount],
                  n    |-> 0]

\* Mutant: an amount equal to the minimum is dropped
RoundedStrictly(v) == IF v <= MinimumOperation THEN 0 ELSE v

\* _rounded_operation
Rounded(v) == IF v < MinimumOperation THEN 0 ELSE v

Allocate(s, path, amount) ==
    [left |-> [o \in DOMAIN s.left |-> IF o \in path THEN s.left[o] - amount ELSE s.left[o]],
     n    |-> s.n + 1]

\* Where a loop is after k rounds; a loop that is over stays where it is
After(k, Round(_), start) ==
    LET loop[i \in 0..k] == IF i = 0 THEN start ELSE Round(loop[i - 1])
    IN  loop[k]

\* The obligations of d to c that are still available
Owed(s, d, c) == {o \in DOMAIN s.left : Debtor(o) = d /\ Creditor(o) = c /\ s.left[o] > 0}

\* _apply_bilateral, the loop over one pair: an obligation with less left than the minimum
\* is passed over, and an offset of nothing ends the pair
OffsetRound(t) ==
    LET first      == Min(t.there)
        second     == Min(t.back)
        amount     == Rounded(Min({t.s.left[first], t.s.left[second]}))
        next       == Allocate(t.s, {first, second}, amount)
        Rest(q, o) == IF next.left[o] < MinimumOperation THEN q \ {o} ELSE q
    IN  IF t.there = {} \/ t.back = {} \/ t.s.n >= MaxIterations THEN t
        ELSE IF amount <= 0 THEN [t EXCEPT !.there = {}]
        ELSE [s |-> next, there |-> Rest(t.there, first), back |-> Rest(t.back, second)]
Offset(s, l, r) ==
    After(MaxIterations, OffsetRound, [s |-> s, there |-> Owed(s, l, r), back |-> Owed(s, r, l)]).s

\* The pairs, each with its lower member first
Persons(s) == {Debtor(o) : o \in DOMAIN s.left} \union {Creditor(o) : o \in DOMAIN s.left}
Pairs(s) == {p \in Persons(s) \X Persons(s) : p[1] < p[2]}
FirstPair(P) == CHOOSE p \in P : \A q \in P : p[1] < q[1] \/ (p[1] = q[1] /\ p[2] <= q[2])

\* _apply_bilateral, over the pairs in their order
PairRound(t) == LET p == FirstPair(t.pairs)
                IN  IF t.pairs = {} THEN t
                    ELSE [s |-> Offset(t.s, p[1], p[2]), pairs |-> t.pairs \ {p}]
Bilateral(s) == After(Cardinality(Pairs(s)), PairRound, [s |-> s, pairs |-> Pairs(s)]).s

\* The simple cycles of at least three members in what is left
Arcs(s) == {o \in DOMAIN s.left : s.left[o] >= MinimumOperation /\ s.left[o] > 0}
Onward(arcs, q) == {o \in arcs : /\ Debtor(o) = Creditor(Last(q))
                                 /\ \A i \in DOMAIN q : Debtor(o) # Debtor(q[i])}
Trails(arcs, n) ==
    LET Longer(T) == UNION {{Append(q, o) : o \in Onward(arcs, q)} : q \in T}
    IN  After(n - 1, Longer, {<<o>> : o \in arcs})
ClosedTrails(s) ==
    {q \in UNION {Trails(Arcs(s), n) : n \in 3..MaxCycleLength} : Creditor(Last(q)) = Debtor(q[1])}

\* _first_cycle: the depth-first search starts at the members in order and follows the arcs of
\* a member in the order of (creditor, identifier), so it finds the first cycle in this order
Precedes(q, r) ==
    \/ Debtor(q[1]) < Debtor(r[1])
    \/ /\ Debtor(q[1]) = Debtor(r[1])
       /\ \E i \in DOMAIN q \intersect DOMAIN r :
             /\ \A j \in 1..i - 1 : q[j] = r[j]
             /\ \/ Creditor(q[i]) < Creditor(r[i])
                \/ Creditor(q[i]) = Creditor(r[i]) /\ q[i] < r[i]
FirstCycle(trails) == CHOOSE q \in trails : \A r \in trails \ {q} : Precedes(q, r)

\* _apply_cycles
CycleRound(t) ==
    LET trails == ClosedTrails(t.s)
        path   == Range(FirstCycle(trails))
        amount == Rounded(Min({t.s.left[o] : o \in path}))
    IN  IF t.over \/ t.s.n >= MaxIterations \/ trails = {} THEN [t EXCEPT !.over = TRUE]
        ELSE IF amount <= 0 THEN [t EXCEPT !.over = TRUE]
        ELSE [t EXCEPT !.s = Allocate(t.s, path, amount)]
Circulate(s) == After(MaxIterations, CycleRound, [s |-> s, over |-> FALSE]).s

\* calculate_clearing.  An entry is taken to be cleared of all that is not available of it,
\* so an excluded one, of which nothing is available, counts as cleared in full.
CalculateClearing(input) ==
    LET left == Circulate(Bilateral(Limits(input))).left
    IN  [o \in DOMAIN input |-> input[o].amount - left[o]]
=============================================================================

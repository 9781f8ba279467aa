--------------------------- MODULE MCLocalNetting ---------------------------
(***************************************************************************)
(* The calculation of LocalNetting over every input of a small graph of    *)
(* obligations: a behaviour takes an input and calculates its result.      *)
(***************************************************************************)
EXTENDS Integers, Sequences, FiniteSets, Functions

\* Pairs that owe each other, three members in a circle and four members in a circle
Terms == <<[debtor |-> 1, creditor |-> 2], [debtor |-> 2, creditor |-> 1],
           [debtor |-> 2, creditor |-> 3], [debtor |-> 3, creditor |-> 1],
           [debtor |-> 3, creditor |-> 4], [debtor |-> 4, creditor |-> 1],
           [debtor |-> 1, creditor |-> 2], [debtor |-> 1, creditor |-> 3]>>
Members == 1..4

Netting == INSTANCE LocalNetting
               WITH MinimumOperation <- 1, MaxIterations <- 10, MaxCycleLength <- 4

VARIABLES input, result
vars == <<input, result>>

Entries == [amount : 1..2, excluded : {FALSE}] \union [amount : {1}, excluded : {TRUE}]
NotYet == [o \in {} |-> 0]

Init == /\ input \in UNION {[S -> Entries] : S \in SUBSET DOMAIN Terms}
        /\ result = NotYet
Next == /\ result = NotYet /\ input # NotYet
        /\ result' = Netting!CalculateClearing(input)
        /\ UNCHANGED input
Spec == Init /\ [][Next]_vars

-----------------------------------------------------------------------------
Calculated == result # NotYet
Taken == {o \in DOMAIN input : ~input[o].excluded}
Left(o) == input[o].amount - result[o]

\* The offsets are closed paths: of the entries that take part no more is cleared than is
\* outstanding, and what a member no longer owes is what he is no longer owed
\* (_apply_bilateral and _apply_cycles subtract one amount along each path).
OffsetsBalance ==
    Calculated =>
        /\ result \in [DOMAIN input -> Nat]
        /\ \A o \in Taken : Left(o) >= 0
        /\ \A m \in Members :
              SumFunction([o \in {p \in Taken : Terms[p].debtor = m} |-> result[o]])
                = SumFunction([o \in {p \in Taken : Terms[p].creditor = m} |-> result[o]])

\* docs/clearing_algorithm.md: the search repeats until no offset is left.  When the minimum
\* operation is one quantum, the debts that remain have no closed path at all: the members
\* can be ranked so that every remaining debt points upwards.
NothingLeftToOffset ==
    Calculated =>
        \E rank \in [Members -> Members] :
            \A o \in Taken : Left(o) > 0 => rank[Terms[o].debtor] < rank[Terms[o].creditor]
=============================================================================

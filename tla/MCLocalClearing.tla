--------------------------- MODULE MCLocalClearing ---------------------------
(* Model-checking instances of LocalClearing with the netting of LocalNetting. *)
EXTENDS LocalClearing, TLC

LN == INSTANCE LocalNetting WITH MinimumOperation <- 1, MaxIterations <- 10, MaxCycleLength <- 3
MCNetting(input) == LN!CalculateClearing(input)

\* Members 1 to 3 are parties, 4 to 6 are the staff.
ClearingLine(d, from, to, q) == [deal |-> d, debtor |-> from, creditor |-> to, total |-> q,
                                 due |-> 0, partial |-> TRUE, clearing |-> TRUE]

\* One deal whose second version adds a debt back.
MutualTerms == <<ClearingLine(1, 1, 2, 2), ClearingLine(1, 2, 1, 1)>>
MutualRevisions == <<<<{1}, {1, 2}>>>>

CONSTANTS c1, c2, p1, p2
OneCycle == {c1}
TwoCycles == {c1, c2}
OnePolicy == {p1}
TwoPolicies == {p1, p2}
Symmetry == Permutations(TwoCycles) \union Permutations(TwoPolicies)

LargerTerms == <<ClearingLine(1, 1, 2, 3), ClearingLine(1, 2, 1, 1)>>
LargerRevisions == <<<<{1, 2}>>>>
=============================================================================

------------------------- MODULE MCFederatedClearing -------------------------
(* Model-checking instances of FederatedClearing. *)
EXTENDS FederatedClearing, TLC

CONSTANTS s1, s2

TwoNodes == {1, 2}
ThreeNodes == {1, 2, 3}

OneAndTwo == {1, 2}
OneAndThree == {1, 3}

OneSession == {s1}
TwoSessions == {s1, s2}
SessionSymmetry == Permutations(TwoSessions)
=============================================================================

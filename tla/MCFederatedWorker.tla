--------------------------- MODULE MCFederatedWorker ---------------------------
(* Model-checking instance of FederatedWorker. *)
EXTENDS FederatedWorker, TLC

CONSTANTS s1

TwoNodes == {1, 2}
Participant == {1}
OneSession == {s1}
=============================================================================

--------------------------- MODULE ClearingContract ---------------------------
(***************************************************************************)
(* What an inter-node clearing cycle promises to the cooperatives,         *)
(* whatever happens to messages, clocks and processes: a node reduces its  *)
(* obligations once, only after every node the result touches has          *)
(* approved, and the cycle is closed only when all of them have done so    *)
(* under one certificate.                                                  *)
(***************************************************************************)
EXTENDS Naturals

CONSTANTS
    Nodes,     \* participants of the cycle
    Affected   \* nodes whose obligations the result reduces

VARIABLES
    approved,  \* nodes that have signed their approval
    applied,   \* for each node the certificate it applied, 0 for none
    closed     \* the reconciliation proof exists

contractVars == <<approved, applied, closed>>

ContractInit == /\ approved = {}
                /\ applied = [n \in Nodes |-> 0]
                /\ closed = FALSE

GiveApproval(n) == /\ approved' = approved \union {n}
                   /\ UNCHANGED <<applied, closed>>

\* Every affected node has applied, all of them the same certificate
AllApplied == \A m, n \in Affected : applied[m] = applied[n] /\ applied[m] # 0

\* The coordinator may close the cycle in the transaction that applies its own part.
Apply(n) ==
    /\ Affected \subseteq approved
    /\ applied[n] = 0 /\ applied'[n] # 0
    /\ applied' = [applied EXCEPT ![n] = applied'[n]]
    /\ closed \/ (closed' => AllApplied')
    /\ closed => closed'
    /\ UNCHANGED approved

Close == /\ ~closed /\ AllApplied
         /\ closed' = TRUE
         /\ UNCHANGED <<approved, applied>>

ContractNext == (\E n \in Nodes : GiveApproval(n) \/ Apply(n)) \/ Close

ContractSpec == ContractInit /\ [][ContractNext]_contractVars
=============================================================================

-------------------------- MODULE FederatedNetting --------------------------
(***************************************************************************)
(* What a cycle between nodes does to their debts.  An obligation is kept  *)
(* by its home node alone, the node of its debtor or of its creditor.  In  *)
(* a cycle each participant signs a snapshot of the obligations it keeps,  *)
(* FEDERATED_NETTING calculates over all snapshots what is cleared, and    *)
(* each affected node applies its part to the rows it keeps.  How the      *)
(* nodes agree on it is the subject of FederatedClearing; here a cycle is  *)
(* proposed and applied, or released before any node applied it.  There is *)
(* one unit and one cycle at a time.                                       *)
(***************************************************************************)
EXTENDS Integers, FiniteSets, Functions

CONSTANTS
    Nodes,             \* node codes, as numbers in their order
    Terms,             \* Terms[o]: the nodes of debtor and creditor of obligation o, not the same
    MaxAmount,         \* bound: MaxAmount[o] is the largest amount of o
    MinimumOperation, MaxIterations, MaxCycleLength

Obligations == DOMAIN Terms

VARIABLES
    registered,    \* inter_node_obligations: home, original and outstanding amount, by obligation
    participants,  \* participant_node_codes of the open cycle, none when there is no cycle
    snapshots,     \* snapshots[n]: outstanding amounts node n has signed
    cleared,       \* cleared_amount of the entries of the proposal, by obligation
    applied        \* nodes that have applied the proposal

vars == <<registered, participants, snapshots, cleared, applied>>

Engine == INSTANCE LocalNetting
Nothing == [o \in {} |-> 0]

Init == /\ registered = Nothing
        /\ participants = {} /\ snapshots = Nothing /\ cleared = Nothing /\ applied = {}

-----------------------------------------------------------------------------
Registered == DOMAIN registered
Outstanding(o) == registered[o].outstanding
Parties(o) == {Terms[o].debtor, Terms[o].creditor}

\* register_obligation at its home, one of the two nodes
Register(o, home, amount) ==
    /\ o \notin Registered /\ home \in Parties(o)
    /\ registered' = [p \in Registered \union {o} |->
                        IF p = o THEN [home |-> home, original |-> amount, outstanding |-> amount]
                        ELSE registered[p]]
    /\ UNCHANGED <<participants, snapshots, cleared, applied>>

\* create_cycle
CreateCycle(P) ==
    /\ participants = {} /\ Cardinality(P) >= 2
    /\ participants' = P
    /\ UNCHANGED <<registered, snapshots, cleared, applied>>

\* create_local_snapshot, and accept_snapshot by the coordinator: the operable obligations kept
\* here between participants
Kept(n) == {o \in Registered : /\ registered[o].home = n /\ Outstanding(o) > 0
                               /\ Parties(o) \subseteq participants}
SignSnapshot(n) ==
    /\ n \in participants /\ n \notin DOMAIN snapshots
    /\ snapshots' = [m \in DOMAIN snapshots \union {n} |->
                       IF m = n THEN [o \in Kept(n) |-> Outstanding(o)] ELSE snapshots[m]]
    /\ UNCHANGED <<registered, participants, cleared, applied>>

\* The obligations of all snapshots, in the entries of the calculation
Input == UNION {DOMAIN snapshots[n] : n \in DOMAIN snapshots}
Before(o) == LET n == CHOOSE n \in DOMAIN snapshots : o \in DOMAIN snapshots[n] IN snapshots[n][o]
Entries == [o \in Input |-> [amount |-> Before(o), excluded |-> FALSE]]

\* begin_prepare and create_proposal: both calculate over the same snapshots; an empty input
\* is refused
Propose ==
    /\ participants # {} /\ DOMAIN snapshots = participants
    /\ Input # {} /\ cleared = Nothing
    /\ cleared' = Engine!CalculateClearing(Entries)
    /\ UNCHANGED <<registered, participants, snapshots, applied>>

\* affected_node_codes
Affected == UNION {Parties(o) \union {registered[o].home} : o \in {p \in DOMAIN cleared : cleared[p] > 0}}

\* Mutant: of its own snapshot a node applies what it owes
LocalEntriesOwed(n) == {o \in DOMAIN snapshots[n] : Terms[o].debtor = n}

\* The entries of the proposal a node applies: those of its own snapshot
LocalEntries(n) == DOMAIN snapshots[n]

\* apply_local, once and after the certificate of all affected nodes
Apply(n) ==
    /\ n \in Affected \ applied
    /\ registered' = [o \in Registered |->
                        IF o \in LocalEntries(n)
                        THEN [registered[o] EXCEPT !.outstanding = @ - cleared[o]] ELSE registered[o]]
    /\ applied' = applied \union {n}
    /\ UNCHANGED <<participants, snapshots, cleared>>

\* reconcile once every affected node has applied, or release_local_prepare before any has
End == /\ participants # {} /\ applied \in {{}, Affected}
       /\ participants' = {} /\ snapshots' = Nothing /\ cleared' = Nothing /\ applied' = {}
       /\ UNCHANGED registered

Next == \/ \E o \in Obligations : \E home \in Parties(o), amount \in 1..MaxAmount[o] : Register(o, home, amount)
        \/ \E P \in SUBSET Nodes : CreateCycle(P)
        \/ \E n \in Nodes : SignSnapshot(n) \/ Apply(n)
        \/ Propose \/ End
Spec == Init /\ [][Next]_vars

-----------------------------------------------------------------------------
\* _positions: what node n owes and is owed of amounts by obligation
Payable(n, amount) == SumFunction([o \in {p \in DOMAIN amount : Terms[p].debtor = n} |-> amount[o]])
Receivable(n, amount) == SumFunction([o \in {p \in DOMAIN amount : Terms[p].creditor = n} |-> amount[o]])
Net(n, amount) == Receivable(n, amount) - Payable(n, amount)

TypeOK ==
    /\ Registered \subseteq Obligations
    /\ \A o \in Registered : /\ registered[o].home \in Parties(o)
                             /\ 0 <= Outstanding(o) /\ Outstanding(o) <= registered[o].original
    /\ participants \subseteq Nodes /\ applied \subseteq participants /\ DOMAIN snapshots \subseteq participants

\* Clearing moves nobody's wealth: in the proposal every node is owed as much less as it owes
\* less (net_before = net_after of its position), and once all affected nodes, each on its own
\* rows, have applied it, the debts left in the ledgers are those of the positions, so over any
\* number of cycles the net position of a node is the one its obligations were registered with.
NetPositionsKept ==
    /\ \A n \in Nodes : Net(n, cleared) = 0
    /\ applied \in {{}, Affected} =>
         \A n \in Nodes : Net(n, [o \in Registered |-> registered[o].original])
                            = Net(n, [o \in Registered |-> Outstanding(o)])
    /\ applied = Affected =>
         \A n \in Nodes : Payable(n, [o \in DOMAIN cleared |-> Before(o) - cleared[o]])
                            = Payable(n, [o \in DOMAIN cleared |-> Outstanding(o)])
=============================================================================

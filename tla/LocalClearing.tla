---------------------------- MODULE LocalClearing ----------------------------
(***************************************************************************)
(* Clearing cycles of one cooperative over the obligations that its        *)
(* members keep performing and disputing meanwhile (module Exchange).  A   *)
(* cycle freezes the versions of its input, computes a result, is approved *)
(* and may be disputed, and finalizes the result only if the input is      *)
(* still what it froze.  Every command is one transaction under the lock   *)
(* of its cycle; finalize also locks the obligations, and it takes the     *)
(* lock of the cooperative under which policies are approved.              *)
(***************************************************************************)
EXTENDS Exchange

CONSTANTS
    Policies,           \* versions of the cooperative's clearing policy
    Cycles,
    Operators,          \* members with the role CLEARING_OPERATOR
    Controllers,        \* CLEARING_CONTROLLER
    Finalizers,         \* CLEARING_FINALIZER
    Nobody,             \* no member
    RequiredApprovals,  \* required_approvals of the policies
    DisputeWindow,      \* dispute_window_seconds of the policies
    Netting(_)          \* calculate_clearing

\* What the calculation is given of an obligation
Inputs ==
    LET amounts == UNION {1..Terms[o].total : o \in Obligations}
    IN  UNION {[S -> [amount : amounts, excluded : BOOLEAN]] : S \in SUBSET Obligations}

ASSUME ClearingAssumption ==
    /\ Operators \subseteq Members /\ Controllers \subseteq Members /\ Finalizers \subseteq Members
    /\ Nobody \notin Members
    /\ RequiredApprovals \in 1..3 /\ DisputeWindow \in Nat
    /\ \A input \in Inputs :
          /\ Netting(input) \in [DOMAIN input -> Nat]
          /\ \A o \in DOMAIN input : Netting(input)[o] <= input[o].amount
    /\ IsFiniteSet(Cycles)

\* What m no longer owes, and is no longer owed, when amounts are cleared of obligations
OwedBy(m, amounts) == SumFunction([o \in {p \in DOMAIN amounts : Terms[p].debtor = m} |-> amounts[o]])
OwedTo(m, amounts) == SumFunction([o \in {p \in DOMAIN amounts : Terms[p].creditor = m} |-> amounts[o]])

\* The paths of calculate_clearing are closed: with nothing excluded it changes nobody's balance.
\* (An excluded entry it reports as cleared in full.)
ASSUME NettingKeepsBalances ==
    \A input \in Inputs : (\A o \in DOMAIN input : ~input[o].excluded) =>
        \A m \in Members : OwedBy(m, Netting(input)) = OwedTo(m, Netting(input))

VARIABLES
    policies,  \* exchange.clearing_policies
    cycles     \* exchange.clearing_cycles with its snapshot, entries, approvals and disputes

clearingVars == <<policies, cycles>>
vars == <<exchangeVars, clearingVars>>

-----------------------------------------------------------------------------
CycleStatus == {"DRAFT", "COLLECTING", "INPUT_FROZEN", "PREVIEWED", "DISPUTE_WINDOW",
                "DISPUTED", "READY_TO_FINALIZE", "FINALIZED", "RECONCILED"}
Reasons == {"INCLUDED", "PENDING_FULFILLMENT", "DISPUTED", "STATUS"}

\* An entry of the snapshot: what was outstanding, at which version, and why it is excluded
Entry == [amount : Nat \ {0}, version : Nat, reason : Reasons]
\* A dispute about an entry of a cycle; rejected ones are not kept, as nothing reads them
DisputeAbout == [entry : Obligations, upheld : BOOLEAN]

CycleRow ==
    [status : CycleStatus \union {"ABSENT"}, policy : Policies \union {0},
     creator : Members \union {Nobody}, finalizer : Members \union {Nobody},
     entries : UNION {[S -> Entry] : S \in SUBSET Obligations},
     cleared : UNION {[S -> Nat] : S \in SUBSET Obligations},
     approvals : SUBSET Members, until : Nat, disputes : SUBSET DisputeAbout]
Empty == [o \in {} |-> 0]
NoCycle == [status |-> "ABSENT", policy |-> 0, creator |-> Nobody, finalizer |-> Nobody,
            entries |-> Empty, cleared |-> Empty, approvals |-> {}, until |-> 0, disputes |-> {}]

Init == /\ ExchangeInit
        /\ policies = [p \in Policies |-> [status |-> "ABSENT", proposer |-> Nobody]]
        /\ cycles = [c \in Cycles |-> NoCycle]

-----------------------------------------------------------------------------
ProposePolicy(p, m) ==
    /\ m \in Operators /\ policies[p].status = "ABSENT"
    /\ policies' = [policies EXCEPT ![p] = [status |-> "PROPOSED", proposer |-> m]]
    /\ UNCHANGED <<exchangeVars, cycles>>

\* approve_policy by another member; the policy that was active is superseded
ApprovePolicy(p, m) ==
    /\ policies[p].status = "PROPOSED"
    /\ m \in Controllers \ {policies[p].proposer}
    /\ policies' = [r \in Policies |->
                      IF r = p THEN [policies[r] EXCEPT !.status = "ACTIVE"]
                      ELSE IF policies[r].status = "ACTIVE"
                           THEN [policies[r] EXCEPT !.status = "SUPERSEDED"] ELSE policies[r]]
    /\ UNCHANGED <<exchangeVars, cycles>>

\* _active_policy: a step of a cycle whose policy was superseded fails
PolicyActive(p) == p \in Policies /\ policies[p].status = "ACTIVE"

CreateCycle(c, p, m) ==
    /\ m \in Operators /\ cycles[c].status = "ABSENT" /\ PolicyActive(p)
    /\ cycles' = [cycles EXCEPT ![c].status = "DRAFT", ![c].policy = p, ![c].creator = m]
    /\ UNCHANGED <<exchangeVars, policies>>

\* A command that takes cycle c from one status to another and reads its policy
Step(c, from, to) ==
    /\ cycles[c].status \in from /\ PolicyActive(cycles[c].policy)
    /\ UNCHANGED <<exchangeVars, policies>>
    /\ cycles' = [cycles EXCEPT ![c] = to]

Collect(c) == Step(c, {"DRAFT", "COLLECTING"}, [cycles[c] EXCEPT !.status = "COLLECTING"])

-----------------------------------------------------------------------------
\* _collect_input_entries: what is outstanding counts a submitted fulfillment as not yet performed
Outstanding(o) == Terms[o].total - obligations[o].fulfilled - obligations[o].cleared
\* Mutant: nothing outstanding is good enough
CandidatesAll == {o \in Obligations : Exists(o) /\ Terms[o].clearing}
Candidates == {o \in Obligations : Exists(o) /\ Terms[o].clearing /\ Outstanding(o) > 0}
ReasonFor(o) ==
    IF obligations[o].submitted > 0                              THEN "PENDING_FULFILLMENT"
    ELSE IF disputes[o].open \/ obligations[o].status = "DISPUTED" THEN "DISPUTED"
    ELSE IF obligations[o].status \notin Operable                  THEN "STATUS"
    ELSE "INCLUDED"
InputEntries == [o \in Candidates |-> [amount |-> Outstanding(o), version |-> obligations[o].version,
                                       reason |-> ReasonFor(o)]]

FreezeInput(c) ==
    /\ Candidates # {}
    /\ Step(c, {"COLLECTING"}, [cycles[c] EXCEPT !.status = "INPUT_FROZEN", !.entries = InputEntries])

\* What the calculation sees of a snapshot
InputOf(entries) == [o \in DOMAIN entries |-> [amount |-> entries[o].amount,
                                               excluded |-> entries[o].reason # "INCLUDED"]]
Preview(c) ==
    Step(c, {"INPUT_FROZEN"}, [cycles[c] EXCEPT !.status = "PREVIEWED",
                                                !.cleared = Netting(InputOf(cycles[c].entries))])

\* Members with a part in what the cycle clears
ClearedIn(c) == {o \in DOMAIN cycles[c].cleared : cycles[c].cleared[o] > 0}
Interested(c) == UNION {PartiesOf(o) : o \in ClearedIn(c)}

\* approve_preview by a controller who neither created the cycle nor has a part in it; the
\* last approval needed opens the dispute window
ApprovePreview(c, m) ==
    LET row == [cycles[c] EXCEPT !.approvals = @ \union {m}]
    IN  /\ m \in Controllers \ ({cycles[c].creator} \union cycles[c].approvals \union Interested(c))
        /\ Step(c, {"PREVIEWED"},
                IF Cardinality(row.approvals) >= RequiredApprovals
                THEN [row EXCEPT !.status = "DISPUTE_WINDOW", !.until = now + DisputeWindow]
                ELSE row)

\* open_dispute by a party to entry o, within the window
DisputeEntry(c, o) ==
    /\ cycles[c].status = "DISPUTE_WINDOW" /\ now <= cycles[c].until
    /\ o \in DOMAIN cycles[c].entries
    /\ cycles' = [cycles EXCEPT ![c].status = "DISPUTED",
                                ![c].disputes = @ \union {[entry |-> o, upheld |-> FALSE]}]
    /\ UNCHANGED <<exchangeVars, policies>>

\* decide_dispute by a controller who is no party to the entry: a rejected claim returns the
\* cycle to the window, an upheld one keeps it disputed
DecideDispute(c, claim, uphold) ==
    LET rest == cycles[c].disputes \ {claim}
    IN  /\ cycles[c].status = "DISPUTED" /\ claim \in cycles[c].disputes /\ ~claim.upheld
        /\ Controllers \ PartiesOf(claim.entry) # {}
        /\ IF uphold
           THEN cycles' = [cycles EXCEPT ![c].disputes = rest \union {[claim EXCEPT !.upheld = TRUE]}]
           ELSE cycles' = [cycles EXCEPT ![c].disputes = rest,
                                         ![c].status = IF \A other \in rest : other.upheld
                                                       THEN "DISPUTE_WINDOW" ELSE @]
        /\ UNCHANGED <<exchangeVars, policies>>

\* mark_ready once the window is over and no claim is open or upheld
MarkReady(c) ==
    /\ now >= cycles[c].until /\ cycles[c].disputes = {}
    /\ Cardinality(cycles[c].approvals) >= RequiredApprovals
    /\ Step(c, {"DISPUTE_WINDOW"}, [cycles[c] EXCEPT !.status = "READY_TO_FINALIZE"])

\* Mutant: the version and the status are not compared
SameAmount(o, entry) == Remaining(o, obligations[o]) = entry.amount

\* finalize checks every entry of the snapshot, the excluded ones too
Unchanged(o, entry) == /\ obligations[o].version = entry.version
                       /\ Remaining(o, obligations[o]) = entry.amount
                       /\ Terms[o].clearing /\ obligations[o].status \in Operable

\* Mutant: excluded entries are not checked
IncludedUnchanged(c) ==
    \A o \in DOMAIN cycles[c].entries :
        cycles[c].entries[o].reason = "INCLUDED" => Unchanged(o, cycles[c].entries[o])

InputUnchanged(c) == \A o \in DOMAIN cycles[c].entries : Unchanged(o, cycles[c].entries[o])

\* Mutant: the amount is booked as performed
PerformedRow(row, amount) == [row EXCEPT !.fulfilled = @ + amount, !.version = @ + 1]

ClearedRow(row, amount) == [row EXCEPT !.cleared = @ + amount, !.version = @ + 1]

\* Mutant: a controller finalizes what he approved
NotTheCreator(c, m) == m \in Finalizers \ {cycles[c].creator}

\* By a member who neither created nor approved the cycle
MayFinalize(c, m) == m \in Finalizers \ ({cycles[c].creator} \union cycles[c].approvals)

Finalize(c, m) ==
    /\ MayFinalize(c, m)
    /\ cycles[c].status = "READY_TO_FINALIZE" /\ PolicyActive(cycles[c].policy)
    /\ InputUnchanged(c)
    /\ obligations' = [o \in Obligations |->
          IF o \in ClearedIn(c)
          THEN LET row == ClearedRow(obligations[o], cycles[c].cleared[o])
               IN  [row EXCEPT !.status = StatusFor(o, row)]
          ELSE obligations[o]]
    /\ cycles' = [cycles EXCEPT ![c].status = "FINALIZED", ![c].finalizer = m]
    /\ UNCHANGED <<now, confirmations, fulfillments, disputes, policies>>
    /\ RefreshDeals({Terms[o].deal : o \in ClearedIn(c)})

\* reconcile verifies the proof and the statements written with it
Reconcile(c) ==
    /\ cycles[c].status = "FINALIZED"
    /\ cycles' = [cycles EXCEPT ![c].status = "RECONCILED"]
    /\ UNCHANGED <<exchangeVars, policies>>

ClearingNext ==
    \/ \E p \in Policies, m \in Members : ProposePolicy(p, m) \/ ApprovePolicy(p, m)
    \/ \E c \in Cycles, p \in Policies, m \in Members : CreateCycle(c, p, m)
    \/ \E c \in Cycles : \/ Collect(c) \/ FreezeInput(c) \/ Preview(c) \/ MarkReady(c) \/ Reconcile(c)
    \/ \E c \in Cycles, m \in Members : ApprovePreview(c, m) \/ Finalize(c, m)
    \/ \E c \in Cycles, o \in Obligations : DisputeEntry(c, o)
    \/ \E c \in Cycles, uphold \in BOOLEAN :
          \E claim \in cycles[c].disputes : DecideDispute(c, claim, uphold)

Next == \/ ExchangeNext /\ UNCHANGED clearingVars
        \/ ClearingNext

Spec == Init /\ [][Next]_vars

-----------------------------------------------------------------------------
TypeOK ==
    /\ ExchangeTypeOK
    /\ policies \in [Policies -> [status : {"ABSENT", "PROPOSED", "ACTIVE", "SUPERSEDED"},
                                  proposer : Members \union {Nobody}]]
    /\ DOMAIN cycles = Cycles
    /\ \A c \in Cycles : /\ cycles[c].status \in CycleStatus \union {"ABSENT"}
                         /\ cycles[c].approvals \subseteq Members
                         /\ cycles[c].disputes \subseteq DisputeAbout
                         /\ {cycles[c].creator, cycles[c].finalizer} \subseteq Members \union {Nobody}
                         /\ DOMAIN cycles[c].entries \subseteq Obligations
                         /\ \A o \in DOMAIN cycles[c].entries : cycles[c].entries[o] \in Entry
                         /\ cycles[c].cleared \in [DOMAIN cycles[c].cleared -> Nat]

Done == {c \in Cycles : cycles[c].status \in {"FINALIZED", "RECONCILED"}}

\* Two cycles over the same obligations may be prepared side by side while their parties go on
\* performing: what is recorded as cleared of an obligation is exactly what the finalized
\* cycles cleared of it (finalize adds to quantity_cleared).
ClearedByCycles ==
    \A o \in Obligations :
        obligations[o].cleared =
            SumFunction([c \in {d \in Done : o \in DOMAIN cycles[d].cleared} |-> cycles[c].cleared[o]])

\* Clearing changes nobody's balance: over all cycles ever finalized, what a member no longer
\* owes equals what he is no longer owed (the paths of calculate_clearing are closed, and
\* finalize applies all entries of a result or none).
BalancesKept ==
    LET cleared == [o \in Obligations |-> obligations[o].cleared]
    IN  \A m \in Members : OwedBy(m, cleared) = OwedTo(m, cleared)

\* Nothing contested or awaiting a decision is cleared: when an amount is cleared, no dispute is
\* open about the obligation, no fulfillment of it is submitted, and no claim was raised
\* against the cycle that was not rejected, whatever happened since the input was frozen.
ContestedNotCleared ==
    [][\A o \in Obligations : obligations'[o].cleared # obligations[o].cleared =>
          /\ ~disputes[o].open
          /\ \A k \in Slots : fulfillments[o][k].status # "SUBMITTED"
          /\ \A c \in Cycles : cycles'[c].status # cycles[c].status => cycles[c].disputes = {}]_vars

\* Nobody decides alone or in his own interest: behind a cleared amount stand a creator, enough
\* controllers and a finalizer who are all different, and no controller has a part in it.
DutiesSeparated ==
    \A c \in Done :
        /\ Cardinality(cycles[c].approvals) >= RequiredApprovals
        /\ cycles[c].creator # cycles[c].finalizer
        /\ {cycles[c].creator, cycles[c].finalizer} \intersect cycles[c].approvals = {}
        /\ cycles[c].approvals \intersect Interested(c) = {}
=============================================================================

--------------------------------- MODULE Risk ---------------------------------
(***************************************************************************)
(* Share accounts of one denomination and the risks that weigh on them:    *)
(* commitments an owner accepts, links between related members, liability  *)
(* cases against a commitment and the compensations that execute them.     *)
(* A command is a transaction.  Those that compare sums take the lock of   *)
(* the cooperative; releasing a commitment and accepting or voiding a      *)
(* compensation lock only the rows they change.                            *)
(***************************************************************************)
EXTENDS Functions, Integers

CONSTANTS
    Members,       \* active members of the cooperative
    Admins,        \* POLICY_PROPOSER_ROLES
    RiskAdmins,    \* of the role RISK_ADMIN
    Officers,      \* RISK_OPERATOR_ROLES, also POLICY_APPROVER_ROLES: these and the auditors
    Owners,        \* members with a share account, one each
    Nobody,
    Policies, Links, Commitments, Cases, Transfers,
    MaxAmount,     \* bound on every single amount
    MaxBalance,    \* bound on a balance
    MemberLimit, RelatedLimit, ChainDepth   \* the terms of the policies

VARIABLES
    policies,      \* risk.policies
    accounts,      \* risk.share_accounts with the sum of their share_contributions
    links,         \* risk.related_party_links
    commitments,   \* risk.exposure_commitments
    cases,         \* risk.liability_cases
    transfers      \* risk.compensation_transfers

vars == <<policies, accounts, links, commitments, cases, transfers>>

Amounts == 1..MaxAmount
Anyone == Members \union {Nobody}
NoPolicy == [status |-> "ABSENT", proposer |-> Nobody]
NoAccount == [status |-> "ABSENT", balance |-> 0, protected |-> 0, unsettled |-> 0, contributed |-> 0]
NoLink == [status |-> "ABSENT", pair |-> {}, proposer |-> Nobody]
\* A guarantee has a debtor other than the owner, the other types have none
NoCommitment == [status |-> "ABSENT", owner |-> Nobody, debtor |-> {}, policy |-> {},
                 reserved |-> 0, max_loss |-> 0, executed |-> 0]
NoCase == [status |-> "ABSENT", commitment |-> {}, affected |-> 0, loss |-> 0,
           opener |-> Nobody, assessor |-> Nobody]
NoTransfer == [status |-> "ABSENT", case |-> {}, source |-> Nobody, recipient |-> Nobody,
               amount |-> 0, authorizer |-> Nobody]

Init ==
    /\ policies = [p \in Policies |-> NoPolicy]
    /\ accounts = [o \in Owners |-> NoAccount]
    /\ links = [l \in Links |-> NoLink]
    /\ commitments = [c \in Commitments |-> NoCommitment]
    /\ cases = [k \in Cases |-> NoCase]
    /\ transfers = [t \in Transfers |-> NoTransfer]

-----------------------------------------------------------------------------
ActivePolicy(p) == policies[p].status = "ACTIVE"
IsActive(c) == commitments[c].status = "ACTIVE"
Remaining(c) == commitments[c].reserved - commitments[c].executed
Exposure(c) == commitments[c].max_loss - commitments[c].executed
OwnedBy(c, who) == IsActive(c) /\ commitments[c].owner \in who
ExposureOf(who) == SumFunction([c \in Commitments |-> IF OwnedBy(c, who) THEN Exposure(c) ELSE 0])
Reserved(o) == SumFunction([c \in Commitments |-> IF OwnedBy(c, {o}) THEN Remaining(c) ELSE 0])

\* _related_group: the connected component in the graph of the active links
Related == {links[l].pair : l \in {l \in Links : links[l].status = "ACTIVE"}}
RelatedGroup(m) ==
    {n \in Members : \A S \in SUBSET Members :
        m \in S /\ (\A pair \in Related : pair \cap S # {} => pair \subseteq S) => n \in S}

\* _exposure_preview and preview_exposure
\* Mutant: what is executed and not yet settled counts as available
AvailableUnsettled(o) == accounts[o].balance - accounts[o].protected - Reserved(o)
Available(o) == accounts[o].balance - accounts[o].protected - Reserved(o) - accounts[o].unsettled
Allowed(o, reserved, loss) ==
    /\ reserved <= Available(o)
    /\ ExposureOf({o}) + loss <= MemberLimit
    /\ ExposureOf(RelatedGroup(o)) + loss <= RelatedLimit

\* _validate_guarantee_graph: a member ranks above whom he guarantees, which
\* no cycle allows, nor a chain longer than the highest rank
Guarantees == UNION {{commitments[c].owner} \X commitments[c].debtor : c \in {c \in Commitments : IsActive(c)}}
GraphValid(edges) ==
    \E rank \in [Members -> 0..ChainDepth] : \A e \in edges : rank[e[1]] > rank[e[2]]

-----------------------------------------------------------------------------
ProposePolicy(p, a) ==
    /\ policies[p].status = "ABSENT" /\ a \in Admins
    /\ policies' = [policies EXCEPT ![p] = [status |-> "PROPOSED", proposer |-> a]]
    /\ UNCHANGED <<accounts, links, commitments, cases, transfers>>

ApprovePolicy(p, a) ==
    /\ policies[p].status = "PROPOSED" /\ a \in Officers \ {policies[p].proposer}
    /\ policies' = [q \in Policies |-> IF q = p THEN [policies[q] EXCEPT !.status = "ACTIVE"]
                                       ELSE IF ActivePolicy(q) THEN [policies[q] EXCEPT !.status = "SUPERSEDED"]
                                       ELSE policies[q]]
    /\ UNCHANGED <<accounts, links, commitments, cases, transfers>>

OpenAccount(p, o, balance, protected) ==
    /\ ActivePolicy(p) /\ accounts[o].status = "ABSENT" /\ protected <= balance
    /\ accounts' = [accounts EXCEPT ![o] = [status |-> "ACTIVE", balance |-> balance,
                       protected |-> protected, unsettled |-> 0, contributed |-> balance]]
    /\ UNCHANGED <<policies, links, commitments, cases, transfers>>

AddContribution(o, amount) ==
    /\ accounts[o].status = "ACTIVE" /\ accounts[o].balance + amount <= MaxBalance
    /\ accounts' = [accounts EXCEPT ![o].balance = accounts[o].balance + amount,
                                    ![o].contributed = accounts[o].contributed + amount]
    /\ UNCHANGED <<policies, links, commitments, cases, transfers>>

\* One pending or active link of a pair
ProposeRelatedLink(l, pair, a) ==
    /\ links[l].status = "ABSENT" /\ a \in RiskAdmins
    /\ \A k \in Links : links[k].pair = pair => links[k].status = "REJECTED"
    /\ links' = [links EXCEPT ![l] = [status |-> "PENDING_APPROVAL", pair |-> pair, proposer |-> a]]
    /\ UNCHANGED <<policies, accounts, commitments, cases, transfers>>

\* _ensure_merged_group_limits, which finds no limit when no policy is active
MergedGroupFits(pair) ==
    LET total == ExposureOf(UNION {RelatedGroup(m) : m \in pair})
    IN  total = 0 \/ (total <= RelatedLimit /\ \E p \in Policies : ActivePolicy(p))

DecideRelatedLink(l, a, approve) ==
    /\ links[l].status = "PENDING_APPROVAL"
    /\ a \in Officers \ (links[l].pair \union {links[l].proposer})
    /\ approve => MergedGroupFits(links[l].pair)
    /\ links' = [links EXCEPT ![l].status = IF approve THEN "ACTIVE" ELSE "REJECTED"]
    /\ UNCHANGED <<policies, accounts, commitments, cases, transfers>>

-----------------------------------------------------------------------------
ProposeCommitment(c, o, p, debtor, reserved, loss) ==
    /\ commitments[c].status = "ABSENT" /\ ActivePolicy(p) /\ accounts[o].status = "ACTIVE"
    /\ loss <= reserved /\ Allowed(o, reserved, loss)
    /\ debtor # {} => GraphValid(Guarantees \union ({o} \X debtor))
    /\ commitments' = [commitments EXCEPT ![c] =
           [status |-> "PROPOSED", owner |-> o, debtor |-> debtor, policy |-> {p},
            reserved |-> reserved, max_loss |-> loss, executed |-> 0]]
    /\ UNCHANGED <<policies, accounts, links, cases, transfers>>

\* accept_commitment by the owner: everything is checked again under the locks
AcceptCommitment(c) ==
    LET o == commitments[c].owner
    IN  /\ commitments[c].status = "PROPOSED"
        /\ \A p \in commitments[c].policy : ActivePolicy(p)
        /\ Allowed(o, commitments[c].reserved, commitments[c].max_loss)
        /\ commitments[c].debtor # {} => GraphValid(Guarantees \union ({o} \X commitments[c].debtor))
        /\ commitments' = [commitments EXCEPT ![c].status = "ACTIVE"]
        /\ UNCHANGED <<policies, accounts, links, cases, transfers>>

\* Neither a case nor a pending compensation keeps a commitment from being released
ReleaseCommitment(c) ==
    /\ commitments[c].status \in {"PROPOSED", "ACTIVE"}
    /\ commitments' = [commitments EXCEPT
                          ![c].status = IF IsActive(c) THEN "RELEASED" ELSE "CANCELLED"]
    /\ UNCHANGED <<policies, accounts, links, cases, transfers>>

-----------------------------------------------------------------------------
Executable(c) == commitments[c].status \in {"ACTIVE", "RELEASED"}
CasesOf(c, statuses) == {k \in Cases : cases[k].commitment = {c} /\ cases[k].status \in statuses}
Losses(ks) == SumFunction([k \in ks |-> cases[k].loss])

OpenLiabilityCase(k, c, a, amount) ==
    /\ cases[k].status = "ABSENT" /\ Executable(c) /\ amount <= commitments[c].max_loss
    /\ a \in Officers \ {commitments[c].owner}
    /\ cases' = [cases EXCEPT ![k] = [status |-> "OPEN", commitment |-> {c}, affected |-> amount,
                                      loss |-> 0, opener |-> a, assessor |-> Nobody]]
    /\ UNCHANGED <<policies, accounts, links, commitments, transfers>>

\* The losses already assessed leave out those of the cases that were closed
AssessLiabilityCase(k, a, loss) ==
    /\ cases[k].status = "OPEN" /\ loss <= cases[k].affected
    /\ \A c \in cases[k].commitment :
          /\ a \in Officers \ {cases[k].opener, commitments[c].owner}
          /\ Losses(CasesOf(c, {"ASSESSED"})) + loss <= commitments[c].max_loss
    /\ cases' = [cases EXCEPT ![k].status = "ASSESSED", ![k].loss = loss, ![k].assessor = a]
    /\ UNCHANGED <<policies, accounts, links, commitments, transfers>>

-----------------------------------------------------------------------------
\* uq_risk_compensation_active_case: a settled or pending compensation of the case
Compensated(k) == \E t \in Transfers : transfers[t].case = {k} /\ transfers[t].status # "VOIDED"

\* _ensure_account_capacity: the amount moves from the reserve of an active commitment
Capacity(c, amount) ==
    LET o == commitments[c].owner
    IN  accounts[o].protected + accounts[o].unsettled + amount + Reserved(o)
            - (IF IsActive(c) THEN amount ELSE 0) <= accounts[o].balance

\* authorize on the final decision of a trust case, which bounds the amount as the assessed loss does
Authorize(t, k, recipient, amount, a) ==
    /\ transfers[t].status = "ABSENT" /\ cases[k].status = "ASSESSED"
    /\ amount <= cases[k].loss /\ ~Compensated(k)
    /\ accounts[recipient].status = "ACTIVE"
    /\ \E c \in cases[k].commitment :
          LET o == commitments[c].owner
          IN  /\ Executable(c) /\ recipient # o
              /\ a \in Officers \ {o, recipient, cases[k].opener, cases[k].assessor}
              /\ amount <= Exposure(c) /\ amount <= Remaining(c) /\ Capacity(c, amount)
              /\ accounts' = [accounts EXCEPT ![o].unsettled = accounts[o].unsettled + amount]
              /\ commitments' = [commitments EXCEPT ![c].executed = commitments[c].executed + amount]
              /\ transfers' = [transfers EXCEPT ![t] = [status |-> "PENDING_ACCEPTANCE", case |-> {k},
                     source |-> o, recipient |-> recipient, amount |-> amount, authorizer |-> a]]
    /\ UNCHANGED <<policies, links, cases>>

AcceptCompensation(t) ==
    LET x == transfers[t]
    IN  /\ x.status = "PENDING_ACCEPTANCE"
        /\ accounts[x.source].unsettled >= x.amount /\ accounts[x.source].balance >= x.amount
        /\ accounts' = [accounts EXCEPT
               ![x.source].balance = accounts[x.source].balance - x.amount,
               ![x.source].unsettled = accounts[x.source].unsettled - x.amount,
               ![x.recipient].balance = accounts[x.recipient].balance + x.amount]
        /\ transfers' = [transfers EXCEPT ![t].status = "SETTLED"]
        /\ cases' = [k \in Cases |-> IF k \in x.case THEN [cases[k] EXCEPT !.status = "CLOSED"] ELSE cases[k]]
        /\ UNCHANGED <<policies, links, commitments>>

\* void gives the amount back to the commitment and looks at no limit
VoidCompensation(t, a) ==
    LET x == transfers[t]
    IN  /\ x.status = "PENDING_ACCEPTANCE" /\ a \in Officers \ {x.authorizer, x.source, x.recipient}
        /\ accounts[x.source].unsettled >= x.amount
        /\ \E c \in UNION {cases[k].commitment : k \in x.case} :
              /\ commitments[c].executed >= x.amount
              /\ commitments' = [commitments EXCEPT ![c].executed = commitments[c].executed - x.amount]
        /\ accounts' = [accounts EXCEPT ![x.source].unsettled = accounts[x.source].unsettled - x.amount]
        /\ transfers' = [transfers EXCEPT ![t].status = "VOIDED"]
        /\ UNCHANGED <<policies, links, cases>>

-----------------------------------------------------------------------------
Debtors(o) == {{}} \union {{m} : m \in Owners \ {o}}
Pairs == {pair \in SUBSET Owners : \E m, n \in pair : m # n /\ pair = {m, n}}

Next ==
    \/ \E p \in Policies, a \in Members : ProposePolicy(p, a) \/ ApprovePolicy(p, a)
    \/ \E p \in Policies, o \in Owners, balance \in Amounts, protected \in 0..MaxAmount :
          OpenAccount(p, o, balance, protected)
    \/ \E o \in Owners, amount \in Amounts : AddContribution(o, amount)
    \/ \E l \in Links, a \in Members :
          \/ \E pair \in Pairs : ProposeRelatedLink(l, pair, a)
          \/ \E approve \in BOOLEAN : DecideRelatedLink(l, a, approve)
    \/ \E c \in Commitments, o \in Owners, p \in Policies, reserved, loss \in Amounts :
          \E debtor \in Debtors(o) : ProposeCommitment(c, o, p, debtor, reserved, loss)
    \/ \E c \in Commitments : AcceptCommitment(c) \/ ReleaseCommitment(c)
    \/ \E k \in Cases, a \in Members :
          \/ \E c \in Commitments, amount \in Amounts : OpenLiabilityCase(k, c, a, amount)
          \/ \E loss \in 0..MaxAmount : AssessLiabilityCase(k, a, loss)
    \/ \E t \in Transfers, a \in Members :
          \/ \E k \in Cases, o \in Owners, amount \in Amounts : Authorize(t, k, o, amount, a)
          \/ VoidCompensation(t, a)
    \/ \E t \in Transfers : AcceptCompensation(t)

Spec == Init /\ [][Next]_vars

-----------------------------------------------------------------------------
TypeOK ==
    /\ policies \in [Policies -> [status : {"ABSENT", "PROPOSED", "ACTIVE", "SUPERSEDED"}, proposer : Anyone]]
    /\ accounts \in [Owners -> [status : {"ABSENT", "ACTIVE"}, balance : Nat, protected : Nat,
                                unsettled : Nat, contributed : Nat]]
    /\ links \in [Links -> [status : {"ABSENT", "PENDING_APPROVAL", "ACTIVE", "REJECTED"},
                            pair : SUBSET Owners, proposer : Anyone]]
    /\ commitments \in [Commitments -> [status : {"ABSENT", "PROPOSED", "ACTIVE", "RELEASED", "CANCELLED"},
                            owner : Anyone, debtor : SUBSET Owners, policy : SUBSET Policies,
                            reserved : Nat, max_loss : Nat, executed : Nat]]
    /\ cases \in [Cases -> [status : {"ABSENT", "OPEN", "ASSESSED", "CLOSED"}, commitment : SUBSET Commitments,
                            affected : Nat, loss : Nat, opener : Anyone, assessor : Anyone]]
    /\ transfers \in [Transfers -> [status : {"ABSENT", "PENDING_ACCEPTANCE", "SETTLED", "VOIDED"},
                            case : SUBSET Cases, source : Anyone, recipient : Anyone, amount : Nat,
                            authorizer : Anyone]]

\* The compensations an account still owes, and those that executed a commitment
Owed(o, t) ==
    IF transfers[t].status = "PENDING_ACCEPTANCE" /\ transfers[t].source = o THEN transfers[t].amount ELSE 0
Executed(c, t) ==
    IF /\ transfers[t].status \in {"PENDING_ACCEPTANCE", "SETTLED"}
       /\ \E k \in transfers[t].case : cases[k].commitment = {c}
    THEN transfers[t].amount ELSE 0

\* Shares are neither promised twice nor lost: what is protected, reserved and executed of an account
\* stays within its balance whatever is accepted, released, authorized, voided and settled in between;
\* what is executed is the sum of the compensations, of a commitment within its largest loss; and
\* settling moves shares without making any (accept_commitment, authorize, accept, void).
SharesAccounted ==
    /\ \A o \in Owners :
          /\ accounts[o].protected + Reserved(o) + accounts[o].unsettled <= accounts[o].balance
          /\ accounts[o].unsettled = SumFunction([t \in Transfers |-> Owed(o, t)])
    /\ \A c \in Commitments :
          /\ commitments[c].executed <= commitments[c].max_loss
          /\ commitments[c].executed = SumFunction([t \in Transfers |-> Executed(c, t)])
    /\ SumFunction([o \in Owners |-> accounts[o].balance]) = SumFunction([o \in Owners |-> accounts[o].contributed])

\* No circle of members guarantees for one another (_validate_guarantee_graph).
GuaranteesAcyclic ==
    \A S \in SUBSET Members : S # {} =>
        \E m \in S : \A n \in S : \A c \in Commitments :
            ~(IsActive(c) /\ commitments[c].owner = m /\ commitments[c].debtor = {n})

=============================================================================

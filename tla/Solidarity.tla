------------------------------ MODULE Solidarity ------------------------------
(***************************************************************************)
(* Aid of one solidarity campaign: contributions of one form and unit are  *)
(* pledged, received and verified, and allocated to the applications of    *)
(* members.  Each command is a transaction that locks the rows it changes; *)
(* proposing, approving and closing also take the lock of the cooperative. *)
(* Only the campaign itself is read without a lock: SawOpen.               *)
(***************************************************************************)
EXTENDS Functions, Integers

CONSTANTS
    Members,       \* active members of the cooperative
    Operators,     \* those with a role in OPERATOR_ROLES
    Controllers,   \* CONTROLLER_ROLES
    Reviewers,     \* COMPLAINT_REVIEW_ROLES
    Donors, Recipients,  \* members who give and who apply in an instance
    Nobody,        \* no member
    Pledges, Contributions, Applications, Allocations, Complaints,
    MaxQuantity,   \* bound on the quantity of a contribution or application
    Retain         \* whether residue_rule is RETAIN_IN_FUND

VARIABLES
    fund,          \* solidarity.funds, one row
    campaign,      \* solidarity.campaigns, one row
    pledges, contributions, applications, allocations, complaints,
    report         \* solidarity.campaign_reports: what was left over at the close, or -1

vars == <<fund, campaign, pledges, contributions, applications, allocations, complaints, report>>

Quantities == 1..MaxQuantity
Anyone == Members \union {Nobody}

NoFund == [status |-> "ABSENT", proposer |-> Nobody]
NoCampaign == [status |-> "ABSENT", creator |-> Nobody]
NoPledge == [status |-> "ABSENT", donor |-> Nobody, quantity |-> 1]
NoContribution == [status |-> "ABSENT", donor |-> Nobody, receiver |-> Nobody,
                   quantity |-> 1, pledge |-> {}]
NoApplication == [status |-> "ABSENT", recipient |-> Nobody, submitter |-> Nobody, quantity |-> 1]
NoAllocation == [status |-> "ABSENT", application |-> {}, proposer |-> Nobody, approver |-> Nobody,
                 attester |-> Nobody, quantity |-> 1]
NoComplaint == [status |-> "ABSENT", complainant |-> Nobody, allocation |-> {}]

Init ==
    /\ fund = NoFund
    /\ campaign = NoCampaign
    /\ pledges = [p \in Pledges |-> NoPledge]
    /\ contributions = [c \in Contributions |-> NoContribution]
    /\ applications = [a \in Applications |-> NoApplication]
    /\ allocations = [l \in Allocations |-> NoAllocation]
    /\ complaints = [x \in Complaints |-> NoComplaint]
    /\ report = -1

-----------------------------------------------------------------------------
\* _require_open_campaign on a row read without a lock: it may have been closed meanwhile
SawOpen == campaign.status \in {"OPEN", "CLOSED"}
\* _participant_or_operator: a member for himself, an operator for anybody
ActsFor(m, owner) == m = owner \/ m \in Operators

\* The allocation's row names its application; sets of at most one row stand for a reference
RecipientOf(l) == UNION {{applications[a].recipient} : a \in allocations[l].application}
\* uq_solidarity_allocation_active_application
\* Mutant: a proposal does not block another one
ActiveApproved == {"APPROVED", "SUSPENDED", "DELIVERED"}
Active == {"PROPOSED", "APPROVED", "SUSPENDED", "DELIVERED"}
HasActiveAllocation(a) ==
    \E l \in Allocations : allocations[l].application = {a} /\ allocations[l].status \in Active

\* build_bucket_balances
Spending == {"APPROVED", "SUSPENDED", "DELIVERED"}
Given(c) == IF contributions[c].status = "VERIFIED" THEN contributions[c].quantity ELSE 0
Promised(l) == IF allocations[l].status \in Spending THEN allocations[l].quantity ELSE 0
Verified == SumFunction([c \in Contributions |-> Given(c)])
Allocated == SumFunction([l \in Allocations |-> Promised(l)])
Available == Verified - Allocated

-----------------------------------------------------------------------------
ProposeFund(m) ==
    /\ fund.status = "ABSENT" /\ m \in Operators
    /\ fund' = [status |-> "DRAFT", proposer |-> m]
    /\ UNCHANGED <<campaign, pledges, contributions, applications, allocations, complaints, report>>

ApproveFund(m) ==
    /\ fund.status = "DRAFT" /\ m \in Controllers \ {fund.proposer}
    /\ fund' = [fund EXCEPT !.status = "ACTIVE"]
    /\ UNCHANGED <<campaign, pledges, contributions, applications, allocations, complaints, report>>

CreateCampaign(m) ==
    /\ fund.status = "ACTIVE" /\ campaign.status = "ABSENT" /\ m \in Operators
    /\ campaign' = [status |-> "DRAFT", creator |-> m]
    /\ UNCHANGED <<fund, pledges, contributions, applications, allocations, complaints, report>>

OpenCampaign(m) ==
    /\ campaign.status = "DRAFT" /\ m \in Controllers \ {campaign.creator}
    /\ campaign' = [campaign EXCEPT !.status = "OPEN"]
    /\ UNCHANGED <<fund, pledges, contributions, applications, allocations, complaints, report>>

-----------------------------------------------------------------------------
CreatePledge(p, donor, m, q) ==
    /\ SawOpen /\ pledges[p].status = "ABSENT" /\ ActsFor(m, donor)
    /\ pledges' = [pledges EXCEPT ![p] = [status |-> "ACTIVE", donor |-> donor, quantity |-> q]]
    /\ UNCHANGED <<fund, campaign, contributions, applications, allocations, complaints, report>>

\* receive_contribution, which may fulfil a pledge of the same terms
ReceiveContribution(c, donor, m, q, pledge) ==
    /\ SawOpen /\ contributions[c].status = "ABSENT" /\ ActsFor(m, donor)
    /\ \A p \in pledge : pledges[p] = [status |-> "ACTIVE", donor |-> donor, quantity |-> q]
    /\ contributions' = [contributions EXCEPT ![c] =
           [status |-> "RECEIVED", donor |-> donor, receiver |-> m, quantity |-> q, pledge |-> pledge]]
    /\ pledges' = [p \in Pledges |-> IF p \in pledge THEN [pledges[p] EXCEPT !.status = "FULFILLED"]
                                                     ELSE pledges[p]]
    /\ UNCHANGED <<fund, campaign, applications, allocations, complaints, report>>

\* A rejected contribution cancels the pledge it fulfilled
VerifyContribution(c, m, accepted) ==
    /\ contributions[c].status = "RECEIVED"
    /\ m \in Controllers \ {contributions[c].receiver, contributions[c].donor}
    /\ contributions' = [contributions EXCEPT
                            ![c].status = IF accepted THEN "VERIFIED" ELSE "REJECTED"]
    /\ pledges' = [p \in Pledges |-> IF p \in contributions[c].pledge /\ ~accepted
                                     THEN [pledges[p] EXCEPT !.status = "CANCELLED"] ELSE pledges[p]]
    /\ UNCHANGED <<fund, campaign, applications, allocations, complaints, report>>

SubmitApplication(a, recipient, m, q) ==
    /\ SawOpen /\ applications[a].status = "ABSENT" /\ ActsFor(m, recipient)
    /\ applications' = [applications EXCEPT ![a] =
           [status |-> "SUBMITTED", recipient |-> recipient, submitter |-> m, quantity |-> q]]
    /\ UNCHANGED <<fund, campaign, pledges, contributions, allocations, complaints, report>>

ReviewApplication(a, m, eligible) ==
    /\ applications[a].status = "SUBMITTED"
    /\ m \in Controllers \ {applications[a].submitter, applications[a].recipient}
    /\ applications' = [applications EXCEPT ![a].status = IF eligible THEN "ELIGIBLE" ELSE "REJECTED"]
    /\ UNCHANGED <<fund, campaign, pledges, contributions, allocations, complaints, report>>

-----------------------------------------------------------------------------
\* The campaign cannot be closed while the application, locked here, is eligible
ProposeAllocation(l, a, m, q) ==
    /\ allocations[l].status = "ABSENT"
    /\ applications[a].status = "ELIGIBLE" /\ campaign.status = "OPEN"
    /\ m \in Operators \ {applications[a].recipient}
    /\ q <= applications[a].quantity /\ q <= Available /\ ~HasActiveAllocation(a)
    /\ allocations' = [allocations EXCEPT ![l] =
           [status |-> "PROPOSED", application |-> {a}, proposer |-> m, approver |-> Nobody,
            attester |-> Nobody, quantity |-> q]]
    /\ UNCHANGED <<fund, campaign, pledges, contributions, applications, complaints, report>>

Approvers(l) == Controllers \ ({allocations[l].proposer} \union RecipientOf(l))
ApproveAllocation(l, m, approved) ==
    /\ allocations[l].status = "PROPOSED" /\ m \in Approvers(l)
    /\ approved => allocations[l].quantity <= Available
    /\ allocations' = [allocations EXCEPT ![l].status = IF approved THEN "APPROVED" ELSE "CANCELLED",
                                          ![l].approver = m]
    /\ applications' = [a \in Applications |->
           IF approved /\ a \in allocations[l].application
           THEN [applications[a] EXCEPT !.status = "ALLOCATED"] ELSE applications[a]]
    /\ UNCHANGED <<fund, campaign, pledges, contributions, complaints, report>>
\* Attested by the recipient, or by somebody with no part in the allocation
RecordDelivery(l, m) ==
    /\ allocations[l].status = "APPROVED"
    /\ \/ m \in RecipientOf(l)
       \/ m \in Members \ ({allocations[l].proposer, allocations[l].approver} \union RecipientOf(l))
    /\ allocations' = [allocations EXCEPT ![l].status = "DELIVERED", ![l].attester = m]
    /\ applications' = [a \in Applications |->
           IF a \in allocations[l].application
           THEN [applications[a] EXCEPT !.status = "CLOSED"] ELSE applications[a]]
    /\ UNCHANGED <<fund, campaign, pledges, contributions, complaints, report>>

-----------------------------------------------------------------------------
\* A complaint suspends the approved allocation it is about; the campaign may be closed
OpenComplaint(x, m, about) ==
    /\ complaints[x].status = "ABSENT" /\ campaign.status # "ABSENT"
    /\ \A l \in about : allocations[l].status # "ABSENT"
    /\ complaints' = [complaints EXCEPT ![x] =
           [status |-> "OPEN", complainant |-> m, allocation |-> about]]
    /\ allocations' = [l \in Allocations |->
           IF l \in about /\ allocations[l].status = "APPROVED"
           THEN [allocations[l] EXCEPT !.status = "SUSPENDED"] ELSE allocations[l]]
    /\ UNCHANGED <<fund, campaign, pledges, contributions, applications, report>>

Involved(l) == {allocations[l].proposer, allocations[l].approver} \union RecipientOf(l)
\* A complaint that is rejected, or accepted with a note, leaves the allocation as it is
ResolveComplaint(x, m, accepted, action) ==
    LET about == complaints[x].allocation
    IN  /\ complaints[x].status = "OPEN"
        /\ m \in Reviewers \ ({complaints[x].complainant} \union UNION {Involved(l) : l \in about})
        /\ ~accepted => action = "NOTE_ONLY"
        /\ action # "NOTE_ONLY" => about # {}
        /\ action = "RESTORE_ALLOCATION" => \A l \in about : allocations[l].status = "SUSPENDED"
        /\ action = "CANCEL_ALLOCATION" =>
              \A l \in about : allocations[l].status \in {"PROPOSED", "APPROVED", "SUSPENDED"}
        /\ complaints' = [complaints EXCEPT ![x].status = IF accepted THEN "RESOLVED" ELSE "REJECTED"]
        /\ allocations' = [l \in Allocations |->
               IF l \in about /\ action # "NOTE_ONLY"
               THEN [allocations[l] EXCEPT
                        !.status = IF action = "RESTORE_ALLOCATION" THEN "APPROVED" ELSE "CANCELLED"]
               ELSE allocations[l]]
        /\ applications' = [a \in Applications |->
               IF /\ action = "CANCEL_ALLOCATION" /\ applications[a].status = "ALLOCATED"
                  /\ \E l \in about : a \in allocations[l].application
               THEN [applications[a] EXCEPT !.status = "ELIGIBLE"] ELSE applications[a]]
        /\ UNCHANGED <<fund, campaign, pledges, contributions, report>>

\* Rows whose end close_campaign waits for
Unreconciled ==
    \/ \E l \in Allocations : allocations[l].status \in {"PROPOSED", "APPROVED", "SUSPENDED"}
    \/ \E x \in Complaints : complaints[x].status = "OPEN"
    \/ \E c \in Contributions : contributions[c].status = "RECEIVED"
    \/ \E a \in Applications : applications[a].status \in {"SUBMITTED", "ELIGIBLE", "ALLOCATED"}
CloseCampaign(m) ==
    /\ campaign.status = "OPEN" /\ m \in Controllers \ {campaign.creator}
    /\ ~Unreconciled /\ (Retain \/ Available = 0)
    /\ campaign' = [campaign EXCEPT !.status = "CLOSED"]
    /\ report' = Available
    /\ UNCHANGED <<fund, pledges, contributions, applications, allocations, complaints>>

Next ==
    \/ \E m \in Members : ProposeFund(m) \/ ApproveFund(m) \/ CreateCampaign(m) \/ OpenCampaign(m)
    \/ \E p \in Pledges, donor \in Donors, m \in Members, q \in Quantities : CreatePledge(p, donor, m, q)
    \/ \E c \in Contributions, donor \in Donors, m \in Members, q \in Quantities :
          \E pledge \in {{}} \union {{p} : p \in Pledges} : ReceiveContribution(c, donor, m, q, pledge)
    \/ \E c \in Contributions, m \in Members, ok \in BOOLEAN : VerifyContribution(c, m, ok)
    \/ \E a \in Applications, recipient \in Recipients, m \in Members, q \in Quantities :
          SubmitApplication(a, recipient, m, q)
    \/ \E a \in Applications, m \in Members, ok \in BOOLEAN : ReviewApplication(a, m, ok)
    \/ \E l \in Allocations, a \in Applications, m \in Members, q \in Quantities :
          ProposeAllocation(l, a, m, q)
    \/ \E l \in Allocations, m \in Members, ok \in BOOLEAN : ApproveAllocation(l, m, ok)
    \/ \E l \in Allocations, m \in Members : RecordDelivery(l, m)
    \/ \E x \in Complaints, m \in Members :
          \E about \in {{}} \union {{l} : l \in Allocations} : OpenComplaint(x, m, about)
    \/ \E x \in Complaints, m \in Members, accepted \in BOOLEAN :
          \E action \in {"RESTORE_ALLOCATION", "CANCEL_ALLOCATION", "NOTE_ONLY"} :
              ResolveComplaint(x, m, accepted, action)
    \/ \E m \in Members : CloseCampaign(m)

Spec == Init /\ [][Next]_vars

-----------------------------------------------------------------------------
TypeOK ==
    /\ fund \in [status : {"ABSENT", "DRAFT", "ACTIVE"}, proposer : Anyone]
    /\ campaign \in [status : {"ABSENT", "DRAFT", "OPEN", "CLOSED"}, creator : Anyone]
    /\ pledges \in [Pledges -> [status : {"ABSENT", "ACTIVE", "FULFILLED", "CANCELLED"},
                                donor : Anyone, quantity : Quantities]]
    /\ contributions \in [Contributions ->
           [status : {"ABSENT", "RECEIVED", "VERIFIED", "REJECTED"}, donor : Anyone,
            receiver : Anyone, quantity : Quantities, pledge : SUBSET Pledges]]
    /\ applications \in [Applications ->
           [status : {"ABSENT", "SUBMITTED", "ELIGIBLE", "REJECTED", "ALLOCATED", "CLOSED"},
            recipient : Anyone, submitter : Anyone, quantity : Quantities]]
    /\ allocations \in [Allocations ->
           [status : {"ABSENT", "PROPOSED", "APPROVED", "SUSPENDED", "DELIVERED", "CANCELLED"},
            application : SUBSET Applications,
            proposer : Anyone, approver : Anyone, attester : Anyone, quantity : Quantities]]
    /\ complaints \in [Complaints -> [status : {"ABSENT", "OPEN", "RESOLVED", "REJECTED"},
                                      complainant : Anyone, allocation : SUBSET Allocations]]
    /\ report \in Int

\* What is promised, suspended or delivered never exceeds what was verified, whatever
\* complaints, cancellations and late contributions come between (_bucket_balance).
AidWithinVerified == Allocated <= Verified

\* Nobody has two parts in delivered aid: the operator who proposed it, the controller who
\* approved it and the recipient differ, and the delivery is attested by the recipient or a fourth
\* member (approve_allocation, record_delivery).
AidDutiesSeparated ==
    \A l \in Allocations :
        allocations[l].status = "DELIVERED" =>
            /\ allocations[l].proposer # allocations[l].approver
            /\ {allocations[l].proposer, allocations[l].approver} \intersect RecipientOf(l) = {}
            /\ allocations[l].attester \notin {allocations[l].proposer, allocations[l].approver}

\* An application is ALLOCATED exactly as long as aid is promised to it, and CLOSED exactly when it
\* was delivered; so no application is lost between a complaint and the close of its campaign.
ApplicationFollowsAid ==
    \A a \in Applications :
        LET some(statuses) == \E l \in Allocations : /\ a \in allocations[l].application
                                                     /\ allocations[l].status \in statuses
        IN  /\ applications[a].status = "ALLOCATED" <=> some({"APPROVED", "SUSPENDED"})
            /\ applications[a].status = "CLOSED" <=> some({"DELIVERED"})

\* A closed campaign owes nothing: every allocation was delivered or cancelled and its report stated
\* what was left, although contributions, applications and complaints may still arrive late.
ClosedCampaignOwesNothing ==
    campaign.status = "CLOSED" =>
        /\ \A l \in Allocations : allocations[l].status \in {"ABSENT", "DELIVERED", "CANCELLED"}
        /\ report >= 0 /\ (Retain \/ report = 0)

\* Aid stays within what was verified, passes through separate hands, carries its application along and
\* leaves nothing behind in a closed campaign.
AidAccounted ==
    AidWithinVerified /\ AidDutiesSeparated /\ ApplicationFollowsAid /\ ClosedCampaignOwesNothing
=============================================================================

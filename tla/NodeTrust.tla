------------------------------ MODULE NodeTrust ------------------------------
(***************************************************************************)
(* How a node comes to trust another one: the application of that node,     *)
(* its review by independent people, its contract, limits and bond, its     *)
(* keys and their rotation, its incidents, and the offline epochs with      *)
(* their paper forms.  One external node.  Of the terms that run out, those *)
(* of epochs and forms are left out: a form can be voided at any time.      *)
(***************************************************************************)
EXTENDS Integers, FiniteSets

CONSTANTS
    Registrars, Securities, Auditors,   \* users by the roles of the federation
    Nobody,
    Rotations, Incidents, Limits, Forms,
    MaxExposure,
    MaxTime      \* the last time looked at; a term that ends later ends at MaxTime + 1

VARIABLES
    now,
    node,         \* status of ExternalNode
    application,  \* NodeApplication with its proposed_trust_expiry, the acceptance of its responsible
                  \* people and the first time one of their terms ends
    challenge,    \* NodeChallenge
    certificates, \* NodeCertificate : 0 of the application, i of rotation i
    ends,         \* valid_until of each certificate
    contract,     \* NodeTrustContract
    limits,       \* NodeBilateralLimit
    bond,         \* the latest valid_until of a NodeBond
    incidents,    \* NodeSecurityIncident
    rotations,    \* NodeKeyRotationRequest
    epoch,        \* status of the OfflineEpoch
    forms,        \* status of each FederationPaperForm and its issuer
    exposure,     \* NodeExposure, current and reserved
    admitted      \* when the last federation.node_activated was written

times == <<now, ends, admitted>>
vars == <<times, node, application, challenge, certificates, contract, limits, bond, incidents, rotations,
          epoch, forms, exposure>>

Certificates == {0} \union Rotations
Users == Registrars \union Securities \union Auditors
\* Who may carry each responsibility once it is proposed
Reviewers == Registrars \union Securities \union Auditors
Times == 0 .. MaxTime
Ends == 1 .. MaxTime + 1

Init ==
    /\ now = 0 /\ node = "ABSENT" /\ admitted = 0
    /\ application = [status |-> "ABSENT", accepted |-> FALSE, creator |-> Nobody, verifier |-> Nobody,
                      audited |-> FALSE, expiry |-> 0, until |-> 0]
    /\ challenge = [status |-> "ABSENT", issuer |-> Nobody]
    /\ certificates = [c \in Certificates |-> "ABSENT"] /\ ends = [c \in Certificates |-> 0]
    /\ contract = [status |-> "ABSENT", proposer |-> Nobody, approver |-> Nobody, from |-> 0, until |-> 0]
    /\ limits = [l \in Limits |-> [status |-> "ABSENT", amount |-> 0, proposer |-> Nobody]]
    /\ bond = 0
    /\ incidents = [i \in Incidents |-> [status |-> "ABSENT", opener |-> Nobody, compromise |-> FALSE]]
    /\ rotations = [r \in Rotations |-> [status |-> "ABSENT", old |-> 0, requester |-> Nobody, compromise |-> FALSE]]
    /\ epoch = "ABSENT"
    /\ forms = [f \in Forms |-> [status |-> "ABSENT", issuer |-> Nobody]]
    /\ exposure = 0

Accepting == node \in {"LIMITED", "ACTIVE"}
KeyActive == \E c \in Certificates : certificates[c] = "ACTIVE" /\ now < ends[c]
\* _active_contract
InForce == contract.status = "ACTIVE" /\ now < contract.until
OpenIncident == \E i \in Incidents : incidents[i].status = "CONTAINED"
ActiveLimit == {l \in Limits : limits[l].status = "ACTIVE"}

\* The terms of contract, bond, people and keys run out by themselves; nothing else is told of it
TimePasses ==
    /\ now < MaxTime /\ now' = now + 1
    /\ UNCHANGED <<ends, admitted, node, application, challenge, certificates, contract, limits, bond, incidents, rotations, epoch,
                   forms, exposure>>

-----------------------------------------------------------------------------
\* The application of a node and its review
Stage(status) == node' = status /\ application' = [application EXCEPT !.status = status]

\* The people named are to serve at least as long as the trust applied for
CreateApplication(u, key, expiry, until) ==
    /\ u \in Registrars /\ node = "ABSENT"
    /\ now < key /\ key <= expiry /\ expiry <= until
    /\ node' = "DRAFT"
    /\ application' = [application EXCEPT !.status = "DRAFT", !.creator = u, !.expiry = expiry, !.until = until]
    /\ certificates' = [certificates EXCEPT ![0] = "PENDING"]
    /\ ends' = [ends EXCEPT ![0] = key]
    /\ UNCHANGED <<now, admitted, challenge, contract, limits, bond, incidents, rotations, epoch, forms, exposure>>

\* The last of the required people accepts; the term of another one may have ended since
AcceptResponsibility ==
    /\ application.status # "ABSENT" /\ ~application.accepted
    /\ application' = [application EXCEPT !.accepted = TRUE]
    /\ UNCHANGED <<times, node, challenge, certificates, contract, limits, bond, incidents, rotations, epoch, forms, exposure>>

SubmitApplication(u) ==
    /\ u \in Registrars /\ application.status = "DRAFT" /\ node = "DRAFT"
    /\ application.accepted /\ \E c \in Certificates : certificates[c] = "PENDING"
    /\ Stage("APPLICATION_SUBMITTED")
    /\ UNCHANGED <<times, challenge, certificates, contract, limits, bond, incidents, rotations, epoch, forms, exposure>>

\* The review asks only where the application stands: a node suspended meanwhile goes on
VerifyIdentity(u) ==
    /\ u \in Reviewers /\ application.status = "APPLICATION_SUBMITTED" /\ u # application.creator
    /\ node' = "IDENTITY_VERIFIED"
    /\ application' = [application EXCEPT !.status = "IDENTITY_VERIFIED", !.verifier = u]
    /\ UNCHANGED <<times, challenge, certificates, contract, limits, bond, incidents, rotations, epoch, forms, exposure>>

IssueChallenge(u) ==
    /\ u \in Securities /\ application.status = "IDENTITY_VERIFIED"
    /\ challenge.status # "ISSUED" /\ \E c \in Certificates : certificates[c] = "PENDING"
    /\ challenge' = [status |-> "ISSUED", issuer |-> u]
    /\ Stage("TECHNICAL_CHALLENGE")
    /\ UNCHANGED <<times, certificates, contract, limits, bond, incidents, rotations, epoch, forms, exposure>>

\* An answer within half an hour; a challenge that is not answered is never issued again
RecordChallengeResponse(u, c) ==
    /\ u \in Registrars \union Securities
    /\ challenge.status = "ISSUED" /\ application.status = "TECHNICAL_CHALLENGE"
    /\ c = 0 /\ certificates[c] = "PENDING"
    /\ challenge' = [challenge EXCEPT !.status = "PASSED"]
    /\ certificates' = [certificates EXCEPT ![c] = "ACTIVE"]
    /\ Stage("AUDIT_PENDING")
    /\ UNCHANGED <<times, contract, limits, bond, incidents, rotations, epoch, forms, exposure>>

DecideAudit(u, approve) ==
    /\ u \in Auditors /\ application.status = "AUDIT_PENDING" /\ ~application.audited
    /\ u \notin {application.creator, application.verifier, challenge.issuer}
    /\ IF approve
       THEN /\ application' = [application EXCEPT !.audited = TRUE]
            /\ UNCHANGED <<node, certificates>>
       ELSE /\ node' = "REJECTED"
            /\ application' = [application EXCEPT !.audited = TRUE, !.status = "REJECTED"]
            /\ certificates' = [c \in Certificates |->
                                   IF certificates[c] = "ACTIVE" THEN "REVOKED" ELSE certificates[c]]
    /\ UNCHANGED <<times, challenge, contract, limits, bond, incidents, rotations, epoch, forms, exposure>>

ProposeTrustContract(u, from, until) ==
    /\ u \in Registrars /\ application.status = "AUDIT_PENDING" /\ application.audited /\ node = "AUDIT_PENDING"
    /\ contract.status \notin {"DRAFT", "ACTIVE"} /\ from < until /\ until <= application.expiry
    /\ contract' = [status |-> "DRAFT", proposer |-> u, approver |-> Nobody, from |-> from, until |-> until]
    /\ UNCHANGED <<times, node, application, challenge, certificates, limits, bond, incidents, rotations, epoch, forms, exposure>>

ApproveTrustContract(u) ==
    /\ u \in Auditors /\ contract.status = "DRAFT" /\ u # contract.proposer
    /\ application.status = "AUDIT_PENDING" /\ node = "AUDIT_PENDING"
    /\ contract.from <= now /\ now < contract.until /\ KeyActive
    /\ contract' = [contract EXCEPT !.status = "ACTIVE", !.approver = u]
    /\ Stage("LIMITED")
    /\ UNCHANGED <<times, challenge, certificates, limits, bond, incidents, rotations, epoch, forms, exposure>>

-----------------------------------------------------------------------------
\* What the node may owe and what secures it
ProposeBilateralLimit(u, l, amount) ==
    /\ u \in Registrars /\ limits[l].status = "ABSENT"
    /\ Accepting /\ InForce /\ \A k \in Limits : limits[k].status # "DRAFT"
    /\ limits' = [limits EXCEPT ![l] = [status |-> "DRAFT", amount |-> amount, proposer |-> u]]
    /\ UNCHANGED <<times, node, application, challenge, certificates, contract, bond, incidents, rotations, epoch, forms, exposure>>

ApproveBilateralLimit(u, l) ==
    /\ u \in Auditors \union Securities /\ limits[l].status = "DRAFT" /\ u # limits[l].proposer
    /\ exposure <= limits[l].amount
    /\ limits' = [k \in Limits |->
                     IF k = l THEN [limits[k] EXCEPT !.status = "ACTIVE"]
                     ELSE IF k \in ActiveLimit THEN [limits[k] EXCEPT !.status = "RETIRED"] ELSE limits[k]]
    /\ UNCHANGED <<times, node, application, challenge, certificates, contract, bond, incidents, rotations, epoch, forms, exposure>>

\* A further bond may be registered at any time; the one that lasts longest counts
RegisterBond(u, until) ==
    /\ u \in Registrars \union Securities /\ Accepting
    /\ bond' = IF until > bond THEN until ELSE bond
    /\ UNCHANGED <<times, node, application, challenge, certificates, contract, limits, incidents, rotations, epoch, forms, exposure>>

ReserveExposure(u) ==
    /\ u \in Registrars \union Securities /\ Accepting
    /\ \E l \in ActiveLimit : exposure + 1 <= limits[l].amount
    /\ exposure' = exposure + 1
    /\ UNCHANGED <<times, node, application, challenge, certificates, contract, limits, bond, incidents, rotations, epoch, forms>>

\* What an admission rests on for a time only
Running == now < application.until /\ now < bond
\* Mutant: a node under investigation can be activated
SoundUninvestigated == application.accepted /\ ActiveLimit # {} /\ Running
\* Everything a full admission asks for
Sound == application.accepted /\ ActiveLimit # {} /\ Running /\ ~OpenIncident
ActivateNode(u) ==
    /\ u \in Registrars \union Auditors /\ node = "LIMITED"
    /\ InForce /\ u # contract.approver /\ Sound
    /\ Stage("ACTIVE")
    /\ admitted' = now
    /\ UNCHANGED <<now, challenge, certificates, ends, contract, limits, bond, incidents, rotations, epoch, forms, exposure>>

-----------------------------------------------------------------------------
\* Suspension, incidents and keys
Final == {"ABSENT", "REVOKED", "ARCHIVED", "REJECTED"}
ChangeNodeStatus(u, status) ==
    /\ u \in Securities \union Registrars /\ node \notin Final
    /\ node' = status
    /\ certificates' = [c \in Certificates |->
                           IF status # "SUSPENDED" /\ certificates[c] \in {"ACTIVE", "PENDING"}
                           THEN IF status = "REVOKED" THEN "REVOKED" ELSE "SUSPENDED"
                           ELSE certificates[c]]
    /\ UNCHANGED <<times, application, challenge, contract, limits, bond, incidents, rotations, epoch, forms, exposure>>

OpenNodeIncident(u, i, compromise) ==
    /\ u \in Securities /\ incidents[i].status = "ABSENT" /\ node \notin Final
    /\ incidents' = [incidents EXCEPT ![i] = [status |-> "CONTAINED", opener |-> u, compromise |-> compromise]]
    /\ node' = "QUARANTINED"
    /\ certificates' = [c \in Certificates |->
                           IF certificates[c] = "ACTIVE"
                           THEN IF compromise THEN "COMPROMISED" ELSE "SUSPENDED" ELSE certificates[c]]
    /\ UNCHANGED <<times, application, challenge, contract, limits, bond, rotations, epoch, forms, exposure>>

ResolveIncident(u, i) ==
    /\ u \in Auditors /\ incidents[i].status = "CONTAINED" /\ u # incidents[i].opener
    /\ incidents' = [incidents EXCEPT ![i].status = "RESOLVED"]
    /\ UNCHANGED <<times, node, application, challenge, certificates, contract, limits, bond, rotations, epoch, forms, exposure>>

\* The key being replaced: the newest that was ever in force
Replaceable == {c \in Certificates : certificates[c] \in {"ACTIVE", "SUSPENDED", "COMPROMISED"}}
Newest(keys) == CHOOSE c \in keys : \A d \in keys : d <= c
\* A compromised key is replaced under an incident that says so, any other with a signature of the old key
RequestKeyRotation(u, r, compromise, until) ==
    /\ u \in Securities /\ rotations[r].status = "ABSENT" /\ \A q \in Rotations : q < r => rotations[q].status # "ABSENT"
    /\ Replaceable # {} /\ now < until
    /\ compromise => \E i \in Incidents : incidents[i].status = "CONTAINED" /\ incidents[i].compromise
    /\ rotations' = [rotations EXCEPT ![r] = [status |-> "PENDING", old |-> Newest(Replaceable), requester |-> u,
                                              compromise |-> compromise]]
    /\ certificates' = [certificates EXCEPT ![r] = "PENDING"]
    /\ ends' = [ends EXCEPT ![r] = until]
    /\ UNCHANGED <<now, admitted, node, application, challenge, contract, limits, bond, incidents, epoch, forms, exposure>>

\* The database refuses a second active certificate
OneActive == Cardinality({c \in Certificates : certificates'[c] = "ACTIVE"}) <= 1
Replaced(r) == IF rotations[r].compromise THEN "COMPROMISED" ELSE "RETIRED"
ApproveKeyRotation(u, r, approve) ==
    /\ u \in Auditors \union Registrars /\ rotations[r].status = "PENDING" /\ u # rotations[r].requester
    /\ rotations' = [rotations EXCEPT ![r].status = IF approve THEN "APPROVED" ELSE "REJECTED"]
    /\ certificates' = IF approve THEN [certificates EXCEPT ![rotations[r].old] = Replaced(r), ![r] = "ACTIVE"]
                       ELSE [certificates EXCEPT ![r] = "REVOKED"]
    /\ OneActive
    /\ UNCHANGED <<times, node, application, challenge, contract, limits, bond, incidents, epoch, forms, exposure>>

Suspended == {c \in Certificates : certificates[c] = "SUSPENDED" /\ now < ends[c]}
\* The newest suspended key comes back when none is active, be it of a rotation not yet decided
Restored == IF KeyActive THEN certificates ELSE [certificates EXCEPT ![Newest(Suspended)] = "ACTIVE"]
RehabilitateNode(u) ==
    /\ u \in Auditors /\ node = "QUARANTINED" /\ ~OpenIncident
    /\ KeyActive \/ Suspended # {}
    /\ certificates' = Restored /\ OneActive
    /\ node' = "LIMITED"
    /\ UNCHANGED <<times, application, challenge, contract, limits, bond, incidents, rotations, epoch, forms, exposure>>

-----------------------------------------------------------------------------
\* Offline epochs and the paper forms used in them
OpenOfflineEpoch(u) ==
    /\ u \in Registrars \union Securities /\ Accepting /\ InForce /\ epoch # "OPEN"
    /\ epoch' = "OPEN"
    /\ UNCHANGED <<times, node, application, challenge, certificates, contract, limits, bond, incidents, rotations, forms, exposure>>

Reconciled == \A f \in Forms : forms[f].status # "ISSUED"
CloseOfflineEpoch(u) ==
    /\ u \in Auditors \union Registrars /\ epoch = "OPEN" /\ Reconciled
    /\ epoch' = "CLOSED"
    /\ UNCHANGED <<times, node, application, challenge, certificates, contract, limits, bond, incidents, rotations, forms, exposure>>

IssueForm(u, f) ==
    /\ u \in Registrars /\ forms[f].status = "ABSENT" /\ epoch = "OPEN" /\ Accepting
    /\ forms' = [forms EXCEPT ![f] = [status |-> "ISSUED", issuer |-> u]]
    /\ UNCHANGED <<times, node, application, challenge, certificates, contract, limits, bond, incidents, rotations, epoch, exposure>>

\* Recorded before it expires, or voided at any time, by another person while the epoch is open
SettleForm(u, f, status) ==
    /\ u \in (IF status = "RECORDED" THEN Auditors \union Securities ELSE Auditors \union Registrars)
    /\ forms[f].status = "ISSUED" /\ u # forms[f].issuer /\ epoch = "OPEN"
    /\ forms' = [forms EXCEPT ![f].status = status]
    /\ UNCHANGED <<times, node, application, challenge, certificates, contract, limits, bond, incidents, rotations, epoch, exposure>>

Next ==
    \/ TimePasses
    \/ \E u \in Users :
       \/ \E key, expiry, until \in Ends : CreateApplication(u, key, expiry, until)
       \/ AcceptResponsibility \/ SubmitApplication(u) \/ VerifyIdentity(u)
       \/ IssueChallenge(u) \/ RecordChallengeResponse(u, 0) \/ ApproveTrustContract(u)
       \/ \E approve \in BOOLEAN : DecideAudit(u, approve)
       \/ \E from \in Times, until \in Ends : ProposeTrustContract(u, from, until)
       \/ \E l \in Limits, amount \in 1 .. MaxExposure : ProposeBilateralLimit(u, l, amount)
       \/ \E l \in Limits : ApproveBilateralLimit(u, l)
       \/ \E until \in Ends : RegisterBond(u, until)
       \/ ReserveExposure(u) \/ ActivateNode(u) \/ RehabilitateNode(u)
       \/ \E status \in {"SUSPENDED", "QUARANTINED", "REVOKED"} : ChangeNodeStatus(u, status)
       \/ \E i \in Incidents, compromise \in BOOLEAN : OpenNodeIncident(u, i, compromise)
       \/ \E i \in Incidents : ResolveIncident(u, i)
       \/ \E r \in Rotations, compromise \in BOOLEAN, until \in Ends : RequestKeyRotation(u, r, compromise, until)
       \/ \E r \in Rotations, approve \in BOOLEAN : ApproveKeyRotation(u, r, approve)
       \/ OpenOfflineEpoch(u) \/ CloseOfflineEpoch(u)
       \/ \E f \in Forms : IssueForm(u, f)
       \/ \E f \in Forms, status \in {"RECORDED", "VOID"} : SettleForm(u, f, status)

Spec == Init /\ [][Next]_vars

-----------------------------------------------------------------------------
NodeStatus == {"ABSENT", "DRAFT", "APPLICATION_SUBMITTED", "IDENTITY_VERIFIED", "TECHNICAL_CHALLENGE",
               "AUDIT_PENDING", "LIMITED", "ACTIVE", "SUSPENDED", "QUARANTINED", "REVOKED", "REJECTED"}
TypeOK ==
    /\ node \in NodeStatus /\ application.status \in NodeStatus
    /\ challenge.status \in {"ABSENT", "ISSUED", "PASSED"}
    /\ certificates \in [Certificates -> {"ABSENT", "PENDING", "ACTIVE", "SUSPENDED", "RETIRED", "REVOKED", "COMPROMISED"}]
    /\ contract.status \in {"ABSENT", "DRAFT", "ACTIVE"}
    /\ \A l \in Limits : limits[l].status \in {"ABSENT", "DRAFT", "ACTIVE", "RETIRED"}
    /\ \A i \in Incidents : incidents[i].status \in {"ABSENT", "CONTAINED", "RESOLVED"}
    /\ \A r \in Rotations : rotations[r].status \in {"ABSENT", "PENDING", "APPROVED", "REJECTED"}
    /\ epoch \in {"ABSENT", "OPEN", "CLOSED"}
    /\ \A f \in Forms : forms[f].status \in {"ABSENT", "ISSUED", "RECORDED", "VOID"}
    /\ exposure \in 0 .. MaxExposure
    /\ now \in Times /\ admitted \in Times
    /\ {bond, application.expiry, application.until, contract.until} \union {ends[c] : c \in Certificates} \subseteq Ends \union {0}

\* A fully admitted node is under contract, limited, bonded and free of open incidents, although
\* suspensions, incidents and the review of its application move its status independently. Its contract,
\* its bond and its named people were all in force when it was admitted: only time has ended them since,
\* and as long as the contract runs, so do the terms of the people named.
AdmittedOnGrounds ==
    node = "ACTIVE" =>
        /\ contract.status = "ACTIVE" /\ application.accepted /\ ActiveLimit # {}
        /\ \A i \in Incidents : incidents[i].status # "CONTAINED"
        /\ admitted <= now /\ admitted < bond
        /\ admitted < contract.until /\ contract.until <= application.until

\* Every paper form of an epoch is accounted for when the epoch closes, and stays so.
EpochReconciled == epoch = "CLOSED" => \A f \in Forms : forms[f].status # "ISSUED"

\* What a node's admission rests on, and what its closed epochs account for
NodeAccountable == AdmittedOnGrounds /\ EpochReconciled
=============================================================================

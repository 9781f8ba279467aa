---------------------------- MODULE Responsibility ----------------------------
(***************************************************************************)
(* Assignments of the responsibility for a warehouse to a member: proposed *)
(* by one, approved by another, accepted by the member in person.          *)
(***************************************************************************)
EXTENDS FiniteSetsExt, Integers

CONSTANTS
    Members,
    Proposers,      \* PROPOSER_ROLES
    Approvers,      \* APPROVER_ROLES
    Custodians,     \* members with the role of a warehouse custodian
    Warehouses,
    Nobody, Nowhere,
    Assignments,
    Termed          \* assignments with a valid_until

VARIABLES
    standing,       \* identity: whether a member can act, was found dead or incapable, or lost the role
    assignments     \* risk.responsibility_assignments

rvars == <<standing, assignments>>

Anyone == Members \union {Nobody}
NoAssignment == [status |-> "ABSENT", holder |-> Nobody, warehouse |-> Nowhere,
                 creator |-> Nobody, expired |-> FALSE]

\* The instances start with some assignments in force
RInit(inForce) ==
    /\ standing = [m \in Members |-> "ACTIVE"]
    /\ assignments = inForce

Works(m) == standing[m] = "ACTIVE"
InForce(a) ==
    /\ assignments[a].status = "ACTIVE" /\ ~assignments[a].expired
    /\ assignments[a].holder \in Custodians /\ Works(assignments[a].holder)
\* uq_responsibility_open_subject_person_scope
Responsible(m, w) ==
    \E a \in Assignments :
        /\ assignments[a].holder = m /\ assignments[a].warehouse = w
        /\ assignments[a].status \in {"PENDING_APPROVAL", "PENDING_ACCEPTANCE", "ACTIVE"}

Propose(a, m, w, p) ==
    /\ assignments[a].status = "ABSENT" /\ p \in Proposers
    /\ m \in Custodians /\ Works(m) /\ ~Responsible(m, w)
    /\ assignments' = [assignments EXCEPT ![a] = [status |-> "PENDING_APPROVAL", holder |-> m,
                          warehouse |-> w, creator |-> p, expired |-> FALSE]]
    /\ UNCHANGED standing

DecideAssignment(a, p, approve) ==
    /\ assignments[a].status = "PENDING_APPROVAL"
    /\ p \in Approvers \ {assignments[a].creator, assignments[a].holder}
    /\ assignments' = [assignments EXCEPT ![a].status = IF approve THEN "PENDING_ACCEPTANCE" ELSE "REJECTED"]
    /\ UNCHANGED standing

\* accept by the holder in person, whatever the assignment was proposed for
AcceptAssignment(a) ==
    /\ assignments[a].status = "PENDING_ACCEPTANCE" /\ Works(assignments[a].holder)
    /\ assignments' = [assignments EXCEPT ![a].status = "ACTIVE"]
    /\ UNCHANGED standing

\* valid_until passes; whether it had passed before the acceptance, nobody asks
TermEnds(a) ==
    /\ a \in Termed /\ assignments[a].status = "ACTIVE" /\ ~assignments[a].expired
    /\ assignments' = [assignments EXCEPT ![a].expired = TRUE]
    /\ UNCHANGED standing

\* A member is lost, to a confirmed continuity case or with his role
Lose(m, how) ==
    /\ Works(m)
    /\ standing' = [standing EXCEPT ![m] = how]
    /\ UNCHANGED assignments

RNext ==
    \/ \E a \in Assignments, p \in Members :
          \/ \E m \in Members, w \in Warehouses : Propose(a, m, w, p)
          \/ \E approve \in BOOLEAN : DecideAssignment(a, p, approve)
    \/ \E a \in Assignments : AcceptAssignment(a) \/ TermEnds(a)
    \/ \E m \in Custodians, how \in {"SUCCESSION_REVIEW", "REVOKED"} : Lose(m, how)

RTypeOK ==
    /\ standing \in [Members -> {"ACTIVE", "SUCCESSION_REVIEW", "REVOKED"}]
    /\ assignments \in [Assignments -> [status : {"ABSENT", "PENDING_APPROVAL", "PENDING_ACCEPTANCE", "ACTIVE",
                                                   "REJECTED", "RELEASED"},
                                        holder : Anyone, warehouse : Warehouses \union {Nowhere},
                                        creator : Anyone, expired : BOOLEAN]]
=============================================================================

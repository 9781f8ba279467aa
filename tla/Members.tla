------------------------------- MODULE Members -------------------------------
(***************************************************************************)
(* The register of members: their statuses, memberships and accounts, the    *)
(* merge of two records of one person, and the containment of a member who   *)
(* leaves, dies or is incapacitated.                                         *)
(***************************************************************************)
EXTENDS Integers, FiniteSets

CONSTANTS
    People, Memberships, Accounts, Merges, Cases,
    Cooperatives,
    FirstStatus,      \* status of each member at the start
    Registrars, Reviewers,
    Nobody,
    MaxVersion        \* bound on the version of a row

VARIABLES member, membership, account, merge, case

vars == <<member, membership, account, merge, case>>

Init ==
    /\ member = [m \in People |-> [status |-> FirstStatus[m], version |-> 1, into |-> Nobody]]
    /\ membership = [k \in Memberships |-> [status |-> "ABSENT", member |-> Nobody, cooperative |-> Nobody, version |-> 1]]
    /\ account = [u \in Accounts |-> [status |-> "ABSENT", member |-> Nobody, version |-> 1]]
    /\ merge = [g \in Merges |-> [status |-> "ABSENT", source |-> Nobody, survivor |-> Nobody, requester |-> Nobody,
                                  sourceVersion |-> 0, survivorVersion |-> 0, lapsed |-> FALSE]]
    /\ case = [c \in Cases |-> [status |-> "ABSENT", member |-> Nobody, kind |-> Nobody, requester |-> Nobody,
                                previous |-> Nobody, version |-> 0, users |-> {}, memberships |-> {}]]

Up(row, status) == [row EXCEPT !.status = status, !.version = @ + 1]
MemberTransitions ==
    { <<"APPLICANT", "PENDING_VERIFICATION">>, <<"APPLICANT", "REJECTED">>, <<"PENDING_VERIFICATION", "LIMITED">>,
      <<"PENDING_VERIFICATION", "ACTIVE">>, <<"PENDING_VERIFICATION", "REJECTED">>, <<"LIMITED", "ACTIVE">>,
      <<"LIMITED", "SUSPENDED">>, <<"ACTIVE", "SUSPENDED">>, <<"SUSPENDED", "ACTIVE">> }
MembershipTransitions ==
    { <<"PENDING", "ACTIVE">>, <<"PENDING", "SUSPENDED">>, <<"PENDING", "ENDED">>, <<"ACTIVE", "SUSPENDED">>,
      <<"ACTIVE", "ENDED">>, <<"SUSPENDED", "ACTIVE">>, <<"SUSPENDED", "ENDED">> }
AccountsOf(m) == {u \in Accounts : account[u].status # "ABSENT" /\ account[u].member = m}
MembershipsOf(m) == {k \in Memberships : membership[k].status # "ABSENT" /\ membership[k].member = m}
WithStatus(rows, table, status) == {x \in rows : table[x].status = status}
Moved(rows, table, status) == [x \in DOMAIN table |-> IF x \in rows THEN Up(table[x], status) ELSE table[x]]

-----------------------------------------------------------------------------
TransitionMember(m, target) ==
    /\ <<member[m].status, target>> \in MemberTransitions /\ member[m].version < MaxVersion
    /\ member' = [member EXCEPT ![m] = Up(member[m], target)]
    /\ IF target = "SUSPENDED"
       THEN /\ account' = Moved(WithStatus(AccountsOf(m), account, "ACTIVE"), account, "DISABLED")
            /\ membership' = Moved(WithStatus(MembershipsOf(m), membership, "ACTIVE"), membership, "SUSPENDED")
       ELSE UNCHANGED <<account, membership>>
    /\ UNCHANGED <<merge, case>>

\* One membership of a member in a cooperative; a repeated number is left out
CreateMembership(k, m, coop) ==
    /\ membership[k].status = "ABSENT" /\ \A o \in MembershipsOf(m) : membership[o].cooperative # coop
    /\ membership' = [membership EXCEPT ![k] = [status |-> IF member[m].status = "ACTIVE" THEN "ACTIVE" ELSE "PENDING",
                                                member |-> m, cooperative |-> coop, version |-> 1]]
    /\ UNCHANGED <<member, account, merge, case>>

Allowed(k, target) ==
    /\ <<membership[k].status, target>> \in MembershipTransitions
    /\ target = "ACTIVE" => member[membership[k].member].status = "ACTIVE"
TransitionMembership(k, target) ==
    /\ Allowed(k, target) /\ membership[k].version < MaxVersion
    /\ membership' = [membership EXCEPT ![k] = Up(membership[k], target)]
    /\ UNCHANGED <<member, account, merge, case>>

CreateUser(u, m) ==
    /\ account[u].status = "ABSENT" /\ member[m].status = "ACTIVE" /\ AccountsOf(m) = {}
    /\ account' = [account EXCEPT ![u] = [status |-> "ACTIVE", member |-> m, version |-> 1]]
    /\ UNCHANGED <<member, membership, merge, case>>
TransitionUser(u, target) ==
    /\ account[u].status \in {"ACTIVE", "DISABLED"} \ {target} /\ account[u].version < MaxVersion
    /\ target = "ACTIVE" => member[account[u].member].status = "ACTIVE"
    /\ account' = [account EXCEPT ![u] = Up(account[u], target)]
    /\ UNCHANGED <<member, membership, merge, case>>
\* An approved recovery brings an account back without a look at its member
RecoverAccount(u) ==
    /\ account[u].status # "ABSENT" /\ account[u].version < MaxVersion
    /\ account' = [account EXCEPT ![u] = Up(account[u], "ACTIVE")]
    /\ UNCHANGED <<member, membership, merge, case>>

-----------------------------------------------------------------------------
\* Merging a duplicate record, the source, into the survivor
Ineligible == {"MERGED", "REJECTED", "EXITED", "EXIT_PENDING", "DECEASED_OR_INCAPACITATED", "SUCCESSION_REVIEW", "CLOSED"}
\* Rows elsewhere that name the member: a continuity case, and a member merged into it
Referenced(m) == (\E c \in Cases : case[c].member = m) \/ (\E o \in People : member[o].into = m)
Conflicts(source, survivor) ==
    \/ AccountsOf(source) # {} /\ AccountsOf(survivor) # {}
    \/ \E k \in MembershipsOf(source), o \in MembershipsOf(survivor) : membership[k].cooperative = membership[o].cooperative
\* Mutant: only what the merge moves can stand in its way
BlockersMoved(source, survivor) == Conflicts(source, survivor)
Blockers(source, survivor) == Referenced(source) \/ Conflicts(source, survivor)
LapsedFor(source) == {g \in Merges : merge[g].status = "PENDING_REVIEW" /\ merge[g].source = source}

RequestMerge(g, source, survivor, u) ==
    /\ merge[g].status = "ABSENT" /\ source # survivor
    /\ member[source].status \notin Ineligible /\ member[survivor].status \notin Ineligible
    /\ \A p \in LapsedFor(source) : merge[p].lapsed
    /\ merge' = [p \in Merges |->
          IF p = g THEN [status |-> IF Blockers(source, survivor) THEN "BLOCKED" ELSE "PENDING_REVIEW",
                         source |-> source, survivor |-> survivor, requester |-> u, lapsed |-> FALSE,
                         sourceVersion |-> member[source].version, survivorVersion |-> member[survivor].version]
          ELSE IF p \in LapsedFor(source) THEN [merge[p] EXCEPT !.status = "EXPIRED"] ELSE merge[p]]
    /\ UNCHANGED <<member, membership, account, case>>

ApplyMerge(source, survivor) ==
    /\ member' = [member EXCEPT ![source] = [Up(member[source], "MERGED") EXCEPT !.into = survivor],
                                ![survivor].version = @ + 1]
    /\ membership' = [k \in Memberships |-> IF k \in MembershipsOf(source)
          THEN [membership[k] EXCEPT !.member = survivor, !.version = @ + 1] ELSE membership[k]]
    /\ account' = [u \in Accounts |-> IF u \in AccountsOf(source)
          THEN [account[u] EXCEPT !.member = survivor, !.version = @ + 1] ELSE account[u]]

MergeChanged(g) ==
    LET s == member[merge[g].source]  v == member[merge[g].survivor] IN
    \/ s.version # merge[g].sourceVersion \/ v.version # merge[g].survivorVersion
    \/ s.status \in Ineligible \/ v.status \in Ineligible

DecideMerge(g, u, approve) ==
    LET blocked == MergeChanged(g) \/ Blockers(merge[g].source, merge[g].survivor) IN
    /\ merge[g].status = "PENDING_REVIEW" /\ u # merge[g].requester
    /\ merge' = [merge EXCEPT ![g].status = IF merge[g].lapsed THEN "EXPIRED" ELSE IF ~approve THEN "REJECTED"
                                            ELSE IF blocked THEN "BLOCKED" ELSE "APPROVED"]
    /\ IF approve /\ ~merge[g].lapsed /\ ~blocked THEN ApplyMerge(merge[g].source, merge[g].survivor)
       ELSE UNCHANGED <<member, membership, account>>
    /\ UNCHANGED case

LapseMerge(g) ==
    /\ merge[g].status = "PENDING_REVIEW" /\ ~merge[g].lapsed
    /\ merge' = [merge EXCEPT ![g].lapsed = TRUE]
    /\ UNCHANGED <<member, membership, account, case>>

-----------------------------------------------------------------------------
\* Containing a member
Kinds == {"VOLUNTARY_EXIT", "DEATH_OR_INCAPACITY"}
ContainedStatus(kind) == IF kind = "VOLUNTARY_EXIT" THEN "EXIT_PENDING" ELSE "DECEASED_OR_INCAPACITATED"

\* late: memberships made active by a command that read the member before it was contained and is
\* committed after, so that they are not among the contained ones
RequestCase(c, m, kind, u, late) ==
    LET users == WithStatus(AccountsOf(m), account, "ACTIVE")
        kept == WithStatus(MembershipsOf(m), membership, "ACTIVE") IN
    /\ case[c].status = "ABSENT" /\ member[m].status \in {"ACTIVE", "LIMITED", "SUSPENDED"}
    /\ \A o \in Cases : case[o].member = m => case[o].status # "PENDING_REVIEW"
    /\ late \subseteq MembershipsOf(m) \ kept /\ \A k \in late : Allowed(k, "ACTIVE")
    /\ member' = [member EXCEPT ![m] = Up(member[m], ContainedStatus(kind))]
    /\ account' = Moved(users, account, "DISABLED")
    /\ membership' = Moved(kept, Moved(late, membership, "ACTIVE"), "SUSPENDED")
    /\ case' = [case EXCEPT ![c] = [status |-> "PENDING_REVIEW", member |-> m, kind |-> kind, requester |-> u,
                                    previous |-> member[m].status, version |-> member[m].version + 1,
                                    users |-> {<<x, account[x].version + 1>> : x \in users},
                                    memberships |-> {<<x, membership[x].version + 1>> : x \in kept}]]
    /\ UNCHANGED merge

RecordBlockers(snapshot, table, status) == \E x \in snapshot : table[x[1]].version # x[2] \/ table[x[1]].status # status
StateBlockers(c) ==
    LET m == member[case[c].member] IN
    \/ m.version # case[c].version \/ m.status # ContainedStatus(case[c].kind)
    \/ RecordBlockers(case[c].users, account, "DISABLED")
    \/ RecordBlockers(case[c].memberships, membership, "SUSPENDED")
Ids(snapshot) == {x[1] : x \in snapshot}

DecideCase(c, u, approve) ==
    LET m == case[c].member
        status == IF StateBlockers(c) THEN "BLOCKED" ELSE IF approve THEN "CONFIRMED" ELSE "REJECTED" IN
    /\ case[c].status = "PENDING_REVIEW" /\ u # case[c].requester
    /\ case' = [case EXCEPT ![c].status = status]
    /\ member' = CASE status = "BLOCKED" -> member
                   [] status = "CONFIRMED" -> [member EXCEPT ![m] = Up(member[m],
                         IF case[c].kind = "VOLUNTARY_EXIT" THEN "EXIT_PENDING" ELSE "SUCCESSION_REVIEW")]
                   [] OTHER -> [member EXCEPT ![m] = Up(member[m], case[c].previous)]
    /\ IF status = "REJECTED"
       THEN /\ account' = Moved(Ids(case[c].users), account, "ACTIVE")
            /\ membership' = Moved(Ids(case[c].memberships), membership, "ACTIVE")
       ELSE UNCHANGED <<account, membership>>
    /\ UNCHANGED merge

Next ==
    \/ \E m \in People, target \in {"PENDING_VERIFICATION", "LIMITED", "ACTIVE", "SUSPENDED", "REJECTED"} : TransitionMember(m, target)
    \/ \E k \in Memberships : \/ \E m \in People, coop \in Cooperatives : CreateMembership(k, m, coop)
                              \/ \E target \in {"ACTIVE", "SUSPENDED", "ENDED"} : TransitionMembership(k, target)
    \/ \E u \in Accounts : \/ \E m \in People : CreateUser(u, m)
                           \/ \E target \in {"ACTIVE", "DISABLED"} : TransitionUser(u, target)
                           \/ RecoverAccount(u)
    \/ \E g \in Merges : \/ \E source, survivor \in People, u \in Registrars : RequestMerge(g, source, survivor, u)
                         \/ \E u \in Reviewers, approve \in BOOLEAN : DecideMerge(g, u, approve)
                         \/ LapseMerge(g)
    \/ \E c \in Cases : \/ \E m \in People, kind \in Kinds, u \in Registrars, late \in SUBSET Memberships : RequestCase(c, m, kind, u, late)
                        \/ \E u \in Reviewers, approve \in BOOLEAN : DecideCase(c, u, approve)

Spec == Init /\ [][Next]_vars

-----------------------------------------------------------------------------
TypeOK ==
    /\ \A m \in People : member[m].status \in Ineligible \cup
          {"APPLICANT", "PENDING_VERIFICATION", "LIMITED", "ACTIVE", "SUSPENDED"}
    /\ \A k \in Memberships : membership[k].status \in {"ABSENT", "PENDING", "ACTIVE", "SUSPENDED", "ENDED"}
    /\ \A u \in Accounts : account[u].status \in {"ABSENT", "ACTIVE", "DISABLED"}
    /\ \A g \in Merges : merge[g].status \in {"ABSENT", "PENDING_REVIEW", "BLOCKED", "EXPIRED", "REJECTED", "APPROVED"}
    /\ \A c \in Cases : case[c].status \in {"ABSENT", "PENDING_REVIEW", "BLOCKED", "CONFIRMED", "REJECTED"}

\* While a case waits for its review, nothing gives the contained member back what the case took: the
\* member keeps the contained status and the memberships of its snapshot stay with it and out of force.
Contained ==
    \A c \in Cases : case[c].status = "PENDING_REVIEW" =>
        /\ member[case[c].member].status = ContainedStatus(case[c].kind)
        /\ \A k \in Ids(case[c].memberships) : membership[k].member = case[c].member /\ membership[k].status \in {"SUSPENDED", "ENDED"}

\* A merged record leads to its survivor in one step: the survivor is never merged itself.
NoMergeChains == \A m \in People : member[m].status = "MERGED" => member[member[m].into].status # "MERGED"

\* Neither a review in progress nor a merge loses hold of a person
PersonsKept == Contained /\ NoMergeChains
=============================================================================

------------------------------ MODULE Accounts ------------------------------
(***************************************************************************)
(* One person's account: its sessions, second factors and step-up, its      *)
(* recovery by two officers, emergency grants and ordinary roles, and the    *)
(* suspension of the account or of the member behind it.                     *)
(***************************************************************************)
EXTENDS Integers, FiniteSets

CONSTANTS
    Sessions, Factors,
    Officers,        \* people with permanent security roles, none of them the account's owner
    Grantors,        \* those of them who ask for emergency grants and assign roles
    Nobody,
    MaxFailures,     \* wrong answers before a lock
    MaxPasswords     \* bound on the passwords the account ever has

VARIABLES
    member,      \* status of the Member
    account,     \* UserAccount
    sessions,    \* AuthSession, with the password it was opened under
    factors,     \* AuthenticationFactor
    recovery,    \* AccountRecoveryRequest
    grant,       \* BreakGlassGrant and the status of its RoleAssignment
    role         \* an ordinary RoleAssignment of a privileged role

vars == <<member, account, sessions, factors, recovery, grant, role>>

Init ==
    /\ member = "ACTIVE"
    /\ account = [status |-> "ACTIVE", password |-> 0, temporary |-> TRUE, failures |-> 0, locked |-> FALSE]
    /\ sessions = [s \in Sessions |-> [status |-> "ABSENT", password |-> 0, stepped |-> FALSE]]
    /\ factors = [f \in Factors |-> [status |-> "ABSENT", failures |-> 0, locked |-> FALSE]]
    /\ recovery = [status |-> "ABSENT", requester |-> Nobody]
    /\ grant = [status |-> "ABSENT", requester |-> Nobody, authority |-> "ABSENT", lapsed |-> FALSE]
    /\ role = [status |-> "ABSENT", granter |-> Nobody]

Usable(s) == sessions[s].status = "ACTIVE" /\ account.status = "ACTIVE" /\ member = "ACTIVE"
Revoked == [s \in Sessions |-> IF sessions[s].status = "ACTIVE" THEN [sessions[s] EXCEPT !.status = "REVOKED"]
                               ELSE sessions[s]]
Open(password) == [status |-> "ACTIVE", password |-> password, stepped |-> FALSE]
Counted(row) ==
    IF row.failures + 1 >= MaxFailures THEN [row EXCEPT !.failures = 0, !.locked = TRUE]
    ELSE [row EXCEPT !.failures = @ + 1]

-----------------------------------------------------------------------------
\* Signing in and out
Login(s) ==
    /\ sessions[s].status = "ABSENT" /\ account.status = "ACTIVE" /\ member = "ACTIVE" /\ ~account.locked
    /\ sessions' = [sessions EXCEPT ![s] = Open(account.password)]
    /\ account' = [account EXCEPT !.failures = 0]
    /\ UNCHANGED <<member, factors, recovery, grant, role>>

LoginFailed ==
    /\ account.status = "ACTIVE" /\ member = "ACTIVE"
    /\ account' = Counted(account)
    /\ UNCHANGED <<member, sessions, factors, recovery, grant, role>>

Logout(s) ==
    /\ Usable(s)
    /\ sessions' = [sessions EXCEPT ![s].status = "REVOKED"]
    /\ UNCHANGED <<member, account, factors, recovery, grant, role>>

RevokeSession(s) ==
    /\ sessions[s].status = "ACTIVE"
    /\ sessions' = [sessions EXCEPT ![s].status = "REVOKED"]
    /\ UNCHANGED <<member, account, factors, recovery, grant, role>>

\* Mutant: the session that changes the password keeps the one it was opened under
OwnKept(s) == [Revoked EXCEPT ![s] = sessions[s]]
Closed(s) == Revoked
ChangePassword(s, new) ==
    /\ Usable(s) /\ sessions[new].status = "ABSENT" /\ account.password < MaxPasswords
    /\ account' = [account EXCEPT !.password = @ + 1, !.temporary = FALSE]
    /\ sessions' = [Closed(s) EXCEPT ![new] = Open(account.password + 1)]
    /\ UNCHANGED <<member, factors, recovery, grant, role>>

\* The locks of an account and of a factor end with time
Unlock(f) ==
    /\ account' = [account EXCEPT !.locked = FALSE]
    /\ factors' = [factors EXCEPT ![f].locked = FALSE]
    /\ UNCHANGED <<member, sessions, recovery, grant, role>>

-----------------------------------------------------------------------------
\* Suspension
TransitionUser(status) ==
    /\ account.status # status /\ (status = "ACTIVE" => member = "ACTIVE")
    /\ account' = IF status = "ACTIVE" THEN [account EXCEPT !.status = status, !.failures = 0, !.locked = FALSE]
                  ELSE [account EXCEPT !.status = status]
    /\ sessions' = IF status = "DISABLED" THEN Revoked ELSE sessions
    /\ UNCHANGED <<member, factors, recovery, grant, role>>

\* Sessions are revoked before the accounts are locked, so that a sign-in that is being committed is
\* not among them: late holds its session
SuspendMember(late) ==
    /\ member = "ACTIVE"
    /\ \A s \in late : sessions[s].status = "ABSENT" /\ account.status = "ACTIVE" /\ ~account.locked
    /\ member' = "SUSPENDED"
    /\ sessions' = [s \in Sessions |-> IF s \in late THEN Open(account.password) ELSE Revoked[s]]
    /\ account' = [account EXCEPT !.status = "DISABLED"]
    /\ UNCHANGED <<factors, recovery, grant, role>>

ReinstateMember ==
    /\ member = "SUSPENDED" /\ member' = "ACTIVE"
    /\ UNCHANGED <<account, sessions, factors, recovery, grant, role>>

-----------------------------------------------------------------------------
\* Second factors
With(status) == {f \in Factors : factors[f].status = status}
\* A right code ends the failures, a wrong one is counted; the code itself is left out
Rejected(f) == [factors EXCEPT ![f] = Counted(factors[f])]

BeginTotpEnrollment(s, f) ==
    /\ Usable(s) /\ factors[f].status = "ABSENT" /\ \A g \in With("ACTIVE") : ~factors[g].locked
    /\ factors' = [g \in Factors |->
          IF g = f THEN [status |-> "PENDING", failures |-> 0, locked |-> FALSE]
          ELSE IF factors[g].status = "PENDING" THEN [factors[g] EXCEPT !.status = "DISABLED"] ELSE factors[g]]
    /\ UNCHANGED <<member, account, sessions, recovery, grant, role>>

ConfirmTotpEnrollment(s, f, lapsed) ==
    /\ Usable(s) /\ factors[f].status = "PENDING"
    /\ IF lapsed
       THEN factors' = [factors EXCEPT ![f].status = "DISABLED"] /\ UNCHANGED sessions
       ELSE /\ ~factors[f].locked
            /\ factors' = [g \in Factors |->
                  IF g = f THEN [factors[g] EXCEPT !.status = "ACTIVE", !.failures = 0]
                  ELSE IF factors[g].status = "ACTIVE" THEN [factors[g] EXCEPT !.status = "DISABLED"] ELSE factors[g]]
            /\ sessions' = [sessions EXCEPT ![s].stepped = TRUE]
    /\ UNCHANGED <<member, account, recovery, grant, role>>

VerifyStepUp(s, f) ==
    /\ Usable(s) /\ factors[f].status = "ACTIVE" /\ ~factors[f].locked
    /\ factors' = [factors EXCEPT ![f].failures = 0]
    /\ sessions' = [sessions EXCEPT ![s].stepped = TRUE]
    /\ UNCHANGED <<member, account, recovery, grant, role>>

\* A wrong code where one is asked for
AcceptTotpFailed(s, f) ==
    /\ Usable(s) /\ factors[f].status \in {"PENDING", "ACTIVE"} /\ ~factors[f].locked
    /\ factors' = Rejected(f)
    /\ UNCHANGED <<member, account, sessions, recovery, grant, role>>

SteppedDown(s) == [t \in Sessions |-> IF sessions[t].status = "ACTIVE" THEN [sessions[t] EXCEPT !.stepped = FALSE]
                                      ELSE sessions[t]]
DisableTotp(s, f) ==
    /\ Usable(s) /\ factors[f].status = "ACTIVE" /\ ~factors[f].locked
    /\ factors' = [factors EXCEPT ![f].status = "DISABLED", ![f].failures = 0]
    /\ sessions' = SteppedDown(s)
    /\ UNCHANGED <<member, account, recovery, grant, role>>

-----------------------------------------------------------------------------
\* What two officers can do to the account
RequestAccountRecovery(u) ==
    /\ recovery.status # "PENDING_APPROVAL"
    /\ recovery' = [status |-> "PENDING_APPROVAL", requester |-> u]
    /\ UNCHANGED <<member, account, sessions, factors, grant, role>>

\* The account comes back under a temporary password, also one disabled with its member
DecideAccountRecovery(u, approve) ==
    /\ recovery.status = "PENDING_APPROVAL" /\ u # recovery.requester
    /\ recovery' = [recovery EXCEPT !.status = IF approve THEN "EXECUTED" ELSE "REJECTED"]
    /\ IF approve
       THEN /\ account.password < MaxPasswords
            /\ account' = [status |-> "ACTIVE", password |-> account.password + 1, temporary |-> TRUE,
                           failures |-> 0, locked |-> FALSE]
            /\ sessions' = Revoked
            /\ factors' = [f \in Factors |-> IF factors[f].status \in {"ACTIVE", "PENDING"}
                                             THEN [factors[f] EXCEPT !.status = "DISABLED"] ELSE factors[f]]
       ELSE UNCHANGED <<account, sessions, factors>>
    /\ UNCHANGED <<member, grant, role>>

RequestBreakGlass(u) ==
    /\ grant.status = "ABSENT"
    /\ grant' = [status |-> "PENDING_APPROVAL", requester |-> u, authority |-> "PENDING_APPROVAL", lapsed |-> FALSE]
    /\ UNCHANGED <<member, account, sessions, factors, recovery, role>>

\* An approved grant lasts from the approval
DecideBreakGlass(u, approve) ==
    /\ grant.status = "PENDING_APPROVAL" /\ u # grant.requester /\ ~grant.lapsed
    /\ LET status == IF approve THEN "ACTIVE" ELSE "REJECTED" IN
       grant' = [grant EXCEPT !.status = status, !.authority = status]
    /\ UNCHANGED <<member, account, sessions, factors, recovery, role>>

RevokeBreakGlass ==
    /\ grant.status \in {"PENDING_APPROVAL", "ACTIVE"}
    /\ grant' = [grant EXCEPT !.status = "REVOKED", !.authority = "REVOKED"]
    /\ UNCHANGED <<member, account, sessions, factors, recovery, role>>

LapseGrant ==
    /\ grant.status \in {"PENDING_APPROVAL", "ACTIVE"} /\ ~grant.lapsed
    /\ grant' = [grant EXCEPT !.lapsed = TRUE]
    /\ UNCHANGED <<member, account, sessions, factors, recovery, role>>

Expired == [grant EXCEPT !.status = "EXPIRED", !.authority = "REVOKED"]
ExpireSecurityWorkflows ==
    /\ \/ /\ grant.status \in {"PENDING_APPROVAL", "ACTIVE"} /\ grant.lapsed
          /\ grant' = Expired /\ UNCHANGED recovery
       \/ /\ recovery.status = "PENDING_APPROVAL"
          /\ recovery' = [recovery EXCEPT !.status = "EXPIRED"] /\ UNCHANGED grant
    /\ UNCHANGED <<member, account, sessions, factors, role>>

AssignRole(u) ==
    /\ role.status \notin {"PENDING_APPROVAL", "ACTIVE"} /\ account.status = "ACTIVE" /\ member = "ACTIVE"
    /\ role' = [status |-> "PENDING_APPROVAL", granter |-> u]
    /\ UNCHANGED <<member, account, sessions, factors, recovery, grant>>
DecideRole(u, approve) ==
    /\ role.status = "PENDING_APPROVAL" /\ u # role.granter
    /\ role' = [role EXCEPT !.status = IF approve THEN "ACTIVE" ELSE "REJECTED"]
    /\ UNCHANGED <<member, account, sessions, factors, recovery, grant>>
RevokeRole ==
    /\ role.status = "ACTIVE" /\ role' = [role EXCEPT !.status = "REVOKED"]
    /\ UNCHANGED <<member, account, sessions, factors, recovery, grant>>

Next ==
    \/ \E s \in Sessions :
          \/ Login(s) \/ Logout(s) \/ RevokeSession(s) \/ (\E new \in Sessions : ChangePassword(s, new))
          \/ \E f \in Factors :
                \/ BeginTotpEnrollment(s, f) \/ VerifyStepUp(s, f) \/ AcceptTotpFailed(s, f) \/ DisableTotp(s, f)
                \/ \E lapsed \in BOOLEAN : ConfirmTotpEnrollment(s, f, lapsed)
    \/ LoginFailed \/ ReinstateMember
    \/ \E f \in Factors : Unlock(f)
    \/ \E status \in {"ACTIVE", "DISABLED"} : TransitionUser(status)
    \/ SuspendMember({}) \/ (\E s \in Sessions : SuspendMember({s}))
    \/ \E u \in Officers : RequestAccountRecovery(u)
    \/ \E u \in Grantors : RequestBreakGlass(u) \/ AssignRole(u)
    \/ \E u \in Officers, approve \in BOOLEAN :
          DecideAccountRecovery(u, approve) \/ DecideBreakGlass(u, approve) \/ DecideRole(u, approve)
    \/ RevokeBreakGlass \/ LapseGrant \/ ExpireSecurityWorkflows \/ RevokeRole

Spec == Init /\ [][Next]_vars

-----------------------------------------------------------------------------
TypeOK ==
    /\ member \in {"ACTIVE", "SUSPENDED"}
    /\ account.status \in {"ACTIVE", "DISABLED"} /\ account.password \in 0 .. MaxPasswords /\ account.failures < MaxFailures
    /\ \A s \in Sessions : sessions[s].status \in {"ABSENT", "ACTIVE", "REVOKED"} /\ sessions[s].stepped \in BOOLEAN
    /\ \A f \in Factors : factors[f].status \in {"ABSENT", "PENDING", "ACTIVE", "DISABLED"} /\ factors[f].failures < MaxFailures
    /\ recovery.status \in {"ABSENT", "PENDING_APPROVAL", "EXECUTED", "REJECTED", "EXPIRED"}
    /\ grant.status \in {"ABSENT", "PENDING_APPROVAL", "ACTIVE", "REJECTED", "REVOKED", "EXPIRED"}
    /\ role.status \in {"ABSENT", "PENDING_APPROVAL", "ACTIVE", "REJECTED", "REVOKED"}

\* No session outlives the password it was opened under, whatever changes of password, recoveries
\* and suspensions race with sign-ins.
SessionsCurrent == \A s \in Sessions : sessions[s].status = "ACTIVE" => sessions[s].password = account.password

\* A session stays stepped up only while the account has a factor in force.
StepUpBacked ==
    \A s \in Sessions : sessions[s].status = "ACTIVE" /\ sessions[s].stepped => \E f \in Factors : factors[f].status = "ACTIVE"

\* An emergency grant and the role assignment that mirrors it are in force together and end together.
GrantMirrored == (grant.status = "ACTIVE") <=> (grant.authority = "ACTIVE")

\* What the account can do rests on its present password, factor and grants
AccessCurrent == SessionsCurrent /\ StepUpBacked /\ GrantMirrored
=============================================================================

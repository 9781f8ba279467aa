--------------------------- MODULE ServiceClients ---------------------------
(***************************************************************************)
(* A service client of a cooperative: changes asked for by one officer and  *)
(* decided by another, its credentials, and the access tokens issued under  *)
(* its policy.                                                              *)
(***************************************************************************)
EXTENDS Integers

CONSTANTS
    Requests, Credentials, Tokens,
    Officers,       \* hold the permanent security role
    Nobody, None,
    MaxVersion      \* bound on the version of the client

VARIABLES
    cooperative,    \* status of the owner
    client,         \* ServiceClient; config counts the policies it has had
    credentials,    \* ServiceClientCredential
    requests,       \* ServiceClientRequest
    tokens          \* ServiceClientAccessToken, with the policy it was issued under

vars == <<cooperative, client, credentials, requests, tokens>>

Init ==
    /\ cooperative = "ACTIVE"
    /\ client = [status |-> "ABSENT", config |-> 0, version |-> 0, lapsed |-> FALSE]
    /\ credentials = [c \in Credentials |-> [status |-> "ABSENT", config |-> 0, lapsed |-> FALSE]]
    /\ requests = [r \in Requests |-> [status |-> "ABSENT", operation |-> None, requester |-> Nobody,
                                       expected |-> 0, lapsed |-> FALSE]]
    /\ tokens = [t \in Tokens |-> [status |-> "ABSENT", credential |-> None, config |-> 0, lapsed |-> FALSE]]

Operations == {"CREATE", "UPDATE", "ROTATE", "REACTIVATE"}
EffectiveStatus == IF client.status = "ACTIVE" /\ client.lapsed THEN "EXPIRED" ELSE client.status
\* What an operation asks of the client it changes
Changeable(operation) ==
    CASE operation = "CREATE" -> client.status = "ABSENT"
      [] operation \in {"UPDATE", "ROTATE"} -> EffectiveStatus = "ACTIVE"
      [] operation = "REACTIVATE" -> client.status = "SUSPENDED"
\* The unique index over the pending requests of a client, which a lapsed one still fills
Pending == \E r \in Requests : requests[r].status = "PENDING" /\ requests[r].operation # "CREATE"

RequestChange(r, operation, u) ==
    /\ requests[r].status = "ABSENT" /\ cooperative = "ACTIVE"
    /\ Changeable(operation) /\ (operation # "CREATE" => ~Pending)
    /\ requests' = [requests EXCEPT ![r] = [status |-> "PENDING", operation |-> operation, requester |-> u,
                                            expected |-> client.version, lapsed |-> FALSE]]
    /\ UNCHANGED <<cooperative, client, credentials, tokens>>

RevokeTokens == [t \in Tokens |-> IF tokens[t].status = "ACTIVE" THEN [tokens[t] EXCEPT !.status = "REVOKED"]
                                  ELSE tokens[t]]
IssueCredential == [status |-> "ACTIVE", config |-> client.config, lapsed |-> FALSE]
Superseded == [c \in Credentials |-> IF credentials[c].status = "ACTIVE" THEN [credentials[c] EXCEPT !.status = "RETIRED"]
                                     ELSE credentials[c]]

Create(c) ==
    /\ client.status = "ABSENT" /\ credentials[c].status = "ABSENT"
    /\ client' = [status |-> "ACTIVE", config |-> 1, version |-> 1, lapsed |-> FALSE]
    /\ credentials' = [credentials EXCEPT ![c] = [IssueCredential EXCEPT !.config = 1]]
    /\ UNCHANGED tokens
\* Mutant: tokens live on under the policy they were issued with
UpdatedKept == tokens
Updated == RevokeTokens
Update ==
    /\ client' = [client EXCEPT !.config = @ + 1, !.version = @ + 1]
    /\ tokens' = Updated
    /\ UNCHANGED credentials
Rotate(c) ==
    /\ credentials[c].status = "ABSENT"
    /\ credentials' = [Superseded EXCEPT ![c] = IssueCredential]
    /\ tokens' = RevokeTokens
    /\ client' = [client EXCEPT !.version = @ + 1]
Reactivate ==
    /\ ~client.lapsed
    /\ client' = [client EXCEPT !.status = "ACTIVE", !.version = @ + 1]
    /\ UNCHANGED <<credentials, tokens>>

ApplyApprovedRequest(r, c) ==
    LET operation == requests[r].operation IN
    /\ Changeable(operation) /\ client.version < MaxVersion
    /\ operation # "CREATE" => client.version = requests[r].expected
    /\ \/ operation = "CREATE" /\ Create(c)
       \/ operation = "UPDATE" /\ Update
       \/ operation = "ROTATE" /\ Rotate(c)
       \/ operation = "REACTIVATE" /\ Reactivate

DecideRequest(r, u, approve) ==
    /\ requests[r].status = "PENDING" /\ u # requests[r].requester /\ ~requests[r].lapsed
    /\ requests' = [requests EXCEPT ![r].status = IF approve THEN "APPROVED" ELSE "REJECTED"]
    /\ IF approve THEN \E c \in Credentials : ApplyApprovedRequest(r, c) ELSE UNCHANGED <<client, credentials, tokens>>
    /\ UNCHANGED cooperative

Suspend ==
    /\ client.status = "ACTIVE" /\ client.version < MaxVersion
    /\ client' = [client EXCEPT !.status = "SUSPENDED", !.version = @ + 1]
    /\ tokens' = RevokeTokens
    /\ UNCHANGED <<cooperative, credentials, requests>>

Revoke ==
    /\ client.status \in {"ACTIVE", "SUSPENDED"} /\ client.version < MaxVersion
    /\ client' = [client EXCEPT !.status = "REVOKED", !.version = @ + 1]
    /\ credentials' = [c \in Credentials |-> IF credentials[c].status \in {"ACTIVE", "RETIRED"}
                                             THEN [credentials[c] EXCEPT !.status = "REVOKED"] ELSE credentials[c]]
    /\ tokens' = RevokeTokens
    /\ UNCHANGED <<cooperative, requests>>

RuntimeAccess == client.status = "ACTIVE" /\ ~client.lapsed /\ cooperative = "ACTIVE"

\* The rate of the client is counted first, whatever comes of the call; the rate itself is left out
IssueAccessToken(t, c) ==
    /\ tokens[t].status = "ABSENT" /\ RuntimeAccess
    /\ credentials[c].status = "ACTIVE" /\ ~credentials[c].lapsed
    /\ tokens' = [tokens EXCEPT ![t] = [status |-> "ACTIVE", credential |-> c, config |-> client.config, lapsed |-> FALSE]]
    /\ UNCHANGED <<cooperative, client, credentials, requests>>

\* The worker ends lapsed tokens and forgets the old ones
CleanupRuntimeState(forgotten) ==
    /\ \A t \in forgotten : tokens[t].status \in {"EXPIRED", "REVOKED"} /\ tokens[t].lapsed
    /\ tokens' = [t \in Tokens |->
          IF t \in forgotten THEN [status |-> "ABSENT", credential |-> None, config |-> 0, lapsed |-> FALSE]
          ELSE IF tokens[t].status = "ACTIVE" /\ tokens[t].lapsed THEN [tokens[t] EXCEPT !.status = "EXPIRED"]
          ELSE tokens[t]]
    /\ UNCHANGED <<cooperative, client, credentials, requests>>

TransitionCooperative(status) ==
    /\ cooperative # status /\ cooperative' = status
    /\ UNCHANGED <<client, credentials, requests, tokens>>

\* The end of a client is the end of the credentials issued under its policy, and of every token
Lapse ==
    \/ \E t \in Tokens : /\ tokens[t].status # "ABSENT" /\ ~tokens[t].lapsed
                         /\ tokens' = [tokens EXCEPT ![t].lapsed = TRUE]
                         /\ UNCHANGED <<client, credentials, requests>>
    \/ \E r \in Requests : /\ requests[r].status = "PENDING" /\ ~requests[r].lapsed
                           /\ requests' = [requests EXCEPT ![r].lapsed = TRUE]
                           /\ UNCHANGED <<client, credentials, tokens>>
    \/ /\ client.status \in {"ACTIVE", "SUSPENDED"} /\ ~client.lapsed
       /\ client' = [client EXCEPT !.lapsed = TRUE]
       /\ credentials' = [c \in Credentials |-> [credentials[c] EXCEPT !.lapsed = credentials[c].config = client.config \/ @]]
       /\ tokens' = [t \in Tokens |-> [tokens[t] EXCEPT !.lapsed = tokens[t].status # "ABSENT"]]
       /\ UNCHANGED requests
LapseOfTime == Lapse /\ UNCHANGED cooperative

Next ==
    \/ \E r \in Requests, u \in Officers :
          \/ \E operation \in Operations : RequestChange(r, operation, u)
          \/ \E approve \in BOOLEAN : DecideRequest(r, u, approve)
    \/ Suspend \/ Revoke \/ LapseOfTime
    \/ \E t \in Tokens, c \in Credentials : IssueAccessToken(t, c)
    \/ \E forgotten \in SUBSET Tokens : CleanupRuntimeState(forgotten)
    \/ \E status \in {"ACTIVE", "SUSPENDED"} : TransitionCooperative(status)

Spec == Init /\ [][Next]_vars

-----------------------------------------------------------------------------
TypeOK ==
    /\ client.status \in {"ABSENT", "ACTIVE", "SUSPENDED", "REVOKED"} /\ client.version \in 0 .. MaxVersion
    /\ \A c \in Credentials : credentials[c].status \in {"ABSENT", "ACTIVE", "RETIRED", "REVOKED"}
    /\ \A r \in Requests : requests[r].status \in {"ABSENT", "PENDING", "APPROVED", "REJECTED"}
    /\ \A t \in Tokens : tokens[t].status \in {"ABSENT", "ACTIVE", "REVOKED", "EXPIRED"}

\* A token in force was issued under the present policy of an active client, with the one credential
\* that is still its credential: no request decided late, no rotation and no suspension followed by a
\* reactivation leaves another.
TokensCurrent ==
    /\ \A t \in Tokens : tokens[t].status = "ACTIVE" =>
          /\ client.status = "ACTIVE" /\ tokens[t].config = client.config
          /\ credentials[tokens[t].credential].status = "ACTIVE"
    /\ \A c, d \in Credentials : credentials[c].status = "ACTIVE" /\ credentials[d].status = "ACTIVE" => c = d
=============================================================================

-------------------------- MODULE FederatedClearing --------------------------
(***************************************************************************)
(* One inter-node clearing cycle over the databases of several cooperative *)
(* nodes.  The coordinator drives the cycle by commands, each of which is  *)
(* one PostgreSQL transaction of the coordinator that calls the other      *)
(* nodes over HTTP from inside; every call is a committed transaction of   *)
(* the node that serves it.  So a command that is rolled back does not     *)
(* take back what its calls did elsewhere.                                 *)
(*                                                                         *)
(* Signed artifacts (snapshot, prepare receipt, approval) are immutable    *)
(* rows, at most one per cycle and node, and the input and result hashes   *)
(* are functions of the snapshots: an artifact is therefore named by the   *)
(* node that signed it, and its expiry is read from that node's row.  Only *)
(* the certificate has an identity of its own, the time it was signed at.  *)
(***************************************************************************)
EXTENDS Integers, FiniteSets

CONSTANTS
    Nodes,          \* participant_node_codes, numbered in the order of their codes
    Coord,          \* coordinator_node_code
    Affected,       \* affected_node_codes of the one result the snapshots give
    Sessions,       \* database sessions of the coordinator running commands
    TTL,            \* prepare_ttl_seconds of the policy
    OtherReserved,  \* what other cycles hold of each exposure, in this cycle's units
    MaxLate,        \* bound: requests on their way after being given up
    LastSnapshot,   \* bound: no snapshot is signed after this time
    MaxNow          \* bound: the clock stops here

ASSUME NodesAssumption ==
    /\ Nodes \subseteq Nat /\ Coord \in Nodes
    /\ Affected \subseteq Nodes /\ Affected # {}
ASSUME TimeAssumption ==
    /\ TTL \in Nat \ {0} /\ OtherReserved \in Nat
    /\ MaxLate \in Nat /\ LastSnapshot \in Nat /\ MaxNow \in Nat

VARIABLES
    now,  \* the clock, starting at 1 so that 0 can mean "never"
    db,   \* committed rows of the cycle at each node
    tx,   \* the coordinator's open transactions
    net   \* requests still on their way to a node after the command gave them up

vars == <<now, db, tx, net>>

-----------------------------------------------------------------------------
\* Status groups of federation.federated_clearing_cycles

Collecting == {"DRAFT", "COLLECTING_SNAPSHOTS"}
Live       == {"PREPARING_NODES", "PREPARED", "PROPOSED", "VERIFYING"}
Certified  == {"COMMIT_CERTIFIED", "APPLYING", "COMMITTED_PENDING_APPLY"}
Released   == {"PREPARE_EXPIRED", "REJECTED"}
Status     == {"ABSENT", "RECONCILED"} \union Collecting \union Live
                 \union Certified \union Released

\* What one node's database holds about the cycle.
NodeRow == [status    : Status,          \* FederatedClearingCycle.status
            snap      : SUBSET Nodes,    \* FederatedInputSnapshot rows, by signer
            snapUntil : Nat,             \* expiry of the node's own snapshot
            prep      : SUBSET Nodes,    \* NodePrepareReceipt rows, by signer
            until     : Nat,             \* expiry of its own receipt, prepared_until
            prop      : BOOLEAN,         \* a FederatedClearingProposal row
            appr      : SUBSET Nodes,    \* NodeClearingApproval rows, by signer
            cert      : Nat,             \* certificate_hash, 0 for NULL
            done      : SUBSET Nodes,    \* NodeApplyReceipt rows, by signer
            proof     : BOOLEAN,         \* a FederatedClearingProof row
            held      : BOOLEAN,         \* its own obligations are PREPARED by the cycle
            resv      : Int,             \* what the cycle holds of reserved_amount
            cleared   : Nat]             \* certificate its obligations were cleared under

NoRow == [status |-> "ABSENT", snap |-> {}, snapUntil |-> 0, prep |-> {}, until |-> 0,
          prop |-> FALSE, appr |-> {}, cert |-> 0, done |-> {}, proof |-> FALSE,
          held |-> FALSE, resv |-> 0, cleared |-> 0]

Operations == {"collect", "prepare", "propose", "approvals", "commit", "recover", "release"}

NoReply == [arrived |-> FALSE, cert |-> 0]

\* An open transaction: the command, whether it has done its opening step, the nodes still
\* to visit, whether one of them failed, whether it holds the lock of the cycle row, the
\* answer of its last call (with the certificate an apply receipt names), the status it
\* first read, and the rows as this transaction sees them.
Idle == [op |-> "idle", opened |-> FALSE, todo |-> {}, failed |-> FALSE, locked |-> FALSE,
         reply |-> NoReply, seen |-> "ABSENT", work |-> NoRow]

Transaction == [op : Operations \union {"idle"}, opened : BOOLEAN, todo : SUBSET Nodes,
                failed : BOOLEAN, locked : BOOLEAN, reply : [arrived : BOOLEAN, cert : Nat],
                seen : Status, work : NodeRow]

Request == [op : Operations, to : Nodes, cert : Nat]

Init == /\ now = 1
        /\ db = [n \in Nodes |-> NoRow]
        /\ tx = [s \in Sessions |-> Idle]
        /\ net = {}

-----------------------------------------------------------------------------
\* InterNodeClearingService: each operator takes the rows d of one node.

Earlier(a, b) == IF a <= b THEN a ELSE b

\* _all_snapshots: every participant's snapshot is stored and none has expired
SnapshotsUsable(d) == d.snap = Nodes /\ \A m \in Nodes : db[m].snapUntil > now

\* The receipt of m has not expired
ReceiptFresh(m) == db[m].until > now

\* _release_exposures refuses to take more than reserved_amount holds
CanUnreserve(d) == d.resv + OtherReserved >= 1

SnapshotLocal(n, d) ==
    IF n \in d.snap THEN d
    ELSE [d EXCEPT !.status = "COLLECTING_SNAPSHOTS", !.snap = @ \union {n},
                   !.snapUntil = now + 2 * TTL]
CanSnapshotLocal(n, d) == n \in d.snap \/ (d.status \in Collecting /\ now <= LastSnapshot)

CanAcceptSnapshot(m, d) == m \in d.snap \/ (d.status \in Collecting /\ db[m].snapUntil > now)
AcceptSnapshots(M, d) ==
    IF M \subseteq d.snap THEN d
    ELSE [d EXCEPT !.status = "COLLECTING_SNAPSHOTS", !.snap = @ \union M]

\* prepare_local: expires_at is the earlier of the snapshot's expiry and now + TTL
PrepareExpiry(d) == Earlier(d.snapUntil, now + TTL)
CanPrepareLocal(n, d) ==
    \/ n \in d.prep
    \/ /\ d.status \in {"COLLECTING_SNAPSHOTS", "PREPARING_NODES"}
       /\ n \in d.snap /\ PrepareExpiry(d) > now
PrepareLocal(n, d) ==
    IF n \in d.prep THEN d
    ELSE [d EXCEPT !.status = "PREPARING_NODES", !.prep = @ \union {n},
                   !.until = PrepareExpiry(d), !.held = TRUE, !.resv = @ + 1]

\* _mark_prepared_if_complete
MarkPrepared(d) == IF d.status = "PREPARING_NODES" /\ d.prep = Nodes
                   THEN [d EXCEPT !.status = "PREPARED"] ELSE d

CanAcceptPrepare(m, d) == m \in d.prep \/ (d.status \in Live /\ ReceiptFresh(m))
AcceptPrepares(M, d) == IF M \subseteq d.prep THEN d
                        ELSE MarkPrepared([d EXCEPT !.prep = @ \union M])

\* accept_proposal: a participant that prepared may learn of PREPARED from the proposal
CanAcceptProposal(n, d) ==
    \/ d.prop
    \/ /\ n \in d.prep /\ ReceiptFresh(n)
       /\ d.status \in {"PREPARING_NODES", "PREPARED"} /\ SnapshotsUsable(d)
AcceptProposal(d) == IF d.prop THEN d ELSE [d EXCEPT !.prop = TRUE, !.status = "PROPOSED"]

CanApprove(n, d) ==
    /\ n \notin d.appr /\ d.status \in {"PROPOSED", "VERIFYING"}
    /\ d.prop /\ n \in d.prep /\ ReceiptFresh(n) /\ SnapshotsUsable(d)
AddApprovals(M, d) == IF M \subseteq d.appr THEN d
                      ELSE [d EXCEPT !.appr = @ \union M, !.status = "VERIFYING"]
CanAcceptApproval(m, d) ==
    m \in d.appr \/ (m \in d.prep /\ ReceiptFresh(m) /\ d.status \in {"PROPOSED", "VERIFYING"})

\* Mutant: the approvals are not counted again
CertifyOnPrepares(d) ==
    \/ d.cert # 0
    \/ d.status = "VERIFYING" /\ Affected \subseteq d.prep /\ \A m \in Affected : ReceiptFresh(m)
CanCertify(d) ==
    \/ d.cert # 0
    \/ /\ d.status = "VERIFYING" /\ Affected \subseteq d.prep /\ Affected \subseteq d.appr
       /\ \A m \in Affected : ReceiptFresh(m)
\* accept_certificate compares with a stored certificate and otherwise has no status guard:
\* the trigger protect_federated_cycle lets only VERIFYING become COMMIT_CERTIFIED
CanAcceptCertificate(c, d) == IF d.cert # 0 THEN d.cert = c ELSE d.status = "VERIFYING"
\* Mutant: an existing certificate is not returned but replaced
ReissueCertificate(c, d) == [d EXCEPT !.cert = c, !.status = "COMMIT_CERTIFIED"]
StoreCertificate(c, d) == IF d.cert # 0 THEN d
                          ELSE [d EXCEPT !.cert = c, !.status = "COMMIT_CERTIFIED"]

\* apply_local, in the two parts between which it can raise: the obligations first, then
\* the exposures and the receipt
CanClear(n, d) == d.held /\ ReceiptFresh(n)
EnterApplying(d) ==
    IF d.status = "COMMIT_CERTIFIED" THEN [d EXCEPT !.status = "APPLYING"] ELSE d
ClearObligations(d) == [d EXCEPT !.held = FALSE, !.cleared = d.cert]
FinishApply(n, d) ==
    [d EXCEPT !.resv = @ - 1, !.done = @ \union {n}, !.status = "COMMITTED_PENDING_APPLY"]
CanApply(n, d) ==
    n \in d.done \/ (d.status \in Certified /\ CanClear(n, d) /\ CanUnreserve(d))
ApplyLocal(n, d) == IF n \in d.done THEN d
                    ELSE FinishApply(n, ClearObligations(EnterApplying(d)))

\* release_local_prepare
ReleaseIsFinal(d) == d.cert # 0 \/ d.status \in Certified \union {"RECONCILED"}
CanRelease(d) == ~ReleaseIsFinal(d) /\ (d.status \in Released
                                         \/ (d.status \in Live /\ CanUnreserve(d)))
\* Mutant: the obligations stay PREPARED
KeepObligations(d) == d
FreeObligations(d) == [d EXCEPT !.held = FALSE]
\* Mutant: a cycle that is already released is released again
ReleaseAgain(outcome, d) == [FreeObligations(d) EXCEPT !.resv = @ - 1, !.status = outcome]
ReleaseLocal(outcome, d) ==
    IF d.status \in Released THEN d
    ELSE [FreeObligations(d) EXCEPT !.resv = @ - 1, !.status = outcome]

\* accept_apply_receipt
CanAcceptApply(n, c, d) == n \in d.done \/ (d.cert # 0 /\ d.cert = c)

CanReconcile(d) == d.proof \/ (/\ d.status \in Certified /\ SnapshotsUsable(d)
                               /\ Affected \subseteq d.prep \intersect d.appr \intersect d.done)
\* Mutant: a status the table does not know
CompleteCycle(d) == IF d.proof THEN d ELSE [d EXCEPT !.proof = TRUE, !.status = "COMPLETED"]
Reconcile(d) == IF d.proof THEN d ELSE [d EXCEPT !.proof = TRUE, !.status = "RECONCILED"]

-----------------------------------------------------------------------------
\* Commands of the coordinator (FederatedClearingCoordinator).  A command first reads the
\* cycle row without locking it; SELECT FOR UPDATE later returns the same ORM object,
\* whose status is not read again.  Other tables are read afresh.

View(s) == IF tx[s].locked THEN tx[s].work
           ELSE [db[Coord] EXCEPT !.status = tx[s].work.status]

LockFree(s) == \A t \in Sessions \ {s} : ~tx[t].locked

\* The trigger protect_federated_cycle lets version advance by exactly one, so an UPDATE
\* of the cycle row from an outdated read is refused.  The status stands for the version:
\* only COMMITTED_PENDING_APPLY comes back, and being let through then adds behaviours.
\* Mutant: the trigger does not look at the version
MayOverwrite(s, w) == tx[s].locked \/ LockFree(s)
MayWrite(s, w) ==
    /\ tx[s].locked \/ LockFree(s)
    /\ w.status # View(s).status => tx[s].seen = db[Coord].status

\* The transaction locks the row, if it has not, and goes on with the rows w
Write(s, w, todo, failed) ==
    tx' = [tx EXCEPT ![s] = [@ EXCEPT !.locked = TRUE, !.work = w, !.opened = TRUE,
                                !.todo = todo, !.failed = failed, !.reply = NoReply]]

Skip(s, todo, failed) ==
    tx' = [tx EXCEPT ![s] = [@ EXCEPT !.opened = TRUE, !.todo = todo, !.failed = failed,
                                      !.reply = NoReply]]

Visited(op) == IF op \in {"collect", "prepare", "release"} THEN Nodes ELSE Affected

CreateCycle ==
    /\ db[Coord].status = "ABSENT"
    /\ db' = [db EXCEPT ![Coord].status = "DRAFT"]
    /\ UNCHANGED <<now, tx, net>>

Begin(s, op) ==
    /\ tx[s].op = "idle" /\ db[Coord].status # "ABSENT"
    /\ tx' = [tx EXCEPT ![s] = [Idle EXCEPT !.op = op, !.todo = Visited(op),
                   !.opened = op \in {"collect", "approvals", "release"},
                   !.seen = db[Coord].status, !.work = db[Coord]]]
    /\ UNCHANGED <<now, db, net>>

\* recover_pending_federated_cycles: the worker selects the row FOR UPDATE, then recovers
BeginSweepRecovery(s) ==
    /\ tx[s].op = "idle" /\ LockFree(s)
    /\ db[Coord].status = "COMMITTED_PENDING_APPLY"
    /\ tx' = [tx EXCEPT ![s] = [Idle EXCEPT !.op = "recover", !.todo = Affected,
                   !.locked = TRUE, !.seen = db[Coord].status, !.work = db[Coord]]]
    /\ UNCHANGED <<now, db, net>>

\* calculate_preview and begin_prepare
OpenPrepare(s) ==
    LET v == View(s)
        w == [v EXCEPT !.status = "PREPARING_NODES"]
    IN  /\ tx[s].op = "prepare" /\ ~tx[s].opened
        /\ v.status \in {"COLLECTING_SNAPSHOTS", "PREPARING_NODES"} /\ SnapshotsUsable(v)
        /\ MayWrite(s, w) /\ Write(s, w, tx[s].todo, FALSE)
        /\ UNCHANGED <<now, db, net>>

\* create_proposal
OpenPropose(s) ==
    LET v == View(s)
        w == AcceptProposal(v)
    IN  /\ tx[s].op = "propose" /\ ~tx[s].opened
        /\ v.prop \/ (v.status = "PREPARED" /\ SnapshotsUsable(v))
        /\ MayWrite(s, w) /\ Write(s, w, tx[s].todo, FALSE)
        /\ UNCHANGED <<now, db, net>>

\* certify, then _commit_payload
OpenCommit(s) ==
    LET v == View(s)
        w == StoreCertificate(now, v)
    IN  /\ tx[s].op = "commit" /\ ~tx[s].opened
        /\ CanCertify(v)
        /\ MayWrite(s, w) /\ Write(s, w, tx[s].todo, FALSE)
        /\ UNCHANGED <<now, db, net>>

\* recover without a certificate collects approvals; otherwise it goes on applying
OpenRecover(s) ==
    LET v == View(s)
        w == [v EXCEPT !.status = "APPLYING"]
    IN  /\ tx[s].op = "recover" /\ ~tx[s].opened
        /\ \/ /\ tx[s].work.cert = 0
              /\ tx' = [tx EXCEPT ![s] = [@ EXCEPT !.op = "approvals", !.opened = TRUE]]
           \/ /\ tx[s].work.cert # 0 /\ v.status = "COMMITTED_PENDING_APPLY"
              /\ tx[s].seen = db[Coord].status /\ (tx[s].locked \/ LockFree(s))
              /\ Write(s, w, tx[s].todo, FALSE)
           \/ /\ tx[s].work.cert # 0 /\ v.status # "COMMITTED_PENDING_APPLY"
              /\ Skip(s, tx[s].todo, FALSE)
        /\ UNCHANGED <<now, db, net>>

\* The node the loop of the command has come to
Current(s, n) ==
    /\ tx[s].op # "idle" /\ tx[s].opened /\ tx[s].reply = NoReply
    /\ n \in tx[s].todo /\ \A m \in tx[s].todo : n <= m

\* Nodes the loop passes over: an approval or apply receipt it has already, and its own
\* place in the loops that only call others
PassedOver(s, n) ==
    \/ tx[s].op = "approvals" /\ (n = Coord \/ n \in View(s).appr)
    \/ tx[s].op = "recover" /\ n \in View(s).done
    \/ tx[s].op = "propose" /\ n = Coord

PassOver(s, n) ==
    /\ Current(s, n) /\ PassedOver(s, n)
    /\ Skip(s, tx[s].todo \ {n}, tx[s].failed)
    /\ UNCHANGED <<now, db, net>>

LocalSnapshot(s) ==
    LET w == SnapshotLocal(Coord, View(s))
    IN  /\ tx[s].op = "collect" /\ Current(s, Coord) /\ CanSnapshotLocal(Coord, View(s))
        /\ MayWrite(s, w) /\ Write(s, w, tx[s].todo \ {Coord}, tx[s].failed)
        /\ UNCHANGED <<now, db, net>>

\* fits: the obligations have the versions the snapshot recorded, the counterparties are
\* active and the bilateral limits are not exceeded.  An error is caught by the loop.
LocalPrepare(s, fits) ==
    LET v  == View(s)
        ok == CanPrepareLocal(Coord, v) /\ (fits \/ Coord \in v.prep)
        w  == IF ok THEN PrepareLocal(Coord, v) ELSE v
    IN  /\ tx[s].op = "prepare" /\ Current(s, Coord)
        /\ MayWrite(s, w) /\ Write(s, w, tx[s].todo \ {Coord}, tx[s].failed \/ ~ok)
        /\ UNCHANGED <<now, db, net>>

\* apply_local inside certify_and_apply and recover: the loop catches the error and the
\* session keeps what was changed before it was raised.  The trigger refuses an update
\* that leaves COMMITTED_PENDING_APPLY as it is, and that error ends the command.
LocalApply(s) ==
    LET v  == View(s)
        ok == CanApply(Coord, v)
        w  == CASE ok -> ApplyLocal(Coord, v)
                [] ~ok /\ v.status \notin Certified -> v
                [] ~ok /\ v.status \in Certified /\ ~CanClear(Coord, v) -> EnterApplying(v)
                [] OTHER -> ClearObligations(EnterApplying(v))
    IN  /\ tx[s].op \in {"commit", "recover"} /\ Current(s, Coord) /\ ~PassedOver(s, Coord)
        /\ ok => Coord \in v.done \/ v.status # "COMMITTED_PENDING_APPLY"
        /\ MayWrite(s, w) /\ Write(s, w, tx[s].todo \ {Coord}, tx[s].failed \/ ~ok)
        /\ UNCHANGED <<now, db, net>>

\* release_local_prepare inside release: likewise; it looks at the certificate_hash of the
\* row as first read
LocalRelease(s) ==
    LET v  == [View(s) EXCEPT !.cert = tx[s].work.cert]
        ok == CanRelease(v)
        w  == CASE ok -> ReleaseLocal("REJECTED", v)
                [] ~ok /\ ~ReleaseIsFinal(v) /\ v.status \in Live -> FreeObligations(v)
                [] OTHER -> v
    IN  /\ tx[s].op = "release" /\ Current(s, Coord) /\ MayWrite(s, w)
        /\ Write(s, [w EXCEPT !.cert = View(s).cert], tx[s].todo \ {Coord}, tx[s].failed \/ ~ok)
        /\ UNCHANGED <<now, db, net>>

\* Crash of the process, a cancelled request, or an exception that leaves the command
Rollback(s) ==
    /\ tx[s].op # "idle"
    /\ tx' = [tx EXCEPT ![s] = Idle]
    /\ UNCHANGED <<now, db, net>>

\* What the command does after its loop; reconcile raises when it cannot be done
Closing(s) ==
    LET v == View(s)
    IN  CASE tx[s].op = "prepare" -> [ok |-> TRUE, row |-> MarkPrepared(v)]
          [] tx[s].op \in {"commit", "recover"} /\ ~tx[s].failed ->
                 [ok |-> CanReconcile(v), row |-> Reconcile(v)]
          [] \/ tx[s].op = "commit" /\ tx[s].failed /\ v.status = "COMMIT_CERTIFIED"
             \/ tx[s].op = "recover" /\ tx[s].failed /\ v.status = "APPLYING" ->
                 [ok |-> TRUE, row |-> [v EXCEPT !.status = "COMMITTED_PENDING_APPLY"]]
          [] OTHER -> [ok |-> TRUE, row |-> v]

Commit(s) ==
    LET w == Closing(s).row
    IN  /\ tx[s].op # "idle" /\ tx[s].opened /\ tx[s].todo = {}
        /\ Closing(s).ok /\ (w = View(s) \/ MayWrite(s, w))
        /\ db' = [db EXCEPT ![Coord] =
                     IF w.status = tx[s].seen THEN [w EXCEPT !.status = db[Coord].status] ELSE w]
        /\ tx' = [tx EXCEPT ![s] = Idle]
        /\ UNCHANGED <<now, net>>

-----------------------------------------------------------------------------
\* Requests served by the other nodes (handle_peer_clearing), one transaction each: an
\* error rolls it back.  A repeated message_id is answered from the stored exchange, so a
\* request takes effect at most once.

Serve(r, d) ==
    LET n == r.to
    IN  CASE r.op = "collect" ->
                 [ok |-> d.status = "ABSENT" \/ CanSnapshotLocal(n, d), row |-> SnapshotLocal(n, d)]
          [] r.op = "prepare" ->
                 LET e == AcceptSnapshots(Nodes, d)
                 IN  [ok |-> /\ \A m \in Nodes \ {n} : CanAcceptSnapshot(m, d)
                             /\ n \in d.snap /\ SnapshotsUsable(e) /\ CanPrepareLocal(n, e),
                      row |-> PrepareLocal(n, e)]
          [] r.op = "propose" -> [ok |-> CanAcceptProposal(n, d), row |-> AcceptProposal(d)]
          [] r.op = "approvals" -> [ok |-> d.status # "ABSENT", row |-> d]
          [] r.op \in {"commit", "recover"} ->
                 LET e == AcceptPrepares(Affected, d)
                     f == AddApprovals(Affected, e)
                     g == StoreCertificate(r.cert, f)
                 IN  [ok |-> /\ \A m \in Affected : CanAcceptPrepare(m, d)
                             /\ \A m \in Affected : CanAcceptApproval(m, e)
                             /\ CanAcceptCertificate(r.cert, f) /\ CanApply(n, g),
                      row |-> ApplyLocal(n, g)]
          [] r.op = "release" -> [ok |-> CanRelease(d), row |-> ReleaseLocal("REJECTED", d)]

\* A participant refuses to prepare when its obligations have moved on since the snapshot,
\* a counterparty is no longer active or a bilateral limit would be exceeded.
Fits(r, d) == r.op = "prepare" => r.to \in d.prep

Served(r) == /\ Serve(r, db[r.to]).ok
             /\ r.op = "collect" => r.to \in db[r.to].snap \/ now <= LastSnapshot
             /\ db' = [db EXCEPT ![r.to] = Serve(r, @).row]

\* Whether the answer holds an artifact that the command stores
Informs(r) == r.op \in {"collect", "prepare", "commit", "recover"}
                \/ (r.op = "approvals" /\ r.to \in db[r.to].appr)

RequestOf(s, n) == [op |-> tx[s].op, to |-> n, cert |-> View(s).cert]

Calls(s, n) == Current(s, n) /\ n # Coord /\ ~PassedOver(s, n)

\* PeerReservationClient.exchange with an answer.  Between sending and the answer the
\* command changes nothing, so the call is one step.
Call(s, n) ==
    LET r == RequestOf(s, n)
    IN  /\ Calls(s, n) /\ Served(r)
        /\ IF Informs(r)
           THEN tx' = [tx EXCEPT ![s] = [@ EXCEPT !.reply = [arrived |-> TRUE,
                                                             cert |-> db'[n].cert]]]
           ELSE Skip(s, tx[s].todo \ {n}, tx[s].failed)
        /\ UNCHANGED <<now, net>>

Refused(s, n) ==
    LET r == RequestOf(s, n)
    IN  /\ Calls(s, n) /\ (~Serve(r, db[n]).ok \/ ~Fits(r, db[n]))
        /\ Skip(s, tx[s].todo \ {n}, TRUE)
        /\ UNCHANGED <<now, db, net>>

\* PEER_UNAVAILABLE: the request never arrives, or it is still on its way
Unreachable(s, n) ==
    /\ Calls(s, n)
    /\ Skip(s, tx[s].todo \ {n}, TRUE)
    /\ net' \in {net, net \union {RequestOf(s, n)}} /\ Cardinality(net') <= MaxLate
    /\ UNCHANGED <<now, db>>

\* ... or the answer is lost
ReplyLost(s, n) ==
    /\ tx[s].reply.arrived /\ n \in tx[s].todo /\ \A m \in tx[s].todo : n <= m
    /\ Skip(s, tx[s].todo \ {n}, TRUE)
    /\ UNCHANGED <<now, db, net>>

\* accept_snapshot, accept_prepare_receipt, accept_approval, accept_apply_receipt
Absorbed(s, n) ==
    LET v == View(s)
        c == tx[s].reply.cert
    IN  CASE tx[s].op = "collect" ->
                 [ok |-> CanAcceptSnapshot(n, v), row |-> AcceptSnapshots({n}, v)]
          [] tx[s].op = "prepare" ->
                 [ok |-> CanAcceptPrepare(n, v), row |-> AcceptPrepares({n}, v)]
          [] tx[s].op = "approvals" ->
                 [ok |-> CanAcceptApproval(n, v), row |-> AddApprovals({n}, v)]
          [] tx[s].op \in {"commit", "recover"} ->
                 [ok |-> CanAcceptApply(n, c, v),
                  row |-> [v EXCEPT !.done = @ \union {n}]]

Absorb(s, n) ==
    LET a == Absorbed(s, n)
        w == IF a.ok THEN a.row ELSE View(s)
    IN  /\ tx[s].reply.arrived /\ n \in tx[s].todo /\ \A m \in tx[s].todo : n <= m
        /\ MayWrite(s, w) /\ Write(s, w, tx[s].todo \ {n}, tx[s].failed \/ ~a.ok)
        /\ UNCHANGED <<now, db, net>>

\* A given-up request reaches its node after all; nobody reads the answer
Late(r) == /\ Served(r)
           /\ net' = net \ {r}
           /\ UNCHANGED <<now, tx>>

\* The operator of a node approves the proposal
Approve(n) ==
    /\ CanApprove(n, db[n])
    /\ n = Coord => \A s \in Sessions : ~tx[s].locked
    /\ db' = [db EXCEPT ![n] = AddApprovals({n}, @)]
    /\ UNCHANGED <<now, tx, net>>

\* expire_stale_federated_prepares; SKIP LOCKED passes over a row a command holds
\* Mutant: a cycle the node has approved is not swept
SweepableUnlessApproved(n, d) ==
    d.status \in Live \ {"VERIFYING"} /\ n \in d.prep /\ ~ReceiptFresh(n) /\ d.cert = 0
Sweepable(n, d) == d.status \in Live /\ n \in d.prep /\ ~ReceiptFresh(n) /\ d.cert = 0
Sweep(n) ==
    /\ Sweepable(n, db[n]) /\ CanUnreserve(db[n])
    /\ n = Coord => \A s \in Sessions : ~tx[s].locked
    /\ db' = [db EXCEPT ![n] = ReleaseLocal("PREPARE_EXPIRED", @)]
    /\ UNCHANGED <<now, tx, net>>

Tick == /\ now < MaxNow
        /\ now' = now + 1
        /\ UNCHANGED <<db, tx, net>>

Open(s) == OpenPrepare(s) \/ OpenPropose(s) \/ OpenCommit(s) \/ OpenRecover(s)
Local(s) == LocalSnapshot(s) \/ (\E fits \in BOOLEAN : LocalPrepare(s, fits))
              \/ LocalApply(s) \/ LocalRelease(s)
Visit(s) == \E n \in Nodes : \/ PassOver(s, n) \/ Call(s, n) \/ Refused(s, n)
                             \/ ReplyLost(s, n) \/ Absorb(s, n) \/ Unreachable(s, n)
Step(s) == Open(s) \/ Local(s) \/ Visit(s) \/ Commit(s)

Command(s) == BeginSweepRecovery(s) \/ Step(s) \/ Rollback(s) \/ \E op \in Operations : Begin(s, op)

\* Everything but the sweep, which a worker runs in a transaction with more in it
Proceed ==
    \/ CreateCycle \/ Tick
    \/ \E s \in Sessions : Command(s)
    \/ \E r \in net : Late(r)
    \/ \E n \in Nodes : Approve(n)

Next == Proceed \/ \E n \in Nodes : Sweep(n)

Spec == Init /\ [][Next]_vars

-----------------------------------------------------------------------------
\* Properties

TypeOK == /\ now \in Nat
          /\ db \in [Nodes -> NodeRow]
          /\ tx \in [Sessions -> Transaction]
          /\ net \subseteq Request

\* No node reduces its obligations before every node whose obligations the result touches
\* has signed its approval, whatever is lost, late, rolled back or retried.
ApplyNeedsEveryApproval ==
    \A n \in Nodes : db[n].cleared # 0 => \A m \in Affected : m \in db[m].appr

\* A reconciliation proof exists only when every affected node has cleared its obligations
\* under the very certificate the coordinator keeps.
ReconciledMeansApplied ==
    db[Coord].proof => \A m \in Affected : db[m].cleared = db[Coord].cert /\ db[m].cleared # 0

\* What the cycle holds of a node's bilateral exposure is what it holds of the obligations:
\* nothing is reserved twice, left reserved or released twice.
ExposureMatches(n) == db[n].resv = IF db[n].held THEN 1 ELSE 0
ExposureExact == \A n \in Nodes : ExposureMatches(n)

\* Where other cycles hold part of the same exposure, the coordinator can release its own
\* part before it has prepared anything, and a prepare command that read the cycle before
\* the release then still takes the hold.
ReleasedUnprepared(n) ==
    n = Coord /\ OtherReserved > 0 /\ db[n].status \in Released

\* The same for the nodes that signed a prepare receipt.
PreparedExposureExact ==
    \A n \in Nodes : n \in db[n].prep /\ ~ReleasedUnprepared(n) => ExposureMatches(n)

\* Obligations the result touches are held only for a cycle that can still be applied or
\* released: no retried or concurrent command takes a hold for an outcome already reached.
NoOrphanedHold ==
    \A n \in Affected : db[n].held /\ ~ReleasedUnprepared(n) => db[n].status \in Live \union Certified

\* A reconciled cycle holds nothing at its coordinator.
ReconciledHoldsNothing == db[Coord].status = "RECONCILED" => ~db[Coord].held

\* A node that stores a certificate keeps it, and the hold it has then ends in no other way
\* than by clearing under that certificate.
CertificateFinal ==
    [][\A n \in Nodes : db[n].cert # 0 =>
          /\ db'[n].cert = db[n].cert
          /\ db[n].held /\ ~db'[n].held => db'[n].cleared = db[n].cert]_vars

\* A cycle that was released or reconciled at a node stays so: no command or handler that
\* read the row earlier brings it back.
OutcomeFinal ==
    [][\A n \in Nodes : db[n].status \in Released \union {"RECONCILED"} =>
          db'[n].status = db[n].status]_vars

\* Once a certificate exists, no affected node has given its hold up.
CertifiedIsNotReleased ==
    (\E m \in Nodes : db[m].cert # 0) => \A n \in Affected : db[n].status \notin Released

\* A cycle has one certificate: what one node stored is what every other will be asked to
\* apply, also when the coordinator loses the command that signed it.
OneCertificate ==
    \A m, n \in Nodes : db[m].cert # 0 /\ db[n].cert # 0 => db[m].cert = db[n].cert

\* Seen from outside, the cycle is the contract its participants rely on: everybody's
\* approval, then each node applies once, then the proof, all under one certificate.
Contract == INSTANCE ClearingContract WITH
                approved <- {n \in Nodes : n \in db[n].appr},
                applied  <- [n \in Nodes |-> db[n].cleared],
                closed   <- db[Coord].proof
ImplementsContract == Contract!ContractSpec
=============================================================================

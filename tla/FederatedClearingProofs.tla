----------------------- MODULE FederatedClearingProofs -----------------------
(***************************************************************************)
(* Proofs about FederatedClearing for every set of nodes, coordinator,     *)
(* result, number of sessions and bound.  The first part is about who      *)
(* approves and applies; the second about the end of a cycle: what a proof *)
(* of reconciliation means, that an outcome stays, that the cycle is one   *)
(* of ClearingContract, and when what it holds is given back.              *)
(***************************************************************************)
EXTENDS FederatedClearing, TLAPS

\* The rows e differ from the rows d in nothing that concerns the approvals, the
\* certificate and what was cleared.
Keeps(e, d) == e \in NodeRow /\ e.appr = d.appr /\ e.cert = d.cert /\ e.cleared = d.cleared

-----------------------------------------------------------------------------
\* What the operators of the service return

\* A snapshot, a prepare receipt and a proposal leave the finality fields alone.
LEMMA CollectingKeeps ==
    ASSUME TypeOK, NEW n \in Nodes, NEW d \in NodeRow, NEW M \in SUBSET Nodes
    PROVE  /\ Keeps(SnapshotLocal(n, d), d)
           /\ Keeps(AcceptSnapshots(M, d), d)
  <1>1. now + 2 * TTL \in Nat
    BY TimeAssumption DEF TypeOK
  <1>2. "COLLECTING_SNAPSHOTS" \in Status
    BY DEF Status, Collecting
  <1> QED BY <1>1, <1>2 DEF Keeps, SnapshotLocal, AcceptSnapshots, NodeRow

LEMMA PreparingKeeps ==
    ASSUME TypeOK, NEW n \in Nodes, NEW d \in NodeRow, NEW M \in SUBSET Nodes
    PROVE  /\ Keeps(PrepareLocal(n, d), d)
           /\ Keeps(MarkPrepared(d), d)
           /\ Keeps(AcceptPrepares(M, d), d)
           /\ Keeps(AcceptProposal(d), d)
  <1>1. PrepareExpiry(d) \in Nat
    BY TimeAssumption DEF TypeOK, PrepareExpiry, Earlier, NodeRow
  <1>2. {"PREPARING_NODES", "PREPARED", "PROPOSED"} \subseteq Status
    BY DEF Status, Live
  <1>3. Keeps(PrepareLocal(n, d), d)
    <2>1. CASE n \in d.prep
      BY <2>1 DEF Keeps, PrepareLocal
    <2>2. CASE n \notin d.prep
      <3> DEFINE e == [d EXCEPT !.status = "PREPARING_NODES", !.prep = @ \union {n},
                               !.until = PrepareExpiry(d), !.held = TRUE, !.resv = @ + 1]
      <3>1. d.prep \union {n} \in SUBSET Nodes /\ d.resv + 1 \in Int
        BY DEF NodeRow
      <3>2. Keeps(e, d)
        BY <1>1, <1>2, <3>1 DEF Keeps, NodeRow
      <3> QED BY <2>2, <3>2 DEF PrepareLocal
    <2> QED BY <2>1, <2>2
  <1>4. \A e \in NodeRow : Keeps(MarkPrepared(e), e)
    BY <1>2 DEF Keeps, MarkPrepared, NodeRow
  <1>5. Keeps(AcceptPrepares(M, d), d)
    <2>1. [d EXCEPT !.prep = @ \union M] \in NodeRow
      BY DEF NodeRow
    <2>2. Keeps(MarkPrepared([d EXCEPT !.prep = @ \union M]), [d EXCEPT !.prep = @ \union M])
      BY <1>4, <2>1
    <2> QED BY <2>1, <2>2 DEF Keeps, AcceptPrepares, NodeRow
  <1>6. Keeps(AcceptProposal(d), d)
    BY <1>2 DEF Keeps, AcceptProposal, NodeRow
  <1> QED BY <1>3, <1>4, <1>5, <1>6

\* Approvals are only added, and a certificate is stored once.
LEMMA ApprovalsAdded ==
    ASSUME NEW d \in NodeRow, NEW M \in SUBSET Nodes
    PROVE  LET e == AddApprovals(M, d)
           IN  e \in NodeRow /\ e.appr = d.appr \union M /\ e.cert = d.cert /\ e.cleared = d.cleared
  <1>1. "VERIFYING" \in Status
    BY DEF Status, Live
  <1> QED BY <1>1 DEF AddApprovals, NodeRow

LEMMA CertificateStored ==
    ASSUME NEW d \in NodeRow, NEW c \in Nat
    PROVE  LET e == StoreCertificate(c, d)
           IN  e \in NodeRow /\ e.appr = d.appr /\ e.cleared = d.cleared
                 /\ e.cert = IF d.cert # 0 THEN d.cert ELSE c
  <1>1. "COMMIT_CERTIFIED" \in Status
    BY DEF Status, Certified
  <1> QED BY <1>1 DEF StoreCertificate, NodeRow

\* Applying clears under the stored certificate and under no other.
LEMMA ApplyingClears ==
    ASSUME NEW n \in Nodes, NEW d \in NodeRow
    PROVE  /\ Keeps(EnterApplying(d), d)
           /\ \A e \in {ClearObligations(EnterApplying(d)), ApplyLocal(n, d)} :
                 e \in NodeRow /\ e.appr = d.appr /\ e.cert = d.cert /\ e.cleared \in {d.cleared, d.cert}
  <1> DEFINE a == EnterApplying(d)
             b == ClearObligations(a)
             f == FinishApply(n, b)
  <1>1. {"APPLYING", "COMMITTED_PENDING_APPLY"} \subseteq Status
    BY DEF Status, Certified
  <1>2. Keeps(a, d)
    BY <1>1 DEF Keeps, EnterApplying, NodeRow
  <1>3. b \in NodeRow /\ b.appr = d.appr /\ b.cert = d.cert /\ b.cleared = d.cert
    BY <1>2 DEF Keeps, ClearObligations, NodeRow
  <1>4. f \in NodeRow /\ f.appr = b.appr /\ f.cert = b.cert /\ f.cleared = b.cleared
    <2>1. b.resv - 1 \in Int /\ b.done \union {n} \in SUBSET Nodes
      BY <1>3 DEF NodeRow
    <2> QED BY <1>1, <1>3, <2>1 DEF FinishApply, NodeRow
  <1>5. ApplyLocal(n, d) \in {d, f}
    BY DEF ApplyLocal
  <1> QED BY <1>2, <1>3, <1>4, <1>5

LEMMA ReleasingKeeps ==
    ASSUME NEW d \in NodeRow, NEW outcome \in Released
    PROVE  Keeps(FreeObligations(d), d) /\ Keeps(ReleaseLocal(outcome, d), d)
  <1>1. Released \subseteq Status
    BY DEF Status
  <1>2. Keeps(FreeObligations(d), d)
    BY DEF Keeps, FreeObligations, NodeRow
  <1>3. Keeps(ReleaseLocal(outcome, d), d)
    <2> DEFINE e == [FreeObligations(d) EXCEPT !.resv = @ - 1, !.status = outcome]
    <2>1. FreeObligations(d).resv - 1 \in Int
      BY <1>2 DEF Keeps, NodeRow
    <2>2. Keeps(e, d)
      BY <1>1, <1>2, <2>1 DEF Keeps, NodeRow
    <2> QED BY <2>2 DEF ReleaseLocal, Keeps
  <1> QED BY <1>2, <1>3

LEMMA ReconcilingKeeps ==
    ASSUME NEW d \in NodeRow
    PROVE  Keeps(Reconcile(d), d)
  <1>1. "RECONCILED" \in Status
    BY DEF Status
  <1> QED BY <1>1 DEF Keeps, Reconcile, NodeRow

-----------------------------------------------------------------------------
\* The inductive invariant

Approved == {m \in Nodes : m \in db[m].appr}
Unanimous == Affected \subseteq Approved

\* The rows d claim no approval that its node has not given, and a certificate or an
\* application only after all of them.
Backed(d) == /\ d.appr \subseteq Approved
             /\ d.cert # 0 \/ d.cleared # 0 => Unanimous

\* The node whose answer a command has not stored yet
Answering(u, n) == n \in u.todo /\ \A m \in u.todo : n <= m

\* What a transaction carries: the rows it will commit, the certificate it sends out, an
\* approval it has been told of; and while it holds the lock it knows whether the
\* coordinator's own operator has approved.
Sound(u) ==
    /\ u \in Transaction
    /\ Backed(u.work)
    /\ u.opened /\ u.op \in {"commit", "recover"} => Unanimous
    /\ u.reply.arrived => u.opened /\ u.op \in {"collect", "prepare", "approvals", "commit", "recover"}
    /\ u.reply.arrived /\ u.op = "approvals" => \A n \in Nodes : Answering(u, n) => n \in Approved
    /\ u.locked /\ Coord \in Approved => Coord \in u.work.appr

ClockOK == now \in Nat
RowsOK == db \in [Nodes -> NodeRow] /\ \A n \in Nodes : Backed(db[n])
TransactionsOK == tx \in [Sessions -> Transaction] /\ \A s \in Sessions : Sound(tx[s])
LockExclusive == \A s, t \in Sessions : tx[s].locked /\ tx[t].locked => s = t
RequestsOK ==
    \A r \in net :
        /\ r \in Request /\ r.to # Coord
        /\ r.op \in {"commit", "recover"} => Unanimous

IInv == ClockOK /\ RowsOK /\ TransactionsOK /\ LockExclusive /\ RequestsOK

LEMMA IInvTypeOK == IInv => TypeOK
  <1> SUFFICES ASSUME IInv PROVE TypeOK
    OBVIOUS
  <1>1. net \subseteq Request
    <2> SUFFICES ASSUME NEW r \in net PROVE r \in Request
      OBVIOUS
    <2> QED BY DEF IInv, RequestsOK
  <1> QED BY <1>1 DEF IInv, TypeOK, ClockOK, RowsOK, TransactionsOK

LEMMA IdleSound == /\ Idle \in Transaction /\ Sound(Idle)
                   /\ ~Idle.opened /\ ~Idle.locked /\ ~Idle.reply.arrived
  <1>1. NoRow \in NodeRow
    BY DEF NoRow, NodeRow, Status
  <1>2. Backed(NoRow)
    BY <1>1 DEF Backed, NoRow
  <1>3. Idle \in Transaction /\ ~Idle.opened /\ ~Idle.locked /\ ~Idle.reply.arrived
    BY <1>1 DEF Idle, NoReply, Transaction, Status
  <1> QED BY <1>2, <1>3 DEF Sound, Idle

LEMMA InitIInv == Init => IInv
  <1> SUFFICES ASSUME Init PROVE IInv
    OBVIOUS
  <1> USE DEF Init
  <1>1. NoRow \in NodeRow
    BY DEF NoRow, NodeRow, Status
  <1>2. Backed(NoRow)
    BY <1>1 DEF Backed, NoRow
  <1>3. RowsOK
    BY <1>1, <1>2 DEF RowsOK
  <1>4. TransactionsOK /\ LockExclusive
    BY IdleSound DEF TransactionsOK, LockExclusive
  <1> QED BY <1>3, <1>4 DEF IInv, ClockOK, RequestsOK

\* A step of one session that leaves the databases alone: what the session then carries
\* must be sound, and it may hold the lock only if nobody else does.
LEMMA SessionStep ==
    ASSUME IInv, NEW s \in Sessions, NEW u, Sound(u),
           u.locked => tx[s].locked \/ LockFree(s),
           tx' = [tx EXCEPT ![s] = u], UNCHANGED db
    PROVE  TransactionsOK' /\ LockExclusive'
  <1>1. Approved' = Approved
    BY DEF Approved
  <1>2. \A v : Sound(v) => Sound(v)'
    BY <1>1 DEF Sound, Backed, Unanimous
  <1>3. tx \in [Sessions -> Transaction] /\ \A t \in Sessions : Sound(tx[t])
    BY DEF IInv, TransactionsOK
  <1>4. u \in Transaction
    BY DEF Sound
  <1>5. TransactionsOK'
    BY <1>2, <1>3, <1>4 DEF TransactionsOK
  <1>6. LockExclusive'
    BY <1>3, <1>4 DEF IInv, LockExclusive, LockFree
  <1> QED BY <1>5, <1>6

\* When only the sessions change, the rest of the invariant stands.
LEMMA RestStands ==
    ASSUME IInv, UNCHANGED <<now, db, net>>, TransactionsOK', LockExclusive'
    PROVE  IInv'
  <1>1. Approved' = Approved
    BY DEF Approved
  <1> QED BY <1>1 DEF IInv, ClockOK, RowsOK, RequestsOK, Backed, Unanimous

\* The rows a transaction goes on from are backed, and they know the coordinator's approval
\* if there is one.
LEMMA ViewBacked ==
    ASSUME IInv, NEW s \in Sessions
    PROVE  /\ View(s) \in NodeRow
           /\ Backed(View(s))
           /\ Coord \in Approved => Coord \in View(s).appr
  <1>1. Sound(tx[s]) /\ tx[s].work \in NodeRow
    BY DEF IInv, TransactionsOK, Transaction
  <1>2. db[Coord] \in NodeRow /\ Backed(db[Coord])
    BY NodesAssumption DEF IInv, RowsOK
  <1>3. CASE tx[s].locked
    BY <1>1, <1>3 DEF View, Sound
  <1>4. CASE ~tx[s].locked
    <2> DEFINE v == [db[Coord] EXCEPT !.status = tx[s].work.status]
    <2>1. v \in NodeRow /\ v.appr = db[Coord].appr /\ v.cert = db[Coord].cert
                        /\ v.cleared = db[Coord].cleared
      BY <1>1, <1>2 DEF NodeRow
    <2>2. View(s) = v
      BY <1>4 DEF View
    <2> QED BY <1>2, <2>1, <2>2 DEF Backed, Approved
  <1> QED BY <1>3, <1>4

LEMMA WriteStep ==
    ASSUME IInv, NEW s \in Sessions, NEW w \in NodeRow, Backed(w), View(s).appr \subseteq w.appr,
           NEW todo \in SUBSET Nodes, NEW failed \in BOOLEAN,
           tx[s].locked \/ LockFree(s), tx[s].op \in {"commit", "recover"} => Unanimous,
           Write(s, w, todo, failed), UNCHANGED <<now, db, net>>
    PROVE  IInv'
  <1> DEFINE u == [tx[s] EXCEPT !.locked = TRUE, !.work = w, !.opened = TRUE,
                                !.todo = todo, !.failed = failed, !.reply = NoReply]
  <1>1. tx[s] \in Transaction
    BY DEF IInv, TransactionsOK
  <1>2. u \in Transaction
    BY <1>1 DEF Transaction, NoReply
  <1>3. /\ u.work = w /\ u.op = tx[s].op /\ u.opened /\ u.locked /\ ~u.reply.arrived
    BY <1>1 DEF Transaction, NoReply
  <1>4. Coord \in Approved => Coord \in w.appr
    BY ViewBacked
  <1>5. Sound(u)
    BY <1>2, <1>3, <1>4 DEF Sound
  <1>6. tx' = [tx EXCEPT ![s] = u]
    BY DEF Write
  <1>7. TransactionsOK' /\ LockExclusive'
    BY <1>5, <1>6, SessionStep
  <1> QED BY <1>7, RestStands

LEMMA SkipStep ==
    ASSUME IInv, NEW s \in Sessions, NEW todo \in SUBSET Nodes, NEW failed \in BOOLEAN,
           tx[s].op \in {"commit", "recover"} => Unanimous,
           Skip(s, todo, failed), UNCHANGED db
    PROVE  TransactionsOK' /\ LockExclusive'
  <1> DEFINE u == [tx[s] EXCEPT !.opened = TRUE, !.todo = todo, !.failed = failed,
                                !.reply = NoReply]
  <1>1. tx[s] \in Transaction /\ Sound(tx[s])
    BY DEF IInv, TransactionsOK
  <1>2. u \in Transaction
    BY <1>1 DEF Transaction, NoReply
  <1>3. /\ u.work = tx[s].work /\ u.op = tx[s].op /\ u.locked = tx[s].locked
        /\ u.opened /\ ~u.reply.arrived
    BY <1>1 DEF Transaction, NoReply
  <1>4. Sound(u)
    BY <1>1, <1>2, <1>3 DEF Sound
  <1>5. tx' = [tx EXCEPT ![s] = u]
    BY DEF Skip
  <1> QED BY <1>3, <1>4, <1>5, SessionStep

\* A transaction at node n commits the rows e: approvals are not forgotten and the only new
\* one it may bring is its own.
LEMMA RowStep ==
    ASSUME IInv, NEW n \in Nodes, NEW e \in NodeRow, db' = [db EXCEPT ![n] = e],
           n \in db[n].appr => n \in e.appr,
           e.appr \subseteq Approved \union {n},
           e.cert # 0 \/ e.cleared # 0 => Unanimous
    PROVE  /\ RowsOK'
           /\ Approved \subseteq Approved'
           /\ Unanimous => Unanimous'
           /\ \A v : Backed(v) => Backed(v)'
           /\ n # Coord /\ Coord \in Approved' => Coord \in Approved
  <1>1. db \in [Nodes -> NodeRow] /\ \A m \in Nodes : Backed(db[m])
    BY DEF IInv, RowsOK
  <1>2. \A m \in Nodes : db'[m] = IF m = n THEN e ELSE db[m]
    BY <1>1
  <1>3. Approved \subseteq Approved'
    BY <1>2 DEF Approved
  <1>4. Unanimous => Unanimous'
    BY <1>3 DEF Unanimous
  <1>5. \A v : Backed(v) => Backed(v)'
    BY <1>3, <1>4 DEF Backed
  <1>6. Backed(e)'
    <2>1. e.appr \subseteq Approved'
      <3> SUFFICES ASSUME NEW m \in e.appr PROVE m \in Approved'
        OBVIOUS
      <3>1. CASE m \in Approved
        BY <1>3, <3>1
      <3>2. CASE m = n
        BY <1>2, <3>2 DEF Approved
      <3> QED BY <3>1, <3>2
    <2> QED BY <1>4, <2>1 DEF Backed
  <1>7. RowsOK'
    <2>1. db' \in [Nodes -> NodeRow]
      BY <1>1
    <2>2. ASSUME NEW m \in Nodes PROVE Backed(db[m])'
      <3>1. CASE m = n
        BY <1>2, <1>6, <3>1
      <3>2. CASE m # n
        BY <1>1, <1>2, <1>5, <3>2
      <3> QED BY <3>1, <3>2
    <2> QED BY <2>1, <2>2 DEF RowsOK
  <1>8. n # Coord /\ Coord \in Approved' => Coord \in Approved
    BY <1>2 DEF Approved
  <1> QED BY <1>3, <1>4, <1>5, <1>7, <1>8

\* A transaction of the database of node n, not of a command: the commands stay sound when
\* it is not the coordinator's database, or when no command holds the lock.
LEMMA NodeStep ==
    ASSUME IInv, NEW n \in Nodes, NEW e \in NodeRow, db' = [db EXCEPT ![n] = e],
           n \in db[n].appr => n \in e.appr,
           e.appr \subseteq Approved \union {n},
           e.cert # 0 \/ e.cleared # 0 => Unanimous,
           n = Coord => \A s \in Sessions : ~tx[s].locked,
           net' \subseteq net, UNCHANGED <<now, tx>>
    PROVE  IInv'
  <1>1. /\ RowsOK'
        /\ Approved \subseteq Approved'
        /\ Unanimous => Unanimous'
        /\ \A v : Backed(v) => Backed(v)'
        /\ n # Coord /\ Coord \in Approved' => Coord \in Approved
    BY RowStep
  <1>2. ASSUME NEW s \in Sessions PROVE Sound(tx[s])'
    <2>1. Sound(tx[s]) /\ (tx[s].locked => n # Coord)
      BY DEF IInv, TransactionsOK
    <2> QED BY <1>1, <2>1 DEF Sound, Answering
  <1>3. TransactionsOK' /\ LockExclusive'
    BY <1>2 DEF IInv, TransactionsOK, LockExclusive
  <1>4. RequestsOK'
    BY <1>1 DEF IInv, RequestsOK
  <1> QED BY <1>1, <1>3, <1>4 DEF IInv, ClockOK

-----------------------------------------------------------------------------
\* One lemma per group of actions

LEMMA BeginPreserves ==
    ASSUME IInv, NEW s \in Sessions
    PROVE  /\ \A op \in Operations : Begin(s, op) => IInv'
           /\ BeginSweepRecovery(s) => IInv'
  <1>1. db[Coord] \in NodeRow /\ Backed(db[Coord]) /\ Affected \subseteq Nodes
    BY NodesAssumption DEF IInv, RowsOK
  <1>2. db[Coord].status \in Status
    BY <1>1 DEF NodeRow
  <1>3. \A op \in Operations : Visited(op) \in SUBSET Nodes
    BY <1>1 DEF Visited
  <1>4. ASSUME NEW op \in Operations, Begin(s, op)
        PROVE  IInv'
    <2> DEFINE u(b) == [Idle EXCEPT !.op = op, !.todo = Visited(op), !.opened = b,
                            !.seen = db[Coord].status, !.work = db[Coord]]
               o == op \in {"collect", "approvals", "release"}
    <2>1. ASSUME NEW b \in BOOLEAN, b => op \notin {"commit", "recover"}
          PROVE  Sound(u(b)) /\ ~u(b).locked
      <3>1. u(b) \in Transaction
        BY <1>1, <1>2, <1>3, IdleSound DEF Transaction
      <3>2. /\ u(b).op = op /\ u(b).opened = b /\ u(b).work = db[Coord]
            /\ ~u(b).locked /\ ~u(b).reply.arrived
        BY IdleSound DEF Transaction
      <3> QED BY <1>1, <2>1, <3>1, <3>2 DEF Sound
    <2>2. o \in BOOLEAN /\ (o => op \notin {"commit", "recover"})
      OBVIOUS
    <2>3. Sound(u(o)) /\ ~u(o).locked
      BY <2>1, <2>2
    <2>4. tx' = [tx EXCEPT ![s] = u(o)] /\ UNCHANGED <<now, db, net>>
      BY <1>4 DEF Begin
    <2>5. TransactionsOK' /\ LockExclusive'
      BY <2>3, <2>4, SessionStep
    <2> QED BY <2>4, <2>5, RestStands
  <1>5. ASSUME BeginSweepRecovery(s)
        PROVE  IInv'
    <2> DEFINE u == [Idle EXCEPT !.op = "recover", !.todo = Affected, !.locked = TRUE,
                        !.seen = db[Coord].status, !.work = db[Coord]]
    <2>1. u \in Transaction
      BY <1>1, <1>2, IdleSound DEF Transaction, Operations
    <2>2. u.work = db[Coord] /\ ~u.opened /\ ~u.reply.arrived
      BY IdleSound DEF Transaction
    <2>3. Sound(u)
      BY <1>1, <2>1, <2>2 DEF Sound, Approved
    <2>4. tx' = [tx EXCEPT ![s] = u] /\ LockFree(s) /\ UNCHANGED <<now, db, net>>
      BY <1>5 DEF BeginSweepRecovery
    <2>5. TransactionsOK' /\ LockExclusive'
      BY <2>3, <2>4, SessionStep
    <2> QED BY <2>4, <2>5, RestStands
  <1> QED BY <1>4, <1>5

LEMMA RollbackPreserves ==
    ASSUME IInv, NEW s \in Sessions, Rollback(s)
    PROVE  IInv'
  <1>1. tx' = [tx EXCEPT ![s] = Idle] /\ UNCHANGED <<now, db, net>>
    BY DEF Rollback
  <1>2. TransactionsOK' /\ LockExclusive'
    BY <1>1, IdleSound, SessionStep
  <1> QED BY <1>1, <1>2, RestStands

\* The opening step of certify may rely on the approvals it has counted itself.
LEMMA OpenPreserves ==
    ASSUME IInv, NEW s \in Sessions, Open(s)
    PROVE  IInv'
  <1> DEFINE v == View(s)
  <1>1. v \in NodeRow /\ Backed(v) /\ (Coord \in Approved => Coord \in v.appr)
    BY ViewBacked
  <1>2. tx[s] \in Transaction /\ Sound(tx[s])
    BY DEF IInv, TransactionsOK
  <1>3. tx[s].todo \in SUBSET Nodes /\ FALSE \in BOOLEAN
    BY <1>2 DEF Transaction
  <1>4. CASE OpenPrepare(s)
    <2> DEFINE w == [v EXCEPT !.status = "PREPARING_NODES"]
    <2>1. w \in NodeRow /\ w.appr = v.appr /\ Backed(w)
      BY <1>1 DEF NodeRow, Status, Live, Backed
    <2>2. /\ tx[s].locked \/ LockFree(s)
          /\ tx[s].op = "prepare" /\ Write(s, w, tx[s].todo, FALSE)
          /\ UNCHANGED <<now, db, net>>
      BY <1>4 DEF OpenPrepare, MayWrite
    <2> QED BY <1>3, <2>1, <2>2, WriteStep
  <1>5. CASE OpenPropose(s)
    <2> DEFINE w == AcceptProposal(v)
    <2>1. Keeps(w, v)
      BY <1>1, PreparingKeeps, IInvTypeOK, NodesAssumption
    <2>2. w \in NodeRow /\ w.appr = v.appr /\ Backed(w)
      BY <1>1, <2>1 DEF Keeps, Backed
    <2>3. /\ tx[s].locked \/ LockFree(s)
          /\ tx[s].op = "propose" /\ Write(s, w, tx[s].todo, FALSE)
          /\ UNCHANGED <<now, db, net>>
      BY <1>5 DEF OpenPropose, MayWrite
    <2> QED BY <1>3, <2>2, <2>3, WriteStep
  <1>6. CASE OpenCommit(s)
    <2> DEFINE w == StoreCertificate(now, v)
    <2>1. now \in Nat
      BY DEF IInv, ClockOK
    <2>2. /\ w \in NodeRow /\ w.appr = v.appr /\ w.cleared = v.cleared
      BY <1>1, <2>1, CertificateStored
    <2>3. Unanimous
      BY <1>1, <1>6 DEF OpenCommit, CanCertify, Backed, Unanimous
    <2>4. Backed(w)
      BY <1>1, <2>2, <2>3 DEF Backed
    <2>5. /\ tx[s].locked \/ LockFree(s)
          /\ Write(s, w, tx[s].todo, FALSE)
          /\ UNCHANGED <<now, db, net>>
      BY <1>6 DEF OpenCommit, MayWrite
    <2> QED BY <1>3, <2>2, <2>3, <2>4, <2>5, WriteStep
  <1>7. CASE OpenRecover(s)
    <2> DEFINE w == [v EXCEPT !.status = "APPLYING"]
               u == [tx[s] EXCEPT !.op = "approvals", !.opened = TRUE]
    <2>1. CASE tx[s].work.cert = 0 /\ tx' = [tx EXCEPT ![s] = u]
      <3>1. u \in Transaction
        BY <1>2 DEF Transaction, Operations
      <3>2. /\ u.op = "approvals" /\ u.opened /\ u.work = tx[s].work
            /\ u.reply = tx[s].reply /\ u.locked = tx[s].locked
        BY <1>2 DEF Transaction
      <3>3. ~tx[s].opened
        BY <1>7 DEF OpenRecover
      <3>4. Sound(u)
        BY <1>2, <3>1, <3>2, <3>3 DEF Sound
      <3>5. UNCHANGED <<now, db, net>>
        BY <1>7 DEF OpenRecover
      <3>6. TransactionsOK' /\ LockExclusive'
        BY <2>1, <3>2, <3>4, <3>5, SessionStep
      <3> QED BY <3>5, <3>6, RestStands
    <2>2. CASE tx[s].work.cert # 0
      <3>1. Unanimous
        BY <1>2, <2>2 DEF Sound, Backed
      <3>2. w \in NodeRow /\ w.appr = v.appr /\ Backed(w)
        BY <1>1 DEF NodeRow, Status, Certified, Backed
      <3>3. CASE Write(s, w, tx[s].todo, FALSE) /\ (tx[s].locked \/ LockFree(s))
        BY <1>3, <1>7, <3>1, <3>2, <3>3, WriteStep DEF OpenRecover
      <3>4. CASE Skip(s, tx[s].todo, FALSE)
        <4>1. UNCHANGED <<now, db, net>>
          BY <1>7 DEF OpenRecover
        <4>2. TransactionsOK' /\ LockExclusive'
          BY <1>3, <3>1, <3>4, <4>1, SkipStep
        <4> QED BY <4>1, <4>2, RestStands
      <3> QED BY <1>7, <2>2, <3>3, <3>4 DEF OpenRecover
    <2> QED BY <1>7, <2>1, <2>2 DEF OpenRecover
  <1> QED BY <1>4, <1>5, <1>6, <1>7 DEF Open

\* The loop goes on to the next node, with changed rows or without.
LEMMA AdvancePreserves ==
    ASSUME IInv, NEW s \in Sessions, NEW n \in Nodes, NEW failed \in BOOLEAN, tx[s].opened,
           UNCHANGED <<now, db, net>>
    PROVE  /\ Skip(s, tx[s].todo \ {n}, failed) => IInv'
           /\ \A w : /\ w \in NodeRow /\ Backed(w) /\ View(s).appr \subseteq w.appr
                     /\ tx[s].locked \/ LockFree(s)
                     /\ Write(s, w, tx[s].todo \ {n}, failed)
                     => IInv'
  <1>1. tx[s] \in Transaction /\ Sound(tx[s])
    BY DEF IInv, TransactionsOK
  <1>2. tx[s].todo \ {n} \in SUBSET Nodes
    BY <1>1 DEF Transaction
  <1>3. tx[s].op \in {"commit", "recover"} => Unanimous
    BY <1>1 DEF Sound
  <1>4. ASSUME Skip(s, tx[s].todo \ {n}, failed) PROVE IInv'
    <2>1. TransactionsOK' /\ LockExclusive'
      BY <1>2, <1>3, <1>4, SkipStep
    <2> QED BY <2>1, RestStands
  <1>5. ASSUME NEW w, w \in NodeRow, Backed(w), View(s).appr \subseteq w.appr,
               tx[s].locked \/ LockFree(s), Write(s, w, tx[s].todo \ {n}, failed)
        PROVE  IInv'
    BY <1>2, <1>3, <1>5, WriteStep
  <1> QED BY <1>4, <1>5

LEMMA KeepsBacked ==
    ASSUME NEW d \in NodeRow, NEW e, Keeps(e, d), Backed(d)
    PROVE  e \in NodeRow /\ Backed(e) /\ d.appr \subseteq e.appr
  BY DEF Keeps, Backed

LEMMA LocalPreserves ==
    ASSUME IInv, NEW s \in Sessions, Local(s)
    PROVE  IInv'
  <1> DEFINE v == View(s)
  <1>1. v \in NodeRow /\ Backed(v) /\ Coord \in Nodes /\ TypeOK
    BY ViewBacked, NodesAssumption, IInvTypeOK
  <1>2. tx[s] \in Transaction /\ tx[s].failed \in BOOLEAN
    BY DEF IInv, TransactionsOK, Transaction
  <1>3. Keeps(v, v)
    BY <1>1 DEF Keeps
  <1>4. CASE LocalSnapshot(s)
    <2> DEFINE w == SnapshotLocal(Coord, v)
    <2>1. Keeps(w, v)
      BY <1>1, CollectingKeeps
    <2>2. w \in NodeRow /\ Backed(w) /\ v.appr \subseteq w.appr
      BY <1>1, <2>1, KeepsBacked
    <2>3. /\ tx[s].opened /\ UNCHANGED <<now, db, net>> /\ (tx[s].locked \/ LockFree(s))
          /\ Write(s, w, tx[s].todo \ {Coord}, tx[s].failed)
      BY <1>4 DEF LocalSnapshot, Current, MayWrite
    <2> QED BY <1>1, <1>2, <2>2, <2>3, AdvancePreserves
  <1>5. CASE \E fits \in BOOLEAN : LocalPrepare(s, fits)
    <2> PICK fits \in BOOLEAN : LocalPrepare(s, fits)
      BY <1>5
    <2> DEFINE ok == CanPrepareLocal(Coord, v) /\ (fits \/ Coord \in v.prep)
               w  == IF ok THEN PrepareLocal(Coord, v) ELSE v
    <2>1. Keeps(w, v)
      BY <1>1, <1>3, PreparingKeeps
    <2>2. w \in NodeRow /\ Backed(w) /\ v.appr \subseteq w.appr
      BY <1>1, <2>1, KeepsBacked
    <2>3. /\ tx[s].opened /\ UNCHANGED <<now, db, net>> /\ (tx[s].locked \/ LockFree(s))
          /\ Write(s, w, tx[s].todo \ {Coord}, tx[s].failed \/ ~ok)
      BY DEF LocalPrepare, Current, MayWrite
    <2>4. (tx[s].failed \/ ~ok) \in BOOLEAN
      OBVIOUS
    <2> HIDE DEF ok, w
    <2> QED BY <1>1, <2>2, <2>3, <2>4, AdvancePreserves
  <1>6. CASE LocalApply(s)
    <2> DEFINE ok == CanApply(Coord, v)
               w  == CASE ok -> ApplyLocal(Coord, v)
                       [] ~ok /\ v.status \notin Certified -> v
                       [] ~ok /\ v.status \in Certified /\ ~CanClear(Coord, v) -> EnterApplying(v)
                       [] OTHER -> ClearObligations(EnterApplying(v))
    <2>1. w \in {v, EnterApplying(v), ClearObligations(EnterApplying(v)), ApplyLocal(Coord, v)}
      OBVIOUS
    <2>2. w \in NodeRow /\ w.appr = v.appr /\ w.cert = v.cert /\ w.cleared \in {v.cleared, v.cert}
      BY <1>1, <2>1, ApplyingClears DEF Keeps
    <2>3. Backed(w)
      BY <1>1, <2>2 DEF Backed
    <2>4. /\ tx[s].opened /\ UNCHANGED <<now, db, net>> /\ (tx[s].locked \/ LockFree(s))
          /\ Write(s, w, tx[s].todo \ {Coord}, tx[s].failed \/ ~ok)
      BY <1>6 DEF LocalApply, Current, MayWrite
    <2>5. (tx[s].failed \/ ~ok) \in BOOLEAN
      OBVIOUS
    <2> HIDE DEF ok, w
    <2> QED BY <1>1, <2>2, <2>3, <2>4, <2>5, AdvancePreserves
  <1>7. CASE LocalRelease(s)
    <2> DEFINE x  == [v EXCEPT !.cert = tx[s].work.cert]
               ok == CanRelease(x)
               y  == CASE ok -> ReleaseLocal("REJECTED", x)
                       [] ~ok /\ ~ReleaseIsFinal(x) /\ x.status \in Live -> FreeObligations(x)
                       [] OTHER -> x
               w  == [y EXCEPT !.cert = v.cert]
    <2>1. tx[s].work.cert \in Nat /\ v.cert \in Nat
      BY <1>1, <1>2 DEF Transaction, NodeRow
    <2>2. x \in NodeRow /\ x.appr = v.appr /\ x.cleared = v.cleared
      BY <1>1, <2>1 DEF NodeRow
    <2>3. y \in {x, FreeObligations(x), ReleaseLocal("REJECTED", x)}
      OBVIOUS
    <2>4. y \in NodeRow /\ y.appr = v.appr /\ y.cleared = v.cleared
      <3>1. "REJECTED" \in Released
        BY DEF Released
      <3>2. Keeps(FreeObligations(x), x) /\ Keeps(ReleaseLocal("REJECTED", x), x)
        BY <2>2, <3>1, ReleasingKeeps
      <3> QED BY <2>2, <2>3, <3>2 DEF Keeps
    <2> HIDE DEF y
    <2>5. w \in NodeRow /\ w.appr = v.appr /\ w.cleared = v.cleared /\ w.cert = v.cert
      BY <2>1, <2>4 DEF NodeRow
    <2>6. Backed(w)
      BY <1>1, <2>5 DEF Backed
    <2>7. /\ tx[s].opened /\ UNCHANGED <<now, db, net>> /\ (tx[s].locked \/ LockFree(s))
          /\ Write(s, w, tx[s].todo \ {Coord}, tx[s].failed \/ ~ok)
      BY <1>7 DEF LocalRelease, Current, MayWrite, y
    <2>8. (tx[s].failed \/ ~ok) \in BOOLEAN
      OBVIOUS
    <2> HIDE DEF ok, w
    <2> QED BY <1>1, <2>5, <2>6, <2>7, <2>8, AdvancePreserves
  <1> QED BY <1>4, <1>5, <1>6, <1>7 DEF Local

\* A served request leaves rows that claim nothing new about other nodes: the approvals a
\* commit brings along are approvals its coordinator has.
LEMMA ServeBacked ==
    ASSUME IInv, NEW r \in Request, r.to # Coord,
           r.op \in {"commit", "recover"} => Unanimous
    PROVE  LET d == db[r.to]
               e == Serve(r, d).row
           IN  /\ e \in NodeRow /\ d.appr \subseteq e.appr /\ e.appr \subseteq Approved
               /\ e.cert # 0 \/ e.cleared # 0 => Unanimous
  <1> DEFINE n == r.to
             d == db[n]
             e == Serve(r, d).row
  <1>1. n \in Nodes /\ r.op \in Operations /\ r.cert \in Nat
    BY DEF Request
  <1>2. d \in NodeRow /\ Backed(d)
    BY <1>1 DEF IInv, RowsOK
  <1>3. TypeOK /\ Nodes \in SUBSET Nodes /\ Affected \in SUBSET Nodes
    BY IInvTypeOK, NodesAssumption
  <1>4. ASSUME NEW f, Keeps(f, d), e = f
        PROVE  /\ e \in NodeRow /\ d.appr \subseteq e.appr /\ e.appr \subseteq Approved
               /\ e.cert # 0 \/ e.cleared # 0 => Unanimous
    BY <1>2, <1>4 DEF Keeps, Backed
  <1>5. CASE r.op = "collect"
    <2>1. Keeps(SnapshotLocal(n, d), d)
      BY <1>1, <1>2, <1>3, CollectingKeeps
    <2>2. e = SnapshotLocal(n, d)
      BY <1>5 DEF Serve
    <2> QED BY <1>4, <2>1, <2>2
  <1>6. CASE r.op = "prepare"
    <2> DEFINE a == AcceptSnapshots(Nodes, d)
    <2>1. Keeps(a, d)
      BY <1>1, <1>2, <1>3, CollectingKeeps
    <2>2. a \in NodeRow
      BY <2>1 DEF Keeps
    <2>3. Keeps(PrepareLocal(n, a), a)
      BY <1>1, <1>3, <2>2, PreparingKeeps
    <2>4. Keeps(PrepareLocal(n, a), d)
      BY <2>1, <2>3 DEF Keeps
    <2>5. e = PrepareLocal(n, a)
      BY <1>6 DEF Serve
    <2> QED BY <1>4, <2>4, <2>5
  <1>7. CASE r.op = "propose"
    <2>1. Keeps(AcceptProposal(d), d)
      BY <1>1, <1>2, <1>3, PreparingKeeps
    <2>2. e = AcceptProposal(d)
      BY <1>7 DEF Serve
    <2> QED BY <1>4, <2>1, <2>2
  <1>8. CASE r.op = "approvals"
    <2>1. e = d
      BY <1>8 DEF Serve
    <2> QED BY <1>2, <1>4, <2>1 DEF Keeps
  <1>9. CASE r.op \in {"commit", "recover"}
    <2> DEFINE a == AcceptPrepares(Affected, d)
               b == AddApprovals(Affected, a)
               c == StoreCertificate(r.cert, b)
    <2>1. Keeps(a, d)
      BY <1>1, <1>2, <1>3, PreparingKeeps
    <2>2. a \in NodeRow
      BY <2>1 DEF Keeps
    <2>3. b \in NodeRow /\ b.appr = a.appr \union Affected /\ b.cert = a.cert /\ b.cleared = a.cleared
      BY <1>3, <2>2, ApprovalsAdded
    <2>4. c \in NodeRow /\ c.appr = b.appr
      BY <1>1, <2>3, CertificateStored
    <2>5. ApplyLocal(n, c) \in NodeRow /\ ApplyLocal(n, c).appr = c.appr
      BY <1>1, <2>4, ApplyingClears
    <2>6. e = ApplyLocal(n, c)
      BY <1>9 DEF Serve
    <2>7. Unanimous
      BY <1>9
    <2>8. e.appr = d.appr \union Affected
      BY <2>1, <2>3, <2>4, <2>5, <2>6 DEF Keeps
    <2> QED BY <1>2, <2>5, <2>6, <2>7, <2>8 DEF Backed, Unanimous
  <1>10. CASE r.op = "release"
    <2>1. Keeps(ReleaseLocal("REJECTED", d), d)
      BY <1>2, ReleasingKeeps DEF Released
    <2>2. e = ReleaseLocal("REJECTED", d)
      BY <1>10 DEF Serve
    <2> QED BY <1>4, <2>1, <2>2
  <1> QED BY <1>1, <1>5, <1>6, <1>7, <1>8, <1>9, <1>10 DEF Operations

\* What a request in transit or about to be sent may carry
LEMMA ServedSound ==
    ASSUME IInv, NEW r \in Request, r.to # Coord,
           r.op \in {"commit", "recover"} => Unanimous, Served(r)
    PROVE  /\ RowsOK' /\ Approved \subseteq Approved'
           /\ Unanimous => Unanimous'
           /\ \A v : Sound(v) => Sound(v)'
  <1> DEFINE e == Serve(r, db[r.to]).row
  <1>1. r.to \in Nodes
    BY DEF Request
  <1>2. /\ e \in NodeRow /\ db[r.to].appr \subseteq e.appr /\ e.appr \subseteq Approved
        /\ e.cert # 0 \/ e.cleared # 0 => Unanimous
    BY ServeBacked
  <1>3. db' = [db EXCEPT ![r.to] = e]
    BY DEF Served
  <1> HIDE DEF e
  <1>4. /\ RowsOK' /\ Approved \subseteq Approved'
        /\ Unanimous => Unanimous'
        /\ \A v : Backed(v) => Backed(v)'
        /\ Coord \in Approved' => Coord \in Approved
    BY <1>1, <1>2, <1>3, RowStep
  <1>5. \A v : Sound(v) => Sound(v)'
    BY <1>4 DEF Sound, Answering
  <1> QED BY <1>4, <1>5

LEMMA LatePreserves ==
    ASSUME IInv, NEW r \in net, Late(r)
    PROVE  IInv'
  <1>1. r \in Request /\ r.to # Coord /\ (r.op \in {"commit", "recover"} => Unanimous)
    BY DEF IInv, RequestsOK
  <1>2. Served(r) /\ net' \subseteq net /\ UNCHANGED <<now, tx>>
    BY DEF Late
  <1>3. /\ RowsOK' /\ Approved \subseteq Approved'
        /\ Unanimous => Unanimous'
        /\ \A v : Sound(v) => Sound(v)'
    BY <1>1, <1>2, ServedSound
  <1>4. TransactionsOK' /\ LockExclusive'
    BY <1>2, <1>3 DEF IInv, TransactionsOK, LockExclusive
  <1>5. RequestsOK'
    BY <1>2, <1>3 DEF IInv, RequestsOK
  <1> QED BY <1>2, <1>3, <1>4, <1>5 DEF IInv, ClockOK

\* A command only sends what it may send.
LEMMA RequestSound ==
    ASSUME IInv, NEW s \in Sessions, NEW n \in Nodes, Calls(s, n)
    PROVE  LET r == RequestOf(s, n)
           IN  /\ r \in Request /\ r.to = n /\ r.to # Coord /\ r.op = tx[s].op
               /\ r.op \in {"commit", "recover"} => Unanimous
  <1>1. tx[s] \in Transaction /\ Sound(tx[s]) /\ View(s).cert \in Nat
    BY ViewBacked DEF IInv, TransactionsOK, NodeRow
  <1>2. tx[s].op # "idle" /\ tx[s].opened /\ n # Coord
    BY DEF Calls, Current
  <1>3. tx[s].op \in Operations
    BY <1>1, <1>2 DEF Transaction
  <1> QED BY <1>1, <1>2, <1>3 DEF RequestOf, Request, Sound

LEMMA CallPreserves ==
    ASSUME IInv, NEW s \in Sessions, NEW n \in Nodes, Call(s, n)
    PROVE  IInv'
  <1> DEFINE r == RequestOf(s, n)
  <1>1. /\ r \in Request /\ r.to = n /\ r.to # Coord /\ r.op = tx[s].op
        /\ r.op \in {"commit", "recover"} => Unanimous
    BY RequestSound DEF Call
  <1>2. Served(r) /\ UNCHANGED <<now, net>>
    BY DEF Call
  <1>3. /\ RowsOK' /\ Approved \subseteq Approved'
        /\ Unanimous => Unanimous'
        /\ \A v : Sound(v) => Sound(v)'
    BY <1>1, <1>2, ServedSound
  <1>4. tx \in [Sessions -> Transaction] /\ \A t \in Sessions : Sound(tx[t])
    BY DEF IInv, TransactionsOK
  <1>5. PICK u : /\ tx' = [tx EXCEPT ![s] = u] /\ Sound(u) /\ u.locked = tx[s].locked
    <2>1. /\ tx[s].opened /\ n \in tx[s].todo /\ \A m \in tx[s].todo : n <= m
      BY DEF Call, Calls, Current
    <2>2. CASE Informs(r)
      <3> DEFINE c == db'[n].cert
                 u == [tx[s] EXCEPT !.reply = [arrived |-> TRUE, cert |-> c]]
      <3>1. c \in Nat
        BY <1>3 DEF RowsOK, NodeRow
      <3>2. u \in Transaction
        BY <1>4, <3>1 DEF Transaction
      <3>3. /\ u.op = tx[s].op /\ u.opened = tx[s].opened /\ u.todo = tx[s].todo
            /\ u.locked = tx[s].locked /\ u.work = tx[s].work
        BY <1>4 DEF Transaction
      <3>4. u.op = "approvals" => n \in Approved
        BY <1>1, <2>2, <3>3 DEF Informs, Approved
      <3>5. \A m \in Nodes : Answering(u, m) => m = n
        BY <2>1, <3>3, NodesAssumption DEF Answering
      <3>6. Sound(u)
        BY <1>1, <1>4, <2>1, <2>2, <3>2, <3>3, <3>4, <3>5 DEF Sound, Informs
      <3>7. tx' = [tx EXCEPT ![s] = u]
        BY <2>2 DEF Call
      <3> QED BY <3>3, <3>6, <3>7
    <2>3. CASE ~Informs(r)
      <3> DEFINE u == [tx[s] EXCEPT !.opened = TRUE, !.todo = tx[s].todo \ {n},
                                    !.failed = tx[s].failed, !.reply = NoReply]
      <3>1. u \in Transaction
        BY <1>4 DEF Transaction, NoReply
      <3>2. /\ u.op = tx[s].op /\ ~u.reply.arrived
            /\ u.locked = tx[s].locked /\ u.work = tx[s].work
        BY <1>4 DEF Transaction, NoReply
      <3>3. Sound(u)
        BY <1>4, <2>1, <3>1, <3>2 DEF Sound
      <3>4. tx' = [tx EXCEPT ![s] = u]
        BY <2>3 DEF Call, Skip
      <3> QED BY <3>2, <3>3, <3>4
    <2> QED BY <2>2, <2>3
  <1>6. TransactionsOK'
    BY <1>3, <1>4, <1>5 DEF TransactionsOK, Sound
  <1>7. LockExclusive'
    BY <1>4, <1>5 DEF IInv, LockExclusive
  <1>8. RequestsOK'
    BY <1>2, <1>3 DEF IInv, RequestsOK
  <1> QED BY <1>2, <1>3, <1>6, <1>7, <1>8 DEF IInv, ClockOK

LEMMA AbsorbPreserves ==
    ASSUME IInv, NEW s \in Sessions, NEW n \in Nodes, Absorb(s, n)
    PROVE  IInv'
  <1> DEFINE v == View(s)
             a == Absorbed(s, n)
             w == IF a.ok THEN a.row ELSE v
  <1>1. v \in NodeRow /\ Backed(v) /\ TypeOK
    BY ViewBacked, IInvTypeOK
  <1>2. /\ tx[s] \in Transaction /\ Sound(tx[s]) /\ tx[s].reply.arrived /\ tx[s].opened
    BY DEF IInv, TransactionsOK, Sound, Absorb
  <1>3. Answering(tx[s], n)
    BY DEF Absorb, Answering
  <1>4. a.ok => a.row \in NodeRow /\ Backed(a.row) /\ v.appr \subseteq a.row.appr
    <2>1. CASE tx[s].op = "collect"
      <3>1. Keeps(AcceptSnapshots({n}, v), v)
        BY <1>1, CollectingKeeps
      <3>2. a.row = AcceptSnapshots({n}, v)
        BY <2>1 DEF Absorbed
      <3> QED BY <1>1, <3>1, <3>2, KeepsBacked
    <2>2. CASE tx[s].op = "prepare"
      <3>1. Keeps(AcceptPrepares({n}, v), v)
        BY <1>1, PreparingKeeps
      <3>2. a.row = AcceptPrepares({n}, v)
        BY <2>2 DEF Absorbed
      <3> QED BY <1>1, <3>1, <3>2, KeepsBacked
    <2>3. CASE tx[s].op = "approvals"
      <3>1. n \in Approved
        BY <1>2, <1>3, <2>3 DEF Sound
      <3>2. LET e == AddApprovals({n}, v)
            IN  e \in NodeRow /\ e.appr = v.appr \union {n} /\ e.cert = v.cert /\ e.cleared = v.cleared
        BY <1>1, ApprovalsAdded
      <3>3. a.row = AddApprovals({n}, v)
        BY <2>3 DEF Absorbed
      <3> QED BY <1>1, <3>1, <3>2, <3>3 DEF Backed
    <2>4. CASE tx[s].op \in {"commit", "recover"}
      <3> DEFINE e == [v EXCEPT !.done = @ \union {n}]
      <3>1. Keeps(e, v)
        BY <1>1 DEF Keeps, NodeRow
      <3>2. a.row = e
        BY <2>4 DEF Absorbed
      <3> QED BY <1>1, <3>1, <3>2, KeepsBacked
    <2> QED BY <1>2, <2>1, <2>2, <2>3, <2>4 DEF Sound
  <1>5. w \in NodeRow /\ Backed(w) /\ v.appr \subseteq w.appr
    BY <1>1, <1>4
  <1>6. /\ tx[s].locked \/ LockFree(s)
        /\ Write(s, w, tx[s].todo \ {n}, tx[s].failed \/ ~a.ok)
        /\ UNCHANGED <<now, db, net>>
    BY DEF Absorb, MayWrite
  <1>7. (tx[s].failed \/ ~a.ok) \in BOOLEAN
    OBVIOUS
  <1> HIDE DEF a, w
  <1> QED BY <1>2, <1>5, <1>6, <1>7, AdvancePreserves

LEMMA VisitPreserves ==
    ASSUME IInv, NEW s \in Sessions, Visit(s)
    PROVE  IInv'
  <1> PICK n \in Nodes : \/ PassOver(s, n) \/ Call(s, n) \/ Refused(s, n)
                         \/ ReplyLost(s, n) \/ Absorb(s, n) \/ Unreachable(s, n)
    BY DEF Visit
  <1>1. tx[s] \in Transaction /\ Sound(tx[s]) /\ tx[s].failed \in BOOLEAN /\ TRUE \in BOOLEAN
    BY DEF IInv, TransactionsOK, Transaction
  <1>2. CASE PassOver(s, n)
    <2>1. tx[s].opened /\ Skip(s, tx[s].todo \ {n}, tx[s].failed) /\ UNCHANGED <<now, db, net>>
      BY <1>2 DEF PassOver, Current
    <2> QED BY <1>1, <2>1, AdvancePreserves
  <1>3. CASE Refused(s, n)
    <2>1. tx[s].opened /\ Skip(s, tx[s].todo \ {n}, TRUE) /\ UNCHANGED <<now, db, net>>
      BY <1>3 DEF Refused, Calls, Current
    <2> QED BY <1>1, <2>1, AdvancePreserves
  <1>4. CASE ReplyLost(s, n)
    <2>1. tx[s].opened /\ Skip(s, tx[s].todo \ {n}, TRUE) /\ UNCHANGED <<now, db, net>>
      BY <1>1, <1>4 DEF ReplyLost, Sound
    <2> QED BY <1>1, <2>1, AdvancePreserves
  <1>5. CASE Unreachable(s, n)
    <2> DEFINE r == RequestOf(s, n)
    <2>1. /\ tx[s].opened /\ Skip(s, tx[s].todo \ {n}, TRUE) /\ UNCHANGED <<now, db>>
          /\ Calls(s, n) /\ net' \in {net, net \union {r}}
      BY <1>5 DEF Unreachable, Calls, Current
    <2>2. tx[s].todo \ {n} \in SUBSET Nodes /\ (tx[s].op \in {"commit", "recover"} => Unanimous)
      BY <1>1, <2>1 DEF Transaction, Sound
    <2>3. TransactionsOK' /\ LockExclusive'
      BY <1>1, <2>1, <2>2, SkipStep
    <2>4. /\ r \in Request /\ r.to # Coord
          /\ r.op \in {"commit", "recover"} => Unanimous
      BY <2>1, RequestSound
    <2> HIDE DEF r
    <2>5. Approved' = Approved
      BY <2>1 DEF Approved
    <2>6. RequestsOK'
      BY <2>1, <2>4, <2>5 DEF IInv, RequestsOK, Unanimous
    <2>7. ClockOK' /\ RowsOK'
      BY <2>1, <2>5 DEF IInv, ClockOK, RowsOK, Backed, Unanimous
    <2> QED BY <2>3, <2>6, <2>7 DEF IInv
  <1>6. CASE Call(s, n)
    BY <1>6, CallPreserves
  <1>7. CASE Absorb(s, n)
    BY <1>7, AbsorbPreserves
  <1> QED BY <1>2, <1>3, <1>4, <1>5, <1>6, <1>7

\* A command that commits writes rows that know the coordinator's approval: either it holds
\* the lock, and then it knew, or it writes nothing, or it takes the lock with fresh rows.
LEMMA CommitPreserves ==
    ASSUME IInv, NEW s \in Sessions, Commit(s)
    PROVE  IInv'
  <1> DEFINE v == View(s)
             w == Closing(s).row
             e == IF w.status = tx[s].seen THEN [w EXCEPT !.status = db[Coord].status] ELSE w
  <1>1. v \in NodeRow /\ Backed(v) /\ (Coord \in Approved => Coord \in v.appr)
    BY ViewBacked
  <1>2. Coord \in Nodes /\ db[Coord].status \in Status
    BY NodesAssumption DEF IInv, RowsOK, NodeRow
  <1>3. Keeps(w, v)
    <2>1. Keeps(v, v) /\ Keeps(MarkPrepared(v), v) /\ Keeps(Reconcile(v), v)
      BY <1>1, PreparingKeeps, ReconcilingKeeps, IInvTypeOK, NodesAssumption DEF Keeps
    <2>2. Keeps([v EXCEPT !.status = "COMMITTED_PENDING_APPLY"], v)
      BY <1>1 DEF Keeps, NodeRow, Status, Certified
    <2>3. w \in {v, MarkPrepared(v), Reconcile(v), [v EXCEPT !.status = "COMMITTED_PENDING_APPLY"]}
      BY DEF Closing
    <2> QED BY <2>1, <2>2, <2>3
  <1> HIDE DEF w
  <1>4. e \in NodeRow /\ e.appr = v.appr /\ e.cert = v.cert /\ e.cleared = v.cleared
    BY <1>2, <1>3 DEF Keeps, NodeRow
  <1>5. /\ db' = [db EXCEPT ![Coord] = e] /\ tx' = [tx EXCEPT ![s] = Idle]
        /\ UNCHANGED <<now, net>>
    BY DEF Commit, w
  <1> HIDE DEF e
  <1>6. /\ Coord \in db[Coord].appr => Coord \in e.appr
        /\ e.appr \subseteq Approved \union {Coord}
        /\ e.cert # 0 \/ e.cleared # 0 => Unanimous
    BY <1>1, <1>2, <1>4 DEF Backed, Approved
  <1>7. /\ RowsOK' /\ Approved \subseteq Approved'
        /\ Unanimous => Unanimous'
        /\ \A x : Backed(x) => Backed(x)'
    BY <1>2, <1>4, <1>5, <1>6, RowStep
  <1>8. ASSUME NEW t \in Sessions, t # s, tx[t].locked PROVE Approved' \subseteq Approved
    <2>1. ~tx[s].locked /\ ~LockFree(s)
      BY <1>8 DEF IInv, LockExclusive, LockFree
    <2>2. w = v
      BY <2>1 DEF Commit, MayWrite, w
    <2>3. e.appr \subseteq Approved
      BY <1>1, <1>4 DEF Backed
    <2> QED BY <1>2, <1>5, <2>3 DEF Approved, IInv, RowsOK
  <1>9. tx \in [Sessions -> Transaction] /\ \A t \in Sessions : Sound(tx[t])
    BY DEF IInv, TransactionsOK
  <1>10. ASSUME NEW t \in Sessions PROVE Sound(tx[t])'
    <2>1. CASE t = s
      <3>1. tx'[t] = Idle
        BY <1>5, <1>9, <2>1
      <3>2. Sound(Idle)'
        BY <1>7, IdleSound DEF Sound
      <3> QED BY <3>1, <3>2
    <2>2. CASE t # s
      <3>1. tx'[t] = tx[t] /\ Sound(tx[t])
        BY <1>5, <1>9, <2>2
      <3> QED BY <1>7, <1>8, <2>2, <3>1 DEF Sound, Answering
    <2> QED BY <2>1, <2>2
  <1>11. TransactionsOK' /\ LockExclusive'
    BY <1>5, <1>9, <1>10, IdleSound DEF IInv, TransactionsOK, LockExclusive
  <1>12. RequestsOK'
    BY <1>5, <1>7 DEF IInv, RequestsOK
  <1> QED BY <1>5, <1>7, <1>11, <1>12 DEF IInv, ClockOK

\* Transactions of a node that belong to no command
LEMMA NodePreserves ==
    ASSUME IInv
    PROVE  /\ CreateCycle => IInv'
           /\ \A n \in Nodes : Approve(n) => IInv'
           /\ \A n \in Nodes : Sweep(n) => IInv'
  <1>1. \A n \in Nodes : db[n] \in NodeRow /\ Backed(db[n])
    BY DEF IInv, RowsOK
  <1>2. Coord \in Nodes
    BY NodesAssumption
  <1>3. ASSUME CreateCycle PROVE IInv'
    <2> DEFINE e == [db[Coord] EXCEPT !.status = "DRAFT"]
    <2>1. e \in NodeRow /\ e.appr = db[Coord].appr /\ e.cert = db[Coord].cert
                        /\ e.cleared = db[Coord].cleared
      BY <1>1, <1>2 DEF NodeRow, Status, Collecting
    <2>2. /\ Coord \in db[Coord].appr => Coord \in e.appr
          /\ e.appr \subseteq Approved \union {Coord}
          /\ e.cert # 0 \/ e.cleared # 0 => Unanimous
      BY <1>1, <1>2, <2>1 DEF Backed
    <2>3. db' = [db EXCEPT ![Coord] = e] /\ UNCHANGED <<now, tx, net>>
      BY <1>3 DEF CreateCycle
    <2> HIDE DEF e
    <2>4. /\ RowsOK' /\ Approved \subseteq Approved'
          /\ Unanimous => Unanimous'
          /\ \A v : Backed(v) => Backed(v)'
      BY <1>2, <2>1, <2>2, <2>3, RowStep
    <2>5. Approved' \subseteq Approved
      BY <1>2, <2>1, <2>3 DEF Approved, IInv, RowsOK
    <2>6. \A v : Sound(v) => Sound(v)'
      BY <2>4, <2>5 DEF Sound, Answering
    <2>7. TransactionsOK' /\ LockExclusive' /\ RequestsOK'
      BY <2>3, <2>4, <2>6 DEF IInv, TransactionsOK, LockExclusive, RequestsOK
    <2> QED BY <2>3, <2>4, <2>7 DEF IInv, ClockOK
  <1>4. ASSUME NEW n \in Nodes, Approve(n) PROVE IInv'
    <2> DEFINE e == AddApprovals({n}, db[n])
    <2>1. e \in NodeRow /\ e.appr = db[n].appr \union {n} /\ e.cert = db[n].cert
                        /\ e.cleared = db[n].cleared
      BY <1>1, ApprovalsAdded
    <2>2. /\ n \in db[n].appr => n \in e.appr
          /\ e.appr \subseteq Approved \union {n}
          /\ e.cert # 0 \/ e.cleared # 0 => Unanimous
      BY <1>1, <2>1 DEF Backed
    <2>3. /\ db' = [db EXCEPT ![n] = e] /\ net' \subseteq net /\ UNCHANGED <<now, tx>>
          /\ n = Coord => \A s \in Sessions : ~tx[s].locked
      BY <1>4 DEF Approve
    <2> HIDE DEF e
    <2> QED BY <2>1, <2>2, <2>3, NodeStep
  <1>5. ASSUME NEW n \in Nodes, Sweep(n) PROVE IInv'
    <2> DEFINE e == ReleaseLocal("PREPARE_EXPIRED", db[n])
    <2>1. Keeps(e, db[n])
      BY <1>1, ReleasingKeeps DEF Released
    <2>2. /\ e \in NodeRow
          /\ n \in db[n].appr => n \in e.appr
          /\ e.appr \subseteq Approved \union {n}
          /\ e.cert # 0 \/ e.cleared # 0 => Unanimous
      BY <1>1, <2>1 DEF Backed, Keeps
    <2>3. /\ db' = [db EXCEPT ![n] = e] /\ net' \subseteq net /\ UNCHANGED <<now, tx>>
          /\ n = Coord => \A s \in Sessions : ~tx[s].locked
      BY <1>5 DEF Sweep
    <2> HIDE DEF e
    <2> QED BY <2>2, <2>3, NodeStep
  <1> QED BY <1>3, <1>4, <1>5

LEMMA NextIInv == IInv /\ [Next]_vars => IInv'
  <1> SUFFICES ASSUME IInv, [Next]_vars PROVE IInv'
    OBVIOUS
  <1>1. CASE UNCHANGED vars
    <2>1. Approved' = Approved
      BY <1>1 DEF vars, Approved
    <2>2. TransactionsOK' /\ LockExclusive'
      BY <1>1, <2>1 DEF vars, IInv, TransactionsOK, LockExclusive, Sound, Backed, Unanimous
    <2> QED BY <1>1, <2>2, RestStands DEF vars
  <1>2. CASE Tick
    <2>1. now' \in Nat /\ UNCHANGED <<db, tx, net>>
      BY <1>2 DEF Tick, IInv, ClockOK
    <2>2. Approved' = Approved
      BY <2>1 DEF Approved
    <2>3. RowsOK' /\ RequestsOK'
      BY <2>1, <2>2 DEF IInv, RowsOK, RequestsOK, Backed, Unanimous
    <2>4. TransactionsOK' /\ LockExclusive'
      BY <2>1, <2>2 DEF IInv, TransactionsOK, LockExclusive, Sound, Backed, Unanimous
    <2> QED BY <2>1, <2>3, <2>4 DEF IInv, ClockOK
  <1>3. CASE CreateCycle
    BY <1>3, NodePreserves
  <1>4. CASE \E s \in Sessions : \/ \E op \in Operations : Begin(s, op)
                                \/ BeginSweepRecovery(s) \/ Step(s) \/ Rollback(s)
    <2> PICK s \in Sessions : \/ \E op \in Operations : Begin(s, op)
                              \/ BeginSweepRecovery(s) \/ Step(s) \/ Rollback(s)
      BY <1>4
    <2>1. CASE (\E op \in Operations : Begin(s, op)) \/ BeginSweepRecovery(s)
      BY <2>1, BeginPreserves
    <2>2. CASE Rollback(s)
      BY <2>2, RollbackPreserves
    <2>3. CASE Open(s)
      BY <2>3, OpenPreserves
    <2>4. CASE Local(s)
      BY <2>4, LocalPreserves
    <2>5. CASE Visit(s)
      BY <2>5, VisitPreserves
    <2>6. CASE Commit(s)
      BY <2>6, CommitPreserves
    <2> QED BY <2>1, <2>2, <2>3, <2>4, <2>5, <2>6 DEF Step
  <1>5. CASE \E r \in net : Late(r)
    BY <1>5, LatePreserves
  <1>6. CASE \E n \in Nodes : Approve(n) \/ Sweep(n)
    BY <1>6, NodePreserves
  <1> QED BY <1>1, <1>2, <1>3, <1>4, <1>5, <1>6 DEF Next, Proceed, Command

-----------------------------------------------------------------------------
\* Theorems

LEMMA InvariantHolds == Spec => []IInv
  <1> QED BY InitIInv, NextIInv, PTL DEF Spec

\* The rows, transactions and requests keep their types.
THEOREM TypeCorrect == Spec => []TypeOK
  <1> QED BY InvariantHolds, IInvTypeOK, PTL

\* For any participants, coordinator, affected nodes, number of coordinator sessions,
\* expiry and load: no node reduces its obligations before every affected node has signed
\* its approval.
THEOREM NobodyAppliesUnapproved == Spec => []ApplyNeedsEveryApproval
  <1>1. IInv => ApplyNeedsEveryApproval
    BY NodesAssumption DEF IInv, RowsOK, Backed, Unanimous, Approved, ApplyNeedsEveryApproval
  <1> QED BY <1>1, InvariantHolds, PTL

-----------------------------------------------------------------------------
\* The inductive invariant: certificates are kept and receipts are true

\* The rows w keep the certificate, the cleared obligations and the proof that d has.
Follows(w, d) == /\ d.cert # 0 => w.cert = d.cert
                 /\ d.cleared # 0 => w.cleared = d.cleared
                 /\ d.proof => w.proof

\* Where the coordinator's rows d look up what m cleared: its own column, or the node itself.
ClearedAt(m, d) == IF m = Coord THEN d.cleared ELSE db[m].cleared

\* The coordinator's rows d hold an apply receipt only of a node that has cleared under their
\* certificate, and a proof only with the receipts of all affected nodes.
Honest(d) ==
    /\ d.status \in Certified => d.cert # 0
    /\ d.cleared \in {0, d.cert}
    /\ \A m \in d.done : d.cert # 0 /\ ClearedAt(m, d) = d.cert
    /\ d.proof => Affected \subseteq d.done

\* A participant clears under the certificate it stores, and its receipt says so.
Settled(n, d) == d.cleared \in {0, d.cert} /\ (n \in d.done => d.cert # 0 /\ d.cleared = d.cert)

\* What a transaction carries goes on from the committed rows; it sends out a certificate, and
\* an answer names the certificate its node has cleared under.
Carries(u) ==
    /\ Honest(u.work)
    /\ u.locked => Follows(u.work, db[Coord])
    /\ ~u.locked => u.work.status = u.seen /\ (u.work.cert # 0 => db[Coord].cert = u.work.cert)
    /\ u.opened /\ u.op \in {"commit", "recover"} => u.work.cert # 0
    /\ u.reply.arrived => \A n \in Nodes : Answering(u, n) =>
         /\ n # Coord
         /\ u.op \in {"commit", "recover"} /\ u.reply.cert # 0 => db[n].cleared = u.reply.cert

FinalityInv ==
    /\ now # 0
    /\ Honest(db[Coord])
    /\ \A n \in Nodes \ {Coord} : Settled(n, db[n])
    /\ \A s \in Sessions : Carries(tx[s])
    /\ \A r \in net : r.op \in {"commit", "recover"} => r.cert # 0

LEMMA InitFinality == Init => FinalityInv
  <1> SUFFICES ASSUME Init PROVE FinalityInv
    OBVIOUS
  <1> USE DEF Init
  <1>1. NoRow \in NodeRow
    BY DEF NoRow, NodeRow, Status
  <1>2. Honest(NoRow) /\ \A n \in Nodes : Settled(n, NoRow)
    BY <1>1 DEF Honest, Settled, NoRow, Certified
  <1>3. /\ Idle.work = NoRow /\ Idle.seen = NoRow.status /\ NoRow.cert = 0 /\ Idle.op = "idle"
        /\ ~Idle.locked /\ ~Idle.reply.arrived
    BY IdleSound DEF Idle, NoRow
  <1>4. Carries(Idle)
    BY <1>2, <1>3 DEF Carries
  <1> QED BY <1>2, <1>4, NodesAssumption DEF FinalityInv

-----------------------------------------------------------------------------
\* What the operators of the service do to the fields that are final

\* Rows that differ in nothing final, unless a status that needs no certificate
Quiet(w, d) == /\ w.cert = d.cert /\ w.cleared = d.cleared /\ w.done = d.done /\ w.proof = d.proof
               /\ w.status \in Certified => d.status \in Certified

LEMMA QuietKeeps ==
    ASSUME NEW d, NEW w, Quiet(w, d)
    PROVE  /\ Follows(w, d)
           /\ Honest(d) => Honest(w)
           /\ \A n : Settled(n, d) => Settled(n, w)
  <1>1. \A m : ClearedAt(m, w) = ClearedAt(m, d)
    BY DEF Quiet, ClearedAt
  <1> QED BY <1>1 DEF Quiet, Follows, Honest, Settled

LEMMA FollowsTransitive ==
    ASSUME NEW a, NEW b, NEW c, Follows(a, b), Follows(b, c)
    PROVE  Follows(a, c)
  BY DEF Follows

LEMMA QuietOperators ==
    ASSUME NEW n \in Nodes, NEW d \in NodeRow, NEW M \in SUBSET Nodes, NEW outcome \in Released
    PROVE  /\ Quiet(d, d)
           /\ Quiet(SnapshotLocal(n, d), d) /\ Quiet(AcceptSnapshots(M, d), d)
           /\ Quiet(PrepareLocal(n, d), d) /\ Quiet(MarkPrepared(d), d) /\ Quiet(AcceptPrepares(M, d), d)
           /\ Quiet(AcceptProposal(d), d) /\ Quiet(AddApprovals(M, d), d)
           /\ Quiet(FreeObligations(d), d) /\ Quiet(ReleaseLocal(outcome, d), d)
           /\ Quiet(EnterApplying(d), d)
  <1> USE DEF Quiet, NodeRow, Certified, Live, Released
  <1>1. Quiet(SnapshotLocal(n, d), d) /\ Quiet(AcceptSnapshots(M, d), d)
    BY DEF SnapshotLocal, AcceptSnapshots
  <1>2. Quiet(PrepareLocal(n, d), d)
    BY DEF PrepareLocal
  <1>3. Quiet(MarkPrepared(d), d)
    BY DEF MarkPrepared
  <1>4. Quiet(AcceptPrepares(M, d), d)
    <2> DEFINE e == [d EXCEPT !.prep = @ \union M]
    <2>1. Quiet(e, d) /\ Quiet(MarkPrepared(e), e)
      BY DEF MarkPrepared
    <2> QED BY <2>1 DEF AcceptPrepares
  <1>5. Quiet(AcceptProposal(d), d) /\ Quiet(AddApprovals(M, d), d)
    BY DEF AcceptProposal, AddApprovals
  <1>6. Quiet(FreeObligations(d), d)
    BY DEF FreeObligations
  <1>7. Quiet(ReleaseLocal(outcome, d), d)
    BY DEF ReleaseLocal, FreeObligations
  <1>8. Quiet(EnterApplying(d), d)
    BY DEF EnterApplying
  <1> QED BY <1>1, <1>2, <1>3, <1>4, <1>5, <1>6, <1>7, <1>8

\* Clearing and the receipt are written under the certificate of the row.
LEMMA ApplyingSettles ==
    ASSUME NEW n \in Nodes, NEW d \in NodeRow, Settled(n, d)
    PROVE  /\ n \in ApplyLocal(n, d).done
           /\ \A e \in {ClearObligations(EnterApplying(d)), ApplyLocal(n, d)} :
             /\ e.cert = d.cert /\ e.proof = d.proof /\ Follows(e, d)
             /\ e.cleared \in {0, e.cert}
             /\ e.done \in {d.done, d.done \union {n}}
             /\ e.status \in Certified => d.status \in Certified \/ n \notin d.done
             /\ d.cert # 0 => Settled(n, e)
  <1> DEFINE a == EnterApplying(d)
             b == ClearObligations(a)
             f == FinishApply(n, b)
  <1>1. a \in NodeRow /\ Quiet(a, d)
    BY ApplyingClears, QuietOperators DEF Keeps, Released
  <1>2. /\ b.cert = d.cert /\ b.cleared = d.cert /\ b.done = d.done /\ b.proof = d.proof
        /\ b.status = a.status
    BY <1>1 DEF ClearObligations, NodeRow, Quiet
  <1>3. /\ f.cert = d.cert /\ f.cleared = d.cert /\ f.done = d.done \union {n} /\ f.proof = d.proof
    BY <1>1 DEF ClearObligations, FinishApply, NodeRow, Quiet
  <1>4. Follows(b, d) /\ Follows(f, d)
    BY <1>2, <1>3 DEF Follows, Settled
  <1>5. ApplyLocal(n, d) = IF n \in d.done THEN d ELSE f
    BY DEF ApplyLocal
  <1> HIDE DEF a, b, f
  <1>6. b = ClearObligations(EnterApplying(d)) /\ Follows(d, d)
    BY DEF a, b, Follows
  <1> QED BY <1>1, <1>2, <1>3, <1>4, <1>5, <1>6 DEF Quiet, Settled

LEMMA CertificateKept ==
    ASSUME NEW d \in NodeRow, NEW c \in Nat
    PROVE  LET e == StoreCertificate(c, d)
           IN  /\ e.cleared = d.cleared /\ e.done = d.done /\ e.proof = d.proof
               /\ Follows(e, d) /\ e.cert = IF d.cert # 0 THEN d.cert ELSE c
               /\ \A n : c # 0 /\ Settled(n, d) => Settled(n, e)
  <1> DEFINE e == [d EXCEPT !.cert = c, !.status = "COMMIT_CERTIFIED"]
  <1>1. e.cert = c /\ e.cleared = d.cleared /\ e.done = d.done /\ e.proof = d.proof
    BY DEF NodeRow
  <1>2. StoreCertificate(c, d) = IF d.cert # 0 THEN d ELSE e
    BY DEF StoreCertificate
  <1> HIDE DEF e
  <1> QED BY <1>1, <1>2 DEF Follows, Settled

-----------------------------------------------------------------------------
\* How the invariant is kept

SameFinal(w, d) == w.cert = d.cert /\ w.cleared = d.cleared /\ w.proof = d.proof

\* What any transaction carries stays true while committed rows keep what is final, and what
\* the holder of the lock carries while nobody else changes that at the coordinator.
LEMMA CarriedOn ==
    ASSUME \A n \in Nodes : Follows(db'[n], db[n])
    PROVE  /\ \A d : d \in NodeRow /\ Honest(d) => Honest(d)'
           /\ \A u : /\ u \in Transaction /\ Carries(u)
                     /\ u.locked => SameFinal(db'[Coord], db[Coord])
                     => Carries(u)'
  <1>1. ASSUME NEW d, d \in NodeRow, Honest(d) PROVE Honest(d)'
    <2>1. \A m \in d.done : m \in Nodes /\ d.cert # 0 /\ ClearedAt(m, d) = d.cert
      BY <1>1 DEF Honest, NodeRow
    <2>2. \A m \in d.done : ClearedAt(m, d)' = d.cert
      BY <2>1 DEF ClearedAt, Follows
    <2> QED BY <1>1, <2>1, <2>2 DEF Honest
  <1>2. ASSUME NEW u, u \in Transaction, Carries(u), u.locked => SameFinal(db'[Coord], db[Coord])
        PROVE  Carries(u)'
    <2>1. Honest(u.work)'
      BY <1>1, <1>2 DEF Carries, Transaction
    <2>2. u.locked => Follows(u.work, db'[Coord])
      BY <1>2 DEF Carries, Follows, SameFinal
    <2>3. ~u.locked => u.work.status = u.seen /\ (u.work.cert # 0 => db'[Coord].cert = u.work.cert)
      BY <1>2, NodesAssumption DEF Carries, Follows
    <2>4. \A n \in Nodes : \A c : c # 0 /\ db[n].cleared = c => db'[n].cleared = c
      BY DEF Follows
    <2>5. u.reply.arrived => \A n \in Nodes : Answering(u, n) =>
             /\ n # Coord
             /\ u.op \in {"commit", "recover"} /\ u.reply.cert # 0 => db'[n].cleared = u.reply.cert
      BY <1>2, <2>4 DEF Carries
    <2>6. \A n : Answering(u, n)' <=> Answering(u, n)
      BY DEF Answering
    <2> QED BY <1>2, <2>1, <2>2, <2>3, <2>5, <2>6 DEF Carries
  <1> QED BY <1>1, <1>2

SendsCertificate(r) == r.op \in {"commit", "recover"} => r.cert # 0

\* A step of one session that commits nothing
LEMMA FinalitySession ==
    ASSUME IInv, FinalityInv, NEW s \in Sessions, NEW u, u \in Transaction, Carries(u),
           tx' = [tx EXCEPT ![s] = u], UNCHANGED <<now, db>>, \A r \in net' : SendsCertificate(r)
    PROVE  FinalityInv'
  <1>1. \A n \in Nodes : Follows(db'[n], db[n])
    BY DEF Follows
  <1>2. SameFinal(db'[Coord], db[Coord])
    BY DEF SameFinal
  <1>3. \A d : d \in NodeRow /\ Honest(d) => Honest(d)'
    BY <1>1, CarriedOn
  <1>4. \A v : v \in Transaction /\ Carries(v) => Carries(v)'
    BY <1>1, <1>2, CarriedOn
  <1>5. tx \in [Sessions -> Transaction] /\ \A t \in Sessions : Carries(tx[t])
    BY DEF IInv, TransactionsOK, FinalityInv
  <1>6. \A t \in Sessions : Carries(tx[t])'
    BY <1>4, <1>5
  <1>7. Honest(db[Coord])'
    BY <1>3, NodesAssumption DEF IInv, RowsOK, FinalityInv
  <1> QED BY <1>6, <1>7 DEF FinalityInv, Settled, SendsCertificate

\* The rows a command goes on from
LEMMA ViewFinal ==
    ASSUME IInv, FinalityInv, NEW s \in Sessions
    PROVE  /\ View(s) \in NodeRow /\ Honest(View(s)) /\ Follows(View(s), db[Coord])
           /\ tx[s].work.cert # 0 => View(s).cert # 0
           /\ ~tx[s].locked => View(s).status = tx[s].seen
  <1>1. View(s) \in NodeRow
    BY ViewBacked
  <1>2. tx[s] \in Transaction /\ tx[s].work \in NodeRow /\ Carries(tx[s]) /\ Honest(db[Coord])
    BY DEF IInv, TransactionsOK, FinalityInv, Transaction
  <1>3. CASE tx[s].locked
    BY <1>1, <1>2, <1>3 DEF View, Carries
  <1>4. CASE ~tx[s].locked
    <2> DEFINE v == View(s)
    <2>1. db[Coord] \in NodeRow
      BY NodesAssumption DEF IInv, RowsOK
    <2>2. v = [db[Coord] EXCEPT !.status = tx[s].work.status]
      BY <1>4 DEF View
    <2>3. /\ v.cert = db[Coord].cert /\ v.cleared = db[Coord].cleared /\ v.done = db[Coord].done
          /\ v.proof = db[Coord].proof /\ v.status = tx[s].work.status
      BY <2>1, <2>2 DEF NodeRow
    <2> HIDE DEF v
    <2>4. v.status \in Certified => v.cert # 0
      BY <1>2, <1>4, <2>3 DEF Carries, Honest
    <2>5. \A m : ClearedAt(m, v) = ClearedAt(m, db[Coord])
      BY <2>3 DEF ClearedAt
    <2>6. Honest(v) /\ Follows(v, db[Coord])
      BY <1>2, <2>3, <2>4, <2>5 DEF Honest, Follows
    <2>7. tx[s].work.cert # 0 => v.cert # 0
      BY <1>2, <1>4, <2>3 DEF Carries
    <2>8. v.status = tx[s].seen
      BY <1>2, <1>4, <2>3 DEF Carries
    <2> QED BY <1>1, <2>6, <2>7, <2>8 DEF v
  <1> QED BY <1>3, <1>4

LEMMA FinalityWrite ==
    ASSUME IInv, FinalityInv, NEW s \in Sessions, NEW w \in NodeRow, Honest(w), Follows(w, View(s)),
           NEW todo \in SUBSET Nodes, NEW failed \in BOOLEAN,
           tx[s].op \in {"commit", "recover"} => w.cert # 0,
           Write(s, w, todo, failed), UNCHANGED <<now, db, net>>
    PROVE  FinalityInv'
  <1> DEFINE u == [tx[s] EXCEPT !.locked = TRUE, !.work = w, !.opened = TRUE,
                                !.todo = todo, !.failed = failed, !.reply = NoReply]
  <1>1. tx[s] \in Transaction
    BY DEF IInv, TransactionsOK
  <1>2. u \in Transaction
    BY <1>1 DEF Transaction, NoReply
  <1>3. /\ u.work = w /\ u.op = tx[s].op /\ u.opened /\ u.locked /\ ~u.reply.arrived
    BY <1>1 DEF Transaction, NoReply
  <1>4. Follows(w, db[Coord])
    BY ViewFinal, FollowsTransitive
  <1>5. Carries(u)
    BY <1>3, <1>4 DEF Carries
  <1>6. tx' = [tx EXCEPT ![s] = u]
    BY DEF Write
  <1>7. \A r \in net' : SendsCertificate(r)
    BY DEF FinalityInv, SendsCertificate
  <1> HIDE DEF u
  <1> QED BY <1>2, <1>5, <1>6, <1>7, FinalitySession

LEMMA FinalitySkip ==
    ASSUME IInv, FinalityInv, NEW s \in Sessions, NEW todo \in SUBSET Nodes, NEW failed \in BOOLEAN,
           tx[s].op \in {"commit", "recover"} => tx[s].work.cert # 0,
           Skip(s, todo, failed), UNCHANGED <<now, db>>, \A r \in net' : SendsCertificate(r)
    PROVE  FinalityInv'
  <1> DEFINE u == [tx[s] EXCEPT !.opened = TRUE, !.todo = todo, !.failed = failed,
                                !.reply = NoReply]
  <1>1. tx[s] \in Transaction /\ Carries(tx[s])
    BY DEF IInv, TransactionsOK, FinalityInv
  <1>2. u \in Transaction
    BY <1>1 DEF Transaction, NoReply
  <1>3. /\ u.work = tx[s].work /\ u.op = tx[s].op /\ u.locked = tx[s].locked /\ u.seen = tx[s].seen
        /\ u.opened /\ ~u.reply.arrived
    BY <1>1 DEF Transaction, NoReply
  <1>4. Carries(u)
    BY <1>1, <1>3 DEF Carries
  <1>5. tx' = [tx EXCEPT ![s] = u]
    BY DEF Skip
  <1> HIDE DEF u
  <1> QED BY <1>2, <1>4, <1>5, FinalitySession

\* A row of a node changes and no command does.
LEMMA FinalityRow ==
    ASSUME IInv, FinalityInv, NEW n \in Nodes, NEW e, Quiet(e, db[n]), db' = [db EXCEPT ![n] = e],
           UNCHANGED <<now, tx>>, net' \subseteq net
    PROVE  FinalityInv'
  <1>1. db \in [Nodes -> NodeRow] /\ Coord \in Nodes
    BY NodesAssumption DEF IInv, RowsOK
  <1>2. \A m \in Nodes : db'[m] = IF m = n THEN e ELSE db[m]
    BY <1>1
  <1>3. \A m \in Nodes : Quiet(db'[m], db[m])
    BY <1>2 DEF Quiet
  <1>4. \A m \in Nodes : Follows(db'[m], db[m]) /\ (Settled(m, db[m]) => Settled(m, db'[m]))
    BY <1>3, QuietKeeps
  <1>5. SameFinal(db'[Coord], db[Coord]) /\ (Honest(db[Coord]) => Honest(db'[Coord]))
    BY <1>1, <1>3, QuietKeeps DEF SameFinal, Quiet
  <1>6. Honest(db[Coord])'
    <2>1. \A m \in Nodes : ClearedAt(m, db[Coord])' = ClearedAt(m, db[Coord])
      BY <1>1, <1>3 DEF Quiet, ClearedAt
    <2>2. db[Coord].done \subseteq Nodes /\ Honest(db[Coord]) /\ Quiet(db'[Coord], db[Coord])
      BY <1>1, <1>3 DEF NodeRow, FinalityInv
    <2> QED BY <2>1, <2>2 DEF Honest, Quiet
  <1>7. \A u : u \in Transaction /\ Carries(u) => Carries(u)'
    BY <1>4, <1>5, CarriedOn
  <1>8. \A s \in Sessions : Carries(tx[s])'
    BY <1>7 DEF IInv, TransactionsOK, FinalityInv
  <1>9. \A m \in Nodes \ {Coord} : Settled(m, db[m])'
    BY <1>4 DEF FinalityInv, Settled
  <1> QED BY <1>6, <1>8, <1>9 DEF FinalityInv

-----------------------------------------------------------------------------
\* One lemma per group of actions

LEMMA BeginFinality ==
    ASSUME IInv, FinalityInv, NEW s \in Sessions
    PROVE  /\ \A op \in Operations : Begin(s, op) => FinalityInv'
           /\ BeginSweepRecovery(s) => FinalityInv'
           /\ Rollback(s) => FinalityInv'
  <1>1. /\ db[Coord] \in NodeRow /\ Honest(db[Coord]) /\ Affected \subseteq Nodes
        /\ db[Coord].status \in Status
    BY NodesAssumption DEF IInv, RowsOK, FinalityInv, NodeRow
  <1>2. \A op \in Operations : Visited(op) \in SUBSET Nodes
    BY <1>1 DEF Visited
  <1>3. \A r \in net : SendsCertificate(r)
    BY DEF FinalityInv, SendsCertificate
  <1>4. ASSUME NEW op \in Operations, Begin(s, op) PROVE FinalityInv'
    <2> DEFINE o == op \in {"collect", "approvals", "release"}
               u == [Idle EXCEPT !.op = op, !.todo = Visited(op), !.opened = o,
                        !.seen = db[Coord].status, !.work = db[Coord]]
    <2>0. o \in BOOLEAN
      OBVIOUS
    <2> HIDE DEF o
    <2>1. u \in Transaction
      BY <1>1, <1>2, <2>0, IdleSound DEF Transaction
    <2>2. /\ u.op = op /\ u.opened = o /\ u.work = db[Coord] /\ u.seen = db[Coord].status
          /\ ~u.locked /\ ~u.reply.arrived
      BY IdleSound DEF Transaction
    <2>3. Carries(u)
      BY <1>1, <2>2 DEF Carries, o
    <2>4. tx' = [tx EXCEPT ![s] = u] /\ UNCHANGED <<now, db, net>>
      BY <1>4 DEF Begin, o
    <2> HIDE DEF u
    <2> QED BY <1>3, <2>1, <2>3, <2>4, FinalitySession
  <1>5. ASSUME BeginSweepRecovery(s) PROVE FinalityInv'
    <2> DEFINE u == [Idle EXCEPT !.op = "recover", !.todo = Affected, !.locked = TRUE,
                        !.seen = db[Coord].status, !.work = db[Coord]]
    <2>1. u \in Transaction
      BY <1>1, IdleSound DEF Transaction, Operations
    <2>2. u.work = db[Coord] /\ u.locked /\ ~u.opened /\ ~u.reply.arrived
      BY IdleSound DEF Transaction
    <2>3. Carries(u)
      BY <1>1, <2>2 DEF Carries, Follows
    <2>4. tx' = [tx EXCEPT ![s] = u] /\ UNCHANGED <<now, db, net>>
      BY <1>5 DEF BeginSweepRecovery
    <2> HIDE DEF u
    <2> QED BY <1>3, <2>1, <2>3, <2>4, FinalitySession
  <1>6. ASSUME Rollback(s) PROVE FinalityInv'
    <2>1. tx' = [tx EXCEPT ![s] = Idle] /\ UNCHANGED <<now, db, net>>
      BY <1>6 DEF Rollback
    <2>2. Honest(NoRow) /\ Idle.work = NoRow /\ NoRow.cert = 0 /\ Idle.seen = NoRow.status
      BY DEF Idle, NoRow, Honest, Certified
    <2>3. Carries(Idle)
      BY <2>2, IdleSound DEF Carries
    <2> QED BY <1>3, <2>1, <2>3, IdleSound, FinalitySession
  <1> QED BY <1>4, <1>5, <1>6

LEMMA OpenFinality ==
    ASSUME IInv, FinalityInv, NEW s \in Sessions, Open(s)
    PROVE  FinalityInv'
  <1> DEFINE v == View(s)
  <1>1. /\ v \in NodeRow /\ Honest(v) /\ (tx[s].work.cert # 0 => v.cert # 0)
    BY ViewFinal
  <1>2. tx[s] \in Transaction /\ Carries(tx[s]) /\ Sound(tx[s])
    BY DEF IInv, TransactionsOK, FinalityInv
  <1>3. tx[s].todo \in SUBSET Nodes /\ FALSE \in BOOLEAN
    BY <1>2 DEF Transaction
  <1>4. ASSUME NEW w, w \in NodeRow, Quiet(w, v), Write(s, w, tx[s].todo, FALSE),
               tx[s].op \in {"commit", "recover"} => v.cert # 0, UNCHANGED <<now, db, net>>
        PROVE  FinalityInv'
    <2>1. Honest(w) /\ Follows(w, v) /\ w.cert = v.cert
      BY <1>1, <1>4, QuietKeeps DEF Quiet
    <2> HIDE DEF v
    <2>2. Follows(w, View(s))
      BY <2>1 DEF v
    <2> QED BY <1>3, <1>4, <2>1, <2>2, FinalityWrite
  <1>5. CASE OpenPrepare(s)
    <2> DEFINE w == [v EXCEPT !.status = "PREPARING_NODES"]
    <2>1. w \in NodeRow /\ Quiet(w, v)
      BY <1>1 DEF NodeRow, Status, Live, Certified, Quiet
    <2>2. tx[s].op = "prepare" /\ Write(s, w, tx[s].todo, FALSE) /\ UNCHANGED <<now, db, net>>
      BY <1>5 DEF OpenPrepare
    <2> HIDE DEF w
    <2> QED BY <1>4, <2>1, <2>2
  <1>6. CASE OpenPropose(s)
    <2> DEFINE w == AcceptProposal(v)
    <2>1. w \in NodeRow
      BY <1>1, PreparingKeeps, IInvTypeOK, NodesAssumption DEF Keeps
    <2>2. Quiet(w, v)
      BY <1>1, QuietOperators, NodesAssumption DEF Released
    <2>3. tx[s].op = "propose" /\ Write(s, w, tx[s].todo, FALSE) /\ UNCHANGED <<now, db, net>>
      BY <1>6 DEF OpenPropose
    <2> HIDE DEF w
    <2> QED BY <1>4, <2>1, <2>2, <2>3
  <1>7. CASE OpenCommit(s)
    <2> DEFINE w == StoreCertificate(now, v)
    <2>1. now \in Nat /\ now # 0
      BY DEF IInv, ClockOK, FinalityInv
    <2>2. w \in NodeRow
      BY <1>1, <2>1, CertificateStored
    <2>3. /\ w.cleared = v.cleared /\ w.done = v.done /\ w.proof = v.proof
          /\ Follows(w, v) /\ w.cert = IF v.cert # 0 THEN v.cert ELSE now
      BY <1>1, <2>1, CertificateKept
    <2>4. \A m : ClearedAt(m, w) = ClearedAt(m, v)
      BY <2>3 DEF ClearedAt
    <2>5. Honest(w) /\ w.cert # 0
      BY <1>1, <2>1, <2>3, <2>4 DEF Honest
    <2>6. Write(s, w, tx[s].todo, FALSE) /\ UNCHANGED <<now, db, net>> /\ Follows(w, View(s))
      BY <1>7, <2>3 DEF OpenCommit
    <2> HIDE DEF w
    <2> QED BY <1>3, <2>2, <2>5, <2>6, FinalityWrite
  <1>8. CASE OpenRecover(s)
    <2> DEFINE w == [v EXCEPT !.status = "APPLYING"]
               u == [tx[s] EXCEPT !.op = "approvals", !.opened = TRUE]
    <2>1. CASE tx[s].work.cert = 0 /\ tx' = [tx EXCEPT ![s] = u]
      <3>1. u \in Transaction
        BY <1>2 DEF Transaction, Operations
      <3>2. /\ u.op = "approvals" /\ u.opened /\ u.work = tx[s].work /\ u.seen = tx[s].seen
            /\ u.reply = tx[s].reply /\ u.locked = tx[s].locked
        BY <1>2 DEF Transaction
      <3>3. ~tx[s].opened /\ UNCHANGED <<now, db, net>>
        BY <1>8 DEF OpenRecover
      <3>4. Carries(u)
        BY <1>2, <3>2, <3>3 DEF Carries, Sound
      <3>5. \A r \in net' : SendsCertificate(r)
        BY <3>3 DEF FinalityInv, SendsCertificate
      <3> HIDE DEF u
      <3> QED BY <2>1, <3>1, <3>3, <3>4, <3>5, FinalitySession
    <2>2. CASE tx[s].work.cert # 0 /\ v.status = "COMMITTED_PENDING_APPLY"
      <3>1. w \in NodeRow /\ Quiet(w, v)
        BY <1>1, <2>2 DEF NodeRow, Status, Certified, Quiet
      <3>2. Write(s, w, tx[s].todo, FALSE) /\ UNCHANGED <<now, db, net>>
        BY <1>8, <2>2 DEF OpenRecover
      <3> HIDE DEF w
      <3> QED BY <1>1, <1>4, <2>2, <3>1, <3>2
    <2>3. CASE tx[s].work.cert # 0 /\ v.status # "COMMITTED_PENDING_APPLY"
      <3>1. Skip(s, tx[s].todo, FALSE) /\ UNCHANGED <<now, db, net>>
        BY <1>8, <2>3 DEF OpenRecover
      <3>2. \A r \in net' : SendsCertificate(r)
        BY <3>1 DEF FinalityInv, SendsCertificate
      <3> QED BY <1>3, <2>3, <3>1, <3>2, FinalitySkip
    <2> QED BY <1>8, <2>1, <2>2, <2>3 DEF OpenRecover
  <1> QED BY <1>5, <1>6, <1>7, <1>8 DEF Open

\* The loop goes on to the next node, with changed rows or without.
LEMMA AdvanceFinality ==
    ASSUME IInv, FinalityInv, NEW s \in Sessions, NEW n \in Nodes, NEW failed \in BOOLEAN,
           tx[s].opened, UNCHANGED <<now, db>>
    PROVE  /\ Skip(s, tx[s].todo \ {n}, failed) /\ (\A r \in net' : SendsCertificate(r)) => FinalityInv'
           /\ \A w : /\ w \in NodeRow /\ Honest(w) /\ Follows(w, View(s)) /\ net' = net
                     /\ Write(s, w, tx[s].todo \ {n}, failed)
                     => FinalityInv'
  <1>1. tx[s].todo \ {n} \in SUBSET Nodes
    BY DEF IInv, TransactionsOK, Transaction
  <1>2. tx[s].op \in {"commit", "recover"} => tx[s].work.cert # 0 /\ View(s).cert # 0
    BY ViewFinal DEF FinalityInv, Carries
  <1>3. ASSUME Skip(s, tx[s].todo \ {n}, failed), \A r \in net' : SendsCertificate(r) PROVE FinalityInv'
    BY <1>1, <1>2, <1>3, FinalitySkip
  <1>4. ASSUME NEW w, w \in NodeRow, Honest(w), Follows(w, View(s)), net' = net,
               Write(s, w, tx[s].todo \ {n}, failed)
        PROVE  FinalityInv'
    <2>1. tx[s].op \in {"commit", "recover"} => w.cert # 0
      BY <1>2, <1>4 DEF Follows
    <2> QED BY <1>1, <1>4, <2>1, FinalityWrite
  <1> QED BY <1>3, <1>4

LEMMA LocalFinality ==
    ASSUME IInv, FinalityInv, NEW s \in Sessions, Local(s)
    PROVE  FinalityInv'
  <1> DEFINE v == View(s)
  <1>1. v \in NodeRow /\ Honest(v) /\ Coord \in Nodes /\ TypeOK
    BY ViewFinal, NodesAssumption, IInvTypeOK
  <1>2. tx[s] \in Transaction /\ tx[s].failed \in BOOLEAN /\ tx[s].work.cert \in Nat
    BY DEF IInv, TransactionsOK, Transaction, NodeRow
  <1>3. ASSUME NEW w, w \in NodeRow, Quiet(w, v) PROVE Honest(w) /\ Follows(w, View(s))
    BY <1>1, <1>3, QuietKeeps
  <1>4. /\ Quiet(v, v) /\ Quiet(SnapshotLocal(Coord, v), v) /\ Quiet(PrepareLocal(Coord, v), v)
        /\ Quiet(EnterApplying(v), v)
    BY <1>1, QuietOperators DEF Released
  <1>5. SnapshotLocal(Coord, v) \in NodeRow /\ PrepareLocal(Coord, v) \in NodeRow
    BY <1>1, CollectingKeeps, PreparingKeeps DEF Keeps
  <1>6. CASE LocalSnapshot(s)
    <2> DEFINE w == SnapshotLocal(Coord, v)
    <2>1. w \in NodeRow /\ Honest(w) /\ Follows(w, View(s))
      BY <1>3, <1>4, <1>5
    <2>2. /\ tx[s].opened /\ UNCHANGED <<now, db, net>>
          /\ Write(s, w, tx[s].todo \ {Coord}, tx[s].failed)
      BY <1>6 DEF LocalSnapshot, Current
    <2> HIDE DEF w, v
    <2> QED BY <1>1, <1>2, <2>1, <2>2, AdvanceFinality
  <1>7. CASE \E fits \in BOOLEAN : LocalPrepare(s, fits)
    <2> PICK fits \in BOOLEAN : LocalPrepare(s, fits)
      BY <1>7
    <2> DEFINE ok == CanPrepareLocal(Coord, v) /\ (fits \/ Coord \in v.prep)
               w  == IF ok THEN PrepareLocal(Coord, v) ELSE v
    <2>1. w \in NodeRow /\ Honest(w) /\ Follows(w, View(s))
      BY <1>1, <1>3, <1>4, <1>5
    <2>2. /\ tx[s].opened /\ UNCHANGED <<now, db, net>>
          /\ Write(s, w, tx[s].todo \ {Coord}, tx[s].failed \/ ~ok)
      BY DEF LocalPrepare, Current
    <2>3. (tx[s].failed \/ ~ok) \in BOOLEAN
      OBVIOUS
    <2> HIDE DEF ok, w, v
    <2> QED BY <1>1, <2>1, <2>2, <2>3, AdvanceFinality
  <1>8. CASE LocalApply(s)
    <2> DEFINE ok == CanApply(Coord, v)
               w  == CASE ok -> ApplyLocal(Coord, v)
                       [] ~ok /\ v.status \notin Certified -> v
                       [] ~ok /\ v.status \in Certified /\ ~CanClear(Coord, v) -> EnterApplying(v)
                       [] OTHER -> ClearObligations(EnterApplying(v))
    <2>1. w \in {v, EnterApplying(v), ClearObligations(EnterApplying(v)), ApplyLocal(Coord, v)}
      OBVIOUS
    <2>2. w \in NodeRow
      BY <1>1, <2>1, ApplyingClears DEF Keeps
    <2>3. Settled(Coord, v)
      BY <1>1 DEF Honest, Settled, ClearedAt
    <2>4. w \in {v, EnterApplying(v)} \/ v.cert # 0
      <3>1. w \notin {v, EnterApplying(v)} => v.status \in Certified
        BY DEF CanApply, ApplyLocal
      <3> QED BY <1>1, <3>1 DEF Honest
    <2> HIDE DEF w
    <2>5. ASSUME w \in {v, EnterApplying(v)} PROVE Honest(w) /\ Follows(w, v)
      BY <1>1, <1>4, <2>2, <2>5, QuietKeeps
    <2>6. ASSUME v.cert # 0, w \in {ClearObligations(EnterApplying(v)), ApplyLocal(Coord, v)}
          PROVE  Honest(w) /\ Follows(w, v)
      <3>1. /\ w.cert = v.cert /\ w.proof = v.proof /\ Follows(w, v)
            /\ w.done \in {v.done, v.done \union {Coord}}
            /\ Settled(Coord, w)
        BY <1>1, <2>3, <2>6, ApplyingSettles
      <3>2. \A m \in w.done : ClearedAt(m, w) = w.cert
        BY <1>1, <3>1 DEF Honest, Settled, ClearedAt
      <3>3. Honest(w)
        BY <1>1, <2>6, <3>1, <3>2 DEF Honest, Settled
      <3> QED BY <3>1, <3>3
    <2>7. Honest(w) /\ Follows(w, View(s))
      BY <2>1, <2>4, <2>5, <2>6
    <2>8. /\ tx[s].opened /\ UNCHANGED <<now, db, net>>
          /\ Write(s, w, tx[s].todo \ {Coord}, tx[s].failed \/ ~ok)
      BY <1>8 DEF LocalApply, Current, w
    <2>9. (tx[s].failed \/ ~ok) \in BOOLEAN
      OBVIOUS
    <2> HIDE DEF ok
    <2> QED BY <1>1, <2>2, <2>7, <2>8, <2>9, AdvanceFinality
  <1>9. CASE LocalRelease(s)
    <2> DEFINE x  == [v EXCEPT !.cert = tx[s].work.cert]
               ok == CanRelease(x)
               y  == CASE ok -> ReleaseLocal("REJECTED", x)
                       [] ~ok /\ ~ReleaseIsFinal(x) /\ x.status \in Live -> FreeObligations(x)
                       [] OTHER -> x
               w  == [y EXCEPT !.cert = v.cert]
    <2>1. /\ x \in NodeRow /\ x.cleared = v.cleared /\ x.done = v.done /\ x.proof = v.proof
          /\ x.status = v.status
      BY <1>1, <1>2 DEF NodeRow
    <2> HIDE DEF x
    <2>2. y \in {x, FreeObligations(x), ReleaseLocal("REJECTED", x)} /\ "REJECTED" \in Released
      BY DEF Released
    <2>3. y \in NodeRow /\ Quiet(y, x)
      BY <1>1, <2>1, <2>2, ReleasingKeeps, QuietOperators DEF Keeps
    <2> HIDE DEF y
    <2>4. w \in NodeRow /\ Quiet(w, v)
      BY <1>1, <2>1, <2>3 DEF NodeRow, Quiet
    <2>5. Honest(w) /\ Follows(w, View(s))
      BY <1>3, <2>4
    <2>6. /\ tx[s].opened /\ UNCHANGED <<now, db, net>>
          /\ Write(s, w, tx[s].todo \ {Coord}, tx[s].failed \/ ~ok)
      BY <1>9 DEF LocalRelease, Current, x, y
    <2>7. (tx[s].failed \/ ~ok) \in BOOLEAN
      OBVIOUS
    <2> HIDE DEF ok, w, v
    <2> QED BY <1>1, <2>4, <2>5, <2>6, <2>7, AdvanceFinality
  <1> QED BY <1>6, <1>7, <1>8, <1>9 DEF Local

\* A served request keeps what is final at its node; one that applies, clears under the
\* certificate the node then stores.
LEMMA ServeSettles ==
    ASSUME IInv, FinalityInv, NEW r \in Request, r.to # Coord, SendsCertificate(r)
    PROVE  LET d == db[r.to]
               e == Serve(r, d).row
           IN  /\ Follows(e, d) /\ Settled(r.to, e)
               /\ r.op \in {"commit", "recover"} => e.cleared = e.cert
  <1> DEFINE n == r.to
             d == db[n]
             e == Serve(r, d).row
  <1>1. n \in Nodes /\ r.op \in Operations /\ r.cert \in Nat
    BY DEF Request
  <1>2. d \in NodeRow /\ Settled(n, d)
    BY <1>1 DEF IInv, RowsOK, FinalityInv
  <1>3. TypeOK /\ Nodes \in SUBSET Nodes /\ Affected \in SUBSET Nodes /\ "REJECTED" \in Released
    BY IInvTypeOK, NodesAssumption DEF Released
  <1>4. ASSUME NEW f, Quiet(f, d), e = f, r.op \notin {"commit", "recover"}
        PROVE  /\ Follows(e, d) /\ Settled(n, e)
               /\ r.op \in {"commit", "recover"} => e.cleared = e.cert
    BY <1>2, <1>4, QuietKeeps
  <1>5. CASE r.op = "collect"
    <2>1. Quiet(SnapshotLocal(n, d), d) /\ e = SnapshotLocal(n, d)
      BY <1>1, <1>2, <1>3, <1>5, QuietOperators DEF Serve
    <2> QED BY <1>4, <1>5, <2>1
  <1>6. CASE r.op = "prepare"
    <2> DEFINE a == AcceptSnapshots(Nodes, d)
    <2>1. a \in NodeRow /\ Quiet(a, d)
      BY <1>1, <1>2, <1>3, CollectingKeeps, QuietOperators DEF Keeps
    <2> HIDE DEF a
    <2>2. Quiet(PrepareLocal(n, a), a)
      BY <1>1, <1>3, <2>1, QuietOperators
    <2>3. Quiet(PrepareLocal(n, a), d)
      BY <2>1, <2>2 DEF Quiet
    <2>4. e = PrepareLocal(n, a)
      BY <1>6 DEF Serve, a
    <2> QED BY <1>4, <1>6, <2>3, <2>4
  <1>7. CASE r.op = "propose"
    <2>1. Quiet(AcceptProposal(d), d) /\ e = AcceptProposal(d)
      BY <1>1, <1>2, <1>3, <1>7, QuietOperators DEF Serve
    <2> QED BY <1>4, <1>7, <2>1
  <1>8. CASE r.op = "approvals"
    <2>1. Quiet(d, d) /\ e = d
      BY <1>8 DEF Serve, Quiet
    <2> QED BY <1>4, <1>8, <2>1
  <1>9. CASE r.op \in {"commit", "recover"}
    <2> DEFINE a == AcceptPrepares(Affected, d)
               b == AddApprovals(Affected, a)
               c == StoreCertificate(r.cert, b)
               f == ApplyLocal(n, c)
    <2>1. a \in NodeRow /\ Quiet(a, d)
      BY <1>1, <1>2, <1>3, PreparingKeeps, QuietOperators DEF Keeps
    <2>2. b \in NodeRow /\ Quiet(b, a)
      BY <1>1, <1>3, <2>1, ApprovalsAdded, QuietOperators
    <2>3. Follows(b, d) /\ Settled(n, b) /\ r.cert # 0
      BY <1>2, <1>9, <2>1, <2>2, QuietKeeps, FollowsTransitive DEF SendsCertificate
    <2>4. c \in NodeRow
      BY <1>1, <2>2, CertificateStored
    <2>5. Follows(c, b) /\ Settled(n, c) /\ c.cert # 0
      BY <1>1, <2>2, <2>3, CertificateKept
    <2>6. Follows(f, c) /\ Settled(n, f) /\ n \in f.done
      BY <1>1, <2>4, <2>5, ApplyingSettles
    <2>7. e = f
      BY <1>9 DEF Serve
    <2> HIDE DEF a, b, c, f, e
    <2>8. Follows(e, d)
      BY <2>3, <2>5, <2>6, <2>7, FollowsTransitive
    <2>9. Settled(n, e) /\ e.cleared = e.cert
      BY <2>6, <2>7 DEF Settled
    <2> QED BY <2>8, <2>9 DEF e
  <1>10. CASE r.op = "release"
    <2>1. Quiet(ReleaseLocal("REJECTED", d), d) /\ e = ReleaseLocal("REJECTED", d)
      BY <1>1, <1>2, <1>3, <1>10, QuietOperators DEF Serve
    <2> QED BY <1>4, <1>10, <2>1
  <1> QED BY <1>1, <1>5, <1>6, <1>7, <1>8, <1>9, <1>10 DEF Operations

LEMMA ServedFinal ==
    ASSUME IInv, FinalityInv, NEW r \in Request, r.to # Coord, SendsCertificate(r), Served(r)
    PROVE  /\ \A n \in Nodes : Follows(db'[n], db[n])
           /\ db'[Coord] = db[Coord] /\ Honest(db[Coord])'
           /\ \A n \in Nodes \ {Coord} : Settled(n, db[n])'
           /\ \A u : u \in Transaction /\ Carries(u) => Carries(u)'
           /\ r.op \in {"commit", "recover"} => db'[r.to].cleared = db'[r.to].cert
  <1> DEFINE e == Serve(r, db[r.to]).row
  <1>1. r.to \in Nodes /\ db \in [Nodes -> NodeRow] /\ Coord \in Nodes
    BY NodesAssumption DEF Request, IInv, RowsOK
  <1>2. /\ Follows(e, db[r.to]) /\ Settled(r.to, e)
        /\ r.op \in {"commit", "recover"} => e.cleared = e.cert
    BY ServeSettles
  <1>3. db' = [db EXCEPT ![r.to] = e]
    BY DEF Served
  <1> HIDE DEF e
  <1>4. \A n \in Nodes : db'[n] = IF n = r.to THEN e ELSE db[n]
    BY <1>1, <1>3
  <1>5. \A n \in Nodes : Follows(db'[n], db[n])
    BY <1>2, <1>4 DEF Follows
  <1>6. db'[Coord] = db[Coord] /\ SameFinal(db'[Coord], db[Coord])
    BY <1>1, <1>4 DEF SameFinal
  <1>7. \A d : d \in NodeRow /\ Honest(d) => Honest(d)'
    BY <1>5, CarriedOn
  <1>8. Honest(db[Coord])'
    BY <1>1, <1>6, <1>7 DEF FinalityInv
  <1>9. \A n \in Nodes \ {Coord} : Settled(n, db[n])'
    BY <1>2, <1>4 DEF FinalityInv, Settled
  <1>10. \A u : u \in Transaction /\ Carries(u) => Carries(u)'
    BY <1>5, <1>6, CarriedOn
  <1> QED BY <1>1, <1>2, <1>4, <1>5, <1>6, <1>8, <1>9, <1>10

LEMMA LateFinality ==
    ASSUME IInv, FinalityInv, NEW r \in net, Late(r)
    PROVE  FinalityInv'
  <1>1. r \in Request /\ r.to # Coord /\ SendsCertificate(r)
    BY DEF IInv, RequestsOK, FinalityInv, SendsCertificate
  <1>2. Served(r) /\ net' \subseteq net /\ UNCHANGED <<now, tx>>
    BY DEF Late
  <1>3. /\ Honest(db[Coord])' /\ \A n \in Nodes \ {Coord} : Settled(n, db[n])'
        /\ \A u : u \in Transaction /\ Carries(u) => Carries(u)'
    BY <1>1, <1>2, ServedFinal
  <1>4. \A s \in Sessions : Carries(tx[s])'
    BY <1>2, <1>3 DEF IInv, TransactionsOK, FinalityInv
  <1> QED BY <1>2, <1>3, <1>4 DEF FinalityInv

LEMMA SentCertificate ==
    ASSUME IInv, FinalityInv, NEW s \in Sessions, NEW n \in Nodes, Calls(s, n)
    PROVE  SendsCertificate(RequestOf(s, n))
  <1>1. tx[s].opened
    BY DEF Calls, Current
  <1>2. tx[s].op \in {"commit", "recover"} => View(s).cert # 0
    BY <1>1, ViewFinal DEF FinalityInv, Carries
  <1> QED BY <1>2 DEF RequestOf, SendsCertificate

LEMMA CallFinality ==
    ASSUME IInv, FinalityInv, NEW s \in Sessions, NEW n \in Nodes, Call(s, n)
    PROVE  FinalityInv'
  <1> DEFINE r == RequestOf(s, n)
  <1>1. r \in Request /\ r.to = n /\ r.to # Coord /\ r.op = tx[s].op /\ SendsCertificate(r)
    BY RequestSound, SentCertificate DEF Call
  <1>2. Served(r) /\ UNCHANGED <<now, net>>
    BY DEF Call
  <1>3. /\ Honest(db[Coord])' /\ \A m \in Nodes \ {Coord} : Settled(m, db[m])'
        /\ \A u : u \in Transaction /\ Carries(u) => Carries(u)'
        /\ r.op \in {"commit", "recover"} => db'[n].cleared = db'[n].cert
    BY <1>1, <1>2, ServedFinal
  <1>4. tx \in [Sessions -> Transaction] /\ \A t \in Sessions : Carries(tx[t])
    BY DEF IInv, TransactionsOK, FinalityInv
  <1>5. db'[n].cert \in Nat
    BY CallPreserves DEF IInv, RowsOK, NodeRow
  <1>6. PICK u : u = tx[s]
    OBVIOUS
  <1>7. PICK c : c = db'[n].cert
    OBVIOUS
  <1>8. u \in Transaction /\ Carries(u) /\ Carries(u)' /\ c \in Nat
    BY <1>3, <1>4, <1>5, <1>6, <1>7
  <1>9. u.opened /\ n \in u.todo /\ \A m \in u.todo : n <= m
    BY <1>6 DEF Call, Calls, Current
  <1>10. PICK x : tx' = [tx EXCEPT ![s] = x] /\ Carries(x)'
    <2>1. CASE Informs(r)
      <3> DEFINE x == [u EXCEPT !.reply = [arrived |-> TRUE, cert |-> c]]
      <3>1. /\ x.op = u.op /\ x.opened = u.opened /\ x.todo = u.todo /\ x.seen = u.seen
            /\ x.locked = u.locked /\ x.work = u.work /\ x.reply.cert = c
        BY <1>8 DEF Transaction
      <3>2. tx' = [tx EXCEPT ![s] = x]
        BY <1>6, <1>7, <2>1 DEF Call
      <3> HIDE DEF x
      <3>3. \A m \in Nodes : Answering(x, m)' => m = n
        BY <1>9, <3>1, NodesAssumption DEF Answering
      <3>4. \A m \in Nodes : Answering(x, m)' => 
               /\ m # Coord
               /\ x.op \in {"commit", "recover"} /\ x.reply.cert # 0 => db'[m].cleared = x.reply.cert
        BY <1>1, <1>3, <1>6, <1>7, <3>1, <3>3
      <3>5. Carries(x)'
        BY <1>8, <3>1, <3>4 DEF Carries
      <3> QED BY <3>2, <3>5
    <2>2. CASE ~Informs(r)
      <3> DEFINE x == [u EXCEPT !.opened = TRUE, !.todo = u.todo \ {n}, !.failed = u.failed,
                                !.reply = NoReply]
      <3>1. /\ x.op = u.op /\ x.opened = u.opened /\ x.seen = u.seen /\ ~x.reply.arrived
            /\ x.locked = u.locked /\ x.work = u.work
        BY <1>8, <1>9 DEF Transaction, NoReply
      <3>2. tx' = [tx EXCEPT ![s] = x]
        BY <1>6, <2>2 DEF Call, Skip
      <3> HIDE DEF x
      <3>3. Carries(x)'
        BY <1>8, <3>1 DEF Carries
      <3> QED BY <3>2, <3>3
    <2> QED BY <2>1, <2>2
  <1>11. \A t \in Sessions : Carries(tx[t])'
    BY <1>3, <1>4, <1>10
  <1> QED BY <1>2, <1>3, <1>11 DEF FinalityInv

LEMMA AbsorbFinality ==
    ASSUME IInv, FinalityInv, NEW s \in Sessions, NEW n \in Nodes, Absorb(s, n)
    PROVE  FinalityInv'
  <1> DEFINE v == View(s)
             a == Absorbed(s, n)
             w == IF a.ok THEN a.row ELSE v
  <1>1. v \in NodeRow /\ Honest(v) /\ TypeOK /\ Follows(v, v)
    BY ViewFinal, IInvTypeOK DEF Follows
  <1>2. /\ tx[s] \in Transaction /\ Sound(tx[s]) /\ Carries(tx[s]) /\ tx[s].reply.arrived /\ tx[s].opened
    BY DEF IInv, TransactionsOK, FinalityInv, Sound, Absorb
  <1>3. Answering(tx[s], n)
    BY DEF Absorb, Answering
  <1>4. a.ok => a.row \in NodeRow /\ Honest(a.row) /\ Follows(a.row, v)
    <2>1. ASSUME NEW f, f \in NodeRow, Quiet(f, v), a.row = f
          PROVE  a.row \in NodeRow /\ Honest(a.row) /\ Follows(a.row, v)
      BY <1>1, <2>1, QuietKeeps
    <2>2. CASE tx[s].op = "collect"
      <3>1. AcceptSnapshots({n}, v) \in NodeRow /\ Quiet(AcceptSnapshots({n}, v), v)
        BY <1>1, CollectingKeeps, QuietOperators DEF Keeps, Released
      <3>2. a.row = AcceptSnapshots({n}, v)
        BY <2>2 DEF Absorbed
      <3> QED BY <2>1, <3>1, <3>2
    <2>3. CASE tx[s].op = "prepare"
      <3>1. AcceptPrepares({n}, v) \in NodeRow /\ Quiet(AcceptPrepares({n}, v), v)
        BY <1>1, PreparingKeeps, QuietOperators DEF Keeps, Released
      <3>2. a.row = AcceptPrepares({n}, v)
        BY <2>3 DEF Absorbed
      <3> QED BY <2>1, <3>1, <3>2
    <2>4. CASE tx[s].op = "approvals"
      <3>1. AddApprovals({n}, v) \in NodeRow /\ Quiet(AddApprovals({n}, v), v)
        BY <1>1, ApprovalsAdded, QuietOperators DEF Released
      <3>2. a.row = AddApprovals({n}, v)
        BY <2>4 DEF Absorbed
      <3> QED BY <2>1, <3>1, <3>2
    <2>5. CASE tx[s].op \in {"commit", "recover"}
      <3> DEFINE e == [v EXCEPT !.done = @ \union {n}]
                 c == tx[s].reply.cert
      <3>1. /\ e \in NodeRow /\ e.cert = v.cert /\ e.cleared = v.cleared /\ e.proof = v.proof
            /\ e.status = v.status /\ e.done = v.done \union {n}
        BY <1>1 DEF NodeRow
      <3>2. a.row = e /\ a.ok = CanAcceptApply(n, c, v)
        BY <2>5 DEF Absorbed
      <3>3. n # Coord /\ (c # 0 => db[n].cleared = c)
        BY <1>2, <1>3, <2>5 DEF Carries
      <3> HIDE DEF e
      <3>4. a.ok => v.cert # 0 /\ ClearedAt(n, v) = v.cert
        BY <1>1, <3>2, <3>3 DEF CanAcceptApply, Honest, ClearedAt
      <3>5. \A m : ClearedAt(m, e) = ClearedAt(m, v)
        BY <3>1 DEF ClearedAt
      <3>6. a.ok => Honest(e)
        BY <1>1, <3>1, <3>4, <3>5 DEF Honest
      <3>7. Follows(e, v)
        BY <3>1 DEF Follows
      <3> QED BY <3>1, <3>2, <3>6, <3>7
    <2> QED BY <1>2, <2>2, <2>3, <2>4, <2>5 DEF Sound
  <1>5. w \in NodeRow /\ Honest(w) /\ Follows(w, View(s))
    BY <1>1, <1>4
  <1>6. Write(s, w, tx[s].todo \ {n}, tx[s].failed \/ ~a.ok) /\ UNCHANGED <<now, db, net>>
    BY DEF Absorb
  <1>7. (tx[s].failed \/ ~a.ok) \in BOOLEAN
    OBVIOUS
  <1> HIDE DEF a, w, v
  <1> QED BY <1>2, <1>5, <1>6, <1>7, AdvanceFinality

LEMMA VisitFinality ==
    ASSUME IInv, FinalityInv, NEW s \in Sessions, Visit(s)
    PROVE  FinalityInv'
  <1> PICK n \in Nodes : \/ PassOver(s, n) \/ Call(s, n) \/ Refused(s, n)
                         \/ ReplyLost(s, n) \/ Absorb(s, n) \/ Unreachable(s, n)
    BY DEF Visit
  <1>1. Sound(tx[s]) /\ tx[s].failed \in BOOLEAN /\ TRUE \in BOOLEAN
    BY DEF IInv, TransactionsOK, Transaction
  <1>2. \A r \in net : SendsCertificate(r)
    BY DEF FinalityInv, SendsCertificate
  <1>3. CASE PassOver(s, n)
    <2>1. tx[s].opened /\ Skip(s, tx[s].todo \ {n}, tx[s].failed) /\ UNCHANGED <<now, db, net>>
      BY <1>3 DEF PassOver, Current
    <2> QED BY <1>1, <1>2, <2>1, AdvanceFinality
  <1>4. CASE Refused(s, n)
    <2>1. tx[s].opened /\ Skip(s, tx[s].todo \ {n}, TRUE) /\ UNCHANGED <<now, db, net>>
      BY <1>4 DEF Refused, Calls, Current
    <2> QED BY <1>1, <1>2, <2>1, AdvanceFinality
  <1>5. CASE ReplyLost(s, n)
    <2>1. tx[s].opened /\ Skip(s, tx[s].todo \ {n}, TRUE) /\ UNCHANGED <<now, db, net>>
      BY <1>1, <1>5 DEF ReplyLost, Sound
    <2> QED BY <1>1, <1>2, <2>1, AdvanceFinality
  <1>6. CASE Unreachable(s, n)
    <2> DEFINE r == RequestOf(s, n)
    <2>1. /\ tx[s].opened /\ Skip(s, tx[s].todo \ {n}, TRUE) /\ UNCHANGED <<now, db>>
          /\ Calls(s, n) /\ net' \in {net, net \union {r}}
      BY <1>6 DEF Unreachable, Calls, Current
    <2>2. \A q \in net' : SendsCertificate(q)
      BY <1>2, <2>1, SentCertificate
    <2> QED BY <1>1, <2>1, <2>2, AdvanceFinality
  <1>7. CASE Call(s, n)
    BY <1>7, CallFinality
  <1>8. CASE Absorb(s, n)
    BY <1>8, AbsorbFinality
  <1> QED BY <1>3, <1>4, <1>5, <1>6, <1>7, <1>8

\* What a command writes when it ends: a proof only with all receipts
LEMMA ClosingFinal ==
    ASSUME IInv, FinalityInv, NEW s \in Sessions, Closing(s).ok
    PROVE  LET w == Closing(s).row
           IN  Keeps(w, View(s)) /\ Honest(w) /\ Follows(w, View(s))
  <1> DEFINE v == View(s)
             w == Closing(s).row
             p == [v EXCEPT !.status = "COMMITTED_PENDING_APPLY"]
  <1>1. v \in NodeRow /\ Honest(v) /\ Follows(v, v)
    BY ViewFinal DEF Follows
  <1>2. Keeps(w, v)
    <2>1. Keeps(v, v) /\ Keeps(MarkPrepared(v), v) /\ Keeps(Reconcile(v), v)
      BY <1>1, PreparingKeeps, ReconcilingKeeps, IInvTypeOK, NodesAssumption DEF Keeps
    <2>2. Keeps(p, v)
      BY <1>1 DEF Keeps, NodeRow, Status, Certified
    <2>3. w \in {v, MarkPrepared(v), Reconcile(v), p}
      BY DEF Closing
    <2> QED BY <2>1, <2>2, <2>3
  <1>3. \/ w = v \/ w = MarkPrepared(v)
        \/ w = Reconcile(v) /\ CanReconcile(v)
        \/ w = p /\ v.status \in Certified
    BY DEF Closing, Certified
  <1>4. ASSUME w = v \/ w = MarkPrepared(v) PROVE Honest(w) /\ Follows(w, v)
    <2>1. Quiet(MarkPrepared(v), v)
      BY <1>1, QuietOperators, NodesAssumption DEF Released
    <2> QED BY <1>1, <1>4, <2>1, QuietKeeps
  <1>5. ASSUME w = p, v.status \in Certified PROVE Honest(w) /\ Follows(w, v)
    <2>1. Quiet(p, v)
      BY <1>1, <1>5 DEF Quiet, NodeRow
    <2> QED BY <1>1, <1>5, <2>1, QuietKeeps
  <1>6. ASSUME w = Reconcile(v), CanReconcile(v) PROVE Honest(w) /\ Follows(w, v)
    <2> DEFINE e == [v EXCEPT !.proof = TRUE, !.status = "RECONCILED"]
    <2>1. CASE v.proof
      BY <1>1, <1>6, <2>1 DEF Reconcile
    <2>2. CASE ~v.proof
      <3>1. w = e /\ Affected \subseteq v.done
        BY <1>6, <2>2 DEF Reconcile, CanReconcile
      <3>2. /\ e.cert = v.cert /\ e.cleared = v.cleared /\ e.done = v.done /\ e.proof
            /\ e.status \notin Certified
        BY <1>1 DEF NodeRow, Certified
      <3> HIDE DEF e, v, w
      <3>3. \A m : ClearedAt(m, e) = ClearedAt(m, v)
        BY <3>2 DEF ClearedAt
      <3>4. Honest(e) /\ Follows(e, v)
        BY <1>1, <3>1, <3>2, <3>3 DEF Honest, Follows
      <3> QED BY <3>1, <3>4
    <2> QED BY <2>1, <2>2
  <1> HIDE DEF w, p
  <1>7. Honest(w) /\ Follows(w, v)
    BY <1>3, <1>4, <1>5, <1>6
  <1> QED BY <1>2, <1>7 DEF w

\* The rows a command commits, with the status left alone if it did not change it. A command
\* without the lock while another holds it commits nothing.
LEMMA CommitRow ==
    ASSUME IInv, FinalityInv, NEW s \in Sessions, Commit(s)
    PROVE  \E e \in NodeRow :
             /\ db' = [db EXCEPT ![Coord] = e]
             /\ Honest(e) /\ Follows(e, db[Coord]) /\ (Coord \in e.appr <=> Coord \in Approved)
             /\ \A t \in Sessions : t # s /\ tx[t].locked => e = db[Coord]
  <1> DEFINE w == Closing(s).row
             e == IF w.status = tx[s].seen THEN [w EXCEPT !.status = db[Coord].status] ELSE w
  <1>1. Keeps(w, View(s)) /\ w \in NodeRow /\ Honest(w) /\ Follows(w, View(s))
    BY ClosingFinal DEF Commit, Keeps
  <1>2. db[Coord] \in NodeRow /\ db[Coord].status \in Status /\ Honest(db[Coord])
    BY NodesAssumption DEF IInv, RowsOK, NodeRow, FinalityInv
  <1>3. Follows(w, db[Coord])
    BY <1>1, ViewFinal, FollowsTransitive
  <1>4. db' = [db EXCEPT ![Coord] = e] /\ (w = View(s) \/ MayWrite(s, w))
    BY DEF Commit
  <1>5. ASSUME NEW t \in Sessions, t # s, tx[t].locked PROVE e = db[Coord]
    <2>1. ~tx[s].locked /\ ~LockFree(s)
      BY <1>5 DEF IInv, LockExclusive, LockFree
    <2>2. w = View(s) /\ View(s).status = tx[s].seen
      BY <1>4, <2>1, ViewFinal DEF MayWrite
    <2>3. View(s) = [db[Coord] EXCEPT !.status = tx[s].work.status]
      BY <2>1 DEF View
    <2>4. e = [w EXCEPT !.status = db[Coord].status]
      BY <2>2
    <2>5. e = [[db[Coord] EXCEPT !.status = tx[s].work.status] EXCEPT !.status = db[Coord].status]
      BY <2>2, <2>3, <2>4
    <2> QED BY <1>2, <2>5 DEF NodeRow
  <1> HIDE DEF w
  <1>6. /\ e \in NodeRow /\ e.cert = w.cert /\ e.cleared = w.cleared /\ e.done = w.done
        /\ e.appr = w.appr /\ e.proof = w.proof /\ e.status \in {w.status, db[Coord].status}
    BY <1>1, <1>2 DEF NodeRow
  <1> HIDE DEF e
  <1>7. \A m : ClearedAt(m, e) = ClearedAt(m, w)
    BY <1>6 DEF ClearedAt
  <1>8. e.status \in Certified => e.cert # 0
    BY <1>1, <1>2, <1>3, <1>6 DEF Honest, Follows
  <1>9. Honest(e) /\ Follows(e, db[Coord])
    BY <1>1, <1>3, <1>6, <1>7, <1>8 DEF Honest, Follows
  <1>10. Coord \in e.appr <=> Coord \in Approved
    BY <1>1, <1>6, ViewBacked DEF Keeps, Backed
  <1> QED BY <1>4, <1>5, <1>6, <1>9, <1>10

LEMMA CommitFinality ==
    ASSUME IInv, FinalityInv, NEW s \in Sessions, Commit(s)
    PROVE  FinalityInv'
  <1>1. PICK e \in NodeRow :
             /\ db' = [db EXCEPT ![Coord] = e]
             /\ Honest(e) /\ Follows(e, db[Coord])
             /\ \A t \in Sessions : t # s /\ tx[t].locked => e = db[Coord]
    BY CommitRow
  <1>2. db \in [Nodes -> NodeRow] /\ Coord \in Nodes
    BY NodesAssumption DEF IInv, RowsOK
  <1>3. \A n \in Nodes : db'[n] = IF n = Coord THEN e ELSE db[n]
    BY <1>1, <1>2
  <1>4. \A n \in Nodes : Follows(db'[n], db[n])
    BY <1>1, <1>3 DEF Follows
  <1>5. Honest(db[Coord])'
    <2>1. Honest(e)'
      BY <1>1, <1>4, CarriedOn
    <2> QED BY <1>2, <1>3, <2>1
  <1>6. \A n \in Nodes \ {Coord} : Settled(n, db[n])'
    BY <1>3 DEF FinalityInv, Settled
  <1>7. tx' = [tx EXCEPT ![s] = Idle] /\ UNCHANGED <<now, net>>
    BY DEF Commit
  <1>8. tx \in [Sessions -> Transaction] /\ \A t \in Sessions : Carries(tx[t])
    BY DEF IInv, TransactionsOK, FinalityInv
  <1>9. ASSUME NEW t \in Sessions PROVE Carries(tx[t])'
    <2>1. CASE t = s
      <3>1. tx'[t] = Idle
        BY <1>7, <1>8, <2>1
      <3>2. /\ ~Idle.locked /\ ~Idle.opened /\ ~Idle.reply.arrived /\ Idle.work = NoRow
            /\ NoRow.cert = 0 /\ Idle.seen = NoRow.status
        BY IdleSound DEF Idle, NoRow
      <3>3. Honest(NoRow)'
        BY DEF NoRow, Honest, Certified
      <3>4. Carries(Idle)'
        BY <3>2, <3>3 DEF Carries
      <3> QED BY <3>1, <3>4
    <2>2. CASE t # s
      <3>1. tx'[t] = tx[t]
        BY <1>7, <1>8, <2>2
      <3>2. tx[t].locked => SameFinal(db'[Coord], db[Coord])
        BY <1>1, <1>2, <1>3, <2>2 DEF SameFinal
      <3>3. Carries(tx[t]) /\ tx[t] \in Transaction
        BY <1>8
      <3> QED BY <1>4, <3>1, <3>2, <3>3, CarriedOn
    <2> QED BY <2>1, <2>2
  <1> QED BY <1>5, <1>6, <1>7, <1>9 DEF FinalityInv

\* Transactions of a node that belong to no command
LEMMA NodeFinality ==
    ASSUME IInv, FinalityInv
    PROVE  /\ CreateCycle => FinalityInv'
           /\ \A n \in Nodes : Approve(n) => FinalityInv'
           /\ \A n \in Nodes : Sweep(n) => FinalityInv'
  <1>1. \A n \in Nodes : db[n] \in NodeRow
    BY DEF IInv, RowsOK
  <1>2. Coord \in Nodes /\ "PREPARE_EXPIRED" \in Released
    BY NodesAssumption DEF Released
  <1>3. ASSUME CreateCycle PROVE FinalityInv'
    <2> DEFINE e == [db[Coord] EXCEPT !.status = "DRAFT"]
    <2>1. Quiet(e, db[Coord])
      BY <1>1, <1>2 DEF NodeRow, Quiet, Certified
    <2>2. db' = [db EXCEPT ![Coord] = e] /\ UNCHANGED <<now, tx, net>>
      BY <1>3 DEF CreateCycle
    <2> HIDE DEF e
    <2> QED BY <1>2, <2>1, <2>2, FinalityRow
  <1>4. ASSUME NEW n \in Nodes, Approve(n) PROVE FinalityInv'
    <2> DEFINE e == AddApprovals({n}, db[n])
    <2>1. Quiet(e, db[n])
      BY <1>1, <1>2, QuietOperators
    <2>2. db' = [db EXCEPT ![n] = e] /\ UNCHANGED <<now, tx, net>>
      BY <1>4 DEF Approve
    <2> HIDE DEF e
    <2> QED BY <2>1, <2>2, FinalityRow
  <1>5. ASSUME NEW n \in Nodes, Sweep(n) PROVE FinalityInv'
    <2> DEFINE e == ReleaseLocal("PREPARE_EXPIRED", db[n])
    <2>1. Quiet(e, db[n])
      BY <1>1, <1>2, QuietOperators
    <2>2. db' = [db EXCEPT ![n] = e] /\ UNCHANGED <<now, tx, net>>
      BY <1>5 DEF Sweep
    <2> HIDE DEF e
    <2> QED BY <2>1, <2>2, FinalityRow
  <1> QED BY <1>3, <1>4, <1>5

\* When no row changes, a clock that goes on changes nothing.
LEMMA RowsStand ==
    ASSUME FinalityInv, UNCHANGED <<db, tx, net>>, now' # 0
    PROVE  FinalityInv'
  BY DEF FinalityInv, Honest, ClearedAt, Settled, Carries, Follows, Answering

LEMMA NextFinality == IInv /\ FinalityInv /\ [Next]_vars => FinalityInv'
  <1> SUFFICES ASSUME IInv, FinalityInv, [Next]_vars PROVE FinalityInv'
    OBVIOUS
  <1>1. CASE UNCHANGED vars
    <2>1. now' # 0 /\ UNCHANGED <<db, tx, net>>
      BY <1>1 DEF vars, FinalityInv
    <2> QED BY <2>1, RowsStand
  <1>2. CASE Tick
    <2>1. now' # 0 /\ UNCHANGED <<db, tx, net>>
      BY <1>2 DEF Tick, IInv, ClockOK
    <2> QED BY <2>1, RowsStand
  <1>3. CASE CreateCycle
    BY <1>3, NodeFinality
  <1>4. CASE \E s \in Sessions : \/ \E op \in Operations : Begin(s, op)
                                \/ BeginSweepRecovery(s) \/ Step(s) \/ Rollback(s)
    <2> PICK s \in Sessions : \/ \E op \in Operations : Begin(s, op)
                              \/ BeginSweepRecovery(s) \/ Step(s) \/ Rollback(s)
      BY <1>4
    <2>1. CASE (\E op \in Operations : Begin(s, op)) \/ BeginSweepRecovery(s) \/ Rollback(s)
      BY <2>1, BeginFinality
    <2>2. CASE Open(s)
      BY <2>2, OpenFinality
    <2>3. CASE Local(s)
      BY <2>3, LocalFinality
    <2>4. CASE Visit(s)
      BY <2>4, VisitFinality
    <2>5. CASE Commit(s)
      BY <2>5, CommitFinality
    <2> QED BY <2>1, <2>2, <2>3, <2>4, <2>5 DEF Step
  <1>5. CASE \E r \in net : Late(r)
    BY <1>5, LateFinality
  <1>6. CASE \E n \in Nodes : Approve(n) \/ Sweep(n)
    BY <1>6, NodeFinality
  <1> QED BY <1>1, <1>2, <1>3, <1>4, <1>5, <1>6 DEF Next, Proceed, Command

LEMMA FinalityHolds == Spec => []FinalityInv
  <1> QED BY InvariantHolds, InitFinality, NextFinality, PTL DEF Spec

LEMMA ProofNeedsReceipts == IInv /\ FinalityInv => ReconciledMeansApplied
  <1> SUFFICES ASSUME IInv, FinalityInv, db[Coord].proof, NEW m \in Affected
               PROVE  db[m].cleared = db[Coord].cert /\ db[m].cleared # 0
    BY DEF ReconciledMeansApplied
  <1>1. m \in db[Coord].done
    BY DEF FinalityInv, Honest
  <1>2. db[Coord].cert # 0 /\ ClearedAt(m, db[Coord]) = db[Coord].cert
    BY <1>1 DEF FinalityInv, Honest
  <1> QED BY <1>2 DEF ClearedAt

\* For any participants, sessions, lost, late and repeated messages and rollbacks: a proof of
\* reconciliation means that every affected node has cleared under the coordinator's certificate.
THEOREM ProofMeansApplied == Spec => []ReconciledMeansApplied
  <1> QED BY InvariantHolds, FinalityHolds, ProofNeedsReceipts, PTL

-----------------------------------------------------------------------------
\* An outcome stays: what a command knows of the status

Final == Released \union {"RECONCILED"}

\* The rows w leave an outcome that d has reached as it is.
Rests(w, d) == d.status \in Final => w.status = d.status

\* A command that has changed the status changed the one its node still has, which was no outcome.
KnowsStatus(u) ==
    /\ u.op # "idle" \/ u.locked => u.seen # "ABSENT"
    /\ u.locked /\ u.work.status # u.seen => u.seen = db[Coord].status /\ u.seen \notin Final
OutcomeInv == \A s \in Sessions : KnowsStatus(tx[s])

LEMMA InitOutcome == Init => OutcomeInv
  BY IdleSound DEF Init, OutcomeInv, KnowsStatus, Idle

\* A step of one session that commits nothing
LEMMA OutcomeSession ==
    ASSUME IInv, OutcomeInv, NEW s \in Sessions, NEW u, KnowsStatus(u),
           tx' = [tx EXCEPT ![s] = u], UNCHANGED db
    PROVE  OutcomeInv'
  BY DEF IInv, TransactionsOK, OutcomeInv, KnowsStatus

LEMMA OutcomeWrite ==
    ASSUME IInv, FinalityInv, OutcomeInv, NEW s \in Sessions, NEW w \in NodeRow, Rests(w, View(s)),
           w.status # View(s).status => tx[s].seen = db[Coord].status, tx[s].op # "idle",
           NEW todo \in SUBSET Nodes, NEW failed \in BOOLEAN, Write(s, w, todo, failed), UNCHANGED db
    PROVE  OutcomeInv'
  <1> DEFINE u == [tx[s] EXCEPT !.locked = TRUE, !.work = w, !.opened = TRUE,
                                !.todo = todo, !.failed = failed, !.reply = NoReply]
  <1>1. tx[s] \in Transaction /\ KnowsStatus(tx[s])
    BY DEF IInv, TransactionsOK, OutcomeInv
  <1>2. u.work = w /\ u.op = tx[s].op /\ u.seen = tx[s].seen /\ u.locked
    BY <1>1 DEF Transaction
  <1>3. /\ tx[s].locked => View(s).status = tx[s].work.status
        /\ ~tx[s].locked => View(s).status = tx[s].seen
    BY ViewFinal DEF View
  <1>4. KnowsStatus(u)
    BY <1>1, <1>2, <1>3 DEF KnowsStatus, Rests
  <1>5. tx' = [tx EXCEPT ![s] = u]
    BY DEF Write
  <1> HIDE DEF u
  <1> QED BY <1>4, <1>5, OutcomeSession

LEMMA OutcomeSkip ==
    ASSUME IInv, OutcomeInv, NEW s \in Sessions, NEW todo, NEW failed,
           tx[s].op # "idle", Skip(s, todo, failed), UNCHANGED db
    PROVE  OutcomeInv'
  <1> DEFINE u == [tx[s] EXCEPT !.opened = TRUE, !.todo = todo, !.failed = failed,
                                !.reply = NoReply]
  <1>1. tx[s] \in Transaction /\ KnowsStatus(tx[s])
    BY DEF IInv, TransactionsOK, OutcomeInv
  <1>2. u.work = tx[s].work /\ u.op = tx[s].op /\ u.seen = tx[s].seen /\ u.locked = tx[s].locked
    BY <1>1 DEF Transaction
  <1>3. KnowsStatus(u)
    BY <1>1, <1>2 DEF KnowsStatus
  <1>4. tx' = [tx EXCEPT ![s] = u]
    BY DEF Skip
  <1> HIDE DEF u
  <1> QED BY <1>3, <1>4, OutcomeSession

LEMMA BeginOutcome ==
    ASSUME IInv, OutcomeInv, NEW s \in Sessions,
           (\E op \in Operations : Begin(s, op)) \/ BeginSweepRecovery(s) \/ Rollback(s)
    PROVE  OutcomeInv'
  <1>1. CASE \E op \in Operations : Begin(s, op)
    <2> PICK op \in Operations : Begin(s, op)
      BY <1>1
    <2> DEFINE u == [Idle EXCEPT !.op = op, !.todo = Visited(op),
                        !.opened = op \in {"collect", "approvals", "release"},
                        !.seen = db[Coord].status, !.work = db[Coord]]
    <2>1. ~u.locked /\ u.seen = db[Coord].status /\ db[Coord].status # "ABSENT"
      BY DEF Begin, Idle
    <2>2. tx' = [tx EXCEPT ![s] = u] /\ UNCHANGED db
      BY DEF Begin
    <2> HIDE DEF u
    <2> QED BY <2>1, <2>2, OutcomeSession DEF KnowsStatus
  <1>2. CASE BeginSweepRecovery(s)
    <2> DEFINE u == [Idle EXCEPT !.op = "recover", !.todo = Affected, !.locked = TRUE,
                        !.seen = db[Coord].status, !.work = db[Coord]]
    <2>1. u.seen = db[Coord].status /\ u.work = db[Coord] /\ db[Coord].status # "ABSENT"
      BY <1>2 DEF BeginSweepRecovery, Idle
    <2>2. tx' = [tx EXCEPT ![s] = u] /\ UNCHANGED db
      BY <1>2 DEF BeginSweepRecovery
    <2> HIDE DEF u
    <2> QED BY <2>1, <2>2, OutcomeSession DEF KnowsStatus
  <1>3. CASE Rollback(s)
    <2>1. KnowsStatus(Idle)
      BY IdleSound DEF KnowsStatus, Idle
    <2> QED BY <1>3, <2>1, OutcomeSession DEF Rollback
  <1> QED BY <1>1, <1>2, <1>3

LEMMA OpenOutcome ==
    ASSUME IInv, FinalityInv, OutcomeInv, NEW s \in Sessions, Open(s)
    PROVE  OutcomeInv'
  <1> DEFINE v == View(s)
  <1>1. v \in NodeRow /\ tx[s] \in Transaction /\ tx[s].todo \in SUBSET Nodes /\ FALSE \in BOOLEAN
    BY ViewFinal DEF IInv, TransactionsOK, Transaction
  <1>2. ASSUME NEW w, w \in NodeRow, Rests(w, v), w.status # v.status => tx[s].seen = db[Coord].status,
               tx[s].op # "idle", Write(s, w, tx[s].todo, FALSE), UNCHANGED db
        PROVE  OutcomeInv'
    BY <1>1, <1>2, OutcomeWrite
  <1>3. CASE OpenPrepare(s)
    <2> DEFINE w == [v EXCEPT !.status = "PREPARING_NODES"]
    <2>1. w \in NodeRow
      BY <1>1 DEF NodeRow, Status, Live
    <2>2. Rests(w, v)
      BY <1>3 DEF OpenPrepare, Rests, Final, Released
    <2> HIDE DEF w
    <2> QED BY <1>2, <1>3, <2>1, <2>2 DEF OpenPrepare, MayWrite, w
  <1>4. CASE OpenPropose(s)
    <2> DEFINE w == AcceptProposal(v)
    <2>1. w \in NodeRow
      BY <1>1, PreparingKeeps, IInvTypeOK, NodesAssumption DEF Keeps
    <2>2. Rests(w, v)
      BY <1>4 DEF OpenPropose, AcceptProposal, Rests, Final, Released
    <2> HIDE DEF w
    <2> QED BY <1>2, <1>4, <2>1, <2>2 DEF OpenPropose, MayWrite, w
  <1>5. CASE OpenCommit(s)
    <2> DEFINE w == StoreCertificate(now, v)
    <2>1. w \in NodeRow
      BY <1>1, CertificateStored DEF IInv, ClockOK
    <2>2. Rests(w, v)
      BY <1>5 DEF OpenCommit, CanCertify, StoreCertificate, Rests, Final, Released
    <2> HIDE DEF w
    <2> QED BY <1>2, <1>5, <2>1, <2>2 DEF OpenCommit, MayWrite, w
  <1>6. CASE OpenRecover(s)
    <2> DEFINE w == [v EXCEPT !.status = "APPLYING"]
               u == [tx[s] EXCEPT !.op = "approvals", !.opened = TRUE]
    <2>1. CASE tx' = [tx EXCEPT ![s] = u]
      <3>1. u.work = tx[s].work /\ u.seen = tx[s].seen /\ u.locked = tx[s].locked
        BY <1>1 DEF Transaction
      <3>2. KnowsStatus(u)
        BY <1>6, <3>1 DEF OpenRecover, OutcomeInv, KnowsStatus
      <3> HIDE DEF u
      <3> QED BY <1>6, <2>1, <3>2, OutcomeSession DEF OpenRecover
    <2>2. CASE Write(s, w, tx[s].todo, FALSE) /\ v.status = "COMMITTED_PENDING_APPLY"
                 /\ tx[s].seen = db[Coord].status
      <3>1. w \in NodeRow
        BY <1>1 DEF NodeRow, Status, Certified
      <3>2. Rests(w, v)
        BY <2>2 DEF Rests, Final, Released
      <3> HIDE DEF w
      <3> QED BY <1>2, <1>6, <2>2, <3>1, <3>2 DEF OpenRecover
    <2>3. CASE Skip(s, tx[s].todo, FALSE)
      BY <1>6, <2>3, OutcomeSkip DEF OpenRecover
    <2> QED BY <1>6, <2>1, <2>2, <2>3 DEF OpenRecover
  <1> QED BY <1>3, <1>4, <1>5, <1>6 DEF Open

LEMMA LocalOutcome ==
    ASSUME IInv, FinalityInv, OutcomeInv, NEW s \in Sessions, Local(s)
    PROVE  OutcomeInv'
  <1> DEFINE v == View(s)
  <1>1. v \in NodeRow /\ Coord \in Nodes /\ TypeOK
    BY ViewFinal, NodesAssumption, IInvTypeOK
  <1>2. /\ tx[s] \in Transaction /\ tx[s].failed \in BOOLEAN /\ tx[s].work.cert \in Nat
        /\ tx[s].todo \ {Coord} \in SUBSET Nodes
    BY DEF IInv, TransactionsOK, Transaction, NodeRow
  <1>3. ASSUME NEW w, w \in NodeRow, Rests(w, v), w.status # v.status => tx[s].seen = db[Coord].status,
               NEW failed \in BOOLEAN, tx[s].op # "idle", Write(s, w, tx[s].todo \ {Coord}, failed),
               UNCHANGED db
        PROVE  OutcomeInv'
    BY <1>2, <1>3, OutcomeWrite
  <1>4. CASE LocalSnapshot(s)
    <2> DEFINE w == SnapshotLocal(Coord, v)
    <2>1. w \in NodeRow
      BY <1>1, CollectingKeeps DEF Keeps
    <2>2. Rests(w, v)
      BY <1>4 DEF LocalSnapshot, CanSnapshotLocal, SnapshotLocal, Rests, Final, Released, Collecting
    <2> HIDE DEF w
    <2> QED BY <1>2, <1>3, <1>4, <2>1, <2>2 DEF LocalSnapshot, MayWrite, w
  <1>5. CASE \E fits \in BOOLEAN : LocalPrepare(s, fits)
    <2> PICK fits \in BOOLEAN : LocalPrepare(s, fits)
      BY <1>5
    <2> DEFINE ok == CanPrepareLocal(Coord, v) /\ (fits \/ Coord \in v.prep)
               w  == IF ok THEN PrepareLocal(Coord, v) ELSE v
    <2>1. w \in NodeRow
      BY <1>1, PreparingKeeps DEF Keeps
    <2>2. Rests(w, v)
      BY DEF CanPrepareLocal, PrepareLocal, Rests, Final, Released
    <2>3. (tx[s].failed \/ ~ok) \in BOOLEAN
      OBVIOUS
    <2>4. /\ w.status # v.status => tx[s].seen = db[Coord].status
          /\ tx[s].op # "idle" /\ Write(s, w, tx[s].todo \ {Coord}, tx[s].failed \/ ~ok) /\ UNCHANGED db
      BY DEF LocalPrepare, MayWrite
    <2> HIDE DEF w, ok
    <2> QED BY <1>3, <2>1, <2>2, <2>3, <2>4
  <1>6. CASE LocalApply(s)
    <2> DEFINE ok == CanApply(Coord, v)
               w  == CASE ok -> ApplyLocal(Coord, v)
                       [] ~ok /\ v.status \notin Certified -> v
                       [] ~ok /\ v.status \in Certified /\ ~CanClear(Coord, v) -> EnterApplying(v)
                       [] OTHER -> ClearObligations(EnterApplying(v))
    <2>1. w \in {v, EnterApplying(v), ClearObligations(EnterApplying(v)), ApplyLocal(Coord, v)}
      OBVIOUS
    <2>2. w \in NodeRow
      BY <1>1, <2>1, ApplyingClears DEF Keeps
    <2>3. w # v => v.status \in Certified
      BY DEF CanApply, ApplyLocal
    <2>4. Rests(w, v)
      BY <2>3 DEF Rests, Final, Released, Certified
    <2>5. (tx[s].failed \/ ~ok) \in BOOLEAN
      OBVIOUS
    <2>6. /\ w.status # v.status => tx[s].seen = db[Coord].status
          /\ tx[s].op # "idle" /\ Write(s, w, tx[s].todo \ {Coord}, tx[s].failed \/ ~ok) /\ UNCHANGED db
      BY <1>6 DEF LocalApply, MayWrite
    <2> HIDE DEF w, ok
    <2> QED BY <1>3, <2>2, <2>4, <2>5, <2>6
  <1>7. CASE LocalRelease(s)
    <2> DEFINE x  == [v EXCEPT !.cert = tx[s].work.cert]
               ok == CanRelease(x)
               y  == CASE ok -> ReleaseLocal("REJECTED", x)
                       [] ~ok /\ ~ReleaseIsFinal(x) /\ x.status \in Live -> FreeObligations(x)
                       [] OTHER -> x
               w  == [y EXCEPT !.cert = v.cert]
    <2>1. x \in NodeRow /\ x.status = v.status
      BY <1>1, <1>2 DEF NodeRow
    <2>2. ok /\ x.status \in Final => x.status \in Released
      BY DEF CanRelease, ReleaseIsFinal, Final
    <2> HIDE DEF x
    <2>3. y \in {x, FreeObligations(x), ReleaseLocal("REJECTED", x)} /\ "REJECTED" \in Released
      BY DEF Released
    <2>4. y \in NodeRow
      BY <2>1, <2>3, ReleasingKeeps DEF Keeps
    <2>5. Rests(y, x)
      BY <2>2 DEF Rests, ReleaseLocal, Final, Released, Live
    <2> HIDE DEF y
    <2>6. w \in NodeRow /\ w.status = y.status
      BY <1>1, <2>4 DEF NodeRow
    <2>7. Rests(w, v)
      BY <2>1, <2>5, <2>6 DEF Rests
    <2>8. /\ y.status # v.status => tx[s].seen = db[Coord].status
          /\ tx[s].op # "idle" /\ Write(s, w, tx[s].todo \ {Coord}, tx[s].failed \/ ~ok) /\ UNCHANGED db
      BY <1>7 DEF LocalRelease, MayWrite, x, y
    <2>9. (tx[s].failed \/ ~ok) \in BOOLEAN
      OBVIOUS
    <2> HIDE DEF w, ok
    <2> QED BY <1>3, <2>6, <2>7, <2>8, <2>9
  <1> QED BY <1>4, <1>5, <1>6, <1>7 DEF Local

\* A request served by a node that has reached an outcome leaves it there.
LEMMA ServeRests ==
    ASSUME IInv, NEW r \in Request, Serve(r, db[r.to]).ok
    PROVE  Rests(Serve(r, db[r.to]).row, db[r.to])
  <1> DEFINE n == r.to
             d == db[n]
             e == Serve(r, d).row
  <1>1. n \in Nodes /\ r.op \in Operations /\ d \in NodeRow
    BY DEF Request, IInv, RowsOK
  <1> SUFFICES ASSUME d.status \in Final PROVE e.status = d.status
    BY DEF Rests
  <1>2. /\ d.status \in {"PREPARE_EXPIRED", "REJECTED", "RECONCILED"}
        /\ d.status \notin Collecting /\ d.status \notin Live /\ d.status \notin Certified
    BY DEF Final, Released, Collecting, Live, Certified
  <1>3. CASE r.op = "collect"
    <2>1. d.status = "ABSENT" \/ CanSnapshotLocal(n, d)
      BY <1>3 DEF Serve
    <2>2. e = SnapshotLocal(n, d)
      BY <1>3 DEF Serve
    <2> QED BY <1>2, <2>1, <2>2 DEF CanSnapshotLocal, SnapshotLocal
  <1>4. CASE r.op = "prepare"
    <2> DEFINE a == AcceptSnapshots(Nodes, d)
    <2>1. /\ \A m \in Nodes \ {n} : CanAcceptSnapshot(m, d)
          /\ n \in d.snap /\ CanPrepareLocal(n, a) /\ e = PrepareLocal(n, a)
      BY <1>4 DEF Serve
    <2>2. a = d
      BY <1>1, <1>2, <2>1 DEF CanAcceptSnapshot, AcceptSnapshots
    <2> HIDE DEF a
    <2> QED BY <1>2, <2>1, <2>2 DEF CanPrepareLocal, PrepareLocal
  <1>5. CASE r.op = "propose"
    <2>1. CanAcceptProposal(n, d) /\ e = AcceptProposal(d)
      BY <1>5 DEF Serve
    <2> QED BY <1>2, <2>1 DEF CanAcceptProposal, AcceptProposal
  <1>6. CASE r.op = "approvals"
    BY <1>6 DEF Serve
  <1>7. CASE r.op \in {"commit", "recover"}
    <2> DEFINE a == AcceptPrepares(Affected, d)
               b == AddApprovals(Affected, a)
               c == StoreCertificate(r.cert, b)
    <2>1. /\ \A m \in Affected : CanAcceptPrepare(m, d)
          /\ \A m \in Affected : CanAcceptApproval(m, a)
          /\ CanAcceptCertificate(r.cert, b) /\ CanApply(n, c) /\ e = ApplyLocal(n, c)
      BY <1>7 DEF Serve
    <2>2. a = d
      BY <1>2, <2>1 DEF CanAcceptPrepare, AcceptPrepares
    <2> HIDE DEF a
    <2>3. b = d
      BY <1>2, <2>1, <2>2 DEF CanAcceptApproval, AddApprovals
    <2> HIDE DEF b
    <2>4. c = d
      BY <1>2, <2>1, <2>3 DEF CanAcceptCertificate, StoreCertificate
    <2> HIDE DEF c
    <2> QED BY <1>2, <2>1, <2>4 DEF CanApply, ApplyLocal
  <1>8. CASE r.op = "release"
    <2>1. CanRelease(d) /\ e = ReleaseLocal("REJECTED", d)
      BY <1>8 DEF Serve
    <2> QED BY <1>2, <2>1 DEF CanRelease, ReleaseIsFinal, ReleaseLocal, Released
  <1> QED BY <1>1, <1>3, <1>4, <1>5, <1>6, <1>7, <1>8 DEF Operations

LEMMA CallOutcome ==
    ASSUME IInv, OutcomeInv, NEW s \in Sessions, NEW n \in Nodes, Call(s, n)
    PROVE  OutcomeInv'
  <1>1. tx[s] \in Transaction /\ n # Coord /\ tx[s].op # "idle" /\ KnowsStatus(tx[s])
    BY DEF Call, Calls, Current, IInv, TransactionsOK, OutcomeInv
  <1>2. db'[Coord] = db[Coord]
    <2>1. RequestOf(s, n).to = n
      BY DEF RequestOf
    <2> QED BY <1>1, <2>1, NodesAssumption DEF Call, Served, IInv, RowsOK
  <1>3. PICK u : /\ tx' = [tx EXCEPT ![s] = u]
                 /\ u.op = tx[s].op /\ u.locked = tx[s].locked
                 /\ u.seen = tx[s].seen /\ u.work = tx[s].work
    <2>1. CASE Informs(RequestOf(s, n))
      <3> DEFINE u == [tx[s] EXCEPT !.reply = [arrived |-> TRUE, cert |-> db'[n].cert]]
      <3>1. u.op = tx[s].op /\ u.locked = tx[s].locked /\ u.seen = tx[s].seen /\ u.work = tx[s].work
        BY <1>1 DEF Transaction
      <3> QED BY <2>1, <3>1 DEF Call
    <2>2. CASE ~Informs(RequestOf(s, n))
      <3> DEFINE u == [tx[s] EXCEPT !.opened = TRUE, !.todo = tx[s].todo \ {n},
                                    !.failed = tx[s].failed, !.reply = NoReply]
      <3>1. u.op = tx[s].op /\ u.locked = tx[s].locked /\ u.seen = tx[s].seen /\ u.work = tx[s].work
        BY <1>1 DEF Transaction
      <3> QED BY <2>2, <3>1 DEF Call, Skip
    <2> QED BY <2>1, <2>2
  <1>4. tx \in [Sessions -> Transaction]
    BY DEF IInv, TransactionsOK
  <1>5. ASSUME NEW t \in Sessions PROVE KnowsStatus(tx[t])'
    <2>1. tx'[t] = IF t = s THEN u ELSE tx[t]
      BY <1>3, <1>4
    <2>2. KnowsStatus(tx[t])
      BY DEF OutcomeInv
    <2> QED BY <1>1, <1>2, <1>3, <2>1, <2>2 DEF KnowsStatus
  <1> QED BY <1>5 DEF OutcomeInv

LEMMA VisitOutcome ==
    ASSUME IInv, FinalityInv, OutcomeInv, NEW s \in Sessions, Visit(s)
    PROVE  OutcomeInv'
  <1> PICK n \in Nodes : \/ PassOver(s, n) \/ Call(s, n) \/ Refused(s, n)
                         \/ ReplyLost(s, n) \/ Absorb(s, n) \/ Unreachable(s, n)
    BY DEF Visit
  <1>1. /\ tx[s] \in Transaction /\ tx[s].failed \in BOOLEAN /\ tx[s].todo \ {n} \in SUBSET Nodes
        /\ Sound(tx[s])
    BY DEF IInv, TransactionsOK, Transaction
  <1>2. CASE PassOver(s, n)
    BY <1>2, OutcomeSkip DEF PassOver, Current
  <1>3. CASE Refused(s, n)
    BY <1>3, OutcomeSkip DEF Refused, Calls, Current
  <1>4. CASE ReplyLost(s, n)
    BY <1>1, <1>4, OutcomeSkip DEF ReplyLost, Sound
  <1>5. CASE Unreachable(s, n)
    BY <1>5, OutcomeSkip DEF Unreachable, Calls, Current
  <1>6. CASE Call(s, n)
    BY <1>6, CallOutcome
  <1>7. CASE Absorb(s, n)
    <2> DEFINE v == View(s)
               a == Absorbed(s, n)
               w == IF a.ok THEN a.row ELSE v
    <2>1. v \in NodeRow /\ TypeOK
      BY ViewFinal, IInvTypeOK
    <2>2. tx[s].op \in {"collect", "prepare", "approvals", "commit", "recover"}
      BY <1>1, <1>7 DEF Absorb, Sound
    <2>3. a.ok => a.row \in NodeRow /\ Rests(a.row, v)
      <3>1. CASE tx[s].op = "collect"
        <4>1. a.row = AcceptSnapshots({n}, v) /\ a.ok = CanAcceptSnapshot(n, v)
          BY <3>1 DEF Absorbed
        <4>2. AcceptSnapshots({n}, v) \in NodeRow
          BY <2>1, CollectingKeeps DEF Keeps
        <4>3. CanAcceptSnapshot(n, v) => Rests(AcceptSnapshots({n}, v), v)
          BY DEF CanAcceptSnapshot, AcceptSnapshots, Rests, Final, Released, Collecting
        <4> QED BY <4>1, <4>2, <4>3
      <3>2. CASE tx[s].op = "prepare"
        <4>1. a.row = AcceptPrepares({n}, v) /\ a.ok = CanAcceptPrepare(n, v)
          BY <3>2 DEF Absorbed
        <4>2. AcceptPrepares({n}, v) \in NodeRow
          BY <2>1, PreparingKeeps DEF Keeps
        <4>3. CanAcceptPrepare(n, v) => Rests(AcceptPrepares({n}, v), v)
          BY DEF CanAcceptPrepare, AcceptPrepares, Rests, Final, Released, Live
        <4> QED BY <4>1, <4>2, <4>3
      <3>3. CASE tx[s].op = "approvals"
        <4>1. a.row = AddApprovals({n}, v) /\ a.ok = CanAcceptApproval(n, v)
          BY <3>3 DEF Absorbed
        <4>2. AddApprovals({n}, v) \in NodeRow
          BY <2>1, ApprovalsAdded
        <4>3. CanAcceptApproval(n, v) => Rests(AddApprovals({n}, v), v)
          BY DEF CanAcceptApproval, AddApprovals, Rests, Final, Released
        <4> QED BY <4>1, <4>2, <4>3
      <3>4. CASE tx[s].op \in {"commit", "recover"}
        <4>1. a.row = [v EXCEPT !.done = @ \union {n}]
          BY <3>4 DEF Absorbed
        <4> QED BY <2>1, <4>1 DEF NodeRow, Rests
      <3> QED BY <2>2, <3>1, <3>2, <3>3, <3>4
    <2>4. w \in NodeRow /\ Rests(w, v)
      BY <2>1, <2>3 DEF Rests
    <2>5. /\ w.status # v.status => tx[s].seen = db[Coord].status
          /\ Write(s, w, tx[s].todo \ {n}, tx[s].failed \/ ~a.ok) /\ UNCHANGED db
      BY <1>7 DEF Absorb, MayWrite
    <2>6. (tx[s].failed \/ ~a.ok) \in BOOLEAN /\ tx[s].op # "idle"
      BY <2>2
    <2> HIDE DEF a, w
    <2> QED BY <1>1, <2>4, <2>5, <2>6, OutcomeWrite
  <1> QED BY <1>2, <1>3, <1>4, <1>5, <1>6, <1>7

\* A command that commits leaves an outcome of the coordinator as it is.
LEMMA CommitRests ==
    ASSUME IInv, FinalityInv, OutcomeInv, NEW s \in Sessions, Commit(s)
    PROVE  db[Coord].status \in Final => db'[Coord].status = db[Coord].status
  <1> DEFINE v == View(s)
             w == Closing(s).row
             e == IF w.status = tx[s].seen THEN [w EXCEPT !.status = db[Coord].status] ELSE w
  <1> SUFFICES ASSUME db[Coord].status \in Final PROVE db'[Coord].status = db[Coord].status
    OBVIOUS
  <1>1. /\ v \in NodeRow /\ w \in NodeRow /\ db[Coord] \in NodeRow
        /\ db \in [Nodes -> NodeRow] /\ Coord \in Nodes
    BY ViewFinal, ClosingFinal, NodesAssumption DEF Commit, Keeps, IInv, RowsOK
  <1>2. Rests(w, v)
    <2>1. \/ w = v \/ w = MarkPrepared(v)
          \/ w = Reconcile(v) /\ CanReconcile(v)
          \/ v.status \in Certified
      BY DEF Commit, Closing, Certified
    <2>2. Rests(MarkPrepared(v), v)
      BY DEF MarkPrepared, Rests, Final, Released
    <2>3. CanReconcile(v) => Rests(Reconcile(v), v)
      BY DEF CanReconcile, Reconcile, Rests, Final, Released, Certified
    <2>4. v.status \in Certified => v.status \notin Final
      BY DEF Final, Released, Certified
    <2> HIDE DEF w, v
    <2> QED BY <2>1, <2>2, <2>3, <2>4 DEF Rests
  <1>3. db' = [db EXCEPT ![Coord] = e] /\ (w = v \/ MayWrite(s, w))
    BY DEF Commit
  <1>4. /\ tx[s].locked => v.status = tx[s].work.status
        /\ ~tx[s].locked => v.status = tx[s].seen
    BY ViewFinal DEF View
  <1>5. tx[s].locked /\ tx[s].work.status # tx[s].seen
          => tx[s].seen = db[Coord].status /\ tx[s].seen \notin Final
    BY DEF OutcomeInv, KnowsStatus
  <1>6. w.status # v.status => tx[s].seen = db[Coord].status
    BY <1>3 DEF MayWrite
  <1> HIDE DEF w, v
  <1>7. w.status = tx[s].seen
    BY <1>2, <1>4, <1>5, <1>6 DEF Rests
  <1>8. e.status = db[Coord].status
    BY <1>1, <1>7 DEF NodeRow
  <1> QED BY <1>1, <1>3, <1>8

LEMMA CommitOutcome ==
    ASSUME IInv, FinalityInv, OutcomeInv, NEW s \in Sessions, Commit(s)
    PROVE  OutcomeInv'
  <1>1. PICK e \in NodeRow :
             /\ db' = [db EXCEPT ![Coord] = e]
             /\ \A t \in Sessions : t # s /\ tx[t].locked => e = db[Coord]
    BY CommitRow
  <1>2. db' = [db EXCEPT ![Coord] = e] /\ db \in [Nodes -> NodeRow] /\ Coord \in Nodes
    BY <1>1, NodesAssumption DEF IInv, RowsOK
  <1>3. tx' = [tx EXCEPT ![s] = Idle] /\ tx \in [Sessions -> Transaction]
    BY DEF Commit, IInv, TransactionsOK
  <1>4. ASSUME NEW t \in Sessions PROVE KnowsStatus(tx[t])'
    <2>1. CASE t = s
      <3>1. tx'[t] = Idle
        BY <1>3, <2>1
      <3>2. KnowsStatus(Idle)'
        BY IdleSound DEF KnowsStatus, Idle
      <3> QED BY <3>1, <3>2
    <2>2. CASE t # s
      <3>1. tx'[t] = tx[t] /\ KnowsStatus(tx[t])
        BY <1>3, <2>2 DEF OutcomeInv
      <3>2. tx[t].locked => db'[Coord] = db[Coord]
        BY <1>1, <1>2, <2>2
      <3> QED BY <3>1, <3>2 DEF KnowsStatus
    <2> QED BY <2>1, <2>2
  <1> QED BY <1>4 DEF OutcomeInv

\* A transaction of node n while no command changes
LEMMA NodeOutcome ==
    ASSUME IInv, OutcomeInv, UNCHANGED tx,
           \/ db'[Coord].status = db[Coord].status
           \/ db[Coord].status = "ABSENT"
           \/ \A s \in Sessions : ~tx[s].locked
    PROVE  OutcomeInv'
  BY DEF OutcomeInv, KnowsStatus

\* A step keeps what the commands know, and every outcome.
LEMMA NextOutcome ==
    ASSUME IInv, FinalityInv, OutcomeInv, [Next]_vars
    PROVE  /\ OutcomeInv'
           /\ \A n \in Nodes : db[n].status \in Final => db'[n].status = db[n].status
  <1> DEFINE Kept == \A n \in Nodes : db[n].status \in Final => db'[n].status = db[n].status
  <1>1. db \in [Nodes -> NodeRow] /\ Coord \in Nodes
    BY NodesAssumption DEF IInv, RowsOK
  <1>2. UNCHANGED db => Kept
    OBVIOUS
  <1>3. ASSUME NEW r \in Request, Served(r) PROVE Kept
    <2> DEFINE e == Serve(r, db[r.to]).row
    <2>1. Rests(e, db[r.to]) /\ db' = [db EXCEPT ![r.to] = e] /\ r.to \in Nodes
      BY <1>3, ServeRests DEF Served, Request
    <2> HIDE DEF e
    <2> QED BY <1>1, <2>1 DEF Rests
  <1>4. CASE UNCHANGED vars \/ Tick
    <2>1. UNCHANGED <<db, tx>>
      BY <1>4 DEF vars, Tick
    <2> QED BY <1>2, <2>1, NodeOutcome
  <1>5. CASE CreateCycle
    <2>1. Kept
      BY <1>1, <1>5 DEF CreateCycle, Final, Released
    <2>2. OutcomeInv'
      BY <1>5, NodeOutcome DEF CreateCycle
    <2> QED BY <2>1, <2>2
  <1>6. CASE \E s \in Sessions : \/ \E op \in Operations : Begin(s, op)
                                \/ BeginSweepRecovery(s) \/ Step(s) \/ Rollback(s)
    <2> PICK s \in Sessions : \/ \E op \in Operations : Begin(s, op)
                              \/ BeginSweepRecovery(s) \/ Step(s) \/ Rollback(s)
      BY <1>6
    <2>1. CASE (\E op \in Operations : Begin(s, op)) \/ BeginSweepRecovery(s) \/ Rollback(s)
      <3>1. UNCHANGED db
        BY <2>1 DEF Begin, BeginSweepRecovery, Rollback
      <3> QED BY <1>2, <2>1, <3>1, BeginOutcome
    <2>2. CASE Open(s)
      <3>1. UNCHANGED db
        BY <2>2 DEF Open, OpenPrepare, OpenPropose, OpenCommit, OpenRecover
      <3> QED BY <1>2, <2>2, <3>1, OpenOutcome
    <2>3. CASE Local(s)
      <3>1. UNCHANGED db
        BY <2>3 DEF Local, LocalSnapshot, LocalPrepare, LocalApply, LocalRelease
      <3> QED BY <1>2, <2>3, <3>1, LocalOutcome
    <2>4. CASE Visit(s)
      <3>1. OutcomeInv'
        BY <2>4, VisitOutcome
      <3>2. Kept
        <4> PICK n \in Nodes : \/ PassOver(s, n) \/ Call(s, n) \/ Refused(s, n)
                               \/ ReplyLost(s, n) \/ Absorb(s, n) \/ Unreachable(s, n)
          BY <2>4 DEF Visit
        <4>1. CASE Call(s, n)
          <5>1. RequestOf(s, n) \in Request /\ Served(RequestOf(s, n))
            BY <4>1, RequestSound DEF Call
          <5> QED BY <1>3, <5>1
        <4>2. CASE ~Call(s, n)
          BY <1>2, <4>2 DEF PassOver, Refused, ReplyLost, Absorb, Unreachable
        <4> QED BY <4>1, <4>2
      <3> QED BY <3>1, <3>2
    <2>5. CASE Commit(s)
      <3>1. Kept
        BY <1>1, <2>5, CommitRests DEF Commit
      <3> QED BY <2>5, <3>1, CommitOutcome
    <2> QED BY <2>1, <2>2, <2>3, <2>4, <2>5 DEF Step
  <1>7. CASE \E r \in net : Late(r)
    <2> PICK r \in net : Late(r)
      BY <1>7
    <2>1. r \in Request /\ r.to # Coord /\ Served(r) /\ UNCHANGED tx
      BY DEF IInv, RequestsOK, Late
    <2>2. db'[Coord] = db[Coord]
      BY <1>1, <2>1 DEF Served
    <2> QED BY <1>3, <2>1, <2>2, NodeOutcome
  <1>8. ASSUME NEW n \in Nodes, Approve(n) \/ Sweep(n) PROVE OutcomeInv' /\ Kept
    <2>1. UNCHANGED tx /\ (n = Coord => \A s \in Sessions : ~tx[s].locked)
      BY <1>8 DEF Approve, Sweep
    <2>2. PICK e : db' = [db EXCEPT ![n] = e] /\ db[n].status \notin Final
      BY <1>8 DEF Approve, Sweep, CanApprove, Sweepable, Live, Final, Released
    <2>3. Kept /\ (n # Coord => db'[Coord] = db[Coord])
      BY <1>1, <2>2
    <2> QED BY <2>1, <2>3, NodeOutcome
  <1> QED BY <1>4, <1>5, <1>6, <1>7, <1>8 DEF Next, Proceed, Command

\* For any participants, sessions, lost, late and repeated messages and rollbacks: a cycle that was
\* released or reconciled at a node stays so, whatever a command read before.
THEOREM OutcomesStay == Spec => OutcomeFinal
  <1> DEFINE Kept == \A n \in Nodes :
                       db[n].status \in Released \union {"RECONCILED"} => db'[n].status = db[n].status
  <1>1. IInv /\ FinalityInv /\ OutcomeInv /\ [Next]_vars => OutcomeInv' /\ Kept
    BY NextOutcome DEF Final
  <1>2. IInv /\ FinalityInv /\ OutcomeInv /\ [Next]_vars => [Kept]_vars
    BY <1>1
  <1> QED BY <1>1, <1>2, InvariantHolds, FinalityHolds, InitOutcome, PTL DEF Spec, OutcomeFinal

-----------------------------------------------------------------------------
\* Every step is a step of the contract

\* One node's row changes, and no approval with it.
LEMMA ContractStep ==
    ASSUME IInv, FinalityInv, IInv', FinalityInv', NEW n \in Nodes, NEW e \in NodeRow,
           db' = [db EXCEPT ![n] = e], Follows(e, db[n]), n \in e.appr <=> n \in db[n].appr
    PROVE  [Contract!ContractNext]_(Contract!contractVars)
  <1> DEFINE applied == [m \in Nodes |-> db[m].cleared]
             closed == db[Coord].proof
  <1>1. db \in [Nodes -> NodeRow] /\ Coord \in Nodes /\ Affected \subseteq Nodes
    BY NodesAssumption DEF IInv, RowsOK
  <1>2. \A m \in Nodes : db'[m] = IF m = n THEN e ELSE db[m]
    BY <1>1
  <1>3. Approved' = Approved
    BY <1>2 DEF Approved
  <1>4. \A m \in Nodes : Follows(db'[m], db[m])
    BY <1>2 DEF Follows
  <1>5. closed \in BOOLEAN /\ closed' \in BOOLEAN /\ (closed => closed')
    BY <1>1, <1>2, <1>4 DEF NodeRow, Follows
  <1>6. closed' => \A m, o \in Affected : applied'[m] = applied'[o] /\ applied'[m] # 0
    <2>1. Honest(db[Coord])'
      BY DEF FinalityInv
    <2>2. closed' => \A m \in Affected : applied'[m] = db'[Coord].cert /\ applied'[m] # 0
      BY <1>1, <2>1 DEF Honest, ClearedAt
    <2> QED BY <2>2
  <1>7. applied' = [applied EXCEPT ![n] = applied'[n]]
    BY <1>1, <1>2
  <1>8. CASE applied'[n] = applied[n]
    <2>1. applied' = applied
      BY <1>7, <1>8
    <2>2. CASE closed' = closed
      BY <1>3, <2>1, <2>2 DEF Contract!contractVars, Approved
    <2>3. CASE closed' # closed
      <3>1. ~closed /\ closed' = TRUE
        BY <1>5, <2>3
      <3>2. \A m, o \in Affected : applied[m] = applied[o] /\ applied[m] # 0
        BY <1>6, <2>1, <3>1
      <3> HIDE DEF applied
      <3>3. Contract!Close
        BY <1>3, <2>1, <3>1, <3>2 DEF Contract!Close, Contract!AllApplied, Approved, applied
      <3> QED BY <3>3 DEF Contract!ContractNext
    <2> QED BY <2>2, <2>3
  <1>9. CASE applied'[n] # applied[n]
    <2>1. applied[n] = 0 /\ applied'[n] # 0
      BY <1>4, <1>9 DEF Follows
    <2>2. Affected \subseteq Approved
      <3>1. db'[n].cleared # 0
        BY <2>1
      <3>2. Unanimous'
        BY <3>1 DEF IInv, RowsOK, Backed
      <3> QED BY <1>3, <3>2 DEF Unanimous
    <2>3. Contract!Apply(n)
      BY <1>3, <1>5, <1>6, <1>7, <2>1, <2>2 DEF Contract!Apply, Contract!AllApplied, Approved
    <2> QED BY <2>3 DEF Contract!ContractNext
  <1> QED BY <1>8, <1>9

LEMMA ContractStutter ==
    ASSUME UNCHANGED db
    PROVE  [Contract!ContractNext]_(Contract!contractVars)
  BY DEF Contract!contractVars

LEMMA ServedContract ==
    ASSUME IInv, FinalityInv, IInv', FinalityInv', NEW r \in Request, r.to # Coord,
           r.op \in {"commit", "recover"} => Unanimous, SendsCertificate(r), Served(r)
    PROVE  [Contract!ContractNext]_(Contract!contractVars)
  <1> DEFINE e == Serve(r, db[r.to]).row
  <1>1. r.to \in Nodes /\ db' = [db EXCEPT ![r.to] = e]
    BY DEF Request, Served
  <1>2. e \in NodeRow /\ db[r.to].appr \subseteq e.appr /\ e.appr \subseteq Approved
    BY ServeBacked
  <1>3. Follows(e, db[r.to])
    BY ServeSettles
  <1>4. r.to \in e.appr <=> r.to \in db[r.to].appr
    BY <1>2 DEF Approved
  <1> HIDE DEF e
  <1> QED BY <1>1, <1>2, <1>3, <1>4, ContractStep

LEMMA NextContract ==
    ASSUME IInv, FinalityInv, IInv', FinalityInv', [Next]_vars
    PROVE  [Contract!ContractNext]_(Contract!contractVars)
  <1>1. CASE UNCHANGED vars \/ Tick
    BY <1>1, ContractStutter DEF vars, Tick
  <1>2. Coord \in Nodes /\ \A n \in Nodes : db[n] \in NodeRow
    BY NodesAssumption DEF IInv, RowsOK
  <1>3. CASE CreateCycle
    <2> DEFINE e == [db[Coord] EXCEPT !.status = "DRAFT"]
    <2>1. e \in NodeRow /\ Follows(e, db[Coord]) /\ e.appr = db[Coord].appr
      BY <1>2 DEF NodeRow, Status, Collecting, Follows
    <2>2. db' = [db EXCEPT ![Coord] = e]
      BY <1>3 DEF CreateCycle
    <2> HIDE DEF e
    <2> QED BY <1>2, <2>1, <2>2, ContractStep
  <1>4. CASE \E s \in Sessions : \/ \E op \in Operations : Begin(s, op)
                                \/ BeginSweepRecovery(s) \/ Step(s) \/ Rollback(s)
    <2> PICK s \in Sessions : \/ \E op \in Operations : Begin(s, op)
                              \/ BeginSweepRecovery(s) \/ Step(s) \/ Rollback(s)
      BY <1>4
    <2>1. CASE (\E op \in Operations : Begin(s, op)) \/ BeginSweepRecovery(s) \/ Rollback(s)
      BY <2>1, ContractStutter DEF Begin, BeginSweepRecovery, Rollback
    <2>2. CASE Open(s)
      BY <2>2, ContractStutter DEF Open, OpenPrepare, OpenPropose, OpenCommit, OpenRecover
    <2>3. CASE Local(s)
      BY <2>3, ContractStutter DEF Local, LocalSnapshot, LocalPrepare, LocalApply, LocalRelease
    <2>4. CASE Visit(s)
      <3> PICK n \in Nodes : \/ PassOver(s, n) \/ Call(s, n) \/ Refused(s, n)
                             \/ ReplyLost(s, n) \/ Absorb(s, n) \/ Unreachable(s, n)
        BY <2>4 DEF Visit
      <3>1. CASE Call(s, n)
        <4> DEFINE r == RequestOf(s, n)
        <4>1. /\ r \in Request /\ r.to # Coord /\ (r.op \in {"commit", "recover"} => Unanimous)
              /\ SendsCertificate(r) /\ Served(r)
          BY <3>1, RequestSound, SentCertificate DEF Call
        <4> HIDE DEF r
        <4> QED BY <4>1, ServedContract
      <3>2. CASE ~Call(s, n)
        BY <3>2, ContractStutter DEF PassOver, Refused, ReplyLost, Absorb, Unreachable
      <3> QED BY <3>1, <3>2
    <2>5. CASE Commit(s)
      <3>1. PICK e \in NodeRow :
               /\ db' = [db EXCEPT ![Coord] = e]
               /\ Follows(e, db[Coord]) /\ (Coord \in e.appr <=> Coord \in Approved)
        BY <2>5, CommitRow
      <3>2. Coord \in e.appr <=> Coord \in db[Coord].appr
        BY <1>2, <3>1 DEF Approved
      <3> QED BY <1>2, <3>1, <3>2, ContractStep
    <2> QED BY <2>1, <2>2, <2>3, <2>4, <2>5 DEF Step
  <1>5. CASE \E r \in net : Late(r)
    <2> PICK r \in net : Late(r)
      BY <1>5
    <2>1. /\ r \in Request /\ r.to # Coord /\ (r.op \in {"commit", "recover"} => Unanimous)
          /\ SendsCertificate(r) /\ Served(r)
      BY DEF IInv, RequestsOK, FinalityInv, SendsCertificate, Late
    <2> QED BY <2>1, ServedContract
  <1>6. ASSUME NEW n \in Nodes, Approve(n) PROVE Contract!ContractNext
    <2> DEFINE e == AddApprovals({n}, db[n])
    <2>1. e \in NodeRow /\ e.appr = db[n].appr \union {n} /\ e.cleared = db[n].cleared
      BY <1>2, ApprovalsAdded
    <2>2. e.proof = db[n].proof
      BY <1>2, QuietOperators DEF Quiet, Released
    <2>3. db' = [db EXCEPT ![n] = e] /\ db \in [Nodes -> NodeRow]
      BY <1>6 DEF Approve, IInv, RowsOK
    <2> HIDE DEF e
    <2>4. \A m \in Nodes : db'[m] = IF m = n THEN e ELSE db[m]
      BY <2>3
    <2>5. {m \in Nodes : m \in db'[m].appr} = {m \in Nodes : m \in db[m].appr} \union {n}
      BY <2>1, <2>4
    <2>6. [m \in Nodes |-> db'[m].cleared] = [m \in Nodes |-> db[m].cleared]
      BY <2>1, <2>4
    <2>7. db'[Coord].proof = db[Coord].proof
      BY <1>2, <2>2, <2>4
    <2>8. Contract!GiveApproval(n)
      BY <2>5, <2>6, <2>7 DEF Contract!GiveApproval
    <2> QED BY <2>8 DEF Contract!ContractNext
  <1>7. ASSUME NEW n \in Nodes, Sweep(n) PROVE [Contract!ContractNext]_(Contract!contractVars)
    <2> DEFINE e == ReleaseLocal("PREPARE_EXPIRED", db[n])
    <2>1. Keeps(e, db[n]) /\ Quiet(e, db[n])
      BY <1>2, ReleasingKeeps, QuietOperators DEF Released
    <2>2. e \in NodeRow /\ Follows(e, db[n]) /\ e.appr = db[n].appr
      BY <2>1, QuietKeeps DEF Keeps
    <2>3. db' = [db EXCEPT ![n] = e]
      BY <1>7 DEF Sweep
    <2> HIDE DEF e
    <2> QED BY <2>2, <2>3, ContractStep
  <1> QED BY <1>1, <1>3, <1>4, <1>5, <1>6, <1>7 DEF Next, Proceed, Command

\* Whatever is lost, late, repeated or rolled back, the cycle is one a participant can rely on:
\* all approvals, then each node applies once, then the proof, under one certificate.
THEOREM ContractKept == Spec => ImplementsContract
  <1>1. Init => Contract!ContractInit
    BY NodesAssumption DEF Init, NoRow, Contract!ContractInit
  <1>2. IInv /\ FinalityInv /\ IInv' /\ FinalityInv' /\ [Next]_vars
          => [Contract!ContractNext]_(Contract!contractVars)
    BY NextContract
  <1> QED
    BY <1>1, <1>2, InvariantHolds, FinalityHolds, PTL
      DEF Spec, ImplementsContract, Contract!ContractSpec
-----------------------------------------------------------------------------
\* What a cycle holds of obligations and exposures

\* Where a release may come before the coordinator's own prepare
Exposed(n) == n = Coord /\ OtherReserved > 0

Begun(d) == d.status \notin Collecting \union {"ABSENT"}
Taken(d) == IF d.held THEN 1 ELSE 0

\* In the rows d of node n the hold, the exposure and the prepare receipt fit the status.
HoldRow(n, d) ==
    /\ d.cert # 0 => d.status \in Certified \union {"RECONCILED"}
    /\ d.held => n \in d.prep
    /\ n \in d.prep => Begun(d)
    /\ n \in d.done => n \in d.prep /\ ~d.held
    /\ Begun(d) => d.snap = Nodes
    /\ Begun(d) /\ n \notin d.prep =>
         n = Coord /\ (d.status = "PREPARING_NODES" \/ (Exposed(n) /\ d.status \in Released))
    /\ d.status \in Live /\ n \in d.prep => d.held
    /\ d.held /\ n \in Affected =>
         d.status \in Live \union Certified \/ (Exposed(n) /\ d.status \in Released)
    /\ d.resv = Taken(d) \/ (Exposed(n) /\ d.status \in Released /\ d.resv = Taken(d) - 1)

\* A hold that d has under a certificate ends in the rows w only by clearing under it.
LetsGo(w, d) == d.cert # 0 /\ d.held /\ ~w.held => w.cleared = d.cert

\* What the rows w of a transaction are once it commits, with the status it knows or not
Stored(u, w) == [w EXCEPT !.status = IF w.status = u.seen THEN db[Coord].status ELSE w.status]

CarriesHold(u) ==
    /\ u.locked => /\ HoldRow(Coord, Stored(u, u.work))
                   /\ LetsGo(u.work, db[Coord])
                   /\ u.seen \notin Collecting \union {"ABSENT"} => Begun(u.work)
    /\ u.seen \notin Collecting \union {"ABSENT"} => Begun(db[Coord])
    /\ u.opened /\ u.op = "prepare" => Begun(u.work)

HoldInv == /\ \A n \in Nodes : HoldRow(n, db[n])
           /\ \A s \in Sessions : CarriesHold(tx[s])

\* The groups of statuses do not overlap.
LEMMA StatusGroups ==
    /\ \A x \in Live : x \notin Collecting \union {"ABSENT", "RECONCILED"} \union Certified \union Released
    /\ \A x \in Certified : x \notin Collecting \union {"ABSENT", "RECONCILED"} \union Released
    /\ \A x \in Released : x \notin Collecting \union {"ABSENT", "RECONCILED"}
    /\ "RECONCILED" \notin Collecting /\ "ABSENT" \notin Collecting
    /\ {"PREPARING_NODES", "PREPARED", "PROPOSED", "VERIFYING"} = Live
    /\ {"COMMIT_CERTIFIED", "APPLYING", "COMMITTED_PENDING_APPLY"} = Certified
    /\ {"PREPARE_EXPIRED", "REJECTED"} = Released
    /\ {"DRAFT", "COLLECTING_SNAPSHOTS"} = Collecting
  BY DEF Live, Certified, Released, Collecting

\* Rows that differ in nothing the invariant of the hold reads, unless the status
Light(n, w, d) ==
    /\ w.cert = d.cert /\ w.held = d.held /\ w.resv = d.resv /\ w.cleared = d.cleared
    /\ n \in w.prep <=> n \in d.prep
    /\ n \in w.done <=> n \in d.done
    /\ w.snap = d.snap \/ (d.snap \subseteq w.snap /\ w.snap \subseteq Nodes)

\* Moves of the status that a held or free row may make
MayMove(n, w, d) ==
    \/ w.status = d.status
    \/ d.status \in Live /\ w.status \in Live /\ n \in d.prep
    \/ d.status \in Certified /\ w.status \in Certified
    \/ ~Begun(d) /\ ~Begun(w)
    \/ ~Begun(d) /\ w.status = "PREPARING_NODES" /\ n = Coord /\ w.snap = Nodes /\ d.cert = 0

LEMMA LightKeeps ==
    ASSUME NEW n \in Nodes, NEW d \in NodeRow, NEW w \in NodeRow, Light(n, w, d), MayMove(n, w, d), HoldRow(n, d)
    PROVE  HoldRow(n, w) /\ LetsGo(w, d)
  <1>1. Taken(w) = Taken(d) /\ LetsGo(w, d)
    BY DEF Light, Taken, LetsGo
  <1>2. d.snap = Nodes => w.snap = Nodes
    BY DEF Light
  <1>3. CASE w.status = d.status
    BY <1>1, <1>2, <1>3, StatusGroups DEF Light, HoldRow, Begun
  <1>4. CASE d.status \in Live /\ w.status \in Live /\ n \in d.prep
    BY <1>1, <1>2, <1>4, StatusGroups DEF Light, HoldRow, Begun
  <1>5. CASE d.status \in Certified /\ w.status \in Certified
    BY <1>1, <1>2, <1>5, StatusGroups DEF Light, HoldRow, Begun
  <1>6. CASE ~Begun(d) /\ ~Begun(w)
    BY <1>1, <1>2, <1>6, StatusGroups DEF Light, HoldRow, Begun
  <1>7. CASE ~Begun(d) /\ w.status = "PREPARING_NODES" /\ n = Coord /\ w.snap = Nodes /\ d.cert = 0
    BY <1>1, <1>2, <1>7, StatusGroups DEF Light, HoldRow, Begun
  <1> QED BY <1>3, <1>4, <1>5, <1>6, <1>7 DEF MayMove

Moves(n, w, d) == w \in NodeRow /\ Light(n, w, d) /\ MayMove(n, w, d)

LEMMA LightOperators ==
    ASSUME TypeOK, NEW n \in Nodes, NEW d \in NodeRow, NEW M \in SUBSET Nodes
    PROVE  /\ Moves(n, d, d)
           /\ n \in d.snap \/ ~Begun(d) => Moves(n, SnapshotLocal(n, d), d)
           /\ M \subseteq d.snap \/ ~Begun(d) => Moves(n, AcceptSnapshots(M, d), d)
           /\ Moves(n, MarkPrepared(d), d)
           /\ n \notin M \/ n \in d.prep => Moves(n, AcceptPrepares(M, d), d)
           /\ d.prop \/ (n \in d.prep /\ d.status \in Live) => Moves(n, AcceptProposal(d), d)
           /\ M \subseteq d.appr \/ (n \in d.prep /\ d.status \in Live) => Moves(n, AddApprovals(M, d), d)
           /\ Moves(n, EnterApplying(d), d)
  <1>1. /\ SnapshotLocal(n, d) \in NodeRow /\ AcceptSnapshots(M, d) \in NodeRow
        /\ \A e \in NodeRow : MarkPrepared(e) \in NodeRow
        /\ AcceptPrepares(M, d) \in NodeRow
        /\ AcceptProposal(d) \in NodeRow /\ AddApprovals(M, d) \in NodeRow
        /\ EnterApplying(d) \in NodeRow
    BY CollectingKeeps, PreparingKeeps, ApprovalsAdded, ApplyingClears DEF Keeps
  <1>2. d.snap \subseteq Nodes
    BY DEF NodeRow
  <1>3. Moves(n, d, d)
    BY DEF Moves, Light, MayMove
  <1>4. ASSUME n \in d.snap \/ ~Begun(d) PROVE Moves(n, SnapshotLocal(n, d), d)
    <2>1. CASE n \in d.snap
      BY <1>3, <2>1 DEF SnapshotLocal
    <2>2. CASE n \notin d.snap
      <3> DEFINE e == SnapshotLocal(n, d)
      <3>1. e = [d EXCEPT !.status = "COLLECTING_SNAPSHOTS", !.snap = @ \union {n},
                          !.snapUntil = now + 2 * TTL]
        BY <2>2 DEF SnapshotLocal
      <3>2. Light(n, e, d) /\ e.status = "COLLECTING_SNAPSHOTS"
        BY <1>2, <3>1 DEF NodeRow, Light
      <3> QED BY <1>1, <1>4, <2>2, <3>2, StatusGroups DEF Moves, MayMove, Begun
    <2> QED BY <2>1, <2>2
  <1>5. ASSUME M \subseteq d.snap \/ ~Begun(d) PROVE Moves(n, AcceptSnapshots(M, d), d)
    <2>1. CASE M \subseteq d.snap
      BY <1>3, <2>1 DEF AcceptSnapshots
    <2>2. CASE ~(M \subseteq d.snap)
      <3> DEFINE e == AcceptSnapshots(M, d)
      <3>1. e = [d EXCEPT !.status = "COLLECTING_SNAPSHOTS", !.snap = @ \union M]
        BY <2>2 DEF AcceptSnapshots
      <3>2. Light(n, e, d) /\ e.status = "COLLECTING_SNAPSHOTS"
        BY <1>2, <3>1 DEF NodeRow, Light
      <3> QED BY <1>1, <1>5, <2>2, <3>2, StatusGroups DEF Moves, MayMove, Begun
    <2> QED BY <2>1, <2>2
  <1>6. \A e \in NodeRow : Moves(n, MarkPrepared(e), e)
    BY <1>1, StatusGroups DEF MarkPrepared, NodeRow, Moves, Light, MayMove
  <1>7. ASSUME n \notin M \/ n \in d.prep PROVE Moves(n, AcceptPrepares(M, d), d)
    <2> DEFINE e == [d EXCEPT !.prep = @ \union M]
    <2>1. e \in NodeRow /\ Light(n, e, d) /\ e.status = d.status
      BY <1>7 DEF NodeRow, Light
    <2>2. Moves(n, MarkPrepared(e), e)
      BY <1>6, <2>1
    <2> HIDE DEF e
    <2>3. Moves(n, MarkPrepared(e), d)
      BY <2>1, <2>2 DEF Moves, Light, MayMove, Begun
    <2> QED BY <1>3, <2>3 DEF AcceptPrepares, e
  <1>8. ASSUME d.prop \/ (n \in d.prep /\ d.status \in Live) PROVE Moves(n, AcceptProposal(d), d)
    BY <1>1, <1>3, <1>8, StatusGroups DEF AcceptProposal, NodeRow, Moves, Light, MayMove
  <1>9. ASSUME M \subseteq d.appr \/ (n \in d.prep /\ d.status \in Live)
        PROVE  Moves(n, AddApprovals(M, d), d)
    BY <1>1, <1>3, <1>9, StatusGroups DEF AddApprovals, NodeRow, Moves, Light, MayMove
  <1>10. Moves(n, EnterApplying(d), d)
    BY <1>1, <1>3, StatusGroups DEF EnterApplying, NodeRow, Moves, Light, MayMove
  <1> QED BY <1>3, <1>4, <1>5, <1>6, <1>7, <1>8, <1>9, <1>10

\* What is held can be taken back from the exposure.
LEMMA HeldIsReserved ==
    ASSUME NEW n \in Nodes, NEW d \in NodeRow, HoldRow(n, d), d.held
    PROVE  CanUnreserve(d)
  BY TimeAssumption DEF HoldRow, Taken, Exposed, CanUnreserve, NodeRow

LEMMA PreparingHolds ==
    ASSUME TypeOK, NEW n \in Nodes, NEW d \in NodeRow, HoldRow(n, d), CanPrepareLocal(n, d),
           n \in d.prep \/ d.snap = Nodes
    PROVE  HoldRow(n, PrepareLocal(n, d)) /\ LetsGo(PrepareLocal(n, d), d)
  <1>1. CASE n \in d.prep
    BY <1>1 DEF PrepareLocal, LetsGo
  <1>2. CASE n \notin d.prep
    <2> DEFINE e == PrepareLocal(n, d)
    <2>1. d.status \in {"COLLECTING_SNAPSHOTS", "PREPARING_NODES"}
      BY <1>2 DEF CanPrepareLocal
    <2>2. /\ e.status = "PREPARING_NODES" /\ e.held /\ e.resv = d.resv + 1 /\ e.prep = d.prep \union {n}
          /\ e.cert = d.cert /\ e.done = d.done /\ e.snap = d.snap
      BY <1>2 DEF PrepareLocal, NodeRow
    <2>3. d.resv = 0 /\ d.cert = 0 /\ n \notin d.done
      BY <1>2, <2>1, StatusGroups DEF HoldRow, Taken
    <2> HIDE DEF e
    <2>4. HoldRow(n, e)
      BY <1>2, <2>2, <2>3, StatusGroups DEF HoldRow, Taken, Begun
    <2> QED BY <2>2, <2>4 DEF e, LetsGo
  <1> QED BY <1>1, <1>2

LEMMA CertifyingHolds ==
    ASSUME NEW n \in Nodes, NEW d \in NodeRow, HoldRow(n, d), NEW c \in Nat,
           d.cert # 0 \/ d.status = "VERIFYING"
    PROVE  HoldRow(n, StoreCertificate(c, d)) /\ LetsGo(StoreCertificate(c, d), d)
  <1> DEFINE e == [d EXCEPT !.cert = c, !.status = "COMMIT_CERTIFIED"]
  <1>1. CASE d.cert # 0
    BY <1>1 DEF StoreCertificate, LetsGo
  <1>2. CASE d.cert = 0
    <2>1. StoreCertificate(c, d) = e
      BY <1>2 DEF StoreCertificate
    <2>2. /\ e.cert = c /\ e.status = "COMMIT_CERTIFIED" /\ e.held = d.held /\ e.resv = d.resv
          /\ e.prep = d.prep /\ e.done = d.done /\ e.snap = d.snap
      BY DEF NodeRow
    <2> HIDE DEF e
    <2>3. HoldRow(n, e)
      BY <1>2, <2>2, StatusGroups DEF HoldRow, Taken, Begun
    <2> QED BY <1>2, <2>1, <2>3 DEF LetsGo
  <1> QED BY <1>1, <1>2

LEMMA ApplyingHolds ==
    ASSUME NEW n \in Nodes, NEW d \in NodeRow, HoldRow(n, d), CanApply(n, d)
    PROVE  HoldRow(n, ApplyLocal(n, d)) /\ LetsGo(ApplyLocal(n, d), d)
  <1>1. CASE n \in d.done
    BY <1>1 DEF ApplyLocal, LetsGo
  <1>2. CASE n \notin d.done
    <2> DEFINE a == EnterApplying(d)
               e == ApplyLocal(n, d)
    <2>1. d.status \in Certified /\ d.held
      BY <1>2 DEF CanApply, CanClear
    <2>2. a \in NodeRow /\ a.cert = d.cert /\ a.resv = d.resv /\ a.prep = d.prep /\ a.done = d.done /\ a.snap = d.snap
      BY ApplyingClears DEF EnterApplying, NodeRow, Keeps
    <2> HIDE DEF a
    <2>3. e = FinishApply(n, ClearObligations(a))
      BY <1>2 DEF ApplyLocal, a
    <2>4. /\ e.status = "COMMITTED_PENDING_APPLY" /\ ~e.held /\ e.resv = d.resv - 1 /\ e.prep = d.prep
          /\ e.cert = d.cert /\ e.cleared = d.cert /\ e.done = d.done \union {n} /\ e.snap = d.snap
      BY <2>2, <2>3 DEF FinishApply, ClearObligations, NodeRow
    <2>5. d.resv = 1
      BY <2>1, StatusGroups DEF HoldRow, Taken
    <2> HIDE DEF e
    <2>6. HoldRow(n, e)
      BY <2>1, <2>4, <2>5, StatusGroups DEF HoldRow, Taken, Begun
    <2> QED BY <2>4, <2>6 DEF LetsGo, e
  <1> QED BY <1>1, <1>2

LEMMA ReleasingHolds ==
    ASSUME NEW n \in Nodes, NEW d \in NodeRow, HoldRow(n, d), NEW outcome \in Released,
           d.status \in Released \/ (d.status \in Live /\ CanUnreserve(d))
    PROVE  HoldRow(n, ReleaseLocal(outcome, d)) /\ LetsGo(ReleaseLocal(outcome, d), d)
  <1>1. CASE d.status \in Released
    BY <1>1 DEF ReleaseLocal, LetsGo
  <1>2. CASE d.status \notin Released
    <2> DEFINE e == ReleaseLocal(outcome, d)
    <2>1. d.status \in Live /\ CanUnreserve(d)
      BY <1>2
    <2>2. /\ e.status = outcome /\ ~e.held /\ e.resv = d.resv - 1 /\ e.prep = d.prep
          /\ e.cert = d.cert /\ e.done = d.done /\ e.snap = d.snap
      BY <1>2 DEF ReleaseLocal, FreeObligations, NodeRow
    <2>3. d.cert = 0
      BY <2>1, StatusGroups DEF HoldRow
    <2>4. CASE n \in d.prep
      <3>1. d.held /\ d.resv = 1
        BY <2>1, <2>4, StatusGroups DEF HoldRow, Taken
      <3> HIDE DEF e
      <3>2. HoldRow(n, e)
        BY <2>1, <2>2, <2>3, <2>4, <3>1, StatusGroups DEF HoldRow, Taken, Begun
      <3> QED BY <2>3, <3>2 DEF e, LetsGo
    <2>5. CASE n \notin d.prep
      <3>1. d.resv = 0 /\ n = Coord /\ n \notin d.done /\ d.snap = Nodes
        BY <2>1, <2>5, StatusGroups DEF HoldRow, Taken, Begun
      <3>2. Exposed(n)
        BY <2>1, <3>1, TimeAssumption DEF Exposed, CanUnreserve
      <3> HIDE DEF e
      <3>3. HoldRow(n, e)
        BY <2>2, <2>3, <2>5, <3>1, <3>2, StatusGroups DEF HoldRow, Taken, Begun
      <3> QED BY <2>3, <3>3 DEF e, LetsGo
    <2> QED BY <2>4, <2>5
  <1> QED BY <1>1, <1>2

LEMMA ReconcilingHolds ==
    ASSUME NEW d \in NodeRow, HoldRow(Coord, d), CanReconcile(d)
    PROVE  HoldRow(Coord, Reconcile(d)) /\ LetsGo(Reconcile(d), d)
  <1>1. CASE d.proof
    BY <1>1 DEF Reconcile, LetsGo
  <1>2. CASE ~d.proof
    <2> DEFINE e == Reconcile(d)
    <2>1. d.status \in Certified /\ Affected \subseteq d.done
      BY <1>2 DEF CanReconcile
    <2>2. /\ e.status = "RECONCILED" /\ e.held = d.held /\ e.resv = d.resv /\ e.prep = d.prep
          /\ e.cert = d.cert /\ e.done = d.done /\ e.snap = d.snap
      BY <1>2 DEF Reconcile, NodeRow
    <2> HIDE DEF e
    <2>3. HoldRow(Coord, e)
      BY <2>1, <2>2, StatusGroups DEF HoldRow, Taken, Begun
    <2> QED BY <2>2, <2>3 DEF e, LetsGo
  <1> QED BY <1>1, <1>2

\* A request a participant serves
LEMMA ServeHolds ==
    ASSUME IInv, HoldInv, NEW r \in Request, r.to # Coord, Serve(r, db[r.to]).ok
    PROVE  LET w == Serve(r, db[r.to]).row
           IN  HoldRow(r.to, w) /\ LetsGo(w, db[r.to])
  <1> DEFINE n == r.to
             d == db[n]
             w == Serve(r, d).row
  <1>1. /\ n \in Nodes /\ r.op \in Operations /\ d \in NodeRow /\ HoldRow(n, d) /\ n # Coord /\ TypeOK
        /\ Nodes \in SUBSET Nodes /\ Affected \in SUBSET Nodes /\ r.cert \in Nat
    BY IInvTypeOK, NodesAssumption DEF Request, IInv, RowsOK, HoldInv
  <1>2. d.status \in Live => n \in d.prep
    BY <1>1, StatusGroups DEF HoldRow, Begun
  <1>3. CASE r.op = "collect"
    <2>1. d.status = "ABSENT" \/ CanSnapshotLocal(n, d)
      BY <1>3 DEF Serve
    <2>2. w = SnapshotLocal(n, d)
      BY <1>3 DEF Serve
    <2>3. n \in d.snap \/ ~Begun(d)
      BY <2>1 DEF CanSnapshotLocal, Begun
    <2>4. Moves(n, w, d)
      BY <1>1, <2>2, <2>3, LightOperators
    <2> QED BY <1>1, <2>4, LightKeeps DEF Moves
  <1>4. CASE r.op = "prepare"
    <2> DEFINE e == AcceptSnapshots(Nodes, d)
    <2>1. /\ \A m \in Nodes \ {n} : CanAcceptSnapshot(m, d)
          /\ n \in d.snap /\ SnapshotsUsable(e) /\ CanPrepareLocal(n, e) /\ w = PrepareLocal(n, e)
      BY <1>4 DEF Serve
    <2>2. Nodes \subseteq d.snap \/ ~Begun(d)
      BY <2>1 DEF CanAcceptSnapshot, Begun
    <2>3. Moves(n, e, d)
      BY <1>1, <2>2, LightOperators
    <2>4. e \in NodeRow /\ HoldRow(n, e) /\ LetsGo(e, d) /\ e.held = d.held /\ e.snap = Nodes
          /\ e.cert = d.cert
      BY <1>1, <2>1, <2>3, LightKeeps DEF Moves, Light, SnapshotsUsable
    <2> HIDE DEF e
    <2>5. HoldRow(n, w) /\ LetsGo(w, e)
      BY <1>1, <2>1, <2>4, PreparingHolds
    <2>6. w.held = e.held \/ w.held
      BY <2>1, <2>4 DEF PrepareLocal, NodeRow
    <2> QED BY <2>4, <2>5, <2>6 DEF LetsGo
  <1>5. CASE r.op = "propose"
    <2>1. CanAcceptProposal(n, d) /\ w = AcceptProposal(d)
      BY <1>5 DEF Serve
    <2>2. d.prop \/ (n \in d.prep /\ d.status \in Live)
      BY <2>1, StatusGroups DEF CanAcceptProposal
    <2>3. Moves(n, w, d)
      BY <1>1, <2>1, <2>2, LightOperators
    <2> QED BY <1>1, <2>3, LightKeeps DEF Moves
  <1>6. CASE r.op = "approvals"
    BY <1>1, <1>6 DEF Serve, LetsGo
  <1>7. CASE r.op \in {"commit", "recover"}
    <2> DEFINE a == AcceptPrepares(Affected, d)
               b == AddApprovals(Affected, a)
               c == StoreCertificate(r.cert, b)
    <2>1. /\ \A m \in Affected : CanAcceptPrepare(m, d)
          /\ \A m \in Affected : CanAcceptApproval(m, a)
          /\ CanAcceptCertificate(r.cert, b) /\ CanApply(n, c) /\ w = ApplyLocal(n, c)
      BY <1>7 DEF Serve
    <2>2. n \notin Affected \/ n \in d.prep
      BY <1>2, <2>1 DEF CanAcceptPrepare
    <2>3. Moves(n, a, d)
      BY <1>1, <2>2, LightOperators
    <2>4. a \in NodeRow /\ HoldRow(n, a) /\ a.held = d.held /\ a.cert = d.cert
      BY <1>1, <2>3, LightKeeps DEF Moves, Light
    <2> HIDE DEF a
    <2>5. a.status \in Live => n \in a.prep
      BY <1>1, <2>4, StatusGroups DEF HoldRow, Begun
    <2>6. Affected \subseteq a.appr \/ (n \in a.prep /\ a.status \in Live)
      BY <2>1, <2>5, StatusGroups DEF CanAcceptApproval
    <2>7. Moves(n, b, a)
      BY <1>1, <2>4, <2>6, LightOperators
    <2>8. b \in NodeRow /\ HoldRow(n, b) /\ b.held = d.held /\ b.cert = d.cert
      BY <1>1, <2>4, <2>7, LightKeeps DEF Moves, Light
    <2> HIDE DEF b
    <2>9. b.cert # 0 \/ b.status = "VERIFYING"
      BY <2>1 DEF CanAcceptCertificate
    <2>10. c \in NodeRow /\ HoldRow(n, c) /\ (d.cert # 0 => c.cert = d.cert) /\ c.held = d.held
      <3>1. c \in NodeRow /\ HoldRow(n, c)
        BY <1>1, <2>8, <2>9, CertificateStored, CertifyingHolds
      <3>2. c.held = b.held /\ (b.cert # 0 => c = b)
        BY <2>8 DEF StoreCertificate, NodeRow
      <3> QED BY <2>8, <3>1, <3>2
    <2> HIDE DEF c
    <2>11. HoldRow(n, w) /\ LetsGo(w, c)
      BY <1>1, <2>1, <2>10, ApplyingHolds
    <2> QED BY <2>10, <2>11 DEF LetsGo
  <1>8. CASE r.op = "release"
    <2>1. CanRelease(d) /\ w = ReleaseLocal("REJECTED", d)
      BY <1>8 DEF Serve
    <2> QED BY <1>1, <2>1, ReleasingHolds, StatusGroups DEF CanRelease
  <1> HIDE DEF w
  <1> QED BY <1>1, <1>3, <1>4, <1>5, <1>6, <1>7, <1>8 DEF Operations, w

-----------------------------------------------------------------------------
\* How that is kept: the rows a command works on

LEMMA StoredRow ==
    ASSUME IInv, NEW u, NEW w \in NodeRow
    PROVE  LET e == Stored(u, w)
           IN  /\ e \in NodeRow
               /\ e.status = IF w.status = u.seen THEN db[Coord].status ELSE w.status
               /\ Light(Coord, e, w) /\ e.prep = w.prep /\ e.done = w.done /\ e.snap = w.snap
               /\ e = [w EXCEPT !.status = e.status]
  <1>1. db[Coord].status \in Status
    BY NodesAssumption DEF IInv, RowsOK, NodeRow
  <1> QED BY <1>1 DEF Stored, Light, NodeRow

LEMMA ViewHolds ==
    ASSUME IInv, FinalityInv, HoldInv, NEW s \in Sessions
    PROVE  /\ HoldRow(Coord, Stored(tx[s], View(s)))
           /\ LetsGo(View(s), db[Coord])
           /\ tx[s].seen \notin Collecting \union {"ABSENT"} => Begun(View(s)) /\ Begun(db[Coord])
           /\ View(s).status = tx[s].work.status
  <1>1. CarriesHold(tx[s]) /\ HoldRow(Coord, db[Coord]) /\ db[Coord] \in NodeRow /\ View(s) \in NodeRow
    BY NodesAssumption, ViewFinal DEF HoldInv, IInv, RowsOK
  <1>2. CASE tx[s].locked
    BY <1>1, <1>2 DEF CarriesHold, View
  <1>3. CASE ~tx[s].locked
    <2>1. View(s) = [db[Coord] EXCEPT !.status = tx[s].work.status]
      BY <1>3 DEF View
    <2>2. View(s).status = tx[s].seen
      BY <1>3, ViewFinal
    <2>3. Stored(tx[s], View(s)) = [View(s) EXCEPT !.status = db[Coord].status]
      BY <2>2 DEF Stored
    <2>4. Stored(tx[s], View(s)) = db[Coord]
      BY <1>1, <2>1, <2>3 DEF NodeRow
    <2>5. View(s).held = db[Coord].held /\ View(s).status = tx[s].work.status
      BY <1>1, <2>1 DEF NodeRow
    <2> QED BY <1>1, <2>2, <2>4, <2>5 DEF LetsGo, Begun, CarriesHold
  <1> QED BY <1>2, <1>3

\* A step of one session that commits nothing
LEMMA HoldSession ==
    ASSUME IInv, HoldInv, NEW s \in Sessions, NEW u, CarriesHold(u),
           tx' = [tx EXCEPT ![s] = u], UNCHANGED db
    PROVE  HoldInv'
  <1>1. tx \in [Sessions -> Transaction]
    BY DEF IInv, TransactionsOK
  <1>2. \A t \in Sessions : CarriesHold(tx'[t])
    BY <1>1 DEF HoldInv
  <1>3. \A x : CarriesHold(x) => CarriesHold(x)'
    BY DEF CarriesHold, Stored
  <1>4. \A t \in Sessions : CarriesHold(tx[t])'
    BY <1>2 DEF CarriesHold, Stored
  <1> QED BY <1>4 DEF HoldInv

\* What a command may do to the rows v it has: nothing that concerns the hold, or something
\* that changes the status, which the trigger then finds as the command read it.
Works(w, v) ==
    \/ Light(Coord, w, v) /\ w.status = v.status
    \/ w.status # v.status /\ (HoldRow(Coord, v) => HoldRow(Coord, w) /\ LetsGo(w, v))
    \/ v.status = "PREPARING_NODES" /\ w = PrepareLocal(Coord, v)

LEMMA WorkHolds ==
    ASSUME IInv, FinalityInv, HoldInv, NEW s \in Sessions, NEW w \in NodeRow,
           Works(w, View(s)), w.status # View(s).status => tx[s].seen = db[Coord].status
    PROVE  /\ HoldRow(Coord, Stored(tx[s], w))
           /\ LetsGo(w, View(s))
  <1> DEFINE v == View(s)
             d == Stored(tx[s], v)
             e == Stored(tx[s], w)
  <1>1. v \in NodeRow /\ HoldRow(Coord, d) /\ Coord \in Nodes
    BY ViewFinal, ViewHolds, NodesAssumption
  <1>2. /\ e \in NodeRow /\ d \in NodeRow /\ Light(Coord, e, w) /\ Light(Coord, d, v)
        /\ e.prep = w.prep /\ e.done = w.done /\ e.snap = w.snap
        /\ d.prep = v.prep /\ d.done = v.done /\ d.snap = v.snap
        /\ e.status = IF w.status = tx[s].seen THEN db[Coord].status ELSE w.status
        /\ d.status = IF v.status = tx[s].seen THEN db[Coord].status ELSE v.status
        /\ e = [w EXCEPT !.status = e.status] /\ d = [v EXCEPT !.status = d.status]
    BY <1>1, StoredRow
  <1>3. tx[s].seen \notin Collecting \union {"ABSENT"} => Begun(db[Coord])
    BY ViewHolds
  <1> HIDE DEF v, d, e
  <1>4. ASSUME Light(Coord, w, v), w.status = v.status
        PROVE  HoldRow(Coord, e) /\ LetsGo(w, v)
    <2>1. e.status = d.status
      BY <1>2, <1>4
    <2>2. Light(Coord, e, d)
      BY <1>2, <1>4 DEF Light
    <2>3. LetsGo(w, v)
      BY <1>4 DEF Light, LetsGo
    <2> QED BY <1>1, <1>2, <2>1, <2>2, <2>3, LightKeeps DEF MayMove
  <1>5. ASSUME w.status # v.status, HoldRow(Coord, v) => HoldRow(Coord, w) /\ LetsGo(w, v)
        PROVE  HoldRow(Coord, e) /\ LetsGo(w, v)
    <2>1. tx[s].seen = db[Coord].status
      BY <1>5 DEF v
    <2>2. e.status = w.status /\ d.status = v.status
      BY <1>2, <2>1
    <2>3. e = w /\ d = v
      BY <1>1, <1>2, <2>2 DEF NodeRow
    <2> QED BY <1>1, <1>5, <2>3
  <1>6. ASSUME v.status = "PREPARING_NODES", w = PrepareLocal(Coord, v)
        PROVE  HoldRow(Coord, e) /\ LetsGo(w, v)
    <2>1. CASE Coord \in v.prep
      <3>1. w = v
        BY <1>6, <2>1 DEF PrepareLocal
      <3> QED BY <1>4, <3>1 DEF Light
    <2>2. CASE Coord \notin v.prep
      <3>1. /\ w.status = v.status /\ w.held /\ w.resv = v.resv + 1 /\ w.prep = v.prep \union {Coord}
            /\ w.cert = v.cert /\ w.done = v.done /\ w.snap = v.snap
        BY <1>1, <1>6, <2>2 DEF PrepareLocal, NodeRow
      <3>2. e.status = d.status /\ Begun(d)
        BY <1>2, <1>3, <1>6, <3>1, StatusGroups DEF Begun
      <3>3. /\ e.held /\ e.resv = d.resv + 1 /\ e.prep = d.prep \union {Coord}
            /\ e.cert = d.cert /\ e.done = d.done /\ e.snap = d.snap
        BY <1>2, <3>1 DEF Light
      <3>4. Coord \notin d.prep /\ ~d.held /\ Coord \notin d.done
        BY <1>1, <1>2, <2>2 DEF HoldRow
      <3>5. d.status = "PREPARING_NODES" \/ (Exposed(Coord) /\ d.status \in Released)
        BY <1>1, <3>2, <3>4 DEF HoldRow
      <3>6. d.resv \in {0, -1} /\ (d.resv = -1 => Exposed(Coord) /\ d.status \in Released)
        BY <1>1, <3>4 DEF HoldRow, Taken
      <3>7. d.cert = 0 /\ d.snap = Nodes
        BY <1>1, <3>2, <3>5, StatusGroups DEF HoldRow
      <3>8. HoldRow(Coord, e)
        BY <3>2, <3>3, <3>4, <3>5, <3>6, <3>7, StatusGroups DEF HoldRow, Taken, Begun
      <3>9. LetsGo(w, v)
        BY <3>1 DEF LetsGo
      <3> QED BY <3>8, <3>9
    <2> QED BY <2>1, <2>2
  <1>7. Works(w, v)
    BY DEF v
  <1>8. HoldRow(Coord, e) /\ LetsGo(w, v)
    BY <1>4, <1>5, <1>6, <1>7 DEF Works
  <1> QED BY <1>8 DEF v, e

LEMMA HoldWrite ==
    ASSUME IInv, FinalityInv, HoldInv, NEW s \in Sessions, NEW w \in NodeRow,
           Works(w, View(s)), w.status # View(s).status => tx[s].seen = db[Coord].status,
           Follows(w, View(s)), Begun(View(s)) => Begun(w),
           tx[s].op = "prepare" => tx[s].opened \/ Begun(w),
           NEW todo, NEW failed, Write(s, w, todo, failed), UNCHANGED db
    PROVE  HoldInv'
  <1> DEFINE u == [tx[s] EXCEPT !.locked = TRUE, !.work = w, !.opened = TRUE,
                                !.todo = todo, !.failed = failed, !.reply = NoReply]
  <1>1. tx[s] \in Transaction /\ CarriesHold(tx[s])
    BY DEF IInv, TransactionsOK, HoldInv
  <1>2. u.work = w /\ u.seen = tx[s].seen /\ u.locked /\ u.op = tx[s].op
    BY <1>1 DEF Transaction
  <1>3. HoldRow(Coord, Stored(tx[s], w)) /\ LetsGo(w, View(s))
    BY WorkHolds
  <1>4. LetsGo(View(s), db[Coord]) /\ Follows(View(s), db[Coord])
    BY ViewHolds, ViewFinal
  <1>5. LetsGo(w, db[Coord])
    BY <1>3, <1>4 DEF LetsGo, Follows
  <1>6. HoldRow(Coord, Stored(u, u.work))
    BY <1>2, <1>3 DEF Stored
  <1>7. u.seen \notin Collecting \union {"ABSENT"} => Begun(u.work) /\ Begun(db[Coord])
    BY <1>2, ViewHolds
  <1>8. u.op = "prepare" => Begun(u.work)
    BY <1>1, <1>2, ViewHolds DEF CarriesHold, Begun
  <1>9. tx' = [tx EXCEPT ![s] = u]
    BY DEF Write
  <1> HIDE DEF u
  <1>10. CarriesHold(u)
    BY <1>2, <1>5, <1>6, <1>7, <1>8 DEF CarriesHold
  <1> QED BY <1>9, <1>10, HoldSession

LEMMA HoldSkip ==
    ASSUME IInv, HoldInv, NEW s \in Sessions, NEW todo, NEW failed,
           tx[s].op = "prepare" => tx[s].opened, Skip(s, todo, failed), UNCHANGED db
    PROVE  HoldInv'
  <1> DEFINE u == [tx[s] EXCEPT !.opened = TRUE, !.todo = todo, !.failed = failed,
                                !.reply = NoReply]
  <1>1. tx[s] \in Transaction /\ CarriesHold(tx[s])
    BY DEF IInv, TransactionsOK, HoldInv
  <1>2. u.work = tx[s].work /\ u.op = tx[s].op /\ u.seen = tx[s].seen /\ u.locked = tx[s].locked
    BY <1>1 DEF Transaction
  <1>3. CarriesHold(u)
    BY <1>1, <1>2 DEF CarriesHold, Stored
  <1>4. tx' = [tx EXCEPT ![s] = u]
    BY DEF Skip
  <1> HIDE DEF u
  <1> QED BY <1>3, <1>4, HoldSession

LEMMA InitHold == Init => HoldInv
  <1> SUFFICES ASSUME Init PROVE HoldInv
    OBVIOUS
  <1>1. /\ NoRow.status = "ABSENT" /\ NoRow.cert = 0 /\ ~NoRow.held /\ NoRow.resv = 0
        /\ NoRow.prep = {} /\ NoRow.done = {}
    BY DEF NoRow
  <1>2. \A n \in Nodes : HoldRow(n, NoRow)
    BY <1>1, StatusGroups DEF HoldRow, Taken, Begun
  <1>3. ~Idle.locked /\ Idle.seen = "ABSENT" /\ ~Idle.opened
    BY IdleSound DEF Idle
  <1>4. CarriesHold(Idle)
    BY <1>3 DEF CarriesHold
  <1> QED BY <1>2, <1>4 DEF Init, HoldInv

LEMMA BeginHold ==
    ASSUME IInv, HoldInv, NEW s \in Sessions,
           (\E op \in Operations : Begin(s, op)) \/ BeginSweepRecovery(s) \/ Rollback(s)
    PROVE  HoldInv'
  <1>1. db[Coord] \in NodeRow /\ HoldRow(Coord, db[Coord])
    BY NodesAssumption DEF IInv, RowsOK, HoldInv
  <1>2. CASE \E op \in Operations : Begin(s, op)
    <2> PICK op \in Operations : Begin(s, op)
      BY <1>2
    <2> DEFINE u == [Idle EXCEPT !.op = op, !.todo = Visited(op),
                        !.opened = op \in {"collect", "approvals", "release"},
                        !.seen = db[Coord].status, !.work = db[Coord]]
    <2>1. ~u.locked /\ u.seen = db[Coord].status /\ (u.opened => u.op # "prepare")
      BY DEF Idle
    <2>2. tx' = [tx EXCEPT ![s] = u] /\ UNCHANGED db
      BY DEF Begin
    <2> HIDE DEF u
    <2>3. CarriesHold(u)
      BY <2>1 DEF CarriesHold, Begun
    <2> QED BY <2>2, <2>3, HoldSession
  <1>3. CASE BeginSweepRecovery(s)
    <2> DEFINE u == [Idle EXCEPT !.op = "recover", !.todo = Affected, !.locked = TRUE,
                        !.seen = db[Coord].status, !.work = db[Coord]]
    <2>1. u.seen = db[Coord].status /\ u.work = db[Coord] /\ u.op = "recover"
      BY DEF Idle
    <2>2. tx' = [tx EXCEPT ![s] = u] /\ UNCHANGED db
      BY <1>3 DEF BeginSweepRecovery
    <2> HIDE DEF u
    <2>3. Stored(u, u.work) = db[Coord]
      BY <1>1, <2>1 DEF Stored, NodeRow
    <2>4. CarriesHold(u)
      BY <1>1, <2>1, <2>3 DEF CarriesHold, Begun, LetsGo
    <2> QED BY <2>2, <2>4, HoldSession
  <1>4. CASE Rollback(s)
    <2>1. ~Idle.locked /\ Idle.seen = "ABSENT" /\ ~Idle.opened
      BY IdleSound DEF Idle
    <2>2. CarriesHold(Idle)
      BY <2>1 DEF CarriesHold
    <2> QED BY <1>4, <2>2, HoldSession DEF Rollback
  <1> QED BY <1>2, <1>3, <1>4

LEMMA OpenHold ==
    ASSUME IInv, FinalityInv, HoldInv, NEW s \in Sessions, Open(s)
    PROVE  HoldInv'
  <1> DEFINE v == View(s)
  <1>1. v \in NodeRow /\ tx[s] \in Transaction /\ TypeOK /\ Coord \in Nodes
    BY ViewFinal, IInvTypeOK, NodesAssumption DEF IInv, TransactionsOK
  <1>2. CASE OpenPrepare(s)
    <2> DEFINE w == [v EXCEPT !.status = "PREPARING_NODES"]
    <2>1. w \in NodeRow /\ Light(Coord, w, v) /\ w.status = "PREPARING_NODES" /\ w.snap = v.snap
      BY <1>1 DEF NodeRow, Status, Live, Light
    <2>2. v.status \in {"COLLECTING_SNAPSHOTS", "PREPARING_NODES"} /\ v.snap = Nodes
      BY <1>2 DEF OpenPrepare, SnapshotsUsable
    <2>3. /\ w.status # v.status => tx[s].seen = db[Coord].status
          /\ Write(s, w, tx[s].todo, FALSE) /\ UNCHANGED db
      BY <1>2 DEF OpenPrepare, MayWrite
    <2>4. Follows(w, v)
      BY <1>1 DEF Follows, NodeRow
    <2> HIDE DEF w, v
    <2>5. w.status # v.status /\ HoldRow(Coord, v) => MayMove(Coord, w, v)
      BY <2>1, <2>2, StatusGroups DEF HoldRow, MayMove, Begun
    <2>6. Begun(w)
      BY <2>1, StatusGroups DEF Begun
    <2>7. Works(w, v)
      BY <1>1, <2>1, <2>5, LightKeeps DEF Works
    <2> QED BY <2>1, <2>3, <2>4, <2>6, <2>7, HoldWrite DEF v
  <1>3. CASE OpenPropose(s)
    <2> DEFINE w == AcceptProposal(v)
    <2>1. w \in NodeRow /\ Quiet(w, v) /\ Follows(w, v)
      BY <1>1, PreparingKeeps, QuietOperators, QuietKeeps DEF Keeps, Released
    <2>2. v.prop \/ v.status = "PREPARED"
      BY <1>3 DEF OpenPropose
    <2>3. /\ w.status # v.status => tx[s].seen = db[Coord].status
          /\ Write(s, w, tx[s].todo, FALSE) /\ UNCHANGED db /\ tx[s].op = "propose"
      BY <1>3 DEF OpenPropose, MayWrite
    <2>4. v.prop => w = v
      BY DEF AcceptProposal
    <2>5. ~v.prop => w.status = "PROPOSED" /\ v.status = "PREPARED"
      BY <1>1, <2>2 DEF AcceptProposal, NodeRow
    <2>6. ~v.prop /\ HoldRow(Coord, v) => HoldRow(Coord, w) /\ LetsGo(w, v)
      <3> SUFFICES ASSUME ~v.prop, HoldRow(Coord, v) PROVE HoldRow(Coord, w) /\ LetsGo(w, v)
        OBVIOUS
      <3>1. Coord \in v.prep /\ v.status \in Live
        BY <2>5, StatusGroups DEF HoldRow, Begun
      <3>2. Moves(Coord, w, v)
        BY <1>1, <3>1, LightOperators
      <3> QED BY <1>1, <3>2, LightKeeps DEF Moves
    <2> HIDE DEF w, v
    <2>7. Works(w, v)
      BY <2>4, <2>5, <2>6 DEF Works, Light
    <2>8. Begun(v) => Begun(w)
      BY <2>4, <2>5, StatusGroups DEF Begun
    <2> QED BY <2>1, <2>3, <2>7, <2>8, HoldWrite DEF v
  <1>4. CASE OpenCommit(s)
    <2> DEFINE w == StoreCertificate(now, v)
    <2>1. now \in Nat
      BY DEF IInv, ClockOK
    <2>2. w \in NodeRow /\ Follows(w, v)
      BY <1>1, <2>1, CertificateStored, CertificateKept
    <2>3. v.cert # 0 \/ v.status = "VERIFYING"
      BY <1>4 DEF OpenCommit, CanCertify
    <2>4. /\ w.status # v.status => tx[s].seen = db[Coord].status
          /\ Write(s, w, tx[s].todo, FALSE) /\ UNCHANGED db /\ tx[s].op = "commit"
      BY <1>4 DEF OpenCommit, MayWrite
    <2>5. v.cert # 0 => w = v
      BY DEF StoreCertificate
    <2>6. v.cert = 0 => w.status = "COMMIT_CERTIFIED" /\ v.status = "VERIFYING"
      BY <1>1, <2>3 DEF StoreCertificate, NodeRow
    <2>7. HoldRow(Coord, v) => HoldRow(Coord, w) /\ LetsGo(w, v)
      BY <1>1, <2>1, <2>3, CertifyingHolds
    <2> HIDE DEF w, v
    <2>8. Works(w, v)
      BY <2>5, <2>6, <2>7 DEF Works, Light
    <2>9. Begun(v) => Begun(w)
      BY <2>5, <2>6, StatusGroups DEF Begun
    <2> QED BY <2>2, <2>4, <2>8, <2>9, HoldWrite DEF v
  <1>5. CASE OpenRecover(s)
    <2> DEFINE w == [v EXCEPT !.status = "APPLYING"]
               u == [tx[s] EXCEPT !.op = "approvals", !.opened = TRUE]
    <2>1. CASE tx[s].work.cert = 0 /\ tx' = [tx EXCEPT ![s] = u]
      <3>1. u.op = "approvals" /\ u.work = tx[s].work /\ u.seen = tx[s].seen /\ u.locked = tx[s].locked
        BY <1>1 DEF Transaction
      <3>2. UNCHANGED db /\ CarriesHold(tx[s])
        BY <1>5 DEF OpenRecover, HoldInv
      <3> HIDE DEF u
      <3>3. CarriesHold(u)
        BY <3>1, <3>2 DEF CarriesHold, Stored
      <3> QED BY <2>1, <3>2, <3>3, HoldSession
    <2>2. CASE tx[s].work.cert # 0 /\ v.status = "COMMITTED_PENDING_APPLY"
      <3>1. w \in NodeRow /\ Light(Coord, w, v) /\ w.status = "APPLYING"
        BY <1>1 DEF NodeRow, Status, Certified, Light
      <3>2. Write(s, w, tx[s].todo, FALSE) /\ UNCHANGED db /\ tx[s].seen = db[Coord].status
            /\ tx[s].op = "recover"
        BY <1>5, <2>2 DEF OpenRecover
      <3>3. Follows(w, v)
        BY <1>1 DEF Follows, NodeRow
      <3> HIDE DEF w, v
      <3>4. MayMove(Coord, w, v) /\ w.status # v.status /\ Begun(w)
        BY <2>2, <3>1, StatusGroups DEF MayMove, Begun
      <3>5. Works(w, v)
        BY <1>1, <3>1, <3>4, LightKeeps DEF Works
      <3> QED BY <3>1, <3>2, <3>3, <3>4, <3>5, HoldWrite DEF v
    <2>3. CASE tx[s].work.cert # 0 /\ v.status # "COMMITTED_PENDING_APPLY"
      BY <1>5, <2>3, HoldSkip DEF OpenRecover
    <2> QED BY <1>5, <2>1, <2>2, <2>3 DEF OpenRecover
  <1> QED BY <1>2, <1>3, <1>4, <1>5 DEF Open

LEMMA MovesWork ==
    ASSUME NEW v \in NodeRow, NEW w, Coord \in Nodes, Moves(Coord, w, v)
    PROVE  Works(w, v)
  BY LightKeeps DEF Moves, Works

LEMMA LocalHold ==
    ASSUME IInv, FinalityInv, HoldInv, NEW s \in Sessions, Local(s)
    PROVE  HoldInv'
  <1> DEFINE v == View(s)
  <1>1. /\ v \in NodeRow /\ TypeOK /\ Coord \in Nodes /\ tx[s].work.cert \in Nat
        /\ Honest(v) /\ Follows(v, v)
    BY ViewFinal, IInvTypeOK, NodesAssumption DEF IInv, TransactionsOK, Transaction, NodeRow, Follows
  <1>2. ASSUME NEW w, w \in NodeRow, Works(w, v), w.status # v.status => tx[s].seen = db[Coord].status,
               Follows(w, v), Begun(v) => Begun(w), NEW failed, tx[s].opened,
               Write(s, w, tx[s].todo \ {Coord}, failed), UNCHANGED db
        PROVE  HoldInv'
    BY <1>2, HoldWrite
  <1>3. CASE LocalSnapshot(s)
    <2> DEFINE w == SnapshotLocal(Coord, v)
    <2>1. Coord \in v.snap \/ ~Begun(v)
      BY <1>3 DEF LocalSnapshot, CanSnapshotLocal, Begun
    <2>2. w \in NodeRow /\ Works(w, v)
      BY <1>1, <2>1, LightOperators, MovesWork DEF Moves
    <2>3. Follows(w, v)
      BY <1>1, QuietOperators, QuietKeeps DEF Released
    <2>4. Begun(v) => Begun(w)
      BY <2>1 DEF SnapshotLocal
    <2>5. /\ w.status # v.status => tx[s].seen = db[Coord].status
          /\ tx[s].opened /\ Write(s, w, tx[s].todo \ {Coord}, tx[s].failed) /\ UNCHANGED db
      BY <1>3 DEF LocalSnapshot, MayWrite, Current
    <2> HIDE DEF w, v
    <2> QED BY <1>2, <2>2, <2>3, <2>4, <2>5
  <1>4. CASE \E fits \in BOOLEAN : LocalPrepare(s, fits)
    <2> PICK fits \in BOOLEAN : LocalPrepare(s, fits)
      BY <1>4
    <2> DEFINE ok == CanPrepareLocal(Coord, v) /\ (fits \/ Coord \in v.prep)
               w  == IF ok THEN PrepareLocal(Coord, v) ELSE v
    <2>1. tx[s].op = "prepare" /\ tx[s].opened
      BY DEF LocalPrepare, Current
    <2>2. Begun(v)
      BY <2>1, ViewHolds DEF HoldInv, CarriesHold, Begun
    <2>3. /\ w.status # v.status => tx[s].seen = db[Coord].status
          /\ Write(s, w, tx[s].todo \ {Coord}, tx[s].failed \/ ~ok) /\ UNCHANGED db
      BY DEF LocalPrepare, MayWrite
    <2>4. w \in NodeRow
      BY <1>1, PreparingKeeps DEF Keeps
    <2>5. Follows(w, v)
      BY <1>1, QuietOperators, QuietKeeps DEF Released
    <2>6. w = v \/ (v.status = "PREPARING_NODES" /\ w = PrepareLocal(Coord, v))
      BY <2>2, StatusGroups DEF CanPrepareLocal, PrepareLocal, Begun
    <2>7. Works(w, v) /\ Begun(w)
      BY <1>1, <2>2, <2>6, StatusGroups DEF Works, Light, Begun, PrepareLocal, NodeRow
    <2> HIDE DEF w, v, ok
    <2> QED BY <1>2, <2>1, <2>3, <2>4, <2>5, <2>7
  <1>5. CASE LocalApply(s)
    <2> DEFINE ok == CanApply(Coord, v)
               w  == CASE ok -> ApplyLocal(Coord, v)
                       [] ~ok /\ v.status \notin Certified -> v
                       [] ~ok /\ v.status \in Certified /\ ~CanClear(Coord, v) -> EnterApplying(v)
                       [] OTHER -> ClearObligations(EnterApplying(v))
    <2>1. ~ok /\ v.status \in Certified => ~CanClear(Coord, v)
      <3>1. v.held => CanUnreserve(v)
        <4> DEFINE d == Stored(tx[s], v)
        <4>1. d \in NodeRow /\ HoldRow(Coord, d) /\ d.held = v.held /\ d.resv = v.resv
          BY <1>1, StoredRow, ViewHolds DEF Light
        <4> HIDE DEF d, v
        <4> QED BY <1>1, <4>1, HeldIsReserved DEF CanUnreserve
      <3> QED BY <3>1 DEF CanApply, CanClear
    <2>2. w \in {v, EnterApplying(v)} \/ (ok /\ w = ApplyLocal(Coord, v))
      BY <2>1
    <2>3. /\ w.status # v.status => tx[s].seen = db[Coord].status
          /\ Write(s, w, tx[s].todo \ {Coord}, tx[s].failed \/ ~ok) /\ UNCHANGED db /\ tx[s].opened
          /\ ok => Coord \in v.done \/ v.status # "COMMITTED_PENDING_APPLY"
      BY <1>5 DEF LocalApply, MayWrite, Current
    <2> HIDE DEF w
    <2>4. CASE w \in {v, EnterApplying(v)}
      <3>1. Moves(Coord, w, v)
        BY <1>1, <2>4, LightOperators
      <3>2. w \in NodeRow /\ Works(w, v)
        BY <1>1, <3>1, MovesWork DEF Moves
      <3>3. Follows(w, v)
        BY <1>1, <2>4, QuietOperators, QuietKeeps DEF Released
      <3>4. Begun(v) => Begun(w)
        BY <1>1, <2>4, StatusGroups DEF EnterApplying, Begun, NodeRow
      <3> HIDE DEF v, ok
      <3> QED BY <1>2, <2>3, <3>2, <3>3, <3>4
    <2>5. CASE ok /\ w = ApplyLocal(Coord, v)
      <3>1. w \in NodeRow
        BY <1>1, <2>5, ApplyingClears
      <3>2. Settled(Coord, v)
        BY <1>1 DEF Honest, Settled, ClearedAt
      <3>3. Follows(w, v)
        BY <1>1, <2>5, <3>2, ApplyingSettles
      <3>4. HoldRow(Coord, v) => HoldRow(Coord, w) /\ LetsGo(w, v)
        BY <1>1, <2>5, ApplyingHolds
      <3>5. w = v \/ (w.status = "COMMITTED_PENDING_APPLY" /\ w.status # v.status)
        <4>1. CASE Coord \in v.done
          BY <2>5, <4>1 DEF ApplyLocal
        <4>2. CASE Coord \notin v.done
          <5>1. w = FinishApply(Coord, ClearObligations(EnterApplying(v)))
            BY <2>5, <4>2 DEF ApplyLocal
          <5>2. ClearObligations(EnterApplying(v)) \in NodeRow
            BY <1>1, ApplyingClears
          <5>3. w.status = "COMMITTED_PENDING_APPLY"
            BY <5>1, <5>2 DEF FinishApply, NodeRow
          <5> QED BY <2>3, <2>5, <4>2, <5>3
        <4> QED BY <4>1, <4>2
      <3>6. Works(w, v)
        BY <3>4, <3>5 DEF Works, Light
      <3>7. Begun(v) => Begun(w)
        BY <3>5, StatusGroups DEF Begun
      <3> HIDE DEF v, ok
      <3> QED BY <1>2, <2>3, <3>1, <3>3, <3>6, <3>7
    <2> QED BY <2>2, <2>4, <2>5
  <1>6. CASE LocalRelease(s)
    <2> DEFINE x  == [v EXCEPT !.cert = tx[s].work.cert]
               ok == CanRelease(x)
               y  == CASE ok -> ReleaseLocal("REJECTED", x)
                       [] ~ok /\ ~ReleaseIsFinal(x) /\ x.status \in Live -> FreeObligations(x)
                       [] OTHER -> x
               w  == [y EXCEPT !.cert = v.cert]
    <2>1. /\ x \in NodeRow /\ x.status = v.status /\ x.held = v.held /\ x.resv = v.resv
          /\ [x EXCEPT !.cert = v.cert] = v
      BY <1>1 DEF NodeRow
    <2>2. ~ok /\ ~ReleaseIsFinal(x) /\ x.status \in Live => ~x.held
      <3>1. v.held => CanUnreserve(v)
        <4> DEFINE d == Stored(tx[s], v)
        <4>1. d \in NodeRow /\ HoldRow(Coord, d) /\ d.held = v.held /\ d.resv = v.resv
          BY <1>1, StoredRow, ViewHolds DEF Light
        <4> HIDE DEF d, v
        <4> QED BY <1>1, <4>1, HeldIsReserved DEF CanUnreserve
      <3> QED BY <2>1, <3>1 DEF CanRelease, CanUnreserve
    <2>3. ~x.held => FreeObligations(x) = x
      BY <2>1 DEF FreeObligations, NodeRow
    <2>4. y = x \/ (ok /\ y = ReleaseLocal("REJECTED", x))
      BY <2>2, <2>3
    <2>5. w = v \/ (ok /\ w = ReleaseLocal("REJECTED", v))
      <3>1. y = x => w = v
        BY <2>1
      <3>2. [ReleaseLocal("REJECTED", x) EXCEPT !.cert = v.cert] = ReleaseLocal("REJECTED", v)
        BY <1>1 DEF ReleaseLocal, FreeObligations, NodeRow
      <3> HIDE DEF x, y, v, ok
      <3> QED BY <2>4, <3>1, <3>2
    <2>6. ok => v.status \in Released \/ (v.status \in Live /\ CanUnreserve(v))
      BY <2>1 DEF CanRelease, CanUnreserve
    <2>7. y.status = w.status
      <3>1. y \in NodeRow
        BY <2>1, <2>4, ReleasingKeeps DEF Keeps, Released
      <3> HIDE DEF y
      <3> QED BY <1>1, <3>1 DEF NodeRow
    <2>8. /\ w.status # v.status => tx[s].seen = db[Coord].status
          /\ Write(s, w, tx[s].todo \ {Coord}, tx[s].failed \/ ~ok) /\ UNCHANGED db /\ tx[s].opened
      BY <1>6, <2>7 DEF LocalRelease, MayWrite, Current
    <2> HIDE DEF w, ok, x, y
    <2>9. CASE w = v
      BY <1>1, <1>2, <2>8, <2>9 DEF Works, Light
    <2>10. CASE ok /\ w = ReleaseLocal("REJECTED", v)
      <3>1. w \in NodeRow /\ Follows(w, v) /\ "REJECTED" \in Released
        BY <1>1, <2>10, ReleasingKeeps, QuietOperators, QuietKeeps DEF Keeps, Released
      <3>2. HoldRow(Coord, v) => HoldRow(Coord, w) /\ LetsGo(w, v)
        BY <1>1, <2>6, <2>10, <3>1, ReleasingHolds
      <3>3. w = v \/ (w.status = "REJECTED" /\ w.status # v.status)
        BY <1>1, <2>10 DEF ReleaseLocal, FreeObligations, NodeRow, Released
      <3>4. Works(w, v) /\ (Begun(v) => Begun(w))
        BY <3>2, <3>3, StatusGroups DEF Works, Light, Begun
      <3> HIDE DEF v
      <3> QED BY <1>2, <2>8, <3>1, <3>4
    <2> QED BY <2>5, <2>9, <2>10
  <1> QED BY <1>3, <1>4, <1>5, <1>6 DEF Local

LEMMA AbsorbHold ==
    ASSUME IInv, FinalityInv, HoldInv, NEW s \in Sessions, NEW n \in Nodes, Absorb(s, n)
    PROVE  HoldInv'
  <1> DEFINE v == View(s)
             a == Absorbed(s, n)
             w == IF a.ok THEN a.row ELSE v
  <1>1. v \in NodeRow /\ TypeOK /\ Coord \in Nodes /\ Follows(v, v)
    BY ViewFinal, IInvTypeOK, NodesAssumption DEF Follows
  <1>2. Sound(tx[s]) /\ Carries(tx[s]) /\ tx[s].reply.arrived
    BY DEF IInv, TransactionsOK, FinalityInv, Absorb
  <1>3. n # Coord
    BY <1>2 DEF Absorb, Answering, Carries
  <1>4. /\ w.status # v.status => tx[s].seen = db[Coord].status
        /\ Write(s, w, tx[s].todo \ {n}, tx[s].failed \/ ~a.ok) /\ UNCHANGED db /\ tx[s].opened
    BY <1>2 DEF Absorb, MayWrite, Sound
  <1>5. CASE ~a.ok
    BY <1>1, <1>4, <1>5, HoldWrite DEF Works, Light
  <1>6. ASSUME NEW f, f \in NodeRow, a.ok, a.row = f, Works(f, v), Follows(f, v), Begun(v) => Begun(f)
        PROVE  HoldInv'
    <2>1. w = f
      BY <1>6
    <2> HIDE DEF a, w, v
    <2> QED BY <1>4, <1>6, <2>1, HoldWrite DEF v
  <1>7. CASE a.ok /\ tx[s].op = "collect"
    <2> DEFINE f == AcceptSnapshots({n}, v)
    <2>1. a.row = f /\ CanAcceptSnapshot(n, v)
      BY <1>7 DEF Absorbed
    <2>2. {n} \subseteq v.snap \/ ~Begun(v)
      BY <2>1 DEF CanAcceptSnapshot, Begun
    <2>3. Moves(Coord, f, v)
      BY <1>1, <2>2, LightOperators
    <2>4. f \in NodeRow /\ Works(f, v) /\ Follows(f, v)
      BY <1>1, <2>3, MovesWork, QuietOperators, QuietKeeps DEF Moves, Released
    <2>5. Begun(v) => Begun(f)
      BY <2>2 DEF AcceptSnapshots
    <2> HIDE DEF f, v, a
    <2> QED BY <1>6, <1>7, <2>1, <2>4, <2>5
  <1>8. CASE a.ok /\ tx[s].op = "prepare"
    <2> DEFINE f == AcceptPrepares({n}, v)
    <2>1. a.row = f
      BY <1>8 DEF Absorbed
    <2>2. Moves(Coord, f, v)
      BY <1>1, <1>3, LightOperators
    <2>3. f \in NodeRow /\ Works(f, v) /\ Follows(f, v)
      BY <1>1, <2>2, MovesWork, QuietOperators, QuietKeeps DEF Moves, Released
    <2>4. Begun(v) => Begun(f)
      BY <1>1, <2>2, StatusGroups DEF Moves, MayMove, Begun
    <2> HIDE DEF f, v, a
    <2> QED BY <1>6, <1>8, <2>1, <2>3, <2>4
  <1>9. CASE a.ok /\ tx[s].op = "approvals"
    <2> DEFINE f == AddApprovals({n}, v)
    <2>1. a.row = f /\ CanAcceptApproval(n, v)
      BY <1>9 DEF Absorbed
    <2>2. {n} \subseteq v.appr \/ v.status \in {"PROPOSED", "VERIFYING"}
      BY <2>1 DEF CanAcceptApproval
    <2>3. f \in NodeRow /\ Follows(f, v) /\ Light(Coord, f, v)
      <3>1. f \in NodeRow /\ Follows(f, v)
        BY <1>1, ApprovalsAdded, QuietOperators, QuietKeeps DEF Released
      <3>2. Light(Coord, f, v)
        BY <1>1 DEF AddApprovals, Light, NodeRow
      <3> QED BY <3>1, <3>2
    <2>4. f.status = v.status \/ (f.status = "VERIFYING" /\ v.status = "PROPOSED")
      BY <1>1, <2>2 DEF AddApprovals, NodeRow
    <2> HIDE DEF f, v, a
    <2>5. v.status = "PROPOSED" /\ HoldRow(Coord, v) => Coord \in v.prep
      BY StatusGroups DEF HoldRow, Begun
    <2>6. Works(f, v)
      <3>1. f.status # v.status /\ HoldRow(Coord, v) => MayMove(Coord, f, v)
        BY <2>4, <2>5, StatusGroups DEF MayMove
      <3> QED BY <1>1, <2>3, <3>1, LightKeeps DEF Works
    <2>7. Begun(v) => Begun(f)
      BY <2>4, StatusGroups DEF Begun
    <2> QED BY <1>6, <1>9, <2>1, <2>3, <2>6, <2>7
  <1>10. CASE a.ok /\ tx[s].op \in {"commit", "recover"}
    <2> DEFINE f == [v EXCEPT !.done = @ \union {n}]
    <2>1. a.row = f
      BY <1>10 DEF Absorbed
    <2>2. f \in NodeRow /\ Light(Coord, f, v) /\ f.status = v.status /\ Follows(f, v)
      BY <1>1, <1>3 DEF NodeRow, Light, Follows
    <2> HIDE DEF f, v, a
    <2>3. Works(f, v) /\ (Begun(v) => Begun(f))
      BY <2>2 DEF Works, Begun
    <2> QED BY <1>6, <1>10, <2>1, <2>2, <2>3
  <1> QED BY <1>2, <1>5, <1>7, <1>8, <1>9, <1>10 DEF Sound

\* A step that changes no row of the coordinator, and one row of a participant
LEMMA ServedHolds ==
    ASSUME IInv, FinalityInv, HoldInv, NEW r \in Request, r.to # Coord, SendsCertificate(r), Served(r)
    PROVE  /\ \A n \in Nodes : HoldRow(n, db'[n]) /\ LetsGo(db'[n], db[n]) /\ Follows(db'[n], db[n])
           /\ db'[Coord] = db[Coord]
  <1> DEFINE e == Serve(r, db[r.to]).row
  <1>1. r.to \in Nodes /\ db \in [Nodes -> NodeRow]
    BY DEF Request, IInv, RowsOK
  <1>2. db' = [db EXCEPT ![r.to] = e] /\ Serve(r, db[r.to]).ok
    BY DEF Served
  <1>3. HoldRow(r.to, e) /\ LetsGo(e, db[r.to])
    BY <1>2, ServeHolds
  <1>4. (\A n \in Nodes : Follows(db'[n], db[n])) /\ db'[Coord] = db[Coord]
    BY ServedFinal
  <1> HIDE DEF e
  <1>5. \A n \in Nodes : db'[n] = IF n = r.to THEN e ELSE db[n]
    BY <1>1, <1>2
  <1> QED BY <1>3, <1>4, <1>5 DEF HoldInv, LetsGo

\* What a transaction carries stays true while the coordinator's committed rows do.
LEMMA CarriedHolds ==
    ASSUME NEW u, CarriesHold(u), db'[Coord] = db[Coord]
    PROVE  CarriesHold(u)'
  BY DEF CarriesHold, Stored

LEMMA CallHold ==
    ASSUME IInv, FinalityInv, HoldInv, NEW s \in Sessions, NEW n \in Nodes, Call(s, n)
    PROVE  HoldInv'
  <1>1. /\ RequestOf(s, n) \in Request /\ RequestOf(s, n).to # Coord
        /\ SendsCertificate(RequestOf(s, n)) /\ Served(RequestOf(s, n))
    BY RequestSound, SentCertificate DEF Call
  <1>2. (\A m \in Nodes : HoldRow(m, db'[m])) /\ db'[Coord] = db[Coord]
    BY <1>1, ServedHolds
  <1>3. tx[s] \in Transaction /\ tx \in [Sessions -> Transaction] /\ tx[s].opened
    BY DEF IInv, TransactionsOK, Call, Calls, Current
  <1>4. PICK u : /\ tx' = [tx EXCEPT ![s] = u]
                 /\ u.op = tx[s].op /\ u.locked = tx[s].locked /\ u.opened
                 /\ u.seen = tx[s].seen /\ u.work = tx[s].work
    <2>1. CASE Informs(RequestOf(s, n))
      <3> DEFINE u == [tx[s] EXCEPT !.reply = [arrived |-> TRUE, cert |-> db'[n].cert]]
      <3>1. /\ u.op = tx[s].op /\ u.locked = tx[s].locked /\ u.seen = tx[s].seen
            /\ u.work = tx[s].work /\ u.opened
        BY <1>3 DEF Transaction
      <3> QED BY <2>1, <3>1 DEF Call
    <2>2. CASE ~Informs(RequestOf(s, n))
      <3> DEFINE u == [tx[s] EXCEPT !.opened = TRUE, !.todo = tx[s].todo \ {n},
                                    !.failed = tx[s].failed, !.reply = NoReply]
      <3>1. /\ u.op = tx[s].op /\ u.locked = tx[s].locked /\ u.seen = tx[s].seen
            /\ u.work = tx[s].work /\ u.opened
        BY <1>3 DEF Transaction
      <3> QED BY <2>2, <3>1 DEF Call, Skip
    <2> QED BY <2>1, <2>2
  <1>5. ASSUME NEW t \in Sessions PROVE CarriesHold(tx[t])'
    <2>1. tx'[t] = IF t = s THEN u ELSE tx[t]
      BY <1>3, <1>4
    <2>2. CarriesHold(tx[t])'
      <3>1. CarriesHold(tx[t]) /\ CarriesHold(tx[s])
        BY DEF HoldInv
      <3>2. CASE t = s
        BY <1>2, <1>3, <1>4, <2>1, <3>1, <3>2 DEF CarriesHold, Stored
      <3>3. CASE t # s
        BY <1>2, <2>1, <3>1, <3>3 DEF CarriesHold, Stored
      <3> QED BY <3>2, <3>3
    <2> QED BY <2>2
  <1> QED BY <1>2, <1>5 DEF HoldInv

LEMMA VisitHold ==
    ASSUME IInv, FinalityInv, HoldInv, NEW s \in Sessions, Visit(s)
    PROVE  HoldInv'
  <1> PICK n \in Nodes : \/ PassOver(s, n) \/ Call(s, n) \/ Refused(s, n)
                         \/ ReplyLost(s, n) \/ Absorb(s, n) \/ Unreachable(s, n)
    BY DEF Visit
  <1>1. Sound(tx[s])
    BY DEF IInv, TransactionsOK
  <1>2. CASE PassOver(s, n)
    BY <1>2, HoldSkip DEF PassOver, Current
  <1>3. CASE Refused(s, n)
    BY <1>3, HoldSkip DEF Refused, Calls, Current
  <1>4. CASE ReplyLost(s, n)
    BY <1>1, <1>4, HoldSkip DEF ReplyLost, Sound
  <1>5. CASE Unreachable(s, n)
    BY <1>5, HoldSkip DEF Unreachable, Calls, Current
  <1> QED BY <1>2, <1>3, <1>4, <1>5, CallHold, AbsorbHold

-----------------------------------------------------------------------------
\* How that is kept: the rows a transaction commits

LEMMA ClosingHolds ==
    ASSUME IInv, FinalityInv, HoldInv, NEW s \in Sessions, Closing(s).ok
    PROVE  LET w == Closing(s).row
           IN  Works(w, View(s)) /\ (Begun(View(s)) => Begun(w))
  <1> DEFINE v == View(s)
             w == Closing(s).row
             p == [v EXCEPT !.status = "COMMITTED_PENDING_APPLY"]
  <1>1. v \in NodeRow /\ TypeOK /\ Coord \in Nodes
    BY ViewFinal, IInvTypeOK, NodesAssumption
  <1>2. \/ w = v \/ w = MarkPrepared(v)
        \/ w = Reconcile(v) /\ CanReconcile(v)
        \/ w = p /\ v.status \in Certified
    BY DEF Closing, Certified
  <1>3. ASSUME w = v \/ w = MarkPrepared(v) PROVE Works(w, v) /\ (Begun(v) => Begun(w))
    <2>1. Moves(Coord, w, v)
      BY <1>1, <1>3, LightOperators
    <2> QED BY <1>1, <2>1, MovesWork, StatusGroups DEF Moves, MayMove, Begun
  <1>4. ASSUME w = p, v.status \in Certified PROVE Works(w, v) /\ (Begun(v) => Begun(w))
    <2>1. Moves(Coord, p, v) /\ Begun(p)
      BY <1>1, <1>4, StatusGroups DEF Moves, Light, MayMove, NodeRow, Status, Begun
    <2> QED BY <1>1, <1>4, <2>1, MovesWork
  <1>5. ASSUME w = Reconcile(v), CanReconcile(v) PROVE Works(w, v) /\ (Begun(v) => Begun(w))
    <2>1. w = v \/ (w.status = "RECONCILED" /\ v.status \in Certified)
      BY <1>1, <1>5 DEF Reconcile, CanReconcile, NodeRow
    <2>2. HoldRow(Coord, v) => HoldRow(Coord, w) /\ LetsGo(w, v)
      BY <1>1, <1>5, ReconcilingHolds
    <2> HIDE DEF w, v
    <2> QED BY <2>1, <2>2, StatusGroups DEF Works, Light, Begun
  <1> HIDE DEF w, p
  <1>6. Works(w, v) /\ (Begun(v) => Begun(w))
    BY <1>2, <1>3, <1>4, <1>5
  <1> QED BY <1>6 DEF w

LEMMA CommitHold ==
    ASSUME IInv, FinalityInv, OutcomeInv, HoldInv, NEW s \in Sessions, Commit(s)
    PROVE  /\ HoldInv'
           /\ \A n \in Nodes : LetsGo(db'[n], db[n]) /\ Follows(db'[n], db[n])
  <1> DEFINE v == View(s)
             w == Closing(s).row
             e == Stored(tx[s], w)
  <1>1. v \in NodeRow /\ db \in [Nodes -> NodeRow] /\ Coord \in Nodes
    BY ViewFinal, NodesAssumption DEF IInv, RowsOK
  <1>2. w \in NodeRow /\ Follows(w, v) /\ Closing(s).ok
    BY ClosingFinal DEF Commit, Keeps
  <1>3. Works(w, v) /\ (Begun(v) => Begun(w))
    BY <1>2, ClosingHolds
  <1>4. w.status # v.status => tx[s].seen = db[Coord].status
    BY DEF Commit, MayWrite
  <1>5. HoldRow(Coord, e) /\ LetsGo(w, v)
    BY <1>2, <1>3, <1>4, WorkHolds
  <1>6. e \in NodeRow /\ e.cert = w.cert /\ e.held = w.held /\ e.cleared = w.cleared
        /\ e.status = IF w.status = tx[s].seen THEN db[Coord].status ELSE w.status
    BY <1>2, StoredRow DEF Light
  <1>7. PICK f \in NodeRow : /\ db' = [db EXCEPT ![Coord] = f] /\ Follows(f, db[Coord])
                             /\ \A t \in Sessions : t # s /\ tx[t].locked => f = db[Coord]
    BY CommitRow
  <1>8. db' = [db EXCEPT ![Coord] = e]
    <2>1. IF w.status = tx[s].seen THEN e = [w EXCEPT !.status = db[Coord].status] ELSE e = w
      BY <1>2 DEF Stored, NodeRow
    <2> QED BY <2>1 DEF Commit
  <1>9. db'[Coord] = e /\ e = f
    BY <1>1, <1>7, <1>8
  <1>10. LetsGo(e, db[Coord])
    <2>1. LetsGo(v, db[Coord]) /\ Follows(v, db[Coord])
      BY ViewHolds, ViewFinal
    <2> HIDE DEF e, v, w
    <2> QED BY <1>2, <1>5, <1>6, <2>1 DEF LetsGo, Follows
  <1>11. Begun(db[Coord]) => Begun(e)
    <2>1. tx[s].seen \notin Collecting \union {"ABSENT"} => Begun(v)
      BY ViewHolds
    <2>2. /\ tx[s].locked => v.status = tx[s].work.status
          /\ ~tx[s].locked => v.status = tx[s].seen
      BY ViewFinal DEF View
    <2>3. tx[s].locked /\ tx[s].work.status # tx[s].seen => tx[s].seen = db[Coord].status
      BY DEF OutcomeInv, KnowsStatus
    <2> HIDE DEF e, v, w
    <2> QED BY <1>3, <1>4, <1>6, <2>1, <2>2, <2>3 DEF Begun
  <1> HIDE DEF e, v, w
  <1>12. \A n \in Nodes : db'[n] = IF n = Coord THEN e ELSE db[n]
    BY <1>1, <1>8
  <1>13. \A n \in Nodes : HoldRow(n, db'[n]) /\ LetsGo(db'[n], db[n]) /\ Follows(db'[n], db[n])
    BY <1>5, <1>7, <1>9, <1>10, <1>12 DEF HoldInv, LetsGo, Follows
  <1>14. tx' = [tx EXCEPT ![s] = Idle] /\ tx \in [Sessions -> Transaction]
    BY DEF Commit, IInv, TransactionsOK
  <1>15. ASSUME NEW t \in Sessions PROVE CarriesHold(tx[t])'
    <2>1. CASE t = s
      <3>1. tx'[t] = Idle
        BY <1>14, <2>1
      <3>2. ~Idle.locked /\ Idle.seen = "ABSENT" /\ ~Idle.opened
        BY IdleSound DEF Idle
      <3> QED BY <3>1, <3>2 DEF CarriesHold
    <2>2. CASE t # s
      <3>1. tx'[t] = tx[t] /\ CarriesHold(tx[t])
        BY <1>14, <2>2 DEF HoldInv
      <3>2. tx[t].locked => db'[Coord] = db[Coord]
        BY <1>7, <1>9, <2>2
      <3>3. Begun(db[Coord]) => Begun(db'[Coord])
        BY <1>9, <1>11
      <3> QED BY <3>1, <3>2, <3>3 DEF CarriesHold, Stored
    <2> QED BY <2>1, <2>2
  <1> QED BY <1>13, <1>15 DEF HoldInv

\* A row of a node changes and no command does.
LEMMA RowHold ==
    ASSUME IInv, HoldInv, NEW n \in Nodes, NEW e \in NodeRow, HoldRow(n, e), LetsGo(e, db[n]), Quiet(e, db[n]),
           n = Coord => (\A s \in Sessions : ~tx[s].locked) /\ (Begun(db[n]) => Begun(e)),
           db' = [db EXCEPT ![n] = e], UNCHANGED tx
    PROVE  /\ HoldInv'
           /\ \A m \in Nodes : LetsGo(db'[m], db[m]) /\ Follows(db'[m], db[m])
  <1>1. db \in [Nodes -> NodeRow] /\ Coord \in Nodes /\ Follows(e, db[n])
    BY NodesAssumption, QuietKeeps DEF IInv, RowsOK
  <1>2. \A m \in Nodes : db'[m] = IF m = n THEN e ELSE db[m]
    BY <1>1
  <1>3. \A m \in Nodes : HoldRow(m, db'[m]) /\ LetsGo(db'[m], db[m]) /\ Follows(db'[m], db[m])
    BY <1>1, <1>2 DEF HoldInv, LetsGo, Follows
  <1>4. \A s \in Sessions : CarriesHold(tx[s])'
    BY <1>1, <1>2 DEF HoldInv, CarriesHold, Stored
  <1> QED BY <1>3, <1>4 DEF HoldInv

LEMMA CreateHold ==
    ASSUME IInv, HoldInv, CreateCycle
    PROVE  /\ HoldInv'
           /\ \A m \in Nodes : LetsGo(db'[m], db[m]) /\ Follows(db'[m], db[m])
  <1> DEFINE d == db[Coord]
             e == [d EXCEPT !.status = "DRAFT"]
  <1>1. db \in [Nodes -> NodeRow] /\ Coord \in Nodes /\ d \in NodeRow /\ HoldRow(Coord, d)
    BY NodesAssumption DEF IInv, RowsOK, HoldInv
  <1>2. d.status = "ABSENT" /\ db' = [db EXCEPT ![Coord] = e] /\ UNCHANGED tx
    BY DEF CreateCycle
  <1>3. /\ e \in NodeRow /\ Light(Coord, e, d) /\ e.status = "DRAFT" /\ e.proof = d.proof
    BY <1>1 DEF NodeRow, Light, Status, Collecting
  <1> HIDE DEF e
  <1>4. ~Begun(d) /\ ~Begun(e)
    BY <1>2, <1>3 DEF Begun, Collecting
  <1>5. HoldRow(Coord, e) /\ LetsGo(e, d) /\ Follows(e, d)
    BY <1>1, <1>3, <1>4, LightKeeps DEF MayMove, Light, Follows
  <1>6. \A m \in Nodes : db'[m] = IF m = Coord THEN e ELSE db[m]
    BY <1>1, <1>2
  <1>7. \A m \in Nodes : HoldRow(m, db'[m]) /\ LetsGo(db'[m], db[m]) /\ Follows(db'[m], db[m])
    BY <1>5, <1>6 DEF HoldInv, LetsGo, Follows
  <1>8. ASSUME NEW s \in Sessions PROVE CarriesHold(tx[s])'
    <2> DEFINE u == tx[s]
               x == Stored(u, u.work)
               y == [u.work EXCEPT !.status = IF @ = u.seen THEN e.status ELSE @]
    <2>1. u \in Transaction /\ u.work \in NodeRow /\ CarriesHold(u)
      BY DEF IInv, TransactionsOK, Transaction, HoldInv
    <2>2. Stored(u, u.work)' = y
      BY <1>1, <1>2, <1>6 DEF Stored
    <2>3. /\ x \in NodeRow /\ Light(Coord, x, u.work)
          /\ x.status = IF u.work.status = u.seen THEN d.status ELSE u.work.status
      BY <2>1, StoredRow
    <2>4. /\ y \in NodeRow /\ Light(Coord, y, u.work)
          /\ y.status = IF u.work.status = u.seen THEN e.status ELSE u.work.status
      BY <1>3, <2>1 DEF NodeRow, Light, Status, Collecting
    <2> HIDE DEF x, y
    <2>5. Light(Coord, y, x) /\ MayMove(Coord, y, x)
      <3>1. y.status = x.status \/ (~Begun(y) /\ ~Begun(x))
        BY <1>4, <2>3, <2>4 DEF Begun
      <3>2. y.snap = x.snap
        BY <1>3, <2>1, <2>2 DEF x, y, Stored, NodeRow
      <3> QED BY <2>3, <2>4, <3>1, <3>2 DEF Light, MayMove
    <2>6. HoldRow(Coord, x) => HoldRow(Coord, y)
      BY <1>1, <2>3, <2>4, <2>5, LightKeeps
    <2>7. u.locked => LetsGo(u.work, db'[Coord])
      BY <1>1, <1>3, <1>6, <2>1 DEF CarriesHold, LetsGo, Light
    <2>8. tx'[s] = u /\ u.seen \in Collecting \union {"ABSENT"}
      BY <1>2, <1>4, <2>1 DEF CarriesHold
    <2> HIDE DEF u
    <2> QED BY <1>2, <2>1, <2>2, <2>6, <2>7, <2>8 DEF CarriesHold, x, u
  <1> QED BY <1>7, <1>8 DEF HoldInv

LEMMA NodeHold ==
    ASSUME IInv, HoldInv, NEW n \in Nodes, Approve(n) \/ Sweep(n)
    PROVE  /\ HoldInv'
           /\ \A m \in Nodes : LetsGo(db'[m], db[m]) /\ Follows(db'[m], db[m])
  <1> DEFINE d == db[n]
  <1>1. d \in NodeRow /\ HoldRow(n, d) /\ TypeOK
    BY IInvTypeOK DEF IInv, RowsOK, HoldInv
  <1>2. UNCHANGED tx /\ (n = Coord => \A s \in Sessions : ~tx[s].locked)
    BY DEF Approve, Sweep
  <1>3. CASE Approve(n)
    <2> DEFINE e == AddApprovals({n}, d)
    <2>1. n \in d.prep /\ d.status \in Live /\ db' = [db EXCEPT ![n] = e]
      BY <1>3, StatusGroups DEF Approve, CanApprove
    <2>2. Moves(n, e, d)
      BY <1>1, <2>1, LightOperators
    <2>3. e \in NodeRow /\ HoldRow(n, e) /\ LetsGo(e, d) /\ Quiet(e, d)
      BY <1>1, <2>2, LightKeeps, QuietOperators DEF Moves, Released
    <2>4. Begun(d) => Begun(e)
      BY <2>2, StatusGroups DEF Moves, MayMove, Begun
    <2> HIDE DEF e
    <2> QED BY <1>2, <2>1, <2>3, <2>4, RowHold
  <1>4. CASE Sweep(n)
    <2> DEFINE e == ReleaseLocal("PREPARE_EXPIRED", d)
    <2>1. d.status \in Live /\ CanUnreserve(d) /\ db' = [db EXCEPT ![n] = e] /\ "PREPARE_EXPIRED" \in Released
      BY <1>4 DEF Sweep, Sweepable, Released
    <2>2. e \in NodeRow /\ HoldRow(n, e) /\ LetsGo(e, d) /\ Quiet(e, d)
      BY <1>1, <2>1, ReleasingHolds, ReleasingKeeps, QuietOperators DEF Keeps
    <2>3. Begun(e)
      BY <1>1, <2>1, StatusGroups DEF ReleaseLocal, FreeObligations, NodeRow, Begun
    <2> HIDE DEF e
    <2> QED BY <1>2, <2>1, <2>2, <2>3, RowHold
  <1> QED BY <1>3, <1>4

LEMMA NextHold ==
    ASSUME IInv, FinalityInv, OutcomeInv, HoldInv, [Next]_vars
    PROVE  /\ HoldInv'
           /\ \A n \in Nodes : LetsGo(db'[n], db[n]) /\ Follows(db'[n], db[n])
  <1> DEFINE Kept == \A n \in Nodes : LetsGo(db'[n], db[n]) /\ Follows(db'[n], db[n])
  <1>1. UNCHANGED db => Kept
    BY DEF LetsGo, Follows
  <1>2. CASE UNCHANGED vars \/ Tick
    <2>1. UNCHANGED <<db, tx>>
      BY <1>2 DEF vars, Tick
    <2>2. HoldInv'
      BY <2>1 DEF HoldInv, HoldRow, Begun, Taken, CarriesHold, Stored, LetsGo
    <2> QED BY <1>1, <2>1, <2>2
  <1>3. CASE CreateCycle
    BY <1>3, CreateHold
  <1>4. CASE \E s \in Sessions : \/ \E op \in Operations : Begin(s, op)
                                \/ BeginSweepRecovery(s) \/ Step(s) \/ Rollback(s)
    <2> PICK s \in Sessions : \/ \E op \in Operations : Begin(s, op)
                              \/ BeginSweepRecovery(s) \/ Step(s) \/ Rollback(s)
      BY <1>4
    <2>1. CASE (\E op \in Operations : Begin(s, op)) \/ BeginSweepRecovery(s) \/ Rollback(s)
      <3>1. UNCHANGED db
        BY <2>1 DEF Begin, BeginSweepRecovery, Rollback
      <3> QED BY <1>1, <2>1, <3>1, BeginHold
    <2>2. CASE Open(s)
      <3>1. UNCHANGED db
        BY <2>2 DEF Open, OpenPrepare, OpenPropose, OpenCommit, OpenRecover
      <3> QED BY <1>1, <2>2, <3>1, OpenHold
    <2>3. CASE Local(s)
      <3>1. UNCHANGED db
        BY <2>3 DEF Local, LocalSnapshot, LocalPrepare, LocalApply, LocalRelease
      <3> QED BY <1>1, <2>3, <3>1, LocalHold
    <2>4. CASE Visit(s)
      <3>1. Kept
        <4> PICK n \in Nodes : \/ PassOver(s, n) \/ Call(s, n) \/ Refused(s, n)
                               \/ ReplyLost(s, n) \/ Absorb(s, n) \/ Unreachable(s, n)
          BY <2>4 DEF Visit
        <4>1. CASE Call(s, n)
          <5>1. /\ RequestOf(s, n) \in Request /\ RequestOf(s, n).to # Coord
                /\ SendsCertificate(RequestOf(s, n)) /\ Served(RequestOf(s, n))
            BY <4>1, RequestSound, SentCertificate DEF Call
          <5> QED BY <5>1, ServedHolds
        <4>2. CASE ~Call(s, n)
          BY <1>1, <4>2 DEF PassOver, Refused, ReplyLost, Absorb, Unreachable
        <4> QED BY <4>1, <4>2
      <3> QED BY <2>4, <3>1, VisitHold
    <2>5. CASE Commit(s)
      BY <2>5, CommitHold
    <2> QED BY <2>1, <2>2, <2>3, <2>4, <2>5 DEF Step
  <1>5. CASE \E r \in net : Late(r)
    <2> PICK r \in net : Late(r)
      BY <1>5
    <2>1. r \in Request /\ r.to # Coord /\ SendsCertificate(r) /\ Served(r) /\ UNCHANGED tx
      BY DEF IInv, RequestsOK, FinalityInv, SendsCertificate, Late
    <2>2. (\A n \in Nodes : HoldRow(n, db'[n])) /\ Kept /\ db'[Coord] = db[Coord]
      BY <2>1, ServedHolds
    <2>3. HoldInv'
      BY <2>1, <2>2 DEF HoldInv, CarriesHold, Stored
    <2> QED BY <2>2, <2>3
  <1>6. CASE \E n \in Nodes : Approve(n) \/ Sweep(n)
    BY <1>6, NodeHold
  <1> QED BY <1>2, <1>3, <1>4, <1>5, <1>6 DEF Next, Proceed, Command

LEMMA HoldHolds == Spec => [](OutcomeInv /\ HoldInv)
  <1> QED BY InvariantHolds, FinalityHolds, InitOutcome, InitHold, NextOutcome, NextHold, PTL DEF Spec

\* For any participants, sessions, lost, late and repeated messages and rollbacks: what a node
\* that prepared the cycle has reserved of its exposure is what it holds of its obligations.
\* The exception is a coordinator whose cycle was released before it had prepared.
THEOREM ExposureFollowsHold == Spec => []PreparedExposureExact
  <1>1. HoldInv => PreparedExposureExact
    <2> SUFFICES ASSUME HoldInv, NEW n \in Nodes, n \in db[n].prep, ~ReleasedUnprepared(n)
                 PROVE  ExposureMatches(n)
      BY DEF PreparedExposureExact
    <2> QED BY TimeAssumption DEF HoldInv, HoldRow, ReleasedUnprepared, Exposed, ExposureMatches, Taken
  <1> QED BY <1>1, HoldHolds, PTL

\* Likewise: obligations the result touches are never held for a cycle that can neither be
\* applied nor released any more.
THEOREM NobodyHoldsForNothing == Spec => []NoOrphanedHold
  <1>1. HoldInv => NoOrphanedHold
    <2> SUFFICES ASSUME HoldInv, NEW n \in Affected, db[n].held, ~ReleasedUnprepared(n)
                 PROVE  db[n].status \in Live \union Certified
      BY DEF NoOrphanedHold
    <2> QED BY NodesAssumption, TimeAssumption DEF HoldInv, HoldRow, ReleasedUnprepared, Exposed
  <1> QED BY <1>1, HoldHolds, PTL

\* Likewise: a certificate, once stored at a node, stays, and the hold the node has then ends
\* only by clearing under that certificate, whatever a command read before.
THEOREM CertificatesStay == Spec => CertificateFinal
  <1> DEFINE Kept == \A n \in Nodes : db[n].cert # 0 =>
                       /\ db'[n].cert = db[n].cert
                       /\ db[n].held /\ ~db'[n].held => db'[n].cleared = db[n].cert
  <1>1. IInv /\ FinalityInv /\ OutcomeInv /\ HoldInv /\ [Next]_vars => Kept
    BY NextHold DEF LetsGo, Follows
  <1>2. IInv /\ FinalityInv /\ OutcomeInv /\ HoldInv /\ [Next]_vars => [Kept]_vars
    BY <1>1
  <1> QED BY <1>2, InvariantHolds, FinalityHolds, HoldHolds, PTL DEF Spec, CertificateFinal

=============================================================================

---------------------------- MODULE FederatedWorker ----------------------------
(***************************************************************************)
(* The cycle of FederatedClearing with the worker of each node as it runs: *)
(* one poll is one transaction that sweeps expired prepares and recovers   *)
(* the pending cycles the node coordinates.  The recovery of one of those  *)
(* may raise (reconcile stands outside the try of recover), and then the   *)
(* whole poll is rolled back, the sweep with it, at every poll.            *)
(* So next to the cycle itself a node has one other cycle here, which it   *)
(* coordinates and may have left COMMITTED_PENDING_APPLY.                  *)
(***************************************************************************)
EXTENDS FederatedClearing

CONSTANT Coordinators   \* bound: the nodes that coordinate another cycle as well

\* The other cycle of each node: WAITING while pending, ANSWERED once the next recovery finds
\* every receipt (it is due and all affected nodes have answered or will), and when its
\* snapshots expire
VARIABLE other

wvars == <<vars, other>>

WorkerInit == Init /\ other = [n \in Nodes |-> [status |-> "NONE", until |-> 0]]

-----------------------------------------------------------------------------
\* A commit of the other cycle ends with a node that did not answer
LeavePending(n, until) ==
    /\ n \in Coordinators /\ other[n].status = "NONE" /\ now < until
    /\ other' = [other EXCEPT ![n] = [status |-> "WAITING", until |-> until]]
    /\ UNCHANGED vars

\* Its affected nodes come back, or are lost again before the next poll
PeersAnswer(n) ==
    /\ other[n].status = "WAITING"
    /\ other' = [other EXCEPT ![n].status = "ANSWERED"]
    /\ UNCHANGED vars
PeersLost(n) ==
    /\ other[n].status = "ANSWERED"
    /\ other' = [other EXCEPT ![n].status = "WAITING"]
    /\ UNCHANGED vars

\* recover has every receipt and calls reconcile, which refuses expired snapshots
RecoveryRaises(n) == other[n].status = "ANSWERED" /\ other[n].until <= now
Recovered(n) == IF other[n].status = "ANSWERED" THEN [status |-> "RECONCILED", until |-> 0]
                ELSE other[n]

\* One turn of run_worker that finds something to do and reaches its commit.  The sweep raises
\* for an exposure it cannot give back; SKIP LOCKED passes over the row a command holds.
SkipsLocked(n) == n = Coord /\ \E s \in Sessions : tx[s].locked
Poll(n) ==
    /\ ~RecoveryRaises(n)
    /\ other' = [other EXCEPT ![n] = Recovered(n)]
    /\ IF Sweepable(n, db[n]) /\ ~SkipsLocked(n) THEN Sweep(n)
       ELSE other' # other /\ UNCHANGED vars

WorkerNext ==
    \/ Proceed /\ UNCHANGED other
    \/ \E n \in Nodes : \/ \E until \in 1..MaxNow : LeavePending(n, until)
                        \/ PeersAnswer(n) \/ PeersLost(n) \/ Poll(n)

\* Time passes, and a worker that can commit its poll does: run_worker catches what a poll raises
\* and polls again, and nothing else in the poll is taken to raise every time.  Nothing makes an
\* operator issue a command, a peer answer or an open command end.
WorkerSpec == /\ WorkerInit /\ [][WorkerNext]_wvars
              /\ WF_wvars(Tick /\ UNCHANGED other)
              /\ \A n \in Nodes : WF_wvars(Poll(n))

-----------------------------------------------------------------------------
\* A participant's obligations do not stay frozen (expire_stale_federated_prepares): its own
\* worker frees them after expiry even if the coordinator is never heard of again, unless that
\* worker comes again and again upon a cycle of its own whose recovery raises.
ParticipantsLetGo ==
    \A n \in Nodes \ {Coord} :
        <>[]~RecoveryRaises(n) => (db[n].held ~> ~db[n].held)
=============================================================================

-------------------------- MODULE FederatedPurchase --------------------------
(***************************************************************************)
(* A purchase across nodes: the buyer's node reserves the goods and then    *)
(* their delivery, each a local row or a hold at the node that sells it,    *)
(* asks every home node to commit, and closes the purchase when it has      *)
(* their signed answers; or asks them to release and compensates.  A home   *)
(* node commits its transaction on its own: the buyer's transaction may     *)
(* still roll back, and either answer may be lost.                          *)
(***************************************************************************)
EXTENDS Catalog

CONSTANTS
    Intents,      \* purchase intents, each of one unit
    Buyer,        \* the buyer's node of each
    OwnOffer,     \* the intents whose buyer published the offer himself
    Capacity,     \* units a version of the offer, and a quote on it, can serve
    Limit         \* the bilateral limit on what one node owes another, per capability

VARIABLES
    intents,      \* PurchaseIntent
    receipts,     \* intent -> kind -> ReservationReceipt at the buyer's node
    holds,        \* intent -> kind -> status of the PeerResourceReservation at the home node
    exposure,     \* buyer's node -> kind -> NodeExposure kept by the home node
    over,         \* <<intent, kind or "INTENT">> : its expires_at has passed
    deals         \* intents with a local deal

pvars == <<intents, receipts, holds, exposure, over, deals>>
vars == <<cvars, pvars>>

NoReceipt == [status |-> "ABSENT", commit |-> FALSE, release |-> FALSE]

Init ==
    /\ CInit
    /\ intents = [i \in Intents |-> [status |-> "ABSENT", version |-> 1]]
    /\ receipts = [i \in Intents |-> [k \in Kinds |-> NoReceipt]]
    /\ holds = [i \in Intents |-> [k \in Kinds |-> "ABSENT"]]
    /\ exposure = [n \in Nodes |-> [k \in Kinds |-> [current |-> 0, reserved |-> 0]]]
    /\ over = {}
    /\ deals = {}

Home(i, k) == HomeOf(k, intents[i].version)
Remote(i, k) == Home(i, k) # Buyer[i]
Parts(i) == {<<i, x>> : x \in Kinds \union {"INTENT"}}
Over(i, k) == <<i, k>> \in over
\* The two nodes talk only while each trusts the other
Connected(i, k) == <<Buyer[i], Home(i, k)>> \in trusts /\ <<Home(i, k), Buyer[i]>> \in trusts

\* Units of a resource that a node counts as taken, by its own buyers and by its peers
Counts(status, i, k) == status = "COMMITTED" \/ (status = "ACTIVE" /\ ~Over(i, k))
Of(k, v) == {i \in Intents : intents[i].status # "ABSENT" /\ intents[i].version = v}
TakenLocally(n, k, v) == Cardinality({i \in Of(k, v) : Buyer[i] = n /\ Counts(receipts[i][k].status, i, k)})
TakenByPeers(n, k, v) == Cardinality({i \in Of(k, v) : Home(i, k) = n /\ Counts(holds[i][k], i, k)})
\* Mutant: a home node counts only what its peers hold
FitsPeersOnly(n, k, v) == TakenByPeers(n, k, v) + 1 <= Capacity
Fits(n, k, v) == TakenLocally(n, k, v) + TakenByPeers(n, k, v) + 1 <= Capacity

\* The intent goes from one status to the next
Moved(i, status) == intents' = [intents EXCEPT ![i].status = status]

CreatePurchaseIntent(i, v) ==
    /\ intents[i].status = "ABSENT" /\ Purchasable(Buyer[i], v)
    /\ intents' = [intents EXCEPT ![i] = [status |-> "PREPARING", version |-> v]]
    /\ UNCHANGED <<receipts, holds, exposure, over, deals, cvars>>

\* The status in which each part is reserved, and the one it leads to
Before(k) == IF k = "GOODS" THEN "PREPARING" ELSE "GOODS_RESERVED"
After(k) == IF k = "GOODS" THEN "GOODS_RESERVED" ELSE "PREPARED"
Reserving(i, k) == intents[i].status = Before(k) /\ ~Over(i, "INTENT")

\* A hold once made for an intent and kind is never made again
NeverHeld(i, k) == holds[i][k] = "ABSENT"
WithinLimit(n, k) == exposure[n][k].current + exposure[n][k].reserved + 1 <= Limit
\* The home node holds a unit for the buyer's node, within the bilateral limit
HoldForPeer(i, k) ==
    /\ Remote(i, k) /\ Reserving(i, k) /\ Connected(i, k)
    /\ NeverHeld(i, k)
    /\ Rows(k)[Home(i, k)][intents[i].version] = "ACTIVE" /\ <<k, intents[i].version>> \notin lapsed
    /\ Fits(Home(i, k), k, intents[i].version)
    /\ WithinLimit(Buyer[i], k)
    /\ holds' = [holds EXCEPT ![i][k] = "ACTIVE"]
    /\ exposure' = [exposure EXCEPT ![Buyer[i]][k].reserved = @ + 1]
    /\ UNCHANGED <<intents, receipts, over, deals, cvars>>

\* The buyer's node records the receipt, the home's answer in hand for a remote part
Reserve(i, k) ==
    /\ Reserving(i, k)
    /\ Remote(i, k) => holds[i][k] = "ACTIVE" /\ ~Over(i, k) /\ Trusted(Buyer[i], Home(i, k))
    /\ <<k, intents[i].version>> \notin lapsed
    /\ Fits(Buyer[i], k, intents[i].version)
    /\ receipts' = [receipts EXCEPT ![i][k] = [NoReceipt EXCEPT !.status = "ACTIVE"]]
    /\ Moved(i, After(k))
    /\ UNCHANGED <<holds, exposure, over, deals, cvars>>

Active(i) == {k \in Kinds : receipts[i][k].status = "ACTIVE"}
BeginCommit(i) ==
    /\ intents[i].status = "PREPARED" /\ ~Over(i, "INTENT")
    /\ Active(i) = Kinds /\ \A k \in Kinds : ~Over(i, k)
    /\ Moved(i, "COMMITTING")
    /\ UNCHANGED <<receipts, holds, exposure, over, deals, cvars>>

\* The home node turns what it holds into what is owed, unless the hold ran out meanwhile
CommitForPeer(i, k) ==
    /\ Remote(i, k) /\ Connected(i, k)
    /\ intents[i].status = "COMMITTING" /\ k \in Active(i) /\ ~receipts[i][k].commit
    /\ holds[i][k] = "ACTIVE" /\ ~Over(i, k) /\ exposure[Buyer[i]][k].reserved >= 1
    /\ holds' = [holds EXCEPT ![i][k] = "COMMITTED"]
    /\ exposure' = [exposure EXCEPT ![Buyer[i]][k] = [current |-> @.current + 1, reserved |-> @.reserved - 1]]
    /\ UNCHANGED <<intents, receipts, over, deals, cvars>>

\* The answer reaches the buyer's node, at once or when a retry repeats the question
RecordRemoteCommit(i, k) ==
    /\ Remote(i, k) /\ Connected(i, k)
    /\ intents[i].status = "COMMITTING" /\ k \in Active(i) /\ ~receipts[i][k].commit
    /\ holds[i][k] = "COMMITTED"
    /\ receipts' = [receipts EXCEPT ![i][k].commit = TRUE]
    /\ UNCHANGED <<intents, holds, exposure, over, deals, cvars>>

\* Every remote part has answered, every local one is still in time
Answered(i) == \A k \in Kinds : IF Remote(i, k) THEN receipts[i][k].commit ELSE ~Over(i, k)
\* A purchase of another member's offer at the own node becomes a deal there
Bridged(i) == ~Remote(i, "GOODS") /\ i \notin OwnOffer
Materialized(i) == IF Bridged(i) THEN deals \union {i} ELSE deals
Commit(i) ==
    /\ intents[i].status = "COMMITTING" /\ Active(i) = Kinds /\ Answered(i)
    /\ receipts' = [receipts EXCEPT ![i] = [k \in Kinds |-> [@[k] EXCEPT !.status = "COMMITTED"]]]
    /\ Moved(i, "COMMITTED")
    /\ deals' = Materialized(i)
    /\ UNCHANGED <<holds, exposure, over, cvars>>

BeginCancel(i) ==
    /\ intents[i].status \notin {"ABSENT", "COMMITTED", "COMMITTING", "CANCELLING"}
    /\ Moved(i, "CANCELLING")
    /\ UNCHANGED <<receipts, holds, exposure, over, deals, cvars>>

\* The home node gives the unit back, one the sweep has already given back included
Releasable(status) == status \in {"ACTIVE", "EXPIRED"}
ReleaseForPeer(i, k) ==
    /\ Remote(i, k) /\ Connected(i, k)
    /\ intents[i].status = "CANCELLING" /\ k \in Active(i) /\ ~receipts[i][k].release
    /\ Releasable(holds[i][k]) /\ exposure[Buyer[i]][k].reserved >= 1
    /\ holds' = [holds EXCEPT ![i][k] = "RELEASED"]
    /\ exposure' = [exposure EXCEPT ![Buyer[i]][k].reserved = @ - 1]
    /\ UNCHANGED <<intents, receipts, over, deals, cvars>>

RecordRemoteRelease(i, k) ==
    /\ Remote(i, k) /\ Connected(i, k)
    /\ intents[i].status = "CANCELLING" /\ k \in Active(i) /\ ~receipts[i][k].release
    /\ holds[i][k] = "RELEASED"
    /\ receipts' = [receipts EXCEPT ![i][k].release = TRUE]
    /\ UNCHANGED <<intents, holds, exposure, over, deals, cvars>>

Cancel(i) ==
    /\ intents[i].status = "CANCELLING"
    /\ \A k \in Active(i) : Remote(i, k) => receipts[i][k].release
    /\ receipts' = [receipts EXCEPT ![i] =
          [k \in Kinds |-> IF k \in Active(i) THEN [@[k] EXCEPT !.status = "RELEASED"] ELSE @[k]]]
    /\ Moved(i, IF Active(i) = {} THEN "CANCELLED" ELSE "COMPENSATED")
    /\ UNCHANGED <<holds, exposure, over, deals, cvars>>

\* A node's sweep: the holds it keeps for peers, then its own intents, in one transaction
Due(n) == {p \in Intents \X Kinds : p \in over /\ Home(p[1], p[2]) = n /\ holds[p[1]][p[2]] = "ACTIVE"}
DueIntents(n) ==
    {i \in Intents : /\ Buyer[i] = n /\ Over(i, "INTENT")
                     /\ intents[i].status \in {"PREPARING", "GOODS_RESERVED", "PREPARED"}}
ExpireStaleReservations(n) ==
    LET Returned(b, k) == Cardinality({p \in Due(n) : Buyer[p[1]] = b /\ p[2] = k})
    IN  /\ Due(n) # {} \/ DueIntents(n) # {}
        /\ \A b \in Nodes, k \in Kinds : exposure[b][k].reserved >= Returned(b, k)
        /\ holds' = [i \in Intents |-> [k \in Kinds |->
                        IF <<i, k>> \in Due(n) THEN "EXPIRED" ELSE holds[i][k]]]
        /\ exposure' = [b \in Nodes |-> [k \in Kinds |->
                           [exposure[b][k] EXCEPT !.reserved = @ - Returned(b, k)]]]
        /\ receipts' = [i \in Intents |-> [k \in Kinds |->
                           IF i \in DueIntents(n) /\ k \in Active(i)
                           THEN [receipts[i][k] EXCEPT !.status = "EXPIRED"] ELSE receipts[i][k]]]
        /\ intents' = [i \in Intents |-> IF i \in DueIntents(n) THEN [intents[i] EXCEPT !.status = "EXPIRED"]
                                         ELSE intents[i]]
        /\ UNCHANGED <<over, deals, cvars>>

\* Time passes the expiry of a part, or of an intent and so of its parts
Elapse(i, x) ==
    /\ intents[i].status # "ABSENT" /\ ~Over(i, x)
    /\ x \in Kinds => receipts[i][x].status # "ABSENT" \/ holds[i][x] # "ABSENT"
    /\ over' = over \union (IF x = "INTENT" THEN Parts(i) ELSE {<<i, x>>})
    /\ UNCHANGED <<intents, receipts, holds, exposure, deals, cvars>>

\* Time passes the validity of an artifact, and so of everything bounded by it
Lapse(k, v) ==
    /\ Rows(k)[HomeOf(k, v)][v] # "ABSENT"
    /\ lapsed' = lapsed \union {<<k, v>>}
    /\ over' = over \union UNION {Parts(i) : i \in Of(k, v)}
    /\ UNCHANGED <<intents, receipts, holds, exposure, deals, offers, quotes, indexes, trusts>>

CatalogStep ==
    /\ \/ \E v \in Versions : PublishOffer(v)
       \/ \E n \in Nodes, v \in Versions : ImportOffer(n, v) \/ IssueLogisticsQuote(n, v)
       \/ \E n \in Nodes : RevokeOffer(n) \/ ImportOfferIndex(n)
       \/ \E listed \in SUBSET Known(Seller) : PublishOfferIndex(listed)
       \/ \E p \in Unsteady : Grant(p[1], p[2]) \/ Withdraw(p[1], p[2])
    /\ UNCHANGED pvars

Next ==
    \/ CatalogStep
    \/ \E k \in Kinds, v \in Versions : Lapse(k, v)
    \/ \E i \in Intents, v \in Versions : CreatePurchaseIntent(i, v)
    \/ \E i \in Intents : BeginCommit(i) \/ Commit(i) \/ BeginCancel(i) \/ Cancel(i)
    \/ \E i \in Intents, k \in Kinds :
          \/ HoldForPeer(i, k) \/ Reserve(i, k) \/ CommitForPeer(i, k) \/ RecordRemoteCommit(i, k)
          \/ ReleaseForPeer(i, k) \/ RecordRemoteRelease(i, k)
    \/ \E i \in Intents, x \in Kinds \union {"INTENT"} : Elapse(i, x)
    \/ \E n \in Nodes : ExpireStaleReservations(n)

Spec == Init /\ [][Next]_vars

-----------------------------------------------------------------------------
IntentStatus == {"ABSENT", "PREPARING", "GOODS_RESERVED", "PREPARED", "COMMITTING", "COMMITTED",
                 "CANCELLING", "CANCELLED", "COMPENSATED", "EXPIRED"}
TypeOK ==
    /\ CTypeOK
    /\ intents \in [Intents -> [status : IntentStatus, version : Versions \union {1}]]
    /\ receipts \in [Intents -> [Kinds -> [status : {"ABSENT", "ACTIVE", "COMMITTED", "RELEASED", "EXPIRED"},
                                           commit : BOOLEAN, release : BOOLEAN]]]
    /\ holds \in [Intents -> [Kinds -> {"ABSENT", "ACTIVE", "COMMITTED", "RELEASED", "EXPIRED"}]]
    /\ \A n \in Nodes, k \in Kinds : exposure[n][k].current \in 0 .. Limit /\ exposure[n][k].reserved \in 0 .. Limit
    /\ over \subseteq UNION {Parts(i) : i \in Intents}
    /\ deals \subseteq Intents

\* No unit is sold twice: what a home node counts as taken, by buyers of its own and of every
\* peer, holds and commitments together, is within what it offered.
SoldWithinCapacity ==
    \A k \in Kinds, v \in Versions :
        TakenLocally(HomeOf(k, v), k, v) + TakenByPeers(HomeOf(k, v), k, v) <= Capacity

\* The nodes agree on the outcome: a purchase is committed only when every home node has
\* committed its part, and none commits a part of a purchase that is cancelled, compensated or
\* expired, whatever answers were lost and whichever expiry passed between the two steps.
OutcomeAgreed ==
    \A i \in Intents, k \in Kinds :
        /\ intents[i].status = "COMMITTED" =>
              receipts[i][k].status = "COMMITTED" /\ (Remote(i, k) => holds[i][k] = "COMMITTED")
        /\ holds[i][k] = "COMMITTED" => intents[i].status \in {"COMMITTING", "COMMITTED"}

\* What a home node says a peer owes it is what that peer's commitments add up to.
CurrentExact ==
    \A n \in Nodes, k \in Kinds :
        exposure[n][k].current = Cardinality({i \in Intents : Buyer[i] = n /\ holds[i][k] = "COMMITTED"})

\* A purchase across nodes sells within capacity, ends the same at every node, and the catalogue
\* shows what can be bought.
PurchaseSettled ==
    SoldWithinCapacity /\ OutcomeAgreed /\ CurrentExact /\ FoundIsPurchasable /\ CopiesFollowHome

=============================================================================

------------------------------- MODULE Catalog -------------------------------
(***************************************************************************)
(* The federated catalogue: the signed versions of an offer at its seller's *)
(* node and their copies at the other nodes, the delivery quotes on them,   *)
(* the signed lists of the offers in force, and the search over what a node *)
(* holds.  Every artifact is signed by its home node; a node accepts and    *)
(* believes a copy only while it trusts that node.                          *)
(***************************************************************************)
EXTENDS Integers, Sequences, FiniteSets

CONSTANTS
    Nodes,
    Seller,       \* the node whose offer this is
    Carrier,      \* the node that quotes the deliveries
    Versions,     \* 1 .. n, the versions of the offer
    Services,     \* the versions that are services, quoted by the seller's node itself
    MaxIndexes,   \* bound: the signed lists of offers published
    Unsteady      \* bound: the pairs of nodes whose trust may change

VARIABLES
    offers,       \* node -> version -> status of its row of FederatedOffer
    quotes,       \* node -> version -> status of its row of LogisticsQuote on that version
    indexes,      \* node -> the lists of offers it holds, in the order of their numbers
    lapsed,       \* <<kind, version>> of the artifacts past their valid_until
    trusts        \* <<a, b>> : a has an active contract and certificate of b

cvars == <<offers, quotes, indexes, lapsed, trusts>>

Kinds == {"GOODS", "LOGISTICS"}
Pairs == {p \in Nodes \X Nodes : p[1] # p[2]}
HomeOf(kind, v) == IF kind = "GOODS" \/ v \in Services THEN Seller ELSE Carrier
Rows(kind) == IF kind = "GOODS" THEN offers ELSE quotes
Trusted(n, home) == n = home \/ <<n, home>> \in trusts

CInit ==
    /\ offers = [n \in Nodes |-> [v \in Versions |-> "ABSENT"]]
    /\ quotes = [n \in Nodes |-> [v \in Versions |-> "ABSENT"]]
    /\ indexes = [n \in Nodes |-> <<>>]
    /\ lapsed = {}
    /\ trusts = Pairs

Known(n) == {v \in Versions : offers[n][v] # "ABSENT"}
Latest(n) == CHOOSE v \in Known(n) : \A w \in Known(n) : w <= v

\* A new version follows the one before it
Follows(n, v) == offers[n][v] = "ABSENT" /\ \A w \in 1 .. (v - 1) : w \in Known(n)

\* The seller's node signs a version; a service brings its own quote in the same transaction
PublishOffer(v) ==
    /\ Follows(Seller, v)
    /\ offers' = [offers EXCEPT ![Seller][v] = "ACTIVE"]
    /\ quotes' = IF v \in Services THEN [quotes EXCEPT ![Seller][v] = "ACTIVE"] ELSE quotes
    /\ UNCHANGED <<indexes, lapsed, trusts>>

\* Another node stores the signed version; nothing in it says that its home has revoked it
ImportOffer(n, v) ==
    /\ n # Seller /\ Trusted(n, Seller) /\ v \in Known(Seller)
    /\ Follows(n, v)
    /\ offers' = [offers EXCEPT ![n][v] = "ACTIVE"]
    /\ UNCHANGED <<quotes, indexes, lapsed, trusts>>

\* Only the latest version a node knows can be revoked, and only its own row changes
RevokeOffer(n) ==
    /\ Known(n) # {} /\ offers[n][Latest(n)] = "ACTIVE"
    /\ offers' = [offers EXCEPT ![n][Latest(n)] = "REVOKED"]
    /\ UNCHANGED <<quotes, indexes, lapsed, trusts>>

\* The seller's node signs the next list of the offers it stands by
PublishOfferIndex(listed) ==
    /\ Len(indexes[Seller]) < MaxIndexes
    /\ indexes' = [indexes EXCEPT ![Seller] = Append(@, listed)]
    /\ UNCHANGED <<offers, quotes, lapsed, trusts>>

\* Lists are taken in the order of their numbers, with no gap
ImportOfferIndex(n) ==
    /\ n # Seller /\ Trusted(n, Seller)
    /\ Len(indexes[n]) < Len(indexes[Seller])
    /\ indexes' = [indexes EXCEPT ![n] = Append(@, indexes[Seller][Len(@) + 1])]
    /\ UNCHANGED <<offers, quotes, lapsed, trusts>>

\* The carrier's node quotes the delivery of a version it knows, or another node stores that quote
IssueLogisticsQuote(n, v) ==
    /\ v \in Known(n) /\ quotes[n][v] = "ABSENT"
    /\ n # HomeOf("LOGISTICS", v) =>
          Trusted(n, HomeOf("LOGISTICS", v)) /\ quotes[HomeOf("LOGISTICS", v)][v] # "ABSENT"
    /\ quotes' = [quotes EXCEPT ![n][v] = "ACTIVE"]
    /\ UNCHANGED <<offers, indexes, lapsed, trusts>>

Grant(a, b) ==
    /\ trusts' = trusts \union {<<a, b>>}
    /\ UNCHANGED <<offers, quotes, indexes, lapsed>>
Withdraw(a, b) ==
    /\ trusts' = trusts \ {<<a, b>>}
    /\ UNCHANGED <<offers, quotes, indexes, lapsed>>

-----------------------------------------------------------------------------
\* How fresh a node finds its copy of an artifact; a copy it has just checked is live
Freshness(n, kind, v, live) ==
    IF ~Trusted(n, HomeOf(kind, v)) \/ Rows(kind)[n][v] # "ACTIVE" THEN "REVOKED_OR_UNTRUSTED"
    ELSE IF <<kind, v>> \in lapsed THEN "STALE"
    ELSE IF live THEN "LIVE_VERIFIED" ELSE "SIGNED_CACHED"

Reservable(freshness) == freshness \in {"LIVE_VERIFIED", "SIGNED_CACHED"}

\* The quotes a search prices an offer with
Quoted(n, v) == quotes[n][v] = "ACTIVE" /\ Reservable(Freshness(n, "LOGISTICS", v, FALSE))

\* What a search at a node finds: the latest version, if it is believed and, for a copy outside
\* a direct search, still on the newest list
Search(n, direct) ==
    {[version |-> v, freshness |-> Freshness(n, "GOODS", v, direct), quoted |-> Quoted(n, v)] :
        v \in {w \in Known(n) :
                  /\ w = Latest(n)
                  /\ Freshness(n, "GOODS", w, direct) # "REVOKED_OR_UNTRUSTED"
                  /\ ~direct /\ n # Seller =>
                        indexes[n] # <<>> /\ w \in indexes[n][Len(indexes[n])]}}

\* What a purchase can be made of: a believed offer and a believed quote on it
Purchasable(n, v) ==
    /\ Reservable(Freshness(n, "GOODS", v, TRUE))
    /\ quotes[n][v] # "ABSENT" /\ Reservable(Freshness(n, "LOGISTICS", v, FALSE))

CTypeOK ==
    /\ offers \in [Nodes -> [Versions -> {"ABSENT", "ACTIVE", "REVOKED"}]]
    /\ quotes \in [Nodes -> [Versions -> {"ABSENT", "ACTIVE"}]]
    /\ \A n \in Nodes : indexes[n] \in Seq(SUBSET Versions)
    /\ lapsed \subseteq Kinds \X Versions
    /\ trusts \subseteq Pairs

\* An offer a direct search returns fresh and priced can be bought as it was shown: search and
\* create_purchase_intent verify the same copies by two different paths.
FoundIsPurchasable ==
    \A n \in Nodes, found \in {Search(m, TRUE) : m \in Nodes} :
        found = Search(n, TRUE) =>
            \A hit \in found : Reservable(hit.freshness) /\ hit.quoted => Purchasable(n, hit.version)

\* A copy's numbers have no gap: a node that holds a list or a version holds every one before
\* it, and its lists are those of the home, whatever order the imports were tried in.
CopiesFollowHome ==
    \A n \in Nodes :
        /\ \A v \in Known(n) : v \in Known(Seller) /\ \A w \in 1 .. v : w \in Known(n)
        /\ Len(indexes[n]) <= Len(indexes[Seller])
        /\ indexes[n] = SubSeq(indexes[Seller], 1, Len(indexes[n]))
=============================================================================

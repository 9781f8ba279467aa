------------------------------- MODULE MCNode -------------------------------
(***************************************************************************)
(* Model-checking instances of what a node keeps of goods, members,        *)
(* accounts, obligations and other nodes.  A behaviour is about the        *)
(* component in focus, whose variables are v1 to v15; those it does not    *)
(* need stay empty.                                                        *)
(***************************************************************************)
EXTENDS Integers, Sequences, FiniteSets

VARIABLES focus, v1, v2, v3, v4, v5, v6, v7, v8, v9, v10, v11, v12, v13, v14, v15
vars == <<focus, v1, v2, v3, v4, v5, v6, v7, v8, v9, v10, v11, v12, v13, v14, v15>>

\* Assignments of responsibility at the start
NotYet == [status |-> "ABSENT", holder |-> "nobody", warehouse |-> "nowhere", creator |-> "nobody", expired |-> FALSE]
InForce(holder, warehouse) == [status |-> "ACTIVE", holder |-> holder, warehouse |-> warehouse, creator |-> "o",
                               expired |-> FALSE]
\* A row of an import batch, or of no batch when it is entered by hand
Row(cooperative, name, identifier, batch) ==
    [cooperative |-> cooperative, name |-> name, identifier |-> identifier, batch |-> batch]
\* A line of a deal
Line(d, from, to, quantity) == [deal |-> d, debtor |-> from, creditor |-> to, total |-> quantity,
                                due |-> 0, partial |-> TRUE, clearing |-> TRUE]

\* A custodian is replaced while a transfer of his lot is under way
Custody == INSTANCE CustodyContinuity WITH
    Members <- {"x", "y", "o", "p"}, Proposers <- {"o"}, Approvers <- {"p"}, Custodians <- {"x", "y"},
    Requesters <- {"o"}, Reviewers <- {"x", "o"}, Attesters <- {"p"}, RightOwners <- {"x"},
    Nobody <- "nobody", Nowhere <- "nowhere", Warehouses <- {"w", "v"}, Assignments <- {1, 2, 3}, Termed <- {1, 3},
    Lots <- {1}, Transfers <- {1}, Rights <- {}, Redemptions <- {}, Cases <- {1}, MaxQuantity <- 1, Tolerance <- 0,
    InForceFirst <- <<InForce("x", "w"), InForce("y", "v"), NotYet>>,
    standing <- v1, assignments <- v2, lots <- v3, transfers <- v4, balances <- v5, rights <- v6,
    redemptions <- v7, cases <- v8

\* Two rights over one lot, and their redemptions
Rights == INSTANCE CustodyContinuity WITH
    Members <- {"x", "y", "o", "p"}, Proposers <- {"o"}, Approvers <- {"p"}, Custodians <- {"x", "y"},
    Requesters <- {"o"}, Reviewers <- {"x", "o"}, Attesters <- {"p"}, RightOwners <- {"x"},
    Nobody <- "nobody", Nowhere <- "nowhere", Warehouses <- {"w", "v"}, Assignments <- {1, 2}, Termed <- {},
    Lots <- {1}, Transfers <- {1}, Rights <- {1, 2}, Redemptions <- {1, 2}, Cases <- {}, MaxQuantity <- 2, Tolerance <- 0,
    InForceFirst <- <<InForce("x", "w"), InForce("y", "v")>>,
    standing <- v1, assignments <- v2, lots <- v3, transfers <- v4, balances <- v5, rights <- v6,
    redemptions <- v7, cases <- v8

\* Two versions of an offer and the lists that publish them
Offers == INSTANCE FederatedPurchase WITH
    Nodes <- {"a", "b"}, Seller <- "b", Carrier <- "a", Versions <- {1, 2}, Services <- {2}, MaxIndexes <- 1,
    Unsteady <- {<<"a", "b">>}, Intents <- {}, Buyer <- <<>>, OwnOffer <- {}, Capacity <- 1, Limit <- 1,
    offers <- v1, quotes <- v2, indexes <- v3, lapsed <- v4, trusts <- v5, intents <- v6, receipts <- v7,
    holds <- v8, exposure <- v9, over <- v10, deals <- v11

\* Two buyers want the one unit of an offer, one of them its publisher
Rivals == INSTANCE FederatedPurchase WITH
    Nodes <- {"a", "b"}, Seller <- "b", Carrier <- "a", Versions <- {1}, Services <- {}, MaxIndexes <- 0,
    Unsteady <- {}, Intents <- {1, 2}, Buyer <- <<"a", "b">>, OwnOffer <- {2}, Capacity <- 1, Limit <- 1,
    offers <- v1, quotes <- v2, indexes <- v3, lapsed <- v4, trusts <- v5, intents <- v6, receipts <- v7,
    holds <- v8, exposure <- v9, over <- v10, deals <- v11

\* One purchase with both parts at the other node, whose trust comes and goes
Remote == INSTANCE FederatedPurchase WITH
    Nodes <- {"a", "b"}, Seller <- "b", Carrier <- "b", Versions <- {1}, Services <- {}, MaxIndexes <- 0,
    Unsteady <- {<<"a", "b">>, <<"b", "a">>}, Intents <- {1}, Buyer <- <<"a">>, OwnOffer <- {}, Capacity <- 1, Limit <- 1,
    offers <- v1, quotes <- v2, indexes <- v3, lapsed <- v4, trusts <- v5, intents <- v6, receipts <- v7,
    holds <- v8, exposure <- v9, over <- v10, deals <- v11

\* Another node from its application to its rehabilitation, while nothing runs out
Peer == INSTANCE NodeTrust WITH
    Registrars <- {"r"}, Securities <- {"s"}, Auditors <- {"a", "r"}, Nobody <- "nobody",
    Rotations <- {1}, Incidents <- {1}, Limits <- {1}, Forms <- {1}, MaxExposure <- 1, MaxTime <- 0,
    node <- v1, application <- v2, challenge <- v3, certificates <- v4, contract <- v5, limits <- v6, bond <- v7,
    incidents <- v8, rotations <- v9, epoch <- v10, forms <- v11, exposure <- v12,
    now <- v13, ends <- v14, admitted <- v15

\* The same without forms and new keys, while contract, bond, people and key run out
Lapsing == INSTANCE NodeTrust WITH
    Registrars <- {"r"}, Securities <- {"s"}, Auditors <- {"a", "r"}, Nobody <- "nobody",
    Rotations <- {}, Incidents <- {1}, Limits <- {1}, Forms <- {}, MaxExposure <- 1, MaxTime <- 1,
    node <- v1, application <- v2, challenge <- v3, certificates <- v4, contract <- v5, limits <- v6, bond <- v7,
    incidents <- v8, rotations <- v9, epoch <- v10, forms <- v11, exposure <- v12,
    now <- v13, ends <- v14, admitted <- v15

\* Two packages of a branch that diverged: event 1 from this node, events 2 and 3 from one another
Packages == INSTANCE SyncPackages WITH
    Events <- 1 .. 3, Shared <- {1, 2, 3}, Automatic <- {2, 3}, Version <- <<"a", "b", "b">>, Written <- {"a"}, Packages <- 1 .. 2,
    Importers <- {"a"}, Appliers <- {"a", "b"}, Panel <- {"a", "b"}, Nobody <- "nobody",
    packages <- v1, lapsed <- v2, inbox <- v3, conflicts <- v4, checkpoint <- v5

\* Sessions, factors and recovery of one account
Access == INSTANCE Accounts WITH
    Sessions <- {1, 2}, Factors <- {1, 2}, Officers <- {"a", "b"}, Grantors <- {}, Nobody <- "nobody",
    MaxFailures <- 1, MaxPasswords <- 1,
    member <- v1, account <- v2, sessions <- v3, factors <- v4, recovery <- v5, grant <- v6, role <- v7

\* Emergency grants and roles of one account
Grants == INSTANCE Accounts WITH
    Sessions <- {1}, Factors <- {1}, Officers <- {"a", "b"}, Grantors <- {"a", "b"}, Nobody <- "nobody",
    MaxFailures <- 1, MaxPasswords <- 0,
    member <- v1, account <- v2, sessions <- v3, factors <- v4, recovery <- v5, grant <- v6, role <- v7

\* A service client, two requests about it and a token
Clients == INSTANCE ServiceClients WITH
    Requests <- {1, 2}, Credentials <- {1, 2}, Tokens <- {1}, Officers <- {"a", "b"}, Nobody <- "nobody",
    None <- 0, MaxVersion <- 4,
    cooperative <- v1, client <- v2, credentials <- v3, requests <- v4, tokens <- v5

\* Two merges among three records
Merging == INSTANCE Members WITH
    People <- {"m", "n", "o"}, Memberships <- {1}, Accounts <- {}, Merges <- {1, 2}, Cases <- {1},
    Cooperatives <- {"c"}, FirstStatus <- [p \in {"m", "n", "o"} |-> IF p = "m" THEN "LIMITED" ELSE "ACTIVE"],
    Registrars <- {"a"}, Reviewers <- {"b"}, Nobody <- "nobody", MaxVersion <- 1,
    member <- v1, membership <- v2, account <- v3, merge <- v4, case <- v5

\* A member is contained while his membership and account are changed
Containment == INSTANCE Members WITH
    People <- {"m"}, Memberships <- {1}, Accounts <- {1}, Merges <- {}, Cases <- {1},
    Cooperatives <- {"c"}, FirstStatus <- [p \in {"m"} |-> "LIMITED"],
    Registrars <- {"a"}, Reviewers <- {"b"}, Nobody <- "nobody", MaxVersion <- 3,
    member <- v1, membership <- v2, account <- v3, merge <- v4, case <- v5

\* Two batches and three applications by hand that share names and identifiers
Intake == INSTANCE MemberIntake WITH
    Members <- 1 .. 4, Rows <- 1 .. 5,
    Content <- <<Row("c", "n1", "i1", 1), Row("c", "n2", "", 1), Row("c", "", "i3", 1), Row("c", "n1", "i2", 2),
                 Row("c", "n2", "i3", 2), Row("c", "n2", "", 0), Row("d", "n4", "i2", 0), Row("c", "n5", "i3", 0)>>,
    Batches <- <<[cooperative |-> "c", creator |-> "a"], [cooperative |-> "c", creator |-> "b"]>>,
    Reviewers <- {"a", "b"}, None <- "",
    member <- v1, row <- v2, batch <- v3

\* A request, its retry and another request under the same key, beside a worker
Commands == INSTANCE Journal WITH
    Requests <- {"r1", "r2", "r3"}, Workers <- {"w"}, KeyOf <- [r \in {"r1", "r2", "r3"} |-> "k"],
    BodyOf <- [r \in {"r1", "r2", "r3"} |-> IF r = "r3" THEN "c" ELSE "b"], Appends <- 2, Sweeps <- 1, Batch <- 1,
    MaxAttempts <- 2, MaxDamages <- 0, None <- "none",
    chain <- v1, events <- v2, outbox <- v3, receipts <- v4, records <- v5, tx <- v6, answers <- v7, damages <- v8

\* Two workers deliver the events of two commands, one of which is damaged
Delivery == INSTANCE Journal WITH
    Requests <- {"r1", "r2"}, Workers <- {"w", "x"}, KeyOf <- [r \in {"r1", "r2"} |-> r],
    BodyOf <- [r \in {"r1", "r2"} |-> "b"], Appends <- 1, Sweeps <- 0, Batch <- 2, MaxAttempts <- 2, MaxDamages <- 1,
    None <- "none",
    chain <- v1, events <- v2, outbox <- v3, receipts <- v4, records <- v5, tx <- v6, answers <- v7, damages <- v8

\* Two clearing cycles over the same obligations
CycleTerms == <<Line(1, 1, 2, 2), Line(1, 2, 1, 1), Line(2, 2, 1, 1)>>
Calculation == INSTANCE LocalNetting WITH
    Terms <- CycleTerms, MinimumOperation <- 1, MaxIterations <- 10, MaxCycleLength <- 3
Netting(input) == Calculation!CalculateClearing(input)
Cycles == INSTANCE LocalClearing WITH
    Members <- {1, 2, 4, 5, 6}, Deals <- {1, 2}, Obligations <- {1, 2, 3},
    Terms <- CycleTerms, Revisions <- << <<{1, 2}>>, <<{3}>> >>,
    Slots <- {1}, MaxWrites <- 3, MaxNow <- 0, Policies <- {1}, Cycles <- {1, 2}, Operators <- {4},
    Controllers <- {5}, Finalizers <- {6}, Nobody <- 0, RequiredApprovals <- 1, DisputeWindow <- 0,
    Netting <- Netting,
    now <- v1, deals <- v2, confirmations <- v3, obligations <- v4, fulfillments <- v5, disputes <- v6,
    policies <- v7, cycles <- v8

\* A product is delivered, with the migration that asks for its source at any time
Goods == INSTANCE Deliveries WITH
    Members <- {1, 2, 3}, Deals <- {1}, Obligations <- {1}, Terms <- <<[Line(1, 1, 2, 2) EXCEPT !.due = 1]>>, Revisions <- << <<{1}>> >>,
    Slots <- {1, 2}, MaxWrites <- 5, MaxNow <- 1, ProductOf <- <<1>>, Redemptions <- {1},
    Goods <- <<[owner |-> 1, product |-> 1, quantity |-> 1]>>, Orders <- {1}, Users <- {1}, None <- 0,
    now <- v1, deals <- v2, confirmations <- v3, obligations <- v4, fulfillments <- v5, disputes <- v6,
    traceable <- v7, completed <- v8, orders <- v9, carriage <- v10, performed <- v11, provenance <- v12

-----------------------------------------------------------------------------
Empty == {}
Init ==
    \/ focus = "peer" /\ Peer!Init
    \/ focus = "lapsing" /\ Lapsing!Init
    \/ /\ v13 = Empty /\ v14 = Empty /\ v15 = Empty
       /\ \/ focus = "custody" /\ Custody!Init /\ v9 = Empty /\ v10 = Empty /\ v11 = Empty /\ v12 = Empty
          \/ focus = "rights" /\ Rights!Init /\ v9 = Empty /\ v10 = Empty /\ v11 = Empty /\ v12 = Empty
          \/ focus = "offers" /\ Offers!Init /\ v12 = Empty
          \/ focus = "rivals" /\ Rivals!Init /\ v12 = Empty
          \/ focus = "remote" /\ Remote!Init /\ v12 = Empty
          \/ focus = "packages" /\ Packages!Init /\ v6 = Empty /\ v7 = Empty /\ v8 = Empty /\ v9 = Empty /\ v10 = Empty /\ v11 = Empty /\ v12 = Empty
          \/ focus = "access" /\ Access!Init /\ v8 = Empty /\ v9 = Empty /\ v10 = Empty /\ v11 = Empty /\ v12 = Empty
          \/ focus = "grants" /\ Grants!Init /\ v8 = Empty /\ v9 = Empty /\ v10 = Empty /\ v11 = Empty /\ v12 = Empty
          \/ focus = "clients" /\ Clients!Init /\ v6 = Empty /\ v7 = Empty /\ v8 = Empty /\ v9 = Empty /\ v10 = Empty /\ v11 = Empty /\ v12 = Empty
          \/ focus = "merging" /\ Merging!Init /\ v6 = Empty /\ v7 = Empty /\ v8 = Empty /\ v9 = Empty /\ v10 = Empty /\ v11 = Empty /\ v12 = Empty
          \/ focus = "containment" /\ Containment!Init /\ v6 = Empty /\ v7 = Empty /\ v8 = Empty /\ v9 = Empty /\ v10 = Empty /\ v11 = Empty /\ v12 = Empty
          \/ focus = "intake" /\ Intake!Init /\ v4 = Empty /\ v5 = Empty /\ v6 = Empty /\ v7 = Empty /\ v8 = Empty /\ v9 = Empty /\ v10 = Empty /\ v11 = Empty /\ v12 = Empty
          \/ focus = "commands" /\ Commands!Init /\ v9 = Empty /\ v10 = Empty /\ v11 = Empty /\ v12 = Empty
          \/ focus = "delivery" /\ Delivery!Init /\ v9 = Empty /\ v10 = Empty /\ v11 = Empty /\ v12 = Empty
          \/ focus = "cycles" /\ Cycles!Init /\ v9 = Empty /\ v10 = Empty /\ v11 = Empty /\ v12 = Empty
          \/ focus = "goods" /\ Goods!Init

Next ==
    /\ UNCHANGED focus
    /\ \/ focus = "peer" /\ Peer!Next
       \/ focus = "lapsing" /\ Lapsing!Next
       \/ /\ UNCHANGED <<v13, v14, v15>>
          /\ \/ focus = "custody" /\ Custody!Next /\ UNCHANGED <<v9, v10, v11, v12>>
             \/ focus = "rights" /\ Rights!Next /\ UNCHANGED <<v9, v10, v11, v12>>
             \/ focus = "offers" /\ Offers!Next /\ UNCHANGED <<v12>>
             \/ focus = "rivals" /\ Rivals!Next /\ UNCHANGED <<v12>>
             \/ focus = "remote" /\ Remote!Next /\ UNCHANGED <<v12>>
             \/ focus = "packages" /\ Packages!Next /\ UNCHANGED <<v6, v7, v8, v9, v10, v11, v12>>
             \/ focus = "access" /\ Access!Next /\ UNCHANGED <<v8, v9, v10, v11, v12>>
             \/ focus = "grants" /\ Grants!Next /\ UNCHANGED <<v8, v9, v10, v11, v12>>
             \/ focus = "clients" /\ Clients!Next /\ UNCHANGED <<v6, v7, v8, v9, v10, v11, v12>>
             \/ focus = "merging" /\ Merging!Next /\ UNCHANGED <<v6, v7, v8, v9, v10, v11, v12>>
             \/ focus = "containment" /\ Containment!Next /\ UNCHANGED <<v6, v7, v8, v9, v10, v11, v12>>
             \/ focus = "intake" /\ Intake!Next /\ UNCHANGED <<v4, v5, v6, v7, v8, v9, v10, v11, v12>>
             \/ focus = "commands" /\ Commands!Next /\ UNCHANGED <<v9, v10, v11, v12>>
             \/ focus = "delivery" /\ Delivery!Next /\ UNCHANGED <<v9, v10, v11, v12>>
             \/ focus = "cycles" /\ Cycles!Next /\ UNCHANGED <<v9, v10, v11, v12>>
             \/ focus = "goods" /\ Goods!Next

Spec == Init /\ [][Next]_vars

-----------------------------------------------------------------------------
\* The properties of the component in focus; each module states its own
TypeOK ==
    /\ focus = "custody" => Custody!TypeOK
    /\ focus = "rights" => Rights!TypeOK
    /\ focus = "offers" => Offers!TypeOK
    /\ focus = "rivals" => Rivals!TypeOK
    /\ focus = "remote" => Remote!TypeOK
    /\ focus = "peer" => Peer!TypeOK
    /\ focus = "lapsing" => Lapsing!TypeOK
    /\ focus = "packages" => Packages!TypeOK
    /\ focus = "access" => Access!TypeOK
    /\ focus = "grants" => Grants!TypeOK
    /\ focus = "clients" => Clients!TypeOK
    /\ focus = "merging" => Merging!TypeOK
    /\ focus = "containment" => Containment!TypeOK
    /\ focus = "intake" => Intake!TypeOK
    /\ focus = "commands" => Commands!TypeOK
    /\ focus = "delivery" => Delivery!TypeOK
    /\ focus = "cycles" => Cycles!TypeOK
    /\ focus = "goods" => Goods!TypeOK

\* Every hold on a lot is that of an open case, and every open case holds its lots
HoldsMatchCases ==
    /\ focus = "custody" => Custody!HoldsMatchCases
    /\ focus = "rights" => Rights!HoldsMatchCases

\* Rights stand for goods that were counted, and are redeemed once
RightsBacked ==
    /\ focus = "custody" => Custody!RightsBacked
    /\ focus = "rights" => Rights!RightsBacked

\* A purchase is settled as a whole, within the capacity of the offer
PurchaseSettled ==
    /\ focus = "offers" => Offers!PurchaseSettled
    /\ focus = "rivals" => Rivals!PurchaseSettled
    /\ focus = "remote" => Remote!PurchaseSettled

\* A node is trusted only on grounds that held, while nothing is under investigation
NodeAccountable ==
    /\ focus = "peer" => Peer!NodeAccountable
    /\ focus = "lapsing" => Lapsing!NodeAccountable

\* A package is applied as a whole and once, after every conflict
SyncAtomic == focus = "packages" => Packages!SyncAtomic

\* Access rests on the present password, factor and grants
AccessCurrent ==
    /\ focus = "access" => Access!AccessCurrent
    /\ focus = "grants" => Grants!AccessCurrent

\* A token rests on the present policy and credential
TokensCurrent == focus = "clients" => Clients!TokensCurrent

\* Neither a review in progress nor a merge loses hold of a person
PersonsKept ==
    /\ focus = "merging" => Merging!PersonsKept
    /\ focus = "containment" => Containment!PersonsKept

\* No person enters a cooperative twice
NoTwins == focus = "intake" => Intake!NoTwins

\* What was cleared is what the finalized cycles cleared
ClearedByCycles == focus = "cycles" => Cycles!ClearedByCycles

\* What is accepted of goods whose source is known was released before, once
DeliveriesBacked == focus = "goods" => Goods!DeliveriesBacked

\* The journal is whole, a command is executed once, an event is delivered once
JournalKept ==
    /\ focus = "commands" => Commands!JournalKept
    /\ focus = "delivery" => Delivery!JournalKept
=============================================================================

---------------------------- MODULE MCCooperative ----------------------------
(***************************************************************************)
(* Model-checking instances of the components of one cooperative that do   *)
(* not share state.  A behaviour is about the component in focus, whose    *)
(* variables are v1 to v9; the variables it does not need stay empty.      *)
(***************************************************************************)
EXTENDS Integers, TLC

\* Officers and commitments of the risk component, interchangeable among themselves
CONSTANTS officer1, officer2, commitment1, commitment2
Symmetry == Permutations({officer1, officer2}) \union Permutations({commitment1, commitment2})

VARIABLES focus, v1, v2, v3, v4, v5, v6, v7, v8, v9
vars == <<focus, v1, v2, v3, v4, v5, v6, v7, v8, v9>>

\* Two applications compete for what one contribution brings
Aid == INSTANCE Solidarity WITH
    Members <- {"recipient", "operator", "controller", "reviewer"}, Operators <- {"operator"},
    Controllers <- {"controller", "operator"}, Reviewers <- {"reviewer", "recipient"},
    Donors <- {"recipient"}, Recipients <- {"recipient"}, Nobody <- "nobody",
    Pledges <- {}, Contributions <- {1}, Applications <- {1, 2}, Allocations <- {1, 2}, Complaints <- {1},
    MaxQuantity <- 1, Retain <- TRUE,
    fund <- v1, campaign <- v2, pledges <- v3, contributions <- v4, applications <- v5, allocations <- v6,
    complaints <- v7, report <- v8

\* A pledge and the contribution that fulfils it
Pledged == INSTANCE Solidarity WITH
    Members <- {"recipient", "operator", "controller", "reviewer"}, Operators <- {"operator"},
    Controllers <- {"controller", "operator"}, Reviewers <- {"reviewer", "recipient"},
    Donors <- {"recipient"}, Recipients <- {"recipient"}, Nobody <- "nobody",
    Pledges <- {1}, Contributions <- {1}, Applications <- {1}, Allocations <- {1}, Complaints <- {1},
    MaxQuantity <- 1, Retain <- TRUE,
    fund <- v1, campaign <- v2, pledges <- v3, contributions <- v4, applications <- v5, allocations <- v6,
    complaints <- v7, report <- v8

\* Two mandates, and two plans over the same reserve
Emergency == INSTANCE Crisis WITH
    Members <- {"eligible", "operator", "controller", "auditor"}, Operators <- {"operator"},
    Controllers <- {"controller"}, Reviewers <- {"controller", "auditor"}, Eligible <- {"eligible"},
    Nobody <- "nobody", Targets <- {1}, Mandates <- {1, 2}, Rules <- {1}, Plans <- {1, 2}, Snapshots <- {1},
    Forms <- {}, MaxAvailable <- 1, Maximum <- 1, MaximumEnd <- 1, MaxTime <- 1,
    now <- v1, targets <- v2, mandates <- v3, rules <- v4, plans <- v5, snapshots <- v6, latest <- v7,
    cancelling <- v8, forms <- v9

\* A paper form under one mandate
Paper == INSTANCE Crisis WITH
    Members <- {"eligible", "operator", "controller", "auditor"}, Operators <- {"operator"},
    Controllers <- {"controller"}, Reviewers <- {"controller", "auditor"}, Eligible <- {"eligible"},
    Nobody <- "nobody", Targets <- {1}, Mandates <- {1}, Rules <- {1}, Plans <- {1}, Snapshots <- {1},
    Forms <- {1}, MaxAvailable <- 1, Maximum <- 1, MaximumEnd <- 1, MaxTime <- 1,
    now <- v1, targets <- v2, mandates <- v3, rules <- v4, plans <- v5, snapshots <- v6, latest <- v7,
    cancelling <- v8, forms <- v9

\* A decision and the one that replaces it on appeal
Discipline == INSTANCE Trust WITH
    Members <- {"auditor", "arbiter1", "arbiter2"}, Admins <- {"arbiter1"}, Auditors <- {"auditor"},
    Arbitrators <- {"arbiter1", "arbiter2"}, Protectors <- {"auditor"}, Subject <- "subject",
    Claimant <- "claimant", Nobody <- "nobody", Policies <- {1}, Decisions <- {1, 2}, Sanctions <- {1},
    Measures <- {1}, Reputations <- {}, Rehabilitations <- {}, Steps <- {1},
    AppealWindow <- 0, MaxProtective <- 1, MaxTime <- 1,
    now <- v1, policies <- v2, case <- v3, declared <- v4, measures <- v5, decisions <- v6, sanctions <- v7,
    reputations <- v8, plans <- v9

\* What a decision leaves in the reputation, and the rehabilitation from its sanction
Standing == INSTANCE Trust WITH
    Members <- {"auditor", "arbiter1", "arbiter2"}, Admins <- {"arbiter1"}, Auditors <- {"auditor"},
    Arbitrators <- {"arbiter1", "arbiter2"}, Protectors <- {"auditor"}, Subject <- "subject",
    Claimant <- "claimant", Nobody <- "nobody", Policies <- {1}, Decisions <- {1}, Sanctions <- {1},
    Measures <- {}, Reputations <- {1}, Rehabilitations <- {1}, Steps <- {1},
    AppealWindow <- 0, MaxProtective <- 1, MaxTime <- 1,
    now <- v1, policies <- v2, case <- v3, declared <- v4, measures <- v5, decisions <- v6, sanctions <- v7,
    reputations <- v8, plans <- v9

\* Two commitments of two members who may be related
Shares == INSTANCE Risk WITH
    Members <- {"m", "n", "admin", officer1, officer2}, Admins <- {"admin"}, RiskAdmins <- {"admin"},
    Officers <- {"admin", officer1, officer2}, Owners <- {"m", "n"}, Nobody <- "nobody", Policies <- {1},
    Links <- {1}, Commitments <- {commitment1, commitment2}, Cases <- {1}, Transfers <- {1},
    MaxAmount <- 1, MaxBalance <- 2, MemberLimit <- 2, RelatedLimit <- 2, ChainDepth <- 1,
    policies <- v1, accounts <- v2, links <- v3, commitments <- v4, cases <- v5, transfers <- v6

\* Two scans that find the same subjects
Fraud == INSTANCE Antifraud WITH
    Members <- {"scanner", "officer", "reviewer"}, Scanners <- {"scanner", "officer"},
    Reviewers <- {"officer", "reviewer"}, Nobody <- "nobody", Findings <- {"f1", "f2"}, Signals <- {1, 2},
    Scans <- {1, 2}, MaxSeen <- 2,
    signals <- v1, scans <- v2

\* Every input of up to four rows
Rules == INSTANCE AntifraudRules WITH
    Members <- {1, 2, 3}, MaxRows <- 4, MaxTime <- 3, Window <- 1, Percent <- 80,
    input <- v1, found <- v2

\* Every input of a small graph of obligations
Offsets == INSTANCE MCLocalNetting WITH input <- v1, result <- v2

\* Three nodes, two of whom owe each other and all of whom form a circle of debts
Between == INSTANCE FederatedNetting WITH
    Nodes <- 1 .. 3,
    Terms <- <<[debtor |-> 1, creditor |-> 2], [debtor |-> 2, creditor |-> 1],
               [debtor |-> 2, creditor |-> 3], [debtor |-> 3, creditor |-> 1]>>,
    MaxAmount <- <<2, 1, 1, 1>>, MinimumOperation <- 1, MaxIterations <- 10, MaxCycleLength <- 3,
    registered <- v1, participants <- v2, snapshots <- v3, cleared <- v4, applied <- v5

-----------------------------------------------------------------------------
Init ==
    \/ focus = "aid" /\ Aid!Init /\ v9 = <<>>
    \/ focus = "pledged" /\ Pledged!Init /\ v9 = <<>>
    \/ focus = "emergency" /\ Emergency!Init
    \/ focus = "paper" /\ Paper!Init
    \/ focus = "discipline" /\ Discipline!Init
    \/ focus = "standing" /\ Standing!Init
    \/ focus = "shares" /\ Shares!Init /\ v7 = <<>> /\ v8 = <<>> /\ v9 = <<>>
    \/ focus = "fraud" /\ Fraud!Init /\ v3 = <<>> /\ v4 = <<>> /\ v5 = <<>> /\ v6 = <<>> /\ v7 = <<>>
       /\ v8 = <<>> /\ v9 = <<>>
    \/ focus = "rules" /\ Rules!Init /\ v3 = <<>> /\ v4 = <<>> /\ v5 = <<>> /\ v6 = <<>> /\ v7 = <<>>
       /\ v8 = <<>> /\ v9 = <<>>
    \/ focus = "offsets" /\ Offsets!Init /\ v3 = <<>> /\ v4 = <<>> /\ v5 = <<>> /\ v6 = <<>> /\ v7 = <<>>
       /\ v8 = <<>> /\ v9 = <<>>
    \/ focus = "between" /\ Between!Init /\ v6 = <<>> /\ v7 = <<>> /\ v8 = <<>> /\ v9 = <<>>

Next ==
    /\ UNCHANGED focus
    /\ \/ focus = "aid" /\ Aid!Next /\ UNCHANGED v9
       \/ focus = "pledged" /\ Pledged!Next /\ UNCHANGED v9
       \/ focus = "emergency" /\ Emergency!Next
       \/ focus = "paper" /\ Paper!Next
       \/ focus = "discipline" /\ Discipline!Next
       \/ focus = "standing" /\ Standing!Next
       \/ focus = "shares" /\ Shares!Next /\ UNCHANGED <<v7, v8, v9>>
       \/ focus = "fraud" /\ Fraud!Next /\ UNCHANGED <<v3, v4, v5, v6, v7, v8, v9>>
       \/ focus = "rules" /\ Rules!Next /\ UNCHANGED <<v3, v4, v5, v6, v7, v8, v9>>
       \/ focus = "offsets" /\ Offsets!Next /\ UNCHANGED <<v3, v4, v5, v6, v7, v8, v9>>
       \/ focus = "between" /\ Between!Next /\ UNCHANGED <<v6, v7, v8, v9>>

Spec == Init /\ [][Next]_vars

-----------------------------------------------------------------------------
\* The properties of the component in focus; each module states its own
TypeOK ==
    /\ focus = "aid" => Aid!TypeOK
    /\ focus = "pledged" => Pledged!TypeOK
    /\ focus = "emergency" => Emergency!TypeOK
    /\ focus = "paper" => Paper!TypeOK
    /\ focus = "discipline" => Discipline!TypeOK
    /\ focus = "standing" => Standing!TypeOK
    /\ focus = "shares" => Shares!TypeOK
    /\ focus = "fraud" => Fraud!TypeOK
    /\ focus = "between" => Between!TypeOK

\* Aid within what was verified, through separate hands, and none left behind at the close
AidAccounted ==
    (focus = "aid" => Aid!AidAccounted) /\ (focus = "pledged" => Pledged!AidAccounted)

\* One mandate, and rations within the counted stock
EmergencyBounded ==
    (focus = "emergency" => Emergency!EmergencyBounded) /\ (focus = "paper" => Paper!EmergencyBounded)

\* A pending appeal suspends the consequences of a decision, a won one ends them
AppealGoverns ==
    (focus = "discipline" => Discipline!AppealGoverns) /\ (focus = "standing" => Standing!AppealGoverns)

\* Shares neither promised twice nor lost, and no circle of guarantees
SharesAccounted == focus = "shares" => Shares!SharesAccounted /\ Shares!GuaranteesAcyclic

\* One signal at most holds a subject, until a second member lifts it
OneSignalPerSubject == focus = "fraud" => Fraud!OneSignalPerSubject

\* The rules find what their definitions say, of every input
FindingsExact == focus = "rules" => Rules!FindingsExact

\* The offsets of local clearing are closed paths, and none is left
OffsetsBalance == focus = "offsets" => Offsets!OffsetsBalance
NothingLeftToOffset == focus = "offsets" => Offsets!NothingLeftToOffset

\* Clearing between nodes moves nobody's net position
NetPositionsKept == focus = "between" => Between!NetPositionsKept
=============================================================================

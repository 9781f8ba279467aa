----------------------------- MODULE NodeProofs -----------------------------
(***************************************************************************)
(* Proofs about components of a node that stand alone: the packages its     *)
(* offline workers exchange with it (SyncPackages), the service clients of  *)
(* a cooperative (ServiceClients), one person's account (Accounts), the     *)
(* purchases across nodes with the catalogue they buy from                  *)
(* (FederatedPurchase), the register of members (Members) and what adds to  *)
(* it (MemberIntake), and the trust in another node (NodeTrust), each for   *)
(* every value of its constants.                                            *)
(***************************************************************************)
EXTENDS Integers, FiniteSets, FiniteSetTheorems, SequenceTheorems, TLAPS

CONSTANTS Events, Shared, Automatic, Version, Written, Packages, Importers, Appliers, Panel, Nobody
VARIABLES packages, lapsed, inbox, conflicts, checkpoint

Sync == INSTANCE SyncPackages

CONSTANTS Requests, Credentials, Tokens, Officers, None, MaxVersion
VARIABLES cooperative, client, credentials, requests, tokens

Clients == INSTANCE ServiceClients

CONSTANTS Sessions, Factors, Grantors, MaxFailures, MaxPasswords
VARIABLES member, account, sessions, factors, recovery, grant, role

Access == INSTANCE Accounts

CONSTANTS Nodes, Seller, Carrier, Versions, Services, MaxIndexes, Unsteady,
          Intents, Buyer, OwnOffer, Capacity, Limit
VARIABLES offers, quotes, indexes, past, trusts, intents, receipts, holds, exposure, over, deals

Purchase == INSTANCE FederatedPurchase WITH lapsed <- past

CONSTANTS People, Memberships, Accounts, Merges, Cases, Cooperatives, FirstStatus, Registrars, Reviewers
VARIABLES people, membership, accounts, merge, case

Register == INSTANCE Members WITH member <- people, account <- accounts

CONSTANTS Members, Content, Rows, Batches
VARIABLES entrants, staged, batch

Intake == INSTANCE MemberIntake WITH member <- entrants, row <- staged

CONSTANTS Securities, Auditors, Rotations, Incidents, Limits, Forms, MaxExposure, MaxTime
VARIABLES now, ends, admitted, node, application, challenge, certificates, contract, limits, bond, incidents, rotations,
          epoch, forms, owed

Trust == INSTANCE NodeTrust WITH exposure <- owed

-----------------------------------------------------------------------------
\* Offline packages
SyncAssumptions == 0 \notin Packages /\ Events \subseteq Int

PackageSet == [status : {"ABSENT", "EXPORTED", "SIMULATED", "CONFLICT", "REJECTED", "APPLIED"},
               events : SUBSET Shared, importer : Importers \union {Nobody}]
RowSet == [status : {"ABSENT", "READY", "HELD", "CONFLICT", "REJECTED", "IGNORED", "APPLIED"}, package : Packages \union {0}]
SyncTyped ==
    /\ packages \in [Packages -> PackageSet] /\ inbox \in [Events -> RowSet]
    /\ conflicts \in [Events -> {"ABSENT", "OPEN"} \union Sync!Decisions]

\* A row has come with a package, and its status answers to what was decided about it.
RowSound(e) ==
    /\ inbox[e].status = "ABSENT" => inbox[e].package = 0 /\ conflicts[e] = "ABSENT"
    /\ inbox[e].status # "ABSENT" => inbox[e].package \in Packages
    /\ inbox[e].status \in {"READY", "HELD", "APPLIED"} => Sync!Undisputed(e) \/ Sync!SpokenFor(e)
    /\ inbox[e].status \in {"REJECTED", "IGNORED"} => Sync!SpokenAgainst(e)
    /\ inbox[e].status = "APPLIED" => packages[inbox[e].package].status = "APPLIED"

\* A package that was not imported has brought nothing, one that was applied leaves nothing to decide.
PackageSound(p) ==
    /\ packages[p].status \in {"ABSENT", "EXPORTED"} => \A e \in Events : inbox[e].package # p
    /\ packages[p].status = "APPLIED" =>
         \A e \in Events : inbox[e].package = p => conflicts[e] # "OPEN" /\ inbox[e].status \in {"APPLIED", "REJECTED", "IGNORED"}

\* An event that competes with an earlier one of its package has a conflict.
RivalSound(e) == inbox[e].package # 0 /\ Sync!Competing(e) # {} => conflicts[e] # "ABSENT"

SyncInv == /\ SyncTyped
           /\ \A e \in Events : RowSound(e) /\ RivalSound(e)
           /\ \A p \in Packages : PackageSound(p)

\* Which events compete depends only on the packages they came with.
LEMMA FollowersStay ==
    ASSUME NEW e \in Events, \A d \in Events : inbox'[d].package = inbox[d].package
    PROVE  /\ Sync!Competing(e)' = Sync!Competing(e)
           /\ Sync!Followers(e)' = Sync!Followers(e)
<1>1. \A p : Sync!Rows(p)' = Sync!Rows(p)
  BY DEF Sync!Rows
<1>2. \A f \in Events : Sync!Competing(f)' = Sync!Competing(f)
  BY <1>1 DEF Sync!Competing, Sync!Before, Sync!Nearest
<1> QED BY <1>2 DEF Sync!Followers

LEMMA FollowsWithin ==
    ASSUME NEW f \in Events, NEW e \in Sync!Competing(f), SyncAssumptions
    PROVE  e \in Events /\ inbox[e].package = inbox[f].package /\ e # f
           /\ e < f /\ Version[e] = Version[f]
  BY DEF Sync!Competing, Sync!Before, Sync!Nearest, Sync!Rows, SyncAssumptions

-----------------------------------------------------------------------------
LEMMA SyncInvInit ==
    ASSUME SyncAssumptions, Sync!Init
    PROVE  SyncInv
<1>1. SyncTyped
  BY DEF SyncAssumptions, Sync!Init, SyncTyped, PackageSet, RowSet, Sync!Decisions
<1>2. \A e \in Events : RowSound(e) /\ RivalSound(e)
  BY DEF Sync!Init, RowSound, RivalSound
<1>3. \A p \in Packages : PackageSound(p)
  BY DEF SyncAssumptions, Sync!Init, PackageSound
<1> QED BY <1>1, <1>2, <1>3 DEF SyncInv

LEMMA ExportKeeps ==
    ASSUME SyncInv, NEW p \in Packages, NEW after, NEW maximum, Sync!ExportPackage(p, after, maximum)
    PROVE  SyncInv'
<1>1. Sync!Range(after, maximum) \subseteq Shared
  BY DEF Sync!Range
<1>2. packages' \in [Packages -> PackageSet]
  BY <1>1 DEF Sync!ExportPackage, SyncInv, SyncTyped, PackageSet
<1>3. \A q \in Packages : /\ packages'[q].status = "APPLIED" <=> packages[q].status = "APPLIED"
                          /\ packages'[q].status \in {"ABSENT", "EXPORTED"} => packages[q].status \in {"ABSENT", "EXPORTED"}
  BY DEF Sync!ExportPackage, SyncInv, SyncTyped, PackageSet
<1>4. inbox' = inbox /\ conflicts' = conflicts
  BY DEF Sync!ExportPackage
<1>5. ASSUME NEW e \in Events PROVE RowSound(e)' /\ RivalSound(e)'
  <2>1. RowSound(e) /\ RivalSound(e) /\ (inbox[e].status = "APPLIED" => inbox[e].package \in Packages)
    BY DEF SyncInv, RowSound
  <2>2. Sync!Followers(e)' = Sync!Followers(e) /\ Sync!Competing(e)' = Sync!Competing(e)
    BY <1>4, FollowersStay
  <2> QED BY <1>3, <1>4, <2>1, <2>2 DEF RowSound, RivalSound, Sync!Undisputed, Sync!SpokenFor, Sync!SpokenAgainst
<1>6. ASSUME NEW q \in Packages PROVE PackageSound(q)'
  <2>1. PackageSound(q)
    BY DEF SyncInv
  <2> QED BY <1>3, <1>4, <2>1 DEF PackageSound
<1> QED BY <1>2, <1>4, <1>5, <1>6 DEF SyncInv, SyncTyped

\* A package takes the rows that are new; none of them belongs to another. A row that competes or
\* diverges waits, every other one is in no dispute.
LEMMA ImportKeeps ==
    ASSUME SyncAssumptions, SyncInv, NEW p \in Packages, NEW u \in Importers, Sync!ImportPackage(p, u)
    PROVE  SyncInv'
<1> DEFINE new == Sync!New(packages[p].events)
           clashing == Sync!Clashing(new)
           taken(e) == e \in new
<1>1. /\ inbox' = [e \in Events |-> IF taken(e) THEN Sync!Received(p, e, new) ELSE inbox[e]]
      /\ conflicts' = [e \in Events |-> IF e \in clashing THEN "OPEN" ELSE conflicts[e]]
      /\ packages' = [packages EXCEPT ![p].importer = u, ![p].status = Sync!Simulated(clashing)]
  BY DEF Sync!ImportPackage
<1>2. \A e \in Events : taken(e) => inbox[e].status = "ABSENT" /\ inbox[e].package = 0 /\ conflicts[e] = "ABSENT"
  BY DEF Sync!New, SyncInv, RowSound
<1>3. clashing \subseteq new
  BY DEF Sync!Clashing
<1>4. \A e \in Events : \A d \in new : taken(e) /\ d < e /\ Version[d] = Version[e] => e \in clashing /\ d \in Sync!Overtaken(new)
  BY DEF Sync!Clashing, Sync!Overtaken, Sync!Before
<1> HIDE DEF new
<1>5. \A e \in Events : LET row == Sync!Received(p, e, new) IN
                        /\ row \in RowSet /\ row.package = p
                        /\ row.status = "CONFLICT" \/ (row.status \in {"READY", "HELD"} /\ e \notin clashing /\ e \notin Sync!Overtaken(new))
  BY DEF Sync!Received, Sync!Accepted, RowSet
<1> HIDE DEF taken, clashing
<1>6. Sync!Simulated(clashing) \in {"CONFLICT", "SIMULATED"}
  BY DEF Sync!Simulated
<1>7. packages' \in [Packages -> PackageSet] /\ packages'[p].status \in {"CONFLICT", "SIMULATED"}
  BY <1>1, <1>6 DEF SyncInv, SyncTyped, PackageSet
<1>8. \A q \in Packages : q # p => packages'[q] = packages[q]
  BY <1>1 DEF SyncInv, SyncTyped
<1>9. inbox' \in [Events -> RowSet]
  BY <1>1, <1>5 DEF SyncInv, SyncTyped
<1>10. conflicts' \in [Events -> {"ABSENT", "OPEN"} \union Sync!Decisions]
  BY <1>1 DEF SyncInv, SyncTyped
<1>11. \A e \in Events : inbox[e].package # p
  BY DEF Sync!ImportPackage, SyncInv, PackageSound
<1>12. \A e \in Events : /\ taken(e) => inbox'[e] = Sync!Received(p, e, new)
                         /\ ~taken(e) => inbox'[e] = inbox[e] /\ conflicts'[e] = conflicts[e]
  BY <1>1, <1>3 DEF taken
<1>13. /\ Sync!Rows(p)' = {e \in Events : taken(e)}
       /\ \A q \in Packages : q # p => Sync!Rows(q)' = Sync!Rows(q)
  <2>1. \A e \in Events : inbox'[e].package = p <=> taken(e)
    BY <1>5, <1>11, <1>12
  <2>2. ASSUME NEW q \in Packages, q # p, NEW e \in Events PROVE inbox'[e].package = q <=> inbox[e].package = q
    BY <1>2, <1>5, <1>12, <2>2, SyncAssumptions DEF SyncAssumptions
  <2> QED BY <2>1, <2>2 DEF Sync!Rows
<1>14. ASSUME NEW e \in Events, taken(e) PROVE RowSound(e)' /\ RivalSound(e)'
  <2>1. inbox'[e] = Sync!Received(p, e, new) /\ conflicts'[e] = IF e \in clashing THEN "OPEN" ELSE "ABSENT"
    BY <1>1, <1>2, <1>12, <1>14
  <2>2. e \notin Sync!Overtaken(new) => (Sync!Followers(e) = {})'
    <3>1. ASSUME NEW f \in Events, e \in Sync!Competing(f)' PROVE e \in Sync!Overtaken(new)
      <4>1. inbox'[f].package = p /\ e < f /\ Version[e] = Version[f]
        BY <1>5, <2>1, <3>1, SyncAssumptions DEF Sync!Competing, Sync!Nearest, Sync!Before, Sync!Rows
      <4>2. taken(f) /\ e \in new
        BY <1>11, <1>12, <1>14, <4>1 DEF taken
      <4> QED BY <1>4, <4>1, <4>2
    <3> QED BY <3>1 DEF Sync!Followers
  <2>3. Sync!Competing(e)' # {} => e \in clashing
    <3>1. ASSUME NEW d \in Sync!Competing(e)' PROVE d \in new /\ d < e /\ Version[d] = Version[e]
      BY <1>5, <1>13, <2>1, <3>1 DEF Sync!Competing, Sync!Nearest, Sync!Before, taken
    <3> QED BY <1>4, <1>14, <3>1
  <2> QED BY <1>5, <2>1, <2>2, <2>3 DEF RowSound, RivalSound, Sync!Undisputed
<1>15. ASSUME NEW e \in Events, ~taken(e) PROVE RowSound(e)' /\ RivalSound(e)'
  <2>1. inbox'[e] = inbox[e] /\ conflicts'[e] = conflicts[e]
    BY <1>12, <1>15
  <2>2. RowSound(e) /\ RivalSound(e) /\ inbox[e].package # p
    BY <1>11 DEF SyncInv
  <2>3. CASE inbox[e].status = "ABSENT"
    <3>1. inbox[e].package = 0
      BY <2>2, <2>3 DEF RowSound
    <3> QED BY <2>1, <2>2, <2>3, <3>1 DEF RowSound, RivalSound
  <2>4. CASE inbox[e].status # "ABSENT"
    <3>1. inbox[e].package \in Packages
      BY <2>2, <2>4 DEF RowSound
    <3>2. Sync!Competing(e)' = Sync!Competing(e)
      BY <1>13, <2>1, <2>2, <3>1 DEF Sync!Competing, Sync!Nearest, Sync!Before
    <3>3. ASSUME NEW f \in Events
          PROVE  /\ e \in Sync!Competing(f) => e \in Sync!Competing(f)' /\ conflicts'[f] = conflicts[f]
                 /\ e \in Sync!Competing(f)' => e \in Sync!Competing(f)
      <4>1. e \in Sync!Competing(f) => inbox[f].package = inbox[e].package
        BY FollowsWithin
      <4>2. e \in Sync!Competing(f)' => inbox'[f].package = inbox'[e].package
        BY DEF Sync!Competing, Sync!Before, Sync!Nearest, Sync!Rows
      <4>3. inbox[f].package = inbox[e].package \/ inbox'[f].package = inbox'[e].package => ~taken(f)
        BY <1>2, <1>5, <1>12, <2>1, <2>2, <3>1, SyncAssumptions DEF SyncAssumptions
      <4>4. ~taken(f) => inbox'[f] = inbox[f] /\ conflicts'[f] = conflicts[f]
        BY <1>12
      <4>5. Sync!Rows(inbox[e].package)' = Sync!Rows(inbox[e].package)
        BY <1>13, <2>1, <2>2, <3>1
      <4>6. ASSUME ~taken(f), inbox[f].package = inbox[e].package PROVE Sync!Competing(f)' = Sync!Competing(f)
        <5>1. inbox'[f] = inbox[f] /\ Sync!Rows(inbox[f].package)' = Sync!Rows(inbox[f].package)
          BY <2>1, <4>4, <4>5, <4>6
        <5> QED BY <5>1 DEF Sync!Competing, Sync!Nearest, Sync!Before
      <4> QED BY <2>1, <4>1, <4>2, <4>3, <4>4, <4>6
    <3>4. Sync!Followers(e)' = Sync!Followers(e) /\ \A f \in Sync!Followers(e) : conflicts'[f] = conflicts[f]
      BY <3>3 DEF Sync!Followers
    <3> QED BY <1>8, <2>1, <2>2, <3>1, <3>2, <3>4 DEF RowSound, RivalSound, Sync!Undisputed, Sync!SpokenFor, Sync!SpokenAgainst
  <2> QED BY <2>3, <2>4
<1>16. ASSUME NEW q \in Packages PROVE PackageSound(q)'
  <2>1. CASE q = p
    BY <1>7, <2>1 DEF PackageSound
  <2>2. CASE q # p
    <3>1. \A e \in Events : inbox'[e].package = q => inbox'[e] = inbox[e] /\ conflicts'[e] = conflicts[e]
      BY <1>5, <1>12, <2>2
    <3>2. packages'[q] = packages[q] /\ PackageSound(q)
      BY <1>8, <2>2 DEF SyncInv
    <3> QED BY <3>1, <3>2 DEF PackageSound
  <2> QED BY <2>1, <2>2
<1> QED BY <1>7, <1>9, <1>10, <1>14, <1>15, <1>16 DEF SyncInv, SyncTyped

\* A conflict is open only in a package that has been imported and not applied, and a decision speaks
\* for one of two competing rows and against the other.
LEMMA ResolveKeeps ==
    ASSUME SyncAssumptions, SyncInv, NEW e \in Events, NEW u \in Panel, NEW decision \in Sync!Decisions,
           Sync!ResolveConflict(e, u, decision)
    PROVE  SyncInv'
<1> DEFINE p == inbox[e].package
<1>1. conflicts[e] = "OPEN" /\ inbox[e].status # "ABSENT" /\ p \in Packages
  BY DEF Sync!ResolveConflict, SyncInv, RowSound
<1>2. packages[p].status \in {"SIMULATED", "CONFLICT", "REJECTED"}
  BY <1>1 DEF SyncInv, SyncTyped, PackageSet, PackageSound
<1>3. /\ inbox' = [d \in Events |-> IF d = e THEN [inbox[d] EXCEPT !.status = Sync!Verdict(d, decision)]
                                    ELSE IF d \in Sync!Competing(e) THEN [inbox[d] EXCEPT !.status = Sync!Yielded(d, decision)]
                                    ELSE inbox[d]]
      /\ conflicts' = [conflicts EXCEPT ![e] = decision]
      /\ packages' = [packages EXCEPT ![p].status = IF decision = "REJECT_PACKAGE" THEN "REJECTED"
                                                   ELSE IF Sync!Open(p) = {e} THEN "SIMULATED" ELSE @]
  BY DEF Sync!ResolveConflict
<1>4. decision \in {"ACCEPT_REMOTE", "KEEP_LOCAL", "REJECT_PACKAGE"}
  BY DEF Sync!Decisions
<1>5. ASSUME NEW d \in Events
      PROVE  /\ Sync!Verdict(d, decision) \in {"READY", "HELD", "REJECTED"}
             /\ Sync!Verdict(d, decision) = "REJECTED" <=> decision # "ACCEPT_REMOTE"
             /\ Sync!Yielded(d, decision) \in {"READY", "HELD", "IGNORED"}
             /\ Sync!Yielded(d, decision) = "IGNORED" <=> decision = "ACCEPT_REMOTE"
  BY <1>4 DEF Sync!Verdict, Sync!Yielded, Sync!Accepted
<1> HIDE DEF p
<1>6. packages' \in [Packages -> PackageSet] /\ packages'[p].status \in {"SIMULATED", "CONFLICT", "REJECTED"}
  BY <1>1, <1>2, <1>3 DEF SyncInv, SyncTyped, PackageSet
<1>7. \A q \in Packages : q # p => packages'[q] = packages[q]
  BY <1>3 DEF SyncInv, SyncTyped
<1>8. conflicts' \in [Events -> {"ABSENT", "OPEN"} \union Sync!Decisions] /\ conflicts'[e] = decision
      /\ \A d \in Events : d # e => conflicts'[d] = conflicts[d]
  BY <1>3 DEF SyncInv, SyncTyped
<1>9. ASSUME NEW d \in Events
      PROVE  /\ inbox'[d] \in RowSet /\ inbox'[d].package = inbox[d].package
             /\ d = e => inbox'[d].status = Sync!Verdict(d, decision)
             /\ d # e /\ d \in Sync!Competing(e) => inbox'[d].status = Sync!Yielded(d, decision)
             /\ d # e /\ d \notin Sync!Competing(e) => inbox'[d] = inbox[d]
  <2>1. inbox[d] \in RowSet
    BY DEF SyncInv, SyncTyped
  <2> QED BY <1>3, <1>5, <2>1 DEF RowSet
<1>10. inbox' \in [Events -> RowSet]
  BY <1>3, <1>9
<1>11. \A d \in Events : Sync!Followers(d)' = Sync!Followers(d) /\ Sync!Competing(d)' = Sync!Competing(d)
  BY <1>9, FollowersStay
<1>12. ASSUME NEW d \in Events
       PROVE  /\ Sync!SpokenFor(d) => Sync!SpokenFor(d)'
              /\ Sync!SpokenAgainst(d) => Sync!SpokenAgainst(d)'
              /\ Sync!Undisputed(d) => Sync!Undisputed(d)'
  <2>1. \A f \in Events : conflicts[f] # "OPEN" => conflicts'[f] = conflicts[f]
    BY <1>1, <1>8
  <2>2. Sync!Followers(d) \subseteq Events
    BY DEF Sync!Followers
  <2> QED BY <1>11, <2>1, <2>2 DEF Sync!SpokenFor, Sync!SpokenAgainst, Sync!Undisputed
<1>13. ASSUME NEW d \in Events PROVE RowSound(d)' /\ RivalSound(d)'
  <2>1. RowSound(d) /\ RivalSound(d)
    BY DEF SyncInv
  <2>2. RivalSound(d)'
    BY <1>4, <1>8, <1>9, <1>11, <2>1 DEF RivalSound
  <2>3. CASE d = e
    <3>1. decision = "ACCEPT_REMOTE" => Sync!SpokenFor(d)'
      BY <1>8, <2>3 DEF Sync!SpokenFor
    <3>2. decision # "ACCEPT_REMOTE" => Sync!SpokenAgainst(d)'
      BY <1>4, <1>8, <2>3 DEF Sync!SpokenAgainst
    <3>3. inbox'[d].status = Sync!Verdict(d, decision) /\ inbox'[d].package \in Packages
      BY <1>1, <1>9, <2>3 DEF p
    <3> QED BY <1>5, <2>2, <3>1, <3>2, <3>3 DEF RowSound
  <2>4. CASE d # e /\ d \in Sync!Competing(e)
    <3>1. e \in Sync!Followers(d)'
      BY <1>11, <2>4 DEF Sync!Followers
    <3>2. decision # "ACCEPT_REMOTE" => Sync!SpokenFor(d)'
      BY <1>4, <1>8, <3>1 DEF Sync!SpokenFor
    <3>3. decision = "ACCEPT_REMOTE" => Sync!SpokenAgainst(d)'
      BY <1>8, <3>1 DEF Sync!SpokenAgainst
    <3>4. inbox'[d].status = Sync!Yielded(d, decision) /\ inbox'[d].package \in Packages
      BY <1>1, <1>9, <2>4, FollowsWithin DEF p
    <3> QED BY <1>5, <2>2, <3>2, <3>3, <3>4 DEF RowSound
  <2>5. CASE d # e /\ d \notin Sync!Competing(e)
    <3>1. inbox'[d] = inbox[d] /\ conflicts'[d] = conflicts[d]
      BY <1>8, <1>9, <2>5
    <3>2. inbox[d].package \in Packages /\ packages[inbox[d].package].status = "APPLIED"
            => packages'[inbox[d].package].status = "APPLIED"
      BY <1>2, <1>7
    <3> QED BY <1>12, <2>1, <2>2, <3>1, <3>2 DEF RowSound
  <2> QED BY <2>3, <2>4, <2>5
<1>14. ASSUME NEW q \in Packages PROVE PackageSound(q)'
  <2>1. CASE q = p
    <3>1. packages'[p].status \notin {"ABSENT", "EXPORTED", "APPLIED"}
      BY <1>6
    <3> QED BY <2>1, <3>1 DEF PackageSound
  <2>2. CASE q # p
    <3>1. \A d \in Events : inbox[d].package = q => inbox'[d] = inbox[d] /\ conflicts'[d] = conflicts[d]
      <4>1. \A d \in Sync!Competing(e) : inbox[d].package = p
        BY FollowsWithin DEF p
      <4> QED BY <1>8, <1>9, <2>2, <4>1 DEF p
    <3>2. packages'[q] = packages[q] /\ PackageSound(q)
      BY <1>7, <2>2 DEF SyncInv
    <3> QED BY <1>9, <3>1, <3>2 DEF PackageSound
  <2> QED BY <2>1, <2>2
<1> QED BY <1>6, <1>8, <1>10, <1>13, <1>14 DEF SyncInv, SyncTyped

\* The whole package is applied: no row of it is held, so each becomes applied or stays left out.
LEMMA ApplyKeeps ==
    ASSUME SyncAssumptions, SyncInv, NEW p \in Packages, NEW u \in Appliers, Sync!ApplyPackage(p, u)
    PROVE  SyncInv'
<1>1. /\ inbox' = [e \in Events |-> IF e \in Sync!Rows(p) /\ inbox[e].status = "READY"
                                     THEN [inbox[e] EXCEPT !.status = "APPLIED"] ELSE inbox[e]]
      /\ packages' = [packages EXCEPT ![p].status = "APPLIED"]
      /\ conflicts' = conflicts
  BY DEF Sync!ApplyPackage
<1>2. packages' \in [Packages -> PackageSet] /\ packages'[p].status = "APPLIED"
  BY <1>1 DEF SyncInv, SyncTyped, PackageSet
<1>3. \A q \in Packages : q # p => packages'[q] = packages[q]
  BY <1>1 DEF SyncInv, SyncTyped
<1>4. inbox' \in [Events -> RowSet]
  BY <1>1 DEF SyncInv, SyncTyped, RowSet
<1>5. \A e \in Events : inbox'[e].package = inbox[e].package
  BY <1>1 DEF SyncInv, SyncTyped, RowSet
<1>6. \A e \in Events : inbox[e].package = p =>
          inbox[e].status \notin {"HELD", "CONFLICT", "ABSENT"} /\ conflicts[e] # "OPEN"
  <2>1. \A e \in Events : inbox[e].package = p => inbox[e].status \notin {"HELD", "CONFLICT"} /\ conflicts[e] # "OPEN"
    BY DEF Sync!ApplyPackage, Sync!Held, Sync!Open, Sync!Rows
  <2>2. \A e \in Events : inbox[e].package = p => inbox[e].status # "ABSENT"
    BY DEF SyncInv, RowSound, SyncAssumptions
  <2> QED BY <2>1, <2>2
<1>7. ASSUME NEW e \in Events, inbox[e].package = p
      PROVE  /\ inbox'[e].status \in {"APPLIED", "REJECTED", "IGNORED"}
             /\ inbox'[e].status \in {"REJECTED", "IGNORED"} => inbox[e].status = inbox'[e].status
             /\ inbox'[e].status = "APPLIED" => inbox[e].status \in {"READY", "APPLIED"}
  <2>1. inbox[e] \in RowSet /\ inbox[e].status \in {"READY", "REJECTED", "IGNORED", "APPLIED"}
    BY <1>6, <1>7 DEF SyncInv, SyncTyped, RowSet
  <2>2. inbox'[e] = IF inbox[e].status = "READY" THEN [inbox[e] EXCEPT !.status = "APPLIED"] ELSE inbox[e]
    BY <1>1, <1>7 DEF Sync!Rows
  <2> QED BY <2>1, <2>2 DEF RowSet
<1>8. \A e \in Events : inbox[e].package # p => inbox'[e] = inbox[e]
  BY <1>1 DEF Sync!Rows
<1>9. ASSUME NEW e \in Events PROVE RowSound(e)' /\ RivalSound(e)'
  <2> DEFINE for == Sync!Undisputed(e) \/ Sync!SpokenFor(e)
             against == Sync!SpokenAgainst(e)
  <2>1. Sync!Followers(e)' = Sync!Followers(e) /\ Sync!Competing(e)' = Sync!Competing(e)
    BY <1>5, FollowersStay
  <2>2. (for' <=> for) /\ (against' <=> against)
    BY <1>1, <2>1 DEF Sync!Undisputed, Sync!SpokenFor, Sync!SpokenAgainst
  <2>3. RivalSound(e)'
    BY <1>1, <1>5, <2>1 DEF SyncInv, RivalSound
  <2>4. RowSound(e)
    BY DEF SyncInv
  <2>5. CASE inbox[e].package = p
    <3>1. inbox[e].status # "ABSENT" /\ (inbox[e].status \in {"READY", "APPLIED"} => for)
          /\ (inbox[e].status \in {"REJECTED", "IGNORED"} => against)
      BY <1>6, <2>4, <2>5 DEF RowSound
    <3> HIDE DEF for, against
    <3>2. inbox'[e].package = p /\ packages'[p].status = "APPLIED"
      BY <1>2, <1>5, <2>5
    <3>3. inbox'[e].status \in {"READY", "HELD", "APPLIED"} => for'
      BY <1>7, <2>2, <2>5, <3>1
    <3>4. inbox'[e].status \in {"REJECTED", "IGNORED"} => against'
      BY <1>7, <2>2, <2>5, <3>1
    <3>5. inbox'[e].status # "ABSENT"
      BY <1>7, <2>5
    <3> QED BY <2>3, <3>2, <3>3, <3>4, <3>5 DEF RowSound, for, against
  <2>6. CASE inbox[e].package # p
    <3>1. inbox'[e] = inbox[e] /\ conflicts'[e] = conflicts[e]
      BY <1>1, <1>8, <2>6
    <3>2. inbox[e].package \in Packages => packages'[inbox[e].package] = packages[inbox[e].package]
      BY <1>3, <2>6
    <3> QED BY <2>2, <2>3, <2>4, <3>1, <3>2 DEF RowSound
  <2> QED BY <2>5, <2>6
<1>10. ASSUME NEW q \in Packages PROVE PackageSound(q)'
  <2>1. CASE q = p
    BY <1>1, <1>2, <1>5, <1>6, <1>7, <2>1 DEF PackageSound
  <2>2. CASE q # p
    BY <1>1, <1>3, <1>5, <1>8, <2>2 DEF SyncInv, PackageSound
  <2> QED BY <2>1, <2>2
<1> QED BY <1>1, <1>2, <1>4, <1>9, <1>10 DEF SyncInv, SyncTyped

LEMMA SyncInvStep ==
    ASSUME SyncAssumptions, SyncInv, [Sync!Next]_(Sync!vars)
    PROVE  SyncInv'
<1>1. ASSUME packages' = packages /\ inbox' = inbox /\ conflicts' = conflicts
      PROVE  SyncInv'
  <2>1. \A e \in Events : Sync!Followers(e)' = Sync!Followers(e) /\ Sync!Competing(e)' = Sync!Competing(e)
    BY <1>1, FollowersStay
  <2>2. \A e \in Events : RowSound(e)' /\ RivalSound(e)'
    BY <1>1, <2>1 DEF SyncInv, RowSound, RivalSound, Sync!Undisputed, Sync!SpokenFor, Sync!SpokenAgainst
  <2> QED BY <1>1, <2>2 DEF SyncInv, SyncTyped, PackageSound
<1>2. CASE UNCHANGED Sync!vars
  BY <1>1, <1>2 DEF Sync!vars
<1>3. ASSUME NEW p \in Packages, Sync!Lapse(p)
      PROVE  SyncInv'
  BY <1>1, <1>3 DEF Sync!Lapse
<1> QED BY <1>2, <1>3, ExportKeeps, ImportKeeps, ResolveKeeps, ApplyKeeps DEF Sync!Next

\* Every applied package had its conflicts decided, and its rows follow the decisions. Of two rows that
\* compete, the one decision there is speaks for one and against the other.
LEMMA SyncInvAtomic ==
    ASSUME SyncAssumptions, SyncInv
    PROVE  Sync!SyncAtomic
<1>1. ASSUME NEW e \in Events, inbox[e].status = "APPLIED"
      PROVE  /\ inbox[e].package \in Packages /\ packages[inbox[e].package].status = "APPLIED"
             /\ Sync!Undisputed(e) \/ Sync!SpokenFor(e)
  BY <1>1 DEF SyncInv, RowSound
<1>2. ASSUME NEW p \in Packages, packages[p].status = "APPLIED"
      PROVE  /\ Sync!Open(p) = {}
             /\ \A e \in Sync!Rows(p) : inbox[e].status # "APPLIED" => Sync!SpokenAgainst(e)
             /\ \A e \in Sync!Rows(p) : Sync!Followers(e) = {} =>
                   \A d \in Sync!Competing(e) : conflicts[d] = "ABSENT" => (inbox[d].status = "APPLIED" <=> inbox[e].status # "APPLIED")
  <2>1. ASSUME NEW e \in Sync!Rows(p)
        PROVE  /\ e \in Events /\ inbox[e].package = p /\ conflicts[e] # "OPEN"
               /\ inbox[e].status \in {"APPLIED", "REJECTED", "IGNORED"}
               /\ inbox[e].status = "APPLIED" => Sync!Undisputed(e) \/ Sync!SpokenFor(e)
               /\ inbox[e].status # "APPLIED" => Sync!SpokenAgainst(e)
    <3>1. e \in Events /\ inbox[e].package = p
      BY DEF Sync!Rows
    <3>2. RowSound(e) /\ PackageSound(p)
      BY <3>1 DEF SyncInv
    <3> QED BY <1>2, <3>1, <3>2 DEF RowSound, PackageSound
  <2>2. ASSUME NEW e \in Sync!Rows(p), Sync!Followers(e) = {}, NEW d \in Sync!Competing(e), conflicts[d] = "ABSENT"
        PROVE  inbox[d].status = "APPLIED" <=> inbox[e].status # "APPLIED"
    <3>1. e \in Events /\ d \in Sync!Rows(p) /\ inbox[e].package = p /\ d < e /\ Version[d] = Version[e]
      BY <2>1, FollowsWithin DEF Sync!Rows
    <3>2. conflicts[e] \in Sync!Decisions
      <4>1. RivalSound(e) /\ p # 0
        BY <3>1, SyncAssumptions DEF SyncInv, SyncAssumptions
      <4> QED BY <2>1, <3>1, <4>1 DEF SyncInv, SyncTyped, RivalSound
    <3>3. inbox[e].status = "APPLIED" <=> conflicts[e] = "ACCEPT_REMOTE"
      BY <2>1, <2>2, <3>2 DEF Sync!Undisputed, Sync!SpokenFor, Sync!SpokenAgainst, Sync!Decisions
    <3>4. ASSUME NEW f \in Sync!Followers(d) PROVE f = e
      <4>1. f \in Events /\ d \in Sync!Competing(f)
        BY DEF Sync!Followers
      <4>2. inbox[f].package = p /\ d < f /\ Version[f] = Version[d]
        BY <3>1, <4>1, FollowsWithin DEF Sync!Rows
      <4>3. e \in Int /\ f \in Int /\ d \in Int
        BY <3>1, <4>1, SyncAssumptions DEF Sync!Rows, SyncAssumptions
      <4>4. \A c \in Events : inbox[c].package = p /\ Version[c] = Version[d] =>
               (c < e => c <= d) /\ (c < f => c <= d)
        BY <3>1, <4>1, <4>2 DEF Sync!Competing, Sync!Nearest, Sync!Before, Sync!Rows
      <4>5. (f < e => f <= d) /\ (e < f => e <= d)
        BY <3>1, <4>1, <4>2, <4>4
      <4> QED BY <3>1, <4>2, <4>3, <4>5
    <3>5. e \in Sync!Followers(d)
      BY <3>1 DEF Sync!Followers
    <3>6. inbox[d].status = "APPLIED" <=> conflicts[e] # "ACCEPT_REMOTE"
      BY <2>1, <2>2, <3>1, <3>2, <3>4, <3>5 DEF Sync!Undisputed, Sync!SpokenFor, Sync!SpokenAgainst, Sync!Decisions
    <3> QED BY <3>3, <3>6
  <2>3. Sync!Open(p) = {}
    BY <2>1 DEF Sync!Open
  <2> QED BY <2>1, <2>2, <2>3
<1> QED BY <1>1, <1>2 DEF Sync!SyncAtomic

-----------------------------------------------------------------------------
\* However packages overlap, are repeated, come late, are rejected or hold events that compete with one
\* another, an event is applied only with its package, and only undisputed or with a decision for it; an
\* applied package leaves out only events a decision spoke against, and of two that compete alone it
\* applies exactly one (SyncService.import_package, resolve_conflict, apply_package).
THEOREM SyncAlwaysAtomic ==
    ASSUME SyncAssumptions
    PROVE  Sync!Spec => []Sync!SyncAtomic
<1>1. Sync!Init => SyncInv
  BY SyncInvInit
<1>2. SyncInv /\ [Sync!Next]_(Sync!vars) => SyncInv'
  BY SyncInvStep
<1>3. SyncInv => Sync!SyncAtomic
  BY SyncInvAtomic
<1> QED BY <1>1, <1>2, <1>3, PTL DEF Sync!Spec

-----------------------------------------------------------------------------
\* Service clients
ClientAssumptions == MaxVersion \in Nat

ClientSet == [status : {"ABSENT", "ACTIVE", "SUSPENDED", "REVOKED"}, config : Int, version : 0 .. MaxVersion,
              lapsed : BOOLEAN]
CredentialSet == [status : {"ABSENT", "ACTIVE", "RETIRED", "REVOKED"}, config : Int, lapsed : BOOLEAN]
RequestSet == [status : {"ABSENT", "PENDING", "APPROVED", "REJECTED"}, operation : Clients!Operations \union {None},
               requester : Officers \union {Nobody}, expected : Int, lapsed : BOOLEAN]
TokenSet == [status : {"ABSENT", "ACTIVE", "REVOKED", "EXPIRED"}, credential : Credentials \union {None},
             config : Int, lapsed : BOOLEAN]

ClientTyped ==
    /\ client \in ClientSet /\ credentials \in [Credentials -> CredentialSet]
    /\ requests \in [Requests -> RequestSet] /\ tokens \in [Tokens -> TokenSet]

\* A token in force is one of the present policy and of a credential in force.
TokensInForce ==
    \A t \in Tokens : tokens[t].status = "ACTIVE" =>
        /\ client.status = "ACTIVE" /\ tokens[t].config = client.config
        /\ tokens[t].credential \in Credentials /\ credentials[tokens[t].credential].status = "ACTIVE"

\* One credential at most is in force, and none before the client is created: the creation issues
\* one without looking for others.
OneCredential ==
    /\ \A c, d \in Credentials : credentials[c].status = "ACTIVE" /\ credentials[d].status = "ACTIVE" => c = d
    /\ client.status = "ABSENT" => \A c \in Credentials : credentials[c].status # "ACTIVE"

ClientInv == ClientTyped /\ TokensInForce /\ OneCredential

-----------------------------------------------------------------------------
LEMMA ClientInvInit ==
    ASSUME ClientAssumptions, Clients!Init
    PROVE  ClientInv
  BY DEF ClientAssumptions, Clients!Init, ClientInv, ClientTyped, TokensInForce, OneCredential, ClientSet, CredentialSet, RequestSet,
         TokenSet, Clients!Operations

\* After RevokeTokens no token is in force.
LEMMA RevokedTokens ==
    ASSUME tokens \in [Tokens -> TokenSet], tokens' = Clients!RevokeTokens
    PROVE  /\ tokens' \in [Tokens -> TokenSet]
           /\ \A t \in Tokens : tokens'[t].status # "ACTIVE"
  BY DEF Clients!RevokeTokens, TokenSet

\* The four operations of an approved request
LEMMA ApprovedKeeps ==
    ASSUME ClientAssumptions, ClientInv, NEW r \in Requests, NEW c \in Credentials, Clients!ApplyApprovedRequest(r, c)
    PROVE  /\ client' \in ClientSet /\ credentials' \in [Credentials -> CredentialSet]
           /\ tokens' \in [Tokens -> TokenSet]
           /\ TokensInForce' /\ OneCredential'
<1> DEFINE operation == requests[r].operation
<1> USE DEF ClientInv, ClientTyped
<1>1. /\ client.version + 1 \in 0 .. MaxVersion /\ client.config + 1 \in Int
      /\ client.version < MaxVersion /\ Clients!Changeable(operation)
  BY DEF ClientAssumptions, Clients!ApplyApprovedRequest, ClientSet
<1>2. CASE Clients!Create(c)
  <2>1. client.version \in 0 .. MaxVersion /\ 1 \in 0 .. MaxVersion
    BY <1>1 DEF ClientAssumptions, ClientSet
  <2>2. client' \in ClientSet /\ tokens' = tokens
    BY <1>2, <2>1 DEF Clients!Create, ClientSet
  <2>3. [Clients!IssueCredential EXCEPT !.config = 1] \in CredentialSet
    <3>1. Clients!IssueCredential \in CredentialSet
      BY DEF Clients!IssueCredential, CredentialSet, ClientSet
    <3>2. \A x \in CredentialSet : [x EXCEPT !.config = 1] \in CredentialSet
      BY DEF CredentialSet
    <3> QED BY <3>1, <3>2
  <2>4. credentials' \in [Credentials -> CredentialSet]
    BY <1>2, <2>3 DEF Clients!Create
  <2>5. \A t \in Tokens : tokens[t].status # "ACTIVE"
    BY <1>2 DEF Clients!Create, TokensInForce
  <2>6. \A d \in Credentials : d # c => credentials'[d].status # "ACTIVE"
    BY <1>2 DEF Clients!Create, OneCredential
  <2>7. client'.status = "ACTIVE"
    BY <1>2 DEF Clients!Create
  <2> QED BY <2>2, <2>4, <2>5, <2>6, <2>7 DEF TokensInForce, OneCredential
<1>3. CASE Clients!Update
  <2>1. client' \in ClientSet
    BY <1>1, <1>3 DEF Clients!Update, ClientSet
  <2>2. credentials' = credentials /\ client'.status = client.status
    BY <1>3 DEF Clients!Update, ClientSet
  <2>3. tokens' \in [Tokens -> TokenSet] /\ \A t \in Tokens : tokens'[t].status # "ACTIVE"
    BY <1>3, RevokedTokens DEF Clients!Update, Clients!Updated
  <2> QED BY <2>1, <2>2, <2>3 DEF TokensInForce, OneCredential
<1>4. CASE operation = "ROTATE" /\ Clients!Rotate(c)
  <2>1. client' \in ClientSet
    BY <1>1, <1>4 DEF Clients!Rotate, ClientSet
  <2>2. Clients!IssueCredential \in CredentialSet /\ Clients!Superseded \in [Credentials -> CredentialSet]
    BY DEF Clients!IssueCredential, Clients!Superseded, CredentialSet, ClientSet
  <2>3. credentials' \in [Credentials -> CredentialSet]
    BY <1>4, <2>2 DEF Clients!Rotate
  <2>4. \A d \in Credentials : d # c => credentials'[d].status # "ACTIVE"
    <3>1. \A d \in Credentials : d # c => credentials'[d] = Clients!Superseded[d]
      BY <1>4, <2>2 DEF Clients!Rotate
    <3>2. \A d \in Credentials : Clients!Superseded[d].status # "ACTIVE"
      BY DEF Clients!Superseded, CredentialSet
    <3> QED BY <3>1, <3>2
  <2>5. tokens' \in [Tokens -> TokenSet] /\ \A t \in Tokens : tokens'[t].status # "ACTIVE"
    BY <1>4, RevokedTokens DEF Clients!Rotate
  <2>6. client.status # "ABSENT" /\ client'.status = client.status
    BY <1>1, <1>4 DEF Clients!Rotate, Clients!Changeable, Clients!EffectiveStatus, ClientSet
  <2> QED BY <2>1, <2>3, <2>4, <2>5, <2>6 DEF TokensInForce, OneCredential
<1>5. CASE operation = "REACTIVATE" /\ Clients!Reactivate
  <2>1. client' \in ClientSet
    BY <1>1, <1>5 DEF Clients!Reactivate, ClientSet
  <2>2. client'.status = "ACTIVE" /\ UNCHANGED <<credentials, tokens>>
    BY <1>5 DEF Clients!Reactivate, ClientSet
  <2>3. client.status = "SUSPENDED"
    BY <1>1, <1>5 DEF Clients!Changeable
  <2>4. \A t \in Tokens : tokens[t].status # "ACTIVE"
    BY <2>3 DEF TokensInForce
  <2> QED BY <2>1, <2>2, <2>4 DEF TokensInForce, OneCredential
<1> QED BY <1>2, <1>3, <1>4, <1>5 DEF Clients!ApplyApprovedRequest

LEMMA DecisionKeeps ==
    ASSUME ClientAssumptions, ClientInv, NEW r \in Requests, NEW u \in Officers, NEW approve \in BOOLEAN,
           Clients!DecideRequest(r, u, approve)
    PROVE  ClientInv'
<1>1. requests' \in [Requests -> RequestSet]
  BY DEF Clients!DecideRequest, ClientInv, ClientTyped, RequestSet
<1>2. CASE approve
  <2>1. PICK c \in Credentials : Clients!ApplyApprovedRequest(r, c)
    BY <1>2 DEF Clients!DecideRequest
  <2> QED BY <1>1, <2>1, ApprovedKeeps DEF ClientInv, ClientTyped
<1>3. CASE ~approve
  BY <1>1, <1>3 DEF Clients!DecideRequest, ClientInv, ClientTyped, TokensInForce, OneCredential
<1> QED BY <1>2, <1>3

\* A suspension or revocation ends every token with the client.
LEMMA EndKeeps ==
    ASSUME ClientAssumptions, ClientInv, Clients!Suspend \/ Clients!Revoke
    PROVE  ClientInv'
<1> USE DEF ClientInv, ClientTyped
<1>1. client.version + 1 \in 0 .. MaxVersion
  BY DEF ClientAssumptions, Clients!Suspend, Clients!Revoke, ClientSet
<1>2. tokens' \in [Tokens -> TokenSet] /\ \A t \in Tokens : tokens'[t].status # "ACTIVE"
  BY RevokedTokens DEF Clients!Suspend, Clients!Revoke
<1>3. client' \in ClientSet /\ client'.status \in {"SUSPENDED", "REVOKED"}
  BY <1>1 DEF Clients!Suspend, Clients!Revoke, ClientSet
<1>4. /\ credentials' \in [Credentials -> CredentialSet]
      /\ \A c \in Credentials : credentials'[c].status = "ACTIVE" => credentials[c].status = "ACTIVE"
  BY DEF Clients!Suspend, Clients!Revoke, CredentialSet
<1>5. requests' = requests
  BY DEF Clients!Suspend, Clients!Revoke
<1> QED BY <1>2, <1>3, <1>4, <1>5 DEF TokensInForce, OneCredential

SameButTime(before, after) ==
    after.status = before.status /\ after.config = before.config /\ after.credential = before.credential
\* Time lapses without a change of status.
LEMMA LapseKeeps ==
    ASSUME ClientInv, Clients!Lapse
    PROVE  ClientInv'
<1> USE DEF ClientInv, ClientTyped
<1>1. ASSUME NEW t \in Tokens, tokens' = [tokens EXCEPT ![t].lapsed = TRUE], UNCHANGED <<client, credentials, requests>>
      PROVE  ClientInv'
  <2>1. /\ tokens' \in [Tokens -> TokenSet]
        /\ \A o \in Tokens : SameButTime(tokens[o], tokens'[o])
    BY <1>1 DEF TokenSet, SameButTime
  <2> QED BY <1>1, <2>1 DEF SameButTime, TokensInForce, OneCredential
<1>2. ASSUME NEW r \in Requests, requests' = [requests EXCEPT ![r].lapsed = TRUE], UNCHANGED <<client, credentials, tokens>>
      PROVE  ClientInv'
  <2>1. requests' \in [Requests -> RequestSet]
    BY <1>2 DEF RequestSet
  <2> QED BY <1>2, <2>1 DEF TokensInForce, OneCredential
<1>3. ASSUME client' = [client EXCEPT !.lapsed = TRUE],
             credentials' = [c \in Credentials |->
                               [credentials[c] EXCEPT !.lapsed = credentials[c].config = client.config \/ @]],
             tokens' = [t \in Tokens |-> [tokens[t] EXCEPT !.lapsed = tokens[t].status # "ABSENT"]],
             UNCHANGED requests
      PROVE  ClientInv'
  <2>1. client' \in ClientSet /\ client'.status = client.status /\ client'.config = client.config
    BY <1>3 DEF ClientSet
  <2>2. /\ credentials' \in [Credentials -> CredentialSet]
        /\ \A c \in Credentials : credentials'[c].status = credentials[c].status
    <3> DEFINE gone(c) == credentials[c].config = client.config \/ credentials[c].lapsed
    <3>1. \A c \in Credentials : gone(c) \in BOOLEAN
      OBVIOUS
    <3>2. \A c \in Credentials : credentials'[c] = [credentials[c] EXCEPT !.lapsed = gone(c)]
      BY <1>3
    <3>3. DOMAIN credentials' = Credentials /\ credentials' = [c \in Credentials |-> credentials'[c]]
      BY <1>3
    <3> HIDE DEF gone
    <3>4. \A c \in Credentials : credentials'[c] \in CredentialSet /\ credentials'[c].status = credentials[c].status
      BY <3>1, <3>2 DEF CredentialSet
    <3> QED BY <3>3, <3>4
  <2>3. /\ tokens' \in [Tokens -> TokenSet]
        /\ \A t \in Tokens : SameButTime(tokens[t], tokens'[t])
    <3> DEFINE gone(t) == tokens[t].status # "ABSENT"
    <3>1. \A t \in Tokens : gone(t) \in BOOLEAN
      OBVIOUS
    <3>2. \A t \in Tokens : tokens'[t] = [tokens[t] EXCEPT !.lapsed = gone(t)]
      BY <1>3
    <3>3. tokens' = [t \in Tokens |-> tokens'[t]]
      BY <1>3
    <3> HIDE DEF gone
    <3>4. \A x \in TokenSet, b \in BOOLEAN :
             [x EXCEPT !.lapsed = b] \in TokenSet /\ SameButTime(x, [x EXCEPT !.lapsed = b])
      BY DEF TokenSet, SameButTime
    <3>5. ASSUME NEW t \in Tokens PROVE tokens'[t] \in TokenSet /\ SameButTime(tokens[t], tokens'[t])
      <4>1. tokens[t] \in TokenSet /\ gone(t) \in BOOLEAN
        BY <3>1
      <4>2. tokens'[t] = [tokens[t] EXCEPT !.lapsed = gone(t)]
        BY <3>2
      <4> QED BY <4>1, <4>2, <3>4
    <3> QED BY <3>3, <3>5
  <2>4. TokensInForce'
    BY <2>1, <2>2, <2>3 DEF SameButTime, TokensInForce
  <2>5. OneCredential'
    BY <2>1, <2>2 DEF OneCredential
  <2> QED BY <1>3, <2>1, <2>2, <2>3, <2>4, <2>5
<1> QED BY <1>1, <1>2, <1>3 DEF Clients!Lapse

LEMMA StepKeeps ==
    ASSUME ClientAssumptions, ClientInv, [Clients!Next]_(Clients!vars)
    PROVE  ClientInv'
<1>1. CASE UNCHANGED Clients!vars
  BY <1>1 DEF Clients!vars, ClientInv, ClientTyped, TokensInForce, OneCredential
<1>2. ASSUME NEW r \in Requests, NEW u \in Officers, NEW operation \in Clients!Operations, Clients!RequestChange(r, operation, u)
      PROVE  ClientInv'
  <2>1. client.version \in Int
    BY DEF ClientInv, ClientTyped, ClientSet, ClientAssumptions
  <2>2. requests' \in [Requests -> RequestSet]
    BY <1>2, <2>1 DEF Clients!RequestChange, ClientInv, ClientTyped, RequestSet
  <2> QED BY <1>2, <2>2 DEF Clients!RequestChange, ClientInv, ClientTyped, TokensInForce, OneCredential
<1>3. ASSUME NEW t \in Tokens, NEW c \in Credentials, Clients!IssueAccessToken(t, c)
      PROVE  ClientInv'
  <2>1. tokens' \in [Tokens -> TokenSet]
    BY <1>3 DEF Clients!IssueAccessToken, ClientInv, ClientTyped, TokenSet, ClientSet
  <2> QED BY <1>3, <2>1 DEF Clients!IssueAccessToken, Clients!RuntimeAccess, ClientInv, ClientTyped, TokensInForce, OneCredential
<1>4. ASSUME NEW forgotten \in SUBSET Tokens, Clients!CleanupRuntimeState(forgotten)
      PROVE  ClientInv'
  <2> DEFINE none == [status |-> "ABSENT", credential |-> None, config |-> 0, lapsed |-> FALSE]
  <2>1. none \in TokenSet /\ none.status # "ACTIVE"
    BY DEF TokenSet
  <2>2. \A t \in Tokens : \/ tokens'[t] = none
                          \/ tokens'[t] = [tokens[t] EXCEPT !.status = "EXPIRED"]
                          \/ tokens'[t] = tokens[t]
    BY <1>4 DEF Clients!CleanupRuntimeState
  <2>3. tokens' = [t \in Tokens |-> tokens'[t]]
    BY <1>4 DEF Clients!CleanupRuntimeState
  <2> HIDE DEF none
  <2>4. \A t \in Tokens : /\ tokens'[t] \in TokenSet
                          /\ tokens'[t].status = "ACTIVE" => tokens'[t] = tokens[t]
    BY <2>1, <2>2 DEF ClientInv, ClientTyped, TokenSet
  <2>5. tokens' \in [Tokens -> TokenSet]
    BY <2>3, <2>4
  <2>6. UNCHANGED <<client, credentials, requests>>
    BY <1>4 DEF Clients!CleanupRuntimeState
  <2>7. TokensInForce'
    BY <2>4, <2>6 DEF ClientInv, TokensInForce
  <2> QED BY <2>5, <2>6, <2>7 DEF ClientInv, ClientTyped, OneCredential
<1>5. ASSUME NEW status \in {"ACTIVE", "SUSPENDED"}, Clients!TransitionCooperative(status)
      PROVE  ClientInv'
  BY <1>5 DEF Clients!TransitionCooperative, ClientInv, ClientTyped, TokensInForce, OneCredential
<1> QED
  BY <1>1, <1>2, <1>3, <1>4, <1>5, DecisionKeeps, EndKeeps, LapseKeeps DEF Clients!Next, Clients!LapseOfTime

-----------------------------------------------------------------------------
\* Whatever is asked for and decided late, rotated, suspended, reactivated or lapses, a token in force
\* is one of the present policy of an active client and of its one credential
\* (ServiceClientService.request_change, decide_request, suspend, revoke, issue_access_token).
THEOREM TokensAlwaysCurrent ==
    ASSUME ClientAssumptions
    PROVE  Clients!Spec => []Clients!TokensCurrent
<1>1. Clients!Init => ClientInv
  BY ClientInvInit
<1>2. ClientInv /\ [Clients!Next]_(Clients!vars) => ClientInv'
  BY StepKeeps
<1>3. ClientInv => Clients!TokensCurrent
  BY DEF ClientInv, TokensInForce, OneCredential, Clients!TokensCurrent
<1> QED BY <1>1, <1>2, <1>3, PTL DEF Clients!Spec

-----------------------------------------------------------------------------
\* Accounts
IsSession(x) == {"status", "password", "stepped"} \subseteq DOMAIN x
IsFactor(x) == {"status", "failures", "locked"} \subseteq DOMAIN x
AccessShaped ==
    /\ sessions = [s \in Sessions |-> sessions[s]] /\ \A s \in Sessions : IsSession(sessions[s])
    /\ factors = [f \in Factors |-> factors[f]] /\ \A f \in Factors : IsFactor(factors[f])
    /\ {"status", "password", "temporary", "failures", "locked"} \subseteq DOMAIN account
    /\ {"status", "requester", "authority", "lapsed"} \subseteq DOMAIN grant

AccessInv == AccessShaped /\ Access!AccessCurrent

-----------------------------------------------------------------------------
LEMMA AccessInvInit ==
    ASSUME Access!Init
    PROVE  AccessInv
  BY DEF Access!Init, AccessInv, AccessShaped, IsSession, IsFactor, Access!AccessCurrent, Access!SessionsCurrent, Access!StepUpBacked, Access!GrantMirrored

LEMMA CountedKeepsRow ==
    ASSUME NEW x, {"status", "failures", "locked"} \subseteq DOMAIN x
    PROVE  /\ DOMAIN Access!Counted(x) = DOMAIN x
           /\ \A c \in DOMAIN x \ {"failures", "locked"} : Access!Counted(x)[c] = x[c]
  BY DEF Access!Counted

\* Steps that leave the present password and the second factors in force alone, and open sessions
\* under that password or end them.
LEMMA SessionsKeep ==
    ASSUME AccessInv, AccessShaped', Access!GrantMirrored',
           account'.password = account.password,
           \A f \in Factors : factors[f].status = "ACTIVE" => factors'[f].status = "ACTIVE",
           \A s \in Sessions : sessions'[s].status = "ACTIVE" =>
               \/ sessions[s].status = "ACTIVE" /\ sessions'[s].password = sessions[s].password
                    /\ sessions'[s].stepped = sessions[s].stepped
               \/ sessions'[s] = Access!Open(account.password)
    PROVE  AccessInv'
  BY DEF AccessInv, Access!AccessCurrent, Access!SessionsCurrent, Access!StepUpBacked, Access!Open

\* The password changes: every session ends, but for one that is opened under the new one.
LEMMA AllEnd ==
    ASSUME AccessInv, AccessShaped', Access!GrantMirrored',
           \A s \in Sessions : sessions'[s].status = "ACTIVE" => sessions'[s] = Access!Open(account'.password)
    PROVE  AccessInv'
  BY DEF AccessInv, Access!AccessCurrent, Access!SessionsCurrent, Access!StepUpBacked, Access!Open

LEMMA RevokedRows ==
    ASSUME AccessShaped
    PROVE  \A s \in Sessions : IsSession(Access!Revoked[s]) /\ Access!Revoked[s].status # "ACTIVE"
  BY DEF AccessShaped, IsSession, Access!Revoked

LEMMA SignInKeeps ==
    ASSUME AccessInv, NEW s \in Sessions,
           \/ Access!Login(s) \/ Access!Logout(s) \/ Access!RevokeSession(s) \/ (\E new \in Sessions : Access!ChangePassword(s, new))
    PROVE  AccessInv'
<1> USE DEF AccessInv
<1>1. Access!GrantMirrored' /\ UNCHANGED <<factors, grant>>
  BY DEF Access!AccessCurrent, Access!Login, Access!Logout, Access!RevokeSession, Access!ChangePassword, Access!GrantMirrored
<1>2. IsSession(Access!Open(account.password)) /\ IsSession(Access!Open(account.password + 1))
  BY DEF Access!Open, IsSession
<1>3. CASE Access!Login(s)
  <2>1. AccessShaped' /\ account'.password = account.password
    BY <1>1, <1>2, <1>3 DEF Access!Login, AccessShaped
  <2>2. \A t \in Sessions : sessions'[t] = sessions[t] \/ sessions'[t] = Access!Open(account.password)
    BY <1>3 DEF Access!Login, AccessShaped
  <2> QED BY <1>1, <2>1, <2>2, SessionsKeep
<1>4. CASE Access!Logout(s) \/ Access!RevokeSession(s)
  <2>1. sessions' = [sessions EXCEPT ![s].status = "REVOKED"] /\ UNCHANGED account
    BY <1>4 DEF Access!Logout, Access!RevokeSession
  <2>2. AccessShaped'
    BY <1>1, <2>1 DEF AccessShaped, IsSession
  <2>3. \A t \in Sessions : sessions'[t] = sessions[t] \/ sessions'[t].status = "REVOKED"
    BY <2>1 DEF AccessShaped, IsSession
  <2> QED BY <1>1, <2>1, <2>2, <2>3, SessionsKeep
<1>5. ASSUME NEW new \in Sessions, Access!ChangePassword(s, new)
      PROVE  AccessInv'
  <2>1. /\ account' = [account EXCEPT !.password = account.password + 1, !.temporary = FALSE]
        /\ sessions' = [Access!Revoked EXCEPT ![new] = Access!Open(account.password + 1)]
    BY <1>5 DEF Access!ChangePassword, Access!Closed
  <2>2. sessions' = [t \in Sessions |-> IF t = new THEN Access!Open(account.password + 1) ELSE Access!Revoked[t]]
    BY <2>1 DEF Access!Revoked
  <2>3. account'.password = account.password + 1
    BY <2>1 DEF AccessShaped
  <2>4. AccessShaped'
    BY <1>1, <1>2, <2>1, <2>2, RevokedRows DEF AccessShaped
  <2> QED BY <1>1, <2>2, <2>3, <2>4, RevokedRows, AllEnd
<1> QED BY <1>3, <1>4, <1>5

LEMMA SuspensionKeeps ==
    ASSUME AccessInv,
           \/ Access!LoginFailed \/ Access!ReinstateMember \/ (\E f \in Factors : Access!Unlock(f))
           \/ \E status \in {"ACTIVE", "DISABLED"} : Access!TransitionUser(status)
           \/ \E late \in SUBSET Sessions : Access!SuspendMember(late)
    PROVE  AccessInv'
<1> USE DEF AccessInv
<1>1. Access!GrantMirrored' /\ UNCHANGED grant
  BY DEF Access!AccessCurrent, Access!LoginFailed, Access!ReinstateMember, Access!Unlock, Access!TransitionUser, Access!SuspendMember, Access!GrantMirrored
<1>2. /\ account'.password = account.password
      /\ {"status", "password", "temporary", "failures", "locked"} \subseteq DOMAIN account'
  BY CountedKeepsRow DEF Access!LoginFailed, Access!ReinstateMember, Access!Unlock, Access!TransitionUser, Access!SuspendMember, AccessShaped
<1>3. /\ factors' = [f \in Factors |-> factors'[f]]
      /\ \A f \in Factors : IsFactor(factors'[f]) /\ factors'[f].status = factors[f].status
  BY DEF Access!LoginFailed, Access!ReinstateMember, Access!Unlock, Access!TransitionUser, Access!SuspendMember, AccessShaped, IsFactor
<1>4. UNCHANGED sessions \/ sessions' = Access!Revoked
      \/ \E late \in SUBSET Sessions : sessions' = [s \in Sessions |-> IF s \in late THEN Access!Open(account.password) ELSE Access!Revoked[s]]
  BY DEF Access!LoginFailed, Access!ReinstateMember, Access!Unlock, Access!TransitionUser, Access!SuspendMember
<1>5. /\ sessions' = [s \in Sessions |-> sessions'[s]]
      /\ \A s \in Sessions : /\ IsSession(sessions'[s])
                             /\ \/ sessions'[s] = sessions[s] \/ sessions'[s].status # "ACTIVE"
                                \/ sessions'[s] = Access!Open(account.password)
  <2>1. IsSession(Access!Open(account.password))
    BY DEF Access!Open, IsSession
  <2>2. Access!Revoked = [s \in Sessions |-> Access!Revoked[s]]
    BY DEF Access!Revoked
  <2> QED BY <1>4, <2>1, <2>2, RevokedRows DEF AccessShaped
<1>6. AccessShaped'
  BY <1>1, <1>2, <1>3, <1>5 DEF AccessShaped
<1> QED BY <1>1, <1>2, <1>3, <1>5, <1>6, SessionsKeep

LEMMA FactorsKeep ==
    ASSUME AccessInv, NEW s \in Sessions, NEW f \in Factors,
           \/ Access!BeginTotpEnrollment(s, f) \/ Access!VerifyStepUp(s, f) \/ Access!AcceptTotpFailed(s, f) \/ Access!DisableTotp(s, f)
           \/ \E late \in BOOLEAN : Access!ConfirmTotpEnrollment(s, f, late)
    PROVE  AccessInv'
<1> USE DEF AccessInv
<1>1. Access!GrantMirrored' /\ UNCHANGED <<grant, account>>
  BY DEF Access!AccessCurrent, Access!BeginTotpEnrollment, Access!VerifyStepUp, Access!AcceptTotpFailed, Access!DisableTotp, Access!ConfirmTotpEnrollment,
         Access!GrantMirrored
<1>2. CASE Access!BeginTotpEnrollment(s, f) \/ Access!AcceptTotpFailed(s, f) \/ Access!ConfirmTotpEnrollment(s, f, TRUE)
  <2>1. UNCHANGED sessions
    BY <1>2 DEF Access!BeginTotpEnrollment, Access!AcceptTotpFailed, Access!ConfirmTotpEnrollment
  <2>2. /\ factors' = [g \in Factors |-> factors'[g]]
        /\ \A g \in Factors : IsFactor(factors'[g]) /\ (factors[g].status = "ACTIVE" => factors'[g].status = "ACTIVE")
    <3>1. CASE Access!BeginTotpEnrollment(s, f)
      BY <3>1 DEF Access!BeginTotpEnrollment, AccessShaped, IsFactor
    <3>2. CASE Access!AcceptTotpFailed(s, f)
      <4>1. factors' = [factors EXCEPT ![f] = Access!Counted(factors[f])] /\ IsFactor(factors[f])
        BY <3>2 DEF Access!AcceptTotpFailed, Access!Rejected, AccessShaped
      <4>2. IsFactor(Access!Counted(factors[f])) /\ Access!Counted(factors[f]).status = factors[f].status
        BY <4>1, CountedKeepsRow DEF IsFactor
      <4> QED BY <4>1, <4>2 DEF AccessShaped
    <3>3. CASE Access!ConfirmTotpEnrollment(s, f, TRUE)
      BY <3>3 DEF Access!ConfirmTotpEnrollment, AccessShaped, IsFactor
    <3> QED BY <1>2, <3>1, <3>2, <3>3
  <2>3. AccessShaped'
    BY <1>1, <2>1, <2>2 DEF AccessShaped
  <2> QED BY <1>1, <2>1, <2>2, <2>3, SessionsKeep
<1>3. CASE Access!VerifyStepUp(s, f) \/ Access!ConfirmTotpEnrollment(s, f, FALSE)
  <2>1. /\ sessions' = [sessions EXCEPT ![s].stepped = TRUE]
        /\ factors' = [g \in Factors |-> factors'[g]]
        /\ \A g \in Factors : IsFactor(factors'[g])
        /\ factors'[f].status = "ACTIVE"
    BY <1>3 DEF Access!VerifyStepUp, Access!ConfirmTotpEnrollment, AccessShaped, IsFactor
  <2>2. /\ sessions' = [t \in Sessions |-> sessions'[t]]
        /\ \A t \in Sessions : /\ IsSession(sessions'[t]) /\ sessions'[t].status = sessions[t].status
                               /\ sessions'[t].password = sessions[t].password
    BY <2>1 DEF AccessShaped, IsSession
  <2>3. AccessShaped'
    BY <1>1, <2>1, <2>2 DEF AccessShaped
  <2> QED BY <1>1, <2>1, <2>2, <2>3 DEF Access!AccessCurrent, Access!SessionsCurrent, Access!StepUpBacked
<1>4. CASE Access!DisableTotp(s, f)
  <2>1. /\ sessions' = Access!SteppedDown(s)
        /\ factors' = [g \in Factors |-> factors'[g]]
        /\ \A g \in Factors : IsFactor(factors'[g])
    BY <1>4 DEF Access!DisableTotp, AccessShaped, IsFactor
  <2>2. /\ sessions' = [t \in Sessions |-> sessions'[t]]
        /\ \A t \in Sessions : /\ IsSession(sessions'[t]) /\ sessions'[t].status = sessions[t].status
                               /\ sessions'[t].password = sessions[t].password
                               /\ sessions'[t].status = "ACTIVE" => ~sessions'[t].stepped
    BY <2>1 DEF Access!SteppedDown, AccessShaped, IsSession
  <2>3. AccessShaped'
    BY <1>1, <2>1, <2>2 DEF AccessShaped
  <2> QED BY <1>1, <2>2, <2>3 DEF Access!AccessCurrent, Access!SessionsCurrent, Access!StepUpBacked
<1> QED BY <1>2, <1>3, <1>4

LEMMA RecoveryKeeps ==
    ASSUME AccessInv, (\E u \in Officers : Access!RequestAccountRecovery(u)) \/
                      (\E u \in Officers, approve \in BOOLEAN : Access!DecideAccountRecovery(u, approve))
    PROVE  AccessInv'
<1> USE DEF AccessInv
<1>1. Access!GrantMirrored' /\ UNCHANGED grant
  BY DEF Access!AccessCurrent, Access!RequestAccountRecovery, Access!DecideAccountRecovery, Access!GrantMirrored
<1>2. CASE UNCHANGED <<account, sessions, factors>>
  BY <1>1, <1>2 DEF AccessShaped, Access!AccessCurrent, Access!SessionsCurrent, Access!StepUpBacked
<1>3. ASSUME NEW u \in Officers, Access!DecideAccountRecovery(u, TRUE)
      PROVE  AccessInv'
  <2>1. /\ {"status", "password", "temporary", "failures", "locked"} \subseteq DOMAIN account'
        /\ sessions' = Access!Revoked
        /\ factors' = [f \in Factors |-> IF factors[f].status \in {"ACTIVE", "PENDING"}
                                         THEN [factors[f] EXCEPT !.status = "DISABLED"] ELSE factors[f]]
    BY <1>3 DEF Access!DecideAccountRecovery
  <2>2. AccessShaped'
    <3>1. sessions' = [s \in Sessions |-> sessions'[s]] /\ \A s \in Sessions : IsSession(sessions'[s])
      BY <2>1, RevokedRows DEF Access!Revoked
    <3>2. factors' = [f \in Factors |-> factors'[f]] /\ \A f \in Factors : IsFactor(factors'[f])
      BY <2>1 DEF AccessShaped, IsFactor
    <3> QED BY <1>1, <2>1, <3>1, <3>2 DEF AccessShaped
  <2> QED BY <1>1, <2>1, <2>2, RevokedRows, AllEnd
<1> QED BY <1>2, <1>3 DEF Access!RequestAccountRecovery, Access!DecideAccountRecovery

LEMMA GrantsKeep ==
    ASSUME AccessInv,
           \/ \E u \in Grantors : Access!RequestBreakGlass(u) \/ Access!AssignRole(u)
           \/ \E u \in Officers, approve \in BOOLEAN : Access!DecideBreakGlass(u, approve) \/ Access!DecideRole(u, approve)
           \/ Access!RevokeBreakGlass \/ Access!LapseGrant \/ Access!ExpireSecurityWorkflows \/ Access!RevokeRole
    PROVE  AccessInv'
<1>1. UNCHANGED <<account, sessions, factors>>
  BY DEF Access!RequestBreakGlass, Access!AssignRole, Access!DecideBreakGlass, Access!DecideRole, Access!RevokeBreakGlass, Access!LapseGrant,
         Access!ExpireSecurityWorkflows, Access!RevokeRole
<1>2. /\ {"status", "requester", "authority", "lapsed"} \subseteq DOMAIN grant'
      /\ Access!GrantMirrored'
  <2>1. CASE grant' = [grant EXCEPT !.lapsed = TRUE] \/ UNCHANGED grant
    BY <2>1 DEF AccessInv, AccessShaped, Access!AccessCurrent, Access!GrantMirrored
  <2>2. CASE \E u : grant' = [status |-> "PENDING_APPROVAL", requester |-> u, authority |-> "PENDING_APPROVAL",
                             lapsed |-> FALSE]
    BY <2>2 DEF Access!GrantMirrored
  <2>3. \/ grant' = [grant EXCEPT !.lapsed = TRUE] \/ UNCHANGED grant
        \/ \E u : grant' = [status |-> "PENDING_APPROVAL", requester |-> u, authority |-> "PENDING_APPROVAL",
                            lapsed |-> FALSE]
        \/ grant' = [grant EXCEPT !.status = "ACTIVE", !.authority = "ACTIVE"]
        \/ grant' = [grant EXCEPT !.status = "REJECTED", !.authority = "REJECTED"]
        \/ grant' = [grant EXCEPT !.status = "REVOKED", !.authority = "REVOKED"]
        \/ grant' = [grant EXCEPT !.status = "EXPIRED", !.authority = "REVOKED"]
    BY DEF Access!RequestBreakGlass, Access!AssignRole, Access!DecideBreakGlass, Access!DecideRole, Access!RevokeBreakGlass, Access!LapseGrant,
           Access!ExpireSecurityWorkflows, Access!RevokeRole, Access!Expired
  <2>4. CASE grant' = [grant EXCEPT !.status = "ACTIVE", !.authority = "ACTIVE"]
    BY <2>4 DEF AccessInv, AccessShaped, Access!GrantMirrored
  <2>5. CASE \/ grant' = [grant EXCEPT !.status = "REJECTED", !.authority = "REJECTED"]
             \/ grant' = [grant EXCEPT !.status = "REVOKED", !.authority = "REVOKED"]
             \/ grant' = [grant EXCEPT !.status = "EXPIRED", !.authority = "REVOKED"]
    BY <2>5 DEF AccessInv, AccessShaped, Access!GrantMirrored
  <2> QED BY <2>1, <2>2, <2>3, <2>4, <2>5
<1> QED BY <1>1, <1>2 DEF AccessInv, AccessShaped, Access!AccessCurrent, Access!SessionsCurrent, Access!StepUpBacked

LEMMA AccessStep ==
    ASSUME AccessInv, [Access!Next]_(Access!vars)
    PROVE  AccessInv'
<1>1. CASE UNCHANGED Access!vars
  BY <1>1 DEF Access!vars, AccessInv, AccessShaped, Access!AccessCurrent, Access!SessionsCurrent, Access!StepUpBacked, Access!GrantMirrored
<1>2. \A s \in Sessions : {s} \in SUBSET Sessions
  OBVIOUS
<1> QED
  BY <1>1, <1>2, SignInKeeps, SuspensionKeeps, FactorsKeep, RecoveryKeeps, GrantsKeep DEF Access!Next

\* However sign-ins, changes of password, recoveries, second factors, suspensions and grants interleave, a
\* session in force was opened under the present password, one that is stepped up has a second factor in
\* force behind it, and an emergency grant is in force together with the role it gives
\* (IdentityService, SecurityService, _revoke_sessions).
THEOREM AccessAlwaysCurrent == Access!Spec => []Access!AccessCurrent
<1>1. AccessInv => Access!AccessCurrent
  BY DEF AccessInv
<1> QED BY AccessInvInit, AccessStep, <1>1, PTL DEF Access!Spec

-----------------------------------------------------------------------------
\* Purchases across nodes
PurchaseAssumptions ==
    /\ IsFiniteSet(Intents) /\ Capacity \in Nat
    /\ Seller \in Nodes /\ Versions \subseteq Nat /\ Buyer \in [Intents -> Nodes]

\* The copies of the catalogue at every node
CopiesTyped ==
    /\ offers \in [Nodes -> [Versions -> {"ABSENT", "ACTIVE", "REVOKED"}]]
    /\ indexes \in [Nodes -> Seq(SUBSET Versions)]
VersionsFollow ==
    \A n \in Nodes : \A v \in Purchase!Known(n) : v \in Purchase!Known(Seller) /\ \A w \in 1 .. v : w \in Purchase!Known(n)
ListsFollow ==
    \A n \in Nodes :
        /\ Len(indexes[n]) <= Len(indexes[Seller])
        /\ \A j \in 1 .. Len(indexes[n]) : indexes[n][j] = indexes[Seller][j]
CatalogInv == CopiesTyped /\ VersionsFollow /\ ListsFollow

-----------------------------------------------------------------------------
LEMMA CatalogInvInit ==
    ASSUME PurchaseAssumptions, Purchase!CInit
    PROVE  CatalogInv
<1>1. \A n \in Nodes : offers[n] = [v \in Versions |-> "ABSENT"] /\ indexes[n] = <<>> /\ Purchase!Known(n) = {}
  BY DEF Purchase!CInit, Purchase!Known
<1>2. Seller \in Nodes
  BY DEF PurchaseAssumptions
<1>3. CopiesTyped
  BY <1>1 DEF Purchase!CInit, CopiesTyped
<1> QED BY <1>1, <1>2, <1>3 DEF CatalogInv, VersionsFollow, ListsFollow

\* A node that learns a version knows every version before it, and its home knew it first.
LEMMA VersionLearnt ==
    ASSUME PurchaseAssumptions, CatalogInv, NEW n \in Nodes, NEW v \in Versions, Purchase!Follows(n, v),
           n = Seller \/ v \in Purchase!Known(Seller), offers' = [offers EXCEPT ![n][v] = "ACTIVE"], UNCHANGED indexes
    PROVE  CatalogInv'
<1>1. CopiesTyped'
  BY DEF CatalogInv, CopiesTyped
<1>2. \A m \in Nodes : Purchase!Known(m)' = IF m = n THEN Purchase!Known(m) \union {v} ELSE Purchase!Known(m)
  BY DEF CatalogInv, CopiesTyped, Purchase!Known
<1>3. ASSUME NEW w \in 1 .. v
      PROVE  w \in Purchase!Known(n)'
  <2>1. v \in Nat
    BY DEF PurchaseAssumptions
  <2>2. w = v \/ w \in 1 .. (v - 1)
    BY <2>1
  <2> QED BY <1>2, <2>2 DEF Purchase!Follows
<1>4. VersionsFollow'
  <2> SUFFICES ASSUME NEW m \in Nodes, NEW x \in Purchase!Known(m)'
               PROVE  x \in Purchase!Known(Seller)' /\ \A w \in 1 .. x : w \in Purchase!Known(m)'
    BY DEF VersionsFollow
  <2>1. Seller \in Nodes
    BY DEF PurchaseAssumptions
  <2> QED BY <1>2, <1>3, <2>1 DEF CatalogInv, VersionsFollow
<1> QED BY <1>1, <1>4 DEF CatalogInv, ListsFollow

LEMMA CatalogStepKeeps ==
    ASSUME PurchaseAssumptions, CatalogInv, Purchase!CatalogStep
    PROVE  CatalogInv'
<1>0. Seller \in Nodes
  BY DEF PurchaseAssumptions
<1>1. ASSUME NEW v \in Versions, Purchase!PublishOffer(v)
      PROVE  CatalogInv'
  BY <1>0, <1>1, VersionLearnt DEF Purchase!PublishOffer
<1>2. ASSUME NEW n \in Nodes, NEW v \in Versions, Purchase!ImportOffer(n, v)
      PROVE  CatalogInv'
  BY <1>2, VersionLearnt DEF Purchase!ImportOffer
<1>3. ASSUME NEW n \in Nodes, Purchase!RevokeOffer(n)
      PROVE  CatalogInv'
  <2>1. CopiesTyped' /\ UNCHANGED indexes
    BY <1>3 DEF Purchase!RevokeOffer, CatalogInv, CopiesTyped
  <2>2. \A m \in Nodes : Purchase!Known(m)' = Purchase!Known(m)
    BY <1>3 DEF Purchase!RevokeOffer, CatalogInv, CopiesTyped, Purchase!Known
  <2> QED BY <1>0, <2>1, <2>2 DEF CatalogInv, VersionsFollow, ListsFollow
<1>4. ASSUME NEW listed \in SUBSET Purchase!Known(Seller), Purchase!PublishOfferIndex(listed)
      PROVE  CatalogInv'
  <2>1. listed \in SUBSET Versions
    BY DEF Purchase!Known
  <2>2. indexes[Seller] \in Seq(SUBSET Versions)
    BY <1>0 DEF CatalogInv, CopiesTyped
  <2>3. /\ Append(indexes[Seller], listed) \in Seq(SUBSET Versions)
        /\ Len(Append(indexes[Seller], listed)) = Len(indexes[Seller]) + 1
        /\ \A j \in 1 .. Len(indexes[Seller]) : Append(indexes[Seller], listed)[j] = indexes[Seller][j]
    BY <2>1, <2>2
  <2>4. /\ indexes' = [indexes EXCEPT ![Seller] = Append(indexes[Seller], listed)] /\ UNCHANGED offers
    BY <1>4 DEF Purchase!PublishOfferIndex
  <2>5. CopiesTyped'
    BY <2>3, <2>4 DEF CatalogInv, CopiesTyped
  <2>6. ASSUME NEW n \in Nodes
        PROVE  /\ Len(indexes'[n]) <= Len(indexes'[Seller])
               /\ \A j \in 1 .. Len(indexes'[n]) : indexes'[n][j] = indexes'[Seller][j]
    <3>1. indexes'[Seller] = Append(indexes[Seller], listed) /\ (n # Seller => indexes'[n] = indexes[n])
      BY <1>0, <2>4 DEF CatalogInv, CopiesTyped
    <3>2. /\ Len(indexes[n]) \in Nat /\ Len(indexes[Seller]) \in Nat
          /\ Len(indexes[n]) <= Len(indexes[Seller])
          /\ \A j \in 1 .. Len(indexes[n]) : indexes[n][j] = indexes[Seller][j]
      BY <1>0 DEF CatalogInv, CopiesTyped, ListsFollow
    <3> QED BY <2>3, <3>1, <3>2
  <2> QED BY <2>4, <2>5, <2>6 DEF CatalogInv, VersionsFollow, ListsFollow, Purchase!Known
<1>5. ASSUME NEW n \in Nodes, Purchase!ImportOfferIndex(n)
      PROVE  CatalogInv'
  <2> DEFINE next == indexes[Seller][Len(indexes[n]) + 1]
             row == Append(indexes[n], next)
  <2>1. /\ indexes[n] \in Seq(SUBSET Versions) /\ indexes[Seller] \in Seq(SUBSET Versions)
        /\ Len(indexes[n]) \in Nat /\ Len(indexes[Seller]) \in Nat
    BY <1>0 DEF CatalogInv, CopiesTyped
  <2>2. n # Seller /\ Len(indexes[n]) < Len(indexes[Seller]) /\ indexes' = [indexes EXCEPT ![n] = row] /\ UNCHANGED offers
    BY <1>5 DEF Purchase!ImportOfferIndex
  <2>3. next \in SUBSET Versions
    BY <2>1, <2>2
  <2>4. /\ row \in Seq(SUBSET Versions) /\ Len(row) = Len(indexes[n]) + 1
        /\ \A j \in 1 .. Len(indexes[n]) : row[j] = indexes[n][j]
        /\ row[Len(indexes[n]) + 1] = next
    BY <2>1, <2>3
  <2>5. CopiesTyped'
    BY <2>2, <2>4 DEF CatalogInv, CopiesTyped
  <2>6. ASSUME NEW m \in Nodes
        PROVE  /\ Len(indexes'[m]) <= Len(indexes'[Seller])
               /\ \A j \in 1 .. Len(indexes'[m]) : indexes'[m][j] = indexes'[Seller][j]
    <3>1. indexes'[Seller] = indexes[Seller] /\ indexes'[m] = IF m = n THEN row ELSE indexes[m]
      BY <1>0, <2>2 DEF CatalogInv, CopiesTyped
    <3>2. \A k \in Nodes : /\ Len(indexes[k]) <= Len(indexes[Seller])
                           /\ \A j \in 1 .. Len(indexes[k]) : indexes[k][j] = indexes[Seller][j]
      BY DEF CatalogInv, ListsFollow
    <3>3. CASE m = n
      <4> HIDE DEF row
      <4>1. indexes'[m] = row
        BY <3>1, <3>3
      <4>2. \A j \in 1 .. Len(row) : j \in 1 .. Len(indexes[n]) \/ j = Len(indexes[n]) + 1
        BY <2>1, <2>4
      <4> QED BY <2>1, <2>2, <2>4, <3>1, <3>2, <4>1, <4>2
    <3>4. CASE m # n
      BY <3>1, <3>2, <3>4
    <3> QED BY <3>3, <3>4
  <2> QED BY <2>2, <2>5, <2>6 DEF CatalogInv, VersionsFollow, ListsFollow, Purchase!Known
<1>6. CASE UNCHANGED <<offers, indexes>>
  BY <1>0, <1>6 DEF CatalogInv, CopiesTyped, VersionsFollow, ListsFollow, Purchase!Known
<1> QED
  BY <1>1, <1>2, <1>3, <1>4, <1>5, <1>6 DEF Purchase!CatalogStep, Purchase!IssueLogisticsQuote, Purchase!Grant, Purchase!Withdraw

\* What the invariant says of the copies
LEMMA CopiesAgree ==
    ASSUME PurchaseAssumptions, CatalogInv
    PROVE  Purchase!CopiesFollowHome
<1> SUFFICES ASSUME NEW n \in Nodes
             PROVE  indexes[n] = SubSeq(indexes[Seller], 1, Len(indexes[n]))
  BY DEF CatalogInv, VersionsFollow, ListsFollow, Purchase!CopiesFollowHome
<1> DEFINE s == indexes[n]
           t == indexes[Seller]
<1>1. s \in Seq(SUBSET Versions) /\ t \in Seq(SUBSET Versions) /\ Len(s) \in Nat /\ Len(t) \in Nat
  BY DEF PurchaseAssumptions, CatalogInv, CopiesTyped
<1>2. Len(s) <= Len(t) /\ \A j \in 1 .. Len(s) : s[j] = t[j]
  BY DEF CatalogInv, ListsFollow
<1> HIDE DEF s, t
<1>3. \A j \in 1 .. Len(s) : t[j] \in SUBSET Versions
  BY <1>1, <1>2
<1>4. /\ SubSeq(t, 1, Len(s)) \in Seq(SUBSET Versions)
      /\ Len(SubSeq(t, 1, Len(s))) = Len(s)
      /\ \A j \in 1 .. Len(s) : SubSeq(t, 1, Len(s))[j] = t[j]
  <2>1. /\ SubSeq(t, 1, Len(s)) \in Seq(SUBSET Versions)
        /\ Len(SubSeq(t, 1, Len(s))) = IF 1 <= Len(s) THEN Len(s) - 1 + 1 ELSE 0
        /\ \A j \in 1 .. Len(s) - 1 + 1 : SubSeq(t, 1, Len(s))[j] = t[1 + j - 1]
    BY <1>1, <1>3, SubSeqProperties
  <2> QED BY <1>1, <2>1
<1> QED BY <1>1, <1>2, <1>4, SeqEqual DEF s, t

\* A search and a purchase verify the same copies.
LEMMA SearchAgrees == Purchase!FoundIsPurchasable
<1> SUFFICES ASSUME NEW n \in Nodes, NEW hit \in Purchase!Search(n, TRUE), Purchase!Reservable(hit.freshness), hit.quoted
             PROVE  Purchase!Purchasable(n, hit.version)
  BY DEF Purchase!FoundIsPurchasable
<1>1. PICK v \in Purchase!Known(n) :
         hit = [version |-> v, freshness |-> Purchase!Freshness(n, "GOODS", v, TRUE), quoted |-> Purchase!Quoted(n, v)]
  BY DEF Purchase!Search
<1>2. hit.version = v /\ Purchase!Reservable(Purchase!Freshness(n, "GOODS", v, TRUE)) /\ Purchase!Quoted(n, v)
  BY <1>1
<1>3. quotes[n][v] # "ABSENT" /\ Purchase!Reservable(Purchase!Freshness(n, "LOGISTICS", v, FALSE))
  BY <1>2 DEF Purchase!Quoted
<1> QED BY <1>2, <1>3 DEF Purchase!Purchasable

-----------------------------------------------------------------------------
ReceiptStatus == {"ABSENT", "ACTIVE", "COMMITTED", "RELEASED", "EXPIRED"}
Intent == [status : Purchase!IntentStatus, version : Versions \union {1}]
Receipt == [status : ReceiptStatus, commit : BOOLEAN, release : BOOLEAN]
ExposureShaped ==
    /\ exposure = [n \in Nodes |-> [k \in Purchase!Kinds |-> exposure[n][k]]]
    /\ \A n \in Nodes, k \in Purchase!Kinds : {"current", "reserved"} \subseteq DOMAIN exposure[n][k]
PurchaseTyped ==
    /\ intents \in [Intents -> Intent]
    /\ receipts \in [Intents -> [Purchase!Kinds -> Receipt]]
    /\ holds \in [Intents -> [Purchase!Kinds -> ReceiptStatus]]
    /\ ExposureShaped

\* An answer says what the home node did, which it does not undo.
AnswersTrue ==
    \A i \in Intents, k \in Purchase!Kinds :
        /\ intents[i].status = "ABSENT" => receipts[i][k].status = "ABSENT" /\ holds[i][k] = "ABSENT"
        /\ receipts[i][k].commit => holds[i][k] = "COMMITTED"

PurchaseInv == CatalogInv /\ PurchaseTyped /\ AnswersTrue /\ Purchase!OutcomeAgreed /\ Purchase!SoldWithinCapacity /\ Purchase!CurrentExact

\* What the home of a version counts
LocalOf(k, v) == {i \in Purchase!Of(k, v) : Buyer[i] = Purchase!HomeOf(k, v) /\ Purchase!Counts(receipts[i][k].status, i, k)}
PeersOf(k, v) == {i \in Purchase!Of(k, v) : Purchase!Counts(holds[i][k], i, k)}
CommittedBy(n, k) == {i \in Intents : Buyer[i] = n /\ holds[i][k] = "COMMITTED"}

\* A row in its next status, and a receipt told of an answer
At(row, status) == [row EXCEPT !.status = status]
ToldCommit(receipt) == [receipt EXCEPT !.commit = TRUE]
ToldRelease(receipt) == [receipt EXCEPT !.release = TRUE]
LEMMA RowsMove ==
    /\ \A r \in Intent, s \in Purchase!IntentStatus :
          At(r, s) \in Intent /\ At(r, s).status = s /\ At(r, s).version = r.version
    /\ \A r \in Receipt, s \in ReceiptStatus :
          At(r, s) \in Receipt /\ At(r, s).status = s /\ At(r, s).commit = r.commit
    /\ \A r \in Receipt :
          /\ ToldCommit(r) \in Receipt /\ ToldCommit(r).status = r.status
          /\ ToldRelease(r) \in Receipt /\ ToldRelease(r).status = r.status /\ ToldRelease(r).commit = r.commit
BY DEF Intent, Receipt, At, ToldCommit, ToldRelease

LEMMA ReceiptWritten ==
    ASSUME receipts \in [Intents -> [Purchase!Kinds -> Receipt]], NEW i \in Intents, NEW k \in Purchase!Kinds,
           NEW row \in Receipt, receipts' = [receipts EXCEPT ![i][k] = row]
    PROVE  /\ receipts' \in [Intents -> [Purchase!Kinds -> Receipt]]
           /\ \A j \in Intents, q \in Purchase!Kinds :
                 receipts'[j][q] = IF j = i /\ q = k THEN row ELSE receipts[j][q]
OBVIOUS

LEMMA ExposureWritten ==
    ASSUME ExposureShaped, NEW b, NEW q, NEW row, exposure' = [exposure EXCEPT ![b][q] = row],
           {"current", "reserved"} \subseteq DOMAIN row
    PROVE  /\ ExposureShaped'
           /\ \A n \in Nodes, k \in Purchase!Kinds :
                 exposure'[n][k] = IF n = b /\ k = q THEN row ELSE exposure[n][k]
<1>1. \A n \in Nodes, k \in Purchase!Kinds :
         exposure'[n][k] = IF n = b /\ k = q THEN row ELSE exposure[n][k]
  BY DEF ExposureShaped
<1>2. exposure' = [n \in Nodes |-> [k \in Purchase!Kinds |-> exposure'[n][k]]]
  BY DEF ExposureShaped
<1> QED BY <1>1, <1>2 DEF ExposureShaped

\* The library counts the same in an instance.
LEMMA SameCardinality == \A S : Purchase!Cardinality(S) = Cardinality(S)
BY DEF Purchase!Cardinality, Cardinality

LEMMA TakenIs ==
    ASSUME PurchaseAssumptions, NEW k, NEW v
    PROVE  /\ Purchase!TakenLocally(Purchase!HomeOf(k, v), k, v) = Cardinality(LocalOf(k, v))
           /\ Purchase!TakenByPeers(Purchase!HomeOf(k, v), k, v) = Cardinality(PeersOf(k, v))
           /\ IsFiniteSet(LocalOf(k, v)) /\ Cardinality(LocalOf(k, v)) \in Nat
           /\ IsFiniteSet(PeersOf(k, v)) /\ Cardinality(PeersOf(k, v)) \in Nat
<1>1. PeersOf(k, v) = {i \in Purchase!Of(k, v) : Purchase!Home(i, k) = Purchase!HomeOf(k, v) /\ Purchase!Counts(holds[i][k], i, k)}
  BY DEF PeersOf, Purchase!Of, Purchase!Home
<1>2. LocalOf(k, v) \in SUBSET Intents /\ PeersOf(k, v) \in SUBSET Intents
  BY DEF LocalOf, PeersOf, Purchase!Of
<1>3. IsFiniteSet(LocalOf(k, v)) /\ IsFiniteSet(PeersOf(k, v))
  BY <1>2, FS_Subset DEF PurchaseAssumptions
<1> QED BY <1>1, <1>3, FS_CardinalityType, SameCardinality DEF Purchase!TakenLocally, Purchase!TakenByPeers, LocalOf

LEMMA PurchaseInvInit ==
    ASSUME PurchaseAssumptions, Purchase!Init
    PROVE  PurchaseInv
<1>1. PurchaseTyped /\ AnswersTrue /\ Purchase!OutcomeAgreed
  <2>1. PurchaseTyped
    BY DEF Purchase!Init, PurchaseTyped, Intent, Receipt, ExposureShaped, Purchase!NoReceipt, Purchase!IntentStatus, ReceiptStatus
  <2> QED BY <2>1 DEF Purchase!Init, AnswersTrue, Purchase!OutcomeAgreed, Purchase!NoReceipt
<1>2. Purchase!SoldWithinCapacity
  <2> SUFFICES ASSUME NEW k \in Purchase!Kinds, NEW v \in Versions
               PROVE  Purchase!TakenLocally(Purchase!HomeOf(k, v), k, v) + Purchase!TakenByPeers(Purchase!HomeOf(k, v), k, v) <= Capacity
    BY DEF Purchase!SoldWithinCapacity
  <2>1. LocalOf(k, v) = {} /\ PeersOf(k, v) = {}
    BY DEF Purchase!Init, LocalOf, PeersOf, Purchase!Of
  <2> QED BY <2>1, TakenIs, FS_EmptySet DEF PurchaseAssumptions
<1>3. Purchase!CurrentExact
  <2> SUFFICES ASSUME NEW n \in Nodes, NEW k \in Purchase!Kinds
               PROVE  exposure[n][k].current = Cardinality(CommittedBy(n, k))
    BY SameCardinality DEF Purchase!CurrentExact, CommittedBy
  <2>1. CommittedBy(n, k) = {} /\ exposure[n][k].current = 0
    BY DEF Purchase!Init, CommittedBy
  <2> QED BY <2>1, FS_EmptySet
<1> QED BY <1>1, <1>2, <1>3, CatalogInvInit DEF PurchaseInv, Purchase!Init

\* A part is not counted anew: it was counted before, or is another node's to count.
Goes(old, new, i, k) == new \in {"ACTIVE", "COMMITTED"} => new = old \/ (old = "ACTIVE" /\ ~Purchase!Over(i, k))
GoesOn(i, k) == /\ Goes(holds[i][k], holds'[i][k], i, k)
                /\ Purchase!Remote(i, k)' \/ Goes(receipts[i][k].status, receipts'[i][k].status, i, k)

\* Nothing but a new version of what was absent
VersionsStay == /\ over \subseteq over'
                /\ \A i \in Intents : intents[i].status # "ABSENT" =>
                      intents'[i].status # "ABSENT" /\ intents'[i].version = intents[i].version

LEMMA CountGoesOn ==
    ASSUME PurchaseInv, VersionsStay, NEW i \in Intents, NEW k \in Purchase!Kinds, NEW v
    PROVE  /\ Goes(holds[i][k], holds'[i][k], i, k) /\ i \in PeersOf(k, v)' => i \in PeersOf(k, v)
           /\ Goes(receipts[i][k].status, receipts'[i][k].status, i, k) /\ i \in LocalOf(k, v)' => i \in LocalOf(k, v)
           /\ i \in LocalOf(k, v)' => ~Purchase!Remote(i, k)'
<1>1. Purchase!Over(i, k) => Purchase!Over(i, k)'
  BY DEF VersionsStay, Purchase!Over
<1>2. /\ Goes(holds[i][k], holds'[i][k], i, k) /\ Purchase!Counts(holds[i][k], i, k)' => Purchase!Counts(holds[i][k], i, k)
      /\ Goes(receipts[i][k].status, receipts'[i][k].status, i, k) /\ Purchase!Counts(receipts[i][k].status, i, k)'
            => Purchase!Counts(receipts[i][k].status, i, k)
  BY <1>1 DEF Purchase!Counts, Goes
<1>3. Purchase!Counts(holds[i][k], i, k) \/ Purchase!Counts(receipts[i][k].status, i, k) => intents[i].status # "ABSENT"
  BY DEF PurchaseInv, AnswersTrue, Purchase!Counts
<1>4. intents[i].status # "ABSENT" /\ i \in Purchase!Of(k, v)' => i \in Purchase!Of(k, v)
  BY DEF Purchase!Of, VersionsStay
<1>5. i \in LocalOf(k, v)' => ~Purchase!Remote(i, k)'
  BY DEF LocalOf, Purchase!Of, Purchase!Remote, Purchase!Home
<1> QED BY <1>2, <1>3, <1>4, <1>5 DEF LocalOf, PeersOf

\* What is counted after the step
LEMMA TakenNext ==
    ASSUME PurchaseAssumptions, NEW k, NEW v
    PROVE  /\ Purchase!TakenLocally(Purchase!HomeOf(k, v), k, v)' = Cardinality(LocalOf(k, v)')
           /\ Purchase!TakenByPeers(Purchase!HomeOf(k, v), k, v)' = Cardinality(PeersOf(k, v)')
           /\ Cardinality(LocalOf(k, v)') \in Nat /\ Cardinality(PeersOf(k, v)') \in Nat
           /\ LocalOf(k, v)' \subseteq Intents /\ PeersOf(k, v)' \subseteq Intents
<1>1. /\ PeersOf(k, v)' = {i \in Purchase!Of(k, v)' : Purchase!Home(i, k)' = Purchase!HomeOf(k, v) /\ Purchase!Counts(holds[i][k], i, k)'}
      /\ LocalOf(k, v)' = {i \in Purchase!Of(k, v)' : Buyer[i] = Purchase!HomeOf(k, v) /\ Purchase!Counts(receipts[i][k].status, i, k)'}
  BY DEF PeersOf, LocalOf, Purchase!Of, Purchase!Home, Purchase!HomeOf
<1>2. LocalOf(k, v)' \in SUBSET Intents /\ PeersOf(k, v)' \in SUBSET Intents
  BY DEF LocalOf, PeersOf, Purchase!Of
<1>3. IsFiniteSet(LocalOf(k, v)') /\ IsFiniteSet(PeersOf(k, v)')
  BY <1>2, FS_Subset DEF PurchaseAssumptions
<1> QED BY <1>1, <1>2, <1>3, FS_CardinalityType, SameCardinality DEF Purchase!TakenLocally, Purchase!TakenByPeers, Purchase!HomeOf

\* A step that counts nothing anew for a version sells nothing more of it.
LEMMA SoldStaysFor ==
    ASSUME PurchaseAssumptions, PurchaseInv, VersionsStay, NEW k \in Purchase!Kinds, NEW v \in Versions,
           \A i \in Purchase!Of(k, v)' : GoesOn(i, k)
    PROVE  Purchase!TakenLocally(Purchase!HomeOf(k, v), k, v)' + Purchase!TakenByPeers(Purchase!HomeOf(k, v), k, v)' <= Capacity
<1>1. LocalOf(k, v)' \subseteq LocalOf(k, v) /\ PeersOf(k, v)' \subseteq PeersOf(k, v)
  BY TakenNext, CountGoesOn DEF GoesOn, LocalOf, PeersOf
<1>2. Cardinality(LocalOf(k, v)') <= Cardinality(LocalOf(k, v)) /\ Cardinality(PeersOf(k, v)') <= Cardinality(PeersOf(k, v))
  BY <1>1, TakenIs, FS_Subset
<1>3. Cardinality(LocalOf(k, v)) + Cardinality(PeersOf(k, v)) <= Capacity
  BY TakenIs DEF PurchaseInv, Purchase!SoldWithinCapacity
<1> QED BY <1>2, <1>3, TakenIs, TakenNext DEF PurchaseAssumptions

LEMMA SoldStays ==
    ASSUME PurchaseAssumptions, PurchaseInv, VersionsStay, \A i \in Intents, k \in Purchase!Kinds : GoesOn(i, k)
    PROVE  Purchase!SoldWithinCapacity'
<1> SUFFICES ASSUME NEW k \in Purchase!Kinds, NEW v \in Versions
             PROVE  Purchase!TakenLocally(Purchase!HomeOf(k, v), k, v)' + Purchase!TakenByPeers(Purchase!HomeOf(k, v), k, v)' <= Capacity
  BY DEF Purchase!SoldWithinCapacity
<1>1. Purchase!Of(k, v)' \subseteq Intents
  BY DEF Purchase!Of
<1> QED BY <1>1, SoldStaysFor

\* The one part that a step takes was checked to fit beside all that its home counts.
LEMMA SoldTakes ==
    ASSUME PurchaseAssumptions, PurchaseInv, VersionsStay, NEW j \in Intents, NEW q \in Purchase!Kinds,
           intents[j].status # "ABSENT", Purchase!Fits(Purchase!Home(j, q), q, intents[j].version),
           \A i \in Intents, k \in Purchase!Kinds : i # j \/ k # q => GoesOn(i, k),
           \/ Goes(holds[j][q], holds'[j][q], j, q)
           \/ Purchase!Remote(j, q)' \/ Goes(receipts[j][q].status, receipts'[j][q].status, j, q)
    PROVE  Purchase!SoldWithinCapacity'
<1> SUFFICES ASSUME NEW k \in Purchase!Kinds, NEW v \in Versions
             PROVE  Purchase!TakenLocally(Purchase!HomeOf(k, v), k, v)' + Purchase!TakenByPeers(Purchase!HomeOf(k, v), k, v)' <= Capacity
  BY DEF Purchase!SoldWithinCapacity
<1> DEFINE L == LocalOf(k, v)
           P == PeersOf(k, v)
<1>1. intents'[j].version = intents[j].version
  BY DEF VersionsStay
<1>2. CASE k # q \/ intents[j].version # v
  <2>1. \A i \in Purchase!Of(k, v)' : i \in Intents /\ (i # j \/ k # q)
    BY <1>1, <1>2 DEF Purchase!Of
  <2> QED BY <2>1, SoldStaysFor
<1>3. CASE k = q /\ intents[j].version = v
  <2>1. \A i \in Intents \ {j} : (i \in L' => i \in L) /\ (i \in P' => i \in P)
    BY <1>3, CountGoesOn DEF GoesOn
  <2>2. (j \in P' => j \in P) \/ (j \in L' => j \in L)
    BY <1>3, CountGoesOn
  <2>3. L' \subseteq L \union {j} /\ P' \subseteq P \union {j} /\ (L' \subseteq L \/ P' \subseteq P)
    BY <2>1, <2>2, TakenNext
  <2>4. Cardinality(L) + Cardinality(P) + 1 <= Capacity
    BY <1>3, TakenIs DEF Purchase!Fits, Purchase!Home
  <2>5. ASSUME NEW S, NEW T, IsFiniteSet(S), T \subseteq S \union {j}
        PROVE  Cardinality(T) <= Cardinality(S) + 1
    <3>1. /\ IsFiniteSet(S \union {j}) /\ Cardinality(S) \in Nat
          /\ Cardinality(S \union {j}) = IF j \in S THEN Cardinality(S) ELSE Cardinality(S) + 1
      BY <2>5, FS_AddElement, FS_CardinalityType
    <3>2. Cardinality(T) <= Cardinality(S \union {j}) /\ Cardinality(T) \in Nat
      BY <2>5, <3>1, FS_Subset, FS_CardinalityType
    <3> QED BY <3>1, <3>2
  <2>6. /\ Cardinality(L') <= Cardinality(L) + 1 /\ Cardinality(P') <= Cardinality(P) + 1
        /\ Cardinality(L') <= Cardinality(L) \/ Cardinality(P') <= Cardinality(P)
    <3>1. Cardinality(L') <= Cardinality(L) + 1 /\ Cardinality(P') <= Cardinality(P) + 1
      BY <2>3, <2>5, TakenIs
    <3> QED BY <2>3, <3>1, TakenIs, FS_Subset
  <2> QED BY <2>4, <2>6, TakenIs, TakenNext DEF PurchaseAssumptions
<1> QED BY <1>2, <1>3

-----------------------------------------------------------------------------
\* What a peer owes is counted by who has a committed hold.
LEMMA CurrentStays ==
    ASSUME PurchaseInv, \A n \in Nodes, k \in Purchase!Kinds : exposure'[n][k].current = exposure[n][k].current,
           \A i \in Intents, k \in Purchase!Kinds : holds'[i][k] = "COMMITTED" <=> holds[i][k] = "COMMITTED"
    PROVE  Purchase!CurrentExact'
<1> SUFFICES ASSUME NEW n \in Nodes, NEW k \in Purchase!Kinds
             PROVE  exposure'[n][k].current = Cardinality(CommittedBy(n, k)')
  BY SameCardinality DEF Purchase!CurrentExact, CommittedBy
<1>1. CommittedBy(n, k)' = CommittedBy(n, k)
  BY DEF CommittedBy
<1>2. exposure[n][k].current = Cardinality(CommittedBy(n, k))
  BY SameCardinality DEF PurchaseInv, Purchase!CurrentExact, CommittedBy
<1> QED BY <1>1, <1>2

LEMMA CurrentGrows ==
    ASSUME PurchaseAssumptions, PurchaseInv, NEW j \in Intents, NEW q \in Purchase!Kinds, Purchase!CommitForPeer(j, q)
    PROVE  Purchase!CurrentExact'
<1> SUFFICES ASSUME NEW n \in Nodes, NEW k \in Purchase!Kinds
             PROVE  exposure'[n][k].current = Cardinality(CommittedBy(n, k)')
  BY SameCardinality DEF Purchase!CurrentExact, CommittedBy
<1>1. /\ exposure[n][k].current = Cardinality(CommittedBy(n, k))
      /\ IsFiniteSet(CommittedBy(n, k)) /\ Cardinality(CommittedBy(n, k)) \in Nat
  <2>1. CommittedBy(n, k) \in SUBSET Intents
    BY DEF CommittedBy
  <2> QED BY <2>1, FS_Subset, FS_CardinalityType, SameCardinality DEF PurchaseInv, Purchase!CurrentExact, CommittedBy, PurchaseAssumptions
<1>2. /\ holds' = [holds EXCEPT ![j][q] = "COMMITTED"] /\ holds[j][q] = "ACTIVE"
      /\ exposure' = [exposure EXCEPT ![Buyer[j]][q] = [current |-> @.current + 1, reserved |-> @.reserved - 1]]
  BY DEF Purchase!CommitForPeer
<1>3. \A i \in Intents : holds'[i][k] = IF i = j /\ k = q THEN "COMMITTED" ELSE holds[i][k]
  BY <1>2 DEF PurchaseInv, PurchaseTyped
<1>4. exposure'[n][k].current = IF n = Buyer[j] /\ k = q THEN exposure[n][k].current + 1 ELSE exposure[n][k].current
  BY <1>2 DEF PurchaseInv, PurchaseTyped, ExposureShaped
<1>5. CASE n = Buyer[j] /\ k = q
  <2>1. CommittedBy(n, k)' = CommittedBy(n, k) \union {j} /\ j \notin CommittedBy(n, k)
    BY <1>2, <1>3, <1>5 DEF CommittedBy
  <2>2. Cardinality(CommittedBy(n, k) \union {j}) = Cardinality(CommittedBy(n, k)) + 1
    BY <1>1, <2>1, FS_AddElement
  <2>3. Cardinality(CommittedBy(n, k)') = Cardinality(CommittedBy(n, k) \union {j})
    BY <2>1
  <2> QED BY <1>1, <1>4, <1>5, <2>2, <2>3
<1>6. CASE ~(n = Buyer[j] /\ k = q)
  <2>1. CommittedBy(n, k)' = CommittedBy(n, k)
    BY <1>3, <1>6 DEF CommittedBy
  <2> QED BY <1>1, <1>4, <1>6, <2>1
<1> QED BY <1>5, <1>6

-----------------------------------------------------------------------------
\* Each action: what it writes at (i, k), that it sells nothing anew or what fits, and the rest.
LEMMA CatalogStays ==
    ASSUME CatalogInv, UNCHANGED <<offers, indexes>>
    PROVE  CatalogInv'
BY DEF CatalogInv, CopiesTyped, VersionsFollow, ListsFollow, Purchase!Known

\* A part with the same answer and hold goes on
LEMMA SameGoesOn ==
    ASSUME NEW i \in Intents, NEW k \in Purchase!Kinds, holds'[i][k] = holds[i][k],
           receipts'[i][k].status = receipts[i][k].status
    PROVE  GoesOn(i, k)
BY DEF GoesOn, Goes

LEMMA PurchaseUnchanged ==
    ASSUME PurchaseAssumptions, PurchaseInv, UNCHANGED <<intents, receipts, holds, exposure>>,
           over \subseteq over'
    PROVE  PurchaseTyped' /\ AnswersTrue' /\ Purchase!OutcomeAgreed' /\ Purchase!SoldWithinCapacity' /\ Purchase!CurrentExact'
<1>1. PurchaseTyped' /\ AnswersTrue' /\ Purchase!OutcomeAgreed'
  BY DEF PurchaseInv, PurchaseTyped, ExposureShaped, AnswersTrue, Purchase!OutcomeAgreed, Purchase!Remote, Purchase!Home
<1>2. VersionsStay /\ \A i \in Intents, k \in Purchase!Kinds : GoesOn(i, k)
  BY SameGoesOn DEF VersionsStay
<1>3. Purchase!CurrentExact'
  BY DEF PurchaseInv, Purchase!CurrentExact
<1> QED BY <1>1, <1>2, <1>3, SoldStays

\* One intent moves on, and nothing else changes
LEMMA MovedKeeps ==
    ASSUME PurchaseAssumptions, PurchaseInv, NEW i \in Intents,
           \/ Purchase!CreatePurchaseIntent(i, intents'[i].version) /\ intents'[i].version \in Versions
           \/ Purchase!BeginCommit(i) \/ Purchase!BeginCancel(i)
    PROVE  PurchaseInv'
<1> DEFINE row == intents'[i]
<1>1. UNCHANGED <<receipts, holds, exposure, over, offers, indexes>>
  BY DEF Purchase!CreatePurchaseIntent, Purchase!BeginCommit, Purchase!BeginCancel, Purchase!cvars
<1>2. /\ \A j \in Intents \ {i} : intents'[j] = intents[j]
      /\ row.status \in {"PREPARING", "COMMITTING", "CANCELLING"}
      /\ intents[i].status = "ABSENT" \/ row.version = intents[i].version
      /\ intents[i].status \notin {"COMMITTING", "COMMITTED"}
  <2>1. CASE Purchase!CreatePurchaseIntent(i, row.version)
    BY <2>1 DEF Purchase!CreatePurchaseIntent, PurchaseInv, PurchaseTyped
  <2>2. ASSUME NEW s \in {"COMMITTING", "CANCELLING"}, intents' = [intents EXCEPT ![i] = At(intents[i], s)],
               intents[i].status \notin {"COMMITTING", "COMMITTED"}
        PROVE  /\ \A j \in Intents \ {i} : intents'[j] = intents[j]
               /\ row.status \in {"PREPARING", "COMMITTING", "CANCELLING"}
               /\ intents[i].status = "ABSENT" \/ row.version = intents[i].version
               /\ intents[i].status \notin {"COMMITTING", "COMMITTED"}
    BY <2>2, RowsMove DEF PurchaseInv, PurchaseTyped, Purchase!IntentStatus
  <2> QED BY <2>1, <2>2 DEF Purchase!BeginCommit, Purchase!BeginCancel, Purchase!Moved, At
<1>3. PurchaseTyped'
  <2>1. CASE Purchase!CreatePurchaseIntent(i, row.version) /\ row.version \in Versions
    <3>1. [status |-> "PREPARING", version |-> row.version] \in Intent
      BY <2>1 DEF Intent, Purchase!IntentStatus
    <3>2. intents' = [intents EXCEPT ![i] = [status |-> "PREPARING", version |-> row.version]]
      BY <2>1 DEF Purchase!CreatePurchaseIntent
    <3>3. intents' \in [Intents -> Intent]
      BY <3>1, <3>2 DEF PurchaseInv, PurchaseTyped
    <3> QED BY <1>1, <3>3 DEF PurchaseInv, PurchaseTyped, ExposureShaped
  <2>2. CASE Purchase!BeginCommit(i) \/ Purchase!BeginCancel(i)
    <3>2. PICK s \in {"COMMITTING", "CANCELLING"} : intents' = [intents EXCEPT ![i] = At(intents[i], s)]
      BY <2>2 DEF Purchase!BeginCommit, Purchase!BeginCancel, Purchase!Moved, At
    <3>1. intents' \in [Intents -> Intent]
      BY <3>2, RowsMove DEF PurchaseInv, PurchaseTyped, Purchase!IntentStatus
    <3> QED BY <1>1, <3>1 DEF PurchaseInv, PurchaseTyped, ExposureShaped
  <2> QED BY <2>1, <2>2
<1>4. AnswersTrue'
  BY <1>1, <1>2 DEF PurchaseInv, AnswersTrue
<1>5. Purchase!OutcomeAgreed'
  BY <1>1, <1>2 DEF PurchaseInv, Purchase!OutcomeAgreed, Purchase!Remote, Purchase!Home
<1>6. Purchase!SoldWithinCapacity'
  BY <1>1, <1>2, SameGoesOn, SoldStays DEF VersionsStay
<1>7. Purchase!CurrentExact'
  BY <1>1 DEF PurchaseInv, Purchase!CurrentExact
<1> QED BY <1>1, <1>3, <1>4, <1>5, <1>6, <1>7, CatalogStays DEF PurchaseInv

LEMMA HoldForPeerKeeps ==
    ASSUME PurchaseAssumptions, PurchaseInv, NEW i \in Intents, NEW k \in Purchase!Kinds, Purchase!HoldForPeer(i, k)
    PROVE  PurchaseInv'
<1>1. /\ holds' = [holds EXCEPT ![i][k] = "ACTIVE"] /\ holds[i][k] = "ABSENT"
      /\ exposure' = [exposure EXCEPT ![Buyer[i]][k].reserved = @ + 1]
      /\ Purchase!Remote(i, k) /\ Purchase!Fits(Purchase!Home(i, k), k, intents[i].version)
      /\ intents[i].status \in {"PREPARING", "GOODS_RESERVED"}
      /\ UNCHANGED <<intents, receipts, over, offers, indexes>>
  BY DEF Purchase!HoldForPeer, Purchase!NeverHeld, Purchase!Reserving, Purchase!Before, Purchase!cvars
<1>2. \A j \in Intents, q \in Purchase!Kinds :
         holds'[j][q] = IF j = i /\ q = k THEN "ACTIVE" ELSE holds[j][q]
  BY <1>1 DEF PurchaseInv, PurchaseTyped
<1>3. /\ \A n \in Nodes, q \in Purchase!Kinds : exposure'[n][q].current = exposure[n][q].current
      /\ ExposureShaped'
  <2> DEFINE row == [exposure[Buyer[i]][k] EXCEPT !.reserved = @ + 1]
  <2>1. Buyer[i] \in Nodes /\ ExposureShaped /\ {"current", "reserved"} \subseteq DOMAIN exposure[Buyer[i]][k]
    BY DEF PurchaseAssumptions, PurchaseInv, PurchaseTyped, ExposureShaped
  <2>2. {"current", "reserved"} \subseteq DOMAIN row /\ row.current = exposure[Buyer[i]][k].current
    BY <2>1
  <2>3. exposure' = [exposure EXCEPT ![Buyer[i]][k] = row]
    BY <1>1
  <2> HIDE DEF row
  <2>4. /\ ExposureShaped'
        /\ \A n \in Nodes, q \in Purchase!Kinds :
              exposure'[n][q] = IF n = Buyer[i] /\ q = k THEN row ELSE exposure[n][q]
    <3>1. ExposureShaped /\ {"current", "reserved"} \subseteq DOMAIN row
      BY <2>1, <2>2
    <3>2. ExposureShaped'
      BY <3>1, <2>3, ExposureWritten
    <3>3. \A n \in Nodes, q \in Purchase!Kinds :
             exposure'[n][q] = IF n = Buyer[i] /\ q = k THEN row ELSE exposure[n][q]
      BY <2>1, <2>3 DEF ExposureShaped
    <3> QED BY <3>2, <3>3
  <2> QED BY <2>2, <2>4
<1>7. PurchaseTyped'
  BY <1>1, <1>3 DEF PurchaseInv, PurchaseTyped, ReceiptStatus
<1>4. AnswersTrue' /\ Purchase!OutcomeAgreed'
  BY <1>1, <1>2 DEF PurchaseInv, AnswersTrue, Purchase!OutcomeAgreed, Purchase!Remote, Purchase!Home
<1>5. Purchase!CurrentExact'
  BY <1>1, <1>2, <1>3, CurrentStays
<1>6. Purchase!SoldWithinCapacity'
  <2>1. VersionsStay /\ Purchase!Remote(i, k)'
    BY <1>1 DEF VersionsStay, Purchase!Remote, Purchase!Home
  <2>2. \A j \in Intents, q \in Purchase!Kinds : j # i \/ q # k => GoesOn(j, q)
    BY <1>1, <1>2, SameGoesOn
  <2> QED BY <1>1, <2>1, <2>2, SoldTakes
<1> QED BY <1>1, <1>7, <1>4, <1>5, <1>6, CatalogStays DEF PurchaseInv

LEMMA ReserveKeeps ==
    ASSUME PurchaseAssumptions, PurchaseInv, NEW i \in Intents, NEW k \in Purchase!Kinds, Purchase!Reserve(i, k)
    PROVE  PurchaseInv'
<1>1. /\ receipts' = [receipts EXCEPT ![i][k] = At(Purchase!NoReceipt, "ACTIVE")]
      /\ intents' = [intents EXCEPT ![i] = At(intents[i], Purchase!After(k))]
      /\ Purchase!Fits(Buyer[i], k, intents[i].version)
      /\ intents[i].status \in {"PREPARING", "GOODS_RESERVED"} /\ Purchase!After(k) \in {"GOODS_RESERVED", "PREPARED"}
      /\ UNCHANGED <<holds, exposure, over, offers, indexes>>
  BY DEF Purchase!Reserve, Purchase!Moved, At, Purchase!Reserving, Purchase!Before, Purchase!After, Purchase!cvars
<1>7. /\ At(Purchase!NoReceipt, "ACTIVE") \in Receipt
      /\ At(Purchase!NoReceipt, "ACTIVE").status = "ACTIVE" /\ ~At(Purchase!NoReceipt, "ACTIVE").commit
  <2>1. Purchase!NoReceipt \in Receipt /\ ~Purchase!NoReceipt.commit /\ "ACTIVE" \in ReceiptStatus
    BY DEF Purchase!NoReceipt, Receipt, ReceiptStatus
  <2> QED BY <2>1, RowsMove
<1>2. /\ \A j \in Intents : /\ intents'[j].version = intents[j].version
                            /\ intents'[j].status = IF j = i THEN Purchase!After(k) ELSE intents[j].status
      /\ \A j \in Intents, q \in Purchase!Kinds :
            IF j = i /\ q = k THEN receipts'[j][q].status = "ACTIVE" /\ ~receipts'[j][q].commit
            ELSE receipts'[j][q] = receipts[j][q]
  <2>1. \A j \in Intents : intents'[j] = IF j = i THEN At(intents[j], Purchase!After(k)) ELSE intents[j]
    BY <1>1 DEF PurchaseInv, PurchaseTyped
  <2>2. Purchase!After(k) \in Purchase!IntentStatus
    BY <1>1 DEF Purchase!IntentStatus
  <2>3. \A j \in Intents, q \in Purchase!Kinds :
            receipts'[j][q] = IF j = i /\ q = k THEN At(Purchase!NoReceipt, "ACTIVE") ELSE receipts[j][q]
    BY <1>1, <1>7, ReceiptWritten DEF PurchaseInv, PurchaseTyped
  <2>4. \A j \in Intents : intents[j] \in Intent
    BY DEF PurchaseInv, PurchaseTyped
  <2>5. \A j \in Intents : /\ intents'[j].version = intents[j].version
                           /\ intents'[j].status = IF j = i THEN Purchase!After(k) ELSE intents[j].status
    BY <2>1, <2>2, <2>4, RowsMove
  <2> QED BY <1>7, <2>3, <2>5
<1>3. PurchaseTyped'
  <2>2. receipts' \in [Intents -> [Purchase!Kinds -> Receipt]]
    BY <1>1, <1>7 DEF PurchaseInv, PurchaseTyped
  <2>3. intents' \in [Intents -> Intent]
    BY <1>1, RowsMove DEF PurchaseInv, PurchaseTyped, Purchase!IntentStatus
  <2> QED BY <1>1, <2>2, <2>3 DEF PurchaseInv, PurchaseTyped, ExposureShaped
<1>4. AnswersTrue' /\ Purchase!OutcomeAgreed'
  <2>1. AnswersTrue'
    BY <1>1, <1>2 DEF PurchaseInv, AnswersTrue
  <2>2. Purchase!OutcomeAgreed'
    BY <1>1, <1>2 DEF PurchaseInv, Purchase!OutcomeAgreed, Purchase!Remote, Purchase!Home
  <2> QED BY <2>1, <2>2
<1>5. Purchase!CurrentExact'
  BY <1>1 DEF PurchaseInv, Purchase!CurrentExact
<1>6. Purchase!SoldWithinCapacity'
  <2>1. VersionsStay
    BY <1>1, <1>2 DEF VersionsStay
  <2>2. \A j \in Intents, q \in Purchase!Kinds : j # i \/ q # k => GoesOn(j, q)
    BY <1>1, <1>2, SameGoesOn
  <2>3. CASE Purchase!Remote(i, k)
    <3>1. GoesOn(i, k)
      BY <1>1, <1>2, <2>3 DEF GoesOn, Goes, Purchase!Remote, Purchase!Home
    <3> QED BY <2>1, <2>2, <3>1, SoldStays
  <2>4. CASE ~Purchase!Remote(i, k)
    <3>1. Purchase!Fits(Purchase!Home(i, k), k, intents[i].version) /\ Goes(holds[i][k], holds'[i][k], i, k)
      BY <1>1, <2>4 DEF Goes, Purchase!Remote
    <3> QED BY <1>1, <2>1, <2>2, <3>1, SoldTakes
  <2> QED BY <2>3, <2>4
<1> QED BY <1>1, <1>3, <1>4, <1>5, <1>6, CatalogStays DEF PurchaseInv

LEMMA CommitForPeerKeeps ==
    ASSUME PurchaseAssumptions, PurchaseInv, NEW i \in Intents, NEW k \in Purchase!Kinds, Purchase!CommitForPeer(i, k)
    PROVE  PurchaseInv'
<1>1. /\ holds' = [holds EXCEPT ![i][k] = "COMMITTED"] /\ holds[i][k] = "ACTIVE" /\ ~Purchase!Over(i, k)
      /\ exposure' = [exposure EXCEPT ![Buyer[i]][k] = [current |-> @.current + 1, reserved |-> @.reserved - 1]]
      /\ intents[i].status = "COMMITTING"
      /\ UNCHANGED <<intents, receipts, over, offers, indexes>>
  BY DEF Purchase!CommitForPeer, Purchase!cvars
<1>2. \A j \in Intents, q \in Purchase!Kinds :
         holds'[j][q] = IF j = i /\ q = k THEN "COMMITTED" ELSE holds[j][q]
  BY <1>1 DEF PurchaseInv, PurchaseTyped
<1>3. PurchaseTyped'
  <2> DEFINE row == [current |-> exposure[Buyer[i]][k].current + 1, reserved |-> exposure[Buyer[i]][k].reserved - 1]
  <2>2. {"current", "reserved"} \subseteq DOMAIN row /\ exposure' = [exposure EXCEPT ![Buyer[i]][k] = row]
    BY <1>1
  <2> HIDE DEF row
  <2>1. ExposureShaped'
    BY <2>2, ExposureWritten DEF PurchaseInv, PurchaseTyped
  <2> QED BY <1>1, <2>1 DEF PurchaseInv, PurchaseTyped, ReceiptStatus
<1>4. AnswersTrue' /\ Purchase!OutcomeAgreed'
  BY <1>1, <1>2 DEF PurchaseInv, AnswersTrue, Purchase!OutcomeAgreed, Purchase!Remote, Purchase!Home
<1>5. Purchase!SoldWithinCapacity'
  <2>1. VersionsStay
    BY <1>1 DEF VersionsStay
  <2>2. GoesOn(i, k)
    BY <1>1 DEF GoesOn, Goes
  <2>3. \A j \in Intents, q \in Purchase!Kinds : GoesOn(j, q)
    BY <1>1, <1>2, <2>2, SameGoesOn
  <2> QED BY <2>1, <2>3, SoldStays
<1> QED BY <1>1, <1>3, <1>4, <1>5, CurrentGrows, CatalogStays DEF PurchaseInv

LEMMA AnswerRecorded ==
    ASSUME PurchaseAssumptions, PurchaseInv, NEW i \in Intents, NEW k \in Purchase!Kinds,
           Purchase!RecordRemoteCommit(i, k) \/ Purchase!RecordRemoteRelease(i, k)
    PROVE  PurchaseInv'
<1>1. /\ \/ receipts' = [receipts EXCEPT ![i][k] = ToldCommit(receipts[i][k])] /\ holds[i][k] = "COMMITTED"
         \/ receipts' = [receipts EXCEPT ![i][k] = ToldRelease(receipts[i][k])]
      /\ UNCHANGED <<intents, holds, exposure, over, offers, indexes>>
      /\ intents[i].status # "ABSENT"
  BY DEF Purchase!RecordRemoteCommit, Purchase!RecordRemoteRelease, ToldCommit, ToldRelease, Purchase!cvars
<1>2. \A j \in Intents, q \in Purchase!Kinds :
         /\ receipts'[j][q].status = receipts[j][q].status
         /\ receipts'[j][q].commit => receipts[j][q].commit \/ (j = i /\ q = k /\ holds[i][k] = "COMMITTED")
  <2>1. CASE receipts' = [receipts EXCEPT ![i][k] = ToldCommit(receipts[i][k])] /\ holds[i][k] = "COMMITTED"
    <3>1. /\ ToldCommit(receipts[i][k]) \in Receipt /\ ToldCommit(receipts[i][k]).status = receipts[i][k].status
          
      BY RowsMove DEF PurchaseInv, PurchaseTyped
    <3>2. \A j \in Intents, q \in Purchase!Kinds :
             receipts'[j][q] = IF j = i /\ q = k THEN ToldCommit(receipts[i][k]) ELSE receipts[j][q]
      BY <2>1, <3>1, ReceiptWritten DEF PurchaseInv, PurchaseTyped
    <3> QED BY <2>1, <3>1, <3>2
  <2>2. CASE receipts' = [receipts EXCEPT ![i][k] = ToldRelease(receipts[i][k])]
    <3>1. /\ ToldRelease(receipts[i][k]) \in Receipt /\ ToldRelease(receipts[i][k]).status = receipts[i][k].status
          /\ ToldRelease(receipts[i][k]).commit = receipts[i][k].commit
      BY RowsMove DEF PurchaseInv, PurchaseTyped
    <3>2. \A j \in Intents, q \in Purchase!Kinds :
             receipts'[j][q] = IF j = i /\ q = k THEN ToldRelease(receipts[i][k]) ELSE receipts[j][q]
      BY <2>2, <3>1, ReceiptWritten DEF PurchaseInv, PurchaseTyped
    <3> QED BY <2>2, <3>1, <3>2
  <2> QED BY <1>1, <2>1, <2>2
<1>3. PurchaseTyped'
  <2>1. CASE receipts' = [receipts EXCEPT ![i][k] = ToldCommit(receipts[i][k])]
    <3>1. receipts' \in [Intents -> [Purchase!Kinds -> Receipt]]
      BY <2>1, RowsMove DEF PurchaseInv, PurchaseTyped
    <3> QED BY <1>1, <3>1 DEF PurchaseInv, PurchaseTyped, ExposureShaped
  <2>2. CASE receipts' = [receipts EXCEPT ![i][k] = ToldRelease(receipts[i][k])]
    <3>1. receipts' \in [Intents -> [Purchase!Kinds -> Receipt]]
      BY <2>2, RowsMove DEF PurchaseInv, PurchaseTyped
    <3> QED BY <1>1, <3>1 DEF PurchaseInv, PurchaseTyped, ExposureShaped
  <2> QED BY <1>1, <2>1, <2>2
<1>4. AnswersTrue' /\ Purchase!OutcomeAgreed'
  BY <1>1, <1>2 DEF PurchaseInv, AnswersTrue, Purchase!OutcomeAgreed, Purchase!Remote, Purchase!Home
<1>5. Purchase!SoldWithinCapacity'
  BY <1>1, <1>2, SameGoesOn, SoldStays DEF VersionsStay
<1>6. Purchase!CurrentExact'
  BY <1>1 DEF PurchaseInv, Purchase!CurrentExact
<1> QED BY <1>1, <1>3, <1>4, <1>5, <1>6, CatalogStays DEF PurchaseInv

LEMMA CommitKeeps ==
    ASSUME PurchaseAssumptions, PurchaseInv, NEW i \in Intents, Purchase!Commit(i)
    PROVE  PurchaseInv'
<1>1. /\ receipts' = [receipts EXCEPT ![i] = [k \in Purchase!Kinds |-> At(receipts[i][k], "COMMITTED")]]
      /\ intents' = [intents EXCEPT ![i] = At(intents[i], "COMMITTED")] /\ intents[i].status = "COMMITTING"
      /\ UNCHANGED <<holds, exposure, over, offers, indexes>>
      /\ \A k \in Purchase!Kinds : receipts[i][k].status = "ACTIVE" /\ (IF Purchase!Remote(i, k) THEN receipts[i][k].commit ELSE ~Purchase!Over(i, k))
  BY DEF Purchase!Commit, Purchase!Moved, At, Purchase!Active, Purchase!Answered, Purchase!cvars
<1>2. /\ \A j \in Intents : /\ intents'[j].version = intents[j].version
                            /\ intents'[j].status = IF j = i THEN "COMMITTED" ELSE intents[j].status
      /\ \A j \in Intents, q \in Purchase!Kinds :
            /\ receipts'[j][q].status = IF j = i THEN "COMMITTED" ELSE receipts[j][q].status
            /\ receipts'[j][q].commit = receipts[j][q].commit
  <2>1. \A j \in Intents : intents'[j] = IF j = i THEN At(intents[j], "COMMITTED") ELSE intents[j]
    BY <1>1 DEF PurchaseInv, PurchaseTyped
  <2>2. \A j \in Intents, q \in Purchase!Kinds :
           receipts'[j][q] = IF j = i THEN At(receipts[j][q], "COMMITTED") ELSE receipts[j][q]
    BY <1>1 DEF PurchaseInv, PurchaseTyped
  <2> QED BY <2>1, <2>2, RowsMove DEF PurchaseInv, PurchaseTyped, Purchase!IntentStatus, ReceiptStatus
<1>3. PurchaseTyped'
  <2> DEFINE row == [k \in Purchase!Kinds |-> At(receipts[i][k], "COMMITTED")]
  <2>1. row \in [Purchase!Kinds -> Receipt]
    BY RowsMove DEF PurchaseInv, PurchaseTyped, ReceiptStatus
  <2>2. receipts' = [receipts EXCEPT ![i] = row]
    BY <1>1
  <2> HIDE DEF row
  <2>3. receipts' \in [Intents -> [Purchase!Kinds -> Receipt]]
    BY <2>1, <2>2 DEF PurchaseInv, PurchaseTyped
  <2>4. intents' \in [Intents -> Intent]
    BY <1>1, RowsMove DEF PurchaseInv, PurchaseTyped, Purchase!IntentStatus
  <2> QED BY <1>1, <2>3, <2>4 DEF PurchaseInv, PurchaseTyped, ExposureShaped
<1>4. AnswersTrue'
  BY <1>1, <1>2 DEF PurchaseInv, AnswersTrue
<1>5. Purchase!OutcomeAgreed'
  BY <1>1, <1>2 DEF PurchaseInv, Purchase!OutcomeAgreed, AnswersTrue, Purchase!Remote, Purchase!Home
<1>6. Purchase!SoldWithinCapacity'
  <2>1. \A k \in Purchase!Kinds : GoesOn(i, k)
    BY <1>1, <1>2 DEF GoesOn, Goes, Purchase!Remote, Purchase!Home
  <2>2. \A j \in Intents, k \in Purchase!Kinds : GoesOn(j, k)
    BY <1>1, <1>2, <2>1, SameGoesOn
  <2>3. VersionsStay
    BY <1>1, <1>2 DEF VersionsStay
  <2> QED BY <2>2, <2>3, SoldStays
<1>7. Purchase!CurrentExact'
  BY <1>1 DEF PurchaseInv, Purchase!CurrentExact
<1> QED BY <1>1, <1>3, <1>4, <1>5, <1>6, <1>7, CatalogStays DEF PurchaseInv

LEMMA ReleaseForPeerKeeps ==
    ASSUME PurchaseAssumptions, PurchaseInv, NEW i \in Intents, NEW k \in Purchase!Kinds, Purchase!ReleaseForPeer(i, k)
    PROVE  PurchaseInv'
<1>1. /\ holds' = [holds EXCEPT ![i][k] = "RELEASED"] /\ holds[i][k] \in {"ACTIVE", "EXPIRED"}
      /\ exposure' = [exposure EXCEPT ![Buyer[i]][k].reserved = @ - 1]
      /\ intents[i].status = "CANCELLING"
      /\ UNCHANGED <<intents, receipts, over, offers, indexes>>
  BY DEF Purchase!ReleaseForPeer, Purchase!Releasable, Purchase!cvars
<1>2. \A j \in Intents, q \in Purchase!Kinds :
         holds'[j][q] = IF j = i /\ q = k THEN "RELEASED" ELSE holds[j][q]
  BY <1>1 DEF PurchaseInv, PurchaseTyped
<1>3. /\ \A n \in Nodes, q \in Purchase!Kinds : exposure'[n][q].current = exposure[n][q].current
      /\ ExposureShaped'
  <2> DEFINE row == [exposure[Buyer[i]][k] EXCEPT !.reserved = @ - 1]
  <2>1. Buyer[i] \in Nodes /\ ExposureShaped /\ {"current", "reserved"} \subseteq DOMAIN exposure[Buyer[i]][k]
    BY DEF PurchaseAssumptions, PurchaseInv, PurchaseTyped, ExposureShaped
  <2>2. {"current", "reserved"} \subseteq DOMAIN row /\ row.current = exposure[Buyer[i]][k].current
    BY <2>1
  <2>3. exposure' = [exposure EXCEPT ![Buyer[i]][k] = row]
    BY <1>1
  <2> HIDE DEF row
  <2>4. /\ ExposureShaped'
        /\ \A n \in Nodes, q \in Purchase!Kinds :
              exposure'[n][q] = IF n = Buyer[i] /\ q = k THEN row ELSE exposure[n][q]
    <3>1. ExposureShaped /\ {"current", "reserved"} \subseteq DOMAIN row
      BY <2>1, <2>2
    <3>2. ExposureShaped'
      BY <3>1, <2>3, ExposureWritten
    <3>3. \A n \in Nodes, q \in Purchase!Kinds :
             exposure'[n][q] = IF n = Buyer[i] /\ q = k THEN row ELSE exposure[n][q]
      BY <2>1, <2>3 DEF ExposureShaped
    <3> QED BY <3>2, <3>3
  <2> QED BY <2>2, <2>4
<1>7. PurchaseTyped'
  BY <1>1, <1>3 DEF PurchaseInv, PurchaseTyped, ReceiptStatus
<1>4. AnswersTrue' /\ Purchase!OutcomeAgreed'
  BY <1>1, <1>2 DEF PurchaseInv, AnswersTrue, Purchase!OutcomeAgreed, Purchase!Remote, Purchase!Home
<1>5. Purchase!CurrentExact'
  BY <1>1, <1>2, <1>3, CurrentStays
<1>6. Purchase!SoldWithinCapacity'
  <2>1. VersionsStay
    BY <1>1 DEF VersionsStay
  <2>2. GoesOn(i, k)
    BY <1>1, <1>2 DEF GoesOn, Goes
  <2>3. \A j \in Intents, q \in Purchase!Kinds : GoesOn(j, q)
    BY <1>1, <1>2, <2>2, SameGoesOn
  <2> QED BY <2>1, <2>3, SoldStays
<1> QED BY <1>1, <1>7, <1>4, <1>5, <1>6, CatalogStays DEF PurchaseInv

LEMMA CancelKeeps ==
    ASSUME PurchaseAssumptions, PurchaseInv, NEW i \in Intents, Purchase!Cancel(i)
    PROVE  PurchaseInv'
<1> DEFINE status == IF Purchase!Active(i) = {} THEN "CANCELLED" ELSE "COMPENSATED"
           row == [k \in Purchase!Kinds |-> IF k \in Purchase!Active(i) THEN At(receipts[i][k], "RELEASED")
                                   ELSE receipts[i][k]]
<1>1. /\ receipts' = [receipts EXCEPT ![i] = row]
      /\ intents' = [intents EXCEPT ![i] = At(intents[i], status)] /\ intents[i].status = "CANCELLING"
      /\ UNCHANGED <<holds, exposure, over, offers, indexes>>
  BY DEF Purchase!Cancel, Purchase!Moved, At, Purchase!cvars
<1>2. /\ \A j \in Intents : /\ intents'[j].version = intents[j].version
                            /\ intents'[j].status = IF j = i THEN status ELSE intents[j].status
      /\ \A j \in Intents, q \in Purchase!Kinds :
            /\ receipts'[j][q].status = receipts[j][q].status \/ (j = i /\ receipts'[j][q].status = "RELEASED")
            /\ receipts'[j][q].commit = receipts[j][q].commit
  <2>1. \A j \in Intents : intents'[j] = IF j = i THEN At(intents[j], status) ELSE intents[j]
    BY <1>1 DEF PurchaseInv, PurchaseTyped
  <2>2. \A j \in Intents, q \in Purchase!Kinds :
           receipts'[j][q] = IF j = i /\ q \in Purchase!Active(i) THEN At(receipts[j][q], "RELEASED")
                             ELSE receipts[j][q]
    BY <1>1 DEF PurchaseInv, PurchaseTyped
  <2>3. status \in Purchase!IntentStatus
    BY DEF Purchase!IntentStatus
  <2> QED BY <2>1, <2>2, <2>3, RowsMove DEF PurchaseInv, PurchaseTyped, ReceiptStatus
<1>3. status \in {"CANCELLED", "COMPENSATED"}
  OBVIOUS
<1>4. PurchaseTyped'
  <2>1. row \in [Purchase!Kinds -> Receipt]
    BY RowsMove DEF PurchaseInv, PurchaseTyped, ReceiptStatus
  <2> HIDE DEF row, status
  <2>2. receipts' \in [Intents -> [Purchase!Kinds -> Receipt]]
    BY <1>1, <2>1 DEF PurchaseInv, PurchaseTyped
  <2>3. status \in Purchase!IntentStatus
    BY <1>3 DEF Purchase!IntentStatus
  <2>4. intents' \in [Intents -> Intent]
    BY <1>1, <2>3, RowsMove DEF PurchaseInv, PurchaseTyped
  <2> QED BY <1>1, <2>2, <2>4 DEF PurchaseInv, PurchaseTyped, ExposureShaped
<1> HIDE DEF status, row
<1>5. AnswersTrue'
  BY <1>1, <1>2, <1>3 DEF PurchaseInv, AnswersTrue
<1>6. Purchase!OutcomeAgreed'
  BY <1>1, <1>2, <1>3 DEF PurchaseInv, Purchase!OutcomeAgreed, Purchase!Remote, Purchase!Home
<1>7. Purchase!SoldWithinCapacity'
  <2>1. \A j \in Intents, k \in Purchase!Kinds : GoesOn(j, k)
    BY <1>1, <1>2 DEF GoesOn, Goes
  <2>2. VersionsStay
    BY <1>1, <1>2, <1>3 DEF VersionsStay
  <2> QED BY <2>1, <2>2, SoldStays
<1>8. Purchase!CurrentExact'
  BY <1>1 DEF PurchaseInv, Purchase!CurrentExact
<1> QED BY <1>1, <1>4, <1>5, <1>6, <1>7, <1>8, CatalogStays DEF PurchaseInv

LEMMA ExpiryKeeps ==
    ASSUME PurchaseAssumptions, PurchaseInv, NEW n \in Nodes, Purchase!ExpireStaleReservations(n)
    PROVE  PurchaseInv'
<1>1. /\ holds' = [i \in Intents |-> [k \in Purchase!Kinds |-> IF <<i, k>> \in Purchase!Due(n) THEN "EXPIRED" ELSE holds[i][k]]]
      /\ receipts' = [i \in Intents |-> [k \in Purchase!Kinds |->
                         IF i \in Purchase!DueIntents(n) /\ k \in Purchase!Active(i)
                         THEN At(receipts[i][k], "EXPIRED") ELSE receipts[i][k]]]
      /\ intents' = [i \in Intents |-> IF i \in Purchase!DueIntents(n) THEN At(intents[i], "EXPIRED")
                                       ELSE intents[i]]
      /\ UNCHANGED <<over, offers, indexes>>
  BY DEF Purchase!ExpireStaleReservations, At, Purchase!cvars
<1>2. /\ \A b \in Nodes, k \in Purchase!Kinds : exposure'[b][k].current = exposure[b][k].current
      /\ exposure' = [b \in Nodes |-> [k \in Purchase!Kinds |-> exposure'[b][k]]]
      /\ \A b \in Nodes, k \in Purchase!Kinds : {"current", "reserved"} \subseteq DOMAIN exposure'[b][k]
  <2> DEFINE back(b, k) == Purchase!Cardinality({p \in Purchase!Due(n) : Buyer[p[1]] = b /\ p[2] = k})
  <2>1. exposure' = [b \in Nodes |-> [k \in Purchase!Kinds |-> [exposure[b][k] EXCEPT !.reserved = @ - back(b, k)]]]
    BY DEF Purchase!ExpireStaleReservations
  <2> HIDE DEF back
  <2>2. \A b \in Nodes, k \in Purchase!Kinds : exposure'[b][k] = [exposure[b][k] EXCEPT !.reserved = @ - back(b, k)]
    BY <2>1
  <2> QED BY <2>1, <2>2 DEF PurchaseInv, PurchaseTyped, ExposureShaped
<1>3. /\ \A i \in Intents : /\ intents'[i].version = intents[i].version
                            /\ \/ intents'[i].status = intents[i].status
                               \/ /\ intents'[i].status = "EXPIRED"
                                  /\ intents[i].status \in {"PREPARING", "GOODS_RESERVED", "PREPARED"}
      /\ \A i \in Intents, k \in Purchase!Kinds :
            /\ \/ receipts'[i][k].status = receipts[i][k].status
               \/ receipts'[i][k].status = "EXPIRED" /\ intents[i].status # "COMMITTED" /\ intents[i].status # "ABSENT"
            /\ receipts'[i][k].commit = receipts[i][k].commit
            /\ holds'[i][k] = holds[i][k] \/ (holds'[i][k] = "EXPIRED" /\ holds[i][k] = "ACTIVE")
  <2>1. \A i \in Purchase!DueIntents(n) : intents[i].status \in {"PREPARING", "GOODS_RESERVED", "PREPARED"}
    BY DEF Purchase!DueIntents
  <2>2. \A i \in Intents, k \in Purchase!Kinds : <<i, k>> \in Purchase!Due(n) => holds[i][k] = "ACTIVE"
    BY DEF Purchase!Due
  <2>3. \A i \in Intents : intents'[i] = IF i \in Purchase!DueIntents(n) THEN At(intents[i], "EXPIRED")
                                         ELSE intents[i]
    BY <1>1
  <2>4. \A i \in Intents, k \in Purchase!Kinds :
           receipts'[i][k] = IF i \in Purchase!DueIntents(n) /\ k \in Purchase!Active(i)
                             THEN At(receipts[i][k], "EXPIRED") ELSE receipts[i][k]
    BY <1>1
  <2>5. \A i \in Intents, k \in Purchase!Kinds :
           holds'[i][k] = IF <<i, k>> \in Purchase!Due(n) THEN "EXPIRED" ELSE holds[i][k]
    BY <1>1
  <2> HIDE DEF Purchase!Due, Purchase!DueIntents, Purchase!Active
  <2>6. "EXPIRED" \in Purchase!IntentStatus /\ "EXPIRED" \in ReceiptStatus
    BY DEF Purchase!IntentStatus, ReceiptStatus
  <2>7. \A i \in Intents : intents[i] \in Intent /\ \A k \in Purchase!Kinds : receipts[i][k] \in Receipt
    BY DEF PurchaseInv, PurchaseTyped
  <2>8. ASSUME NEW i \in Intents
        PROVE  /\ intents'[i].version = intents[i].version
               /\ intents'[i].status = IF i \in Purchase!DueIntents(n) THEN "EXPIRED" ELSE intents[i].status
    BY <2>3, <2>6, <2>7, RowsMove
  <2>9. ASSUME NEW i \in Intents, NEW k \in Purchase!Kinds
        PROVE  /\ receipts'[i][k].commit = receipts[i][k].commit
               /\ receipts'[i][k].status = IF i \in Purchase!DueIntents(n) /\ k \in Purchase!Active(i) THEN "EXPIRED"
                                           ELSE receipts[i][k].status
    BY <2>4, <2>6, <2>7, RowsMove
  <2>10. ASSUME NEW i \in Intents
         PROVE  /\ intents'[i].version = intents[i].version
                /\ \/ intents'[i].status = intents[i].status
                   \/ /\ intents'[i].status = "EXPIRED"
                      /\ intents[i].status \in {"PREPARING", "GOODS_RESERVED", "PREPARED"}
    BY <2>1, <2>8
  <2>11. ASSUME NEW i \in Intents, NEW k \in Purchase!Kinds
         PROVE  /\ \/ receipts'[i][k].status = receipts[i][k].status
                   \/ receipts'[i][k].status = "EXPIRED" /\ intents[i].status # "COMMITTED" /\ intents[i].status # "ABSENT"
                /\ receipts'[i][k].commit = receipts[i][k].commit
                /\ holds'[i][k] = holds[i][k] \/ (holds'[i][k] = "EXPIRED" /\ holds[i][k] = "ACTIVE")
    BY <2>1, <2>2, <2>5, <2>9
  <2> QED BY <2>10, <2>11
<1>4. PurchaseTyped'
  <2>1. intents' \in [Intents -> Intent]
    BY <1>1, RowsMove DEF PurchaseInv, PurchaseTyped, Purchase!IntentStatus
  <2>2. receipts' \in [Intents -> [Purchase!Kinds -> Receipt]]
    <3>1. \A i \in Intents, k \in Purchase!Kinds : At(receipts[i][k], "EXPIRED") \in Receipt
      BY RowsMove DEF PurchaseInv, PurchaseTyped, ReceiptStatus
    <3> QED BY <1>1, <3>1 DEF PurchaseInv, PurchaseTyped
  <2>3. holds' \in [Intents -> [Purchase!Kinds -> ReceiptStatus]]
    BY <1>1 DEF PurchaseInv, PurchaseTyped, ReceiptStatus
  <2> QED BY <1>2, <2>1, <2>2, <2>3 DEF PurchaseTyped, ExposureShaped
<1>5. AnswersTrue'
  BY <1>3 DEF PurchaseInv, AnswersTrue
<1>6. Purchase!OutcomeAgreed'
  BY <1>3 DEF PurchaseInv, Purchase!OutcomeAgreed, Purchase!Remote, Purchase!Home
<1>7. Purchase!SoldWithinCapacity'
  <2>1. \A j \in Intents, k \in Purchase!Kinds : GoesOn(j, k)
    BY <1>3 DEF GoesOn, Goes
  <2>2. VersionsStay
    BY <1>1, <1>3 DEF VersionsStay
  <2> QED BY <2>1, <2>2, SoldStays
<1>8. Purchase!CurrentExact'
  <2>1. \A i \in Intents, k \in Purchase!Kinds : holds'[i][k] = "COMMITTED" <=> holds[i][k] = "COMMITTED"
    BY <1>3
  <2> QED BY <1>2, <2>1, CurrentStays
<1> QED BY <1>1, <1>4, <1>5, <1>6, <1>7, <1>8, CatalogStays DEF PurchaseInv

-----------------------------------------------------------------------------
LEMMA PurchaseInvNext ==
    ASSUME PurchaseAssumptions, PurchaseInv, [Purchase!Next]_(Purchase!vars)
    PROVE  PurchaseInv'
<1>1. CASE Purchase!CatalogStep
  <2>1. UNCHANGED Purchase!pvars
    BY <1>1 DEF Purchase!CatalogStep
  <2>2. CatalogInv'
    BY <1>1, CatalogStepKeeps DEF PurchaseInv
  <2> QED BY <2>1, <2>2, PurchaseUnchanged DEF PurchaseInv, Purchase!pvars
<1>2. ASSUME NEW k \in Purchase!Kinds, NEW v \in Versions, Purchase!Lapse(k, v)
      PROVE  PurchaseInv'
  <2>1. UNCHANGED <<intents, receipts, holds, exposure, offers, indexes>> /\ over \subseteq over'
    BY <1>2 DEF Purchase!Lapse
  <2> QED BY <2>1, PurchaseUnchanged, CatalogStays DEF PurchaseInv
<1>3. ASSUME NEW i \in Intents, NEW v \in Versions, Purchase!CreatePurchaseIntent(i, v)
      PROVE  PurchaseInv'
  <2>1. intents'[i].version = v
    BY <1>3 DEF Purchase!CreatePurchaseIntent, PurchaseInv, PurchaseTyped
  <2> QED BY <1>3, <2>1, MovedKeeps
<1>4. ASSUME NEW i \in Intents, Purchase!BeginCommit(i) \/ Purchase!Commit(i) \/ Purchase!BeginCancel(i) \/ Purchase!Cancel(i)
      PROVE  PurchaseInv'
  BY <1>4, MovedKeeps, CommitKeeps, CancelKeeps
<1>5. ASSUME NEW i \in Intents, NEW k \in Purchase!Kinds,
             \/ Purchase!HoldForPeer(i, k) \/ Purchase!Reserve(i, k) \/ Purchase!CommitForPeer(i, k) \/ Purchase!RecordRemoteCommit(i, k)
             \/ Purchase!ReleaseForPeer(i, k) \/ Purchase!RecordRemoteRelease(i, k)
      PROVE  PurchaseInv'
  BY <1>5, HoldForPeerKeeps, ReserveKeeps, CommitForPeerKeeps, AnswerRecorded, ReleaseForPeerKeeps
<1>6. ASSUME NEW i \in Intents, NEW x \in Purchase!Kinds \union {"INTENT"}, Purchase!Elapse(i, x)
      PROVE  PurchaseInv'
  <2>1. UNCHANGED <<intents, receipts, holds, exposure, offers, indexes>> /\ over \subseteq over'
    BY <1>6 DEF Purchase!Elapse, Purchase!cvars
  <2> QED BY <2>1, PurchaseUnchanged, CatalogStays DEF PurchaseInv
<1>7. ASSUME NEW n \in Nodes, Purchase!ExpireStaleReservations(n)
      PROVE  PurchaseInv'
  BY <1>7, ExpiryKeeps
<1>8. CASE UNCHANGED Purchase!vars
  BY <1>8, PurchaseUnchanged, CatalogStays DEF PurchaseInv, Purchase!vars, Purchase!cvars, Purchase!pvars
<1> QED BY <1>1, <1>2, <1>3, <1>4, <1>5, <1>6, <1>7, <1>8 DEF Purchase!Next

\* A purchase across nodes sells within capacity, ends the same at every node and is counted
\* exactly in what its node owes, and search and purchase agree on the copies, for any number of
\* intents, versions and nodes and any capacity.
THEOREM PurchaseAlwaysSettled ==
    ASSUME PurchaseAssumptions
    PROVE  Purchase!Spec => []Purchase!PurchaseSettled
<1>1. Purchase!Init => PurchaseInv
  BY PurchaseInvInit
<1>2. PurchaseInv /\ [Purchase!Next]_(Purchase!vars) => PurchaseInv'
  BY PurchaseInvNext
<1>3. PurchaseInv => Purchase!PurchaseSettled
  BY CopiesAgree, SearchAgrees DEF PurchaseInv, Purchase!PurchaseSettled
<1> QED BY <1>1, <1>2, <1>3, PTL DEF Purchase!Spec

-----------------------------------------------------------------------------
\* The register of members
\* Nobody is registered as a duplicate at the start.
NoneMerged == \A m \in People : FirstStatus[m] # "MERGED"

IsMember(x) == {"status", "version", "into"} \subseteq DOMAIN x
IsMembership(x) == {"status", "version", "member", "cooperative"} \subseteq DOMAIN x
IsMerge(x) == {"status", "source", "survivor", "lapsed"} \subseteq DOMAIN x
IsCase(x) == {"status", "member", "kind", "previous", "memberships"} \subseteq DOMAIN x
RegisterShaped ==
    /\ people = [m \in People |-> people[m]] /\ \A m \in People : IsMember(people[m])
    /\ membership = [k \in Memberships |-> membership[k]] /\ \A k \in Memberships : IsMembership(membership[k])
    /\ merge = [g \in Merges |-> merge[g]] /\ \A g \in Merges : IsMerge(merge[g])
    /\ case = [c \in Cases |-> case[c]] /\ \A c \in Cases : IsCase(case[c])

\* A case in review is the only one about its member, whom it found at large.
Pending(c) == case[c].status = "PENDING_REVIEW"
CasesSound ==
    /\ \A c \in Cases : Pending(c) =>
          /\ case[c].member \in People /\ case[c].previous \in {"ACTIVE", "LIMITED", "SUSPENDED"}
          /\ Register!Ids(case[c].memberships) \subseteq Memberships
    /\ \A c, d \in Cases : Pending(c) /\ Pending(d) /\ case[c].member = case[d].member => c = d
MergesSound ==
    /\ \A g \in Merges : merge[g].status = "PENDING_REVIEW" =>
          merge[g].source \in People /\ merge[g].survivor \in People /\ merge[g].source # merge[g].survivor
    /\ \A m \in People : people[m].status = "MERGED" => people[m].into \in People

RegisterInv == RegisterShaped /\ CasesSound /\ MergesSound /\ Register!PersonsKept

-----------------------------------------------------------------------------
LEMMA RegisterInvInit ==
    ASSUME NoneMerged, Register!Init
    PROVE  RegisterInv
<1>1. RegisterShaped
  BY DEF Register!Init, RegisterShaped, IsMember, IsMembership, IsMerge, IsCase
<1>2. \A m \in People : people[m].status # "MERGED"
  BY DEF Register!Init, NoneMerged
<1>3. (\A c \in Cases : ~Pending(c)) /\ (\A g \in Merges : merge[g].status # "PENDING_REVIEW")
  BY DEF Register!Init, Pending
<1> QED BY <1>1, <1>2, <1>3 DEF RegisterInv, CasesSound, MergesSound, Register!PersonsKept, Register!Contained, Register!NoMergeChains, Pending

LEMMA UpIs ==
    ASSUME NEW x, NEW s, {"status", "version"} \subseteq DOMAIN x
    PROVE  /\ DOMAIN Register!Up(x, s) = DOMAIN x /\ Register!Up(x, s).status = s
           /\ \A f \in DOMAIN x \ {"status", "version"} : Register!Up(x, s)[f] = x[f]
BY DEF Register!Up

LEMMA MovedIs ==
    ASSUME RegisterShaped, NEW rows, NEW s, NEW t, t = Register!Moved(rows, membership, s)
    PROVE  /\ t = [k \in Memberships |-> t[k]]
           /\ \A k \in Memberships :
                /\ IsMembership(t[k]) /\ t[k].member = membership[k].member
                /\ t[k].status = IF k \in rows THEN s ELSE membership[k].status
<1>1. DOMAIN membership = Memberships
  BY DEF RegisterShaped
<1>2. t = [k \in Memberships |-> IF k \in rows THEN Register!Up(membership[k], s) ELSE membership[k]]
  BY <1>1 DEF Register!Moved
<1>3. ASSUME NEW k \in Memberships
      PROVE  /\ IsMembership(t[k]) /\ t[k].member = membership[k].member
             /\ t[k].status = IF k \in rows THEN s ELSE membership[k].status
  <2>1. IsMembership(membership[k])
    BY DEF RegisterShaped
  <2>2. /\ DOMAIN Register!Up(membership[k], s) = DOMAIN membership[k] /\ Register!Up(membership[k], s).status = s
        /\ Register!Up(membership[k], s).member = membership[k].member
    BY <2>1, UpIs DEF IsMembership
  <2> QED BY <1>2, <2>1, <2>2 DEF IsMembership
<1> QED BY <1>2, <1>3

\* What keeps the members in review and the survivors of merges where they are
Held == {"EXIT_PENDING", "DECEASED_OR_INCAPACITATED"}
Out == {"SUSPENDED", "ENDED"}
MembersStay ==
    \A m \in People : /\ people[m].status \in Held => people'[m].status = people[m].status
                      /\ people'[m].status = "MERGED" => people[m].status = "MERGED" /\ people'[m].into = people[m].into
MembershipsStay ==
    \A k \in Memberships :
       membership[k].status \in Out /\ membership[k].member \in People /\ people[membership[k].member].status \in Held =>
          membership'[k].status \in Out /\ membership'[k].member = membership[k].member

LEMMA HeldInReview ==
    ASSUME RegisterInv, NEW c \in Cases, Pending(c)
    PROVE  /\ case[c].member \in People /\ people[case[c].member].status \in Held
           /\ Register!ContainedStatus(case[c].kind) \in Held
BY DEF RegisterInv, Register!PersonsKept, Register!Contained, CasesSound, Pending, Held, Register!ContainedStatus

\* Steps that decide nothing
LEMMA OthersKeep ==
    ASSUME RegisterInv, RegisterShaped', MembersStay, MembershipsStay, UNCHANGED <<merge, case>>
    PROVE  RegisterInv'
<1>1. CasesSound'
  BY DEF RegisterInv, CasesSound, Pending
<1>2. MergesSound' /\ Register!NoMergeChains'
  BY DEF RegisterInv, MergesSound, Register!PersonsKept, Register!NoMergeChains, MembersStay
<1>3. Register!Contained'
  <2> SUFFICES ASSUME NEW c \in Cases, Pending(c)
               PROVE  /\ people'[case[c].member].status = Register!ContainedStatus(case[c].kind)
                      /\ \A k \in Register!Ids(case[c].memberships) :
                            membership'[k].member = case[c].member /\ membership'[k].status \in Out
    BY DEF Register!Contained, Pending, Out
  <2>1. /\ people[case[c].member].status = Register!ContainedStatus(case[c].kind)
        /\ \A k \in Register!Ids(case[c].memberships) :
              k \in Memberships /\ membership[k].member = case[c].member /\ membership[k].status \in Out
    BY DEF RegisterInv, Register!PersonsKept, Register!Contained, CasesSound, Pending, Out
  <2> QED BY <2>1, HeldInReview DEF MembersStay, MembershipsStay
<1> QED BY <1>1, <1>2, <1>3 DEF RegisterInv, Register!PersonsKept

LEMMA TransitionMemberKeeps ==
    ASSUME RegisterInv, NEW m \in People, NEW t \in {"PENDING_VERIFICATION", "LIMITED", "ACTIVE", "SUSPENDED", "REJECTED"},
           Register!TransitionMember(m, t)
    PROVE  RegisterInv'
<1>1. /\ people' = [people EXCEPT ![m] = Register!Up(people[m], t)] /\ UNCHANGED <<merge, case>>
      /\ people[m].status \notin Held
  BY DEF Register!TransitionMember, Register!MemberTransitions, Held
<1>2. IsMember(people[m]) /\ IsMember(Register!Up(people[m], t)) /\ Register!Up(people[m], t).status = t
  BY UpIs DEF RegisterInv, RegisterShaped, IsMember
<1>3. \/ UNCHANGED membership
      \/ membership' = Register!Moved(Register!WithStatus(Register!MembershipsOf(m), membership, "ACTIVE"), membership, "SUSPENDED")
  BY DEF Register!TransitionMember
<1>4. RegisterShaped'
  <2>1. membership' = [k \in Memberships |-> membership'[k]] /\ \A k \in Memberships : IsMembership(membership'[k])
    <3>1. CASE UNCHANGED membership
      BY <3>1 DEF RegisterInv, RegisterShaped
    <3>2. CASE membership' = Register!Moved(Register!WithStatus(Register!MembershipsOf(m), membership, "ACTIVE"), membership, "SUSPENDED")
      BY <3>2, MovedIs DEF RegisterInv
    <3> QED BY <1>3, <3>1, <3>2
  <2> QED BY <1>1, <1>2, <2>1 DEF RegisterInv, RegisterShaped
<1>5. MembersStay
  BY <1>1, <1>2 DEF RegisterInv, RegisterShaped, MembersStay
<1>6. MembershipsStay
  BY <1>3, MovedIs DEF RegisterInv, Register!WithStatus, MembershipsStay, Out
<1> QED BY <1>1, <1>4, <1>5, <1>6, OthersKeep

LEMMA MembershipKeeps ==
    ASSUME RegisterInv, NEW k \in Memberships,
           \/ \E m \in People, coop \in Cooperatives : Register!CreateMembership(k, m, coop)
           \/ \E target \in {"ACTIVE", "SUSPENDED", "ENDED"} : Register!TransitionMembership(k, target)
    PROVE  RegisterInv'
<1>1. UNCHANGED <<people, merge, case>>
  BY DEF Register!CreateMembership, Register!TransitionMembership
<1>2. PICK row : membership' = [membership EXCEPT ![k] = row] /\ IsMembership(row)
                 /\ (membership[k].status \in Out /\ membership[k].member \in People
                        /\ people[membership[k].member].status \in Held =>
                     row.status \in Out /\ row.member = membership[k].member)
  <2>1. CASE \E m \in People, coop \in Cooperatives : Register!CreateMembership(k, m, coop)
    BY <2>1 DEF Register!CreateMembership, IsMembership, Out
  <2>2. CASE \E target \in {"ACTIVE", "SUSPENDED", "ENDED"} : Register!TransitionMembership(k, target)
    <3>1. PICK target \in {"ACTIVE", "SUSPENDED", "ENDED"} : Register!TransitionMembership(k, target)
      BY <2>2
    <3>2. membership' = [membership EXCEPT ![k] = Register!Up(membership[k], target)]
          /\ (target = "ACTIVE" => people[membership[k].member].status = "ACTIVE")
      BY <3>1 DEF Register!TransitionMembership, Register!Allowed
    <3>3. IsMembership(membership[k])
      BY DEF RegisterInv, RegisterShaped
    <3>4. IsMembership(Register!Up(membership[k], target)) /\ Register!Up(membership[k], target).status = target
          /\ Register!Up(membership[k], target).member = membership[k].member
      BY <3>3, UpIs DEF IsMembership
    <3> QED BY <3>2, <3>4 DEF Out, Held
  <2> QED BY <2>1, <2>2
<1>3. RegisterShaped'
  BY <1>1, <1>2 DEF RegisterInv, RegisterShaped
<1>4. MembersStay /\ MembershipsStay
  BY <1>1, <1>2 DEF RegisterInv, RegisterShaped, MembersStay, MembershipsStay
<1> QED BY <1>1, <1>3, <1>4, OthersKeep

LEMMA AccountKeeps ==
    ASSUME RegisterInv, UNCHANGED <<people, membership, merge, case>>
    PROVE  RegisterInv'
<1>1. RegisterShaped' /\ MembersStay /\ MembershipsStay
  BY DEF RegisterInv, RegisterShaped, MembersStay, MembershipsStay
<1> QED BY <1>1, OthersKeep

-----------------------------------------------------------------------------
\* A change of the merges alone
LEMMA MergeRowsKeep ==
    ASSUME RegisterInv, UNCHANGED <<people, membership, case>>,
           merge' = [g \in Merges |-> merge'[g]], \A g \in Merges : IsMerge(merge'[g]),
           \A g \in Merges : merge'[g].status = "PENDING_REVIEW" =>
              merge'[g].source \in People /\ merge'[g].survivor \in People /\ merge'[g].source # merge'[g].survivor
    PROVE  RegisterInv'
<1>1. RegisterShaped'
  BY DEF RegisterInv, RegisterShaped
<1>2. MergesSound' /\ CasesSound'
  BY DEF RegisterInv, MergesSound, CasesSound, Pending
<1> QED BY <1>1, <1>2 DEF RegisterInv, Register!PersonsKept, Register!Contained, Register!NoMergeChains

LEMMA RequestMergeKeeps ==
    ASSUME RegisterInv, NEW g \in Merges, NEW source \in People, NEW survivor \in People, NEW u,
           Register!RequestMerge(g, source, survivor, u)
    PROVE  RegisterInv'
<1> DEFINE new == [status |-> IF Register!Blockers(source, survivor) THEN "BLOCKED" ELSE "PENDING_REVIEW",
                   source |-> source, survivor |-> survivor, requester |-> u, lapsed |-> FALSE,
                   sourceVersion |-> people[source].version, survivorVersion |-> people[survivor].version]
<1>1. /\ merge' = [p \in Merges |-> IF p = g THEN new ELSE IF p \in Register!LapsedFor(source)
                                                       THEN [merge[p] EXCEPT !.status = "EXPIRED"] ELSE merge[p]]
      /\ source # survivor /\ UNCHANGED <<people, membership, case>>
  BY DEF Register!RequestMerge
<1>2. IsMerge(new) /\ new.source = source /\ new.survivor = survivor
  BY DEF IsMerge
<1>3. ASSUME NEW p \in Merges
      PROVE  LET x == [merge[p] EXCEPT !.status = "EXPIRED"] IN IsMerge(x) /\ x.status = "EXPIRED"
  <2>1. IsMerge(merge[p])
    BY DEF RegisterInv, RegisterShaped
  <2> QED BY <2>1 DEF IsMerge
<1> HIDE DEF new
<1>4. ASSUME NEW p \in Merges
      PROVE  /\ IsMerge(merge'[p])
             /\ merge'[p].status = "PENDING_REVIEW" =>
                  merge'[p].source \in People /\ merge'[p].survivor \in People /\ merge'[p].source # merge'[p].survivor
  <2>1. IsMerge(merge[p])
    BY DEF RegisterInv, RegisterShaped
  <2>2. merge[p].status = "PENDING_REVIEW" =>
           merge[p].source \in People /\ merge[p].survivor \in People /\ merge[p].source # merge[p].survivor
    BY DEF RegisterInv, MergesSound
  <2>3. CASE p = g
    BY <1>1, <1>2, <2>3
  <2>4. CASE p # g /\ p \in Register!LapsedFor(source)
    <3>1. merge'[p] = [merge[p] EXCEPT !.status = "EXPIRED"]
      BY <1>1, <2>4
    <3> QED BY <1>3, <3>1
  <2>5. CASE p # g /\ p \notin Register!LapsedFor(source)
    BY <1>1, <2>1, <2>2, <2>5
  <2> QED BY <2>3, <2>4, <2>5
<1>5. merge' = [p \in Merges |-> merge'[p]]
  BY <1>1
<1> QED BY <1>1, <1>4, <1>5, MergeRowsKeep

LEMMA LapseMergeKeeps ==
    ASSUME RegisterInv, NEW g \in Merges, Register!LapseMerge(g)
    PROVE  RegisterInv'
<1>1. merge' = [merge EXCEPT ![g].lapsed = TRUE] /\ UNCHANGED <<people, membership, case>>
  BY DEF Register!LapseMerge
<1>2. IsMerge(merge[g])
  BY DEF RegisterInv, RegisterShaped
<1> DEFINE row == [merge[g] EXCEPT !.lapsed = TRUE]
<1>3. IsMerge(row) /\ row.status = merge[g].status /\ row.source = merge[g].source /\ row.survivor = merge[g].survivor
  BY <1>2 DEF IsMerge
<1>4. merge' = [merge EXCEPT ![g] = row]
  BY <1>1
<1> HIDE DEF row
<1>5. merge' = [p \in Merges |-> merge'[p]] /\ \A p \in Merges : merge'[p] = IF p = g THEN row ELSE merge[p]
  BY <1>4 DEF RegisterInv, RegisterShaped
<1>6. \A p \in Merges : IsMerge(merge'[p])
  BY <1>3, <1>5 DEF RegisterInv, RegisterShaped
<1>7. \A p \in Merges : merge'[p].status = "PENDING_REVIEW" =>
              merge'[p].source \in People /\ merge'[p].survivor \in People /\ merge'[p].source # merge'[p].survivor
  BY <1>3, <1>5 DEF RegisterInv, MergesSound
<1> QED BY <1>1, <1>5, <1>6, <1>7, MergeRowsKeep

LEMMA DecideMergeKeeps ==
    ASSUME RegisterInv, NEW g \in Merges, NEW u, NEW approve \in BOOLEAN, Register!DecideMerge(g, u, approve)
    PROVE  RegisterInv'
<1> DEFINE source == merge[g].source
           survivor == merge[g].survivor
<1>1. PICK status \in {"EXPIRED", "REJECTED", "BLOCKED", "APPROVED"} : merge' = [merge EXCEPT ![g].status = status]
  BY DEF Register!DecideMerge
<1> DEFINE row == [merge[g] EXCEPT !.status = status]
<1>2. IsMerge(row) /\ row.status = status
  <2>1. IsMerge(merge[g])
    BY DEF RegisterInv, RegisterShaped
  <2> QED BY <2>1 DEF IsMerge
<1>3. merge' = [p \in Merges |-> merge'[p]] /\ \A p \in Merges : merge'[p] = IF p = g THEN row ELSE merge[p]
  <2>1. merge' = [merge EXCEPT ![g] = row]
    BY <1>1
  <2> HIDE DEF row
  <2> QED BY <2>1 DEF RegisterInv, RegisterShaped
<1> HIDE DEF row
<1>4. /\ \A p \in Merges : IsMerge(merge'[p])
      /\ \A p \in Merges : merge'[p].status = "PENDING_REVIEW" =>
              merge'[p].source \in People /\ merge'[p].survivor \in People /\ merge'[p].source # merge'[p].survivor
  <2>1. \A p \in Merges : IsMerge(merge'[p])
    BY <1>2, <1>3 DEF RegisterInv, RegisterShaped
  <2>2. row.status # "PENDING_REVIEW"
    BY <1>2
  <2> QED BY <1>3, <2>1, <2>2 DEF RegisterInv, MergesSound
<1>5. CASE UNCHANGED <<people, membership>>
  <2>1. UNCHANGED case
    BY DEF Register!DecideMerge
  <2> QED BY <1>3, <1>4, <1>5, <2>1, MergeRowsKeep
<1>6. CASE ~(UNCHANGED <<people, membership>>)
  <2>1. /\ merge[g].status = "PENDING_REVIEW" /\ Register!ApplyMerge(source, survivor) /\ UNCHANGED case
        /\ ~Register!MergeChanged(g) /\ ~Register!Referenced(source)
    BY <1>6 DEF Register!DecideMerge, Register!Blockers
  <2>2. source \in People /\ survivor \in People /\ source # survivor
    BY <2>1 DEF RegisterInv, MergesSound
  <2>3. people[source].status \notin Held \union {"MERGED"} /\ people[survivor].status \notin Held \union {"MERGED"}
    BY <2>1 DEF Register!MergeChanged, Register!Ineligible, Held
  <2>4. \A m \in People : people[m].into # source
    BY <2>1 DEF Register!Referenced
  <2> HIDE DEF source, survivor
  <2> DEFINE gone == [Register!Up(people[source], "MERGED") EXCEPT !.into = survivor]
             last == [people[survivor] EXCEPT !.version = @ + 1]
  <2>5. IsMember(gone) /\ gone.status = "MERGED" /\ gone.into = survivor
    <3>1. IsMember(people[source])
      BY <2>2 DEF RegisterInv, RegisterShaped
    <3>2. IsMember(Register!Up(people[source], "MERGED")) /\ Register!Up(people[source], "MERGED").status = "MERGED"
      BY <3>1, UpIs DEF IsMember
    <3> QED BY <3>2 DEF IsMember
  <2>6. IsMember(last) /\ last.status = people[survivor].status
    <3>1. IsMember(people[survivor])
      BY <2>2 DEF RegisterInv, RegisterShaped
    <3> QED BY <3>1 DEF IsMember
  <2>7. people' = [people EXCEPT ![source] = gone, ![survivor] = last]
    BY <2>1, <2>2 DEF Register!ApplyMerge, RegisterInv, RegisterShaped
  <2> HIDE DEF gone, last
  <2>8. /\ people' = [m \in People |-> people'[m]]
        /\ \A m \in People : people'[m] = IF m = survivor THEN last ELSE IF m = source THEN gone ELSE people[m]
    BY <2>2, <2>7 DEF RegisterInv, RegisterShaped
  <2>9. /\ membership' = [k \in Memberships |-> membership'[k]]
        /\ \A k \in Memberships :
              /\ IsMembership(membership'[k]) /\ membership'[k].status = membership[k].status
              /\ membership[k].member # source => membership'[k].member = membership[k].member
    <3>1. membership' = [k \in Memberships |-> IF k \in Register!MembershipsOf(source)
              THEN [membership[k] EXCEPT !.member = survivor, !.version = @ + 1] ELSE membership[k]]
      BY <2>1 DEF Register!ApplyMerge
    <3>2. ASSUME NEW k \in Memberships
          PROVE  /\ IsMembership(membership'[k]) /\ membership'[k].status = membership[k].status
                 /\ membership[k].member # source => membership'[k].member = membership[k].member
      <4>1. IsMembership(membership[k])
        BY DEF RegisterInv, RegisterShaped
      <4>2. CASE k \in Register!MembershipsOf(source)
        <5>1. membership'[k] = [membership[k] EXCEPT !.member = survivor, !.version = @ + 1]
          BY <3>1, <4>2
        <5>2. membership[k].member = source
          BY <4>2 DEF Register!MembershipsOf
        <5> QED BY <4>1, <5>1, <5>2 DEF IsMembership
      <4>3. CASE k \notin Register!MembershipsOf(source)
        BY <3>1, <4>1, <4>3
      <4> QED BY <4>2, <4>3
    <3> QED BY <3>1, <3>2
  <2>10. RegisterShaped'
    BY <1>3, <1>4, <2>1, <2>5, <2>6, <2>8, <2>9 DEF RegisterInv, RegisterShaped
  <2>11. CasesSound'
    BY <2>1 DEF RegisterInv, CasesSound, Pending
  <2>12. MergesSound'
    BY <1>4, <2>2, <2>3, <2>5, <2>6, <2>8 DEF RegisterInv, MergesSound
  <2>13. Register!NoMergeChains'
    BY <2>2, <2>3, <2>4, <2>5, <2>6, <2>8 DEF RegisterInv, MergesSound, Register!PersonsKept, Register!NoMergeChains
  <2>14. Register!Contained'
    <3> SUFFICES ASSUME NEW c \in Cases, Pending(c)
                 PROVE  /\ people'[case[c].member].status = Register!ContainedStatus(case[c].kind)
                        /\ \A k \in Register!Ids(case[c].memberships) :
                              membership'[k].member = case[c].member /\ membership'[k].status \in Out
      BY <2>1 DEF Register!Contained, Pending, Out
    <3>1. /\ people[case[c].member].status = Register!ContainedStatus(case[c].kind)
          /\ \A k \in Register!Ids(case[c].memberships) :
                k \in Memberships /\ membership[k].member = case[c].member /\ membership[k].status \in Out
      BY DEF RegisterInv, Register!PersonsKept, Register!Contained, CasesSound, Pending, Out
    <3>2. case[c].member \in People /\ case[c].member # source /\ case[c].member # survivor
      BY <2>3, HeldInReview
    <3> QED BY <2>8, <2>9, <3>1, <3>2
  <2> QED BY <2>10, <2>11, <2>12, <2>13, <2>14 DEF RegisterInv, Register!PersonsKept
<1> QED BY <1>5, <1>6

-----------------------------------------------------------------------------
LEMMA RequestCaseKeeps ==
    ASSUME RegisterInv, NEW c \in Cases, NEW m \in People, NEW kind \in Register!Kinds, NEW u, NEW late \in SUBSET Memberships,
           Register!RequestCase(c, m, kind, u, late)
    PROVE  RegisterInv'
<1> DEFINE kept == Register!WithStatus(Register!MembershipsOf(m), membership, "ACTIVE")
           users == Register!WithStatus(Register!AccountsOf(m), accounts, "ACTIVE")
           new == [status |-> "PENDING_REVIEW", member |-> m, kind |-> kind, requester |-> u,
                   previous |-> people[m].status, version |-> people[m].version + 1,
                   users |-> {<<x, accounts[x].version + 1>> : x \in users},
                   memberships |-> {<<x, membership[x].version + 1>> : x \in kept}]
           row == Register!Up(people[m], Register!ContainedStatus(kind))
<1>1. /\ people[m].status \in {"ACTIVE", "LIMITED", "SUSPENDED"} /\ case[c].status = "ABSENT"
      /\ \A o \in Cases : case[o].member = m => ~Pending(o)
      /\ late \subseteq Register!MembershipsOf(m) \ kept
      /\ people' = [people EXCEPT ![m] = row] /\ case' = [case EXCEPT ![c] = new] /\ UNCHANGED merge
      /\ membership' = Register!Moved(kept, Register!Moved(late, membership, "ACTIVE"), "SUSPENDED")
  BY DEF Register!RequestCase, Pending
<1>2. kept \subseteq Memberships /\ \A k \in kept : membership[k].member = m
  BY DEF Register!WithStatus, Register!MembershipsOf
<1>3. /\ IsCase(new) /\ new.status = "PENDING_REVIEW" /\ new.member = m /\ new.kind = kind
      /\ new.previous = people[m].status /\ Register!Ids(new.memberships) = kept
  <2>1. Register!Ids({<<x, membership[x].version + 1>> : x \in kept}) = kept
    <3> HIDE DEF kept, users, new, row
    <3> DEFINE S == {<<x, membership[x].version + 1>> : x \in kept}
    <3>1. ASSUME NEW y \in kept PROVE y \in Register!Ids(S)
      <4>1. <<y, membership[y].version + 1>> \in S /\ <<y, membership[y].version + 1>>[1] = y
        OBVIOUS
      <4> HIDE DEF S
      <4> QED BY <4>1 DEF Register!Ids
    <3>2. ASSUME NEW y \in Register!Ids(S) PROVE y \in kept
      <4>1. PICK z \in S : y = z[1]
        BY DEF Register!Ids
      <4> QED BY <4>1
    <3> QED BY <3>1, <3>2
  <2> HIDE DEF kept, users
  <2> QED BY <2>1 DEF IsCase
<1>4. IsMember(row) /\ row.status = Register!ContainedStatus(kind) /\ Register!ContainedStatus(kind) \in Held
  <2>1. IsMember(people[m])
    BY DEF RegisterInv, RegisterShaped
  <2> QED BY <2>1, UpIs DEF IsMember, Register!ContainedStatus, Held
<1>5. /\ membership' = [k \in Memberships |-> membership'[k]]
      /\ \A k \in Memberships :
            /\ IsMembership(membership'[k]) /\ membership'[k].member = membership[k].member
            /\ k \in kept => membership'[k].status = "SUSPENDED"
            /\ membership[k].member # m => membership'[k].status = membership[k].status
  <2> DEFINE mid == Register!Moved(late, membership, "ACTIVE")
  <2>1. /\ mid = [k \in Memberships |-> mid[k]]
        /\ \A k \in Memberships : /\ IsMembership(mid[k]) /\ mid[k].member = membership[k].member
                                  /\ mid[k].status = IF k \in late THEN "ACTIVE" ELSE membership[k].status
    BY MovedIs DEF RegisterInv
  <2> HIDE DEF mid
  <2>2. membership' = [k \in Memberships |-> IF k \in kept THEN Register!Up(mid[k], "SUSPENDED") ELSE mid[k]]
    <3>1. membership' = [k \in DOMAIN mid |-> IF k \in kept THEN Register!Up(mid[k], "SUSPENDED") ELSE mid[k]]
      BY <1>1 DEF mid, Register!Moved
    <3>2. DOMAIN mid = Memberships
      BY <2>1
    <3> QED BY <3>1, <3>2
  <2> HIDE DEF kept
  <2>3. ASSUME NEW k \in Memberships
        PROVE  /\ IsMembership(membership'[k]) /\ membership'[k].member = membership[k].member
               /\ k \in kept => membership'[k].status = "SUSPENDED"
               /\ membership[k].member # m => membership'[k].status = membership[k].status
    <3>1. /\ IsMembership(Register!Up(mid[k], "SUSPENDED")) /\ Register!Up(mid[k], "SUSPENDED").status = "SUSPENDED"
          /\ Register!Up(mid[k], "SUSPENDED").member = mid[k].member
      BY <2>1, UpIs DEF IsMembership
    <3>2. k \in late => membership[k].member = m
      BY <1>1 DEF Register!MembershipsOf
    <3> QED BY <1>2, <2>1, <2>2, <3>1, <3>2
  <2> QED BY <2>2, <2>3
<1> HIDE DEF kept, users, new, row
<1>6. /\ people' = [x \in People |-> people'[x]] /\ \A x \in People : people'[x] = IF x = m THEN row ELSE people[x]
      /\ case' = [d \in Cases |-> case'[d]] /\ \A d \in Cases : case'[d] = IF d = c THEN new ELSE case[d]
  BY <1>1 DEF RegisterInv, RegisterShaped
<1>7. RegisterShaped'
  BY <1>1, <1>3, <1>4, <1>5, <1>6 DEF RegisterInv, RegisterShaped
<1>8. CasesSound'
  <2>1. \A d \in Cases : Pending(d)' <=> d = c \/ Pending(d)
    BY <1>3, <1>6 DEF Pending
  <2>2. \A d \in Cases \ {c} : case'[d] = case[d] /\ (Pending(d) => case[d].member # m)
    BY <1>1, <1>6
  <2>3. case'[c] = new
    BY <1>6
  <2> QED BY <1>1, <1>2, <1>3, <2>1, <2>2, <2>3 DEF RegisterInv, CasesSound
<1>9. MergesSound' /\ Register!NoMergeChains'
  BY <1>1, <1>4, <1>6 DEF RegisterInv, MergesSound, Register!PersonsKept, Register!NoMergeChains, Held
<1>10. Register!Contained'
  <2> SUFFICES ASSUME NEW d \in Cases, Pending(d)'
               PROVE  /\ people'[case'[d].member].status = Register!ContainedStatus(case'[d].kind)
                      /\ \A k \in Register!Ids(case'[d].memberships) :
                            membership'[k].member = case'[d].member /\ membership'[k].status \in Out
    BY DEF Register!Contained, Pending, Out
  <2>1. CASE d = c
    BY <1>2, <1>3, <1>4, <1>5, <1>6, <2>1 DEF Out
  <2>2. CASE d # c
    <3>1. case'[d] = case[d] /\ Pending(d)
      BY <1>6, <2>2 DEF Pending
    <3>2. /\ people[case[d].member].status = Register!ContainedStatus(case[d].kind)
          /\ \A k \in Register!Ids(case[d].memberships) :
                k \in Memberships /\ membership[k].member = case[d].member /\ membership[k].status \in Out
      BY <3>1 DEF RegisterInv, Register!PersonsKept, Register!Contained, CasesSound, Pending, Out
    <3>3. case[d].member \in People /\ case[d].member # m
      BY <1>1, <3>1, HeldInReview
    <3> QED BY <1>5, <1>6, <3>1, <3>2, <3>3
  <2> QED BY <2>1, <2>2
<1> QED BY <1>7, <1>8, <1>9, <1>10 DEF RegisterInv, Register!PersonsKept

LEMMA DecideCaseKeeps ==
    ASSUME RegisterInv, NEW c \in Cases, NEW u, NEW approve \in BOOLEAN, Register!DecideCase(c, u, approve)
    PROVE  RegisterInv'
<1> DEFINE m == case[c].member
<1>1. PICK status \in {"BLOCKED", "CONFIRMED", "REJECTED"} :
         /\ case' = [case EXCEPT ![c].status = status]
         /\ UNCHANGED membership \/ membership' = Register!Moved(Register!Ids(case[c].memberships), membership, "ACTIVE")
  BY DEF Register!DecideCase
<1>2. PICK after \in {"EXIT_PENDING", "SUCCESSION_REVIEW", case[c].previous} :
         UNCHANGED people \/ people' = [people EXCEPT ![m] = Register!Up(people[m], after)]
  BY DEF Register!DecideCase
<1>3. Pending(c) /\ UNCHANGED merge
  BY DEF Register!DecideCase, Pending
<1>4. m \in People /\ people[m].status \in Held /\ after # "MERGED"
  BY <1>3, HeldInReview DEF RegisterInv, CasesSound
<1> HIDE DEF m
<1>5. IsMember(people[m]) /\ IsMember(Register!Up(people[m], after)) /\ Register!Up(people[m], after).status = after
  BY <1>4, UpIs DEF RegisterInv, RegisterShaped, IsMember
<1>6. /\ people' = [x \in People |-> people'[x]]
      /\ \A x \in People : people'[x] = people[x] \/ (x = m /\ people'[x] = Register!Up(people[m], after))
  BY <1>2, <1>4 DEF RegisterInv, RegisterShaped
<1>7. /\ membership' = [k \in Memberships |-> membership'[k]]
      /\ \A k \in Memberships :
            /\ IsMembership(membership'[k]) /\ membership'[k].member = membership[k].member
            /\ k \notin Register!Ids(case[c].memberships) => membership'[k].status = membership[k].status
  <2>1. CASE UNCHANGED membership
    BY <2>1 DEF RegisterInv, RegisterShaped
  <2>2. CASE membership' = Register!Moved(Register!Ids(case[c].memberships), membership, "ACTIVE")
    BY <2>2, MovedIs DEF RegisterInv
  <2> QED BY <1>1, <2>1, <2>2
<1> DEFINE row == [case[c] EXCEPT !.status = status]
<1>8. IsCase(row) /\ row.status = status
  <2>1. IsCase(case[c])
    BY DEF RegisterInv, RegisterShaped
  <2> QED BY <2>1 DEF IsCase
<1>9. case' = [d \in Cases |-> case'[d]] /\ \A d \in Cases : case'[d] = IF d = c THEN row ELSE case[d]
  <2>1. case' = [case EXCEPT ![c] = row]
    BY <1>1
  <2> HIDE DEF row
  <2> QED BY <2>1 DEF RegisterInv, RegisterShaped
<1> HIDE DEF row
<1>10. \A d \in Cases : Pending(d)' => d # c /\ Pending(d) /\ case'[d] = case[d]
  BY <1>8, <1>9 DEF Pending
<1>11. RegisterShaped'
  BY <1>3, <1>5, <1>6, <1>7, <1>8, <1>9 DEF RegisterInv, RegisterShaped
<1>12. CasesSound'
  BY <1>10 DEF RegisterInv, CasesSound
<1>13. MergesSound' /\ Register!NoMergeChains'
  BY <1>3, <1>4, <1>5, <1>6 DEF RegisterInv, MergesSound, Register!PersonsKept, Register!NoMergeChains
<1>14. Register!Contained'
  <2> SUFFICES ASSUME NEW d \in Cases, Pending(d)'
               PROVE  /\ people'[case[d].member].status = Register!ContainedStatus(case[d].kind)
                      /\ \A k \in Register!Ids(case[d].memberships) :
                            membership'[k].member = case[d].member /\ membership'[k].status \in Out
    BY <1>10 DEF Register!Contained, Pending, Out
  <2>1. d # c /\ Pending(d)
    BY <1>10
  <2>2. case[d].member \in People /\ case[d].member # m
    BY <1>3, <2>1, HeldInReview DEF RegisterInv, CasesSound, m
  <2>3. /\ people[case[d].member].status = Register!ContainedStatus(case[d].kind)
        /\ \A k \in Register!Ids(case[d].memberships) :
              k \in Memberships /\ membership[k].member = case[d].member /\ membership[k].status \in Out
    BY <2>1 DEF RegisterInv, Register!PersonsKept, Register!Contained, CasesSound, Pending, Out
  <2>4. \A k \in Register!Ids(case[c].memberships) : membership[k].member = m
    BY <1>3 DEF RegisterInv, Register!PersonsKept, Register!Contained, Pending, m
  <2> QED BY <1>6, <1>7, <2>2, <2>3, <2>4
<1> QED BY <1>11, <1>12, <1>13, <1>14 DEF RegisterInv, Register!PersonsKept

LEMMA RegisterInvNext ==
    ASSUME RegisterInv, [Register!Next]_(Register!vars)
    PROVE  RegisterInv'
<1>1. ASSUME NEW u \in Accounts, (\E m \in People : Register!CreateUser(u, m))
                \/ (\E target \in {"ACTIVE", "DISABLED"} : Register!TransitionUser(u, target)) \/ Register!RecoverAccount(u)
      PROVE  RegisterInv'
  <2>1. UNCHANGED <<people, membership, merge, case>>
    BY <1>1 DEF Register!CreateUser, Register!TransitionUser, Register!RecoverAccount
  <2> QED BY <2>1, AccountKeeps
<1>2. CASE UNCHANGED Register!vars
  BY <1>2, AccountKeeps DEF Register!vars
<1> QED
  BY <1>1, <1>2, TransitionMemberKeeps, MembershipKeeps, RequestMergeKeeps, LapseMergeKeeps, DecideMergeKeeps,
     RequestCaseKeeps, DecideCaseKeeps DEF Register!Next

\* Nothing gives a member in review back what the case took, and the survivor of a merge is never
\* merged itself, for any people, memberships, accounts, merges and cases (MemberContinuityService,
\* MemberService.decide_merge).
THEOREM PersonsAlwaysKept ==
    ASSUME NoneMerged
    PROVE  Register!Spec => []Register!PersonsKept
<1>1. Register!Init => RegisterInv
  BY RegisterInvInit
<1>2. RegisterInv /\ [Register!Next]_(Register!vars) => RegisterInv'
  BY RegisterInvNext
<1>3. RegisterInv => Register!PersonsKept
  BY DEF RegisterInv
<1> QED BY <1>1, <1>2, <1>3, PTL DEF Register!Spec

-----------------------------------------------------------------------------
\* New members
IntakeInv == entrants = [m \in Members |-> entrants[m]] /\ Intake!NoTwins

\* What both ways into the register have in common: each entry becomes one member.
LEMMA Added ==
    ASSUME NEW entries, NEW resolved, Intake!Add(entries, resolved)
    PROVE  /\ entrants' = [m \in Members |-> entrants'[m]]
           /\ \A m \in Intake!Registered : entrants'[m] = entrants[m]
           /\ \A m \in Intake!Registered' \ Intake!Registered : entrants'[m].entry \in entries /\ entrants'[m].resolved = resolved
           /\ \A m, n \in Intake!Registered' \ Intake!Registered : m # n => entrants'[m].entry # entrants'[n].entry
<1> DEFINE free == Members \ Intake!Registered
           places == {p \in [entries -> free] : \A e, f \in entries : e # f => p[e] # p[f]}
           place == CHOOSE p \in places : TRUE
<1>1. place \in [entries -> free]
  <2>1. places # {}
    BY DEF Intake!Add
  <2>2. place \in places
    BY <2>1
  <2> QED BY <2>2
<1>2. entrants' = [m \in Members |-> IF \E e \in entries : place[e] = m
          THEN [status |-> "APPLICANT", entry |-> CHOOSE e \in entries : place[e] = m, resolved |-> resolved]
          ELSE entrants[m]]
  BY DEF Intake!Add
<1> HIDE DEF place, places
<1>3. ASSUME NEW m \in Members, NEW e \in entries, place[e] = m
      PROVE  entrants'[m].entry \in entries /\ place[entrants'[m].entry] = m /\ entrants'[m].resolved = resolved
  <2> DEFINE f == CHOOSE g \in entries : place[g] = m
  <2>1. f \in entries /\ place[f] = m
    BY <1>3
  <2>2. entrants'[m] = [status |-> "APPLICANT", entry |-> f, resolved |-> resolved]
    BY <1>2, <1>3
  <2> HIDE DEF f
  <2> QED BY <2>1, <2>2
<1>4. ASSUME NEW m \in Intake!Registered PROVE entrants'[m] = entrants[m]
  <2>1. \A e \in entries : place[e] # m
    BY <1>1
  <2> QED BY <1>2, <2>1 DEF Intake!Registered
<1>5. ASSUME NEW m \in Intake!Registered' \ Intake!Registered
      PROVE  m \in Members /\ \E e \in entries : place[e] = m
  BY <1>2 DEF Intake!Registered
<1>6. ASSUME NEW m \in Intake!Registered' \ Intake!Registered
      PROVE  entrants'[m].entry \in entries /\ place[entrants'[m].entry] = m /\ entrants'[m].resolved = resolved
  BY <1>3, <1>5
<1>7. entrants' = [m \in Members |-> entrants'[m]]
  BY <1>2
<1>8. ASSUME NEW m \in Intake!Registered' \ Intake!Registered, NEW n \in Intake!Registered' \ Intake!Registered,
             entrants'[m].entry = entrants'[n].entry
      PROVE  m = n
  BY <1>6, <1>8
<1>9. \A m, n \in Intake!Registered' \ Intake!Registered : m # n => entrants'[m].entry # entrants'[n].entry
  BY <1>8
<1> HIDE DEF free
<1> QED BY <1>4, <1>6, <1>7, <1>9

\* Entries that are nobody in the register, nor each other, keep twins out.
LEMMA AddKeeps ==
    ASSUME IntakeInv, NEW entries, NEW resolved, Intake!Add(entries, resolved),
           \A e \in entries : Intake!ExistingName(e) => resolved,
           \A e, f \in entries : e # f => ~Intake!SameName(e, f)
    PROVE  IntakeInv'
<1>1. /\ \A e, f \in entries : e # f => ~Intake!SameIdentifier(e, f)
      /\ \A e \in entries, m \in Intake!Registered : ~Intake!SameIdentifier(e, entrants[m].entry)
  BY DEF Intake!Add, Intake!Taken
<1> SUFFICES ASSUME NEW m \in Intake!Registered', NEW n \in Intake!Registered', m # n,
                    Content[entrants'[m].entry].cooperative = Content[entrants'[n].entry].cooperative
             PROVE  /\ ~Intake!SameIdentifier(entrants'[m].entry, entrants'[n].entry)
                    /\ Intake!SameName(entrants'[m].entry, entrants'[n].entry) => entrants'[m].resolved \/ entrants'[n].resolved
  BY Added DEF IntakeInv, Intake!NoTwins, Intake!What
<1>2. \A x, y : (Intake!SameIdentifier(x, y) <=> Intake!SameIdentifier(y, x)) /\ (Intake!SameName(x, y) <=> Intake!SameName(y, x))
  BY DEF Intake!SameIdentifier, Intake!SameName
<1>3. CASE m \in Intake!Registered /\ n \in Intake!Registered
  BY <1>3, Added DEF IntakeInv, Intake!NoTwins, Intake!What
<1>4. ASSUME NEW a \in Intake!Registered, NEW b \in Intake!Registered' \ Intake!Registered,
             Content[entrants'[a].entry].cooperative = Content[entrants'[b].entry].cooperative
      PROVE  /\ ~Intake!SameIdentifier(entrants'[b].entry, entrants'[a].entry)
             /\ Intake!SameName(entrants'[b].entry, entrants'[a].entry) => entrants'[b].resolved
  <2>1. entrants'[a] = entrants[a] /\ entrants'[b].entry \in entries /\ entrants'[b].resolved = resolved
    BY Added
  <2>2. a \in Intake!In(Content[entrants'[b].entry].cooperative)
    BY <1>4, <2>1 DEF Intake!In, Intake!What
  <2> QED BY <1>1, <2>1, <2>2 DEF Intake!ExistingName
<1>5. CASE m \notin Intake!Registered /\ n \notin Intake!Registered
  BY <1>1, <1>5, Added
<1> QED BY <1>2, <1>3, <1>4, <1>5

LEMMA IntakeInvNext ==
    ASSUME IntakeInv, [Intake!Next]_(Intake!vars)
    PROVE  IntakeInv'
<1>1. ASSUME NEW e \in Intake!Entries, NEW resolved \in BOOLEAN, Intake!CreateMember(e, resolved)
      PROVE  IntakeInv'
  <2>1. \A f \in {e} : Intake!ExistingName(f) => resolved
    BY <1>1 DEF Intake!CreateMember
  <2> QED BY <1>1, <2>1, AddKeeps DEF Intake!CreateMember
<1>2. ASSUME NEW b \in DOMAIN Batches, Intake!ApplyImport(b)
      PROVE  IntakeInv'
  <2> DEFINE entries == Intake!Ready(staged, b)
  <2>1. Intake!Add(entries, FALSE) /\ entries = Intake!Ready(Intake!Current(b), b)
    BY <1>2 DEF Intake!ApplyImport
  <2>2. ASSUME NEW r \in entries
        PROVE  /\ r \in Intake!RowsOf(b) /\ ~Intake!ExistingName(r) /\ Content[r].name # None
               /\ \A o \in Intake!RowsOf(b) \ {r} : Content[o].name # None => ~Intake!SameName(r, o)
    <3>1. r \in Intake!RowsOf(b) /\ Content[r].batch = b /\ Intake!Verdict(r) = "READY"
      BY <2>1 DEF Intake!Ready, Intake!Current, Intake!Evaluated, Intake!RowsOf
    <3> QED BY <3>1 DEF Intake!Verdict
  <2>3. \A e, f \in entries : e # f => ~Intake!SameName(e, f)
    BY <2>2
  <2> QED BY <2>1, <2>2, <2>3, AddKeeps
<1>3. CASE UNCHANGED entrants
  BY <1>3 DEF IntakeInv, Intake!NoTwins, Intake!Registered, Intake!What
<1> QED BY <1>1, <1>2, <1>3 DEF Intake!Next, Intake!vars, Intake!StageImport, Intake!PreviewImport, Intake!DecideImport

\* No person enters a cooperative twice under one identifier, nor under one name but through a review
\* that resolved it, for any members, entries, rows and batches (MemberService, MemberImportService).
THEOREM NeverTwins == Intake!Spec => []Intake!NoTwins
<1>1. Intake!Init => IntakeInv
  BY DEF Intake!Init, IntakeInv, Intake!NoTwins, Intake!Registered
<1>2. IntakeInv /\ [Intake!Next]_(Intake!vars) => IntakeInv'
  BY IntakeInvNext
<1>3. IntakeInv => Intake!NoTwins
  BY DEF IntakeInv
<1> QED BY <1>1, <1>2, <1>3, PTL DEF Intake!Spec

-----------------------------------------------------------------------------
\* The trust in another node
TrustNumbers ==
    {now, admitted, bond, application.expiry, application.until, contract.until} \subseteq Int
TrustShaped ==
    /\ {"status", "accepted", "expiry", "until"} \subseteq DOMAIN application /\ {"status", "until"} \subseteq DOMAIN contract
    /\ limits = [l \in Limits |-> limits[l]] /\ \A l \in Limits : "status" \in DOMAIN limits[l]
    /\ incidents = [i \in Incidents |-> incidents[i]] /\ \A i \in Incidents : "status" \in DOMAIN incidents[i]
    /\ forms = [f \in Forms |-> forms[f]] /\ \A f \in Forms : "status" \in DOMAIN forms[f]

\* The people named serve as long as the trust that was applied for, and the contract is for no longer.
TermsOrdered ==
    /\ application.expiry <= application.until
    /\ contract.status # "ABSENT" => contract.until <= application.until
    /\ node = "ABSENT" => contract.status = "ABSENT"

TrustInv == TrustNumbers /\ TrustShaped /\ TermsOrdered /\ Trust!NodeAccountable

\* What a node was admitted on does not fall away while it is admitted, but by the passing of time.
GroundsStay ==
    /\ contract.status = "ACTIVE" => contract' = contract
    /\ application.accepted => application'.accepted
    /\ node' = "ACTIVE" => application'.until = application.until
    /\ bond <= bond' /\ now <= now' /\ admitted' = admitted
    /\ Trust!ActiveLimit # {} => Trust!ActiveLimit' # {}
    /\ node' = "ACTIVE" => \A i \in Incidents : incidents'[i].status = "CONTAINED" => incidents[i].status = "CONTAINED"

LEMMA TrustInvInit ==
    ASSUME Trust!Init
    PROVE  TrustInv
<1>1. TrustNumbers /\ TermsOrdered
  BY DEF Trust!Init, TrustNumbers, TermsOrdered
<1>2. TrustShaped
  BY DEF Trust!Init, TrustShaped
<1>3. Trust!NodeAccountable
  BY DEF Trust!Init, Trust!NodeAccountable, Trust!AdmittedOnGrounds, Trust!EpochReconciled
<1> QED BY <1>1, <1>2, <1>3 DEF TrustInv

\* A step that does not admit the node and leaves the forms alone
LEMMA GroundsKeep ==
    ASSUME TrustInv, TrustNumbers', TrustShaped', TermsOrdered', GroundsStay, node' = "ACTIVE" => node = "ACTIVE",
           UNCHANGED <<epoch, forms>>
    PROVE  TrustInv'
<1>1. Trust!AdmittedOnGrounds'
  <2>1. SUFFICES ASSUME node' = "ACTIVE" PROVE Trust!AdmittedOnGrounds'
    BY DEF Trust!AdmittedOnGrounds
  <2>2. contract' = contract /\ contract'.status = "ACTIVE" /\ application'.accepted /\ Trust!ActiveLimit' # {}
    BY <2>1 DEF TrustInv, Trust!NodeAccountable, Trust!AdmittedOnGrounds, GroundsStay
  <2>3. \A i \in Incidents : incidents'[i].status # "CONTAINED"
    BY <2>1 DEF TrustInv, Trust!NodeAccountable, Trust!AdmittedOnGrounds, GroundsStay
  <2>4. /\ admitted <= now /\ admitted < bond /\ admitted < contract.until /\ contract.until <= application.until
        /\ bond <= bond' /\ now <= now' /\ admitted' = admitted /\ application'.until = application.until
    BY <2>1 DEF TrustInv, Trust!NodeAccountable, Trust!AdmittedOnGrounds, GroundsStay
  <2>5. admitted' <= now' /\ admitted' < bond'
    BY <2>4 DEF TrustInv, TrustNumbers
  <2> QED BY <2>2, <2>3, <2>4, <2>5 DEF Trust!AdmittedOnGrounds
<1>2. Trust!EpochReconciled'
  BY DEF TrustInv, Trust!NodeAccountable, Trust!EpochReconciled
<1> QED BY <1>1, <1>2 DEF TrustInv, Trust!NodeAccountable

\* The review of the application, the status of the node and its keys
LEMMA ReviewKeeps ==
    ASSUME TrustInv, UNCHANGED <<now, admitted, contract, limits, bond, incidents, epoch, forms>>,
           {"status", "accepted", "expiry", "until"} \subseteq DOMAIN application', application.accepted => application'.accepted,
           application'.expiry = application.expiry, application'.until = application.until,
           node' = "ACTIVE" => node = "ACTIVE", node' = "ABSENT" => node = "ABSENT"
    PROVE  TrustInv'
<1>1. TrustNumbers' /\ TermsOrdered'
  BY DEF TrustInv, TrustNumbers, TermsOrdered
<1>2. TrustShaped'
  BY DEF TrustInv, TrustShaped
<1>3. GroundsStay
  BY DEF TrustInv, TrustNumbers, GroundsStay, Trust!ActiveLimit
<1> QED BY <1>1, <1>2, <1>3, GroundsKeep

LEMMA TimePassesKeeps ==
    ASSUME TrustInv, Trust!TimePasses
    PROVE  TrustInv'
<1>1. /\ now' = now + 1
      /\ UNCHANGED <<admitted, node, application, contract, limits, bond, incidents, epoch, forms>>
  BY DEF Trust!TimePasses
<1>2. TrustNumbers' /\ TermsOrdered'
  BY <1>1 DEF TrustInv, TrustNumbers, TermsOrdered
<1>3. TrustShaped'
  BY <1>1 DEF TrustInv, TrustShaped
<1>4. GroundsStay
  BY <1>1 DEF TrustInv, TrustNumbers, GroundsStay, Trust!ActiveLimit
<1> QED BY <1>1, <1>2, <1>3, <1>4, GroundsKeep

LEMMA CreateApplicationKeeps ==
    ASSUME TrustInv, NEW u, NEW key, NEW expiry \in Trust!Ends, NEW until \in Trust!Ends,
           Trust!CreateApplication(u, key, expiry, until)
    PROVE  TrustInv'
<1>1. /\ node = "ABSENT" /\ node' = "DRAFT" /\ expiry <= until /\ expiry \in Int /\ until \in Int
      /\ application' = [application EXCEPT !.status = "DRAFT", !.creator = u, !.expiry = expiry, !.until = until]
      /\ UNCHANGED <<now, admitted, contract, limits, bond, incidents, epoch, forms>>
  BY DEF Trust!CreateApplication, Trust!Ends
<1>2. /\ {"status", "accepted", "expiry", "until"} \subseteq DOMAIN application'
      /\ application'.accepted = application.accepted /\ application'.expiry = expiry /\ application'.until = until
  BY <1>1 DEF TrustInv, TrustShaped
<1>3. TrustNumbers' /\ TermsOrdered'
  BY <1>1, <1>2 DEF TrustInv, TrustNumbers, TermsOrdered
<1>4. TrustShaped'
  BY <1>1, <1>2 DEF TrustInv, TrustShaped
<1>5. GroundsStay
  BY <1>1, <1>2 DEF TrustInv, TrustNumbers, GroundsStay, Trust!ActiveLimit
<1> QED BY <1>1, <1>3, <1>4, <1>5, GroundsKeep

LEMMA ApplicationKeeps ==
    ASSUME TrustInv, NEW u,
           \/ Trust!AcceptResponsibility \/ Trust!SubmitApplication(u) \/ Trust!VerifyIdentity(u)
           \/ Trust!IssueChallenge(u) \/ Trust!RecordChallengeResponse(u, 0) \/ (\E approve \in BOOLEAN : Trust!DecideAudit(u, approve))
    PROVE  TrustInv'
<1>1. UNCHANGED <<now, admitted, contract, limits, bond, incidents, epoch, forms>>
  BY DEF Trust!AcceptResponsibility, Trust!SubmitApplication, Trust!VerifyIdentity, Trust!IssueChallenge,
         Trust!RecordChallengeResponse, Trust!DecideAudit, Trust!times
<1>2. (node' = "ACTIVE" => node = "ACTIVE") /\ (node' = "ABSENT" => node = "ABSENT")
  BY DEF Trust!AcceptResponsibility, Trust!SubmitApplication, Trust!VerifyIdentity, Trust!IssueChallenge,
         Trust!RecordChallengeResponse, Trust!DecideAudit, Trust!Stage
<1>3. {"status", "accepted", "expiry", "until"} \subseteq DOMAIN application
  BY DEF TrustInv, TrustShaped
<1>4. /\ {"status", "accepted", "expiry", "until"} \subseteq DOMAIN application' /\ (application.accepted => application'.accepted)
      /\ application'.expiry = application.expiry /\ application'.until = application.until
  BY <1>3 DEF Trust!AcceptResponsibility, Trust!SubmitApplication, Trust!VerifyIdentity, Trust!IssueChallenge,
         Trust!RecordChallengeResponse, Trust!DecideAudit, Trust!Stage
<1> QED BY <1>1, <1>2, <1>4, ReviewKeeps

LEMMA ProposeContractKeeps ==
    ASSUME TrustInv, NEW u, NEW from, NEW until \in Trust!Ends, Trust!ProposeTrustContract(u, from, until)
    PROVE  TrustInv'
<1>1. /\ node = "AUDIT_PENDING" /\ contract.status # "ACTIVE" /\ until <= application.expiry /\ until \in Int
      /\ contract' = [status |-> "DRAFT", proposer |-> u, approver |-> Nobody, from |-> from, until |-> until]
      /\ UNCHANGED <<now, admitted, node, application, limits, bond, incidents, epoch, forms>>
  BY DEF Trust!ProposeTrustContract, Trust!times, Trust!Ends
<1>2. {"status", "until"} \subseteq DOMAIN contract' /\ contract'.until = until
  BY <1>1
<1>3. TrustNumbers' /\ TermsOrdered'
  BY <1>1, <1>2 DEF TrustInv, TrustNumbers, TermsOrdered
<1>4. TrustShaped'
  BY <1>1, <1>2 DEF TrustInv, TrustShaped
<1>5. GroundsStay
  BY <1>1 DEF TrustInv, TrustNumbers, GroundsStay, Trust!ActiveLimit
<1> QED BY <1>1, <1>3, <1>4, <1>5, GroundsKeep

LEMMA ApproveContractKeeps ==
    ASSUME TrustInv, NEW u, Trust!ApproveTrustContract(u)
    PROVE  TrustInv'
<1>1. /\ contract.status = "DRAFT" /\ node = "AUDIT_PENDING" /\ node' = "LIMITED"
      /\ contract' = [contract EXCEPT !.status = "ACTIVE", !.approver = u]
      /\ application' = [application EXCEPT !.status = "LIMITED"]
      /\ UNCHANGED <<now, admitted, limits, bond, incidents, epoch, forms>>
  BY DEF Trust!ApproveTrustContract, Trust!Stage, Trust!times
<1>2. /\ {"status", "until"} \subseteq DOMAIN contract' /\ contract'.until = contract.until
      /\ {"status", "accepted", "expiry", "until"} \subseteq DOMAIN application' /\ application'.accepted = application.accepted
      /\ application'.expiry = application.expiry /\ application'.until = application.until
  BY <1>1 DEF TrustInv, TrustShaped
<1>3. TrustNumbers' /\ TermsOrdered'
  BY <1>1, <1>2 DEF TrustInv, TrustNumbers, TermsOrdered
<1>4. TrustShaped'
  BY <1>1, <1>2 DEF TrustInv, TrustShaped
<1>5. GroundsStay
  BY <1>1, <1>2 DEF TrustInv, TrustNumbers, GroundsStay, Trust!ActiveLimit
<1> QED BY <1>1, <1>3, <1>4, <1>5, GroundsKeep

\* Limits and incidents leave the terms alone.
LEMMA TermsKeep ==
    ASSUME TrustInv, UNCHANGED <<now, admitted, application, contract, bond>>, node' = "ABSENT" => node = "ABSENT"
    PROVE  TrustNumbers' /\ TermsOrdered' /\ bond <= bond' /\ now <= now'
BY DEF TrustInv, TrustNumbers, TermsOrdered

LEMMA ProposeBilateralLimitKeeps ==
    ASSUME TrustInv, NEW u, NEW l \in Limits, NEW amount, Trust!ProposeBilateralLimit(u, l, amount)
    PROVE  TrustInv'
<1> DEFINE new == [status |-> "DRAFT", amount |-> amount, proposer |-> u]
<1>1. /\ limits' = [limits EXCEPT ![l] = new] /\ limits[l].status = "ABSENT"
      /\ UNCHANGED <<now, admitted, node, application, contract, bond, incidents, epoch, forms>>
  BY DEF Trust!ProposeBilateralLimit, Trust!times
<1>2. "status" \in DOMAIN new
  OBVIOUS
<1> HIDE DEF new
<1>3. limits' = [k \in Limits |-> limits'[k]] /\ \A k \in Limits : limits'[k] = IF k = l THEN new ELSE limits[k]
  BY <1>1 DEF TrustInv, TrustShaped
<1>4. TrustShaped'
  BY <1>1, <1>2, <1>3 DEF TrustInv, TrustShaped
<1>5. Trust!ActiveLimit \subseteq Trust!ActiveLimit'
  BY <1>1, <1>3 DEF Trust!ActiveLimit
<1>6. TrustNumbers' /\ TermsOrdered' /\ bond <= bond' /\ now <= now'
  BY <1>1, TermsKeep
<1> QED BY <1>1, <1>4, <1>5, <1>6, GroundsKeep DEF GroundsStay

LEMMA ApproveBilateralLimitKeeps ==
    ASSUME TrustInv, NEW u, NEW l \in Limits, Trust!ApproveBilateralLimit(u, l)
    PROVE  TrustInv'
<1>1. /\ limits' = [k \in Limits |->
                     IF k = l THEN [limits[k] EXCEPT !.status = "ACTIVE"]
                     ELSE IF k \in Trust!ActiveLimit THEN [limits[k] EXCEPT !.status = "RETIRED"] ELSE limits[k]]
      /\ UNCHANGED <<now, admitted, node, application, contract, bond, incidents, epoch, forms>>
  BY DEF Trust!ApproveBilateralLimit, Trust!times
<1>2. ASSUME NEW k \in Limits
      PROVE  "status" \in DOMAIN limits'[k] /\ (k = l => limits'[k].status = "ACTIVE")
  <2>1. "status" \in DOMAIN limits[k]
    BY DEF TrustInv, TrustShaped
  <2>2. CASE k = l
    <3>1. limits'[k] = [limits[k] EXCEPT !.status = "ACTIVE"]
      BY <1>1, <2>2
    <3> QED BY <2>1, <3>1
  <2>3. CASE k # l /\ k \in Trust!ActiveLimit
    <3>1. limits'[k] = [limits[k] EXCEPT !.status = "RETIRED"]
      BY <1>1, <2>3
    <3> QED BY <2>1, <2>3, <3>1
  <2>4. CASE k # l /\ k \notin Trust!ActiveLimit
    BY <1>1, <2>1, <2>4
  <2> QED BY <2>2, <2>3, <2>4
<1>3. TrustShaped'
  <2>1. limits' = [k \in Limits |-> limits'[k]]
    BY <1>1
  <2> QED BY <1>1, <1>2, <2>1 DEF TrustInv, TrustShaped
<1>4. l \in Trust!ActiveLimit'
  BY <1>2 DEF Trust!ActiveLimit
<1>5. TrustNumbers' /\ TermsOrdered' /\ bond <= bond' /\ now <= now'
  BY <1>1, TermsKeep
<1> QED BY <1>1, <1>3, <1>4, <1>5, GroundsKeep DEF GroundsStay

LEMMA OpenNodeIncidentKeeps ==
    ASSUME TrustInv, NEW u, NEW i \in Incidents, NEW compromise, Trust!OpenNodeIncident(u, i, compromise)
    PROVE  TrustInv'
<1> DEFINE new == [status |-> "CONTAINED", opener |-> u, compromise |-> compromise]
<1>1. /\ incidents' = [incidents EXCEPT ![i] = new] /\ node' = "QUARANTINED"
      /\ UNCHANGED <<now, admitted, application, contract, limits, bond, epoch, forms>>
  BY DEF Trust!OpenNodeIncident, Trust!times
<1>2. "status" \in DOMAIN new
  OBVIOUS
<1> HIDE DEF new
<1>3. TrustShaped'
  BY <1>1, <1>2 DEF TrustInv, TrustShaped
<1>4. TrustNumbers' /\ TermsOrdered' /\ bond <= bond' /\ now <= now'
  BY <1>1, TermsKeep
<1> QED BY <1>1, <1>3, <1>4, GroundsKeep DEF GroundsStay, Trust!ActiveLimit

LEMMA ResolveIncidentKeeps ==
    ASSUME TrustInv, NEW u, NEW i \in Incidents, Trust!ResolveIncident(u, i)
    PROVE  TrustInv'
<1> DEFINE new == [incidents[i] EXCEPT !.status = "RESOLVED"]
<1>1. /\ incidents' = [incidents EXCEPT ![i] = new]
      /\ UNCHANGED <<now, admitted, node, application, contract, limits, bond, epoch, forms>>
  BY DEF Trust!ResolveIncident, Trust!times
<1>2. "status" \in DOMAIN new /\ new.status = "RESOLVED"
  <2>1. "status" \in DOMAIN incidents[i]
    BY DEF TrustInv, TrustShaped
  <2> QED BY <2>1
<1> HIDE DEF new
<1>3. incidents' = [j \in Incidents |-> incidents'[j]] /\ \A j \in Incidents : incidents'[j] = IF j = i THEN new ELSE incidents[j]
  BY <1>1 DEF TrustInv, TrustShaped
<1>4. TrustShaped'
  BY <1>1, <1>2, <1>3 DEF TrustInv, TrustShaped
<1>5. TrustNumbers' /\ TermsOrdered' /\ bond <= bond' /\ now <= now'
  BY <1>1, TermsKeep
<1> QED BY <1>1, <1>2, <1>3, <1>4, <1>5, GroundsKeep DEF GroundsStay, Trust!ActiveLimit

LEMMA RegisterBondKeeps ==
    ASSUME TrustInv, NEW u, NEW until \in Trust!Ends, Trust!RegisterBond(u, until)
    PROVE  TrustInv'
<1>1. /\ bond' = IF until > bond THEN until ELSE bond
      /\ UNCHANGED <<now, admitted, node, application, contract, limits, incidents, epoch, forms>>
  BY DEF Trust!RegisterBond, Trust!times
<1>2. bond' \in Int /\ bond <= bond' /\ now <= now'
  BY <1>1 DEF TrustInv, TrustNumbers, Trust!Ends
<1>3. TrustNumbers' /\ TermsOrdered'
  BY <1>1, <1>2 DEF TrustInv, TrustNumbers, TermsOrdered
<1>4. TrustShaped'
  BY <1>1 DEF TrustInv, TrustShaped
<1> QED BY <1>1, <1>2, <1>3, <1>4, GroundsKeep DEF GroundsStay, Trust!ActiveLimit

\* The only step that admits the node asks for all it rests on.
LEMMA ActivateNodeKeeps ==
    ASSUME TrustInv, NEW u, Trust!ActivateNode(u)
    PROVE  TrustInv'
<1>1. /\ UNCHANGED <<now, contract, limits, bond, incidents, epoch, forms>> /\ Trust!InForce /\ Trust!Sound
      /\ node = "LIMITED" /\ node' = "ACTIVE" /\ admitted' = now /\ application' = [application EXCEPT !.status = "ACTIVE"]
  BY DEF Trust!ActivateNode, Trust!Stage
<1>2. /\ {"status", "accepted", "expiry", "until"} \subseteq DOMAIN application' /\ application'.accepted = application.accepted
      /\ application'.expiry = application.expiry /\ application'.until = application.until
  BY <1>1 DEF TrustInv, TrustShaped
<1>3. TrustShaped'
  BY <1>1, <1>2 DEF TrustInv, TrustShaped
<1>4. TrustNumbers' /\ TermsOrdered'
  BY <1>1, <1>2 DEF TrustInv, TrustNumbers, TermsOrdered
<1>5. contract'.status = "ACTIVE" /\ application'.accepted /\ Trust!ActiveLimit' # {}
  BY <1>1, <1>2 DEF Trust!Sound, Trust!InForce, Trust!ActiveLimit
<1>6. \A i \in Incidents : incidents'[i].status # "CONTAINED"
  BY <1>1 DEF Trust!Sound, Trust!OpenIncident
<1>7. admitted' <= now' /\ admitted' < bond' /\ admitted' < contract'.until /\ contract'.until <= application'.until
  BY <1>1, <1>2 DEF Trust!Sound, Trust!Running, Trust!InForce, TrustInv, TrustNumbers, TermsOrdered
<1>8. Trust!AdmittedOnGrounds'
  BY <1>5, <1>6, <1>7 DEF Trust!AdmittedOnGrounds
<1> QED BY <1>1, <1>3, <1>4, <1>8 DEF TrustInv, Trust!NodeAccountable, Trust!EpochReconciled

LEMMA FormsKeep ==
    ASSUME TrustInv, NEW u,
           \/ Trust!OpenOfflineEpoch(u) \/ Trust!CloseOfflineEpoch(u) \/ (\E f \in Forms : Trust!IssueForm(u, f))
           \/ \E f \in Forms, status \in {"RECORDED", "VOID"} : Trust!SettleForm(u, f, status)
    PROVE  TrustInv'
<1>1. UNCHANGED <<now, admitted, node, application, contract, limits, bond, incidents>>
  BY DEF Trust!OpenOfflineEpoch, Trust!CloseOfflineEpoch, Trust!IssueForm, Trust!SettleForm, Trust!times
<1>2. Trust!AdmittedOnGrounds'
  BY <1>1 DEF TrustInv, Trust!NodeAccountable, Trust!AdmittedOnGrounds, Trust!ActiveLimit
<1>3. TrustShaped'
  <2>1. CASE UNCHANGED forms
    BY <1>1, <2>1 DEF TrustInv, TrustShaped
  <2>2. CASE \E f \in Forms : \E row : forms' = [forms EXCEPT ![f] = row] /\ "status" \in DOMAIN row
    BY <1>1, <2>2 DEF TrustInv, TrustShaped
  <2>3. ASSUME NEW f \in Forms, Trust!IssueForm(u, f)
        PROVE  \E row : forms' = [forms EXCEPT ![f] = row] /\ "status" \in DOMAIN row
    <3>1. forms' = [forms EXCEPT ![f] = [status |-> "ISSUED", issuer |-> u]]
      BY <2>3 DEF Trust!IssueForm
    <3>2. "status" \in DOMAIN [status |-> "ISSUED", issuer |-> u]
      OBVIOUS
    <3> QED BY <3>1, <3>2
  <2>4. ASSUME NEW f \in Forms, NEW status \in {"RECORDED", "VOID"}, Trust!SettleForm(u, f, status)
        PROVE  \E row : forms' = [forms EXCEPT ![f] = row] /\ "status" \in DOMAIN row
    <3> DEFINE row == [forms[f] EXCEPT !.status = status]
    <3>1. forms' = [forms EXCEPT ![f] = row]
      BY <2>4 DEF Trust!SettleForm
    <3>2. "status" \in DOMAIN row
      BY DEF TrustInv, TrustShaped
    <3> HIDE DEF row
    <3> QED BY <3>1, <3>2
  <2> QED BY <2>1, <2>2, <2>3, <2>4 DEF Trust!OpenOfflineEpoch, Trust!CloseOfflineEpoch
<1>4. Trust!EpochReconciled'
  BY DEF Trust!OpenOfflineEpoch, Trust!CloseOfflineEpoch, Trust!IssueForm, Trust!SettleForm, Trust!Reconciled, Trust!EpochReconciled
<1>5. TrustNumbers' /\ TermsOrdered'
  BY <1>1, TermsKeep
<1> QED BY <1>2, <1>3, <1>4, <1>5 DEF TrustInv, Trust!NodeAccountable

\* Exposure, the status of the node and its keys
LEMMA StatusKeeps ==
    ASSUME TrustInv, NEW u,
           \/ Trust!ReserveExposure(u) \/ Trust!RehabilitateNode(u)
           \/ (\E status \in {"SUSPENDED", "QUARANTINED", "REVOKED"} : Trust!ChangeNodeStatus(u, status))
           \/ (\E r \in Rotations, compromise \in BOOLEAN, until \in Trust!Ends : Trust!RequestKeyRotation(u, r, compromise, until))
           \/ (\E r \in Rotations, approve \in BOOLEAN : Trust!ApproveKeyRotation(u, r, approve))
    PROVE  TrustInv'
<1> DEFINE Left == /\ UNCHANGED <<now, admitted, application, contract, limits, bond, incidents, epoch, forms>>
                   /\ (node' = "ACTIVE" => node = "ACTIVE") /\ (node' = "ABSENT" => node = "ABSENT")
<1>1. Trust!ReserveExposure(u) \/ Trust!RehabilitateNode(u) => Left
  BY DEF Trust!ReserveExposure, Trust!RehabilitateNode, Trust!times
<1>2. ASSUME NEW status \in {"SUSPENDED", "QUARANTINED", "REVOKED"}, Trust!ChangeNodeStatus(u, status) PROVE Left
  BY <1>2 DEF Trust!ChangeNodeStatus, Trust!times
<1>3. ASSUME NEW r \in Rotations, NEW compromise \in BOOLEAN, NEW until \in Trust!Ends,
             Trust!RequestKeyRotation(u, r, compromise, until)
      PROVE  Left
  BY <1>3 DEF Trust!RequestKeyRotation
<1>4. ASSUME NEW r \in Rotations, NEW approve \in BOOLEAN, Trust!ApproveKeyRotation(u, r, approve) PROVE Left
  BY <1>4 DEF Trust!ApproveKeyRotation, Trust!times
<1>5. Left
  BY <1>1, <1>2, <1>3, <1>4
<1>6. {"status", "accepted", "expiry", "until"} \subseteq DOMAIN application
  BY DEF TrustInv, TrustShaped
<1> QED BY <1>5, <1>6, ReviewKeeps

LEMMA TrustInvNext ==
    ASSUME TrustInv, [Trust!Next]_(Trust!vars)
    PROVE  TrustInv'
<1>1. CASE UNCHANGED Trust!vars
  BY <1>1, ReviewKeeps DEF Trust!vars, Trust!times, TrustInv, TrustShaped
<1> QED
  BY <1>1, TimePassesKeeps, CreateApplicationKeeps, ApplicationKeeps, ProposeContractKeeps, ApproveContractKeeps,
     ProposeBilateralLimitKeeps, ApproveBilateralLimitKeeps, RegisterBondKeeps, OpenNodeIncidentKeeps, ResolveIncidentKeeps,
     StatusKeeps, ActivateNodeKeeps, FormsKeep DEF Trust!Next

\* A fully admitted node has a contract, limits, a bond and people who accepted, all of which were in
\* force when it was last admitted, its contract for no longer than its people serve, and no incident
\* is open; a closed epoch has every form accounted for. So it is for any users, rotations, incidents,
\* limits and forms, whenever each term ends (ExternalNodeService, OfflineEpochService).
THEOREM NodeAlwaysAccountable == Trust!Spec => []Trust!NodeAccountable
<1>1. Trust!Init => TrustInv
  BY TrustInvInit
<1>2. TrustInv /\ [Trust!Next]_(Trust!vars) => TrustInv'
  BY TrustInvNext
<1>3. TrustInv => Trust!NodeAccountable
  BY DEF TrustInv
<1> QED BY <1>1, <1>2, <1>3, PTL DEF Trust!Spec
=============================================================================

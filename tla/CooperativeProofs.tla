-------------------------- MODULE CooperativeProofs --------------------------
(***************************************************************************)
(* Proofs about what a cooperative decides within itself, each for every   *)
(* value of its constants: the signals of its antifraud rules (Antifraud), *)
(* a trust case with its appeals (Trust), the aid of a solidarity campaign *)
(* (Solidarity), the rationing of a crisis (Crisis) and the share accounts *)
(* with what weighs on them (Risk).                                        *)
(***************************************************************************)
EXTENDS Functions, Integers, FiniteSets, SumProofs, TLAPS

CONSTANTS Members, Nobody, Scanners, Reviewers, Findings, Signals, Scans, MaxSeen
VARIABLES signals, scans

Fraud == INSTANCE Antifraud

CONSTANTS Admins, Auditors, Arbitrators, Protectors, Subject, Claimant, Policies, Decisions, Sanctions, Measures,
          Reputations, Rehabilitations, Steps, AppealWindow, MaxProtective, MaxTime
VARIABLES now, policies, case, declared, measures, decisions, sanctions, reputations, plans

Discipline == INSTANCE Trust

CONSTANTS Operators, Controllers, Donors, Recipients, Pledges, Contributions, Applications, Allocations, Complaints,
          MaxQuantity, Retain
VARIABLES fund, campaign, pledges, contributions, applications, allocations, complaints, report

Aid == INSTANCE Solidarity

CONSTANTS Eligible, Targets, Mandates, Rules, Plans, Snapshots, Forms, MaxAvailable, Maximum, MaximumEnd
VARIABLES clock, targets, mandates, rules, rationing, snapshots, latest, cancelling, forms

Emergency == INSTANCE Crisis WITH now <- clock, plans <- rationing

CONSTANTS RiskAdmins, Officers, Owners, Links, Commitments, Cases, Transfers,
          MaxAmount, MaxBalance, MemberLimit, RelatedLimit, ChainDepth
VARIABLES terms, accounts, links, commitments, cases, transfers

Shares == INSTANCE Risk WITH policies <- terms

-----------------------------------------------------------------------------
\* Signals
FraudAssumptions == MaxSeen \in Nat \ {0} /\ Nobody \notin Members

\* A signal that holds a subject is about one finding, and who reviews it is not who detected it.
SignalSound(g) ==
    /\ Fraud!Holding(g) => \E f \in Findings : signals[g].finding = {f}
    /\ signals[g].status \in {"IN_REVIEW", "CLEARED", "CONFIRMED"} =>
         signals[g].reviewer \notin {Nobody, signals[g].detector}

OneHolder == \A g, h \in Signals : Fraud!Holding(g) /\ Fraud!Holding(h) /\ signals[g].finding = signals[h].finding => g = h

\* What a scan has locked still holds its subject.
KnownHold == \A s \in Scans : \A g \in scans[s].known : Fraud!Holding(g)

FraudInv == Fraud!TypeOK /\ (\A g \in Signals : SignalSound(g)) /\ OneHolder /\ KnownHold

SignalSet == [status : {"ABSENT", "OPEN", "IN_REVIEW", "CLEARED", "CONFIRMED"}, finding : SUBSET Findings,
              detector : Fraud!Anyone, reviewer : Fraud!Anyone, seen : 0..MaxSeen]
ScanSet == [status : {"ABSENT", "RUNNING", "DONE"}, actor : Fraud!Anyone,
            todo : SUBSET Findings, known : SUBSET Signals, fresh : SUBSET Findings]

-----------------------------------------------------------------------------
LEMMA FraudInvInit ==
    ASSUME FraudAssumptions, Fraud!Init
    PROVE  FraudInv
  BY DEF FraudAssumptions, Fraud!Init, Fraud!NoSignal, Fraud!NoScan, Fraud!Anyone, FraudInv, Fraud!TypeOK, SignalSound,
     OneHolder, KnownHold, Fraud!Holding

\* A scan that writes no signal locks only signals that hold a subject.
LEMMA ScanKeeps ==
    ASSUME FraudInv, NEW s \in Scans, NEW row \in ScanSet, scans' = [scans EXCEPT ![s] = row],
           \A g \in row.known : Fraud!Holding(g), UNCHANGED signals
    PROVE  FraudInv'
<1>1. Fraud!TypeOK'
  BY DEF FraudInv, Fraud!TypeOK, ScanSet
<1>2. KnownHold'
  BY DEF FraudInv, Fraud!TypeOK, KnownHold, Fraud!Holding
<1> QED BY <1>1, <1>2 DEF FraudInv, SignalSound, OneHolder, Fraud!Holding

LEMMA BeginScanKeeps ==
    ASSUME FraudInv, NEW s \in Scans, NEW a \in Members, NEW found \in SUBSET Findings, Fraud!BeginScan(s, a, found)
    PROVE  FraudInv'
<1> DEFINE row == [Fraud!NoScan EXCEPT !.status = "RUNNING", !.actor = a, !.todo = found]
<1>1. row \in ScanSet /\ row.known = {}
  BY DEF Fraud!NoScan, ScanSet, Fraud!Anyone
<1>2. scans' = [scans EXCEPT ![s] = row] /\ UNCHANGED signals
  BY DEF Fraud!BeginScan
<1> QED BY <1>1, <1>2, ScanKeeps

LEMMA LookUpKeeps ==
    ASSUME FraudInv, NEW s \in Scans, NEW f \in Findings, Fraud!LookUp(s, f)
    PROVE  FraudInv'
<1> DEFINE row == scans'[s]
<1>1. scans \in [Scans -> ScanSet]
  BY DEF FraudInv, Fraud!TypeOK, ScanSet
<1>2. Fraud!ActiveSignals(f) \subseteq Signals /\ \A g \in Fraud!ActiveSignals(f) : Fraud!Holding(g)
  BY DEF Fraud!ActiveSignals, Fraud!Active, Fraud!Holding
<1>3. row \in ScanSet /\ row.known = scans[s].known \union Fraud!ActiveSignals(f)
  BY <1>1, <1>2 DEF Fraud!LookUp, ScanSet
<1>4. scans' = [scans EXCEPT ![s] = row] /\ UNCHANGED signals
  BY <1>1 DEF Fraud!LookUp
<1>5. \A g \in row.known : Fraud!Holding(g)
  BY <1>2, <1>3 DEF FraudInv, KnownHold
<1> HIDE DEF row
<1> QED BY <1>3, <1>4, <1>5, ScanKeeps

LEMMA AbortScanKeeps ==
    ASSUME FraudInv, NEW s \in Scans, Fraud!AbortScan(s)
    PROVE  FraudInv'
<1>1. Fraud!NoScan \in ScanSet /\ Fraud!NoScan.known = {}
  BY DEF Fraud!NoScan, ScanSet, Fraud!Anyone
<1> QED BY <1>1, ScanKeeps DEF Fraud!AbortScan

-----------------------------------------------------------------------------
\* The commit: what it inserts holds subjects that nothing held, each by a row of its own.
LEMMA CommitScanKeeps ==
    ASSUME FraudAssumptions, FraudInv, NEW s \in Scans, NEW ids \in [Findings -> Signals], Fraud!CommitScan(s, ids)
    PROVE  FraudInv'
<1> DEFINE new(g) == {f \in scans[s].fresh : ids[f] = g}
           inserted(g) == [status |-> "OPEN", finding |-> new(g), detector |-> scans[s].actor,
                           reviewer |-> Nobody, seen |-> 1]
<1>1. /\ signals \in [Signals -> SignalSet] /\ scans \in [Scans -> ScanSet]
  BY DEF FraudInv, Fraud!TypeOK, SignalSet, ScanSet
<1>2. scans[s].fresh \subseteq Findings /\ scans[s].known \subseteq Signals /\ scans[s].actor \in Fraud!Anyone
  BY <1>1 DEF ScanSet
<1>3. \A g \in Signals : new(g) # {} => \E f \in Findings : new(g) = {f}
  BY <1>2 DEF Fraud!CommitScan
<1>4. ASSUME NEW g \in Signals, new(g) # {}
      PROVE  /\ signals'[g] = inserted(g) /\ signals[g].status = "ABSENT"
             /\ \A f \in new(g) : f \in Findings /\ Fraud!ActiveSignals(f) = {}
  BY <1>2, <1>4 DEF Fraud!CommitScan, Fraud!Insertable
<1>5. ASSUME NEW g \in Signals, new(g) = {}
      PROVE  \/ signals'[g] = signals[g]
             \/ signals'[g] = [signals[g] EXCEPT !.seen = signals[g].seen + 1] /\ signals[g].seen < MaxSeen
  BY <1>5 DEF Fraud!CommitScan
<1>6. ASSUME NEW g \in Signals, new(g) = {}
      PROVE  /\ signals'[g] \in SignalSet
             /\ signals'[g].status = signals[g].status /\ signals'[g].finding = signals[g].finding
             /\ signals'[g].reviewer = signals[g].reviewer /\ signals'[g].detector = signals[g].detector
  <2>1. signals[g] \in SignalSet
    BY <1>1
  <2>2. signals[g].seen < MaxSeen => signals[g].seen + 1 \in 0..MaxSeen
    BY <2>1 DEF FraudAssumptions, SignalSet
  <2> QED BY <1>5, <1>6, <2>1, <2>2 DEF SignalSet
<1>7. \A g \in Signals : new(g) \in SUBSET Findings /\ inserted(g) \in SignalSet
  BY <1>2 DEF FraudAssumptions, SignalSet, Fraud!Anyone
<1>8. /\ DOMAIN signals' = Signals /\ signals' = [g \in Signals |-> signals'[g]]
      /\ scans' = [scans EXCEPT ![s] = [Fraud!NoScan EXCEPT !.status = "DONE"]]
  BY DEF Fraud!CommitScan
<1>9. [Fraud!NoScan EXCEPT !.status = "DONE"] \in ScanSet /\ [Fraud!NoScan EXCEPT !.status = "DONE"].known = {}
  BY DEF Fraud!NoScan, ScanSet, Fraud!Anyone
<1>10. \A g, h \in Signals : \A f \in new(g) : f \in new(h) => g = h
  OBVIOUS
<1>11. ASSUME NEW g \in Signals, new(g) # {}
       PROVE  /\ signals'[g] \in SignalSet /\ signals'[g].status = "OPEN" /\ signals'[g].finding = new(g)
              /\ signals[g].status = "ABSENT"
  <2>1. signals'[g] = inserted(g) /\ inserted(g) \in SignalSet /\ signals[g].status = "ABSENT"
    BY <1>4, <1>7, <1>11
  <2>2. inserted(g).status = "OPEN" /\ inserted(g).finding = new(g)
    OBVIOUS
  <2> QED BY <2>1, <2>2
<1>12. ASSUME NEW g \in Signals, NEW h \in Signals, new(g) # {}, new(h) = {}, Fraud!Holding(h)
       PROVE  signals[h].finding # new(g)
  <2>1. PICK f \in Findings : new(g) = {f}
    BY <1>3, <1>12
  <2>2. Fraud!ActiveSignals(f) = {}
    BY <1>4, <1>12, <2>1
  <2> QED BY <1>12, <2>1, <2>2 DEF Fraud!ActiveSignals, Fraud!Active, Fraud!Holding
<1> HIDE DEF new, inserted
<1>13. Fraud!TypeOK'
  <2>1. \A g \in Signals : signals'[g] \in SignalSet
    BY <1>6, <1>11
  <2>2. signals' \in [Signals -> SignalSet]
    BY <1>8, <2>1
  <2>3. scans' \in [Scans -> ScanSet]
    BY <1>1, <1>8, <1>9
  <2> QED BY <2>2, <2>3 DEF Fraud!TypeOK, SignalSet, ScanSet
<1>14. ASSUME NEW g \in Signals PROVE SignalSound(g)'
  <2>1. SignalSound(g)
    BY DEF FraudInv
  <2>2. CASE new(g) # {}
    BY <1>3, <1>11, <2>2 DEF SignalSound
  <2>3. CASE new(g) = {}
    BY <1>6, <2>1, <2>3 DEF SignalSound, Fraud!Holding
  <2> QED BY <2>2, <2>3
<1>15. OneHolder'
  <2>1. SUFFICES ASSUME NEW g \in Signals, NEW h \in Signals, Fraud!Holding(g)', Fraud!Holding(h)',
                        signals'[g].finding = signals'[h].finding
                 PROVE  g = h
    BY DEF OneHolder
  <2>2. CASE new(g) # {} /\ new(h) # {}
    <3>1. PICK f \in Findings : new(g) = {f}
      BY <1>3, <2>2
    <3>2. new(h) = {f}
      BY <1>11, <2>1, <2>2, <3>1
    <3> QED BY <1>10, <3>1, <3>2
  <2>3. CASE new(g) = {} /\ new(h) = {}
    BY <1>6, <2>1, <2>3 DEF FraudInv, OneHolder, Fraud!Holding
  <2>4. CASE new(g) # {} /\ new(h) = {}
    BY <1>6, <1>11, <1>12, <2>1, <2>4 DEF Fraud!Holding
  <2>5. CASE new(g) = {} /\ new(h) # {}
    BY <1>6, <1>11, <1>12, <2>1, <2>5 DEF Fraud!Holding
  <2> QED BY <2>2, <2>3, <2>4, <2>5
<1>16. KnownHold'
  <2>1. SUFFICES ASSUME NEW t \in Scans, NEW g \in scans'[t].known PROVE Fraud!Holding(g)'
    BY DEF KnownHold
  <2>2. t # s /\ g \in scans[t].known
    BY <1>1, <1>8, <1>9, <2>1
  <2>3. g \in Signals /\ Fraud!Holding(g)
    BY <1>1, <2>2 DEF FraudInv, KnownHold, ScanSet
  <2>4. new(g) = {}
    BY <1>11, <2>3 DEF Fraud!Holding
  <2> QED BY <1>6, <2>3, <2>4 DEF Fraud!Holding
<1> QED BY <1>13, <1>14, <1>15, <1>16 DEF FraudInv

-----------------------------------------------------------------------------
\* A review waits for the scans that have locked the signal.
LEMMA SignalReviewKeeps ==
    ASSUME FraudInv, NEW g \in Signals, NEW a \in Members, FraudAssumptions,
           Fraud!BeginReview(g, a) \/ \E decision \in {"CLEARED", "CONFIRMED"} : Fraud!Decide(g, a, decision)
    PROVE  FraudInv'
<1>1. signals \in [Signals -> SignalSet] /\ scans' = scans
  BY DEF FraudInv, Fraud!TypeOK, SignalSet, Fraud!BeginReview, Fraud!Decide
<1>2. signals' \in [Signals -> SignalSet]
  BY <1>1 DEF Fraud!BeginReview, Fraud!Decide, SignalSet, Fraud!Anyone
<1>3. /\ \A h \in Signals : h # g => signals'[h] = signals[h]
      /\ Fraud!Holding(g) /\ signals'[g].finding = signals[g].finding
      /\ signals'[g].detector = signals[g].detector
      /\ signals'[g].reviewer \notin {Nobody, signals[g].detector}
  <2>1. SignalSound(g)
    BY DEF FraudInv
  <2> QED BY <1>1, <2>1 DEF Fraud!BeginReview, Fraud!Decide, SignalSound, Fraud!Holding, FraudAssumptions, SignalSet
<1>4. Fraud!TypeOK'
  BY <1>1, <1>2 DEF FraudInv, Fraud!TypeOK, SignalSet
<1>5. \A h \in Signals : Fraud!Holding(h)' => Fraud!Holding(h)
  BY <1>3 DEF Fraud!Holding
<1>6. \A h \in Signals : signals'[h].finding = signals[h].finding
  BY <1>3
<1>7. ASSUME NEW h \in Signals PROVE SignalSound(h)'
  <2>1. SignalSound(h)
    BY DEF FraudInv
  <2> QED BY <1>3, <1>5, <1>6, <2>1 DEF SignalSound, Fraud!Holding
<1>8. OneHolder'
  BY <1>5, <1>6 DEF FraudInv, OneHolder
<1>9. KnownHold'
  <2>1. g \notin Fraud!Locked
    BY DEF Fraud!BeginReview, Fraud!Decide
  <2>2. \A s \in Scans : g \notin scans[s].known /\ scans[s].known \subseteq Signals
    BY <2>1 DEF Fraud!Locked, FraudInv, Fraud!TypeOK
  <2> QED BY <1>1, <1>3, <2>2 DEF FraudInv, KnownHold, Fraud!Holding
<1> QED BY <1>4, <1>7, <1>8, <1>9 DEF FraudInv

LEMMA FraudInvNext ==
    ASSUME FraudAssumptions, FraudInv, [Fraud!Next]_(Fraud!vars)
    PROVE  FraudInv'
<1>1. CASE UNCHANGED Fraud!vars
  BY <1>1 DEF Fraud!vars, FraudInv, Fraud!TypeOK, SignalSound, OneHolder, KnownHold, Fraud!Holding
<1> QED
  BY <1>1, BeginScanKeeps, LookUpKeeps, CommitScanKeeps, AbortScanKeeps, SignalReviewKeeps DEF Fraud!Next

-----------------------------------------------------------------------------
\* However scans and reviews overlap, a rule holds a subject by one signal at most, only a reviewer who
\* did not detect it can have lifted it, and a signal a scan saw is active when the scan commits
\* (AntifraudService.scan, begin_review, decide).
THEOREM AlwaysOneSignal ==
    ASSUME FraudAssumptions
    PROVE  Fraud!Spec => []Fraud!OneSignalPerSubject
<1>1. Fraud!Init => FraudInv
  BY FraudInvInit
<1>2. FraudInv /\ [Fraud!Next]_(Fraud!vars) => FraudInv'
  BY FraudInvNext
<1>3. FraudInv => Fraud!OneSignalPerSubject
  BY DEF FraudInv, SignalSound, OneHolder, KnownHold, Fraud!OneSignalPerSubject
<1> QED BY <1>1, <1>2, <1>3, PTL DEF Fraud!Spec

-----------------------------------------------------------------------------
\* A trust case
IsSanction(x) ==
    /\ {"status", "decision"} \subseteq DOMAIN x
    /\ x.status \in {"PENDING_APPEAL", "ACTIVE", "REVOKED"} \/ (x.status = "ABSENT" /\ x.decision = {})
TrustShaped ==
    /\ "status" \in DOMAIN case
    /\ measures = [m \in Measures |-> measures[m]] /\ \A m \in Measures : "status" \in DOMAIN measures[m]
    /\ decisions = [d \in Decisions |-> decisions[d]] /\ \A d \in Decisions : "appeal" \in DOMAIN decisions[d]
    /\ sanctions = [s \in Sanctions |-> sanctions[s]]
    /\ \A s \in Sanctions : IsSanction(sanctions[s])

Won(d) == decisions[d].appeal \in {"MODIFIED", "OVERTURNED"}

\* A sanction comes into force with the end of its case, and nothing of a case is left where an appeal was won.
CaseInv ==
    /\ TrustShaped
    /\ \A s \in Sanctions : sanctions[s].status = "ACTIVE" => case.status = "CLOSED"
    /\ \A d \in Decisions : Won(d) =>
          /\ case.status = "CLOSED"
          /\ \A m \in Measures : measures[m].status # "ACTIVE"
          /\ \A s \in Sanctions : sanctions[s].decision = {d} => sanctions[s].status = "REVOKED"
    /\ Discipline!PendingAppealSuspends

-----------------------------------------------------------------------------
LEMMA CaseInvInit ==
    ASSUME Discipline!Init
    PROVE  CaseInv
<1>1. TrustShaped
  BY DEF Discipline!Init, TrustShaped, Discipline!NoCase, Discipline!NoMeasure, Discipline!NoDecision,
     Discipline!NoSanction, IsSanction
<1>2. (\A d \in Decisions : decisions[d].appeal = "NONE") /\ \A s \in Sanctions : sanctions[s].status = "ABSENT"
  BY DEF Discipline!Init, Discipline!NoDecision, Discipline!NoSanction
<1> QED BY <1>1, <1>2 DEF CaseInv, Won, Discipline!PendingAppealSuspends

\* The course of the case before its decision, and what the invariant is not about
LEMMA CourseKeeps ==
    ASSUME CaseInv, UNCHANGED <<measures, decisions, sanctions>>,
           "status" \in DOMAIN case', case.status = "CLOSED" => case'.status = "CLOSED"
    PROVE  CaseInv'
<1>1. TrustShaped'
  BY DEF CaseInv, TrustShaped
<1>2. Discipline!PendingAppealSuspends'
  BY DEF CaseInv, Discipline!PendingAppealSuspends, Discipline!Sanctioned
<1> QED BY <1>1, <1>2 DEF CaseInv, Won

LEMMA MeasuresKeep ==
    ASSUME CaseInv, NEW m \in Measures, NEW row, measures' = [measures EXCEPT ![m] = row],
           "status" \in DOMAIN row, row.status = "ACTIVE" => measures[m].status = "ACTIVE" \/ case.status # "CLOSED",
           UNCHANGED <<case, decisions, sanctions>>
    PROVE  CaseInv'
<1>1. measures' = [n \in Measures |-> measures'[n]] /\ \A n \in Measures : measures'[n] = IF n = m THEN row ELSE measures[n]
  BY DEF CaseInv, TrustShaped
<1>2. TrustShaped'
  BY <1>1 DEF CaseInv, TrustShaped
<1>3. Discipline!PendingAppealSuspends'
  BY DEF CaseInv, Discipline!PendingAppealSuspends, Discipline!Sanctioned
<1> QED BY <1>1, <1>2, <1>3 DEF CaseInv, Won

LEMMA ImposeKeeps ==
    ASSUME CaseInv, NEW m \in Measures, NEW a, NEW until, Discipline!ImposeProtectiveMeasure(m, a, until)
    PROVE  CaseInv'
<1> DEFINE row == [status |-> "ACTIVE", until |-> until]
<1>1. measures' = [measures EXCEPT ![m] = row] /\ case.status # "CLOSED" /\ UNCHANGED <<case, decisions, sanctions>>
  BY DEF Discipline!ImposeProtectiveMeasure
<1>2. "status" \in DOMAIN row
  OBVIOUS
<1> HIDE DEF row
<1> QED BY <1>1, <1>2, MeasuresKeep

LEMMA LiftKeeps ==
    ASSUME CaseInv, NEW m \in Measures, Discipline!LiftProtectiveMeasure(m)
    PROVE  CaseInv'
<1> DEFINE row == [measures[m] EXCEPT !.status = "LIFTED"]
<1>1. measures' = [measures EXCEPT ![m] = row] /\ UNCHANGED <<case, decisions, sanctions>>
  BY DEF Discipline!LiftProtectiveMeasure
<1>2. "status" \in DOMAIN row /\ row.status = "LIFTED"
  BY DEF CaseInv, TrustShaped
<1> HIDE DEF row
<1> QED BY <1>1, <1>2, MeasuresKeep

-----------------------------------------------------------------------------
LEMMA DecisionKeeps ==
    ASSUME CaseInv, NEW d \in Decisions, NEW a, NEW substantiated, Discipline!IssueOriginalDecision(d, a, substantiated)
    PROVE  CaseInv'
<1> DEFINE new == [issuer |-> a, substantiated |-> substantiated, appeal |-> "NONE"]
<1>1. /\ decisions' = [decisions EXCEPT ![d] = new] /\ case.status # "CLOSED"
      /\ case' = [case EXCEPT !.status = "DECIDED", !.until = now + AppealWindow] /\ UNCHANGED <<measures, sanctions>>
  BY DEF Discipline!IssueOriginalDecision
<1>2. "appeal" \in DOMAIN new /\ new.appeal = "NONE"
  OBVIOUS
<1> HIDE DEF new
<1>3. TrustShaped'
  BY <1>1, <1>2 DEF CaseInv, TrustShaped
<1>4. \A e \in Decisions : decisions'[e] = IF e = d THEN new ELSE decisions[e]
  BY <1>1 DEF CaseInv, TrustShaped
<1>5. Discipline!PendingAppealSuspends'
  BY <1>1, <1>2, <1>4 DEF CaseInv, Discipline!PendingAppealSuspends, Discipline!Sanctioned
<1> QED BY <1>1, <1>2, <1>3, <1>4, <1>5 DEF CaseInv, Won

LEMMA SanctionKeeps ==
    ASSUME CaseInv, NEW s \in Sanctions, NEW d \in Decisions, NEW a, Discipline!ProposeSanction(s, d, a)
    PROVE  CaseInv'
<1> DEFINE new == [status |-> "PENDING_APPEAL", decision |-> {d}, until |-> case.until]
<1>1. /\ sanctions' = [sanctions EXCEPT ![s] = new] /\ case.status # "CLOSED" /\ UNCHANGED <<case, measures, decisions>>
  BY DEF Discipline!ProposeSanction
<1>2. IsSanction(new) /\ new.status = "PENDING_APPEAL"
  BY DEF IsSanction
<1> HIDE DEF new
<1>3. TrustShaped'
  BY <1>1, <1>2 DEF CaseInv, TrustShaped
<1>4. \A q \in Sanctions : sanctions'[q] = IF q = s THEN new ELSE sanctions[q]
  BY <1>1 DEF CaseInv, TrustShaped
<1>5. Discipline!PendingAppealSuspends'
  BY <1>1, <1>2, <1>4 DEF CaseInv, Discipline!PendingAppealSuspends, Discipline!Sanctioned
<1> QED BY <1>1, <1>2, <1>3, <1>4, <1>5 DEF CaseInv, Won

LEMMA SubmitAppealKeeps ==
    ASSUME CaseInv, NEW d \in Decisions, Discipline!SubmitAppeal(d)
    PROVE  CaseInv'
<1> DEFINE row == [decisions[d] EXCEPT !.appeal = "SUBMITTED"]
<1>1. /\ decisions' = [decisions EXCEPT ![d] = row] /\ case.status # "CLOSED"
      /\ case' = [case EXCEPT !.status = "UNDER_APPEAL"] /\ UNCHANGED <<measures, sanctions>>
  BY DEF Discipline!SubmitAppeal
<1>2. "appeal" \in DOMAIN row /\ row.appeal = "SUBMITTED"
  BY DEF CaseInv, TrustShaped
<1> HIDE DEF row
<1>3. TrustShaped'
  BY <1>1, <1>2 DEF CaseInv, TrustShaped
<1>4. \A e \in Decisions : decisions'[e] = IF e = d THEN row ELSE decisions[e]
  BY <1>1 DEF CaseInv, TrustShaped
<1>5. \A s \in Sanctions : sanctions'[s].status # "ACTIVE"
  BY <1>1 DEF CaseInv
<1>6. Discipline!PendingAppealSuspends'
  BY <1>5 DEF Discipline!PendingAppealSuspends, Discipline!Sanctioned
<1> QED BY <1>1, <1>2, <1>3, <1>4, <1>5, <1>6 DEF CaseInv, Won

-----------------------------------------------------------------------------
\* What a decision moves of its sanctions
Moved(d, statuses, status) ==
    [s \in Sanctions |-> IF sanctions[s].decision = {d} /\ sanctions[s].status \in statuses
                         THEN [sanctions[s] EXCEPT !.status = status] ELSE sanctions[s]]

LEMMA MovedIs ==
    ASSUME CaseInv, NEW d, NEW statuses, NEW status \in {"ACTIVE", "REVOKED"}, NEW t, t = Moved(d, statuses, status)
    PROVE  /\ t = [s \in Sanctions |-> t[s]]
           /\ \A s \in Sanctions :
                /\ IsSanction(t[s]) /\ t[s].decision = sanctions[s].decision
                /\ t[s].status = IF sanctions[s].decision = {d} /\ sanctions[s].status \in statuses
                                 THEN status ELSE sanctions[s].status
<1>1. ASSUME NEW s \in Sanctions
      PROVE  /\ IsSanction(t[s]) /\ t[s].decision = sanctions[s].decision
             /\ t[s].status = IF sanctions[s].decision = {d} /\ sanctions[s].status \in statuses
                              THEN status ELSE sanctions[s].status
  <2>1. IsSanction(sanctions[s])
    BY DEF CaseInv, TrustShaped
  <2>2. t[s] = IF sanctions[s].decision = {d} /\ sanctions[s].status \in statuses
               THEN [sanctions[s] EXCEPT !.status = status] ELSE sanctions[s]
    BY DEF Moved
  <2> QED BY <2>1, <2>2 DEF IsSanction
<1> QED BY <1>1 DEF Moved

LEMMA AppealKeeps ==
    ASSUME CaseInv, NEW d \in Decisions, NEW a, NEW outcome \in Discipline!AppealOutcomes, Discipline!DecideAppeal(d, a, outcome)
    PROVE  CaseInv'
<1> DEFINE row == [decisions[d] EXCEPT !.appeal = outcome]
<1>1. /\ decisions' = [decisions EXCEPT ![d] = row] /\ decisions[d].appeal = "SUBMITTED" /\ case.status = "UNDER_APPEAL"
      /\ case' = [case EXCEPT !.status = IF outcome = "REMANDED" THEN "REMANDED" ELSE "CLOSED"]
  BY DEF Discipline!DecideAppeal
<1>2. "appeal" \in DOMAIN row /\ row.appeal = outcome
  BY DEF CaseInv, TrustShaped
<1> HIDE DEF row
<1>3. /\ decisions' = [e \in Decisions |-> decisions'[e]]
      /\ \A e \in Decisions : decisions'[e] = IF e = d THEN row ELSE decisions[e]
  BY <1>1 DEF CaseInv, TrustShaped
<1>4. "status" \in DOMAIN case' /\ case'.status = IF outcome = "REMANDED" THEN "REMANDED" ELSE "CLOSED"
  BY <1>1 DEF CaseInv, TrustShaped
<1>5. (\A e \in Decisions : ~Won(e)) /\ (\A s \in Sanctions : sanctions[s].status # "ACTIVE")
  BY <1>1 DEF CaseInv
<1>6. CASE outcome = "REMANDED"
  <2>1. UNCHANGED <<sanctions, measures>>
    BY <1>6 DEF Discipline!DecideAppeal
  <2>2. TrustShaped'
    BY <1>2, <1>3, <1>4, <2>1 DEF CaseInv, TrustShaped
  <2>3. Discipline!PendingAppealSuspends'
    BY <1>5, <2>1 DEF Discipline!PendingAppealSuspends, Discipline!Sanctioned
  <2> QED BY <1>2, <1>3, <1>5, <1>6, <2>1, <2>2, <2>3 DEF CaseInv, Won
<1>7. CASE outcome = "AFFIRMED"
  <2>1. sanctions' = Moved(d, {"PENDING_APPEAL"}, "ACTIVE") /\ UNCHANGED measures
    BY <1>7 DEF Discipline!DecideAppeal, Discipline!Activated, Moved
  <2>2. TrustShaped'
    BY <1>2, <1>3, <1>4, <2>1, MovedIs DEF CaseInv, TrustShaped
  <2>3. Discipline!PendingAppealSuspends'
    <3> SUFFICES ASSUME NEW e \in Decisions, decisions'[e].appeal = "SUBMITTED", NEW s \in Sanctions,
                        sanctions'[s].decision = {e}
                 PROVE  sanctions'[s].status # "ACTIVE"
      BY DEF Discipline!PendingAppealSuspends, Discipline!Sanctioned
    <3>1. e # d
      BY <1>2, <1>3, <1>7
    <3>2. /\ sanctions'[s].decision = sanctions[s].decision
          /\ sanctions'[s].status = "ACTIVE" => sanctions[s].decision = {d} \/ sanctions[s].status = "ACTIVE"
      BY <2>1, MovedIs
    <3> QED BY <1>5, <3>1, <3>2
  <2>4. \A e \in Decisions : ~Won(e)'
    BY <1>2, <1>3, <1>5, <1>7 DEF Won
  <2> QED BY <1>4, <1>7, <2>2, <2>3, <2>4 DEF CaseInv
<1>8. CASE outcome \in {"MODIFIED", "OVERTURNED"}
  <2>1. sanctions' = Moved(d, {"PENDING_APPEAL", "ACTIVE"}, "REVOKED") /\ measures' = Discipline!MeasuresRevoked
    BY <1>8 DEF Discipline!DecideAppeal, Discipline!Revoked, Moved
  <2>2. /\ measures' = [m \in Measures |-> measures'[m]]
        /\ \A m \in Measures : "status" \in DOMAIN measures'[m] /\ measures'[m].status # "ACTIVE"
    <3>1. ASSUME NEW m \in Measures PROVE "status" \in DOMAIN measures'[m] /\ measures'[m].status # "ACTIVE"
      <4>1. measures'[m] = IF measures[m].status = "ACTIVE" THEN [measures[m] EXCEPT !.status = "REVOKED"] ELSE measures[m]
        BY <2>1 DEF Discipline!MeasuresRevoked
      <4>2. "status" \in DOMAIN measures[m]
        BY DEF CaseInv, TrustShaped
      <4> QED BY <4>1, <4>2
    <3> QED BY <2>1, <3>1 DEF Discipline!MeasuresRevoked
  <2>3. TrustShaped'
    BY <1>2, <1>3, <1>4, <2>1, <2>2, MovedIs DEF CaseInv, TrustShaped
  <2>4. \A s \in Sanctions : sanctions'[s].status # "ACTIVE"
    BY <1>5, <2>1, MovedIs
  <2>5. Discipline!PendingAppealSuspends'
    BY <2>4 DEF Discipline!PendingAppealSuspends, Discipline!Sanctioned
  <2>6. \A s \in Sanctions : sanctions'[s].decision = {d} => sanctions'[s].status = "REVOKED"
    <3> SUFFICES ASSUME NEW s \in Sanctions, sanctions'[s].decision = {d} PROVE sanctions'[s].status = "REVOKED"
      OBVIOUS
    <3>1. IsSanction(sanctions[s])
      BY DEF CaseInv, TrustShaped
    <3>2. /\ sanctions'[s].decision = sanctions[s].decision
          /\ sanctions'[s].status = IF sanctions[s].decision = {d} /\ sanctions[s].status \in {"PENDING_APPEAL", "ACTIVE"}
                                    THEN "REVOKED" ELSE sanctions[s].status
      BY <2>1, MovedIs
    <3> QED BY <3>1, <3>2 DEF IsSanction
  <2>7. \A e \in Decisions : Won(e)' => e = d
    BY <1>3, <1>5 DEF Won
  <2> QED BY <1>4, <1>8, <2>2, <2>3, <2>4, <2>5, <2>6, <2>7 DEF CaseInv
<1> QED BY <1>6, <1>7, <1>8 DEF Discipline!AppealOutcomes

LEMMA FinalizeKeeps ==
    ASSUME CaseInv, NEW s \in Sanctions, NEW a, Discipline!FinalizeUnappealedSanction(s, a)
    PROVE  CaseInv'
<1> DEFINE row == [sanctions[s] EXCEPT !.status = "ACTIVE"]
<1>1. /\ sanctions' = [sanctions EXCEPT ![s] = row] /\ sanctions[s].status = "PENDING_APPEAL"
      /\ \A d \in sanctions[s].decision : decisions[d].appeal # "SUBMITTED"
      /\ case' = [case EXCEPT !.status = "CLOSED"] /\ UNCHANGED <<measures, decisions>>
  BY DEF Discipline!FinalizeUnappealedSanction
<1>2. IsSanction(row) /\ row.status = "ACTIVE" /\ row.decision = sanctions[s].decision
  BY DEF CaseInv, TrustShaped, IsSanction
<1> HIDE DEF row
<1>3. /\ sanctions' = [q \in Sanctions |-> sanctions'[q]]
      /\ \A q \in Sanctions : sanctions'[q] = IF q = s THEN row ELSE sanctions[q]
  BY <1>1 DEF CaseInv, TrustShaped
<1>4. "status" \in DOMAIN case' /\ case'.status = "CLOSED"
  BY <1>1 DEF CaseInv, TrustShaped
<1>5. TrustShaped'
  BY <1>1, <1>2, <1>3, <1>4 DEF CaseInv, TrustShaped
<1>6. Discipline!PendingAppealSuspends'
  BY <1>1, <1>2, <1>3 DEF CaseInv, Discipline!PendingAppealSuspends, Discipline!Sanctioned
<1>7. \A d \in Decisions : Won(d) => sanctions[s].decision # {d}
  BY <1>1 DEF CaseInv
<1> QED BY <1>1, <1>2, <1>3, <1>4, <1>5, <1>6, <1>7 DEF CaseInv, Won

-----------------------------------------------------------------------------
LEMMA CaseInvNext ==
    ASSUME CaseInv, [Discipline!Next]_(Discipline!vars)
    PROVE  CaseInv'
<1> DEFINE Course == /\ UNCHANGED <<measures, decisions, sanctions>>
                     /\ "status" \in DOMAIN case' /\ (case.status = "CLOSED" => case'.status = "CLOSED")
<1>0. "status" \in DOMAIN case
  BY DEF CaseInv, TrustShaped
<1>1. ASSUME NEW p, NEW a, Discipline!ProposePolicy(p, a) \/ Discipline!ApprovePolicy(p, a)
      PROVE  Course
  BY <1>0, <1>1 DEF Discipline!ProposePolicy, Discipline!ApprovePolicy
<1>2. Discipline!OpenCase \/ Discipline!RecordResponse \/ Discipline!Tick => Course
  BY <1>0 DEF Discipline!OpenCase, Discipline!RecordResponse, Discipline!Tick
<1>3. ASSUME NEW a, Discipline!MarkCaseReady(a) \/ \E stage \in Discipline!Stages : Discipline!DeclareConflict(a, stage)
      PROVE  Course
  BY <1>0, <1>3 DEF Discipline!MarkCaseReady, Discipline!DeclareConflict
<1>4. ASSUME NEW r, NEW d, NEW a, Discipline!RecordReputationEvent(r, d, a)
      PROVE  Course
  BY <1>0, <1>4 DEF Discipline!RecordReputationEvent
<1>5. ASSUME NEW p, NEW a,
             \/ Discipline!CloseRehabilitationPlan(p, a) \/ \E i \in Steps : Discipline!CompleteRehabilitationStep(p, i, a)
             \/ \E d \in Decisions : Discipline!CreateRehabilitationPlan(p, d, a)
      PROVE  Course
  BY <1>0, <1>5 DEF Discipline!CloseRehabilitationPlan, Discipline!CompleteRehabilitationStep,
     Discipline!CreateRehabilitationPlan
<1>6. CASE UNCHANGED Discipline!vars
  BY <1>0, <1>6, CourseKeeps DEF Discipline!vars
<1>7. Course => CaseInv'
  BY CourseKeeps
<1> HIDE DEF Course
<1> QED
  BY <1>1, <1>2, <1>3, <1>4, <1>5, <1>6, <1>7, ImposeKeeps, LiftKeeps, DecisionKeeps, SanctionKeeps, SubmitAppealKeeps,
     AppealKeeps, FinalizeKeeps DEF Discipline!Next

\* A pending appeal suspends the sanctions of its decision and a won one leaves nothing of them or of the measures of
\* the case, for any members, decisions, sanctions, measures, plans and times (decide_appeal, _correct_consequences).
THEOREM AppealAlwaysGoverns == Discipline!Spec => []Discipline!AppealGoverns
<1>1. Discipline!Init => CaseInv
  BY CaseInvInit
<1>2. CaseInv /\ [Discipline!Next]_(Discipline!vars) => CaseInv'
  BY CaseInvNext
<1>3. CaseInv => Discipline!AppealGoverns
  BY DEF CaseInv, Won, Discipline!AppealGoverns, Discipline!OverturnedWithoutEffect, Discipline!Sanctioned,
     Discipline!InForce
<1> QED BY <1>1, <1>2, <1>3, PTL DEF Discipline!Spec

-----------------------------------------------------------------------------
\* Aid

\* A sum of the instance is that of the library.
LEMMA SameSum == \A f : Aid!SumFunction(f) = SumFunction(f)
  BY DEF Aid!SumFunction, Aid!SumFunctionOnSet, Aid!FoldFunctionOnSet, Aid!MapThenFoldSet, SumFunction, SumFunctionOnSet,
         FoldFunctionOnSet, MapThenFoldSet

AidAssumptions == IsFiniteSet(Contributions) /\ IsFiniteSet(Allocations) /\ MaxQuantity \in Nat

IsContribution(x) == {"status", "quantity"} \subseteq DOMAIN x /\ x.quantity \in Nat
IsApplication(x) ==
    x = [status |-> x.status, recipient |-> x.recipient, submitter |-> x.submitter, quantity |-> x.quantity]
IsAllocation(x) ==
    /\ {"status", "application", "proposer", "approver", "attester", "quantity"} \subseteq DOMAIN x
    /\ x.quantity \in Nat /\ x.status \in Aid!Active \union {"ABSENT", "CANCELLED"}
AidShaped ==
    /\ "status" \in DOMAIN campaign
    /\ contributions = [c \in Contributions |-> contributions[c]]
    /\ \A c \in Contributions : IsContribution(contributions[c])
    /\ applications = [a \in Applications |-> applications[a]]
    /\ \A a \in Applications : IsApplication(applications[a])
    /\ allocations = [l \in Allocations |-> allocations[l]]
    /\ \A l \in Allocations : IsAllocation(allocations[l])
\* A complaint is about one allocation at most.
ComplaintsShaped ==
    /\ complaints = [x \in Complaints |-> complaints[x]]
    /\ \A x \in Complaints : /\ {"status", "allocation"} \subseteq DOMAIN complaints[x]
                             /\ complaints[x].allocation = {} \/ \E l \in Allocations : complaints[x].allocation = {l}

\* An allocation is of one application that was found eligible, and its three hands are as far apart as it has come.
HandsApart(x, a) ==
    /\ x.proposer # applications[a].recipient
    /\ x.status \in Aid!Spending => x.approver \notin {x.proposer, applications[a].recipient}
    /\ x.status = "DELIVERED" => x.attester \notin {x.proposer, x.approver}
Reviewed == {"ELIGIBLE", "ALLOCATED", "CLOSED"}
AllocationSound(x) ==
    \/ (x.status = "ABSENT" /\ x.application = {})
    \/ \E a \in Applications : /\ x.status # "ABSENT" /\ x.application = {a}
                               /\ applications[a].status \in Reviewed /\ HandsApart(x, a)

\* One allocation of an application at a time, which the application's status shows.
For(l, a, statuses) == allocations[l].application = {a} /\ allocations[l].status \in statuses
OneActive == \A a \in Applications : \A k, l \in Allocations : For(k, a, Aid!Active) /\ For(l, a, Aid!Active) => k = l
StatusShown ==
    \A a \in Applications :
        /\ applications[a].status = "ALLOCATED" <=> \E l \in Allocations : For(l, a, {"APPROVED", "SUSPENDED"})
        /\ applications[a].status = "CLOSED" <=> \E l \in Allocations : For(l, a, {"DELIVERED"})

AidInv ==
    /\ AidShaped /\ ComplaintsShaped /\ (\A l \in Allocations : AllocationSound(allocations[l])) /\ OneActive /\ StatusShown
    /\ Aid!AidWithinVerified /\ Aid!ClosedCampaignOwesNothing

-----------------------------------------------------------------------------
\* The sums of a state and of the next one
LEMMA SumsAre ==
    ASSUME AidAssumptions, AidShaped
    PROVE  /\ Aid!Verified = SumFunctionOnSet([c \in Contributions |-> Aid!Given(c)], Contributions) /\ Aid!Verified \in Nat
           /\ Aid!Allocated = SumFunctionOnSet([l \in Allocations |-> Aid!Promised(l)], Allocations) /\ Aid!Allocated \in Nat
<1> DEFINE f == [c \in Contributions |-> Aid!Given(c)]
           g == [l \in Allocations |-> Aid!Promised(l)]
<1>1. (\A c \in Contributions : f[c] \in Nat) /\ \A l \in Allocations : g[l] \in Nat
  BY DEF AidShaped, IsContribution, Aid!Given, IsAllocation, Aid!Promised
<1>2. DOMAIN f = Contributions /\ DOMAIN g = Allocations /\ Aid!Verified = SumFunction(f) /\ Aid!Allocated = SumFunction(g)
  BY SameSum DEF Aid!Verified, Aid!Allocated
<1> HIDE DEF f, g
<1>3. Aid!Verified = SumFunctionOnSet(f, Contributions) /\ Aid!Allocated = SumFunctionOnSet(g, Allocations)
  BY <1>2, SumOfAll
<1>4. SumFunctionOnSet(f, Contributions) \in Nat /\ SumFunctionOnSet(g, Allocations) \in Nat
  BY <1>1, SumNat DEF AidAssumptions
<1> QED BY <1>3, <1>4 DEF f, g

LEMMA SumsNext ==
    ASSUME AidAssumptions, AidShaped'
    PROVE  /\ Aid!Verified' = SumFunctionOnSet([c \in Contributions |-> Aid!Given(c)]', Contributions) /\ Aid!Verified' \in Nat
           /\ Aid!Allocated' = SumFunctionOnSet([l \in Allocations |-> Aid!Promised(l)]', Allocations) /\ Aid!Allocated' \in Nat
<1> DEFINE f == [c \in Contributions |-> Aid!Given(c)]'
           g == [l \in Allocations |-> Aid!Promised(l)]'
<1>1. (\A c \in Contributions : f[c] \in Nat) /\ \A l \in Allocations : g[l] \in Nat
  BY DEF AidShaped, IsContribution, Aid!Given, IsAllocation, Aid!Promised
<1>2. DOMAIN f = Contributions /\ DOMAIN g = Allocations /\ Aid!Verified' = SumFunction(f) /\ Aid!Allocated' = SumFunction(g)
  BY SameSum DEF Aid!Verified, Aid!Allocated
<1> HIDE DEF f, g
<1>3. Aid!Verified' = SumFunctionOnSet(f, Contributions) /\ Aid!Allocated' = SumFunctionOnSet(g, Allocations)
  BY <1>2, SumOfAll
<1>4. SumFunctionOnSet(f, Contributions) \in Nat /\ SumFunctionOnSet(g, Allocations) \in Nat
  BY <1>1, SumNat DEF AidAssumptions
<1> QED BY <1>3, <1>4 DEF f, g

\* What is verified stays so, and what is promised can only be less.
LEMMA SumsGoOn ==
    ASSUME AidAssumptions, AidShaped, AidShaped', Aid!AidWithinVerified,
           \A c \in Contributions : contributions'[c] = contributions[c] \/ contributions[c].status # "VERIFIED",
           \A l \in Allocations : allocations'[l].status \in Aid!Spending =>
                                     allocations[l].status \in Aid!Spending /\ allocations'[l].quantity = allocations[l].quantity
    PROVE  Aid!AidWithinVerified'
<1> DEFINE f == [c \in Contributions |-> Aid!Given(c)]
           g == [l \in Allocations |-> Aid!Promised(l)]
           h == [c \in Contributions |-> Aid!Given(c)]'
           i == [l \in Allocations |-> Aid!Promised(l)]'
<1>1. \A c \in Contributions : f[c] \in Int /\ h[c] \in Int /\ f[c] <= h[c]
  BY DEF AidShaped, IsContribution, Aid!Given
<1>2. \A l \in Allocations : g[l] \in Int /\ i[l] \in Int /\ i[l] <= g[l]
  BY DEF AidShaped, IsAllocation, Aid!Promised
<1>3. /\ Aid!Verified = SumFunctionOnSet(f, Contributions) /\ Aid!Verified \in Nat
      /\ Aid!Allocated = SumFunctionOnSet(g, Allocations) /\ Aid!Allocated \in Nat
  BY SumsAre
<1>4. /\ Aid!Verified' = SumFunctionOnSet(h, Contributions) /\ Aid!Verified' \in Nat
      /\ Aid!Allocated' = SumFunctionOnSet(i, Allocations) /\ Aid!Allocated' \in Nat
  BY SumsNext
<1> HIDE DEF f, g, h, i
<1>5. Aid!Verified <= Aid!Verified'
  BY <1>1, <1>3, <1>4, SumOrder DEF AidAssumptions
<1>6. Aid!Allocated' <= Aid!Allocated
  BY <1>2, <1>3, <1>4, SumOrder DEF AidAssumptions
<1> QED BY <1>3, <1>4, <1>5, <1>6 DEF Aid!AidWithinVerified

\* An approval promises no more than was available.
LEMMA SumsTake ==
    ASSUME AidAssumptions, AidShaped, AidShaped', UNCHANGED contributions, NEW l \in Allocations,
           allocations[l].status \notin Aid!Spending, allocations'[l].status \in Aid!Spending,
           allocations'[l].quantity = allocations[l].quantity, allocations[l].quantity <= Aid!Available,
           \A k \in Allocations \ {l} : allocations'[k] = allocations[k]
    PROVE  Aid!AidWithinVerified'
<1> DEFINE g == [k \in Allocations |-> Aid!Promised(k)]
           i == [k \in Allocations |-> Aid!Promised(k)]'
           q == allocations[l].quantity
<1>1. \A k \in Allocations : g[k] \in Int /\ i[k] \in Int
  BY DEF AidShaped, IsAllocation, Aid!Promised
<1>2. g[l] = 0 /\ i[l] = q /\ \A k \in Allocations \ {l} : g[k] = i[k]
  BY DEF Aid!Promised
<1>3. Aid!Verified \in Nat /\ Aid!Allocated = SumFunctionOnSet(g, Allocations) /\ Aid!Allocated \in Nat
  BY SumsAre
<1>4. Aid!Verified' \in Nat /\ Aid!Allocated' = SumFunctionOnSet(i, Allocations) /\ Aid!Allocated' \in Nat
  BY SumsNext
<1>5. Aid!Verified' = Aid!Verified
  BY DEF Aid!Verified, Aid!Given
<1>6. q \in Nat /\ q <= Aid!Verified - Aid!Allocated
  BY DEF AidShaped, IsAllocation, Aid!Available
<1> HIDE DEF g, i, q
<1>7. Aid!Allocated' = Aid!Allocated - 0 + q
  BY <1>1, <1>2, <1>3, <1>4, SumChange DEF AidAssumptions
<1> QED BY <1>3, <1>4, <1>5, <1>6, <1>7 DEF Aid!AidWithinVerified

LEMMA AidInvInit ==
    ASSUME AidAssumptions, Aid!Init
    PROVE  AidInv
<1>1. AidShaped /\ ComplaintsShaped
  BY DEF Aid!Init, AidShaped, ComplaintsShaped, IsContribution, IsApplication, IsAllocation, Aid!NoCampaign,
     Aid!NoContribution, Aid!NoApplication,
         Aid!NoAllocation, Aid!NoComplaint
<1>2. \A l \in Allocations : allocations[l].status = "ABSENT" /\ allocations[l].application = {}
  BY DEF Aid!Init, Aid!NoAllocation
<1>3. \A a \in Applications : applications[a].status = "ABSENT"
  BY DEF Aid!Init, Aid!NoApplication
<1>4. Aid!AidWithinVerified
  <2> DEFINE g == [l \in Allocations |-> Aid!Promised(l)]
  <2>1. \A l \in Allocations : g[l] = 0
    BY <1>2 DEF Aid!Promised, Aid!Spending
  <2>2. Aid!Allocated = SumFunctionOnSet(g, Allocations) /\ Aid!Verified \in Nat
    BY <1>1, SumsAre
  <2> HIDE DEF g
  <2>3. Aid!Allocated = 0
    BY <2>1, <2>2, SumZero DEF AidAssumptions
  <2> QED BY <2>2, <2>3 DEF Aid!AidWithinVerified
<1>5. campaign.status # "CLOSED"
  BY DEF Aid!Init, Aid!NoCampaign
<1> QED BY <1>1, <1>2, <1>3, <1>4, <1>5 DEF AidInv, AllocationSound, OneActive, StatusShown, For,
    Aid!ClosedCampaignOwesNothing, Aid!Active

-----------------------------------------------------------------------------
\* What comes before an application is found eligible and beside the allocations
LEMMA OthersKeep ==
    ASSUME AidAssumptions, AidInv, AidShaped', UNCHANGED <<allocations, complaints, report>>,
           \A c \in Contributions : contributions'[c] = contributions[c] \/ contributions[c].status # "VERIFIED",
           \A a \in Applications : \/ applications'[a] = applications[a]
                                   \/ /\ applications[a].status \in {"ABSENT", "SUBMITTED"}
                                      /\ applications'[a].status \in {"SUBMITTED", "ELIGIBLE", "REJECTED"},
           campaign'.status = "CLOSED" => campaign.status = "CLOSED"
    PROVE  AidInv'
<1>1. Aid!AidWithinVerified'
  BY SumsGoOn DEF AidInv
<1>2. \A l \in Allocations : AllocationSound(allocations[l])'
  BY DEF AidInv, AllocationSound, Reviewed, HandsApart
<1>3. StatusShown'
  <2> SUFFICES ASSUME NEW a \in Applications, applications'[a] # applications[a]
               PROVE  \A l \in Allocations : ~For(l, a, {"APPROVED", "SUSPENDED", "DELIVERED"})
    BY DEF AidInv, StatusShown, For
  <2>1. applications[a].status \notin Reviewed
    BY DEF Reviewed
  <2> QED BY <2>1 DEF AidInv, AllocationSound, For
<1>4. OneActive' /\ ComplaintsShaped' /\ Aid!ClosedCampaignOwesNothing'
  BY DEF AidInv, OneActive, For, ComplaintsShaped, Aid!ClosedCampaignOwesNothing
<1> QED BY <1>1, <1>2, <1>3, <1>4 DEF AidInv

LEMMA CampaignKeeps ==
    ASSUME AidAssumptions, AidInv, NEW m, Aid!ProposeFund(m) \/ Aid!ApproveFund(m) \/ Aid!CreateCampaign(m) \/ Aid!OpenCampaign(m)
    PROVE  AidInv'
<1>1. UNCHANGED <<contributions, applications, allocations, complaints, report>>
  BY DEF Aid!ProposeFund, Aid!ApproveFund, Aid!CreateCampaign, Aid!OpenCampaign
<1>2. campaign'.status = "CLOSED" => campaign.status = "CLOSED"
  BY DEF Aid!ProposeFund, Aid!ApproveFund, Aid!CreateCampaign, Aid!OpenCampaign, AidInv, AidShaped
<1>3. "status" \in DOMAIN campaign'
  BY DEF Aid!ProposeFund, Aid!ApproveFund, Aid!CreateCampaign, Aid!OpenCampaign, AidInv, AidShaped
<1>4. AidShaped'
  BY <1>1, <1>3 DEF AidInv, AidShaped
<1> QED BY <1>1, <1>2, <1>4, OthersKeep

LEMMA ContributionKeeps ==
    ASSUME AidAssumptions, AidInv, NEW c \in Contributions, NEW row, IsContribution(row),
           contributions' = [contributions EXCEPT ![c] = row], contributions[c].status # "VERIFIED",
           UNCHANGED <<campaign, applications, allocations, complaints, report>>
    PROVE  AidInv'
<1>1. AidShaped'
  BY DEF AidInv, AidShaped
<1>2. \A d \in Contributions : contributions'[d] = contributions[d] \/ contributions[d].status # "VERIFIED"
  BY DEF AidInv, AidShaped
<1> QED BY <1>1, <1>2, OthersKeep

LEMMA ReceiveKeeps ==
    ASSUME AidAssumptions, AidInv, NEW c \in Contributions, NEW donor, NEW m, NEW q \in Aid!Quantities, NEW pledge,
           Aid!ReceiveContribution(c, donor, m, q, pledge)
    PROVE  AidInv'
<1> DEFINE row == [status |-> "RECEIVED", donor |-> donor, receiver |-> m, quantity |-> q, pledge |-> pledge]
<1>1. /\ contributions' = [contributions EXCEPT ![c] = row] /\ contributions[c].status # "VERIFIED"
      /\ UNCHANGED <<campaign, applications, allocations, complaints, report>>
  BY DEF Aid!ReceiveContribution
<1>2. IsContribution(row)
  BY DEF IsContribution, Aid!Quantities, AidAssumptions
<1> HIDE DEF row
<1> QED BY <1>1, <1>2, ContributionKeeps

LEMMA VerifyKeeps ==
    ASSUME AidAssumptions, AidInv, NEW c \in Contributions, NEW m, NEW accepted \in BOOLEAN,
           Aid!VerifyContribution(c, m, accepted)
    PROVE  AidInv'
<1> DEFINE row == [contributions[c] EXCEPT !.status = IF accepted THEN "VERIFIED" ELSE "REJECTED"]
<1>1. /\ contributions' = [contributions EXCEPT ![c] = row] /\ contributions[c].status # "VERIFIED"
      /\ UNCHANGED <<campaign, applications, allocations, complaints, report>>
  BY DEF Aid!VerifyContribution
<1>2. IsContribution(row)
  BY DEF AidInv, AidShaped, IsContribution
<1> HIDE DEF row
<1> QED BY <1>1, <1>2, ContributionKeeps

LEMMA PledgeKeeps ==
    ASSUME AidAssumptions, AidInv, UNCHANGED <<campaign, contributions, applications, allocations, complaints, report>>
    PROVE  AidInv'
<1>1. AidShaped'
  BY DEF AidInv, AidShaped
<1> QED BY <1>1, OthersKeep

LEMMA ApplicationKeeps ==
    ASSUME AidAssumptions, AidInv, NEW a \in Applications, NEW row, IsApplication(row),
           applications' = [applications EXCEPT ![a] = row], applications[a].status \in {"ABSENT", "SUBMITTED"},
           row.status \in {"SUBMITTED", "ELIGIBLE", "REJECTED"},
           UNCHANGED <<campaign, contributions, allocations, complaints, report>>
    PROVE  AidInv'
<1>1. AidShaped'
  BY DEF AidInv, AidShaped
<1>2. \A b \in Applications : applications'[b] = IF b = a THEN row ELSE applications[b]
  BY DEF AidInv, AidShaped
<1> QED BY <1>1, <1>2, OthersKeep

LEMMA SubmitApplicationKeeps ==
    ASSUME AidAssumptions, AidInv, NEW a \in Applications, NEW recipient, NEW m, NEW q,
           Aid!SubmitApplication(a, recipient, m, q)
    PROVE  AidInv'
<1> DEFINE row == [status |-> "SUBMITTED", recipient |-> recipient, submitter |-> m, quantity |-> q]
<1>1. /\ applications' = [applications EXCEPT ![a] = row] /\ applications[a].status = "ABSENT"
      /\ UNCHANGED <<campaign, contributions, allocations, complaints, report>>
  BY DEF Aid!SubmitApplication
<1>2. IsApplication(row) /\ row.status = "SUBMITTED"
  BY DEF IsApplication
<1> HIDE DEF row
<1> QED BY <1>1, <1>2, ApplicationKeeps

LEMMA ReviewKeeps ==
    ASSUME AidAssumptions, AidInv, NEW a \in Applications, NEW m, NEW eligible \in BOOLEAN,
           Aid!ReviewApplication(a, m, eligible)
    PROVE  AidInv'
<1> DEFINE row == [applications[a] EXCEPT !.status = IF eligible THEN "ELIGIBLE" ELSE "REJECTED"]
<1>1. /\ applications' = [applications EXCEPT ![a] = row] /\ applications[a].status = "SUBMITTED"
      /\ UNCHANGED <<campaign, contributions, allocations, complaints, report>>
  BY DEF Aid!ReviewApplication
<1>2. IsApplication(row) /\ row.status \in {"ELIGIBLE", "REJECTED"}
  BY DEF AidInv, AidShaped, IsApplication
<1> HIDE DEF row
<1> QED BY <1>1, <1>2, ApplicationKeeps

-----------------------------------------------------------------------------
\* The status of an application whose only active allocation, if any, has this one
Shown(status) ==
    IF status \in {"APPROVED", "SUSPENDED"} THEN "ALLOCATED" ELSE IF status = "DELIVERED" THEN "CLOSED" ELSE "ELIGIBLE"

\* An allocation moves and takes its application along.
LEMMA OneMoves ==
    ASSUME AidAssumptions, AidInv, NEW l \in Allocations, NEW a \in Applications, NEW row,
           IsAllocation(row), row.status # "ABSENT", row.application = {a}, HandsApart(row, a),
           allocations' = [k \in Allocations |-> IF k = l THEN row ELSE allocations[k]],
           allocations[l].application \subseteq {a}, \A k \in Allocations \ {l} : ~For(k, a, Aid!Active),
           applications' = [b \in Applications |-> applications'[b]], IsApplication(applications'[a]),
           applications'[a].status = Shown(row.status), applications'[a].recipient = applications[a].recipient,
           \A b \in Applications \ {a} : applications'[b] = applications[b],
           ComplaintsShaped', campaign.status # "CLOSED", UNCHANGED <<campaign, contributions>>
    PROVE  /\ AidShaped' /\ (Aid!AidWithinVerified' => AidInv')
           /\ \A k \in Allocations : allocations'[k] = IF k = l THEN row ELSE allocations[k]
<1>1. \A k \in Allocations : allocations'[k] = IF k = l THEN row ELSE allocations[k]
  BY DEF AidInv, AidShaped
<1>2. AidShaped'
  BY <1>1 DEF AidInv, AidShaped
<1>3. applications'[a].status \in Reviewed
  BY DEF Shown, Reviewed
<1>4. ASSUME NEW k \in Allocations PROVE AllocationSound(allocations[k])'
  <2>1. CASE k = l
    BY <1>1, <1>3, <2>1 DEF AllocationSound, HandsApart
  <2>2. CASE k # l
    BY <1>1, <1>3, <2>2 DEF AidInv, AllocationSound, HandsApart
  <2> QED BY <2>1, <2>2
<1>5. \A k \in Allocations, b \in Applications, statuses \in {Aid!Active, {"APPROVED", "SUSPENDED"}, {"DELIVERED"}} :
        For(k, b, statuses)' <=> IF k = l THEN b = a /\ row.status \in statuses ELSE For(k, b, statuses)
  BY <1>1 DEF For
<1>6. OneActive'
  BY <1>5 DEF AidInv, OneActive
<1>7. ASSUME NEW b \in Applications
      PROVE  /\ applications'[b].status = "ALLOCATED" <=> \E k \in Allocations : For(k, b, {"APPROVED", "SUSPENDED"})'
             /\ applications'[b].status = "CLOSED" <=> \E k \in Allocations : For(k, b, {"DELIVERED"})'
  <2>1. CASE b = a
    <3>1. \A k \in Allocations \ {l} : ~For(k, a, {"APPROVED", "SUSPENDED"}) /\ ~For(k, a, {"DELIVERED"})
      BY DEF For, Aid!Active
    <3>2. \A k \in Allocations : For(k, a, {"APPROVED", "SUSPENDED"})' <=> k = l /\ row.status \in {"APPROVED", "SUSPENDED"}
      BY <1>5, <3>1
    <3>3. \A k \in Allocations : For(k, a, {"DELIVERED"})' <=> k = l /\ row.status = "DELIVERED"
      BY <1>5, <3>1
    <3> QED BY <2>1, <3>2, <3>3 DEF Shown
  <2>2. CASE b # a
    <3>1. ~For(l, b, {"APPROVED", "SUSPENDED"}) /\ ~For(l, b, {"DELIVERED"})
      BY <2>2 DEF For
    <3>2. \A k \in Allocations : /\ For(k, b, {"APPROVED", "SUSPENDED"})' <=> For(k, b, {"APPROVED", "SUSPENDED"})
                                 /\ For(k, b, {"DELIVERED"})' <=> For(k, b, {"DELIVERED"})
      BY <1>5, <2>2, <3>1
    <3> QED BY <2>2, <3>2 DEF AidInv, StatusShown
  <2> QED BY <2>1, <2>2
<1>8. StatusShown'
  BY <1>7 DEF StatusShown
<1> QED BY <1>1, <1>2, <1>4, <1>6, <1>8 DEF AidInv, Aid!ClosedCampaignOwesNothing

\* The application of an active allocation shows it, and so the campaign is still open unless it was delivered.
LEMMA ItsApplication ==
    ASSUME AidInv, NEW l \in Allocations, allocations[l].status \in Aid!Active
    PROVE  \E a \in Applications :
              /\ allocations[l].application = {a} /\ HandsApart(allocations[l], a)
              /\ Aid!RecipientOf(l) = {applications[a].recipient}
              /\ applications[a].status = Shown(allocations[l].status)
              /\ \A k \in Allocations \ {l} : ~For(k, a, Aid!Active)
              /\ allocations[l].status # "DELIVERED" => campaign.status # "CLOSED"
<1>1. PICK a \in Applications : /\ allocations[l].application = {a} /\ HandsApart(allocations[l], a)
                                /\ applications[a].status \in Reviewed
  BY DEF AidInv, AllocationSound, Aid!Active
<1>2. For(l, a, Aid!Active) /\ \A k \in Allocations \ {l} : ~For(k, a, Aid!Active)
  BY <1>1 DEF AidInv, OneActive, For
<1>3. Aid!RecipientOf(l) = {applications[a].recipient}
  <2>1. {{applications[b].recipient} : b \in {a}} = {{applications[a].recipient}}
    OBVIOUS
  <2> QED BY <1>1, <2>1 DEF Aid!RecipientOf
<1>4. /\ For(l, a, {"APPROVED", "SUSPENDED"}) <=> allocations[l].status \in {"APPROVED", "SUSPENDED"}
      /\ For(l, a, {"DELIVERED"}) <=> allocations[l].status = "DELIVERED"
      /\ \A k \in Allocations \ {l} : ~For(k, a, {"APPROVED", "SUSPENDED"}) /\ ~For(k, a, {"DELIVERED"})
  BY <1>1, <1>2 DEF For, Aid!Active
<1>5. /\ applications[a].status = "ALLOCATED" <=> allocations[l].status \in {"APPROVED", "SUSPENDED"}
      /\ applications[a].status = "CLOSED" <=> allocations[l].status = "DELIVERED"
  BY <1>4 DEF AidInv, StatusShown
<1>6. applications[a].status = Shown(allocations[l].status)
  BY <1>1, <1>5 DEF Shown, Reviewed
<1>7. allocations[l].status # "DELIVERED" => campaign.status # "CLOSED"
  BY DEF AidInv, Aid!ClosedCampaignOwesNothing, Aid!Active
<1> QED BY <1>1, <1>2, <1>3, <1>6, <1>7

\* An active allocation that moves on by one of the commands on it
LEMMA ActiveMoves ==
    ASSUME AidAssumptions, AidInv, NEW l \in Allocations, allocations[l].status \in Aid!Active \ {"DELIVERED"},
           NEW a \in Applications, allocations[l].application = {a}, NEW row, IsAllocation(row), row.status # "ABSENT",
           row.application = {a}, HandsApart(row, a), row.quantity = allocations[l].quantity,
           allocations' = [k \in Allocations |-> IF k = l THEN row ELSE allocations[k]],
           applications' = [b \in Applications |-> IF b = a THEN [applications[b] EXCEPT !.status = Shown(row.status)]
                                                            ELSE applications[b]],
           \/ row.status \in Aid!Spending => allocations[l].status \in Aid!Spending
           \/ allocations[l].status = "PROPOSED" /\ allocations[l].quantity <= Aid!Available,
           ComplaintsShaped', UNCHANGED <<campaign, contributions>>
    PROVE  AidInv'
<1>1. \A k \in Allocations \ {l} : ~For(k, a, Aid!Active)
  BY ItsApplication
<1>2. campaign.status # "CLOSED"
  BY ItsApplication
<1>3. /\ applications' = [b \in Applications |-> applications'[b]] /\ IsApplication(applications'[a])
      /\ applications'[a].status = Shown(row.status) /\ applications'[a].recipient = applications[a].recipient
      /\ \A b \in Applications \ {a} : applications'[b] = applications[b]
  BY DEF AidInv, AidShaped, IsApplication
<1>4. /\ AidShaped' /\ (Aid!AidWithinVerified' => AidInv')
      /\ \A k \in Allocations : allocations'[k] = IF k = l THEN row ELSE allocations[k]
  BY <1>1, <1>2, <1>3, OneMoves
<1>5. Aid!AidWithinVerified'
  <2>1. CASE row.status \in Aid!Spending => allocations[l].status \in Aid!Spending
    BY <1>4, <2>1, SumsGoOn DEF AidInv
  <2>2. CASE /\ row.status \in Aid!Spending /\ allocations[l].status = "PROPOSED"
             /\ allocations[l].quantity <= Aid!Available
    <3>1. allocations[l].status \notin Aid!Spending /\ allocations'[l].status \in Aid!Spending
      BY <1>4, <2>2 DEF Aid!Spending
    <3>2. allocations'[l].quantity = allocations[l].quantity /\ \A k \in Allocations \ {l} : allocations'[k] = allocations[k]
      BY <1>4
    <3> QED BY <1>4, <2>2, <3>1, <3>2, SumsTake DEF AidInv
  <2> QED BY <2>1, <2>2
<1> QED BY <1>4, <1>5

LEMMA ProposeAllocationKeeps ==
    ASSUME AidAssumptions, AidInv, NEW l \in Allocations, NEW a \in Applications, NEW m, NEW q \in Aid!Quantities,
           Aid!ProposeAllocation(l, a, m, q)
    PROVE  AidInv'
<1> DEFINE row == [status |-> "PROPOSED", application |-> {a}, proposer |-> m, approver |-> Nobody,
                   attester |-> Nobody, quantity |-> q]
<1>1. /\ allocations' = [k \in Allocations |-> IF k = l THEN row ELSE allocations[k]] /\ allocations[l].status = "ABSENT"
      /\ applications[a].status = "ELIGIBLE" /\ campaign.status = "OPEN" /\ m # applications[a].recipient
      /\ ~Aid!HasActiveAllocation(a) /\ UNCHANGED <<campaign, contributions, applications, complaints>>
  BY DEF Aid!ProposeAllocation, AidInv, AidShaped
<1>2. /\ IsAllocation(row) /\ row.status = "PROPOSED" /\ row.application = {a} /\ HandsApart(row, a)
  BY <1>1 DEF IsAllocation, Aid!Active, HandsApart, Aid!Spending, Aid!Quantities, AidAssumptions
<1> HIDE DEF row
<1>3. allocations[l].application = {}
  BY <1>1 DEF AidInv, AllocationSound
<1>4. \A k \in Allocations : ~For(k, a, Aid!Active)
  BY <1>1 DEF Aid!HasActiveAllocation, For
<1>5. applications' = [b \in Applications |-> applications'[b]] /\ IsApplication(applications'[a])
  BY <1>1 DEF AidInv, AidShaped
<1>6. ComplaintsShaped'
  BY <1>1 DEF AidInv, ComplaintsShaped
<1>7. /\ row.status # "ABSENT" /\ applications'[a].status = Shown(row.status)
      /\ applications'[a].recipient = applications[a].recipient
      /\ (\A b \in Applications \ {a} : applications'[b] = applications[b]) /\ campaign.status # "CLOSED"
  BY <1>1, <1>2 DEF Shown
<1>8. /\ AidShaped' /\ (Aid!AidWithinVerified' => AidInv')
      /\ \A k \in Allocations : allocations'[k] = IF k = l THEN row ELSE allocations[k]
  BY <1>1, <1>2, <1>3, <1>4, <1>5, <1>6, <1>7, OneMoves
<1>9. Aid!AidWithinVerified'
  BY <1>1, <1>2, <1>8, SumsGoOn DEF AidInv, Aid!Spending
<1> QED BY <1>8, <1>9

LEMMA ApproveKeeps ==
    ASSUME AidAssumptions, AidInv, NEW l \in Allocations, NEW m, NEW approved \in BOOLEAN, Aid!ApproveAllocation(l, m, approved)
    PROVE  AidInv'
<1>1. allocations[l].status = "PROPOSED" /\ m \notin {allocations[l].proposer} \union Aid!RecipientOf(l)
  BY DEF Aid!ApproveAllocation, Aid!Approvers
<1>2. PICK a \in Applications :
         /\ allocations[l].application = {a} /\ HandsApart(allocations[l], a)
         /\ Aid!RecipientOf(l) = {applications[a].recipient} /\ applications[a].status = Shown("PROPOSED")
  BY <1>1, ItsApplication DEF Aid!Active
<1> DEFINE row == [allocations[l] EXCEPT !.status = IF approved THEN "APPROVED" ELSE "CANCELLED", !.approver = m]
<1>3. allocations' = [k \in Allocations |-> IF k = l THEN row ELSE allocations[k]]
  BY DEF Aid!ApproveAllocation, AidInv, AidShaped
<1>4. /\ IsAllocation(row) /\ row.application = {a} /\ row.quantity = allocations[l].quantity
      /\ row.status = IF approved THEN "APPROVED" ELSE "CANCELLED"
      /\ row.approver = m /\ row.proposer = allocations[l].proposer
  BY <1>2 DEF AidInv, AidShaped, IsAllocation, Aid!Active
<1> HIDE DEF row
<1>5. HandsApart(row, a) /\ row.status # "ABSENT"
  BY <1>1, <1>2, <1>4 DEF HandsApart
<1>6. applications' = [b \in Applications |-> IF b = a THEN [applications[b] EXCEPT !.status = Shown(row.status)]
                                                       ELSE applications[b]]
  <2>1. applications' = [b \in Applications |-> IF approved /\ b = a THEN [applications[b] EXCEPT !.status = "ALLOCATED"]
                                                                     ELSE applications[b]]
    BY <1>2 DEF Aid!ApproveAllocation
  <2>2. [applications[a] EXCEPT !.status = applications[a].status] = applications[a]
    BY DEF AidInv, AidShaped, IsApplication
  <2> QED BY <1>2, <1>4, <2>1, <2>2 DEF Shown
<1>7. \/ row.status \in Aid!Spending => allocations[l].status \in Aid!Spending
      \/ allocations[l].status = "PROPOSED" /\ allocations[l].quantity <= Aid!Available
  BY <1>1, <1>4 DEF Aid!ApproveAllocation, Aid!Spending
<1>8. ComplaintsShaped' /\ UNCHANGED <<campaign, contributions>>
  BY DEF Aid!ApproveAllocation, AidInv, ComplaintsShaped
<1>9. allocations[l].status \in Aid!Active \ {"DELIVERED"}
  BY <1>1 DEF Aid!Active
<1> QED BY <1>2, <1>3, <1>4, <1>5, <1>6, <1>7, <1>8, <1>9, ActiveMoves

LEMMA DeliverKeeps ==
    ASSUME AidAssumptions, AidInv, NEW l \in Allocations, NEW m, Aid!RecordDelivery(l, m)
    PROVE  AidInv'
<1>1. /\ allocations[l].status = "APPROVED"
      /\ m \in Aid!RecipientOf(l) \/ m \notin {allocations[l].proposer, allocations[l].approver}
  BY DEF Aid!RecordDelivery
<1>2. PICK a \in Applications :
         /\ allocations[l].application = {a} /\ HandsApart(allocations[l], a)
         /\ Aid!RecipientOf(l) = {applications[a].recipient}
  BY <1>1, ItsApplication DEF Aid!Active
<1> DEFINE row == [allocations[l] EXCEPT !.status = "DELIVERED", !.attester = m]
<1>3. allocations' = [k \in Allocations |-> IF k = l THEN row ELSE allocations[k]]
  BY DEF Aid!RecordDelivery, AidInv, AidShaped
<1>4. /\ IsAllocation(row) /\ row.application = {a} /\ row.quantity = allocations[l].quantity /\ row.status = "DELIVERED"
      /\ row.attester = m /\ row.proposer = allocations[l].proposer /\ row.approver = allocations[l].approver
  BY <1>2 DEF AidInv, AidShaped, IsAllocation, Aid!Active
<1> HIDE DEF row
<1>5. HandsApart(row, a) /\ row.status # "ABSENT"
  BY <1>1, <1>2, <1>4 DEF HandsApart, Aid!Spending
<1>6. applications' = [b \in Applications |-> IF b = a THEN [applications[b] EXCEPT !.status = Shown(row.status)]
                                                       ELSE applications[b]]
  BY <1>2, <1>4 DEF Aid!RecordDelivery, Shown
<1>7. row.status \in Aid!Spending => allocations[l].status \in Aid!Spending
  BY <1>1 DEF Aid!Spending
<1>8. ComplaintsShaped' /\ UNCHANGED <<campaign, contributions>>
  BY DEF Aid!RecordDelivery, AidInv, ComplaintsShaped
<1>9. allocations[l].status \in Aid!Active \ {"DELIVERED"}
  BY <1>1 DEF Aid!Active
<1> QED BY <1>2, <1>3, <1>4, <1>5, <1>6, <1>7, <1>8, <1>9, ActiveMoves

-----------------------------------------------------------------------------
\* A complaint that leaves every allocation as it is
LEMMA NotesKeep ==
    ASSUME AidAssumptions, AidInv, ComplaintsShaped', UNCHANGED <<campaign, contributions, applications, allocations, report>>
    PROVE  AidInv'
<1>1. AidShaped' /\ \A l \in Allocations : AllocationSound(allocations[l])'
  BY DEF AidInv, AidShaped, AllocationSound, HandsApart
<1>2. OneActive' /\ StatusShown' /\ Aid!ClosedCampaignOwesNothing'
  BY DEF AidInv, OneActive, StatusShown, For, Aid!ClosedCampaignOwesNothing
<1>3. Aid!AidWithinVerified'
  BY <1>1, SumsGoOn DEF AidInv
<1> QED BY <1>1, <1>2, <1>3 DEF AidInv

\* A complaint moves the allocation it is about, not the hands it went through.
LEMMA ComplaintMoves ==
    ASSUME AidAssumptions, AidInv, NEW l \in Allocations, allocations[l].status \in Aid!Active \ {"DELIVERED"},
           NEW status \in {"SUSPENDED", "APPROVED", "CANCELLED"},
           status # "CANCELLED" => allocations[l].status \in {"APPROVED", "SUSPENDED"},
           allocations' = [k \in Allocations |-> IF k = l THEN [allocations[k] EXCEPT !.status = status] ELSE allocations[k]],
           applications' = [b \in Applications |->
               IF status = "CANCELLED" /\ b \in allocations[l].application /\ applications[b].status = "ALLOCATED"
               THEN [applications[b] EXCEPT !.status = "ELIGIBLE"] ELSE applications[b]],
           ComplaintsShaped', UNCHANGED <<campaign, contributions>>
    PROVE  AidInv'
<1>1. PICK a \in Applications :
         /\ allocations[l].application = {a} /\ HandsApart(allocations[l], a)
         /\ applications[a].status = Shown(allocations[l].status)
  BY ItsApplication
<1> DEFINE row == [allocations[l] EXCEPT !.status = status]
<1>2. allocations' = [k \in Allocations |-> IF k = l THEN row ELSE allocations[k]]
  OBVIOUS
<1>3. /\ IsAllocation(row) /\ row.application = {a} /\ row.quantity = allocations[l].quantity /\ row.status = status
      /\ row.attester = allocations[l].attester /\ row.proposer = allocations[l].proposer
      /\ row.approver = allocations[l].approver
  BY <1>1 DEF AidInv, AidShaped, IsAllocation, Aid!Active
<1> HIDE DEF row
<1>4. HandsApart(row, a) /\ row.status # "ABSENT"
  BY <1>1, <1>3 DEF HandsApart, Aid!Spending
<1>5. applications' = [b \in Applications |-> IF b = a THEN [applications[b] EXCEPT !.status = Shown(row.status)]
                                                       ELSE applications[b]]
  <2>1. [applications[a] EXCEPT !.status = applications[a].status] = applications[a]
    BY DEF AidInv, AidShaped, IsApplication
  <2>2. CASE status = "CANCELLED"
    <3>1. Shown(row.status) = "ELIGIBLE" /\ applications[a].status \in {"ALLOCATED", "ELIGIBLE"}
      BY <1>1, <1>3, <2>2 DEF Shown
    <3>2. \A b \in Applications : b \in allocations[l].application <=> b = a
      BY <1>1
    <3> QED BY <2>1, <2>2, <3>1, <3>2
  <2>3. CASE status # "CANCELLED"
    <3>1. Shown(row.status) = applications[a].status
      BY <1>1, <1>3, <2>3 DEF Shown
    <3> QED BY <2>1, <2>3, <3>1
  <2> QED BY <2>2, <2>3
<1>6. row.status \in Aid!Spending => allocations[l].status \in Aid!Spending
  BY <1>3 DEF Aid!Spending
<1> QED BY <1>1, <1>2, <1>3, <1>4, <1>5, <1>6, ActiveMoves

LEMMA OpenComplaintKeeps ==
    ASSUME AidAssumptions, AidInv, NEW x \in Complaints, NEW m, NEW about \in {{}} \union {{l} : l \in Allocations},
           Aid!OpenComplaint(x, m, about)
    PROVE  AidInv'
<1>1. ComplaintsShaped'
  BY DEF Aid!OpenComplaint, AidInv, ComplaintsShaped
<1>2. UNCHANGED <<campaign, contributions, applications, report>>
  BY DEF Aid!OpenComplaint
<1>3. CASE \E l \in Allocations : about = {l} /\ allocations[l].status = "APPROVED"
  <2>1. PICK l \in Allocations : about = {l} /\ allocations[l].status = "APPROVED"
    BY <1>3
  <2>2. allocations' = [k \in Allocations |-> IF k = l THEN [allocations[k] EXCEPT !.status = "SUSPENDED"] ELSE allocations[k]]
    BY <2>1 DEF Aid!OpenComplaint
  <2>3. applications' = [b \in Applications |->
               IF "SUSPENDED" = "CANCELLED" /\ b \in allocations[l].application /\ applications[b].status = "ALLOCATED"
               THEN [applications[b] EXCEPT !.status = "ELIGIBLE"] ELSE applications[b]]
    BY <1>2 DEF AidInv, AidShaped
  <2>4. allocations[l].status \in Aid!Active \ {"DELIVERED"}
    BY <2>1 DEF Aid!Active
  <2> QED BY <1>1, <1>2, <2>1, <2>2, <2>3, <2>4, ComplaintMoves
<1>4. CASE \A l \in about : allocations[l].status # "APPROVED"
  <2>1. UNCHANGED allocations
    BY <1>4 DEF Aid!OpenComplaint, AidInv, AidShaped
  <2> QED BY <1>1, <1>2, <2>1, NotesKeep
<1> QED BY <1>3, <1>4

LEMMA ResolveComplaintKeeps ==
    ASSUME AidAssumptions, AidInv, NEW x \in Complaints, NEW m, NEW accepted,
           NEW action \in {"RESTORE_ALLOCATION", "CANCEL_ALLOCATION", "NOTE_ONLY"},
           Aid!ResolveComplaint(x, m, accepted, action)
    PROVE  AidInv'
<1> DEFINE about == complaints[x].allocation
<1>1. ComplaintsShaped'
  BY DEF Aid!ResolveComplaint, AidInv, ComplaintsShaped
<1>2. UNCHANGED <<campaign, contributions, report>>
  BY DEF Aid!ResolveComplaint
<1>3. about = {} \/ \E l \in Allocations : about = {l}
  BY DEF AidInv, ComplaintsShaped
<1>4. /\ action # "NOTE_ONLY" => about # {}
      /\ action = "RESTORE_ALLOCATION" => \A l \in about : allocations[l].status = "SUSPENDED"
      /\ action = "CANCEL_ALLOCATION" => \A l \in about : allocations[l].status \in {"PROPOSED", "APPROVED", "SUSPENDED"}
  BY DEF Aid!ResolveComplaint
<1>5. /\ allocations' = [l \in Allocations |->
               IF l \in about /\ action # "NOTE_ONLY"
               THEN [allocations[l] EXCEPT
                        !.status = IF action = "RESTORE_ALLOCATION" THEN "APPROVED" ELSE "CANCELLED"]
               ELSE allocations[l]]
      /\ applications' = [a \in Applications |->
               IF /\ action = "CANCEL_ALLOCATION" /\ applications[a].status = "ALLOCATED"
                  /\ \E l \in about : a \in allocations[l].application
               THEN [applications[a] EXCEPT !.status = "ELIGIBLE"] ELSE applications[a]]
  BY DEF Aid!ResolveComplaint
<1> HIDE DEF about
<1>6. CASE action = "NOTE_ONLY"
  <2>1. UNCHANGED <<allocations, applications>>
    BY <1>5, <1>6 DEF AidInv, AidShaped
  <2> QED BY <1>1, <1>2, <2>1, NotesKeep
<1>7. CASE action # "NOTE_ONLY"
  <2>1. PICK l \in Allocations : about = {l}
    BY <1>3, <1>4, <1>7
  <2> DEFINE status == IF action = "RESTORE_ALLOCATION" THEN "APPROVED" ELSE "CANCELLED"
  <2>2. /\ status \in {"SUSPENDED", "APPROVED", "CANCELLED"} /\ allocations[l].status \in Aid!Active \ {"DELIVERED"}
        /\ status # "CANCELLED" => allocations[l].status \in {"APPROVED", "SUSPENDED"}
        /\ status = "CANCELLED" <=> action = "CANCEL_ALLOCATION"
    BY <1>4, <1>7, <2>1 DEF Aid!Active
  <2>3. allocations' = [k \in Allocations |-> IF k = l THEN [allocations[k] EXCEPT !.status = status] ELSE allocations[k]]
    BY <1>5, <1>7, <2>1
  <2> HIDE DEF status
  <2>4. applications' = [b \in Applications |->
               IF status = "CANCELLED" /\ b \in allocations[l].application /\ applications[b].status = "ALLOCATED"
               THEN [applications[b] EXCEPT !.status = "ELIGIBLE"] ELSE applications[b]]
    <3>1. \A b : (\E k \in about : b \in allocations[k].application) <=> b \in allocations[l].application
      BY <2>1
    <3> QED BY <1>5, <2>2, <3>1
  <2> QED BY <1>1, <1>2, <2>2, <2>3, <2>4, ComplaintMoves
<1> QED BY <1>6, <1>7

LEMMA CloseKeeps ==
    ASSUME AidAssumptions, AidInv, NEW m, Aid!CloseCampaign(m)
    PROVE  AidInv'
<1>1. UNCHANGED <<contributions, applications, allocations, complaints>>
  BY DEF Aid!CloseCampaign
<1>2. AidShaped'
  BY <1>1 DEF Aid!CloseCampaign, AidInv, AidShaped
<1>3. ComplaintsShaped' /\ OneActive' /\ StatusShown' /\ \A l \in Allocations : AllocationSound(allocations[l])'
  BY <1>1 DEF AidInv, ComplaintsShaped, OneActive, StatusShown, For, AllocationSound, HandsApart
<1>4. Aid!AidWithinVerified'
  BY <1>1, <1>2, SumsGoOn DEF AidInv
<1>5. \A l \in Allocations : allocations'[l].status \in {"ABSENT", "DELIVERED", "CANCELLED"}
  BY <1>1 DEF Aid!CloseCampaign, Aid!Unreconciled, AidInv, AidShaped, IsAllocation, Aid!Active
<1>6. report' = Aid!Available /\ Aid!Available >= 0 /\ (Retain \/ Aid!Available = 0)
  <2>1. Aid!Verified \in Nat /\ Aid!Allocated \in Nat /\ Aid!Allocated <= Aid!Verified
    BY SumsAre DEF AidInv, Aid!AidWithinVerified
  <2>2. report' = Aid!Available /\ (Retain \/ Aid!Available = 0)
    BY DEF Aid!CloseCampaign
  <2> QED BY <2>1, <2>2 DEF Aid!Available
<1>7. Aid!ClosedCampaignOwesNothing'
  BY <1>5, <1>6 DEF Aid!ClosedCampaignOwesNothing
<1> QED BY <1>2, <1>3, <1>4, <1>7 DEF AidInv

-----------------------------------------------------------------------------
LEMMA AidInvNext ==
    ASSUME AidAssumptions, AidInv, [Aid!Next]_(Aid!vars)
    PROVE  AidInv'
<1>1. CASE UNCHANGED Aid!vars
  BY <1>1, PledgeKeeps DEF Aid!vars
<1>2. CASE \E m \in Members : Aid!ProposeFund(m) \/ Aid!ApproveFund(m) \/ Aid!CreateCampaign(m) \/ Aid!OpenCampaign(m)
  BY <1>2, CampaignKeeps
<1>3. CASE \E p \in Pledges, donor \in Donors, m \in Members, q \in Aid!Quantities : Aid!CreatePledge(p, donor, m, q)
  BY <1>3, PledgeKeeps DEF Aid!CreatePledge
<1>4. CASE \E c \in Contributions, donor \in Donors, m \in Members, q \in Aid!Quantities :
              \E pledge \in {{}} \union {{p} : p \in Pledges} : Aid!ReceiveContribution(c, donor, m, q, pledge)
  BY <1>4, ReceiveKeeps
<1>5. CASE \E c \in Contributions, m \in Members, ok \in BOOLEAN : Aid!VerifyContribution(c, m, ok)
  BY <1>5, VerifyKeeps
<1>6. CASE \E a \in Applications, recipient \in Recipients, m \in Members, q \in Aid!Quantities :
              Aid!SubmitApplication(a, recipient, m, q)
  BY <1>6, SubmitApplicationKeeps
<1>7. CASE \E a \in Applications, m \in Members, ok \in BOOLEAN : Aid!ReviewApplication(a, m, ok)
  BY <1>7, ReviewKeeps
<1>8. CASE \E l \in Allocations, a \in Applications, m \in Members, q \in Aid!Quantities : Aid!ProposeAllocation(l, a, m, q)
  BY <1>8, ProposeAllocationKeeps
<1>9. CASE \E l \in Allocations, m \in Members, ok \in BOOLEAN : Aid!ApproveAllocation(l, m, ok)
  BY <1>9, ApproveKeeps
<1>10. CASE \E l \in Allocations, m \in Members : Aid!RecordDelivery(l, m)
  BY <1>10, DeliverKeeps
<1>11. CASE \E x \in Complaints, m \in Members :
               \E about \in {{}} \union {{l} : l \in Allocations} : Aid!OpenComplaint(x, m, about)
  BY <1>11, OpenComplaintKeeps
<1>12. CASE \E x \in Complaints, m \in Members, accepted \in BOOLEAN :
               \E action \in {"RESTORE_ALLOCATION", "CANCEL_ALLOCATION", "NOTE_ONLY"} :
                   Aid!ResolveComplaint(x, m, accepted, action)
  BY <1>12, ResolveComplaintKeeps
<1>13. CASE \E m \in Members : Aid!CloseCampaign(m)
  BY <1>13, CloseKeeps
<1> QED BY <1>1, <1>2, <1>3, <1>4, <1>5, <1>6, <1>7, <1>8, <1>9, <1>10, <1>11, <1>12, <1>13 DEF Aid!Next

LEMMA AidInvGives ==
    ASSUME AidInv
    PROVE  Aid!AidAccounted
<1>1. Aid!AidDutiesSeparated
  <2> SUFFICES ASSUME NEW l \in Allocations, allocations[l].status = "DELIVERED"
               PROVE  /\ allocations[l].proposer # allocations[l].approver
                      /\ {allocations[l].proposer, allocations[l].approver} \intersect Aid!RecipientOf(l) = {}
                      /\ allocations[l].attester \notin {allocations[l].proposer, allocations[l].approver}
    BY DEF Aid!AidDutiesSeparated
  <2>1. PICK a \in Applications : HandsApart(allocations[l], a) /\ Aid!RecipientOf(l) = {applications[a].recipient}
    BY ItsApplication DEF Aid!Active
  <2> QED BY <2>1 DEF HandsApart, Aid!Spending
<1>2. Aid!ApplicationFollowsAid
  <2>1. \A l \in Allocations, a \in Applications :
           a \in allocations[l].application /\ allocations[l].status # "ABSENT" <=>
           allocations[l].application = {a} /\ allocations[l].status # "ABSENT"
    BY DEF AidInv, AllocationSound
  <2>2. \A l \in Allocations, a \in Applications :
           /\ For(l, a, {"APPROVED", "SUSPENDED"}) <=>
                 a \in allocations[l].application /\ allocations[l].status \in {"APPROVED", "SUSPENDED"}
           /\ For(l, a, {"DELIVERED"}) <=>
                 a \in allocations[l].application /\ allocations[l].status \in {"DELIVERED"}
    BY <2>1 DEF For
  <2> QED BY <2>2 DEF AidInv, StatusShown, Aid!ApplicationFollowsAid
<1> QED BY <1>1, <1>2 DEF AidInv, Aid!AidAccounted

\* For any members, quantities and commands of one campaign: what is promised stays within what was verified, a delivery has
\* passed through separate hands, an application shows its aid, and a closed campaign owes nothing.
THEOREM AidAlwaysAccounted ==
    ASSUME AidAssumptions
    PROVE  Aid!Spec => []Aid!AidAccounted
<1>1. Aid!Init => AidInv
  BY AidInvInit
<1>2. AidInv /\ [Aid!Next]_(Aid!vars) => AidInv'
  BY AidInvNext
<1>3. AidInv => Aid!AidAccounted
  BY AidInvGives
<1> QED BY <1>1, <1>2, <1>3, PTL DEF Aid!Spec

-----------------------------------------------------------------------------
\* Rationing

\* The same of the other instance
LEMMA SameTotal == \A f : Emergency!SumFunction(f) = SumFunction(f)
  BY DEF Emergency!SumFunction, Emergency!SumFunctionOnSet, Emergency!FoldFunctionOnSet, Emergency!MapThenFoldSet,
         SumFunction, SumFunctionOnSet, FoldFunctionOnSet, MapThenFoldSet

CrisisAssumptions ==
    IsFiniteSet(Plans) /\ IsFiniteSet(Eligible) /\ Maximum \in Nat /\ MaxAvailable \in Nat /\ 0 \notin Snapshots

IsPlan(x) ==
    /\ {"status", "rule", "snapshot", "shares", "rations"} \subseteq DOMAIN x
    /\ x.shares \in [Eligible -> Nat] /\ x.rations \in [Eligible -> Emergency!Rations]
CrisisShaped ==
    /\ rationing = [p \in Plans |-> rationing[p]] /\ \A p \in Plans : IsPlan(rationing[p])
    /\ rules = [r \in Rules |-> rules[r]] /\ \A r \in Rules : {"status", "target"} \subseteq DOMAIN rules[r]
    /\ mandates = [m \in Mandates |-> mandates[m]] /\ \A m \in Mandates : "status" \in DOMAIN mandates[m]
    /\ snapshots \in [Snapshots -> Nat \union {-1}] /\ latest \in [Targets -> Snapshots \union {0}]

\* The target whose stock a plan shares out
OfTarget(p, t) == \E r \in Rules : rationing[p].rule = {r} /\ rules[r].status # "ABSENT" /\ rules[r].target = {t}
PlanSound(p) ==
    /\ rationing[p].status # "ABSENT" =>
          /\ \E t \in Targets : OfTarget(p, t)
          /\ rationing[p].snapshot \in Snapshots /\ snapshots[rationing[p].snapshot] # -1
    /\ rationing[p].status = "PREVIEWED" => \A e \in Eligible : rationing[p].rations[e] = "PROPOSED"
    /\ rationing[p].status = "ABSENT" => \A e \in Eligible : rationing[p].rations[e] = "NONE"
    /\ rationing[p].status = "CANCELLED" => \A e \in Eligible : rationing[p].rations[e] # "RESERVED"
    /\ rationing[p].status \in {"ABSENT", "PREVIEWED", "CONFIRMED", "CANCELLED"}
RulesSound == \A r \in Rules : rules[r].status # "ABSENT" => \E t \in Targets : rules[r].target = {t}

\* A snapshot is of one target, for the target it is the latest of and for the plans made on it.
OneTarget ==
    /\ \A t \in Targets : latest[t] # 0 => snapshots[latest[t]] # -1
    /\ \A t, u \in Targets : latest[t] # 0 /\ latest[t] = latest[u] => t = u
    /\ \A p \in Plans, t \in Targets : rationing[p].status # "ABSENT" /\ latest[t] = rationing[p].snapshot => OfTarget(p, t)
    /\ \A p, q \in Plans, t \in Targets :
          rationing[p].status # "ABSENT" /\ rationing[q].status # "ABSENT" /\ rationing[p].snapshot = rationing[q].snapshot =>
              (OfTarget(p, t) => OfTarget(q, t))

\* What the confirmed plans on a snapshot hold of it
ConfirmedOn(s) == {p \in Plans : rationing[p].status = "CONFIRMED" /\ rationing[p].snapshot = s}
Part(s, p) == IF p \in ConfirmedOn(s) THEN Emergency!Held(p, {"RESERVED", "ISSUED"}) ELSE 0
Used(s) == SumFunction([p \in Plans |-> Part(s, p)])
UsedWithin == \A s \in Snapshots : Used(s) <= IF snapshots[s] = -1 THEN 0 ELSE snapshots[s]

\* What each plan holds or has handed out by itself, cancelled or not
OwnWithin ==
    \A p \in Plans : rationing[p].status # "ABSENT" =>
        Emergency!Held(p, {"RESERVED", "ISSUED"}) <= snapshots[rationing[p].snapshot]

CrisisInv ==
    /\ CrisisShaped /\ RulesSound /\ (\A p \in Plans : PlanSound(p)) /\ OneTarget
    /\ UsedWithin /\ OwnWithin /\ Emergency!OneMandate

-----------------------------------------------------------------------------
LEMMA HeldNat ==
    ASSUME CrisisAssumptions, CrisisShaped, NEW p \in Plans, NEW statuses
    PROVE  Emergency!Held(p, statuses) \in Nat
<1> DEFINE f == [e \in Eligible |-> IF rationing[p].rations[e] \in statuses THEN rationing[p].shares[e] ELSE 0]
<1>1. DOMAIN f = Eligible /\ \A e \in Eligible : f[e] \in Nat
  BY DEF CrisisShaped, IsPlan
<1>2. Emergency!Held(p, statuses) = SumFunction(f)
  BY SameTotal DEF Emergency!Held
<1> HIDE DEF f
<1> QED BY <1>1, <1>2, TotalNat DEF CrisisAssumptions

LEMMA HeldNatNext ==
    ASSUME CrisisAssumptions, CrisisShaped', NEW p \in Plans, NEW statuses
    PROVE  Emergency!Held(p, statuses)' \in Nat
<1> DEFINE f == [e \in Eligible |-> IF rationing[p].rations[e] \in statuses THEN rationing[p].shares[e] ELSE 0]'
<1>1. DOMAIN f = Eligible /\ \A e \in Eligible : f[e] \in Nat
  BY DEF CrisisShaped, IsPlan
<1>2. Emergency!Held(p, statuses)' = SumFunction(f)
  BY SameTotal DEF Emergency!Held
<1> HIDE DEF f
<1> QED BY <1>1, <1>2, TotalNat DEF CrisisAssumptions

\* Rations that do not count add up to nothing.
LEMMA HeldNone ==
    ASSUME CrisisAssumptions, CrisisShaped, NEW p \in Plans, NEW statuses,
           \A e \in Eligible : rationing[p].rations[e] \notin statuses
    PROVE  Emergency!Held(p, statuses) = 0
<1> DEFINE f == [e \in Eligible |-> IF rationing[p].rations[e] \in statuses THEN rationing[p].shares[e] ELSE 0]
<1>1. DOMAIN f = Eligible /\ \A e \in Eligible : f[e] = 0
  OBVIOUS
<1>2. Emergency!Held(p, statuses) = SumFunction(f)
  BY SameTotal DEF Emergency!Held
<1> HIDE DEF f
<1> QED BY <1>1, <1>2, TotalZero DEF CrisisAssumptions

LEMMA HeldNoneNext ==
    ASSUME CrisisAssumptions, NEW p \in Plans, \A e \in Eligible : rationing'[p].rations[e] = "PROPOSED"
    PROVE  Emergency!Held(p, {"RESERVED", "ISSUED"})' = 0
<1> DEFINE f == [e \in Eligible |-> IF rationing[p].rations[e] \in {"RESERVED", "ISSUED"} THEN rationing[p].shares[e] ELSE 0]'
<1>1. DOMAIN f = Eligible /\ \A e \in Eligible : f[e] = 0
  OBVIOUS
<1>2. Emergency!Held(p, {"RESERVED", "ISSUED"})' = SumFunction(f)
  BY SameTotal DEF Emergency!Held
<1> HIDE DEF f
<1> QED BY <1>1, <1>2, TotalZero DEF CrisisAssumptions

\* What a plan holds depends on its shares and on which of its rations count.
LEMMA HeldOrder ==
    ASSUME CrisisAssumptions, CrisisShaped, CrisisShaped', NEW p \in Plans, NEW statuses, NEW others,
           rationing'[p].shares = rationing[p].shares,
           \A e \in Eligible : rationing'[p].rations[e] \in others => rationing[p].rations[e] \in statuses
    PROVE  Emergency!Held(p, others)' <= Emergency!Held(p, statuses)
<1> DEFINE f == [e \in Eligible |-> IF rationing[p].rations[e] \in statuses THEN rationing[p].shares[e] ELSE 0]
           g == [e \in Eligible |-> IF rationing[p].rations[e] \in others THEN rationing[p].shares[e] ELSE 0]'
<1>1. DOMAIN f = Eligible /\ DOMAIN g = Eligible /\ \A e \in Eligible : f[e] \in Int /\ g[e] \in Int /\ g[e] <= f[e]
  BY DEF CrisisShaped, IsPlan
<1>2. Emergency!Held(p, statuses) = SumFunction(f) /\ Emergency!Held(p, others)' = SumFunction(g)
  BY SameTotal DEF Emergency!Held
<1> HIDE DEF f, g
<1> QED BY <1>1, <1>2, TotalOrder DEF CrisisAssumptions

LEMMA PartNat ==
    ASSUME CrisisAssumptions, CrisisShaped, NEW p \in Plans, NEW s
    PROVE  Part(s, p) \in Nat
  BY HeldNat DEF Part

LEMMA PartNatNext ==
    ASSUME CrisisAssumptions, CrisisShaped', NEW p \in Plans, NEW s
    PROVE  Part(s, p)' \in Nat
  BY HeldNatNext DEF Part

LEMMA UsedNat ==
    ASSUME CrisisAssumptions, CrisisShaped, NEW s
    PROVE  Used(s) \in Nat
<1> DEFINE f == [p \in Plans |-> Part(s, p)]
<1>1. DOMAIN f = Plans /\ \A p \in Plans : f[p] \in Nat
  BY PartNat
<1>2. Used(s) = SumFunction(f)
  BY DEF Used
<1> HIDE DEF f
<1> QED BY <1>1, <1>2, TotalNat DEF CrisisAssumptions

LEMMA UsedNatNext ==
    ASSUME CrisisAssumptions, CrisisShaped', NEW s
    PROVE  Used(s)' \in Nat
<1> DEFINE f == [p \in Plans |-> Part(s, p)']
<1>1. DOMAIN f = Plans /\ \A p \in Plans : f[p] \in Nat
  BY PartNatNext
<1>2. Used(s)' = SumFunction(f)
  BY DEF Used
<1> HIDE DEF f
<1> QED BY <1>1, <1>2, TotalNat DEF CrisisAssumptions

\* A plan counts for its snapshot while it is confirmed, and for what it handed out once it is cancelled.
LEMMA DrawnIs ==
    ASSUME CrisisAssumptions, CrisisInv, NEW s \in Snapshots
    PROVE  /\ Emergency!Drawn(s) = Used(s) + Emergency!Forgotten(s)
           /\ Used(s) \in Nat /\ Emergency!Forgotten(s) \in Nat
<1> DEFINE cancelled == {p \in Emergency!MadeOn(s) : rationing[p].status = "CANCELLED"}
           all == [p \in Emergency!MadeOn(s) |-> Emergency!Held(p, {"RESERVED", "ISSUED"})]
           lost == [p \in cancelled |-> Emergency!Held(p, {"ISSUED"})]
           f == [p \in Plans |-> Part(s, p)]
           g == [p \in Plans |-> IF p \in cancelled THEN Emergency!Held(p, {"ISSUED"}) ELSE 0]
           h == [p \in Plans |-> IF p \in Emergency!MadeOn(s) THEN Emergency!Held(p, {"RESERVED", "ISSUED"}) ELSE 0]
<1>1. \A p \in Plans : /\ f[p] \in Nat /\ g[p] \in Nat /\ h[p] \in Nat
                       /\ f[p] \in Int /\ g[p] \in Int /\ h[p] \in Int
  BY HeldNat, PartNat DEF CrisisInv
<1>2. ASSUME NEW p \in Plans PROVE h[p] = f[p] + g[p]
  <2>1. CASE p \notin Emergency!MadeOn(s)
    BY <2>1 DEF Part, ConfirmedOn, Emergency!MadeOn
  <2>2. CASE p \in Emergency!MadeOn(s) /\ rationing[p].status = "CONFIRMED"
    <3>1. f[p] = h[p] /\ g[p] = 0
      BY <2>2 DEF Part, ConfirmedOn, Emergency!MadeOn
    <3> HIDE DEF f, g, h
    <3> QED BY <1>1, <3>1
  <2>3. CASE p \in Emergency!MadeOn(s) /\ rationing[p].status = "CANCELLED"
    <3>1. Emergency!Held(p, {"RESERVED", "ISSUED"}) = Emergency!Held(p, {"ISSUED"})
      <4> DEFINE x == [e \in Eligible |-> IF rationing[p].rations[e] \in {"RESERVED", "ISSUED"} THEN rationing[p].shares[e] ELSE 0]
                 y == [e \in Eligible |-> IF rationing[p].rations[e] \in {"ISSUED"} THEN rationing[p].shares[e] ELSE 0]
      <4>1. x = y
        BY <2>3 DEF CrisisInv, PlanSound
      <4>2. Emergency!Held(p, {"RESERVED", "ISSUED"}) = SumFunction(x) /\ Emergency!Held(p, {"ISSUED"}) = SumFunction(y)
        BY SameTotal DEF Emergency!Held
      <4> HIDE DEF x, y
      <4> QED BY <4>1, <4>2
    <3>2. f[p] = 0 /\ g[p] = h[p]
      BY <2>3, <3>1 DEF Part, ConfirmedOn
    <3> HIDE DEF f, g, h
    <3> QED BY <1>1, <3>2
  <2>4. CASE rationing[p].status \in {"ABSENT", "PREVIEWED"}
    <3>1. \A e \in Eligible : rationing[p].rations[e] \notin {"RESERVED", "ISSUED"}
      BY <2>4 DEF CrisisInv, PlanSound
    <3>2. Emergency!Held(p, {"RESERVED", "ISSUED"}) = 0
      BY <3>1, HeldNone DEF CrisisInv
    <3> QED BY <2>4, <3>2 DEF Part, ConfirmedOn
  <2> QED BY <2>1, <2>2, <2>3, <2>4 DEF CrisisInv, PlanSound
<1>3. /\ DOMAIN f = Plans /\ DOMAIN g = Plans /\ DOMAIN h = Plans
      /\ DOMAIN all = Emergency!MadeOn(s) /\ DOMAIN lost = cancelled
      /\ Emergency!MadeOn(s) \in SUBSET Plans /\ cancelled \in SUBSET Plans
  BY DEF Emergency!MadeOn
<1>4. /\ \A p \in Plans : h[p] = IF p \in Emergency!MadeOn(s) THEN all[p] ELSE 0
      /\ \A p \in Plans : g[p] = IF p \in cancelled THEN lost[p] ELSE 0
  OBVIOUS
<1>5. Used(s) = SumFunction(f) /\ Emergency!Drawn(s) = SumFunction(all) /\ Emergency!Forgotten(s) = SumFunction(lost)
  BY SameTotal DEF Used, Emergency!Drawn, Emergency!Forgotten
<1> HIDE DEF f, g, h, all, lost, cancelled
<1>6. SumFunction(all) = SumFunction(h) /\ SumFunction(lost) = SumFunction(g)
  BY <1>1, <1>3, <1>4, TotalWithin DEF CrisisAssumptions
<1>7. SumFunction(h) = SumFunction(f) + SumFunction(g)
  BY <1>1, <1>2, <1>3, SumPlus, SumOfAll DEF CrisisAssumptions
<1>8. SumFunction(f) \in Nat /\ SumFunction(g) \in Nat
  BY <1>1, <1>3, TotalNat DEF CrisisAssumptions
<1> QED BY <1>5, <1>6, <1>7, <1>8

LEMMA UsedOrder ==
    ASSUME CrisisAssumptions, CrisisShaped, CrisisShaped', NEW s, \A p \in Plans : Part(s, p)' <= Part(s, p)
    PROVE  Used(s)' <= Used(s)
<1> DEFINE f == [p \in Plans |-> Part(s, p)]
           g == [p \in Plans |-> Part(s, p)']
<1>1. DOMAIN f = Plans /\ DOMAIN g = Plans /\ \A p \in Plans : f[p] \in Int /\ g[p] \in Int /\ g[p] <= f[p]
  BY PartNat, PartNatNext
<1>2. Used(s) = SumFunction(f) /\ Used(s)' = SumFunction(g)
  BY DEF Used
<1> HIDE DEF f, g
<1> QED BY <1>1, <1>2, TotalOrder DEF CrisisAssumptions

\* One more plan on a snapshot adds what it holds.
LEMMA UsedTake ==
    ASSUME CrisisAssumptions, CrisisShaped, CrisisShaped', NEW s, NEW p \in Plans, Part(s, p) = 0,
           \A q \in Plans \ {p} : Part(s, q)' = Part(s, q)
    PROVE  Used(s)' = Used(s) + Part(s, p)'
<1> DEFINE f == [q \in Plans |-> Part(s, q)]
           g == [q \in Plans |-> Part(s, q)']
<1>1. /\ DOMAIN f = Plans /\ DOMAIN g = Plans /\ \A q \in Plans : f[q] \in Int /\ g[q] \in Int
      /\ \A q \in Plans \ {p} : f[q] = g[q]
  BY PartNat, PartNatNext
<1>2. Used(s) = SumFunction(f) /\ Used(s)' = SumFunction(g)
  BY DEF Used
<1>3. f[p] = 0 /\ g[p] = Part(s, p)'
  OBVIOUS
<1>4. Used(s) \in Nat /\ Part(s, p)' \in Nat
  BY UsedNat, PartNatNext
<1> HIDE DEF f, g
<1>5. SumFunction(g) = SumFunction(f) - f[p] + g[p]
  BY <1>1, TotalChange DEF CrisisAssumptions
<1> QED BY <1>2, <1>3, <1>4, <1>5

\* The plans on a snapshot are all of its target.
LEMMA UsedWithinTotal ==
    ASSUME CrisisAssumptions, CrisisShaped, NEW s, NEW t, ConfirmedOn(s) \subseteq Emergency!Confirmed(t)
    PROVE  Used(s) <= Emergency!ReservedTotal(t) /\ Emergency!ReservedTotal(t) \in Nat
<1> DEFINE f == [p \in Plans |-> Part(s, p)]
           g == [p \in Plans |-> IF p \in Emergency!Confirmed(t) THEN Emergency!Held(p, {"RESERVED", "ISSUED"}) ELSE 0]
           h == [p \in Emergency!Confirmed(t) |-> Emergency!Held(p, {"RESERVED", "ISSUED"})]
<1>1. \A p \in Plans : f[p] \in Int /\ g[p] \in Nat /\ g[p] \in Int /\ f[p] <= g[p]
  BY HeldNat DEF Part
<1>2. \A p \in Plans : g[p] = IF p \in Emergency!Confirmed(t) THEN h[p] ELSE 0
  OBVIOUS
<1>3. /\ DOMAIN f = Plans /\ DOMAIN g = Plans /\ DOMAIN h = Emergency!Confirmed(t) /\ Emergency!Confirmed(t) \in SUBSET Plans
      /\ Used(s) = SumFunction(f) /\ Emergency!ReservedTotal(t) = SumFunction(h)
  BY SameTotal DEF Used, Emergency!ReservedTotal, Emergency!Confirmed
<1> HIDE DEF f, g, h
<1>4. SumFunction(f) <= SumFunction(g) /\ SumFunction(g) \in Nat
  BY <1>1, <1>3, TotalOrder, TotalNat DEF CrisisAssumptions
<1>5. SumFunction(h) = SumFunction(g)
  BY <1>1, <1>2, <1>3, TotalWithin DEF CrisisAssumptions
<1> QED BY <1>3, <1>4, <1>5

-----------------------------------------------------------------------------
LEMMA CrisisInvInit ==
    ASSUME CrisisAssumptions, Emergency!Init
    PROVE  CrisisInv
<1>1. CrisisShaped
  BY DEF Emergency!Init, CrisisShaped, IsPlan, Emergency!Rations, Emergency!NoPlan, Emergency!NoRule, Emergency!NoMandate
<1>2. /\ \A p \in Plans : rationing[p].status = "ABSENT"
      /\ \A r \in Rules : rules[r].status = "ABSENT"
      /\ \A m \in Mandates : mandates[m].status = "ABSENT"
      /\ \A t \in Targets : latest[t] = 0
  BY DEF Emergency!Init, Emergency!NoPlan, Emergency!NoRule, Emergency!NoMandate
<1>3. UsedWithin
  <2> SUFFICES ASSUME NEW s \in Snapshots PROVE Used(s) = 0
    BY DEF UsedWithin, Emergency!Init
  <2> DEFINE f == [p \in Plans |-> Part(s, p)]
  <2>1. DOMAIN f = Plans /\ \A p \in Plans : f[p] = 0
    BY <1>2 DEF Part, ConfirmedOn
  <2>2. Used(s) = SumFunction(f)
    BY DEF Used
  <2> HIDE DEF f
  <2> QED BY <2>1, <2>2, TotalZero DEF CrisisAssumptions
<1>4. \A p \in Plans : PlanSound(p)
  BY <1>2 DEF PlanSound, Emergency!Init, Emergency!NoPlan
<1>5. RulesSound /\ Emergency!OneMandate /\ OwnWithin
  BY <1>2 DEF RulesSound, Emergency!OneMandate, OwnWithin
<1>6. OneTarget
  <2>1. /\ \A t \in Targets : latest[t] # 0 => snapshots[latest[t]] # -1
        /\ \A t, u \in Targets : latest[t] # 0 /\ latest[t] = latest[u] => t = u
    BY <1>2
  <2>2. \A p \in Plans, t \in Targets : rationing[p].status # "ABSENT" /\ latest[t] = rationing[p].snapshot => OfTarget(p, t)
    BY <1>2
  <2>3. \A p, q \in Plans, t \in Targets :
           rationing[p].status # "ABSENT" /\ rationing[q].status # "ABSENT" /\ rationing[p].snapshot = rationing[q].snapshot =>
               (OfTarget(p, t) => OfTarget(q, t))
    <3> SUFFICES ASSUME NEW p \in Plans, rationing[p].status # "ABSENT" PROVE FALSE
      OBVIOUS
    <3> QED BY <1>2
  <2> QED BY <2>1, <2>2, <2>3 DEF OneTarget
<1> QED BY <1>1, <1>3, <1>4, <1>5, <1>6 DEF CrisisInv

\* Plans and snapshots as they are, with the mandates and rules known before
LEMMA RulesKeep ==
    ASSUME CrisisAssumptions, CrisisInv, UNCHANGED <<rationing, snapshots, latest>>,
           rules' = [r \in Rules |-> rules'[r]],
           \A r \in Rules : /\ {"status", "target"} \subseteq DOMAIN rules'[r]
                            /\ IF rules[r].status # "ABSENT"
                               THEN rules'[r].status # "ABSENT" /\ rules'[r].target = rules[r].target
                               ELSE rules'[r].status # "ABSENT" => \E t \in Targets : rules'[r].target = {t},
           mandates' = [m \in Mandates |-> mandates'[m]], \A m \in Mandates : "status" \in DOMAIN mandates'[m], Emergency!OneMandate'
    PROVE  CrisisInv'
<1>1. CrisisShaped'
  BY DEF CrisisInv, CrisisShaped
<1>2. RulesSound'
  BY DEF CrisisInv, RulesSound
<1>3. ASSUME NEW p \in Plans, rationing[p].status # "ABSENT", NEW t
      PROVE  OfTarget(p, t)' <=> OfTarget(p, t)
  <2>1. PICK r \in Rules : rationing[p].rule = {r} /\ rules[r].status # "ABSENT"
    BY <1>3 DEF CrisisInv, PlanSound, OfTarget
  <2>2. rules'[r].status # "ABSENT" /\ rules'[r].target = rules[r].target
    BY <2>1
  <2>3. \A q \in Rules : rationing[p].rule = {q} => q = r
    BY <2>1
  <2> QED BY <2>1, <2>2, <2>3 DEF OfTarget
<1>4. (\A p \in Plans : PlanSound(p))' /\ OneTarget'
  BY <1>3 DEF CrisisInv, PlanSound, OneTarget
<1>5. \A s \in Snapshots : Used(s)' = Used(s)
  BY SameTotal DEF Used, Part, ConfirmedOn, Emergency!Held
<1>6. UsedWithin'
  BY <1>5 DEF CrisisInv, UsedWithin
<1>7. OwnWithin'
  BY SameTotal DEF CrisisInv, OwnWithin, Emergency!Held
<1> QED BY <1>1, <1>2, <1>4, <1>6, <1>7 DEF CrisisInv

LEMMA NothingKeeps ==
    ASSUME CrisisAssumptions, CrisisInv, UNCHANGED <<mandates, rules, rationing, snapshots, latest>>
    PROVE  CrisisInv'
<1>1. Emergency!OneMandate'
  BY DEF CrisisInv, Emergency!OneMandate
<1>2. /\ rules' = [r \in Rules |-> rules'[r]] /\ mandates' = [m \in Mandates |-> mandates'[m]]
      /\ \A r \in Rules : {"status", "target"} \subseteq DOMAIN rules'[r]
      /\ \A m \in Mandates : "status" \in DOMAIN mandates'[m]
  BY DEF CrisisInv, CrisisShaped
<1>3. RulesSound
  BY DEF CrisisInv
<1> QED BY <1>1, <1>2, <1>3, RulesKeep DEF RulesSound

LEMMA MandateKeeps ==
    ASSUME CrisisAssumptions, CrisisInv, NEW m \in Mandates, NEW row, "status" \in DOMAIN row,
           mandates' = [mandates EXCEPT ![m] = row], UNCHANGED <<rules, rationing, snapshots, latest>>,
           row.status = "ACTIVE" => mandates[m].status = "ACTIVE" \/ Emergency!OtherActive(m) = {}
    PROVE  CrisisInv'
<1>1. /\ mandates' = [n \in Mandates |-> mandates'[n]]
      /\ \A n \in Mandates : mandates'[n] = IF n = m THEN row ELSE mandates[n]
  BY DEF CrisisInv, CrisisShaped
<1>2. Emergency!OneMandate'
  BY <1>1 DEF CrisisInv, Emergency!OneMandate, Emergency!OtherActive
<1>3. /\ rules' = [r \in Rules |-> rules'[r]] /\ \A r \in Rules : {"status", "target"} \subseteq DOMAIN rules'[r]
      /\ \A n \in Mandates : "status" \in DOMAIN mandates'[n]
  BY <1>1 DEF CrisisInv, CrisisShaped
<1>4. RulesSound
  BY DEF CrisisInv
<1> QED BY <1>1, <1>2, <1>3, <1>4, RulesKeep DEF RulesSound

LEMMA ProposeMandateKeeps ==
    ASSUME CrisisAssumptions, CrisisInv, NEW m \in Mandates, NEW a, NEW expires, Emergency!ProposeMandate(m, a, expires)
    PROVE  CrisisInv'
<1> DEFINE row == [status |-> "DRAFT", proposer |-> a, activator |-> Nobody, expires |-> expires]
<1>1. mandates' = [mandates EXCEPT ![m] = row] /\ UNCHANGED <<rules, rationing, snapshots, latest>>
  BY DEF Emergency!ProposeMandate
<1>2. "status" \in DOMAIN row /\ row.status # "ACTIVE"
  OBVIOUS
<1> HIDE DEF row
<1> QED BY <1>1, <1>2, MandateKeeps

LEMMA ActivateMandateKeeps ==
    ASSUME CrisisAssumptions, CrisisInv, NEW m \in Mandates, NEW a, Emergency!ActivateMandate(m, a)
    PROVE  CrisisInv'
<1> DEFINE row == [mandates[m] EXCEPT !.status = "ACTIVE", !.activator = a]
<1>1. /\ mandates' = [mandates EXCEPT ![m] = row] /\ UNCHANGED <<rules, rationing, snapshots, latest>> /\ Emergency!OtherActive(m) = {}
  BY DEF Emergency!ActivateMandate
<1>2. "status" \in DOMAIN row
  BY DEF CrisisInv, CrisisShaped
<1> HIDE DEF row
<1> QED BY <1>1, <1>2, MandateKeeps

LEMMA ReviewMandateKeeps ==
    ASSUME CrisisAssumptions, CrisisInv, NEW m \in Mandates, NEW a, NEW expires, Emergency!ReviewMandate(m, a, expires)
    PROVE  CrisisInv'
<1> DEFINE row == [mandates[m] EXCEPT !.expires = expires]
<1>1. /\ mandates' = [mandates EXCEPT ![m] = row] /\ UNCHANGED <<rules, rationing, snapshots, latest>>
      /\ mandates[m].status = "ACTIVE"
  BY DEF Emergency!ReviewMandate
<1>2. "status" \in DOMAIN row
  BY DEF CrisisInv, CrisisShaped
<1> HIDE DEF row
<1> QED BY <1>1, <1>2, MandateKeeps

LEMMA CloseMandateKeeps ==
    ASSUME CrisisAssumptions, CrisisInv, NEW m \in Mandates, NEW a, Emergency!CloseMandate(m, a)
    PROVE  CrisisInv'
<1> DEFINE row == [mandates[m] EXCEPT !.status = IF clock < mandates[m].expires THEN "CLOSED" ELSE "EXPIRED"]
<1>1. mandates' = [mandates EXCEPT ![m] = row] /\ UNCHANGED <<rules, rationing, snapshots, latest>>
  BY DEF Emergency!CloseMandate
<1>2. "status" \in DOMAIN row /\ row.status # "ACTIVE"
  BY DEF CrisisInv, CrisisShaped
<1> HIDE DEF row
<1> QED BY <1>1, <1>2, MandateKeeps

LEMMA ProposeRuleKeeps ==
    ASSUME CrisisAssumptions, CrisisInv, NEW r \in Rules, NEW m, NEW t \in Targets, NEW a, Emergency!ProposeRationingRule(r, m, t, a)
    PROVE  CrisisInv'
<1> DEFINE row == [status |-> "DRAFT", proposer |-> a, mandate |-> {m}, target |-> {t}]
<1>1. /\ rules' = [rules EXCEPT ![r] = row] /\ rules[r].status = "ABSENT"
      /\ UNCHANGED <<mandates, rationing, snapshots, latest>>
  BY DEF Emergency!ProposeRationingRule
<1>2. {"status", "target"} \subseteq DOMAIN row /\ row.status # "ABSENT" /\ row.target = {t}
  OBVIOUS
<1> HIDE DEF row
<1>3. rules' = [q \in Rules |-> rules'[q]] /\ \A q \in Rules : rules'[q] = IF q = r THEN row ELSE rules[q]
  BY <1>1 DEF CrisisInv, CrisisShaped
<1>4. Emergency!OneMandate' /\ mandates' = [n \in Mandates |-> mandates'[n]] /\ \A n \in Mandates : "status" \in DOMAIN mandates'[n]
  BY <1>1 DEF CrisisInv, CrisisShaped, Emergency!OneMandate
<1>5. \A q \in Rules : {"status", "target"} \subseteq DOMAIN rules'[q]
  BY <1>2, <1>3 DEF CrisisInv, CrisisShaped
<1> QED BY <1>1, <1>2, <1>3, <1>4, <1>5, RulesKeep

LEMMA ApproveRuleKeeps ==
    ASSUME CrisisAssumptions, CrisisInv, NEW r \in Rules, NEW a, NEW found, Emergency!ApproveRationingRule(r, a, found)
    PROVE  CrisisInv'
<1>1. UNCHANGED <<mandates, rationing, snapshots, latest>> /\ rules[r].status = "DRAFT" /\ \A q \in found : rules[q].status = "ACTIVE"
  BY DEF Emergency!ApproveRationingRule
<1>2. ASSUME NEW q \in Rules
      PROVE  /\ {"status", "target"} \subseteq DOMAIN rules'[q]
             /\ rules'[q].target = rules[q].target
             /\ IF rules[q].status = "ABSENT" THEN rules'[q].status = "ABSENT" ELSE rules'[q].status # "ABSENT"
  <2>1. rules'[q] = IF q = r THEN [rules[q] EXCEPT !.status = "ACTIVE"]
                    ELSE IF q \in found THEN [rules[q] EXCEPT !.status = "RETIRED"] ELSE rules[q]
    BY DEF Emergency!ApproveRationingRule
  <2>2. {"status", "target"} \subseteq DOMAIN rules[q]
    BY DEF CrisisInv, CrisisShaped
  <2> QED BY <1>1, <2>1, <2>2
<1>3. rules' = [q \in Rules |-> rules'[q]]
  BY DEF Emergency!ApproveRationingRule
<1>4. Emergency!OneMandate' /\ mandates' = [n \in Mandates |-> mandates'[n]] /\ \A n \in Mandates : "status" \in DOMAIN mandates'[n]
  BY <1>1 DEF CrisisInv, CrisisShaped, Emergency!OneMandate
<1> QED BY <1>1, <1>2, <1>3, <1>4, RulesKeep

LEMMA RecordKeeps ==
    ASSUME CrisisAssumptions, CrisisInv, NEW s \in Snapshots, NEW t \in Targets, NEW available \in 0..MaxAvailable,
           Emergency!RecordReserveSnapshot(s, t, available)
    PROVE  CrisisInv'
<1>1. /\ snapshots[s] = -1 /\ snapshots' = [snapshots EXCEPT ![s] = available] /\ latest' = [latest EXCEPT ![t] = s]
      /\ UNCHANGED <<mandates, rules, rationing>> /\ available \in Nat
  BY DEF Emergency!RecordReserveSnapshot, CrisisAssumptions
<1>2. /\ \A u \in Snapshots : snapshots'[u] = IF u = s THEN available ELSE snapshots[u]
      /\ \A u \in Targets : latest'[u] = IF u = t THEN s ELSE latest[u]
  BY <1>1 DEF CrisisInv, CrisisShaped
<1>3. CrisisShaped' /\ RulesSound' /\ Emergency!OneMandate'
  BY <1>1 DEF CrisisInv, CrisisShaped, RulesSound, Emergency!OneMandate
<1>4. \A p \in Plans : rationing[p].status # "ABSENT" => rationing[p].snapshot # s
  BY <1>1 DEF CrisisInv, PlanSound
<1>5. \A p \in Plans : PlanSound(p)'
  BY <1>1, <1>2, <1>4 DEF CrisisInv, PlanSound, OfTarget
<1>6. OneTarget'
  <2>1. \A u \in Targets : latest[u] # s /\ latest[u] \in Snapshots \union {0}
    BY <1>1 DEF CrisisInv, OneTarget, CrisisAssumptions, CrisisShaped
  <2>2. \A u \in Targets : latest'[u] # 0 => snapshots'[latest'[u]] # -1
    BY <1>1, <1>2, <2>1 DEF CrisisInv, OneTarget
  <2>3. \A p, q \in Plans, u \in Targets : OfTarget(p, u)' <=> OfTarget(p, u)
    BY <1>1 DEF OfTarget
  <2> QED BY <1>1, <1>2, <1>4, <2>1, <2>2, <2>3 DEF CrisisInv, OneTarget
<1>7. \A u \in Snapshots : Used(u)' = Used(u)
  BY <1>1 DEF Used, Part, ConfirmedOn, Emergency!Held
<1>8. UsedWithin'
  <2>1. \A u \in Snapshots : Used(u) \in Nat
    BY UsedNat DEF CrisisInv
  <2> QED BY <1>1, <1>2, <1>7, <2>1 DEF CrisisInv, UsedWithin
<1>9. OwnWithin'
  <2>1. \A p \in Plans : Emergency!Held(p, {"RESERVED", "ISSUED"})' = Emergency!Held(p, {"RESERVED", "ISSUED"})
    BY <1>1, SameTotal DEF Emergency!Held
  <2>2. \A p \in Plans : rationing[p].status # "ABSENT" =>
                            snapshots'[rationing[p].snapshot] = snapshots[rationing[p].snapshot]
    BY <1>2, <1>4 DEF CrisisInv, PlanSound
  <2> QED BY <1>1, <2>1, <2>2 DEF CrisisInv, OwnWithin
<1> QED BY <1>3, <1>5, <1>6, <1>8, <1>9 DEF CrisisInv

-----------------------------------------------------------------------------
\* A plan of rule r and target t that its snapshot bears
Bears(p, row, t, r) ==
    /\ row.status \in {"PREVIEWED", "CONFIRMED", "CANCELLED"}
    /\ row.snapshot \in Snapshots /\ snapshots[row.snapshot] # -1
    /\ row.status = "CANCELLED" => \A e \in Eligible : row.rations[e] # "RESERVED"
    /\ row.rule = {r} /\ rules[r].status # "ABSENT" /\ rules[r].target = {t}
    /\ row.status = "PREVIEWED" => \A e \in Eligible : row.rations[e] = "PROPOSED"
    /\ \/ rationing[p].status # "ABSENT" /\ row.rule = rationing[p].rule /\ row.snapshot = rationing[p].snapshot
       \/ latest[t] = row.snapshot

LEMMA PlanMoves ==
    ASSUME CrisisAssumptions, CrisisInv, NEW p \in Plans, NEW row, IsPlan(row), rationing' = [rationing EXCEPT ![p] = row],
           NEW t \in Targets, NEW r \in Rules, Bears(p, row, t, r), UNCHANGED <<mandates, rules, snapshots, latest>>
    PROVE  /\ CrisisShaped' /\ (UsedWithin' /\ OwnWithin' => CrisisInv')
           /\ \A q \in Plans : rationing'[q] = IF q = p THEN row ELSE rationing[q]
<1>1. \A q \in Plans : rationing'[q] = IF q = p THEN row ELSE rationing[q]
  BY DEF CrisisInv, CrisisShaped
<1>2. CrisisShaped' /\ RulesSound' /\ Emergency!OneMandate'
  BY <1>1 DEF CrisisInv, CrisisShaped, RulesSound, Emergency!OneMandate
<1>3. \A q \in Plans, u \in Targets : OfTarget(q, u)' <=> IF q = p THEN u = t ELSE OfTarget(q, u)
  BY <1>1 DEF OfTarget, Bears
<1>4. \A q \in Plans : PlanSound(q)'
  BY <1>1, <1>3 DEF CrisisInv, PlanSound, Bears
<1>5. /\ \A q \in Plans : rationing[q].status # "ABSENT" /\ rationing[q].snapshot = row.snapshot => OfTarget(q, t)
      /\ \A u \in Targets : latest[u] = row.snapshot => u = t
  <2>1. CASE rationing[p].status # "ABSENT" /\ row.rule = rationing[p].rule /\ row.snapshot = rationing[p].snapshot
    <3>1. OfTarget(p, t) /\ \A u : OfTarget(p, u) => u = t
      BY <2>1 DEF OfTarget, Bears
    <3> QED BY <2>1, <3>1 DEF CrisisInv, OneTarget
  <2>2. CASE latest[t] = row.snapshot
    <3>1. latest[t] # 0
      BY <2>2 DEF CrisisAssumptions, Bears
    <3> QED BY <2>2, <3>1 DEF CrisisInv, OneTarget
  <2> QED BY <2>1, <2>2 DEF Bears
<1>6. \A q \in Plans, u \in Targets :
         rationing[q].status # "ABSENT" /\ rationing[q].snapshot = row.snapshot /\ OfTarget(q, u) => u = t
  BY <1>5 DEF OfTarget
<1>7. OneTarget'
  BY <1>1, <1>3, <1>5, <1>6 DEF CrisisInv, OneTarget, Bears
<1> QED BY <1>1, <1>2, <1>4, <1>7 DEF CrisisInv

\* The others hold what they held.
LEMMA OwnOthers ==
    ASSUME CrisisAssumptions, CrisisInv, CrisisShaped', NEW p \in Plans, UNCHANGED snapshots,
           \A q \in Plans \ {p} : rationing'[q] = rationing[q],
           rationing'[p].snapshot \in Snapshots, snapshots[rationing'[p].snapshot] # -1,
           \/ Emergency!Held(p, {"RESERVED", "ISSUED"})' <= snapshots[rationing'[p].snapshot]
           \/ /\ rationing[p].status # "ABSENT" /\ rationing'[p].snapshot = rationing[p].snapshot
              /\ Emergency!Held(p, {"RESERVED", "ISSUED"})' <= Emergency!Held(p, {"RESERVED", "ISSUED"})
    PROVE  OwnWithin'
<1>1. \A q \in Plans \ {p} : Emergency!Held(q, {"RESERVED", "ISSUED"})' = Emergency!Held(q, {"RESERVED", "ISSUED"})
  BY SameTotal DEF Emergency!Held
<1>2. /\ Emergency!Held(p, {"RESERVED", "ISSUED"})' \in Nat /\ Emergency!Held(p, {"RESERVED", "ISSUED"}) \in Nat
      /\ snapshots[rationing'[p].snapshot] \in Nat
  BY HeldNat, HeldNatNext DEF CrisisInv, CrisisShaped
<1>3. Emergency!Held(p, {"RESERVED", "ISSUED"})' <= snapshots[rationing'[p].snapshot]
  BY <1>2 DEF CrisisInv, OwnWithin
<1> QED BY <1>1, <1>3 DEF CrisisInv, OwnWithin

\* A plan that goes on holds no more than before.
LEMMA PlanGoesOn ==
    ASSUME CrisisAssumptions, CrisisInv, NEW p \in Plans, rationing[p].status # "ABSENT", NEW row, IsPlan(row),
           rationing' = [rationing EXCEPT ![p] = row], row.status \in {"CONFIRMED", "CANCELLED"},
           row.snapshot = rationing[p].snapshot, row.rule = rationing[p].rule, row.shares = rationing[p].shares,
           row.status = "CONFIRMED" => rationing[p].status = "CONFIRMED",
           row.status = "CANCELLED" => \A e \in Eligible : row.rations[e] # "RESERVED",
           \A e \in Eligible : row.rations[e] \in {"RESERVED", "ISSUED"} => rationing[p].rations[e] \in {"RESERVED", "ISSUED"},
           UNCHANGED <<mandates, rules, snapshots, latest>>
    PROVE  CrisisInv'
<1>1. /\ rationing[p].snapshot \in Snapshots /\ snapshots[rationing[p].snapshot] # -1 /\ \E t \in Targets : OfTarget(p, t)
  BY DEF CrisisInv, PlanSound
<1>2. PICK t \in Targets, r \in Rules : rationing[p].rule = {r} /\ rules[r].status # "ABSENT" /\ rules[r].target = {t}
  BY <1>1 DEF OfTarget
<1>0. Bears(p, row, t, r)
  BY <1>1, <1>2 DEF Bears
<1>3. /\ CrisisShaped' /\ (UsedWithin' /\ OwnWithin' => CrisisInv')
      /\ \A q \in Plans : rationing'[q] = IF q = p THEN row ELSE rationing[q]
  BY <1>0, <1>2, PlanMoves
<1>7. Emergency!Held(p, {"RESERVED", "ISSUED"})' <= Emergency!Held(p, {"RESERVED", "ISSUED"})
  BY <1>3, HeldOrder DEF CrisisInv
<1>4. ASSUME NEW s \in Snapshots, NEW q \in Plans PROVE Part(s, q)' <= Part(s, q)
  <2>1. CASE q # p
    <3>1. Part(s, q)' = Part(s, q)
      BY <1>3, <2>1 DEF Part, ConfirmedOn, Emergency!Held
    <3>2. Part(s, q) \in Nat
      BY PartNat DEF CrisisInv
    <3> QED BY <3>1, <3>2
  <2>2. CASE q = p /\ p \in ConfirmedOn(s)'
    <3>1. row.status = "CONFIRMED" /\ p \in ConfirmedOn(s)
      BY <1>3, <2>2 DEF ConfirmedOn
    <3> QED BY <1>7, <2>2, <3>1 DEF Part
  <2>3. CASE q = p /\ p \notin ConfirmedOn(s)'
    <3>1. Part(s, q) \in Nat
      BY PartNat DEF CrisisInv
    <3> QED BY <2>3, <3>1 DEF Part
  <2> QED BY <2>1, <2>2, <2>3
<1>5. \A s \in Snapshots : Used(s)' <= Used(s) /\ Used(s)' \in Nat /\ Used(s) \in Nat
  <2> SUFFICES ASSUME NEW s \in Snapshots PROVE Used(s)' <= Used(s) /\ Used(s)' \in Nat /\ Used(s) \in Nat
    OBVIOUS
  <2>1. Used(s)' <= Used(s)
    BY <1>3, <1>4, UsedOrder DEF CrisisInv
  <2>2. Used(s) \in Nat
    BY UsedNat DEF CrisisInv
  <2>3. Used(s)' \in Nat
    BY <1>3, UsedNatNext
  <2> QED BY <2>1, <2>2, <2>3
<1>6. UsedWithin'
  BY <1>5 DEF CrisisInv, UsedWithin, CrisisShaped
<1>8. OwnWithin'
  BY <1>1, <1>3, <1>7, OwnOthers
<1> QED BY <1>3, <1>6, <1>8

LEMMA PreviewKeeps ==
    ASSUME CrisisAssumptions, CrisisInv, NEW p \in Plans, NEW r \in Rules, NEW a, NEW share \in [Eligible -> 0..Maximum],
           Emergency!PreviewRationingPlan(p, r, a, share)
    PROVE  CrisisInv'
<1>1. rules[r].status # "ABSENT" /\ rationing[p].status = "ABSENT" /\ UNCHANGED <<mandates, rules, snapshots, latest>>
  BY DEF Emergency!PreviewRationingPlan, Emergency!SawActiveRule
<1>2. PICK t \in Targets : rules[r].target = {t}
  BY <1>1 DEF CrisisInv, RulesSound
<1>9. PICK n : n = latest[t]
  OBVIOUS
<1> DEFINE row == [status |-> "PREVIEWED", proposer |-> a, confirmer |-> Nobody, rule |-> {r},
                   snapshot |-> n, shares |-> share, rations |-> [e \in Eligible |-> "PROPOSED"]]
<1>3. latest[t] # 0 /\ rationing' = [rationing EXCEPT ![p] = row]
  BY <1>2, <1>9 DEF Emergency!PreviewRationingPlan
<1>4. latest[t] \in Snapshots /\ snapshots[latest[t]] # -1
  BY <1>3 DEF CrisisInv, CrisisShaped, OneTarget
<1>0. IsPlan(row)
  BY DEF IsPlan, Emergency!Rations, CrisisAssumptions
<1>5. /\ row.status = "PREVIEWED" /\ row.snapshot = n /\ row.rule = {r}
      /\ \A e \in Eligible : row.rations[e] = "PROPOSED"
  OBVIOUS
<1> HIDE DEF row
<1>6. Bears(p, row, t, r)
  BY <1>1, <1>2, <1>4, <1>5, <1>9 DEF Bears
<1>7. /\ CrisisShaped' /\ (UsedWithin' /\ OwnWithin' => CrisisInv')
      /\ \A q \in Plans : rationing'[q] = IF q = p THEN row ELSE rationing[q]
  <2>1. UNCHANGED <<mandates, rules, snapshots, latest>>
    BY <1>1
  <2>2. rationing' = [rationing EXCEPT ![p] = row]
    BY <1>3
  <2> QED BY <1>0, <1>6, <2>1, <2>2, PlanMoves
<1>8. \A s \in Snapshots, q \in Plans : Part(s, q)' = Part(s, q)
  <2> SUFFICES ASSUME NEW s \in Snapshots, NEW q \in Plans PROVE Part(s, q)' = Part(s, q)
    OBVIOUS
  <2>1. CASE q = p
    <3>1. p \notin ConfirmedOn(s) /\ p \notin ConfirmedOn(s)'
      BY <1>1, <1>5, <1>7 DEF ConfirmedOn
    <3> QED BY <2>1, <3>1 DEF Part
  <2>2. CASE q # p
    BY <1>7, <2>2 DEF Part, ConfirmedOn, Emergency!Held
  <2> QED BY <2>1, <2>2
<1>11. \A s \in Snapshots : Used(s)' = Used(s)
  BY <1>8 DEF Used
<1>10. UsedWithin'
  BY <1>1, <1>11 DEF CrisisInv, UsedWithin
<1>12. Emergency!Held(p, {"RESERVED", "ISSUED"})' = 0
  BY <1>5, <1>7, HeldNoneNext
<1>13. OwnWithin'
  <2>1. n \in Snapshots /\ snapshots[n] # -1 /\ snapshots[n] \in Nat
    BY <1>4, <1>9 DEF CrisisInv, CrisisShaped
  <2> QED BY <1>1, <1>5, <1>7, <1>12, <2>1, OwnOthers
<1> QED BY <1>7, <1>10, <1>13

\* A confirmation counts what all plans on its target hold, these among them.
LEMMA ConfirmKeeps ==
    ASSUME CrisisAssumptions, CrisisInv, NEW p \in Plans, NEW a, Emergency!ConfirmRationingPlan(p, a)
    PROVE  CrisisInv'
<1>1. rationing[p].status = "PREVIEWED" /\ UNCHANGED <<mandates, rules, snapshots, latest>>
  BY DEF Emergency!ConfirmRationingPlan
<1>2. /\ \E t \in Targets : OfTarget(p, t)
      /\ rationing[p].snapshot \in Snapshots /\ snapshots[rationing[p].snapshot] # -1
      /\ \A e \in Eligible : rationing[p].rations[e] = "PROPOSED"
  BY <1>1 DEF CrisisInv, PlanSound
<1>3. PICK t \in Targets, r \in Rules : rationing[p].rule = {r} /\ rules[r].status # "ABSENT" /\ rules[r].target = {t}
  BY <1>2 DEF OfTarget
<1>4. Emergency!OfRule(p, "target") = {t}
  <2>1. {rules[q].target : q \in {r}} = {{t}}
    BY <1>3
  <2>2. {rules[q]["target"] : q \in rationing[p].rule} = {{t}}
    BY <1>3, <2>1
  <2> QED BY <2>2 DEF Emergency!OfRule
<1>0. PICK s \in Snapshots : s = rationing[p].snapshot
  BY <1>2
<1> DEFINE row == [rationing[p] EXCEPT !.status = "CONFIRMED", !.confirmer = a, !.rations = [e \in Eligible |-> "RESERVED"]]
<1>5. latest[t] = s /\ Emergency!Held(p, {"PROPOSED"}) <= snapshots[s] - Emergency!ReservedTotal(t) /\ rationing' = [rationing EXCEPT ![p] = row]
  BY <1>0, <1>4 DEF Emergency!ConfirmRationingPlan
<1>6. /\ IsPlan(row) /\ row.status = "CONFIRMED" /\ row.snapshot = s /\ row.rule = {r} /\ row.shares = rationing[p].shares
      /\ \A e \in Eligible : row.rations[e] = "RESERVED"
  BY <1>0, <1>3 DEF CrisisInv, CrisisShaped, IsPlan, Emergency!Rations
<1> HIDE DEF row
<1>7. Bears(p, row, t, r)
  BY <1>0, <1>2, <1>3, <1>5, <1>6 DEF Bears
<1>8. /\ CrisisShaped' /\ (UsedWithin' /\ OwnWithin' => CrisisInv')
      /\ \A q \in Plans : rationing'[q] = IF q = p THEN row ELSE rationing[q]
  BY <1>1, <1>3, <1>5, <1>6, <1>7, PlanMoves
<1>9. ASSUME NEW u \in Snapshots, NEW q \in Plans, q # p PROVE Part(u, q)' = Part(u, q)
  BY <1>8, <1>9 DEF Part, ConfirmedOn, Emergency!Held
<1>10. ConfirmedOn(s) \subseteq Emergency!Confirmed(t)
  <2> SUFFICES ASSUME NEW q \in ConfirmedOn(s) PROVE q \in Emergency!Confirmed(t)
    OBVIOUS
  <2>1. q \in Plans /\ rationing[q].status = "CONFIRMED" /\ rationing[q].snapshot = latest[t]
    BY <1>5 DEF ConfirmedOn
  <2>2. OfTarget(q, t)
    BY <2>1 DEF CrisisInv, OneTarget
  <2>3. PICK b \in Rules : rationing[q].rule = {b} /\ rules[b].target = {t}
    BY <2>2 DEF OfTarget
  <2>4. {t} \in {rules[c]["target"] : c \in rationing[q].rule}
    BY <2>3
  <2>5. t \in Emergency!OfRule(q, "target")
    BY <2>4 DEF Emergency!OfRule
  <2> QED BY <2>1, <2>5 DEF Emergency!Confirmed
<1>11. Used(s) <= Emergency!ReservedTotal(t) /\ Emergency!ReservedTotal(t) \in Nat /\ Used(s) \in Nat
  BY <1>10, UsedWithinTotal, UsedNat DEF CrisisInv
<1>12. Used(s)' <= snapshots[s]
  <2>1. Part(s, p) = 0
    BY <1>1 DEF Part, ConfirmedOn
  <2>2. Used(s)' = Used(s) + Part(s, p)'
    BY <1>2, <1>8, <1>9, <2>1, UsedTake DEF CrisisInv
  <2>3. Emergency!Held(p, {"RESERVED", "ISSUED"})' <= Emergency!Held(p, {"PROPOSED"})
    BY <1>2, <1>6, <1>8, HeldOrder DEF CrisisInv
  <2>4. p \in ConfirmedOn(s)'
    BY <1>6, <1>8 DEF ConfirmedOn
  <2>5. Part(s, p)' <= Emergency!Held(p, {"PROPOSED"}) /\ Part(s, p)' \in Nat
    BY <1>8, <2>3, <2>4, PartNatNext DEF Part
  <2>6. Emergency!Held(p, {"PROPOSED"}) \in Nat /\ snapshots[s] \in Int
    BY <1>0, <1>2, HeldNat DEF CrisisInv, CrisisShaped
  <2> QED BY <1>5, <1>11, <2>2, <2>5, <2>6
<1>13. ASSUME NEW u \in Snapshots, u # s PROVE Used(u)' = Used(u)
  <2>1. Part(u, p)' = 0 /\ Part(u, p) = 0
    BY <1>1, <1>6, <1>8, <1>13 DEF Part, ConfirmedOn
  <2>2. \A q \in Plans : Part(u, q)' = Part(u, q)
    BY <1>9, <2>1
  <2> QED BY <2>2 DEF Used
<1>14. UsedWithin'
  BY <1>0, <1>1, <1>2, <1>12, <1>13 DEF CrisisInv, UsedWithin
<1>15. OwnWithin'
  <2>1. Emergency!Held(p, {"RESERVED", "ISSUED"})' <= Emergency!Held(p, {"PROPOSED"})
    BY <1>2, <1>6, <1>8, HeldOrder DEF CrisisInv
  <2>2. /\ Emergency!Held(p, {"RESERVED", "ISSUED"})' \in Nat /\ Emergency!Held(p, {"PROPOSED"}) \in Nat
        /\ snapshots[s] \in Int
    BY <1>0, <1>2, <1>8, HeldNat, HeldNatNext DEF CrisisInv, CrisisShaped
  <2>3. Emergency!Held(p, {"RESERVED", "ISSUED"})' <= snapshots[s]
    BY <1>5, <1>11, <2>1, <2>2
  <2> QED BY <1>0, <1>1, <1>2, <1>6, <1>8, <2>3, OwnOthers
<1> QED BY <1>8, <1>14, <1>15

LEMMA IssueKeeps ==
    ASSUME CrisisAssumptions, CrisisInv, NEW p \in Plans, NEW e \in Eligible, NEW a, Emergency!IssueRation(p, e, a)
    PROVE  CrisisInv'
<1> DEFINE row == [rationing[p] EXCEPT !.rations = [rationing[p].rations EXCEPT ![e] = "ISSUED"]]
<1>1. /\ rationing[p].rations[e] = "RESERVED" /\ rationing' = [rationing EXCEPT ![p] = row]
      /\ UNCHANGED <<mandates, rules, snapshots, latest>>
  BY DEF Emergency!IssueRation
<1>2. rationing[p].status = "CONFIRMED"
  BY <1>1 DEF CrisisInv, PlanSound
<1>3. /\ IsPlan(row) /\ row.status = rationing[p].status /\ row.snapshot = rationing[p].snapshot /\ row.rule = rationing[p].rule
      /\ row.shares = rationing[p].shares
      /\ \A f \in Eligible : row.rations[f] \in {"RESERVED", "ISSUED"} => rationing[p].rations[f] \in {"RESERVED", "ISSUED"}
  BY <1>1 DEF CrisisInv, CrisisShaped, IsPlan, Emergency!Rations
<1> HIDE DEF row
<1> QED BY <1>1, <1>2, <1>3, PlanGoesOn

LEMMA CancelKeeps ==
    ASSUME CrisisAssumptions, CrisisInv, NEW p \in Plans, rationing[p].status # "ABSENT", Emergency!CancelRationingPlan(p)
    PROVE  CrisisInv'
<1> DEFINE row == [rationing[p] EXCEPT !.status = "CANCELLED",
                                   !.rations = [e \in Eligible |-> IF rationing[p].rations[e] \in {"PROPOSED", "RESERVED"}
                                                                   THEN "CANCELLED" ELSE rationing[p].rations[e]]]
<1>1. rationing' = [rationing EXCEPT ![p] = row] /\ UNCHANGED <<mandates, rules, snapshots, latest>>
  BY DEF Emergency!CancelRationingPlan
<1>2. /\ IsPlan(row) /\ row.status = "CANCELLED" /\ row.snapshot = rationing[p].snapshot /\ row.rule = rationing[p].rule
      /\ row.shares = rationing[p].shares
      /\ \A e \in Eligible : /\ row.rations[e] # "RESERVED"
                             /\ row.rations[e] \in {"RESERVED", "ISSUED"} => rationing[p].rations[e] \in {"RESERVED", "ISSUED"}
  BY DEF CrisisInv, CrisisShaped, IsPlan, Emergency!Rations
<1> HIDE DEF row
<1> QED BY <1>1, <1>2, PlanGoesOn

-----------------------------------------------------------------------------
\* A cancellation is of a plan that was made.
CancelSound == \A p \in cancelling : p \in Plans /\ rationing[p].status # "ABSENT"

LEMMA CancelSoundNext ==
    ASSUME CrisisInv, CancelSound, [Emergency!Next]_(Emergency!vars)
    PROVE  CancelSound'
<1>1. CASE UNCHANGED <<rationing, cancelling>>
  BY <1>1 DEF CancelSound
<1>2. ASSUME NEW p \in Plans, NEW r \in Rules, NEW a \in Members, NEW share \in [Eligible -> 0..Maximum],
             Emergency!PreviewRationingPlan(p, r, a, share)
      PROVE  CancelSound'
  <2>1. \E t : rationing' = [rationing EXCEPT ![p] =
                 [status |-> "PREVIEWED", proposer |-> a, confirmer |-> Nobody, rule |-> {r},
                  snapshot |-> latest[t], shares |-> share, rations |-> [e \in Eligible |-> "PROPOSED"]]]
    BY <1>2 DEF Emergency!PreviewRationingPlan
  <2>2. UNCHANGED cancelling
    BY <1>2 DEF Emergency!PreviewRationingPlan
  <2>3. \A q \in Plans : rationing'[q].status = IF q = p THEN "PREVIEWED" ELSE rationing[q].status
    <3>1. PICK row : row.status = "PREVIEWED" /\ rationing' = [rationing EXCEPT ![p] = row]
      BY <2>1
    <3>2. rationing = [q \in Plans |-> rationing[q]]
      BY DEF CrisisInv, CrisisShaped
    <3>3. \A q \in Plans : rationing'[q] = IF q = p THEN row ELSE rationing[q]
      BY <3>1, <3>2
    <3> QED BY <3>1, <3>3
  <2> QED BY <2>2, <2>3 DEF CancelSound
<1>3. ASSUME NEW p \in Plans, NEW a \in Members, Emergency!ConfirmRationingPlan(p, a) \/ Emergency!BeginCancel(p, a)
      PROVE  CancelSound'
  <2>1. CASE Emergency!ConfirmRationingPlan(p, a)
    <3>1. UNCHANGED cancelling /\ \A q \in Plans : rationing'[q].status = IF q = p THEN "CONFIRMED" ELSE rationing[q].status
      BY <2>1 DEF Emergency!ConfirmRationingPlan, CrisisInv, CrisisShaped, IsPlan
    <3> QED BY <3>1 DEF CancelSound
  <2>2. CASE Emergency!BeginCancel(p, a)
    BY <2>2 DEF Emergency!BeginCancel, CancelSound
  <2> QED BY <1>3, <2>1, <2>2
<1>4. ASSUME NEW p \in Plans, Emergency!CancelRationingPlan(p)
      PROVE  CancelSound'
  <2>1. /\ cancelling' = cancelling \ {p}
        /\ \A q \in Plans : rationing'[q].status = IF q = p THEN "CANCELLED" ELSE rationing[q].status
    BY <1>4 DEF Emergency!CancelRationingPlan, CrisisInv, CrisisShaped, IsPlan
  <2> QED BY <2>1 DEF CancelSound
<1>5. ASSUME NEW p \in Plans, NEW e \in Eligible, NEW a \in Members, Emergency!IssueRation(p, e, a)
      PROVE  CancelSound'
  BY <1>5 DEF Emergency!IssueRation, CancelSound, CrisisInv, CrisisShaped, IsPlan
<1>6. ASSUME NEW t, NEW a, Emergency!ProposeReserveTarget(t, a) \/ \E found : Emergency!ApproveReserveTarget(t, a, found)
      PROVE  UNCHANGED <<rationing, cancelling>>
  BY <1>6 DEF Emergency!ProposeReserveTarget, Emergency!ApproveReserveTarget
<1>7. ASSUME NEW s, NEW t, NEW q, Emergency!RecordReserveSnapshot(s, t, q)
      PROVE  UNCHANGED <<rationing, cancelling>>
  BY <1>7 DEF Emergency!RecordReserveSnapshot
<1>8. ASSUME NEW m, NEW a, \/ Emergency!ActivateMandate(m, a) \/ Emergency!CloseMandate(m, a)
                           \/ \E e : Emergency!ProposeMandate(m, a, e) \/ Emergency!ReviewMandate(m, a, e)
      PROVE  UNCHANGED <<rationing, cancelling>>
  BY <1>8 DEF Emergency!ActivateMandate, Emergency!CloseMandate, Emergency!ProposeMandate, Emergency!ReviewMandate
<1>9. ASSUME NEW r, NEW a, \/ \E m, t : Emergency!ProposeRationingRule(r, m, t, a)
                           \/ \E found : Emergency!ApproveRationingRule(r, a, found)
      PROVE  UNCHANGED <<rationing, cancelling>>
  BY <1>9 DEF Emergency!ProposeRationingRule, Emergency!ApproveRationingRule
<1>10. ASSUME NEW f, NEW a, Emergency!RecordPaperForm(f, a) \/ \E m, until : Emergency!IssuePaperForm(f, m, a, until)
       PROVE  UNCHANGED <<rationing, cancelling>>
  BY <1>10 DEF Emergency!RecordPaperForm, Emergency!IssuePaperForm
<1>11. Emergency!Tick \/ UNCHANGED Emergency!vars => UNCHANGED <<rationing, cancelling>>
  BY DEF Emergency!Tick, Emergency!vars
<1> QED BY <1>1, <1>2, <1>3, <1>4, <1>5, <1>6, <1>7, <1>8, <1>9, <1>10, <1>11 DEF Emergency!Next

LEMMA CrisisInvNext ==
    ASSUME CrisisAssumptions, CrisisInv, CancelSound, [Emergency!Next]_(Emergency!vars)
    PROVE  CrisisInv'
<1>1. ASSUME NEW t, NEW a, Emergency!ProposeReserveTarget(t, a) \/ \E found : Emergency!ApproveReserveTarget(t, a, found)
      PROVE  UNCHANGED <<mandates, rules, rationing, snapshots, latest>>
  BY <1>1 DEF Emergency!ProposeReserveTarget, Emergency!ApproveReserveTarget
<1>2. ASSUME NEW f, NEW a, Emergency!RecordPaperForm(f, a) \/ \E m, until : Emergency!IssuePaperForm(f, m, a, until)
      PROVE  UNCHANGED <<mandates, rules, rationing, snapshots, latest>>
  BY <1>2 DEF Emergency!RecordPaperForm, Emergency!IssuePaperForm
<1>3. ASSUME NEW p, NEW a, Emergency!BeginCancel(p, a)
      PROVE  UNCHANGED <<mandates, rules, rationing, snapshots, latest>>
  BY <1>3 DEF Emergency!BeginCancel
<1>4. Emergency!Tick \/ UNCHANGED Emergency!vars => UNCHANGED <<mandates, rules, rationing, snapshots, latest>>
  BY DEF Emergency!Tick, Emergency!vars
<1>5. UNCHANGED <<mandates, rules, rationing, snapshots, latest>> => CrisisInv'
  BY NothingKeeps
<1>6. ASSUME NEW p \in Plans, Emergency!CancelRationingPlan(p)
      PROVE  CrisisInv'
  <2>1. rationing[p].status # "ABSENT"
    BY <1>6 DEF CancelSound, Emergency!CancelRationingPlan
  <2> QED BY <1>6, <2>1, CancelKeeps
<1>7. CASE \E m \in Mandates, a \in Members :
              \/ Emergency!ActivateMandate(m, a) \/ Emergency!CloseMandate(m, a)
              \/ \E e \in 1..MaximumEnd : Emergency!ProposeMandate(m, a, e) \/ Emergency!ReviewMandate(m, a, e)
  BY <1>7, ActivateMandateKeeps, CloseMandateKeeps, ProposeMandateKeeps, ReviewMandateKeeps
<1>8. CASE \E r \in Rules, a \in Members :
              \/ \E m \in Mandates, t \in Targets : Emergency!ProposeRationingRule(r, m, t, a)
              \/ \E found \in Emergency!Optional(Rules \ {r}) : Emergency!ApproveRationingRule(r, a, found)
  BY <1>8, ProposeRuleKeeps, ApproveRuleKeeps
<1>9. CASE \E s \in Snapshots, t \in Targets, q \in 0..MaxAvailable : Emergency!RecordReserveSnapshot(s, t, q)
  BY <1>9, RecordKeeps
<1>10. CASE \E p \in Plans, r \in Rules, a \in Members, share \in [Eligible -> 0..Maximum] :
               Emergency!PreviewRationingPlan(p, r, a, share)
  BY <1>10, PreviewKeeps
<1>11. CASE \E p \in Plans, a \in Members : Emergency!ConfirmRationingPlan(p, a)
  BY <1>11, ConfirmKeeps
<1>12. CASE \E p \in Plans, e \in Eligible, a \in Members : Emergency!IssueRation(p, e, a)
  BY <1>12, IssueKeeps
<1> QED BY <1>1, <1>2, <1>3, <1>4, <1>5, <1>6, <1>7, <1>8, <1>9, <1>10, <1>11, <1>12 DEF Emergency!Next

LEMMA CrisisInvGives ==
    ASSUME CrisisAssumptions, CrisisInv
    PROVE  Emergency!EmergencyBounded
<1>1. ASSUME NEW s \in Snapshots, NEW p \in Emergency!MadeOn(s)
      PROVE  Emergency!Held(p, {"RESERVED", "ISSUED"}) <= Emergency!Available(s)
  <2>1. p \in Plans /\ rationing[p].snapshot = s
    BY DEF Emergency!MadeOn
  <2>2. CASE rationing[p].status = "ABSENT"
    <3>1. Emergency!Held(p, {"RESERVED", "ISSUED"}) = 0
      BY <2>1, <2>2, HeldNone DEF CrisisInv, PlanSound
    <3>2. Emergency!Available(s) \in Nat
      BY DEF CrisisInv, CrisisShaped, Emergency!Available
    <3> QED BY <3>1, <3>2
  <2>3. CASE rationing[p].status # "ABSENT"
    BY <2>1, <2>3 DEF CrisisInv, OwnWithin, PlanSound, Emergency!Available
  <2> QED BY <2>2, <2>3
<1>2. ASSUME NEW s \in Snapshots
      PROVE  Emergency!Drawn(s) <= Emergency!Available(s) + Emergency!Forgotten(s)
  <2>1. Used(s) <= Emergency!Available(s) /\ Emergency!Available(s) \in Nat
    BY DEF CrisisInv, CrisisShaped, UsedWithin, Emergency!Available
  <2> QED BY <2>1, DrawnIs
<1>3. Emergency!OneMandate
  BY DEF CrisisInv
<1> QED BY <1>1, <1>2, <1>3 DEF Emergency!EmergencyBounded, Emergency!RationsWithinSnapshot

\* However plans are previewed, confirmed, cancelled and handed out, each holds at most the stock its snapshot found; all
\* that is reserved and was ever handed out from it, by cancelled plans too, exceeds that stock by no more than what was
\* issued from plans being cancelled; and one mandate is in force at most (confirm_rationing_plan, activate_mandate).
THEOREM EmergencyAlwaysBounded ==
    ASSUME CrisisAssumptions
    PROVE  Emergency!Spec => []Emergency!EmergencyBounded
<1>1. Emergency!Init => CrisisInv /\ CancelSound
  <2>1. Emergency!Init => CancelSound
    BY DEF Emergency!Init, CancelSound
  <2> QED BY <2>1, CrisisInvInit
<1>2. CrisisInv /\ CancelSound /\ [Emergency!Next]_(Emergency!vars) => (CrisisInv /\ CancelSound)'
  BY CrisisInvNext, CancelSoundNext
<1>3. CrisisInv /\ CancelSound => Emergency!EmergencyBounded
  BY CrisisInvGives
<1> QED BY <1>1, <1>2, <1>3, PTL DEF Emergency!Spec

-----------------------------------------------------------------------------
\* Shares

\* The same of the share accounts
LEMMA SameShares == \A f : Shares!SumFunction(f) = SumFunction(f)
  BY DEF Shares!SumFunction, Shares!SumFunctionOnSet, Shares!FoldFunctionOnSet, Shares!MapThenFoldSet,
         SumFunction, SumFunctionOnSet, FoldFunctionOnSet, MapThenFoldSet

RiskAssumptions ==
    IsFiniteSet(Owners) /\ IsFiniteSet(Commitments) /\ IsFiniteSet(Transfers) /\ MaxAmount \in Nat /\ ChainDepth \in Nat

IsAccount(x) ==
    /\ {"status", "balance", "protected", "unsettled", "contributed"} \subseteq DOMAIN x
    /\ x.balance \in Nat /\ x.protected \in Nat /\ x.unsettled \in Nat /\ x.contributed \in Nat
IsCommitment(x) ==
    /\ {"status", "owner", "reserved", "max_loss", "executed"} \subseteq DOMAIN x
    /\ x.reserved \in Nat /\ x.max_loss \in Nat /\ x.executed \in Nat
    /\ x.executed <= x.max_loss /\ x.max_loss <= x.reserved
IsCase(x) == {"status", "commitment"} \subseteq DOMAIN x
IsTransfer(x) == {"status", "case", "source", "recipient", "amount"} \subseteq DOMAIN x /\ x.amount \in Nat
ShareShaped ==
    /\ accounts = [o \in Owners |-> accounts[o]] /\ \A o \in Owners : IsAccount(accounts[o])
    /\ commitments = [c \in Commitments |-> commitments[c]] /\ \A c \in Commitments : IsCommitment(commitments[c])
    /\ cases = [k \in Cases |-> cases[k]] /\ \A k \in Cases : IsCase(cases[k])
    /\ transfers = [t \in Transfers |-> transfers[t]] /\ \A t \in Transfers : IsTransfer(transfers[t])

\* Nothing is owed by an account that was not opened; commitments are of open accounts, cases of commitments that
\* were accepted, compensations of the owner of the commitment to another.
Accepted(c) == commitments[c].status \notin {"ABSENT", "PROPOSED"}
AccountSound(o) ==
    accounts[o].status = "ABSENT" => accounts[o].balance = 0 /\ accounts[o].unsettled = 0 /\ accounts[o].contributed = 0
CommitmentSound(c) ==
    /\ commitments[c].status # "ABSENT" => commitments[c].owner \in Owners /\ accounts[commitments[c].owner].status = "ACTIVE"
    /\ Accepted(c) \/ commitments[c].executed = 0
CaseSound(k) == cases[k].status # "ABSENT" => \E c \in Commitments : cases[k].commitment = {c} /\ Accepted(c)
About(t, k, c) ==
    /\ transfers[t].case = {k} /\ cases[k].status # "ABSENT" /\ cases[k].commitment = {c} /\ Accepted(c)
    /\ transfers[t].source = commitments[c].owner
TransferSound(t) ==
    transfers[t].status # "ABSENT" =>
       /\ \E k \in Cases, c \in Commitments : About(t, k, c)
       /\ transfers[t].recipient \in Owners \ {transfers[t].source} /\ accounts[transfers[t].recipient].status = "ACTIVE"

\* The sums of the property
HeldOf(o, c) == IF Shares!OwnedBy(c, {o}) THEN Shares!Remaining(c) ELSE 0
Owes(o) == SumFunction([t \in Transfers |-> Shares!Owed(o, t)])
ExecutedOf(c) == SumFunction([t \in Transfers |-> Shares!Executed(c, t)])
Balances == SumFunction([o \in Owners |-> accounts[o].balance])
Contributed == SumFunction([o \in Owners |-> accounts[o].contributed])
Within(o) == accounts[o].protected + Shares!Reserved(o) + accounts[o].unsettled <= accounts[o].balance

ShareInv ==
    /\ ShareShaped
    /\ (\A o \in Owners : AccountSound(o)) /\ (\A c \in Commitments : CommitmentSound(c))
    /\ (\A k \in Cases : CaseSound(k)) /\ (\A t \in Transfers : TransferSound(t))
    /\ (\A o \in Owners : Within(o)) /\ (\A o \in Owners : accounts[o].unsettled = Owes(o))
    /\ (\A c \in Commitments : commitments[c].executed = ExecutedOf(c))
    /\ Balances = Contributed

-----------------------------------------------------------------------------
\* What an account reserves changes with one commitment at a time.
LEMMA ReserveNat ==
    ASSUME ShareShaped, NEW o, NEW c \in Commitments
    PROVE  HeldOf(o, c) \in Nat
  BY DEF ShareShaped, IsCommitment, HeldOf, Shares!OwnedBy, Shares!IsActive, Shares!Remaining

LEMMA ReserveNatNext ==
    ASSUME ShareShaped', NEW o, NEW c \in Commitments
    PROVE  HeldOf(o, c)' \in Nat
  BY DEF ShareShaped, IsCommitment, HeldOf, Shares!OwnedBy, Shares!IsActive, Shares!Remaining

LEMMA ReservedMoves ==
    ASSUME RiskAssumptions, ShareShaped, ShareShaped', NEW o, NEW c \in Commitments,
           \A d \in Commitments \ {c} : HeldOf(o, d)' = HeldOf(o, d)
    PROVE  /\ Shares!Reserved(o)' = Shares!Reserved(o) - HeldOf(o, c) + HeldOf(o, c)'
           /\ Shares!Reserved(o) \in Nat /\ Shares!Reserved(o)' \in Nat /\ HeldOf(o, c) \in Nat /\ HeldOf(o, c)' \in Nat
<1> DEFINE f == [d \in Commitments |-> HeldOf(o, d)]
           g == [d \in Commitments |-> HeldOf(o, d)']
<1>1. DOMAIN f = Commitments /\ DOMAIN g = Commitments /\ f[c] = HeldOf(o, c) /\ g[c] = HeldOf(o, c)'
  OBVIOUS
<1>2. \A d \in Commitments : f[d] \in Nat /\ g[d] \in Nat /\ f[d] \in Int /\ g[d] \in Int
  BY ReserveNat, ReserveNatNext
<1>3. \A d \in Commitments \ {c} : f[d] = g[d]
  OBVIOUS
<1>4. Shares!Reserved(o) = SumFunction(f) /\ Shares!Reserved(o)' = SumFunction(g)
  BY SameShares DEF Shares!Reserved, HeldOf
<1> HIDE DEF f, g
<1>5. SumFunction(g) = SumFunction(f) - f[c] + g[c]
  BY <1>1, <1>2, <1>3, TotalChange DEF RiskAssumptions
<1>6. SumFunction(f) \in Nat /\ SumFunction(g) \in Nat
  BY <1>1, <1>2, TotalNat DEF RiskAssumptions
<1> QED BY <1>1, <1>2, <1>4, <1>5, <1>6

LEMMA ReservedNat ==
    ASSUME RiskAssumptions, ShareShaped, NEW o
    PROVE  Shares!Reserved(o) \in Nat
<1> DEFINE f == [d \in Commitments |-> HeldOf(o, d)]
<1>1. DOMAIN f = Commitments /\ \A d \in Commitments : f[d] \in Nat
  BY ReserveNat
<1>2. Shares!Reserved(o) = SumFunction(f)
  BY SameShares DEF Shares!Reserved, HeldOf
<1> HIDE DEF f
<1> QED BY <1>1, <1>2, TotalNat DEF RiskAssumptions

\* The sums over compensations change with one of them at a time.
LEMMA OwesMoves ==
    ASSUME RiskAssumptions, ShareShaped, ShareShaped', NEW o, NEW t \in Transfers,
           \A s \in Transfers \ {t} : Shares!Owed(o, s)' = Shares!Owed(o, s)
    PROVE  Owes(o)' = Owes(o) - Shares!Owed(o, t) + Shares!Owed(o, t)' /\ Owes(o) \in Nat
<1> DEFINE f == [s \in Transfers |-> Shares!Owed(o, s)]
           g == [s \in Transfers |-> Shares!Owed(o, s)']
<1>1. DOMAIN f = Transfers /\ DOMAIN g = Transfers /\ f[t] = Shares!Owed(o, t) /\ g[t] = Shares!Owed(o, t)'
  OBVIOUS
<1>2. \A s \in Transfers : f[s] \in Nat /\ g[s] \in Nat /\ f[s] \in Int /\ g[s] \in Int
  BY DEF Shares!Owed, ShareShaped, IsTransfer
<1>3. \A s \in Transfers \ {t} : f[s] = g[s]
  OBVIOUS
<1>4. Owes(o) = SumFunction(f) /\ Owes(o)' = SumFunction(g)
  BY DEF Owes
<1> HIDE DEF f, g
<1>5. SumFunction(g) = SumFunction(f) - f[t] + g[t] /\ SumFunction(f) \in Nat
  BY <1>1, <1>2, <1>3, TotalChange, TotalNat DEF RiskAssumptions
<1> QED BY <1>1, <1>4, <1>5

LEMMA ExecutedMoves ==
    ASSUME RiskAssumptions, ShareShaped, ShareShaped', NEW c, NEW t \in Transfers,
           \A s \in Transfers \ {t} : Shares!Executed(c, s)' = Shares!Executed(c, s)
    PROVE  ExecutedOf(c)' = ExecutedOf(c) - Shares!Executed(c, t) + Shares!Executed(c, t)' /\ ExecutedOf(c) \in Nat
<1> DEFINE f == [s \in Transfers |-> Shares!Executed(c, s)]
           g == [s \in Transfers |-> Shares!Executed(c, s)']
<1>1. DOMAIN f = Transfers /\ DOMAIN g = Transfers /\ f[t] = Shares!Executed(c, t) /\ g[t] = Shares!Executed(c, t)'
  OBVIOUS
<1>2. \A s \in Transfers : f[s] \in Nat /\ g[s] \in Nat /\ f[s] \in Int /\ g[s] \in Int
  BY DEF Shares!Executed, ShareShaped, IsTransfer
<1>3. \A s \in Transfers \ {t} : f[s] = g[s]
  OBVIOUS
<1>4. ExecutedOf(c) = SumFunction(f) /\ ExecutedOf(c)' = SumFunction(g)
  BY DEF ExecutedOf
<1> HIDE DEF f, g
<1>5. SumFunction(g) = SumFunction(f) - f[t] + g[t] /\ SumFunction(f) \in Nat
  BY <1>1, <1>2, <1>3, TotalChange, TotalNat DEF RiskAssumptions
<1> QED BY <1>1, <1>4, <1>5

-----------------------------------------------------------------------------
LEMMA ShareInvInit ==
    ASSUME RiskAssumptions, Shares!Init
    PROVE  ShareInv
<1>1. ShareShaped
  BY DEF Shares!Init, Shares!NoAccount, Shares!NoCommitment, Shares!NoCase, Shares!NoTransfer, ShareShaped, IsAccount,
     IsCommitment, IsCase, IsTransfer
<1>2. /\ \A o \in Owners : /\ accounts[o].status = "ABSENT" /\ accounts[o].balance = 0 /\ accounts[o].protected = 0
                           /\ accounts[o].unsettled = 0 /\ accounts[o].contributed = 0
      /\ \A c \in Commitments : commitments[c].status = "ABSENT" /\ commitments[c].executed = 0
      /\ \A k \in Cases : cases[k].status = "ABSENT"
      /\ \A t \in Transfers : transfers[t].status = "ABSENT"
  BY DEF Shares!Init, Shares!NoAccount, Shares!NoCommitment, Shares!NoCase, Shares!NoTransfer
<1>3. \A o : Shares!Reserved(o) = 0 /\ Owes(o) = 0
  <2> SUFFICES ASSUME NEW o PROVE Shares!Reserved(o) = 0 /\ Owes(o) = 0
    OBVIOUS
  <2> DEFINE f == [c \in Commitments |-> HeldOf(o, c)]
             g == [t \in Transfers |-> Shares!Owed(o, t)]
  <2>1. /\ DOMAIN f = Commitments /\ \A c \in Commitments : f[c] = 0
        /\ DOMAIN g = Transfers /\ \A t \in Transfers : g[t] = 0
    BY <1>2 DEF HeldOf, Shares!OwnedBy, Shares!IsActive, Shares!Owed
  <2>2. Shares!Reserved(o) = SumFunction(f) /\ Owes(o) = SumFunction(g)
    BY SameShares DEF Shares!Reserved, HeldOf, Owes
  <2> HIDE DEF f, g
  <2> QED BY <2>1, <2>2, TotalZero DEF RiskAssumptions
<1>4. \A c : ExecutedOf(c) = 0
  <2> SUFFICES ASSUME NEW c PROVE ExecutedOf(c) = 0
    OBVIOUS
  <2> DEFINE f == [t \in Transfers |-> Shares!Executed(c, t)]
  <2>1. DOMAIN f = Transfers /\ \A t \in Transfers : f[t] = 0
    BY <1>2 DEF Shares!Executed
  <2>2. ExecutedOf(c) = SumFunction(f)
    BY DEF ExecutedOf
  <2> HIDE DEF f
  <2> QED BY <2>1, <2>2, TotalZero DEF RiskAssumptions
<1>5. [o \in Owners |-> accounts[o].balance] = [o \in Owners |-> accounts[o].contributed]
  BY <1>2
<1>6. Balances = Contributed
  BY <1>5 DEF Balances, Contributed
<1>7. /\ \A o \in Owners : AccountSound(o) /\ Within(o) /\ accounts[o].unsettled = Owes(o)
      /\ \A c \in Commitments : CommitmentSound(c) /\ commitments[c].executed = ExecutedOf(c)
  BY <1>2, <1>3, <1>4 DEF AccountSound, Within, CommitmentSound
<1>8. (\A k \in Cases : CaseSound(k)) /\ \A t \in Transfers : TransferSound(t)
  BY <1>2 DEF CaseSound, TransferSound
<1> QED BY <1>1, <1>6, <1>7, <1>8 DEF ShareInv

LEMMA SharesStay ==
    ASSUME ShareInv, UNCHANGED <<accounts, commitments, cases, transfers>>
    PROVE  ShareInv'
<1>1. ShareShaped'
  BY DEF ShareInv, ShareShaped
<1>2. \A o : Shares!Reserved(o)' = Shares!Reserved(o) /\ Owes(o)' = Owes(o)
  BY SameShares DEF Shares!Reserved, Shares!OwnedBy, Shares!IsActive, Shares!Remaining, Owes, Shares!Owed
<1>3. \A c : ExecutedOf(c)' = ExecutedOf(c)
  BY DEF ExecutedOf, Shares!Executed
<1>4. Balances' = Balances /\ Contributed' = Contributed
  BY DEF Balances, Contributed
<1>5. \A c \in Commitments : (Accepted(c)' <=> Accepted(c)) /\ CommitmentSound(c)'
  BY DEF ShareInv, Accepted, CommitmentSound
<1>6. (\A k \in Cases : CaseSound(k)') /\ \A t \in Transfers : TransferSound(t)'
  BY <1>5 DEF ShareInv, CaseSound, TransferSound, About
<1>7. \A o \in Owners : AccountSound(o)' /\ Within(o)'
  BY <1>2 DEF ShareInv, AccountSound, Within
<1> QED BY <1>1, <1>2, <1>3, <1>4, <1>5, <1>6, <1>7 DEF ShareInv

-----------------------------------------------------------------------------
\* What an account gets is contributed.
LEMMA AccountKeeps ==
    ASSUME RiskAssumptions, ShareInv, NEW o \in Owners, NEW row, accounts' = [accounts EXCEPT ![o] = row],
           IsAccount(row), row.status = "ACTIVE", row.unsettled = accounts[o].unsettled,
           row.balance - accounts[o].balance = row.contributed - accounts[o].contributed,
           row.protected + Shares!Reserved(o) + row.unsettled <= row.balance, UNCHANGED <<commitments, cases, transfers>>
    PROVE  ShareInv'
<1>1. \A q \in Owners : accounts'[q] = IF q = o THEN row ELSE accounts[q]
  BY DEF ShareInv, ShareShaped
<1>2. ShareShaped'
  BY <1>1 DEF ShareInv, ShareShaped
<1>3. \A q : Shares!Reserved(q)' = Shares!Reserved(q) /\ Owes(q)' = Owes(q)
  BY SameShares DEF Shares!Reserved, Shares!OwnedBy, Shares!IsActive, Shares!Remaining, Owes, Shares!Owed
<1>4. \A c : ExecutedOf(c)' = ExecutedOf(c)
  BY DEF ExecutedOf, Shares!Executed
<1>5. Balances' = Contributed'
  <2> DEFINE f == [q \in Owners |-> accounts[q].balance]
             g == [q \in Owners |-> accounts'[q].balance]
             h == [q \in Owners |-> accounts[q].contributed]
             i == [q \in Owners |-> accounts'[q].contributed]
  <2>1. /\ DOMAIN f = Owners /\ DOMAIN g = Owners /\ DOMAIN h = Owners /\ DOMAIN i = Owners
        /\ \A q \in Owners : f[q] \in Nat /\ g[q] \in Nat /\ h[q] \in Nat /\ i[q] \in Nat
        /\ \A q \in Owners : f[q] \in Int /\ g[q] \in Int /\ h[q] \in Int /\ i[q] \in Int
        /\ \A q \in Owners \ {o} : f[q] = g[q] /\ h[q] = i[q]
    BY <1>1, <1>2 DEF ShareInv, ShareShaped, IsAccount
  <2>2. g[o] - f[o] = i[o] - h[o]
    BY <1>1
  <2>3. Balances = SumFunction(f) /\ Balances' = SumFunction(g) /\ Contributed = SumFunction(h) /\ Contributed' = SumFunction(i)
    BY DEF Balances, Contributed
  <2> HIDE DEF f, g, h, i
  <2>4. SumFunction(g) = SumFunction(f) - f[o] + g[o] /\ SumFunction(i) = SumFunction(h) - h[o] + i[o]
    BY <2>1, TotalChange DEF RiskAssumptions
  <2>5. SumFunction(f) \in Nat /\ SumFunction(h) \in Nat /\ f[o] \in Nat /\ g[o] \in Nat /\ h[o] \in Nat /\ i[o] \in Nat
    BY <2>1, TotalNat DEF RiskAssumptions
  <2>6. SumFunction(f) = SumFunction(h)
    BY <2>3 DEF ShareInv
  <2> QED BY <2>2, <2>3, <2>4, <2>5, <2>6
<1>6. \A c \in Commitments : (Accepted(c)' <=> Accepted(c)) /\ CommitmentSound(c)'
  BY <1>1 DEF ShareInv, Accepted, CommitmentSound
<1>7. (\A k \in Cases : CaseSound(k)') /\ \A t \in Transfers : TransferSound(t)'
  BY <1>1, <1>6 DEF ShareInv, CaseSound, TransferSound, About
<1>8. \A q \in Owners : AccountSound(q)' /\ Within(q)' /\ accounts'[q].unsettled = Owes(q)'
  BY <1>1, <1>3 DEF ShareInv, AccountSound, Within
<1> QED BY <1>2, <1>4, <1>5, <1>6, <1>7, <1>8 DEF ShareInv

LEMMA OpenKeeps ==
    ASSUME RiskAssumptions, ShareInv, NEW p, NEW o \in Owners, NEW balance \in Shares!Amounts, NEW protected \in 0..MaxAmount,
           Shares!OpenAccount(p, o, balance, protected)
    PROVE  ShareInv'
<1> DEFINE row == [status |-> "ACTIVE", balance |-> balance, protected |-> protected, unsettled |-> 0, contributed |-> balance]
<1>1. /\ accounts' = [accounts EXCEPT ![o] = row] /\ UNCHANGED <<commitments, cases, transfers>>
      /\ accounts[o].status = "ABSENT" /\ protected <= balance
  BY DEF Shares!OpenAccount
<1>2. accounts[o].balance = 0 /\ accounts[o].unsettled = 0 /\ accounts[o].contributed = 0
  BY <1>1 DEF ShareInv, AccountSound
<1>3. Shares!Reserved(o) = 0
  <2> DEFINE f == [c \in Commitments |-> HeldOf(o, c)]
  <2>1. DOMAIN f = Commitments /\ \A c \in Commitments : f[c] = 0
    BY <1>1 DEF HeldOf, Shares!OwnedBy, Shares!IsActive, ShareInv, CommitmentSound
  <2>2. Shares!Reserved(o) = SumFunction(f)
    BY SameShares DEF Shares!Reserved, HeldOf
  <2> HIDE DEF f
  <2> QED BY <2>1, <2>2, TotalZero DEF RiskAssumptions
<1>4. balance \in Nat /\ protected \in Nat
  BY DEF Shares!Amounts, RiskAssumptions
<1>5. /\ IsAccount(row) /\ row.status = "ACTIVE" /\ row.unsettled = 0 /\ row.balance = balance /\ row.contributed = balance
      /\ row.protected = protected
  BY <1>4 DEF IsAccount
<1> HIDE DEF row
<1>6. /\ row.balance - accounts[o].balance = row.contributed - accounts[o].contributed
      /\ row.unsettled = accounts[o].unsettled /\ row.protected + Shares!Reserved(o) + row.unsettled <= row.balance
  BY <1>1, <1>2, <1>3, <1>4, <1>5
<1> QED BY <1>1, <1>5, <1>6, AccountKeeps

LEMMA ContributeKeeps ==
    ASSUME RiskAssumptions, ShareInv, NEW o \in Owners, NEW amount \in Shares!Amounts, Shares!AddContribution(o, amount)
    PROVE  ShareInv'
<1> DEFINE row == [accounts[o] EXCEPT !.balance = accounts[o].balance + amount, !.contributed = accounts[o].contributed + amount]
<1>1. /\ accounts' = [accounts EXCEPT ![o] = row] /\ UNCHANGED <<commitments, cases, transfers>>
      /\ accounts[o].status = "ACTIVE"
  BY DEF Shares!AddContribution
<1>2. IsAccount(accounts[o]) /\ amount \in Nat
  BY DEF ShareInv, ShareShaped, Shares!Amounts, RiskAssumptions
<1>3. /\ IsAccount(row) /\ row.status = "ACTIVE" /\ row.unsettled = accounts[o].unsettled /\ row.protected = accounts[o].protected
      /\ row.balance = accounts[o].balance + amount /\ row.contributed = accounts[o].contributed + amount
  BY <1>1, <1>2 DEF IsAccount
<1>4. /\ accounts[o].balance \in Nat /\ accounts[o].contributed \in Nat /\ accounts[o].protected \in Nat /\ accounts[o].unsettled \in Nat
      /\ accounts[o].protected + Shares!Reserved(o) + accounts[o].unsettled <= accounts[o].balance /\ Shares!Reserved(o) \in Nat
  BY <1>2, ReservedNat DEF IsAccount, ShareInv, Within
<1> HIDE DEF row
<1>5. /\ row.balance - accounts[o].balance = row.contributed - accounts[o].contributed
      /\ row.protected + Shares!Reserved(o) + row.unsettled <= row.balance
  BY <1>2, <1>3, <1>4
<1> QED BY <1>1, <1>3, <1>5, AccountKeeps

-----------------------------------------------------------------------------
\* A commitment that comes into force fits in what its owner has available, and one that ends frees its part.
LEMMA CommitmentKeeps ==
    ASSUME RiskAssumptions, ShareInv, NEW c \in Commitments, NEW row, commitments' = [commitments EXCEPT ![c] = row],
           IsCommitment(row), row.executed = commitments[c].executed, row.status # "ABSENT",
           row.status = "PROPOSED" => row.executed = 0, Accepted(c) => row.status # "PROPOSED",
           row.owner \in Owners, accounts[row.owner].status = "ACTIVE",
           commitments[c].status # "ABSENT" => row.owner = commitments[c].owner,
           row.status = "ACTIVE" => ~Shares!IsActive(c) /\ row.reserved - row.executed <= Shares!Available(row.owner),
           UNCHANGED <<accounts, cases, transfers>>
    PROVE  ShareInv'
<1>1. \A d \in Commitments : commitments'[d] = IF d = c THEN row ELSE commitments[d]
  BY DEF ShareInv, ShareShaped
<1>2. ShareShaped'
  BY <1>1 DEF ShareInv, ShareShaped
<1>3. \A q : Owes(q)' = Owes(q)
  BY DEF Owes, Shares!Owed
<1>4. \A d : ExecutedOf(d)' = ExecutedOf(d)
  BY DEF ExecutedOf, Shares!Executed
<1>5. Balances' = Balances /\ Contributed' = Contributed
  BY DEF Balances, Contributed
<1>6. \A d \in Commitments : Accepted(d) => Accepted(d)' /\ commitments'[d].owner = commitments[d].owner
  BY <1>1 DEF Accepted
<1>7. \A d \in Commitments : CommitmentSound(d)'
  BY <1>1 DEF ShareInv, CommitmentSound, Accepted
<1>8. \A k \in Cases : CaseSound(k)'
  BY <1>6 DEF ShareInv, CaseSound
<1>9. \A t \in Transfers : TransferSound(t)'
  <2> SUFFICES ASSUME NEW t \in Transfers, transfers[t].status # "ABSENT" PROVE TransferSound(t)'
    BY DEF TransferSound
  <2>1. PICK k \in Cases, d \in Commitments : About(t, k, d)
    BY DEF ShareInv, TransferSound
  <2>2. About(t, k, d)'
    BY <1>6, <2>1 DEF About
  <2> QED BY <2>2 DEF ShareInv, TransferSound
<1>10. ASSUME NEW q \in Owners PROVE AccountSound(q)' /\ Within(q)'
  <2>1. \A d \in Commitments \ {c} : HeldOf(q, d)' = HeldOf(q, d)
    BY <1>1 DEF HeldOf, Shares!OwnedBy, Shares!IsActive, Shares!Remaining
  <2>2. /\ Shares!Reserved(q)' = Shares!Reserved(q) - HeldOf(q, c) + HeldOf(q, c)'
        /\ Shares!Reserved(q) \in Nat /\ Shares!Reserved(q)' \in Nat /\ HeldOf(q, c) \in Nat /\ HeldOf(q, c)' \in Nat
    BY <1>2, <2>1, ReservedMoves DEF ShareInv
  <2>3. HeldOf(q, c)' = IF row.status = "ACTIVE" /\ row.owner = q THEN row.reserved - row.executed ELSE 0
    BY <1>1 DEF HeldOf, Shares!OwnedBy, Shares!IsActive, Shares!Remaining
  <2>4. /\ Within(q) /\ accounts[q].protected \in Nat /\ accounts[q].unsettled \in Nat /\ accounts[q].balance \in Nat
    BY DEF ShareInv, ShareShaped, IsAccount
  <2>5. Within(q)'
    <3>1. CASE row.status = "ACTIVE" /\ row.owner = q
      <4>1. HeldOf(q, c) = 0
        BY <3>1 DEF HeldOf, Shares!OwnedBy
      <4>2. row.reserved \in Nat /\ row.executed \in Nat
        BY DEF IsCommitment
      <4> QED BY <2>2, <2>3, <2>4, <3>1, <4>1, <4>2 DEF Within, Shares!Available
    <3>2. CASE ~(row.status = "ACTIVE" /\ row.owner = q)
      BY <2>2, <2>3, <2>4, <3>2 DEF Within
    <3> QED BY <3>1, <3>2
  <2> QED BY <2>5 DEF ShareInv, AccountSound
<1>11. (\A q \in Owners : accounts'[q].unsettled = Owes(q)') /\ \A d \in Commitments : commitments'[d].executed = ExecutedOf(d)'
  BY <1>1, <1>3, <1>4 DEF ShareInv
<1> QED BY <1>2, <1>5, <1>7, <1>8, <1>9, <1>10, <1>11 DEF ShareInv

LEMMA ProposeCommitmentKeeps ==
    ASSUME RiskAssumptions, ShareInv, NEW c \in Commitments, NEW o \in Owners, NEW p, NEW debtor,
           NEW reserved \in Shares!Amounts, NEW loss \in Shares!Amounts, Shares!ProposeCommitment(c, o, p, debtor, reserved, loss)
    PROVE  ShareInv'
<1> DEFINE row == [status |-> "PROPOSED", owner |-> o, debtor |-> debtor, policy |-> {p},
                   reserved |-> reserved, max_loss |-> loss, executed |-> 0]
<1>1. /\ commitments' = [commitments EXCEPT ![c] = row] /\ UNCHANGED <<accounts, cases, transfers>>
      /\ commitments[c].status = "ABSENT" /\ accounts[o].status = "ACTIVE" /\ loss <= reserved
  BY DEF Shares!ProposeCommitment
<1>2. commitments[c].executed = 0 /\ ~Accepted(c) /\ reserved \in Nat /\ loss \in Nat
  BY <1>1 DEF ShareInv, CommitmentSound, Accepted, Shares!Amounts, RiskAssumptions
<1>3. IsCommitment(row) /\ row.status = "PROPOSED" /\ row.owner = o /\ row.executed = 0
  BY <1>1, <1>2 DEF IsCommitment
<1> HIDE DEF row
<1> QED BY <1>1, <1>2, <1>3, CommitmentKeeps

LEMMA AcceptKeeps ==
    ASSUME RiskAssumptions, ShareInv, NEW c \in Commitments, Shares!AcceptCommitment(c)
    PROVE  ShareInv'
<1> DEFINE row == [commitments[c] EXCEPT !.status = "ACTIVE"]
<1>1. /\ commitments' = [commitments EXCEPT ![c] = row] /\ UNCHANGED <<accounts, cases, transfers>>
      /\ commitments[c].status = "PROPOSED" /\ commitments[c].reserved <= Shares!Available(commitments[c].owner)
  BY DEF Shares!AcceptCommitment, Shares!Allowed
<1>2. /\ commitments[c].executed = 0 /\ ~Accepted(c) /\ ~Shares!IsActive(c) /\ IsCommitment(commitments[c])
      /\ commitments[c].owner \in Owners /\ accounts[commitments[c].owner].status = "ACTIVE"
  BY <1>1 DEF ShareInv, ShareShaped, CommitmentSound, Accepted, Shares!IsActive
<1>3. /\ IsCommitment(row) /\ row.status = "ACTIVE" /\ row.owner = commitments[c].owner /\ row.executed = 0
      /\ row.reserved = commitments[c].reserved /\ row.reserved - row.executed = commitments[c].reserved
  BY <1>1, <1>2 DEF IsCommitment
<1> HIDE DEF row
<1>4. row.reserved - row.executed <= Shares!Available(row.owner)
  BY <1>1, <1>3
<1> QED BY <1>1, <1>2, <1>3, <1>4, CommitmentKeeps

LEMMA ReleaseKeeps ==
    ASSUME RiskAssumptions, ShareInv, NEW c \in Commitments, Shares!ReleaseCommitment(c)
    PROVE  ShareInv'
<1> DEFINE row == [commitments[c] EXCEPT !.status = IF Shares!IsActive(c) THEN "RELEASED" ELSE "CANCELLED"]
<1>1. /\ commitments' = [commitments EXCEPT ![c] = row] /\ UNCHANGED <<accounts, cases, transfers>>
      /\ commitments[c].status \in {"PROPOSED", "ACTIVE"}
  BY DEF Shares!ReleaseCommitment
<1>2. /\ IsCommitment(commitments[c])
      /\ commitments[c].owner \in Owners /\ accounts[commitments[c].owner].status = "ACTIVE"
  BY <1>1 DEF ShareInv, ShareShaped, CommitmentSound
<1>3. /\ IsCommitment(row) /\ row.status \in {"RELEASED", "CANCELLED"} /\ row.owner = commitments[c].owner
      /\ row.executed = commitments[c].executed
  BY <1>1, <1>2 DEF IsCommitment
<1> HIDE DEF row
<1> QED BY <1>1, <1>2, <1>3, CommitmentKeeps

\* A case is of one commitment from its opening.
LEMMA CaseKeeps ==
    ASSUME RiskAssumptions, ShareInv, NEW k \in Cases, NEW row, cases' = [cases EXCEPT ![k] = row], IsCase(row),
           row.status # "ABSENT", NEW c \in Commitments, row.commitment = {c}, Accepted(c),
           cases[k].status # "ABSENT" => cases[k].commitment = {c}, UNCHANGED <<accounts, commitments, transfers>>
    PROVE  ShareInv'
<1>1. \A l \in Cases : cases'[l] = IF l = k THEN row ELSE cases[l]
  BY DEF ShareInv, ShareShaped
<1>2. ShareShaped'
  BY <1>1 DEF ShareInv, ShareShaped
<1>3. \A q : Owes(q)' = Owes(q) /\ Shares!Reserved(q)' = Shares!Reserved(q)
  BY SameShares DEF Shares!Reserved, Shares!OwnedBy, Shares!IsActive, Shares!Remaining, Owes, Shares!Owed
<1>4. \A l \in Cases : cases[l].status # "ABSENT" => cases'[l].status # "ABSENT" /\ cases'[l].commitment = cases[l].commitment
  BY <1>1
<1>5. ASSUME NEW t \in Transfers, transfers[t].status # "ABSENT"
      PROVE  TransferSound(t)' /\ \A d : Shares!Executed(d, t)' = Shares!Executed(d, t)
  <2>1. PICK l \in Cases, d \in Commitments : About(t, l, d)
    BY <1>5 DEF ShareInv, TransferSound
  <2>2. About(t, l, d)'
    BY <1>4, <2>1 DEF About, Accepted
  <2>3. \A e : Shares!Executed(e, t)' = Shares!Executed(e, t)
    BY <1>4, <2>1 DEF About, Shares!Executed
  <2> QED BY <1>5, <2>2, <2>3 DEF ShareInv, TransferSound
<1>6. ASSUME NEW d PROVE ExecutedOf(d)' = ExecutedOf(d)
  <2>1. \A t \in Transfers : Shares!Executed(d, t)' = Shares!Executed(d, t)
    BY <1>5 DEF Shares!Executed
  <2>2. [t \in Transfers |-> Shares!Executed(d, t)]' = [t \in Transfers |-> Shares!Executed(d, t)]
    BY <2>1
  <2> QED BY <2>2 DEF ExecutedOf
<1>7. Balances' = Balances /\ Contributed' = Contributed
  BY DEF Balances, Contributed
<1>8. \A d \in Commitments : CommitmentSound(d)' /\ commitments'[d].executed = ExecutedOf(d)'
  BY <1>6 DEF ShareInv, CommitmentSound, Accepted
<1>9. \A l \in Cases : CaseSound(l)'
  BY <1>1 DEF ShareInv, CaseSound, Accepted
<1>10. \A t \in Transfers : TransferSound(t)'
  BY <1>5 DEF TransferSound
<1>11. \A q \in Owners : AccountSound(q)' /\ Within(q)' /\ accounts'[q].unsettled = Owes(q)'
  BY <1>3 DEF ShareInv, AccountSound, Within
<1> QED BY <1>2, <1>7, <1>8, <1>9, <1>10, <1>11 DEF ShareInv

LEMMA OpenCaseKeeps ==
    ASSUME RiskAssumptions, ShareInv, NEW k \in Cases, NEW c \in Commitments, NEW a, NEW amount,
           Shares!OpenLiabilityCase(k, c, a, amount)
    PROVE  ShareInv'
<1> DEFINE row == [status |-> "OPEN", commitment |-> {c}, affected |-> amount, loss |-> 0, opener |-> a, assessor |-> Nobody]
<1>1. /\ cases' = [cases EXCEPT ![k] = row] /\ UNCHANGED <<accounts, commitments, transfers>>
      /\ cases[k].status = "ABSENT" /\ Accepted(c)
  BY DEF Shares!OpenLiabilityCase, Shares!Executable, Accepted
<1>2. IsCase(row) /\ row.status = "OPEN" /\ row.commitment = {c}
  BY DEF IsCase
<1> HIDE DEF row
<1> QED BY <1>1, <1>2, CaseKeeps

LEMMA AssessKeeps ==
    ASSUME RiskAssumptions, ShareInv, NEW k \in Cases, NEW a, NEW loss, Shares!AssessLiabilityCase(k, a, loss)
    PROVE  ShareInv'
<1> DEFINE row == [cases[k] EXCEPT !.status = "ASSESSED", !.loss = loss, !.assessor = a]
<1>1. /\ cases' = [cases EXCEPT ![k] = row] /\ UNCHANGED <<accounts, commitments, transfers>> /\ cases[k].status = "OPEN"
  BY DEF Shares!AssessLiabilityCase
<1>2. PICK c \in Commitments : cases[k].commitment = {c} /\ Accepted(c)
  BY <1>1 DEF ShareInv, CaseSound
<1>3. IsCase(row) /\ row.status = "ASSESSED" /\ row.commitment = {c}
  BY <1>2 DEF IsCase, ShareInv, ShareShaped
<1> HIDE DEF row
<1> QED BY <1>1, <1>2, <1>3, CaseKeeps

-----------------------------------------------------------------------------
\* What a compensation in a status counts for: to what its source owes, to what its commitment has executed
Due(status, x) == IF status = "PENDING_ACCEPTANCE" THEN x ELSE 0
Done(status, x) == IF status \in {"PENDING_ACCEPTANCE", "SETTLED"} THEN x ELSE 0
\* Compensation t of case k moves x from o, the owner of commitment c.
Moves(t, k, c, o, x) == About(t, k, c) /\ transfers[t].source = o /\ transfers[t].amount = x

\* One compensation moves: the account it is from and its commitment follow.
LEMMA TransferKeeps ==
    ASSUME RiskAssumptions, ShareInv, ShareShaped',
           NEW t \in Transfers, NEW k \in Cases, NEW c \in Commitments, NEW o \in Owners, NEW x \in Nat,
           transfers[t].status # "ABSENT" => Moves(t, k, c, o, x),
           transfers'[t].status # "ABSENT", Moves(t, k, c, o, x)',
           transfers'[t].recipient \in Owners \ {o}, accounts[transfers'[t].recipient].status = "ACTIVE",
           \A s \in Transfers \ {t} : transfers'[s] = transfers[s],
           \A l \in Cases : /\ cases'[l].commitment = cases[l].commitment
                            /\ cases'[l].status = "ABSENT" <=> cases[l].status = "ABSENT",
           \A d \in Commitments :
              /\ commitments'[d].status = commitments[d].status /\ commitments'[d].owner = commitments[d].owner
              /\ commitments'[d].executed = IF d = c THEN commitments[c].executed - Done(transfers[t].status, x)
                                                           + Done(transfers'[t].status, x)
                                            ELSE commitments[d].executed,
           \A q \in Owners :
              /\ accounts'[q].status = accounts[q].status
              /\ accounts[q].status = "ABSENT" => accounts'[q] = accounts[q]
              /\ accounts'[q].unsettled = IF q = o THEN accounts[o].unsettled - Due(transfers[t].status, x)
                                                          + Due(transfers'[t].status, x)
                                          ELSE accounts[q].unsettled,
           \A q \in Owners : Within(q)', Balances' = Contributed'
    PROVE  ShareInv'
<1>1. transfers[t].status # "ABSENT" => transfers[t].case = {k} /\ transfers[t].source = o /\ transfers[t].amount = x
  BY DEF Moves, About
<1>2. /\ transfers'[t].case = {k} /\ transfers'[t].source = o /\ transfers'[t].amount = x
      /\ cases[k].commitment = {c} /\ Accepted(c)
  BY DEF Moves, About, Accepted
<1>3. \A d \in Commitments : (Accepted(d)' <=> Accepted(d)) /\ commitments'[d].owner = commitments[d].owner
  BY DEF Accepted
<1>4. \A q \in Owners : AccountSound(q)'
  BY DEF ShareInv, AccountSound
<1>5. \A d \in Commitments : CommitmentSound(d)'
  BY <1>2, <1>3 DEF ShareInv, CommitmentSound
<1>6. \A l \in Cases : CaseSound(l)'
  BY <1>3 DEF ShareInv, CaseSound
<1>7. ASSUME NEW s \in Transfers PROVE TransferSound(s)'
  <2>1. CASE s = t
    <3>1. About(t, k, c)'
      BY DEF Moves
    <3> QED BY <1>2, <2>1, <3>1 DEF TransferSound
  <2>2. CASE s # t /\ transfers[s].status # "ABSENT"
    <3>1. PICK l \in Cases, d \in Commitments : About(s, l, d)
      BY <2>2 DEF ShareInv, TransferSound
    <3>2. About(s, l, d)'
      BY <1>3, <2>2, <3>1 DEF About
    <3> QED BY <2>2, <3>2 DEF ShareInv, TransferSound
  <2>3. CASE s # t /\ transfers[s].status = "ABSENT"
    BY <2>3 DEF TransferSound
  <2> QED BY <2>1, <2>2, <2>3
<1>8. ASSUME NEW q \in Owners PROVE accounts'[q].unsettled = Owes(q)'
  <2>1. \A s \in Transfers \ {t} : Shares!Owed(q, s)' = Shares!Owed(q, s)
    BY DEF Shares!Owed
  <2>2. Owes(q)' = Owes(q) - Shares!Owed(q, t) + Shares!Owed(q, t)' /\ Owes(q) \in Nat
    BY <2>1, OwesMoves DEF ShareInv
  <2>3. /\ Shares!Owed(q, t) = IF q = o THEN Due(transfers[t].status, x) ELSE 0
        /\ Shares!Owed(q, t)' = IF q = o THEN Due(transfers'[t].status, x) ELSE 0
    BY <1>1, <1>2 DEF Shares!Owed, Due
  <2>4. accounts[q].unsettled = Owes(q)
    BY DEF ShareInv
  <2> QED BY <2>2, <2>3, <2>4
<1>9. ASSUME NEW d \in Commitments PROVE commitments'[d].executed = ExecutedOf(d)'
  <2>1. \A s \in Transfers \ {t} : Shares!Executed(d, s)' = Shares!Executed(d, s)
    <3> SUFFICES ASSUME NEW s \in Transfers \ {t}, transfers[s].status # "ABSENT" PROVE Shares!Executed(d, s)' = Shares!Executed(d, s)
      BY DEF Shares!Executed
    <3>1. PICK l \in Cases, e \in Commitments : About(s, l, e)
      BY DEF ShareInv, TransferSound
    <3>2. transfers[s].case = {l} /\ cases'[l].commitment = cases[l].commitment
      BY <3>1 DEF About
    <3> QED BY <3>2 DEF Shares!Executed
  <2>2. ExecutedOf(d)' = ExecutedOf(d) - Shares!Executed(d, t) + Shares!Executed(d, t)' /\ ExecutedOf(d) \in Nat
    BY <2>1, ExecutedMoves DEF ShareInv
  <2>3. /\ Shares!Executed(d, t) = IF d = c THEN Done(transfers[t].status, x) ELSE 0
        /\ Shares!Executed(d, t)' = IF d = c THEN Done(transfers'[t].status, x) ELSE 0
    BY <1>1, <1>2 DEF Shares!Executed, Done
  <2>4. commitments[d].executed = ExecutedOf(d)
    BY DEF ShareInv
  <2> QED BY <2>2, <2>3, <2>4
<1> QED BY <1>4, <1>5, <1>6, <1>7, <1>8, <1>9 DEF ShareInv

\* What is reserved when a commitment executes more or less
LEMMA ReservedFollows ==
    ASSUME RiskAssumptions, ShareInv, ShareShaped', NEW c \in Commitments, NEW n \in Int,
           \A d \in Commitments :
              /\ commitments'[d].status = commitments[d].status /\ commitments'[d].owner = commitments[d].owner
              /\ commitments'[d].reserved = commitments[d].reserved
              /\ commitments'[d].executed = IF d = c THEN commitments[c].executed + n ELSE commitments[d].executed
    PROVE  \A q : /\ Shares!Reserved(q)' = Shares!Reserved(q) - IF Shares!IsActive(c) /\ commitments[c].owner = q THEN n ELSE 0
                  /\ Shares!Reserved(q) \in Nat /\ Shares!Reserved(q)' \in Nat
<1> SUFFICES ASSUME NEW q
             PROVE  /\ Shares!Reserved(q)' = Shares!Reserved(q) - IF Shares!IsActive(c) /\ commitments[c].owner = q THEN n ELSE 0
                    /\ Shares!Reserved(q) \in Nat /\ Shares!Reserved(q)' \in Nat
  OBVIOUS
<1>1. \A d \in Commitments \ {c} : HeldOf(q, d)' = HeldOf(q, d)
  BY DEF HeldOf, Shares!OwnedBy, Shares!IsActive, Shares!Remaining
<1>2. /\ Shares!Reserved(q)' = Shares!Reserved(q) - HeldOf(q, c) + HeldOf(q, c)'
      /\ Shares!Reserved(q) \in Nat /\ Shares!Reserved(q)' \in Nat /\ HeldOf(q, c) \in Nat /\ HeldOf(q, c)' \in Nat
  BY <1>1, ReservedMoves DEF ShareInv
<1>3. commitments[c].reserved \in Nat /\ commitments[c].executed \in Nat
  BY DEF ShareInv, ShareShaped, IsCommitment
<1>4. HeldOf(q, c)' = HeldOf(q, c) - IF Shares!IsActive(c) /\ commitments[c].owner = q THEN n ELSE 0
  BY <1>3 DEF HeldOf, Shares!OwnedBy, Shares!IsActive, Shares!Remaining
<1> QED BY <1>2, <1>4

-----------------------------------------------------------------------------
LEMMA BalancesStay ==
    ASSUME ShareInv, \A q \in Owners : accounts'[q].balance = accounts[q].balance /\ accounts'[q].contributed = accounts[q].contributed
    PROVE  Balances' = Contributed'
<1>1. [q \in Owners |-> accounts[q].balance]' = [q \in Owners |-> accounts[q].balance]
  OBVIOUS
<1>2. [q \in Owners |-> accounts[q].contributed]' = [q \in Owners |-> accounts[q].contributed]
  OBVIOUS
<1> QED BY <1>1, <1>2 DEF ShareInv, Balances, Contributed

\* Settling gives the recipient what the source loses.
LEMMA BalancesMove ==
    ASSUME RiskAssumptions, ShareInv, ShareShaped', NEW o \in Owners, NEW r \in Owners \ {o}, NEW x \in Nat,
           \A q \in Owners :
              /\ accounts'[q].contributed = accounts[q].contributed
              /\ accounts'[q].balance = IF q = o THEN accounts[q].balance - x
                                        ELSE IF q = r THEN accounts[q].balance + x ELSE accounts[q].balance
    PROVE  Balances' = Contributed'
<1> DEFINE f == [q \in Owners |-> accounts[q].balance]
           g == [q \in Owners |-> IF q = o THEN accounts[q].balance - x ELSE accounts[q].balance]
           h == [q \in Owners |-> accounts'[q].balance]
<1>1. /\ DOMAIN f = Owners /\ DOMAIN g = Owners /\ DOMAIN h = Owners
      /\ \A q \in Owners : f[q] \in Int /\ g[q] \in Int /\ h[q] \in Int
      /\ \A q \in Owners \ {o} : f[q] = g[q]
      /\ \A q \in Owners \ {r} : g[q] = h[q]
  BY DEF ShareInv, ShareShaped, IsAccount
<1>2. g[o] = f[o] - x /\ h[r] = g[r] + x
  OBVIOUS
<1>3. Balances = SumFunction(f) /\ Balances' = SumFunction(h)
  BY DEF Balances
<1>4. Contributed' = Contributed
  <2>1. [q \in Owners |-> accounts[q].contributed]' = [q \in Owners |-> accounts[q].contributed]
    OBVIOUS
  <2> QED BY <2>1 DEF Contributed
<1> HIDE DEF f, g, h
<1>5. SumFunction(g) = SumFunction(f) - f[o] + g[o]
  BY <1>1, TotalChange DEF RiskAssumptions
<1>6. SumFunction(h) = SumFunction(g) - g[r] + h[r]
  BY <1>1, TotalChange DEF RiskAssumptions
<1>7. SumFunction(f) \in Int /\ f[o] \in Int /\ g[r] \in Int
  BY <1>1, TotalInt DEF RiskAssumptions
<1>8. SumFunction(h) = SumFunction(f)
  BY <1>2, <1>5, <1>6, <1>7
<1> QED BY <1>3, <1>4, <1>8 DEF ShareInv

LEMMA AuthorizeKeeps ==
    ASSUME RiskAssumptions, ShareInv, NEW t \in Transfers, NEW k \in Cases, NEW r \in Owners, NEW amount \in Shares!Amounts, NEW a,
           Shares!Authorize(t, k, r, amount, a)
    PROVE  ShareInv'
<1>1. PICK c \in Commitments : cases[k].commitment = {c} /\ Accepted(c)
  BY DEF Shares!Authorize, ShareInv, CaseSound
<1>2. PICK o : o = commitments[c].owner
  OBVIOUS
<1>3. /\ transfers[t].status = "ABSENT" /\ cases[k].status = "ASSESSED" /\ accounts[r].status = "ACTIVE" /\ r # o
      /\ amount <= Shares!Exposure(c) /\ amount <= Shares!Remaining(c) /\ Shares!Capacity(c, amount)
      /\ accounts' = [accounts EXCEPT ![o].unsettled = accounts[o].unsettled + amount]
      /\ commitments' = [commitments EXCEPT ![c].executed = commitments[c].executed + amount]
      /\ transfers' = [transfers EXCEPT ![t] = [status |-> "PENDING_ACCEPTANCE", case |-> {k},
                          source |-> o, recipient |-> r, amount |-> amount, authorizer |-> a]]
      /\ UNCHANGED cases
  BY <1>1, <1>2 DEF Shares!Authorize
<1>4. o \in Owners /\ accounts[o].status = "ACTIVE" /\ amount \in Nat /\ amount \in Int
  BY <1>1, <1>2 DEF ShareInv, CommitmentSound, Accepted, Shares!Amounts, RiskAssumptions
<1>5. /\ IsAccount(accounts[o]) /\ IsCommitment(commitments[c])
  BY <1>4 DEF ShareInv, ShareShaped
<1>6. \A q \in Owners :
         /\ accounts'[q].status = accounts[q].status /\ accounts'[q].balance = accounts[q].balance
         /\ accounts'[q].protected = accounts[q].protected /\ accounts'[q].contributed = accounts[q].contributed
         /\ accounts'[q].unsettled = IF q = o THEN accounts[o].unsettled + amount ELSE accounts[q].unsettled
         /\ q # o => accounts'[q] = accounts[q]
  BY <1>3, <1>4 DEF ShareInv, ShareShaped, IsAccount
<1>7. \A d \in Commitments :
         /\ commitments'[d].status = commitments[d].status /\ commitments'[d].owner = commitments[d].owner
         /\ commitments'[d].reserved = commitments[d].reserved
         /\ commitments'[d].executed = IF d = c THEN commitments[c].executed + amount ELSE commitments[d].executed
  BY <1>3 DEF ShareInv, ShareShaped, IsCommitment
<1>8. /\ transfers'[t].status = "PENDING_ACCEPTANCE" /\ transfers'[t].case = {k} /\ transfers'[t].source = o
      /\ transfers'[t].recipient = r /\ transfers'[t].amount = amount
      /\ \A s \in Transfers \ {t} : transfers'[s] = transfers[s]
  BY <1>3 DEF ShareInv, ShareShaped
<1>9. ShareShaped'
  <2>1. accounts' = [q \in Owners |-> accounts'[q]] /\ \A q \in Owners : IsAccount(accounts'[q])
    BY <1>3, <1>4 DEF ShareInv, ShareShaped, IsAccount
  <2>2. commitments' = [d \in Commitments |-> commitments'[d]] /\ \A d \in Commitments : IsCommitment(commitments'[d])
    BY <1>3, <1>4, <1>5 DEF ShareInv, ShareShaped, IsCommitment, Shares!Exposure
  <2>3. transfers' = [s \in Transfers |-> transfers'[s]] /\ \A s \in Transfers : IsTransfer(transfers'[s])
    BY <1>3, <1>4 DEF ShareInv, ShareShaped, IsTransfer
  <2>4. cases' = [l \in Cases |-> cases'[l]] /\ \A l \in Cases : IsCase(cases'[l])
    BY <1>3 DEF ShareInv, ShareShaped
  <2> QED BY <2>1, <2>2, <2>3, <2>4 DEF ShareShaped
<1>10. \A q : /\ Shares!Reserved(q)' = Shares!Reserved(q) - IF Shares!IsActive(c) /\ commitments[c].owner = q THEN amount ELSE 0
              /\ Shares!Reserved(q) \in Nat /\ Shares!Reserved(q)' \in Nat
  BY <1>4, <1>7, <1>9, ReservedFollows
<1>11. ASSUME NEW q \in Owners PROVE Within(q)'
  <2>1. /\ Within(q) /\ accounts[q].protected \in Nat /\ accounts[q].unsettled \in Nat /\ accounts[q].balance \in Nat
    BY DEF ShareInv, ShareShaped, IsAccount
  <2>2. CASE q = o
    BY <1>2, <1>3, <1>4, <1>6, <1>10, <2>1, <2>2 DEF Within, Shares!Capacity
  <2>3. CASE q # o
    BY <1>2, <1>6, <1>10, <2>1, <2>3 DEF Within
  <2> QED BY <2>2, <2>3
<1>12. Balances' = Contributed'
  BY <1>6, BalancesStay
<1>13. Moves(t, k, c, o, amount)'
  BY <1>1, <1>2, <1>3, <1>7, <1>8 DEF Moves, About, Accepted
<1>14. \A d \in Commitments :
         commitments'[d].executed = IF d = c THEN commitments[c].executed - Done(transfers[t].status, amount)
                                                   + Done(transfers'[t].status, amount)
                                    ELSE commitments[d].executed
  BY <1>3, <1>4, <1>5, <1>7, <1>8 DEF Done, IsCommitment
<1>15. \A q \in Owners :
         accounts'[q].unsettled = IF q = o THEN accounts[o].unsettled - Due(transfers[t].status, amount)
                                                  + Due(transfers'[t].status, amount)
                                  ELSE accounts[q].unsettled
  BY <1>3, <1>4, <1>5, <1>6, <1>8 DEF Due, IsAccount
<1>16. /\ \A d \in Commitments : commitments'[d].status = commitments[d].status /\ commitments'[d].owner = commitments[d].owner
       /\ \A q \in Owners : /\ accounts'[q].status = accounts[q].status
                            /\ accounts[q].status = "ABSENT" => accounts'[q] = accounts[q]
  BY <1>4, <1>6, <1>7
<1> QED BY <1>3, <1>4, <1>8, <1>9, <1>11, <1>12, <1>13, <1>14, <1>15, <1>16, TransferKeeps

LEMMA SettleKeeps ==
    ASSUME RiskAssumptions, ShareInv, NEW t \in Transfers, Shares!AcceptCompensation(t)
    PROVE  ShareInv'
<1>1. PICK k \in Cases, c \in Commitments : About(t, k, c)
  BY DEF Shares!AcceptCompensation, ShareInv, TransferSound
<1>2. PICK o, r, x : o = transfers[t].source /\ r = transfers[t].recipient /\ x = transfers[t].amount
  OBVIOUS
<1>3. /\ transfers[t].status = "PENDING_ACCEPTANCE" /\ accounts[o].unsettled >= x /\ accounts[o].balance >= x
      /\ accounts' = [accounts EXCEPT ![o].balance = accounts[o].balance - x, ![o].unsettled = accounts[o].unsettled - x,
                                      ![r].balance = accounts[r].balance + x]
      /\ transfers' = [transfers EXCEPT ![t].status = "SETTLED"]
      /\ cases' = [l \in Cases |-> IF l \in transfers[t].case THEN [cases[l] EXCEPT !.status = "CLOSED"] ELSE cases[l]]
      /\ UNCHANGED commitments
  BY <1>2 DEF Shares!AcceptCompensation
<1>4. /\ o \in Owners /\ accounts[o].status = "ACTIVE" /\ r \in Owners \ {o} /\ accounts[r].status = "ACTIVE"
      /\ x \in Nat /\ o = commitments[c].owner
  <2>1. transfers[t].source = commitments[c].owner /\ Accepted(c)
    BY <1>1 DEF About
  <2>2. o = commitments[c].owner /\ o \in Owners /\ accounts[o].status = "ACTIVE"
    BY <1>2, <2>1 DEF ShareInv, CommitmentSound, Accepted
  <2>3. r \in Owners \ {o} /\ accounts[r].status = "ACTIVE"
    BY <1>2, <1>3 DEF ShareInv, TransferSound
  <2>4. x \in Nat
    BY <1>2 DEF ShareInv, ShareShaped, IsTransfer
  <2> QED BY <2>2, <2>3, <2>4
<1>5. /\ IsAccount(accounts[o]) /\ IsAccount(accounts[r]) /\ IsCommitment(commitments[c])
  BY <1>4 DEF ShareInv, ShareShaped
<1>0. \A q \in Owners :
         accounts'[q] = IF q = o THEN [accounts[o] EXCEPT !.balance = accounts[o].balance - x,
                                                          !.unsettled = accounts[o].unsettled - x]
                        ELSE IF q = r THEN [accounts[r] EXCEPT !.balance = accounts[r].balance + x] ELSE accounts[q]
  BY <1>3, <1>4 DEF ShareInv, ShareShaped
<1>6. \A q \in Owners :
         /\ accounts'[q].status = accounts[q].status /\ accounts'[q].contributed = accounts[q].contributed
         /\ accounts'[q].protected = accounts[q].protected
         /\ accounts'[q].balance = IF q = o THEN accounts[q].balance - x
                                   ELSE IF q = r THEN accounts[q].balance + x ELSE accounts[q].balance
         /\ accounts'[q].unsettled = IF q = o THEN accounts[o].unsettled - x ELSE accounts[q].unsettled
         /\ q # o /\ q # r => accounts'[q] = accounts[q]
  <2>1. /\ {"status", "balance", "protected", "unsettled", "contributed"} \subseteq DOMAIN accounts[o]
        /\ {"status", "balance", "protected", "unsettled", "contributed"} \subseteq DOMAIN accounts[r]
    BY <1>5 DEF IsAccount
  <2> SUFFICES ASSUME NEW q \in Owners
               PROVE  /\ accounts'[q].status = accounts[q].status /\ accounts'[q].contributed = accounts[q].contributed
                      /\ accounts'[q].protected = accounts[q].protected
                      /\ accounts'[q].balance = IF q = o THEN accounts[q].balance - x
                                                ELSE IF q = r THEN accounts[q].balance + x ELSE accounts[q].balance
                      /\ accounts'[q].unsettled = IF q = o THEN accounts[o].unsettled - x ELSE accounts[q].unsettled
                      /\ q # o /\ q # r => accounts'[q] = accounts[q]
    OBVIOUS
  <2>2. CASE q = o
    <3>1. accounts'[o] = [accounts[o] EXCEPT !.balance = accounts[o].balance - x, !.unsettled = accounts[o].unsettled - x]
      BY <1>0, <1>4
    <3>2. /\ accounts'[o].status = accounts[o].status /\ accounts'[o].contributed = accounts[o].contributed
          /\ accounts'[o].protected = accounts[o].protected
          /\ accounts'[o].balance = accounts[o].balance - x /\ accounts'[o].unsettled = accounts[o].unsettled - x
      BY <2>1, <3>1
    <3> QED BY <2>2, <3>2
  <2>3. CASE q = r
    <3>1. accounts'[r] = [accounts[r] EXCEPT !.balance = accounts[r].balance + x]
      BY <1>0, <1>4
    <3>2. /\ accounts'[r].status = accounts[r].status /\ accounts'[r].contributed = accounts[r].contributed
          /\ accounts'[r].protected = accounts[r].protected /\ accounts'[r].unsettled = accounts[r].unsettled
          /\ accounts'[r].balance = accounts[r].balance + x
      BY <2>1, <3>1
    <3> QED BY <1>4, <2>3, <3>2
  <2>4. CASE q # o /\ q # r
    BY <1>0, <2>4
  <2> QED BY <2>2, <2>3, <2>4
<1>7. /\ transfers'[t].status = "SETTLED" /\ transfers'[t].case = transfers[t].case /\ transfers'[t].source = o
      /\ transfers'[t].recipient = r /\ transfers'[t].amount = x
      /\ \A s \in Transfers \ {t} : transfers'[s] = transfers[s]
  BY <1>2, <1>3 DEF ShareInv, ShareShaped, IsTransfer
<1>8. \A l \in Cases : /\ cases'[l].commitment = cases[l].commitment
                       /\ cases'[l].status = "ABSENT" <=> cases[l].status = "ABSENT"
  <2>1. transfers[t].case = {k} /\ cases[k].status # "ABSENT"
    BY <1>1 DEF About
  <2> QED BY <1>3, <2>1 DEF ShareInv, ShareShaped, IsCase
<1>9. ShareShaped'
  <2>1. accounts' = [q \in Owners |-> accounts'[q]] /\ \A q \in Owners : IsAccount(accounts'[q])
    <3>1. accounts' = [q \in Owners |-> accounts'[q]]
      BY <1>3 DEF ShareInv, ShareShaped
    <3>2. IsAccount(accounts'[o])
      <4>1. DOMAIN accounts'[o] = DOMAIN accounts[o]
        BY <1>0, <1>4
      <4>2. /\ accounts'[o].balance = accounts[o].balance - x /\ accounts'[o].unsettled = accounts[o].unsettled - x
            /\ accounts'[o].protected = accounts[o].protected /\ accounts'[o].contributed = accounts[o].contributed
        BY <1>4, <1>6
      <4>3. accounts[o].balance - x \in Nat /\ accounts[o].unsettled - x \in Nat
        BY <1>3, <1>4, <1>5 DEF IsAccount
      <4> QED BY <1>5, <4>1, <4>2, <4>3 DEF IsAccount
    <3>3. IsAccount(accounts'[r])
      <4>1. DOMAIN accounts'[r] = DOMAIN accounts[r]
        BY <1>0, <1>4
      <4> QED BY <1>4, <1>5, <1>6, <4>1 DEF IsAccount
    <3>4. \A q \in Owners : q # o /\ q # r => IsAccount(accounts'[q])
      BY <1>0 DEF ShareInv, ShareShaped
    <3> QED BY <3>1, <3>2, <3>3, <3>4
  <2>2. cases' = [l \in Cases |-> cases'[l]] /\ \A l \in Cases : IsCase(cases'[l])
    BY <1>3 DEF ShareInv, ShareShaped, IsCase
  <2>3. transfers' = [s \in Transfers |-> transfers'[s]] /\ \A s \in Transfers : IsTransfer(transfers'[s])
    BY <1>3 DEF ShareInv, ShareShaped, IsTransfer
  <2> QED BY <1>3, <2>1, <2>2, <2>3 DEF ShareInv, ShareShaped
<1>10. \A q : Shares!Reserved(q)' = Shares!Reserved(q) /\ Shares!Reserved(q) \in Nat
  <2>1. \A q : Shares!Reserved(q)' = Shares!Reserved(q)
    BY <1>3 DEF Shares!Reserved, Shares!OwnedBy, Shares!IsActive, Shares!Remaining
  <2> QED BY <2>1, ReservedNat DEF ShareInv
<1>11. ASSUME NEW q \in Owners PROVE Within(q)'
  <2>1. /\ Within(q) /\ accounts[q].protected \in Nat /\ accounts[q].unsettled \in Nat /\ accounts[q].balance \in Nat
    BY DEF ShareInv, ShareShaped, IsAccount
  <2> QED BY <1>4, <1>6, <1>10, <2>1 DEF Within
<1>12. Balances' = Contributed'
  BY <1>4, <1>6, <1>9, BalancesMove
<1>13. Moves(t, k, c, o, x)
  BY <1>1, <1>2 DEF Moves
<1>14. Moves(t, k, c, o, x)'
  BY <1>1, <1>3, <1>4, <1>7, <1>8 DEF Moves, About, Accepted
<1>15. \A d \in Commitments :
         commitments'[d].executed = IF d = c THEN commitments[c].executed - Done(transfers[t].status, x)
                                                   + Done(transfers'[t].status, x)
                                    ELSE commitments[d].executed
  BY <1>3, <1>4, <1>5, <1>7 DEF Done, IsCommitment
<1>16. \A q \in Owners :
         accounts'[q].unsettled = IF q = o THEN accounts[o].unsettled - Due(transfers[t].status, x)
                                                  + Due(transfers'[t].status, x)
                                  ELSE accounts[q].unsettled
  <2>1. Due(transfers[t].status, x) = x /\ Due(transfers'[t].status, x) = 0
    BY <1>3, <1>7 DEF Due
  <2>2. accounts[o].unsettled - x + 0 = accounts[o].unsettled - x
    BY <1>4, <1>5 DEF IsAccount
  <2> QED BY <1>6, <2>1, <2>2
<1>17. /\ \A d \in Commitments : commitments'[d].status = commitments[d].status /\ commitments'[d].owner = commitments[d].owner
       /\ \A q \in Owners : /\ accounts'[q].status = accounts[q].status
                            /\ accounts[q].status = "ABSENT" => accounts'[q] = accounts[q]
  BY <1>3, <1>4, <1>6
<1> QED BY <1>4, <1>7, <1>8, <1>9, <1>11, <1>12, <1>13, <1>14, <1>15, <1>16, <1>17, TransferKeeps

LEMMA VoidKeeps ==
    ASSUME RiskAssumptions, ShareInv, NEW t \in Transfers, NEW a, Shares!VoidCompensation(t, a)
    PROVE  ShareInv'
<1>1. PICK k \in Cases, c \in Commitments : About(t, k, c)
  BY DEF Shares!VoidCompensation, ShareInv, TransferSound
<1>2. PICK o, r, x : o = transfers[t].source /\ r = transfers[t].recipient /\ x = transfers[t].amount
  OBVIOUS
<1>0. UNION {cases[l].commitment : l \in transfers[t].case} = {c}
  BY <1>1 DEF About
<1>3. /\ transfers[t].status = "PENDING_ACCEPTANCE" /\ accounts[o].unsettled >= x /\ commitments[c].executed >= x
      /\ accounts' = [accounts EXCEPT ![o].unsettled = accounts[o].unsettled - x]
      /\ commitments' = [commitments EXCEPT ![c].executed = commitments[c].executed - x]
      /\ transfers' = [transfers EXCEPT ![t].status = "VOIDED"]
      /\ UNCHANGED cases
  BY <1>0, <1>2 DEF Shares!VoidCompensation
<1>4. /\ o \in Owners /\ accounts[o].status = "ACTIVE" /\ r \in Owners \ {o} /\ accounts[r].status = "ACTIVE"
      /\ x \in Nat /\ -x \in Int /\ o = commitments[c].owner
  <2>1. transfers[t].source = commitments[c].owner /\ Accepted(c)
    BY <1>1 DEF About
  <2>2. o = commitments[c].owner /\ o \in Owners /\ accounts[o].status = "ACTIVE"
    BY <1>2, <2>1 DEF ShareInv, CommitmentSound, Accepted
  <2>3. r \in Owners \ {o} /\ accounts[r].status = "ACTIVE"
    BY <1>2, <1>3 DEF ShareInv, TransferSound
  <2>4. x \in Nat
    BY <1>2 DEF ShareInv, ShareShaped, IsTransfer
  <2> QED BY <2>2, <2>3, <2>4
<1>5. /\ IsAccount(accounts[o]) /\ IsCommitment(commitments[c])
  BY <1>4 DEF ShareInv, ShareShaped
<1>6. \A q \in Owners :
         /\ accounts'[q].status = accounts[q].status /\ accounts'[q].balance = accounts[q].balance
         /\ accounts'[q].protected = accounts[q].protected /\ accounts'[q].contributed = accounts[q].contributed
         /\ accounts'[q].unsettled = IF q = o THEN accounts[o].unsettled - x ELSE accounts[q].unsettled
         /\ q # o => accounts'[q] = accounts[q]
  BY <1>3, <1>4 DEF ShareInv, ShareShaped, IsAccount
<1>7. \A d \in Commitments :
         /\ commitments'[d].status = commitments[d].status /\ commitments'[d].owner = commitments[d].owner
         /\ commitments'[d].reserved = commitments[d].reserved
         /\ commitments'[d].executed = IF d = c THEN commitments[c].executed + (-x) ELSE commitments[d].executed
  BY <1>3, <1>4, <1>5 DEF ShareInv, ShareShaped, IsCommitment
<1>8. /\ transfers'[t].status = "VOIDED" /\ transfers'[t].case = transfers[t].case /\ transfers'[t].source = o
      /\ transfers'[t].recipient = r /\ transfers'[t].amount = x
      /\ \A s \in Transfers \ {t} : transfers'[s] = transfers[s]
  BY <1>2, <1>3 DEF ShareInv, ShareShaped, IsTransfer
<1>9. ShareShaped'
  <2>1. accounts' = [q \in Owners |-> accounts'[q]] /\ \A q \in Owners : IsAccount(accounts'[q])
    BY <1>3, <1>4, <1>5 DEF ShareInv, ShareShaped, IsAccount
  <2>2. commitments' = [d \in Commitments |-> commitments'[d]] /\ \A d \in Commitments : IsCommitment(commitments'[d])
    BY <1>3, <1>4, <1>5 DEF ShareInv, ShareShaped, IsCommitment
  <2>3. transfers' = [s \in Transfers |-> transfers'[s]] /\ \A s \in Transfers : IsTransfer(transfers'[s])
    BY <1>3 DEF ShareInv, ShareShaped, IsTransfer
  <2>4. cases' = [l \in Cases |-> cases'[l]] /\ \A l \in Cases : IsCase(cases'[l])
    BY <1>3 DEF ShareInv, ShareShaped
  <2> QED BY <2>1, <2>2, <2>3, <2>4 DEF ShareShaped
<1>10. \A q : /\ Shares!Reserved(q)' = Shares!Reserved(q) - IF Shares!IsActive(c) /\ commitments[c].owner = q THEN -x ELSE 0
              /\ Shares!Reserved(q) \in Nat /\ Shares!Reserved(q)' \in Nat
  BY <1>4, <1>7, <1>9, ReservedFollows
<1>11. ASSUME NEW q \in Owners PROVE Within(q)'
  <2>1. /\ Within(q) /\ accounts[q].protected \in Nat /\ accounts[q].unsettled \in Nat /\ accounts[q].balance \in Nat
    BY DEF ShareInv, ShareShaped, IsAccount
  <2>2. CASE q = o
    BY <1>3, <1>4, <1>6, <1>10, <2>1, <2>2 DEF Within
  <2>3. CASE q # o
    BY <1>4, <1>6, <1>10, <2>1, <2>3 DEF Within
  <2> QED BY <2>2, <2>3
<1>12. Balances' = Contributed'
  BY <1>6, BalancesStay
<1>13. Moves(t, k, c, o, x)
  BY <1>1, <1>2 DEF Moves
<1>14. Moves(t, k, c, o, x)'
  BY <1>1, <1>3, <1>4, <1>7, <1>8 DEF Moves, About, Accepted
<1>15. \A d \in Commitments :
         commitments'[d].executed = IF d = c THEN commitments[c].executed - Done(transfers[t].status, x)
                                                   + Done(transfers'[t].status, x)
                                    ELSE commitments[d].executed
  BY <1>3, <1>4, <1>5, <1>7, <1>8 DEF Done, IsCommitment
<1>16. \A q \in Owners :
         accounts'[q].unsettled = IF q = o THEN accounts[o].unsettled - Due(transfers[t].status, x)
                                                  + Due(transfers'[t].status, x)
                                  ELSE accounts[q].unsettled
  BY <1>3, <1>4, <1>5, <1>6, <1>8 DEF Due, IsAccount
<1>17. /\ \A d \in Commitments : commitments'[d].status = commitments[d].status /\ commitments'[d].owner = commitments[d].owner
       /\ \A q \in Owners : /\ accounts'[q].status = accounts[q].status
                            /\ accounts[q].status = "ABSENT" => accounts'[q] = accounts[q]
  BY <1>4, <1>6, <1>7
<1> QED BY <1>3, <1>4, <1>8, <1>9, <1>11, <1>12, <1>13, <1>14, <1>15, <1>16, <1>17, TransferKeeps

-----------------------------------------------------------------------------
LEMMA ShareInvNext ==
    ASSUME RiskAssumptions, ShareInv, [Shares!Next]_(Shares!vars)
    PROVE  ShareInv'
<1>1. CASE UNCHANGED <<accounts, commitments, cases, transfers>>
  BY <1>1, SharesStay
<1>2. CASE \E p \in Policies, a \in Members : Shares!ProposePolicy(p, a) \/ Shares!ApprovePolicy(p, a)
  BY <1>1, <1>2 DEF Shares!ProposePolicy, Shares!ApprovePolicy
<1>3. CASE \E l \in Links, a \in Members :
               \/ \E pair \in Shares!Pairs : Shares!ProposeRelatedLink(l, pair, a)
               \/ \E approve \in BOOLEAN : Shares!DecideRelatedLink(l, a, approve)
  BY <1>1, <1>3 DEF Shares!ProposeRelatedLink, Shares!DecideRelatedLink
<1>4. CASE \E p \in Policies, o \in Owners, balance \in Shares!Amounts, protected \in 0..MaxAmount :
               Shares!OpenAccount(p, o, balance, protected)
  BY <1>4, OpenKeeps
<1>5. CASE \E o \in Owners, amount \in Shares!Amounts : Shares!AddContribution(o, amount)
  BY <1>5, ContributeKeeps
<1>6. CASE \E c \in Commitments, o \in Owners, p \in Policies, reserved, loss \in Shares!Amounts :
               \E debtor \in Shares!Debtors(o) : Shares!ProposeCommitment(c, o, p, debtor, reserved, loss)
  BY <1>6, ProposeCommitmentKeeps
<1>7. CASE \E c \in Commitments : Shares!AcceptCommitment(c) \/ Shares!ReleaseCommitment(c)
  BY <1>7, AcceptKeeps, ReleaseKeeps
<1>8. CASE \E k \in Cases, a \in Members :
               \/ \E c \in Commitments, amount \in Shares!Amounts : Shares!OpenLiabilityCase(k, c, a, amount)
               \/ \E loss \in 0..MaxAmount : Shares!AssessLiabilityCase(k, a, loss)
  BY <1>8, OpenCaseKeeps, AssessKeeps
<1>9. CASE \E t \in Transfers, a \in Members :
               \/ \E k \in Cases, o \in Owners, amount \in Shares!Amounts : Shares!Authorize(t, k, o, amount, a)
               \/ Shares!VoidCompensation(t, a)
  BY <1>9, AuthorizeKeeps, VoidKeeps
<1>10. CASE \E t \in Transfers : Shares!AcceptCompensation(t)
  BY <1>10, SettleKeeps
<1> QED BY <1>1, <1>2, <1>3, <1>4, <1>5, <1>6, <1>7, <1>8, <1>9, <1>10 DEF Shares!Next, Shares!vars

-----------------------------------------------------------------------------
\* The guarantees of active commitments always have ranks.
GuaranteeInv ==
    /\ commitments = [c \in Commitments |-> commitments[c]]
    /\ \A c \in Commitments : {"status", "owner", "debtor"} \subseteq DOMAIN commitments[c]
    /\ Shares!GraphValid(Shares!Guarantees)

\* Fewer guarantees keep the ranks.
LEMMA GuaranteesShrink ==
    ASSUME GuaranteeInv, commitments' = [c \in Commitments |-> commitments'[c]],
           \A c \in Commitments :
              /\ {"status", "owner", "debtor"} \subseteq DOMAIN commitments'[c]
              /\ commitments'[c].status = "ACTIVE" =>
                    /\ commitments[c].status = "ACTIVE" /\ commitments'[c].owner = commitments[c].owner
                    /\ commitments'[c].debtor = commitments[c].debtor
    PROVE  GuaranteeInv'
<1>1. Shares!Guarantees' \subseteq Shares!Guarantees
  BY DEF Shares!Guarantees, Shares!IsActive
<1>2. PICK rank \in [Members -> 0..ChainDepth] : \A e \in Shares!Guarantees : rank[e[1]] > rank[e[2]]
  BY DEF GuaranteeInv, Shares!GraphValid
<1>3. Shares!GraphValid(Shares!Guarantees)'
  BY <1>1, <1>2 DEF Shares!GraphValid
<1> QED BY <1>3 DEF GuaranteeInv

LEMMA GuaranteeInvInit ==
    ASSUME RiskAssumptions, Shares!Init
    PROVE  GuaranteeInv
<1>1. \A c \in Commitments : commitments[c] = Shares!NoCommitment
  BY DEF Shares!Init
<1>2. Shares!Guarantees = {}
  BY <1>1 DEF Shares!Guarantees, Shares!IsActive, Shares!NoCommitment
<1>3. [m \in Members |-> 0] \in [Members -> 0..ChainDepth]
  BY DEF RiskAssumptions
<1>4. Shares!GraphValid(Shares!Guarantees)
  BY <1>2, <1>3 DEF Shares!GraphValid
<1> QED BY <1>1, <1>4 DEF GuaranteeInv, Shares!Init, Shares!NoCommitment

\* An acceptance checks the graph with the edges it adds.
LEMMA AcceptGuards ==
    ASSUME GuaranteeInv, NEW c \in Commitments, Shares!AcceptCommitment(c)
    PROVE  GuaranteeInv'
<1> DEFINE o == commitments[c].owner
           debtor == commitments[c].debtor
<1>1. commitments' = [commitments EXCEPT ![c].status = "ACTIVE"]
  BY DEF Shares!AcceptCommitment
<1>2. /\ commitments' = [d \in Commitments |-> commitments'[d]]
      /\ \A d \in Commitments : {"status", "owner", "debtor"} \subseteq DOMAIN commitments'[d]
      /\ \A d \in Commitments : commitments'[d].owner = commitments[d].owner /\ commitments'[d].debtor = commitments[d].debtor
      /\ \A d \in Commitments \ {c} : commitments'[d].status = commitments[d].status
  BY <1>1 DEF GuaranteeInv
<1>3. Shares!Guarantees' \subseteq Shares!Guarantees \union ({o} \X debtor)
  BY <1>2 DEF Shares!Guarantees, Shares!IsActive
<1>4. Shares!GraphValid(Shares!Guarantees \union ({o} \X debtor))
  <2>1. CASE debtor # {}
    BY <2>1 DEF Shares!AcceptCommitment
  <2>2. CASE debtor = {}
    <3>1. Shares!Guarantees \union ({o} \X debtor) = Shares!Guarantees BY <2>2
    <3> QED BY <3>1 DEF GuaranteeInv
  <2> QED BY <2>1, <2>2
<1> HIDE DEF o, debtor
<1>5. PICK rank \in [Members -> 0..ChainDepth] : \A e \in Shares!Guarantees \union ({o} \X debtor) : rank[e[1]] > rank[e[2]]
  BY <1>4 DEF Shares!GraphValid
<1>6. Shares!GraphValid(Shares!Guarantees)'
  BY <1>3, <1>5 DEF Shares!GraphValid
<1> QED BY <1>2, <1>6 DEF GuaranteeInv

LEMMA GuaranteeInvNext ==
    ASSUME GuaranteeInv, [Shares!Next]_(Shares!vars)
    PROVE  GuaranteeInv'
<1>1. CASE UNCHANGED commitments
  BY <1>1, GuaranteesShrink DEF GuaranteeInv
<1>2. CASE \E c \in Commitments, o \in Owners, p \in Policies, reserved, loss \in Shares!Amounts :
               \E debtor \in Shares!Debtors(o) : Shares!ProposeCommitment(c, o, p, debtor, reserved, loss)
  <2>1. PICK c \in Commitments, o \in Owners, p \in Policies, reserved \in Shares!Amounts, loss \in Shares!Amounts :
               \E debtor \in Shares!Debtors(o) : Shares!ProposeCommitment(c, o, p, debtor, reserved, loss)
    BY <1>2
  <2>2. PICK debtor \in Shares!Debtors(o) : Shares!ProposeCommitment(c, o, p, debtor, reserved, loss)
    BY <2>1
  <2>3. commitments' = [commitments EXCEPT ![c] = [status |-> "PROPOSED", owner |-> o, debtor |-> debtor, policy |-> {p},
                                                   reserved |-> reserved, max_loss |-> loss, executed |-> 0]]
    BY <2>2 DEF Shares!ProposeCommitment
  <2> QED BY <2>3, GuaranteesShrink DEF GuaranteeInv
<1>3. CASE \E c \in Commitments : Shares!AcceptCommitment(c)
  BY <1>3, AcceptGuards
<1>4. CASE \E c \in Commitments : Shares!ReleaseCommitment(c)
  <2>1. PICK c \in Commitments : Shares!ReleaseCommitment(c) BY <1>4
  <2>2. PICK s \in {"RELEASED", "CANCELLED"} : commitments' = [commitments EXCEPT ![c].status = s]
    BY <2>1 DEF Shares!ReleaseCommitment
  <2> QED BY <2>2, GuaranteesShrink DEF GuaranteeInv
<1>5. CASE \E c \in Commitments : \E x : commitments' = [commitments EXCEPT ![c].executed = x]
  <2>1. PICK c \in Commitments : \E x : commitments' = [commitments EXCEPT ![c].executed = x] BY <1>5
  <2>2. PICK x : commitments' = [commitments EXCEPT ![c].executed = x] BY <2>1
  <2> QED BY <2>2, GuaranteesShrink DEF GuaranteeInv
<1>6. CASE \E t \in Transfers, a \in Members, k \in Cases, o \in Owners, amount \in Shares!Amounts :
              Shares!Authorize(t, k, o, amount, a)
  <2>1. PICK t \in Transfers, a \in Members, k \in Cases, o \in Owners, amount \in Shares!Amounts :
              Shares!Authorize(t, k, o, amount, a)
    BY <1>6
  <2>2. PICK c \in cases[k].commitment :
              commitments' = [commitments EXCEPT ![c].executed = commitments[c].executed + amount]
    BY <2>1 DEF Shares!Authorize
  <2>3. CASE c \in Commitments BY <2>2, <2>3, <1>5
  <2>4. CASE c \notin Commitments
    <3>1. commitments' = commitments BY <2>2, <2>4 DEF GuaranteeInv
    <3> QED BY <3>1, <1>1
  <2> QED BY <2>3, <2>4
<1>7. CASE \E t \in Transfers, a \in Members : Shares!VoidCompensation(t, a)
  <2>1. PICK t \in Transfers, a \in Members : Shares!VoidCompensation(t, a) BY <1>7
  <2>2. PICK c, x : commitments' = [commitments EXCEPT ![c].executed = x]
    BY <2>1 DEF Shares!VoidCompensation
  <2>3. CASE c \in Commitments BY <2>2, <2>3, <1>5
  <2>4. CASE c \notin Commitments
    <3>1. commitments' = commitments BY <2>2, <2>4 DEF GuaranteeInv
    <3> QED BY <3>1, <1>1
  <2> QED BY <2>3, <2>4
<1>8. CASE \/ \E p \in Policies, a \in Members : Shares!ProposePolicy(p, a) \/ Shares!ApprovePolicy(p, a)
           \/ \E p \in Policies, o \in Owners, balance \in Shares!Amounts, protected \in 0..MaxAmount :
                 Shares!OpenAccount(p, o, balance, protected)
           \/ \E o \in Owners, amount \in Shares!Amounts : Shares!AddContribution(o, amount)
           \/ \E l \in Links, a \in Members :
                 \/ \E pair \in Shares!Pairs : Shares!ProposeRelatedLink(l, pair, a)
                 \/ \E approve \in BOOLEAN : Shares!DecideRelatedLink(l, a, approve)
           \/ \E k \in Cases, a \in Members :
                 \/ \E c \in Commitments, amount \in Shares!Amounts : Shares!OpenLiabilityCase(k, c, a, amount)
                 \/ \E loss \in 0..MaxAmount : Shares!AssessLiabilityCase(k, a, loss)
           \/ \E t \in Transfers : Shares!AcceptCompensation(t)
  <2>1. commitments' = commitments
    BY <1>8 DEF Shares!ProposePolicy, Shares!ApprovePolicy, Shares!OpenAccount, Shares!AddContribution,
       Shares!ProposeRelatedLink, Shares!DecideRelatedLink, Shares!OpenLiabilityCase, Shares!AssessLiabilityCase,
       Shares!AcceptCompensation
  <2> QED BY <2>1, <1>1
<1> QED BY <1>1, <1>2, <1>3, <1>4, <1>6, <1>7, <1>8 DEF Shares!Next, Shares!vars

LEMMA RankedIsAcyclic == ASSUME RiskAssumptions, GuaranteeInv PROVE Shares!GuaranteesAcyclic
<1> SUFFICES ASSUME NEW S \in SUBSET Members, S # {}
             PROVE  \E m \in S : \A n \in S : \A c \in Commitments :
                       ~(Shares!IsActive(c) /\ commitments[c].owner = m /\ commitments[c].debtor = {n})
  BY DEF Shares!GuaranteesAcyclic
<1>1. PICK rank \in [Members -> 0..ChainDepth] : \A e \in Shares!Guarantees : rank[e[1]] > rank[e[2]]
  BY DEF GuaranteeInv, Shares!GraphValid
<1> DEFINE T == {rank[m] : m \in S}
<1>2. T \in SUBSET (0..ChainDepth) /\ T # {}
  BY <1>1
<1>3. PICK x \in T : \A y \in T : x <= y
  <2> HIDE DEF T
  <2>1. T \in SUBSET Nat BY <1>2 DEF RiskAssumptions
  <2> QED BY <1>2, <2>1, LeastNumber
<1>4. PICK m \in S : rank[m] = x
  OBVIOUS
<1>5. ASSUME NEW n \in S, NEW c \in Commitments, Shares!IsActive(c), commitments[c].owner = m, commitments[c].debtor = {n}
      PROVE  FALSE
  <2>1. <<m, n>> \in Shares!Guarantees
    BY <1>5 DEF Shares!Guarantees
  <2>2. rank[m] > rank[n]
    BY <2>1, <1>1
  <2>3. rank[m] <= rank[n] /\ rank[m] \in Int /\ rank[n] \in Int
    BY <1>3, <1>4
  <2> QED BY <2>2, <2>3
<1> QED BY <1>5

\* For any members, commitments, cases and compensations: no share is promised twice or lost while commitments are
\* accepted and released and compensations authorized, settled and voided (accept_commitment, authorize, accept, void),
\* and no circle of members guarantees for one another (_validate_guarantee_graph).
THEOREM SharesAlwaysAccounted ==
    ASSUME RiskAssumptions
    PROVE  Shares!Spec => [](Shares!SharesAccounted /\ Shares!GuaranteesAcyclic)
<1>1. Shares!Init => ShareInv
  BY ShareInvInit
<1>2. ShareInv /\ [Shares!Next]_(Shares!vars) => ShareInv'
  BY ShareInvNext
<1>3. ShareInv => Shares!SharesAccounted
  BY SameShares DEF ShareInv, ShareShaped, IsCommitment, Within, Owes, ExecutedOf, Balances, Contributed,
     Shares!SharesAccounted
<1>4. /\ Shares!Init => GuaranteeInv
      /\ GuaranteeInv /\ [Shares!Next]_(Shares!vars) => GuaranteeInv'
      /\ GuaranteeInv => Shares!GuaranteesAcyclic
  BY GuaranteeInvInit, GuaranteeInvNext, RankedIsAcyclic
<1> QED BY <1>1, <1>2, <1>3, <1>4, PTL DEF Shares!Spec
==============================================================================

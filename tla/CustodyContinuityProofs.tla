----------------------- MODULE CustodyContinuityProofs -----------------------
(***************************************************************************)
(* Proofs about CustodyContinuity for any members, assignments, lots,      *)
(* transfers, rights and cases, whatever the amounts and the tolerance.    *)
(***************************************************************************)
EXTENDS CustodyContinuity, SumProofs, TLAPS

\* Rows have their columns; nothing is said of the values, most of which do not matter here.
IsLot(x) == {"status", "declared", "current", "custodian", "receiver", "hold"} \subseteq DOMAIN x
IsTransfer(x) == {"status", "lot", "from", "to"} \subseteq DOMAIN x
IsCase(x) == {"status", "source", "candidate", "target", "requester", "expected", "matched", "attesters",
              "lapsed"} \subseteq DOMAIN x
Shaped ==
    /\ lots = [l \in Lots |-> lots[l]] /\ \A l \in Lots : IsLot(lots[l])
    /\ transfers = [t \in Transfers |-> transfers[t]] /\ \A t \in Transfers : IsTransfer(transfers[t])
    /\ cases = [k \in Cases |-> cases[k]] /\ \A k \in Cases : IsCase(cases[k])

\* A lot nobody registered is in nobody's hands: registering it writes the whole row anew.
AbsentFree == \A l \in Lots : lots[l].status = "ABSENT" => lots[l].hold = {} /\ lots[l].custodian = {}
OffersExist ==
    \A t \in Transfers, l \in Lots :
        transfers[t].status = "OFFERED" /\ transfers[t].lot = {l} => lots[l].status # "ABSENT"

CustodyInv == Shaped /\ AbsentFree /\ OffersExist /\ HoldsMatchCases

-----------------------------------------------------------------------------
LEMMA Singletons == ASSUME NEW j, NEW k PROVE {j} # {} /\ ({j} = {k} => j = k)
  OBVIOUS

LEMMA CustodyInvInit ==
    ASSUME Init
    PROVE  CustodyInv
<1>1. Shaped
  BY DEF Init, IInit, NoLot, NoTransfer, NoCase, Shaped, IsLot, IsTransfer, IsCase
<1>2. AbsentFree /\ OffersExist
  BY DEF Init, IInit, NoLot, NoTransfer, AbsentFree, OffersExist
<1>3. HoldsMatchCases
  BY DEF Init, IInit, NoLot, NoCase, HoldsMatchCases, OpenCase
<1> QED BY <1>1, <1>2, <1>3 DEF CustodyInv

\* Commands that leave lots, transfers and cases alone
LEMMA ElsewhereKeeps ==
    ASSUME CustodyInv, UNCHANGED <<lots, transfers, cases>>
    PROVE  CustodyInv'
  BY DEF CustodyInv, Shaped, AbsentFree, OffersExist, HoldsMatchCases, LotKept, Held, Amount

\* A lot that no case holds may be counted, moved or used up.
LEMMA FreeLotKeeps ==
    ASSUME CustodyInv, NEW l \in Lots, NEW row, IsLot(row), lots' = [lots EXCEPT ![l] = row],
           lots[l].hold = {}, row.hold = {}, row.status # "ABSENT",
           transfers' = [t \in Transfers |-> transfers'[t]],
           \A t \in Transfers : /\ IsTransfer(transfers'[t]) /\ transfers'[t].lot = transfers[t].lot
                                /\ transfers'[t].status = "OFFERED" => transfers[t].status = "OFFERED",
           UNCHANGED cases
    PROVE  CustodyInv'
<1>1. /\ \A m \in Lots : m # l => lots'[m] = lots[m]
      /\ lots'[l] = row
      /\ lots' = [m \in Lots |-> lots'[m]]
  BY DEF CustodyInv, Shaped
<1>2. Shaped'
  <2>1. \A m \in Lots : IsLot(lots'[m])
    BY <1>1 DEF CustodyInv, Shaped
  <2> QED BY <1>1, <2>1 DEF CustodyInv, Shaped
<1>3. AbsentFree' /\ OffersExist'
  BY <1>1 DEF CustodyInv, AbsentFree, OffersExist
<1>4. \A k \in Cases : lots[l].hold # {k} /\ lots'[l].hold # {k}
  BY <1>1, Singletons
<1>5. HoldsMatchCases'
  <2>1. ASSUME NEW k \in Cases, NEW m \in Lots
        PROVE  /\ lots'[m].hold = {k} <=> cases'[k].status \in OpenCase /\ m \in Held(k)'
               /\ lots'[m].hold = {k} => LotKept(k, m)'
    <3>1. CASE m = l
      BY <1>4, <3>1 DEF CustodyInv, HoldsMatchCases, Held
    <3>2. CASE m # l
      BY <1>1, <3>2 DEF CustodyInv, HoldsMatchCases, LotKept, Held, Amount
    <3> QED BY <3>1, <3>2
  <2> QED BY <2>1 DEF HoldsMatchCases
<1> QED BY <1>2, <1>3, <1>5 DEF CustodyInv

LEMMA InventoryKeeps ==
    ASSUME CustodyInv, INext, UNCHANGED cases
    PROVE  CustodyInv'
<1>1. \A l \in Lots : IsLot(lots[l])
  BY DEF CustodyInv, Shaped
<1>2. ASSUME UNCHANGED transfers
      PROVE  /\ transfers' = [t \in Transfers |-> transfers'[t]]
             /\ \A t \in Transfers : /\ IsTransfer(transfers'[t]) /\ transfers'[t].lot = transfers[t].lot
                                     /\ transfers'[t].status = "OFFERED" => transfers[t].status = "OFFERED"
  BY <1>2 DEF CustodyInv, Shaped
<1>3. ASSUME NEW l \in Lots, NEW a \in Assignments, NEW q \in 1..MaxQuantity, RegisterLot(l, a, q)
      PROVE  CustodyInv'
  <2> DEFINE row == [NoLot EXCEPT !.status = "PENDING_VERIFICATION", !.declared = q,
                        !.custodian = {a}, !.receiver = assignments[a].holder]
  <2>1. IsLot(row) /\ row.hold = {} /\ row.status # "ABSENT"
    BY DEF NoLot, IsLot
  <2>2. lots[l].hold = {} /\ lots' = [lots EXCEPT ![l] = row] /\ UNCHANGED transfers
    BY <1>3 DEF RegisterLot, CustodyInv, AbsentFree
  <2> HIDE DEF row
  <2> QED BY <1>2, <2>1, <2>2, FreeLotKeeps
<1>4. ASSUME NEW l \in Lots, NEW m \in Members, NEW q \in 0..MaxQuantity, NEW accepted \in BOOLEAN,
             AttestLot(l, m, q, accepted)
      PROVE  CustodyInv'
  <2> DEFINE outcome == Outcome(lots[l].declared, q, accepted)
             row == [lots[l] EXCEPT !.status = outcome, !.current = q]
  <2>1. outcome # "ABSENT"
    BY DEF Outcome
  <2>2. lots[l].hold = {} /\ lots' = [lots EXCEPT ![l] = row] /\ UNCHANGED transfers
    BY <1>4 DEF AttestLot, Free, CustodyInv, Shaped
  <2>3. IsLot(row) /\ row.hold = {} /\ row.status # "ABSENT"
    BY <1>1, <2>1, <2>2 DEF IsLot
  <2> HIDE DEF row
  <2> QED BY <1>2, <2>2, <2>3, FreeLotKeeps
<1>5. ASSUME NEW l \in Lots, NEW m \in Members, NEW q \in 0..MaxQuantity, RecordDiscrepancy(l, m, q)
      PROVE  CustodyInv'
  <2> DEFINE status == IF q = 0 THEN "LOST" ELSE "DISPUTED"
             row == [lots[l] EXCEPT !.status = status, !.current = q]
  <2>1. status # "ABSENT"
    OBVIOUS
  <2>2. lots[l].hold = {} /\ lots' = [lots EXCEPT ![l] = row] /\ UNCHANGED transfers
    BY <1>5 DEF RecordDiscrepancy, Countable, Free, CustodyInv, Shaped
  <2> HIDE DEF status
  <2>3. IsLot(row) /\ row.hold = {} /\ row.status # "ABSENT"
    BY <1>1, <2>1, <2>2 DEF IsLot
  <2> HIDE DEF row
  <2> QED BY <1>2, <2>2, <2>3, FreeLotKeeps
<1>6. ASSUME NEW t \in Transfers, NEW l \in Lots, AcceptCustody(t, l)
      PROVE  CustodyInv'
  <2> DEFINE row == [lots[l] EXCEPT !.custodian = transfers[t].to]
  <2>1. lots[l].hold = {} /\ lots[l].status # "ABSENT" /\ lots' = [lots EXCEPT ![l] = row]
    BY <1>6 DEF AcceptCustody, Free, CustodyInv, OffersExist, Shaped
  <2>2. IsLot(row) /\ row.hold = {} /\ row.status # "ABSENT"
    BY <1>1, <2>1 DEF IsLot
  <2>3. /\ transfers' = [s \in Transfers |-> transfers'[s]]
        /\ \A s \in Transfers : /\ IsTransfer(transfers'[s]) /\ transfers'[s].lot = transfers[s].lot
                                /\ transfers'[s].status = "OFFERED" => transfers[s].status = "OFFERED"
    BY <1>6 DEF AcceptCustody, CustodyInv, Shaped, IsTransfer
  <2> HIDE DEF row
  <2> QED BY <2>1, <2>2, <2>3, FreeLotKeeps
<1>7. ASSUME NEW t \in Transfers, NEW l \in Lots, NEW b \in Assignments, OfferCustody(t, l, b)
      PROVE  CustodyInv'
  <2> DEFINE row == [status |-> "OFFERED", lot |-> {l}, from |-> lots[l].custodian, to |-> {b}]
  <2>1. IsTransfer(row) /\ row.lot = {l}
    BY DEF IsTransfer
  <2>2. transfers' = [transfers EXCEPT ![t] = row] /\ lots[l].status # "ABSENT" /\ UNCHANGED lots
    BY <1>7 DEF OfferCustody
  <2> HIDE DEF row
  <2>3. Shaped' /\ OffersExist'
    BY <2>1, <2>2 DEF CustodyInv, Shaped, OffersExist
  <2> QED BY <2>2, <2>3 DEF CustodyInv, AbsentFree, HoldsMatchCases, LotKept, Held, Amount
<1>8. ASSUME NEW x \in Redemptions, NEW r \in Rights, NEW l \in Lots, CompleteRedemption(x, r, l)
      PROVE  CustodyInv'
  <2> DEFINE status == IF lots[l].current = rights[r].quantity THEN "DEPLETED" ELSE "VERIFIED"
             row == [lots[l] EXCEPT !.current = lots[l].current - rights[r].quantity, !.status = status]
  <2>1. status # "ABSENT"
    OBVIOUS
  <2>2. lots[l].hold = {} /\ lots' = [lots EXCEPT ![l] = row] /\ UNCHANGED transfers
    BY <1>8 DEF CompleteRedemption, Free, CustodyInv, Shaped
  <2> HIDE DEF status
  <2>3. IsLot(row) /\ row.hold = {} /\ row.status # "ABSENT"
    BY <1>1, <2>1, <2>2 DEF IsLot
  <2> HIDE DEF row
  <2> QED BY <1>2, <2>2, <2>3, FreeLotKeeps
<1>9. ASSUME UNCHANGED <<lots, transfers>>
      PROVE  CustodyInv'
  BY <1>9, ElsewhereKeeps
<1> QED
  BY <1>3, <1>4, <1>5, <1>6, <1>7, <1>8, <1>9
     DEF INext, Issue, RequestRedemption, TransferRight, Freeze, Unfreeze, ExpireRight

-----------------------------------------------------------------------------
\* A step of a case that neither opens nor ends it
LEMMA CaseGoesOn ==
    ASSUME CustodyInv, NEW k \in Cases, NEW row, IsCase(row), cases' = [cases EXCEPT ![k] = row],
           row.expected = cases[k].expected, row.source = cases[k].source,
           row.status \in OpenCase, cases[k].status \in OpenCase, UNCHANGED <<lots, transfers>>
    PROVE  CustodyInv'
<1>1. \A j \in Cases : /\ cases'[j].expected = cases[j].expected /\ cases'[j].source = cases[j].source
                       /\ cases'[j].status \in OpenCase <=> cases[j].status \in OpenCase
  BY DEF CustodyInv, Shaped
<1>2. Shaped'
  BY DEF CustodyInv, Shaped
<1>3. HoldsMatchCases'
  BY <1>1 DEF CustodyInv, HoldsMatchCases, LotKept, Held, Amount
<1> QED BY <1>2, <1>3 DEF CustodyInv, AbsentFree, OffersExist

\* The end of a case lets go of every lot it holds, and of no other.
LEMMA CaseEnds ==
    ASSUME CustodyInv, NEW k \in Cases, cases[k].status \in OpenCase,
           NEW row, IsCase(row), row.status \notin OpenCase, cases' = [cases EXCEPT ![k] = row],
           lots' = [l \in Lots |-> lots'[l]],
           \A l \in Lots : IF l \in Held(k) THEN /\ IsLot(lots'[l]) /\ lots'[l].hold = {}
                                                 /\ lots'[l].status = lots[l].status
                                            ELSE lots'[l] = lots[l],
           UNCHANGED transfers
    PROVE  CustodyInv'
<1>1. Shaped'
  BY DEF CustodyInv, Shaped
<1>2. \A l \in Lots : l \in Held(k) <=> lots[l].hold = {k}
  BY DEF CustodyInv, HoldsMatchCases
<1>3. AbsentFree' /\ OffersExist'
  BY <1>2 DEF CustodyInv, AbsentFree, OffersExist
<1>4. ASSUME NEW j \in Cases, NEW l \in Lots
      PROVE  /\ lots'[l].hold = {j} <=> cases'[j].status \in OpenCase /\ l \in Held(j)'
             /\ lots'[l].hold = {j} => LotKept(j, l)'
  <2>1. CASE j = k
    BY <1>2, <2>1 DEF CustodyInv, Shaped
  <2>2. CASE j # k
    <3>1. cases'[j] = cases[j]
      BY <2>2 DEF CustodyInv, Shaped
    <3>2. CASE l \in Held(k)
      <4>1. {j} # {k} /\ {j} # {}
        BY <2>2, Singletons
      <4>2. lots[l].hold = {k} /\ lots'[l].hold = {}
        BY <1>2, <3>2
      <4> QED BY <3>1, <4>1, <4>2 DEF CustodyInv, HoldsMatchCases, Held
    <3>3. CASE l \notin Held(k)
      BY <3>1, <3>3 DEF CustodyInv, HoldsMatchCases, Held, LotKept, Amount
    <3> QED BY <3>2, <3>3
  <2> QED BY <2>1, <2>2
<1>5. HoldsMatchCases'
  BY <1>4 DEF HoldsMatchCases
<1> QED BY <1>1, <1>3, <1>5 DEF CustodyInv

\* A new case holds the free lots of its source as it finds them.
LEMMA RequestKeeps ==
    ASSUME CustodyInv, NEW k \in Cases, NEW a \in Assignments, NEW candidate \in Members, NEW p \in Members,
           RequestCase(k, a, candidate, p)
    PROVE  CustodyInv'
<1> DEFINE mine == {l \in Lots : lots[l].custodian = {a}}
           row == [NoCase EXCEPT !.status = "INVENTORY_PENDING", !.source = {a},
                      !.candidate = candidate, !.requester = p, !.expected = [l \in mine |-> Amount(l)]]
<1>1. /\ IsCase(row) /\ row.status = "INVENTORY_PENDING" /\ row.source = {a}
      /\ row.expected = [l \in mine |-> Amount(l)]
  BY DEF NoCase, IsCase
<1>2. /\ cases[k].status = "ABSENT" /\ \A l \in mine : lots[l].hold = {}
      /\ lots' = [l \in Lots |-> IF l \in mine THEN [lots[l] EXCEPT !.hold = {k}] ELSE lots[l]]
      /\ cases' = [cases EXCEPT ![k] = row]
      /\ UNCHANGED transfers
  BY DEF RequestCase, Holdable, Free
<1>3. \A l \in Lots : l \in mine => lots[l].custodian = {a}
  OBVIOUS
<1> HIDE DEF row
<1>4. ASSUME NEW l \in Lots
      PROVE  /\ IsLot(lots'[l]) /\ lots'[l].status = lots[l].status /\ lots'[l].custodian = lots[l].custodian
             /\ lots'[l].declared = lots[l].declared /\ lots'[l].current = lots[l].current
             /\ lots'[l].hold = IF l \in mine THEN {k} ELSE lots[l].hold
  <2>1. IsLot(lots[l])
    BY DEF CustodyInv, Shaped
  <2>2. LET y == [lots[l] EXCEPT !.hold = {k}]
        IN  /\ IsLot(y) /\ y.hold = {k} /\ y.status = lots[l].status /\ y.custodian = lots[l].custodian
            /\ y.declared = lots[l].declared /\ y.current = lots[l].current
    BY <2>1 DEF IsLot
  <2> HIDE DEF mine
  <2>3. lots'[l] = IF l \in mine THEN [lots[l] EXCEPT !.hold = {k}] ELSE lots[l]
    BY <1>2
  <2> QED BY <2>1, <2>2, <2>3
<1>5. Shaped'
  BY <1>1, <1>2, <1>4 DEF CustodyInv, Shaped
<1>6. AbsentFree'
  BY <1>3, <1>4 DEF CustodyInv, AbsentFree
<1>7. OffersExist'
  BY <1>2, <1>4 DEF CustodyInv, OffersExist
<1>8. ASSUME NEW j \in Cases, NEW l \in Lots
      PROVE  /\ lots'[l].hold = {j} <=> cases'[j].status \in OpenCase /\ l \in Held(j)'
             /\ lots'[l].hold = {j} => LotKept(j, l)'
  <2>1. Amount(l)' = Amount(l)
    BY <1>4 DEF Amount
  <2>2. /\ lots[l].hold = {j} <=> cases[j].status \in OpenCase /\ l \in Held(j)
        /\ lots[l].hold = {j} => LotKept(j, l)
    BY DEF CustodyInv, HoldsMatchCases
  <2>3. CASE j = k
    <3>1. cases'[j] = row /\ Held(j)' = mine
      BY <1>1, <1>2, <2>3 DEF CustodyInv, Shaped, Held
    <3>2. lots[l].hold # {k}
      BY <1>2, <2>2, <2>3 DEF OpenCase
    <3>3. l \in mine => LotKept(j, l)'
      BY <1>1, <1>3, <1>4, <2>1, <2>3, <3>1 DEF LotKept
    <3> QED BY <1>1, <1>4, <2>3, <3>1, <3>2, <3>3 DEF OpenCase
  <2>4. CASE j # k
    <3>1. cases'[j] = cases[j] /\ Held(j)' = Held(j)
      BY <1>2, <2>4 DEF CustodyInv, Shaped, Held
    <3>2. lots'[l].hold = {j} <=> lots[l].hold = {j}
      <4>1. {j} # {k} /\ {j} # {}
        BY <2>4, Singletons
      <4>2. l \in mine => lots[l].hold = {}
        BY <1>2
      <4>3. lots'[l].hold = IF l \in mine THEN {k} ELSE lots[l].hold
        BY <1>4
      <4> HIDE DEF mine
      <4> QED BY <4>1, <4>2, <4>3
    <3> QED BY <1>4, <2>1, <2>2, <3>1, <3>2 DEF LotKept
  <2> QED BY <2>3, <2>4
<1> QED BY <1>5, <1>6, <1>7, <1>8 DEF CustodyInv, HoldsMatchCases

LEMMA AttestItemKeeps ==
    ASSUME CustodyInv, NEW k \in Cases, NEW l \in Lots, NEW p \in Members, NEW measured \in 0..MaxQuantity,
           AttestItem(k, l, p, measured)
    PROVE  CustodyInv'
<1>1. IsCase(cases[k]) /\ cases[k].status \in OpenCase /\ UNCHANGED <<lots, transfers>>
  BY DEF AttestItem, CustodyInv, Shaped, OpenCase, ivars
<1> DEFINE attesters == cases[k].attesters \union {p}
           all == cases[k].matched \union {l}
           matched == IF measured = cases[k].expected[l] THEN all ELSE cases[k].matched
           status == CASE measured # cases[k].expected[l] -> "BLOCKED"
                       [] measured = cases[k].expected[l] /\ all = Held(k) -> "PENDING_APPROVAL"
                       [] OTHER -> "INVENTORY_PENDING"
           blocked == [cases[k] EXCEPT !.status = "BLOCKED"]
           counted == [cases[k] EXCEPT !.attesters = attesters, !.matched = matched, !.status = status]
<1>2. status \in OpenCase
  BY DEF OpenCase
<1>3. \/ cases' = [cases EXCEPT ![k] = blocked]
      \/ cases' = [cases EXCEPT ![k] = counted]
  BY DEF AttestItem
<1> HIDE DEF attesters, matched, status
<1>4. /\ IsCase(blocked) /\ blocked.status = "BLOCKED"
      /\ blocked.expected = cases[k].expected /\ blocked.source = cases[k].source
  BY <1>1 DEF IsCase
<1>5. /\ IsCase(counted) /\ counted.status = status
      /\ counted.expected = cases[k].expected /\ counted.source = cases[k].source
  BY <1>1 DEF IsCase
<1>6. "BLOCKED" \in OpenCase
  BY DEF OpenCase
<1> HIDE DEF blocked, counted
<1>7. CASE cases' = [cases EXCEPT ![k] = blocked]
  BY <1>1, <1>4, <1>6, <1>7, CaseGoesOn
<1>8. CASE cases' = [cases EXCEPT ![k] = counted]
  BY <1>1, <1>2, <1>5, <1>8, CaseGoesOn
<1> QED BY <1>3, <1>7, <1>8

LEMMA ApproveKeeps ==
    ASSUME CustodyInv, NEW k \in Cases, NEW p \in Members, NEW b \in Assignments, ApproveCase(k, p, b)
    PROVE  CustodyInv'
<1>1. IsCase(cases[k]) /\ cases[k].status \in OpenCase /\ UNCHANGED <<lots, transfers>>
  BY DEF ApproveCase, CustodyInv, Shaped, OpenCase, ivars
<1> DEFINE approved == [cases[k] EXCEPT !.status = "PENDING_ACCEPTANCE", !.target = {b}]
           blocked == [cases[k] EXCEPT !.status = "BLOCKED"]
<1>2. cases' = [cases EXCEPT ![k] = approved] \/ cases' = [cases EXCEPT ![k] = blocked]
  BY DEF ApproveCase, CustodyInv, Shaped
<1>3. /\ IsCase(approved) /\ approved.status = "PENDING_ACCEPTANCE"
      /\ approved.expected = cases[k].expected /\ approved.source = cases[k].source
      /\ IsCase(blocked) /\ blocked.status = "BLOCKED"
      /\ blocked.expected = cases[k].expected /\ blocked.source = cases[k].source
  BY <1>1 DEF IsCase
<1>4. {"PENDING_ACCEPTANCE", "BLOCKED"} \subseteq OpenCase
  BY DEF OpenCase
<1> HIDE DEF approved, blocked
<1> QED BY <1>1, <1>2, <1>3, <1>4, CaseGoesOn

LEMMA EndKeeps ==
    ASSUME CustodyInv, NEW k \in Cases, (\E p \in Members : RejectCase(k, p)) \/ DeclineCase(k)
    PROVE  CustodyInv'
<1> DEFINE row == [cases[k] EXCEPT !.status = "REJECTED"]
<1>1. IsCase(cases[k]) /\ cases[k].status \in OpenCase /\ UNCHANGED transfers
  BY DEF RejectCase, DeclineCase, Decidable, CustodyInv, Shaped, OpenCase
<1>2. lots' = Released(k) /\ cases' = [cases EXCEPT ![k] = row]
  BY DEF RejectCase, DeclineCase, CustodyInv, Shaped
<1>3. IsCase(row) /\ row.status \notin OpenCase
  BY <1>1 DEF IsCase, OpenCase
<1>4. ASSUME NEW l \in Lots
      PROVE  IF l \in Held(k) THEN /\ IsLot(lots'[l]) /\ lots'[l].hold = {} /\ lots'[l].status = lots[l].status
                              ELSE lots'[l] = lots[l]
  <2>1. IsLot(lots[l]) /\ (l \in Held(k) => lots[l].hold = {k})
    BY <1>1 DEF CustodyInv, Shaped, HoldsMatchCases
  <2>2. LET y == [lots[l] EXCEPT !.hold = {}] IN IsLot(y) /\ y.hold = {} /\ y.status = lots[l].status
    BY <2>1 DEF IsLot
  <2> QED BY <1>2, <2>1, <2>2 DEF Released
<1>5. lots' = [l \in Lots |-> lots'[l]]
  BY <1>2 DEF Released
<1> HIDE DEF row
<1> QED BY <1>1, <1>2, <1>3, <1>4, <1>5, CaseEnds

LEMMA AcceptKeeps ==
    ASSUME CustodyInv, NEW k \in Cases, AcceptCase(k)
    PROVE  CustodyInv'
<1>1. IsCase(cases[k]) /\ cases[k].status \in OpenCase /\ UNCHANGED transfers
  BY DEF AcceptCase, Decidable, CustodyInv, Shaped, OpenCase
<1>2. CASE Unblocked(k)
  <2> DEFINE row == [cases[k] EXCEPT !.status = "ACCEPTED"]
  <2>1. /\ cases' = [cases EXCEPT ![k] = row]
        /\ lots' = [l \in Lots |-> IF l \in Held(k)
                       THEN [lots[l] EXCEPT !.custodian = cases[k].target, !.hold = {}] ELSE lots[l]]
    BY <1>2 DEF AcceptCase, CustodyInv, Shaped
  <2>2. IsCase(row) /\ row.status \notin OpenCase
    BY <1>1 DEF IsCase, OpenCase
  <2>3. ASSUME NEW l \in Lots
        PROVE  IF l \in Held(k) THEN /\ IsLot(lots'[l]) /\ lots'[l].hold = {} /\ lots'[l].status = lots[l].status
                                ELSE lots'[l] = lots[l]
    <3>1. IsLot(lots[l])
      BY DEF CustodyInv, Shaped
    <3>2. LET y == [lots[l] EXCEPT !.custodian = cases[k].target, !.hold = {}]
          IN  IsLot(y) /\ y.hold = {} /\ y.status = lots[l].status
      BY <3>1 DEF IsLot
    <3> QED BY <2>1, <3>2
  <2>4. lots' = [l \in Lots |-> lots'[l]]
    BY <2>1
  <2> HIDE DEF row
  <2> QED BY <1>1, <2>1, <2>2, <2>3, <2>4, CaseEnds
<1>3. CASE ~Unblocked(k)
  <2> DEFINE row == [cases[k] EXCEPT !.status = "BLOCKED"]
  <2>1. cases' = [cases EXCEPT ![k] = row] /\ UNCHANGED lots
    BY <1>3 DEF AcceptCase, CustodyInv, Shaped
  <2>2. /\ IsCase(row) /\ row.status \in OpenCase
        /\ row.expected = cases[k].expected /\ row.source = cases[k].source
    BY <1>1 DEF IsCase, OpenCase
  <2> HIDE DEF row
  <2> QED BY <1>1, <2>1, <2>2, CaseGoesOn
<1> QED BY <1>2, <1>3

LEMMA LapseKeeps ==
    ASSUME CustodyInv, NEW k \in Cases, Lapse(k)
    PROVE  CustodyInv'
<1> DEFINE row == [cases[k] EXCEPT !.lapsed = TRUE]
<1>1. /\ IsCase(cases[k]) /\ cases[k].status \in OpenCase /\ UNCHANGED <<lots, transfers>>
      /\ cases' = [cases EXCEPT ![k] = row]
  BY DEF Lapse, CustodyInv, Shaped, ivars
<1>2. /\ IsCase(row) /\ row.status = cases[k].status
      /\ row.expected = cases[k].expected /\ row.source = cases[k].source
  BY <1>1 DEF IsCase
<1> HIDE DEF row
<1> QED BY <1>1, <1>2, CaseGoesOn

LEMMA StepKeeps ==
    ASSUME CustodyInv, [Next]_vars
    PROVE  CustodyInv'
<1>1. CASE UNCHANGED vars \/ (RNext /\ UNCHANGED <<ivars, cases>>)
  BY <1>1, ElsewhereKeeps DEF vars, ivars
<1> QED
  BY <1>1, InventoryKeeps, RequestKeeps, AttestItemKeeps, ApproveKeeps, EndKeeps, AcceptKeeps, LapseKeeps DEF Next

-----------------------------------------------------------------------------
\* Whatever is received, counted, moved, claimed or redeemed next to it, a case holds exactly the lots it
\* lists, each with the custodian and the amount it found, until it ends
\* (CustodyContinuityService and the commands of InventoryService and CommodityRightsService).
THEOREM HoldsAlwaysMatch == Spec => []HoldsMatchCases
<1>1. Init => CustodyInv
  BY CustodyInvInit
<1>2. CustodyInv /\ [Next]_vars => CustodyInv'
  BY StepKeeps
<1>3. CustodyInv => HoldsMatchCases
  BY DEF CustodyInv
<1> QED BY <1>1, <1>2, <1>3, PTL DEF Spec
-----------------------------------------------------------------------------
\* Rights

Columns == {"status", "previous", "lot", "quantity", "owner", "expired"}
IsRight(x) ==
    /\ Columns \subseteq DOMAIN x /\ x.quantity \in Nat
    /\ x.previous \notin {"ABSENT", "REDEEMED"}
    /\ x.status = "ABSENT" => x.lot = {}
BalanceSet == [present : BOOLEAN, verified : Nat, available : Nat, issued : Nat, quarantined : Nat, shortfall : Nat]

RightsShaped ==
    /\ rights = [r \in Rights |-> rights[r]] /\ \A r \in Rights : IsRight(rights[r])
    /\ balances \in [Lots -> BalanceSet]

\* The balance of a lot is written when it is verified, which happens to a lot at most once and before
\* any right is issued on it, and is complete from then on.
LotBacked(l) ==
    LET b == balances[l]
    IN  /\ lots[l].status = "VERIFIED" => b.present
        /\ lots[l].status \in {"ABSENT", "PENDING_VERIFICATION"} => ~b.present
        /\ ~b.present => \A r \in Rights : rights[r].lot # {l}
        /\ b.present =>
              /\ b.verified = lots[l].current /\ b.issued = Claims(l)
              /\ b.available + b.issued + b.quarantined = b.verified + b.shortfall
              /\ b.shortfall > 0 => b.available = 0 /\ b.quarantined = 0
              /\ lots[l].status = "VERIFIED" => b.shortfall = 0

BackedInv == RightsShaped /\ \A l \in Lots : LotBacked(l)

LEMMA MaxWithZero ==
    ASSUME NEW n \in Int
    PROVE  Max({n, 0}) = IF n >= 0 THEN n ELSE 0
<1>1. \E x \in {n, 0} : \A y \in {n, 0} : x >= y
  OBVIOUS
<1>2. Max({n, 0}) \in {n, 0} /\ \A y \in {n, 0} : Max({n, 0}) >= y
  BY <1>1 DEF Max
<1> QED BY <1>2

LEMMA ClaimedIs ==
    ASSUME RightsShaped, NEW l
    PROVE  /\ DOMAIN Claimed(l) = Rights
           /\ \A r \in Rights : /\ Claimed(l)[r] \in Nat
                                /\ Claimed(l)[r] = IF rights[r].lot = {l} /\ rights[r].status # "REDEEMED"
                                                   THEN rights[r].quantity ELSE 0
  BY DEF RightsShaped, IsRight, Claimed

\* Claims depend on the lot, the quantity and the end of a right alone.
LEMMA ClaimsStay ==
    ASSUME NEW l, \A r \in Rights : /\ rights'[r].lot = rights[r].lot /\ rights'[r].quantity = rights[r].quantity
                                    /\ rights'[r].status = "REDEEMED" <=> rights[r].status = "REDEEMED"
    PROVE  Claims(l)' = Claims(l)
<1>1. Claimed(l)' = Claimed(l)
  BY DEF Claimed
<1> QED BY <1>1 DEF Claims

\* A right that is written anew changes the claims by the difference.
LEMMA ClaimsChange ==
    ASSUME IsFiniteSet(Rights), RightsShaped, RightsShaped', NEW l, NEW r \in Rights,
           \A s \in Rights \ {r} : rights'[s] = rights[s]
    PROVE  /\ Claims(l) \in Nat
           /\ Claims(l)' = Claims(l) - Claimed(l)[r] + Claimed(l)'[r]
<1> DEFINE f == Claimed(l)
           g == Claimed(l)'
<1>1. DOMAIN f = Rights /\ \A s \in Rights : f[s] \in Nat
  BY ClaimedIs
<1>2. DOMAIN g = Rights /\ \A s \in Rights : g[s] \in Nat
  BY DEF RightsShaped, IsRight, Claimed
<1>3. \A s \in Rights \ {r} : f[s] = g[s]
  BY DEF Claimed
<1>4. Claims(l) = SumFunctionOnSet(f, Rights) /\ Claims(l)' = SumFunctionOnSet(g, Rights)
  <2>1. Claims(l) = SumFunction(f) /\ Claims(l)' = SumFunction(g)
    BY DEF Claims
  <2> HIDE DEF f, g
  <2> QED BY <1>1, <1>2, <2>1, SumOfAll
<1> HIDE DEF f, g
<1>5. SumFunctionOnSet(g, Rights) = SumFunctionOnSet(f, Rights) - f[r] + g[r]
  BY <1>1, <1>2, <1>3, SumChange
<1>6. SumFunctionOnSet(f, Rights) \in Nat
  BY <1>1, SumNat
<1> QED BY <1>4, <1>5, <1>6 DEF f, g

LEMMA BackedInvInit ==
    ASSUME Init
    PROVE  BackedInv
  BY DEF Init, IInit, NoLot, NoBalance, NoRight, BackedInv, RightsShaped, IsRight, Columns, BalanceSet, LotBacked

\* Commands that count nothing and issue nothing
LEMMA UncountedKeeps ==
    ASSUME BackedInv, UNCHANGED <<balances, rights>>,
           \A l \in Lots : lots'[l].status = lots[l].status /\ lots'[l].current = lots[l].current
    PROVE  BackedInv'
<1>1. \A l \in Lots : Claims(l)' = Claims(l)
  BY ClaimsStay
<1> QED BY <1>1 DEF BackedInv, RightsShaped, LotBacked

\* Commands on one right that neither end it nor change what it is a right to
LEMMA RightGoesOn ==
    ASSUME BackedInv, NEW r \in Rights, NEW row, IsRight(row), rights' = [rights EXCEPT ![r] = row],
           row.lot = rights[r].lot, row.quantity = rights[r].quantity,
           rights[r].status # "REDEEMED", row.status # "REDEEMED", UNCHANGED <<lots, balances>>
    PROVE  BackedInv'
<1>1. \A s \in Rights : /\ rights'[s].lot = rights[s].lot /\ rights'[s].quantity = rights[s].quantity
                        /\ rights'[s].status = "REDEEMED" <=> rights[s].status = "REDEEMED"
  BY DEF BackedInv, RightsShaped
<1>2. \A l \in Lots : Claims(l)' = Claims(l)
  BY <1>1, ClaimsStay
<1>3. RightsShaped'
  BY DEF BackedInv, RightsShaped
<1> QED BY <1>1, <1>2, <1>3 DEF BackedInv, LotBacked

LEMMA IssueKeeps ==
    ASSUME IsFiniteSet(Rights), BackedInv, NEW r \in Rights, NEW l \in Lots, NEW owner, NEW q \in 1..MaxQuantity,
           Issue(r, l, owner, q)
    PROVE  BackedInv'
<1> DEFINE row == [NoRight EXCEPT !.status = "ISSUED", !.lot = {l}, !.owner = owner,
                      !.quantity = q, !.warehouse = CHOOSE w \in Warehouses : w \in WarehouseOf(l)]
           b == balances[l]
<1>1. q \in Nat
  OBVIOUS
<1>2. IsRight(row) /\ row.lot = {l} /\ row.quantity = q /\ row.status = "ISSUED"
  BY <1>1 DEF NoRight, IsRight, Columns
<1>3. /\ rights[r].status = "ABSENT" /\ lots[l].status = "VERIFIED" /\ q <= b.available
      /\ rights' = [rights EXCEPT ![r] = row]
      /\ balances' = [balances EXCEPT ![l].available = balances[l].available - q,
                                      ![l].issued = balances[l].issued + q]
      /\ UNCHANGED lots
  BY DEF Issue, Issuable
<1> HIDE DEF row
<1>4. b \in BalanceSet /\ b.present /\ LotBacked(l) /\ rights[r].lot = {}
  BY <1>3 DEF BackedInv, RightsShaped, LotBacked, IsRight
<1>5. /\ balances'[l] = [b EXCEPT !.available = b.available - q, !.issued = b.issued + q]
      /\ \A m \in Lots : m # l => balances'[m] = balances[m]
      /\ balances' \in [Lots -> BalanceSet]
  BY <1>1, <1>3, <1>4 DEF BackedInv, RightsShaped, BalanceSet
<1>6. rights'[r] = row /\ \A s \in Rights \ {r} : rights'[s] = rights[s]
  BY <1>3 DEF BackedInv, RightsShaped
<1>7. RightsShaped'
  BY <1>2, <1>3, <1>5, <1>6 DEF BackedInv, RightsShaped
<1>8. ASSUME NEW m \in Lots
      PROVE  Claims(m) \in Nat /\ Claims(m)' = Claims(m) + IF m = l THEN q ELSE 0
  <2>1. Claimed(m)[r] = 0
    <3>1. {m} # {}
      OBVIOUS
    <3> QED BY <1>4, <3>1 DEF Claimed
  <2>2. Claimed(m)'[r] = IF m = l THEN q ELSE 0
    <3>1. {l} = {m} <=> m = l
      OBVIOUS
    <3> QED BY <1>2, <1>6, <3>1 DEF Claimed
  <2>3. Claims(m) \in Nat /\ Claims(m)' = Claims(m) - Claimed(m)[r] + Claimed(m)'[r]
    BY <1>6, <1>7, ClaimsChange DEF BackedInv
  <2> QED BY <1>1, <2>1, <2>2, <2>3
<1>9. ASSUME NEW m \in Lots
      PROVE  LotBacked(m)'
  <2>1. CASE m = l
    <3>1. Claims(l)' = Claims(l) + q /\ balances'[l].present
      BY <1>4, <1>5, <1>8, <2>1 DEF BalanceSet
    <3> QED BY <1>1, <1>3, <1>4, <1>5, <2>1, <3>1 DEF LotBacked, BalanceSet
  <2>2. CASE m # l
    <3>1. Claims(m)' = Claims(m)
      BY <1>8, <2>2
    <3>2. \A s \in Rights : rights'[s].lot = {m} => rights[s].lot = {m}
      <4>1. {l} # {m}
        BY <2>2
      <4> QED BY <1>2, <1>6, <4>1
    <3> QED BY <1>3, <1>5, <2>2, <3>1, <3>2 DEF BackedInv, LotBacked
  <2> QED BY <2>1, <2>2
<1> QED BY <1>7, <1>9 DEF BackedInv

LEMMA RedeemKeeps ==
    ASSUME IsFiniteSet(Rights), CustodyInv, BackedInv, NEW x \in Redemptions, NEW r \in Rights, NEW l \in Lots,
           CompleteRedemption(x, r, l)
    PROVE  BackedInv'
<1> DEFINE q == rights[r].quantity
           b == balances[l]
           row == [rights[r] EXCEPT !.status = "REDEEMED"]
<1>1. /\ rights[r].status = "REDEMPTION_PENDING" /\ rights[r].lot = {l} /\ lots[l].status = "VERIFIED"
      /\ q <= b.issued /\ q <= b.verified
      /\ balances' = [balances EXCEPT ![l].verified = balances[l].verified - q,
                                      ![l].issued = balances[l].issued - q]
      /\ lots' = [lots EXCEPT ![l].current = lots[l].current - q,
                              ![l].status = IF lots[l].current = q THEN "DEPLETED" ELSE "VERIFIED"]
      /\ rights' = [rights EXCEPT ![r].status = "REDEEMED"]
  BY DEF CompleteRedemption
<1>2. b \in BalanceSet /\ b.present /\ LotBacked(l) /\ q \in Nat
  BY <1>1 DEF BackedInv, RightsShaped, LotBacked, IsRight
<1>3. /\ balances'[l] = [b EXCEPT !.verified = b.verified - q, !.issued = b.issued - q]
      /\ \A m \in Lots : m # l => balances'[m] = balances[m]
      /\ balances' \in [Lots -> BalanceSet]
  <2> DEFINE c == [b EXCEPT !.verified = b.verified - q, !.issued = b.issued - q]
  <2> HIDE DEF q
  <2>1. c \in BalanceSet
    <3>1. b \in BalanceSet /\ b.verified \in Nat /\ b.issued \in Nat
      BY <1>2 DEF BalanceSet
    <3>2. b.verified - q \in Nat /\ b.issued - q \in Nat
      <4> HIDE DEF b
      <4> QED BY <1>1, <1>2, <3>1
    <3> HIDE DEF b
    <3>3. \A v, i \in Nat : [b EXCEPT !.verified = v, !.issued = i] \in BalanceSet
      BY <3>1 DEF BalanceSet
    <3> QED BY <3>2, <3>3
  <2>2. balances' = [balances EXCEPT ![l] = c]
    BY <1>1, <1>2 DEF BackedInv, RightsShaped, BalanceSet
  <2> HIDE DEF c
  <2>3. balances'[l] = c /\ \A m \in Lots : m # l => balances'[m] = balances[m]
    BY <2>2 DEF BackedInv, RightsShaped
  <2> QED BY <2>1, <2>2, <2>3 DEF BackedInv, RightsShaped, c
<1>4. IsRight(row) /\ row.status = "REDEEMED" /\ row.lot = {l}
  BY <1>1 DEF BackedInv, RightsShaped, IsRight, Columns
<1>5. rights' = [rights EXCEPT ![r] = row]
  BY <1>1
<1> HIDE DEF row
<1>6. rights'[r] = row /\ \A s \in Rights \ {r} : rights'[s] = rights[s]
  BY <1>5 DEF BackedInv, RightsShaped
<1>7. RightsShaped'
  BY <1>3, <1>4, <1>5, <1>6 DEF BackedInv, RightsShaped
<1>8. ASSUME NEW m \in Lots
      PROVE  Claims(m) \in Nat /\ Claims(m)' = Claims(m) - IF m = l THEN q ELSE 0
  <2>1. Claimed(m)[r] = IF m = l THEN q ELSE 0
    <3>1. {l} = {m} <=> m = l
      OBVIOUS
    <3> QED BY <1>1, <3>1 DEF Claimed
  <2>2. Claimed(m)'[r] = 0
    BY <1>4, <1>6 DEF Claimed
  <2>3. Claims(m) \in Nat /\ Claims(m)' = Claims(m) - Claimed(m)[r] + Claimed(m)'[r]
    BY <1>6, <1>7, ClaimsChange DEF BackedInv
  <2> QED BY <1>2, <2>1, <2>2, <2>3
<1>9. ASSUME NEW m \in Lots
      PROVE  LotBacked(m)'
  <2>1. CASE m = l
    <3>1. Claims(l)' = Claims(l) - q /\ balances'[l].present
      BY <1>2, <1>3, <1>8, <2>1 DEF BalanceSet
    <3>2. lots'[l].current = lots[l].current - q /\ lots'[l].status \in {"DEPLETED", "VERIFIED"}
      BY <1>1 DEF CustodyInv, Shaped, IsLot
    <3> QED BY <1>1, <1>2, <1>3, <2>1, <3>1, <3>2 DEF LotBacked, BalanceSet
  <2>2. CASE m # l
    <3>1. Claims(m)' = Claims(m)
      BY <1>8, <2>2
    <3>2. \A s \in Rights : rights'[s].lot = rights[s].lot
      BY <1>1, <1>4, <1>6
    <3>3. lots'[m] = lots[m]
      BY <1>1, <2>2 DEF CustodyInv, Shaped
    <3> QED BY <1>3, <2>2, <3>1, <3>2, <3>3 DEF BackedInv, LotBacked
  <2> QED BY <2>1, <2>2
<1> QED BY <1>7, <1>9 DEF BackedInv

\* A lot is registered, and verified before any right on it exists.
LEMMA RegisterBacked ==
    ASSUME CustodyInv, BackedInv, NEW l \in Lots, NEW a, NEW q, RegisterLot(l, a, q)
    PROVE  BackedInv'
<1>1. /\ lots[l].status = "ABSENT" /\ UNCHANGED <<balances, rights>>
      /\ lots'[l].status = "PENDING_VERIFICATION"
      /\ \A m \in Lots : m # l => lots'[m] = lots[m]
  BY DEF RegisterLot, CustodyInv, Shaped, NoLot
<1>2. \A m \in Lots : Claims(m)' = Claims(m)
  BY <1>1, ClaimsStay
<1> QED BY <1>1, <1>2 DEF BackedInv, RightsShaped, LotBacked

LEMMA AttestBacked ==
    ASSUME IsFiniteSet(Rights), CustodyInv, BackedInv, NEW l \in Lots, NEW m \in Members,
           NEW measured \in 0..MaxQuantity, NEW accepted \in BOOLEAN, AttestLot(l, m, measured, accepted)
    PROVE  BackedInv'
<1> DEFINE outcome == Outcome(lots[l].declared, measured, accepted)
<1>1. /\ lots[l].status = "PENDING_VERIFICATION" /\ UNCHANGED rights
      /\ lots'[l].status = outcome /\ lots'[l].current = measured
      /\ \A k \in Lots : k # l => lots'[k] = lots[k]
      /\ balances' = IF outcome # "VERIFIED" THEN balances
                     ELSE [balances EXCEPT ![l] = [NoBalance EXCEPT !.present = TRUE,
                              !.verified = measured, !.available = measured]]
  BY DEF AttestLot, CustodyInv, Shaped, IsLot
<1>2. outcome \in {"LOST", "FROZEN", "VERIFIED", "DISPUTED"} /\ measured \in Nat
  BY DEF Outcome
<1> HIDE DEF outcome
<1>3. ~balances[l].present /\ \A r \in Rights : rights[r].lot # {l}
  BY <1>1 DEF BackedInv, LotBacked
<1>4. \A k \in Lots : Claims(k)' = Claims(k)
  BY <1>1, ClaimsStay
<1>5. Claims(l) = 0
  <2>1. DOMAIN Claimed(l) = Rights /\ \A r \in Rights : Claimed(l)[r] = 0
    BY <1>3 DEF Claimed
  <2>2. Claims(l) = SumFunctionOnSet(Claimed(l), Rights)
    BY <2>1, SumOfAll DEF Claims
  <2> QED BY <2>1, <2>2, SumZero
<1>6. /\ \A k \in Lots : k # l => balances'[k] = balances[k]
      /\ outcome # "VERIFIED" => balances'[l] = balances[l]
      /\ outcome = "VERIFIED" => balances'[l] = [NoBalance EXCEPT !.present = TRUE, !.verified = measured,
                                                                  !.available = measured]
      /\ balances' \in [Lots -> BalanceSet]
  BY <1>1, <1>2 DEF BackedInv, RightsShaped, BalanceSet, NoBalance
<1>7. LotBacked(l)'
  <2>1. CASE outcome = "VERIFIED"
    BY <1>1, <1>2, <1>4, <1>5, <1>6, <2>1 DEF LotBacked, NoBalance
  <2>2. CASE outcome # "VERIFIED"
    BY <1>1, <1>2, <1>3, <1>6, <2>2 DEF LotBacked
  <2> QED BY <2>1, <2>2
<1>8. \A k \in Lots : k # l => LotBacked(k)'
  BY <1>1, <1>4, <1>6 DEF BackedInv, LotBacked
<1> QED BY <1>1, <1>6, <1>7, <1>8 DEF BackedInv, RightsShaped

\* A count that differs puts aside what no right claims, and freezes the rights as they are.
LEMMA DiscrepancyBacked ==
    ASSUME IsFiniteSet(Rights), CustodyInv, BackedInv, NEW l \in Lots, NEW m \in Members, NEW actual \in 0..MaxQuantity,
           RecordDiscrepancy(l, m, actual)
    PROVE  BackedInv'
<1> DEFINE b == balances[l]
<1>1. /\ lots[l].status \in {"VERIFIED", "DISPUTED", "FROZEN"}
      /\ lots'[l].status \in {"LOST", "DISPUTED"} /\ lots'[l].current = actual
      /\ \A k \in Lots : k # l => lots'[k] = lots[k]
      /\ actual \in Nat
  <2> DEFINE status == IF actual = 0 THEN "LOST" ELSE "DISPUTED"
             row == [lots[l] EXCEPT !.status = status, !.current = actual]
  <2>1. lots[l].status \in {"VERIFIED", "DISPUTED", "FROZEN"} /\ lots' = [lots EXCEPT ![l] = row]
    BY DEF RecordDiscrepancy, Countable, CustodyInv, Shaped
  <2>2. status \in {"LOST", "DISPUTED"} /\ actual \in Nat
    OBVIOUS
  <2> HIDE DEF status
  <2>3. row.status = status /\ row.current = actual
    BY DEF CustodyInv, Shaped, IsLot
  <2> HIDE DEF row
  <2> QED BY <2>1, <2>2, <2>3 DEF CustodyInv, Shaped
<1>2. CASE ~b.present
  <2>1. UNCHANGED <<balances, rights>>
    BY <1>2 DEF RecordDiscrepancy
  <2>2. \A k \in Lots : Claims(k)' = Claims(k)
    BY <2>1, ClaimsStay
  <2> QED BY <1>1, <1>2, <2>1, <2>2 DEF BackedInv, RightsShaped, LotBacked
<1>3. CASE b.present
  <2>1. /\ balances' = [balances EXCEPT ![l] = Quarantined(b, actual)]
        /\ rights' = [r \in Rights |-> IF rights[r].lot = {l} /\ rights[r].status \in Freezable
                                       THEN Frozen(r) ELSE rights[r]]
    BY <1>3 DEF RecordDiscrepancy
  <2>2. ASSUME NEW r \in Rights
        PROVE  /\ IsRight(rights'[r]) /\ rights'[r].lot = rights[r].lot /\ rights'[r].quantity = rights[r].quantity
               /\ rights'[r].status = "REDEEMED" <=> rights[r].status = "REDEEMED"
    <3>1. IsRight(rights[r])
      BY DEF BackedInv, RightsShaped
    <3>2. rights[r].status \in Freezable =>
             /\ IsRight(Frozen(r)) /\ Frozen(r).lot = rights[r].lot /\ Frozen(r).quantity = rights[r].quantity
             /\ Frozen(r).status # "REDEEMED" /\ rights[r].status # "REDEEMED"
      BY <3>1 DEF Frozen, Freezable, IsRight, Columns
    <3> QED BY <2>1, <3>1, <3>2
  <2>3. \A k \in Lots : Claims(k)' = Claims(k)
    BY <2>2, ClaimsStay
  <2>4. b \in BalanceSet /\ LotBacked(l)
    BY DEF BackedInv, RightsShaped
  <2>5. /\ b.present /\ b.issued = Claims(l) /\ b.issued \in Nat
    BY <1>3, <2>4 DEF LotBacked, BalanceSet
  <2>6. LET c == Quarantined(b, actual)
        IN  /\ c \in BalanceSet /\ c.present /\ c.verified = actual /\ c.available = 0 /\ c.issued = b.issued
            /\ c.quarantined = IF actual >= b.issued THEN actual - b.issued ELSE 0
            /\ c.shortfall = IF b.issued >= actual THEN b.issued - actual ELSE 0
    <3>1. /\ Max({actual - b.issued, 0}) = IF actual - b.issued >= 0 THEN actual - b.issued ELSE 0
          /\ Max({b.issued - actual, 0}) = IF b.issued - actual >= 0 THEN b.issued - actual ELSE 0
      <4>1. actual - b.issued \in Int /\ b.issued - actual \in Int
        BY <1>1, <2>5
      <4> HIDE DEF b
      <4>2. Max({actual - b.issued, 0}) = IF actual - b.issued >= 0 THEN actual - b.issued ELSE 0
        BY <4>1, MaxWithZero, Zenon
      <4>3. Max({b.issued - actual, 0}) = IF b.issued - actual >= 0 THEN b.issued - actual ELSE 0
        BY <4>1, MaxWithZero, Zenon
      <4> QED BY <4>2, <4>3
    <3> DEFINE c == Quarantined(b, actual)
               put == Max({actual - b.issued, 0})
               missing == Max({b.issued - actual, 0})
    <3>2. /\ put \in Nat /\ put = IF actual >= b.issued THEN actual - b.issued ELSE 0
          /\ missing \in Nat /\ missing = IF b.issued >= actual THEN b.issued - actual ELSE 0
      BY <1>1, <2>5, <3>1
    <3>3. c = [b EXCEPT !.verified = actual, !.available = 0, !.quarantined = put, !.shortfall = missing]
      BY DEF Quarantined
    <3> HIDE DEF put, missing, c
    <3>4. /\ c \in BalanceSet /\ c.present = b.present /\ c.verified = actual /\ c.available = 0
          /\ c.issued = b.issued /\ c.quarantined = put /\ c.shortfall = missing
      BY <1>1, <2>4, <3>2, <3>3 DEF BalanceSet
    <3> QED BY <2>5, <3>2, <3>4 DEF c
  <2>7. /\ balances'[l] = Quarantined(b, actual) /\ balances' \in [Lots -> BalanceSet]
        /\ \A k \in Lots : k # l => balances'[k] = balances[k]
    BY <2>1, <2>6 DEF BackedInv, RightsShaped
  <2>8. RightsShaped'
    BY <2>1, <2>2, <2>7 DEF RightsShaped
  <2>9. LotBacked(l)'
    BY <1>1, <2>3, <2>5, <2>6, <2>7 DEF LotBacked
  <2>10. \A k \in Lots : k # l => LotBacked(k)'
    BY <1>1, <2>2, <2>3, <2>7 DEF BackedInv, LotBacked
  <2> QED BY <2>8, <2>9, <2>10 DEF BackedInv
<1> QED BY <1>2, <1>3

LEMMA InventoryBacked ==
    ASSUME IsFiniteSet(Rights), CustodyInv, BackedInv, INext, UNCHANGED cases
    PROVE  BackedInv'
<1>1. ASSUME NEW t \in Transfers, NEW l \in Lots, AcceptCustody(t, l) \/ \E b \in Assignments : OfferCustody(t, l, b)
      PROVE  BackedInv'
  <2>1. UNCHANGED <<balances, rights>>
    BY <1>1 DEF AcceptCustody, OfferCustody
  <2>2. \A m \in Lots : lots'[m].status = lots[m].status /\ lots'[m].current = lots[m].current
    BY <1>1 DEF AcceptCustody, OfferCustody, CustodyInv, Shaped, IsLot
  <2> QED BY <2>1, <2>2, UncountedKeeps
<1>2. ASSUME NEW r \in Rights, NEW l \in Lots, NEW x \in Redemptions, RequestRedemption(x, r, l)
      PROVE  BackedInv'
  <2> DEFINE row == [rights[r] EXCEPT !.status = "REDEMPTION_PENDING"]
  <2>1. rights' = [rights EXCEPT ![r] = row] /\ UNCHANGED <<lots, balances>> /\ rights[r].status # "REDEEMED"
    BY <1>2 DEF RequestRedemption, Operable
  <2>2. /\ IsRight(row) /\ row.lot = rights[r].lot /\ row.quantity = rights[r].quantity
        /\ row.status # "REDEEMED"
    BY DEF BackedInv, RightsShaped, IsRight, Columns
  <2> HIDE DEF row
  <2> QED BY <2>1, <2>2, RightGoesOn
<1>3. ASSUME NEW r \in Rights, NEW owner \in RightOwners, TransferRight(r, owner)
      PROVE  BackedInv'
  <2> DEFINE row == [rights[r] EXCEPT !.owner = owner, !.status = "TRANSFERRED"]
  <2>1. rights' = [rights EXCEPT ![r] = row] /\ UNCHANGED <<lots, balances>> /\ rights[r].status # "REDEEMED"
    BY <1>3 DEF TransferRight, Operable, BackedInv, RightsShaped
  <2>2. /\ IsRight(row) /\ row.lot = rights[r].lot /\ row.quantity = rights[r].quantity
        /\ row.status # "REDEEMED"
    BY DEF BackedInv, RightsShaped, IsRight, Columns
  <2> HIDE DEF row
  <2> QED BY <2>1, <2>2, RightGoesOn
<1>4. ASSUME NEW r \in Rights, Freeze(r)
      PROVE  BackedInv'
  <2>1. rights' = [rights EXCEPT ![r] = Frozen(r)] /\ UNCHANGED <<lots, balances>> /\ rights[r].status \in Freezable
    BY <1>4 DEF Freeze
  <2>2. /\ IsRight(Frozen(r)) /\ Frozen(r).lot = rights[r].lot /\ Frozen(r).quantity = rights[r].quantity
        /\ Frozen(r).status # "REDEEMED" /\ rights[r].status # "REDEEMED"
    BY <2>1 DEF BackedInv, RightsShaped, IsRight, Columns, Frozen, Freezable
  <2> QED BY <2>1, <2>2, RightGoesOn
<1>5. ASSUME NEW r \in Rights, Unfreeze(r)
      PROVE  BackedInv'
  <2> DEFINE row == [rights[r] EXCEPT !.status = rights[r].previous, !.previous = "NONE"]
  <2>1. rights' = [rights EXCEPT ![r] = row] /\ UNCHANGED <<lots, balances>> /\ rights[r].status # "REDEEMED"
    BY <1>5 DEF Unfreeze, BackedInv, RightsShaped
  <2>2. /\ IsRight(row) /\ row.lot = rights[r].lot /\ row.quantity = rights[r].quantity
        /\ row.status # "REDEEMED"
    BY DEF BackedInv, RightsShaped, IsRight, Columns
  <2> HIDE DEF row
  <2> QED BY <2>1, <2>2, RightGoesOn
<1>6. ASSUME NEW r \in Rights, ExpireRight(r)
      PROVE  BackedInv'
  <2>1. /\ \A s \in Rights : /\ IsRight(rights'[s]) /\ rights'[s].lot = rights[s].lot
                             /\ rights'[s].quantity = rights[s].quantity /\ rights'[s].status = rights[s].status
        /\ rights' = [s \in Rights |-> rights'[s]] /\ UNCHANGED <<lots, balances>>
    BY <1>6 DEF ExpireRight, BackedInv, RightsShaped, IsRight, Columns
  <2>2. \A l \in Lots : Claims(l)' = Claims(l)
    BY <2>1, ClaimsStay
  <2> QED BY <2>1, <2>2 DEF BackedInv, RightsShaped, LotBacked
<1> QED
  BY <1>1, <1>2, <1>3, <1>4, <1>5, <1>6, RegisterBacked, AttestBacked, DiscrepancyBacked, IssueKeeps, RedeemKeeps
     DEF INext

\* A case changes who keeps a lot, never how much there is of it.
LEMMA CasesUncounted ==
    ASSUME CustodyInv, NEW k \in Cases,
           \/ \E p \in Members, a \in Assignments, m \in Members : RequestCase(k, a, m, p)
           \/ \E p \in Members, l \in Lots, q \in 0..MaxQuantity : AttestItem(k, l, p, q)
           \/ \E p \in Members, b \in Assignments : ApproveCase(k, p, b)
           \/ \E p \in Members : RejectCase(k, p)
           \/ AcceptCase(k) \/ DeclineCase(k) \/ Lapse(k)
    PROVE  /\ UNCHANGED <<balances, rights>>
           /\ \A l \in Lots : lots'[l].status = lots[l].status /\ lots'[l].current = lots[l].current
<1>1. UNCHANGED <<balances, rights>>
  BY DEF RequestCase, AttestItem, ApproveCase, RejectCase, AcceptCase, DeclineCase, Lapse, others, ivars
<1>2. ASSUME NEW l \in Lots
      PROVE  \/ lots'[l] = lots[l] \/ lots'[l] = [lots[l] EXCEPT !.hold = {k}]
             \/ lots'[l] = [lots[l] EXCEPT !.hold = {}]
             \/ lots'[l] = [lots[l] EXCEPT !.custodian = cases[k].target, !.hold = {}]
  <2>1. CASE UNCHANGED lots
    BY <2>1
  <2>2. CASE lots' = Released(k)
    BY <2>2 DEF Released
  <2>3. ASSUME NEW p \in Members, NEW a \in Assignments, NEW m \in Members, RequestCase(k, a, m, p)
        PROVE  lots'[l] = lots[l] \/ lots'[l] = [lots[l] EXCEPT !.hold = {k}]
    BY <2>3 DEF RequestCase
  <2>4. CASE AcceptCase(k)
    BY <2>4 DEF AcceptCase
  <2> QED
    BY <2>1, <2>2, <2>3, <2>4 DEF AttestItem, ApproveCase, RejectCase, DeclineCase, Lapse, ivars
<1>3. \A l \in Lots : IsLot(lots[l])
  BY DEF CustodyInv, Shaped
<1> QED BY <1>1, <1>2, <1>3 DEF IsLot

LEMMA BackedStep ==
    ASSUME IsFiniteSet(Rights), CustodyInv, BackedInv, [Next]_vars
    PROVE  BackedInv'
<1>1. CASE UNCHANGED vars \/ (RNext /\ UNCHANGED <<ivars, cases>>)
  BY <1>1, UncountedKeeps DEF vars, ivars
<1>2. CASE \E k \in Cases :
             \/ \E p \in Members, a \in Assignments, m \in Members : RequestCase(k, a, m, p)
             \/ \E p \in Members, l \in Lots, q \in 0..MaxQuantity : AttestItem(k, l, p, q)
             \/ \E p \in Members, b \in Assignments : ApproveCase(k, p, b)
             \/ \E p \in Members : RejectCase(k, p)
             \/ AcceptCase(k) \/ DeclineCase(k) \/ Lapse(k)
  BY <1>2, CasesUncounted, UncountedKeeps
<1>3. CASE INext /\ UNCHANGED cases
  BY <1>3, InventoryBacked
<1> QED BY <1>1, <1>2, <1>3 DEF Next

\* Rights never claim more than was counted without a shortfall on record, and a lot with one takes no
\* further rights, whatever order counts, discrepancies, issues, freezes, redemptions and changes of
\* custody come in (CommodityRightsService, InventoryService, quarantine_for_discrepancy).
THEOREM RightsAlwaysBacked ==
    ASSUME IsFiniteSet(Rights)
    PROVE  Spec => []RightsBacked
<1>1. Init => CustodyInv /\ BackedInv
  BY CustodyInvInit, BackedInvInit
<1>2. CustodyInv /\ BackedInv /\ [Next]_vars => (CustodyInv /\ BackedInv)'
  BY StepKeeps, BackedStep
<1>3. CustodyInv /\ BackedInv => RightsBacked
  <2> SUFFICES ASSUME BackedInv, NEW l \in Lots, balances[l].present
               PROVE  LET b == balances[l]
                      IN  /\ b.verified = lots[l].current /\ b.issued = Claims(l)
                          /\ b.available + b.issued + b.quarantined = b.verified + b.shortfall
                          /\ Claims(l) <= b.verified + b.shortfall
                          /\ b.shortfall > 0 => b.available = 0 /\ b.quarantined = 0
                          /\ lots[l].status = "VERIFIED" => b.shortfall = 0
    BY DEF RightsBacked
  <2>1. LotBacked(l) /\ balances[l] \in BalanceSet
    BY DEF BackedInv, RightsShaped
  <2> QED BY <2>1 DEF LotBacked, BalanceSet
<1> QED BY <1>1, <1>2, <1>3, PTL DEF Spec
=============================================================================

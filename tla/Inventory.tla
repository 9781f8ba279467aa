------------------------------- MODULE Inventory -------------------------------
(***************************************************************************)
(* Lots in the custody of responsible members, and the commodity rights    *)
(* issued against what was verified of them.  A command is a transaction   *)
(* that locks the lot, or the right, that it decides on.                   *)
(***************************************************************************)
EXTENDS Responsibility

CONSTANTS
    Attesters,       \* ATTESTATION_ROLES
    RightOwners,     \* members a right is issued or passed to
    Lots, Transfers, Rights, Redemptions,
    Cases,           \* custody continuity cases, of CustodyContinuity
    MaxQuantity,
    Tolerance        \* quantity_tolerance of the product

VARIABLES
    lots,            \* assets.inventory_lots
    transfers,       \* assets.custody_transfers
    balances,        \* rights.lot_balances, of a lot that was verified
    rights,          \* rights.commodity_rights
    redemptions      \* rights.right_redemptions

ivars == <<lots, transfers, balances, rights, redemptions>>

NoLot == [status |-> "ABSENT", declared |-> 0, current |-> 0, custodian |-> {}, receiver |-> Nobody,
          hold |-> {}]
NoTransfer == [status |-> "ABSENT", lot |-> {}, from |-> {}, to |-> {}]
NoBalance == [present |-> FALSE, verified |-> 0, available |-> 0, issued |-> 0, quarantined |-> 0,
              shortfall |-> 0]
NoRight == [status |-> "ABSENT", previous |-> "NONE", lot |-> {}, owner |-> Nobody, quantity |-> 0,
            warehouse |-> Nowhere, expired |-> FALSE]
NoRedemption == [status |-> "ABSENT", right |-> {}, custodian |-> {}]

IInit ==
    /\ lots = [l \in Lots |-> NoLot]
    /\ transfers = [t \in Transfers |-> NoTransfer]
    /\ balances = [l \in Lots |-> NoBalance]
    /\ rights = [r \in Rights |-> NoRight]
    /\ redemptions = [x \in Redemptions |-> NoRedemption]

\* A lot is at the warehouse of the assignment that keeps it
WarehouseOf(l) == UNION {{assignments[a].warehouse} : a \in lots[l].custodian}
Free(l) == lots[l].hold = {}
\* Mutant: the count of a lot does not look at the continuity hold
CountableHeld(l) == lots[l].status \in {"VERIFIED", "DISPUTED", "FROZEN"}
Countable(l) == Free(l) /\ lots[l].status \in {"VERIFIED", "DISPUTED", "FROZEN"}

-----------------------------------------------------------------------------
RegisterLot(l, a, q) ==
    /\ lots[l].status = "ABSENT" /\ InForce(a)
    /\ lots' = [lots EXCEPT ![l] = [NoLot EXCEPT !.status = "PENDING_VERIFICATION", !.declared = q,
                   !.custodian = {a}, !.receiver = assignments[a].holder]]
    /\ UNCHANGED <<rvars, transfers, balances, rights, redemptions>>

\* evaluate_attestation
Outcome(declared, measured, accepted) ==
    CASE measured = 0 -> "LOST"
      [] measured # 0 /\ ~accepted -> "FROZEN"
      [] measured # 0 /\ accepted /\ measured \in (declared - Tolerance)..(declared + Tolerance) -> "VERIFIED"
      [] OTHER -> "DISPUTED"

AttestLot(l, m, measured, accepted) ==
    LET outcome == Outcome(lots[l].declared, measured, accepted)
    IN  /\ lots[l].status = "PENDING_VERIFICATION" /\ Free(l)
        /\ m \in Attesters \ {lots[l].receiver}
        /\ lots' = [lots EXCEPT ![l].status = outcome, ![l].current = measured]
        /\ balances' = IF outcome # "VERIFIED" THEN balances
                       ELSE [balances EXCEPT ![l] = [NoBalance EXCEPT !.present = TRUE,
                                !.verified = measured, !.available = measured]]
        /\ UNCHANGED <<rvars, transfers, rights, redemptions>>

\* quarantine_physical_count: what the rights do not claim is put aside
\* Mutant: what was available stays so
QuarantinedLoose(b, actual) ==
    [b EXCEPT !.verified = actual, !.quarantined = Max({actual - b.issued - b.available, 0}),
              !.shortfall = Max({b.issued + b.available - actual, 0})]
Quarantined(b, actual) ==
    [b EXCEPT !.verified = actual, !.available = 0, !.quarantined = Max({actual - b.issued, 0}),
              !.shortfall = Max({b.issued - actual, 0})]

Freezable == {"ISSUED", "TRANSFERRED", "REDEMPTION_PENDING"}
Frozen(r) == [rights[r] EXCEPT !.status = "FROZEN", !.previous = rights[r].status]

\* record_discrepancy and quarantine_for_discrepancy
RecordDiscrepancy(l, m, actual) ==
    /\ Countable(l) /\ actual # lots[l].current /\ m \in Attesters \union Custodians
    /\ lots' = [lots EXCEPT ![l].status = IF actual = 0 THEN "LOST" ELSE "DISPUTED", ![l].current = actual]
    /\ IF balances[l].present
       THEN /\ balances' = [balances EXCEPT ![l] = Quarantined(balances[l], actual)]
            /\ rights' = [r \in Rights |-> IF rights[r].lot = {l} /\ rights[r].status \in Freezable
                                           THEN Frozen(r) ELSE rights[r]]
       ELSE UNCHANGED <<balances, rights>>
    /\ UNCHANGED <<rvars, transfers, redemptions>>

\* offer_custody by the custodian, one open offer of a lot
OfferCustody(t, l, b) ==
    /\ transfers[t].status = "ABSENT" /\ Free(l) /\ lots[l].status \notin {"ABSENT", "LOST", "DEPLETED"}
    /\ \A a \in lots[l].custodian : InForce(a) /\ a # b /\ assignments[a].holder # assignments[b].holder
    /\ InForce(b)
    /\ \A s \in Transfers : transfers[s].lot = {l} => transfers[s].status # "OFFERED"
    /\ transfers' = [transfers EXCEPT ![t] = [status |-> "OFFERED", lot |-> {l},
                                              from |-> lots[l].custodian, to |-> {b}]]
    /\ UNCHANGED <<rvars, lots, balances, rights, redemptions>>

AcceptCustody(t, l) ==
    /\ transfers[t].status = "OFFERED" /\ transfers[t].lot = {l}
    /\ Free(l) /\ lots[l].custodian = transfers[t].from
    /\ \A b \in transfers[t].to : InForce(b)
    /\ transfers' = [transfers EXCEPT ![t].status = "ACCEPTED"]
    /\ lots' = [lots EXCEPT ![l].custodian = transfers[t].to]
    /\ UNCHANGED <<rvars, balances, rights, redemptions>>

-----------------------------------------------------------------------------
\* A right on what is available, consumed at once from the balance
\* Mutant: the amount is compared with all that was verified
IssuableVerified(l, q) == q <= balances[l].verified
Issuable(l, q) == q <= balances[l].available

Issue(r, l, owner, q) ==
    /\ rights[r].status = "ABSENT" /\ lots[l].status = "VERIFIED" /\ Issuable(l, q)
    /\ rights' = [rights EXCEPT ![r] = [NoRight EXCEPT !.status = "ISSUED", !.lot = {l}, !.owner = owner,
                     !.quantity = q, !.warehouse = CHOOSE w \in Warehouses : w \in WarehouseOf(l)]]
    /\ balances' = [balances EXCEPT ![l].available = balances[l].available - q,
                                    ![l].issued = balances[l].issued + q]
    /\ UNCHANGED <<rvars, lots, transfers, redemptions>>

\* ensure_right_operable
Operable(r) == rights[r].status \in {"ISSUED", "TRANSFERRED"} /\ ~rights[r].expired

TransferRight(r, owner) ==
    /\ Operable(r) /\ owner # rights[r].owner
    /\ rights' = [rights EXCEPT ![r].owner = owner, ![r].status = "TRANSFERRED"]
    /\ UNCHANGED <<rvars, lots, transfers, balances, redemptions>>

Freeze(r) ==
    /\ rights[r].status \in Freezable
    /\ rights' = [rights EXCEPT ![r] = Frozen(r)]
    /\ UNCHANGED <<rvars, lots, transfers, balances, redemptions>>

\* unfreeze does not look at the lot
Unfreeze(r) ==
    /\ rights[r].status = "FROZEN"
    /\ rights' = [rights EXCEPT ![r].status = rights[r].previous, ![r].previous = "NONE"]
    /\ UNCHANGED <<rvars, lots, transfers, balances, redemptions>>

ExpireRight(r) ==
    /\ rights[r].status # "ABSENT" /\ ~rights[r].expired
    /\ rights' = [rights EXCEPT ![r].expired = TRUE]
    /\ UNCHANGED <<rvars, lots, transfers, balances, redemptions>>

RequestRedemption(x, r, l) ==
    /\ redemptions[x].status = "ABSENT" /\ Operable(r) /\ rights[r].lot = {l}
    /\ lots[l].status = "VERIFIED" /\ rights[r].warehouse \in WarehouseOf(l)
    /\ redemptions' = [redemptions EXCEPT ![x] = [status |-> "REQUESTED", right |-> {r},
                                                  custodian |-> lots[l].custodian]]
    /\ rights' = [rights EXCEPT ![r].status = "REDEMPTION_PENDING"]
    /\ UNCHANGED <<rvars, lots, transfers, balances>>

\* complete_redemption by the custodian the request named, who must still keep the lot
CompleteRedemption(x, r, l) ==
    LET q == rights[r].quantity
    IN  /\ redemptions[x].status = "REQUESTED" /\ redemptions[x].right = {r} /\ rights[r].status = "REDEMPTION_PENDING"
        /\ rights[r].lot = {l} /\ lots[l].status = "VERIFIED" /\ Free(l)
        /\ lots[l].custodian = redemptions[x].custodian /\ \A a \in lots[l].custodian : InForce(a)
        /\ q <= balances[l].issued /\ q <= balances[l].verified
        /\ balances' = [balances EXCEPT ![l].verified = balances[l].verified - q,
                                        ![l].issued = balances[l].issued - q]
        /\ lots' = [lots EXCEPT ![l].current = lots[l].current - q,
                                ![l].status = IF lots[l].current = q THEN "DEPLETED" ELSE "VERIFIED"]
        /\ rights' = [rights EXCEPT ![r].status = "REDEEMED"]
        /\ redemptions' = [redemptions EXCEPT ![x].status = "COMPLETED"]
        /\ UNCHANGED <<rvars, transfers>>

INext ==
    \/ \E l \in Lots, a \in Assignments, q \in 1..MaxQuantity : RegisterLot(l, a, q)
    \/ \E l \in Lots, m \in Members, q \in 0..MaxQuantity :
          \/ \E accepted \in BOOLEAN : AttestLot(l, m, q, accepted)
          \/ RecordDiscrepancy(l, m, q)
    \/ \E t \in Transfers, l \in Lots :
          AcceptCustody(t, l) \/ \E b \in Assignments : OfferCustody(t, l, b)
    \/ \E r \in Rights, l \in Lots :
          \/ \E owner \in RightOwners, q \in 1..MaxQuantity : Issue(r, l, owner, q)
          \/ \E x \in Redemptions : RequestRedemption(x, r, l) \/ CompleteRedemption(x, r, l)
    \/ \E r \in Rights :
          \/ \E owner \in RightOwners : TransferRight(r, owner)
          \/ Freeze(r) \/ Unfreeze(r) \/ ExpireRight(r)

ITypeOK ==
    /\ lots \in [Lots -> [status : {"ABSENT", "PENDING_VERIFICATION", "VERIFIED", "DISPUTED", "FROZEN", "LOST",
                                    "DEPLETED"},
                          declared : 0..MaxQuantity, current : 0..MaxQuantity, custodian : SUBSET Assignments,
                          receiver : Anyone, hold : SUBSET Cases]]
    /\ transfers \in [Transfers -> [status : {"ABSENT", "OFFERED", "ACCEPTED"}, lot : SUBSET Lots,
                                    from : SUBSET Assignments, to : SUBSET Assignments]]
    /\ balances \in [Lots -> [present : BOOLEAN, verified : Nat, available : Nat, issued : Nat,
                              quarantined : Nat, shortfall : Nat]]
    /\ rights \in [Rights -> [status : {"ABSENT", "ISSUED", "TRANSFERRED", "REDEMPTION_PENDING", "FROZEN",
                                        "REDEEMED"},
                              previous : {"NONE", "ISSUED", "TRANSFERRED", "REDEMPTION_PENDING"},
                              lot : SUBSET Lots, owner : Anyone, quantity : 0..MaxQuantity,
                              warehouse : Warehouses \union {Nowhere}, expired : BOOLEAN]]
    /\ redemptions \in [Redemptions -> [status : {"ABSENT", "REQUESTED", "COMPLETED"}, right : SUBSET Rights,
                                        custodian : SUBSET Assignments]]
=============================================================================

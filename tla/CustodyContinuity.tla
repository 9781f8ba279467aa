--------------------------- MODULE CustodyContinuity ---------------------------
(***************************************************************************)
(* The lots of a custodian who died or became incapable are held, counted, *)
(* and handed over to a temporary custodian, next to the ordinary commands *)
(* on assignments, lots and rights, which know nothing of a case but the   *)
(* hold it leaves on its lots.                                             *)
(***************************************************************************)
EXTENDS Inventory

CONSTANTS
    Requesters,      \* REQUEST_ROLES
    Reviewers,       \* REVIEW_ROLES
    InForceFirst     \* the assignments the instance starts with

VARIABLE cases       \* assets.custody_continuity_cases and their items

vars == <<rvars, ivars, cases>>
others == <<balances, rights, redemptions>>

\* items: the lots of the case, each with the count it must match
NoCase == [status |-> "ABSENT", source |-> {}, candidate |-> Nobody, target |-> {}, requester |-> Nobody,
           expected |-> <<>>, matched |-> {}, attesters |-> {}, lapsed |-> FALSE]

Init == RInit(InForceFirst) /\ IInit /\ cases = [k \in Cases |-> NoCase]

Held(k) == DOMAIN cases[k].expected
OpenCase == {"INVENTORY_PENDING", "PENDING_APPROVAL", "PENDING_ACCEPTANCE", "BLOCKED"}
Eligible(m) == m \in Custodians /\ Works(m)
SourceKept(k) == \A a \in cases[k].source :
    assignments[a].status = "ACTIVE" /\ standing[assignments[a].holder] = "SUCCESSION_REVIEW"
\* _lot_quantity
Amount(l) == IF lots[l].status = "PENDING_VERIFICATION" THEN lots[l].declared ELSE lots[l].current
\* _lot_blockers
LotKept(k, l) ==
    lots[l].hold = {k} /\ lots[l].custodian = cases[k].source /\ Amount(l) = cases[k].expected[l]
\* _state_blockers
Unblocked(k) ==
    /\ ~cases[k].lapsed /\ SourceKept(k) /\ Eligible(cases[k].candidate)
    /\ \A a \in cases[k].target : assignments[a].status = "PENDING_ACCEPTANCE"
    /\ cases[k].matched = Held(k)
    /\ \A l \in Held(k) : LotKept(k, l)

\* Every lot of the source, and only whole: a case is refused while a lot of it is held or offered
Holdable(ls) ==
    /\ ls # {} /\ \A l \in ls : Free(l)
    /\ \A t \in Transfers : transfers[t].status = "OFFERED" => transfers[t].lot \cap ls = {}
RequestCase(k, a, candidate, p) ==
    LET mine == {l \in Lots : lots[l].custodian = {a}}
    IN  /\ cases[k].status = "ABSENT" /\ p \in Requesters
        /\ assignments[a].status = "ACTIVE" /\ standing[assignments[a].holder] = "SUCCESSION_REVIEW"
        /\ Eligible(candidate) /\ candidate \notin {assignments[a].holder, p}
        /\ ~Responsible(candidate, assignments[a].warehouse)
        /\ \A j \in Cases : a \in cases[j].source => cases[j].status \notin OpenCase
        /\ Holdable(mine)
        /\ lots' = [l \in Lots |-> IF l \in mine THEN [lots[l] EXCEPT !.hold = {k}] ELSE lots[l]]
        /\ cases' = [cases EXCEPT ![k] = [NoCase EXCEPT !.status = "INVENTORY_PENDING", !.source = {a},
                        !.candidate = candidate, !.requester = p, !.expected = [l \in mine |-> Amount(l)]]]
        /\ UNCHANGED <<rvars, transfers, others>>

AttestItem(k, l, p, measured) ==
    LET matched == cases[k].matched \union {l}
    IN  /\ cases[k].status = "INVENTORY_PENDING" /\ l \in Held(k) \ cases[k].matched
        /\ p \in Attesters \ {cases[k].requester, cases[k].candidate}
        /\ cases' = [cases EXCEPT ![k] =
              IF ~LotKept(k, l) THEN [cases[k] EXCEPT !.status = "BLOCKED"]
              ELSE [cases[k] EXCEPT
                      !.attesters = cases[k].attesters \union {p},
                      !.matched = IF measured = cases[k].expected[l] THEN matched ELSE cases[k].matched,
                      !.status = CASE measured # cases[k].expected[l] -> "BLOCKED"
                                   [] measured = cases[k].expected[l] /\ matched = Held(k) -> "PENDING_APPROVAL"
                                   [] OTHER -> "INVENTORY_PENDING"]]
        /\ UNCHANGED <<rvars, ivars>>

\* _release_holds lets go of what the case still holds
Released(k) == [l \in Lots |-> IF lots[l].hold = {k} /\ l \in Held(k) THEN [lots[l] EXCEPT !.hold = {}] ELSE lots[l]]
Deciders(k) == Reviewers \ ({cases[k].requester, cases[k].candidate} \union cases[k].attesters)

ApproveCase(k, p, b) ==
    /\ cases[k].status = "PENDING_APPROVAL" /\ p \in Deciders(k)
    /\ IF Unblocked(k)
       THEN /\ assignments[b].status = "ABSENT" /\ b \in Termed
            /\ assignments' = [assignments EXCEPT ![b] = [status |-> "PENDING_ACCEPTANCE",
                                  holder |-> cases[k].candidate,
                                  warehouse |-> CHOOSE w \in Warehouses :
                                                   \A a \in cases[k].source : assignments[a].warehouse = w,
                                  creator |-> cases[k].requester, expired |-> FALSE]]
            /\ cases' = [cases EXCEPT ![k].status = "PENDING_ACCEPTANCE", ![k].target = {b}]
       ELSE /\ cases' = [cases EXCEPT ![k].status = "BLOCKED"]
            /\ UNCHANGED assignments
    /\ UNCHANGED <<standing, ivars>>

RejectCase(k, p) ==
    /\ cases[k].status \in {"INVENTORY_PENDING", "PENDING_APPROVAL", "BLOCKED"} /\ p \in Deciders(k)
    /\ lots' = Released(k)
    /\ cases' = [cases EXCEPT ![k].status = "REJECTED"]
    /\ assignments' = [a \in Assignments |->
          IF a \in cases[k].target /\ assignments[a].status = "PENDING_ACCEPTANCE"
          THEN [assignments[a] EXCEPT !.status = "REJECTED"] ELSE assignments[a]]
    /\ UNCHANGED <<standing, transfers, others>>

\* candidate_decision needs a candidate who can act and an assignment nobody has accepted yet
Decidable(k) ==
    /\ cases[k].status = "PENDING_ACCEPTANCE" /\ Eligible(cases[k].candidate)
    /\ \A b \in cases[k].target : assignments[b].status = "PENDING_ACCEPTANCE"

\* The ACCEPTED transfer of each lot is left out: nothing reads it again
AcceptCase(k) ==
    /\ Decidable(k)
    /\ IF Unblocked(k)
       THEN /\ lots' = [l \in Lots |-> IF l \in Held(k)
                           THEN [lots[l] EXCEPT !.custodian = cases[k].target, !.hold = {}] ELSE lots[l]]
            /\ assignments' = [a \in Assignments |->
                  CASE a \in cases[k].source -> [assignments[a] EXCEPT !.status = "RELEASED"]
                    [] a \in cases[k].target -> [assignments[a] EXCEPT !.status = "ACTIVE"]
                    [] OTHER -> assignments[a]]
            /\ cases' = [cases EXCEPT ![k].status = "ACCEPTED"]
       ELSE /\ assignments' = [a \in Assignments |-> IF a \in cases[k].target
                                  THEN [assignments[a] EXCEPT !.status = "REJECTED"] ELSE assignments[a]]
            /\ cases' = [cases EXCEPT ![k].status = "BLOCKED"]
            /\ UNCHANGED lots
    /\ UNCHANGED <<standing, transfers, others>>

DeclineCase(k) ==
    /\ Decidable(k)
    /\ lots' = Released(k)
    /\ assignments' = [a \in Assignments |-> IF a \in cases[k].target
                          THEN [assignments[a] EXCEPT !.status = "REJECTED"] ELSE assignments[a]]
    /\ cases' = [cases EXCEPT ![k].status = "REJECTED"]
    /\ UNCHANGED <<standing, transfers, others>>

\* temporary_valid_until passes
Lapse(k) ==
    /\ cases[k].status \in OpenCase /\ ~cases[k].lapsed
    /\ cases' = [cases EXCEPT ![k].lapsed = TRUE]
    /\ UNCHANGED <<rvars, ivars>>

Next ==
    \/ INext /\ UNCHANGED cases
    \/ RNext /\ UNCHANGED <<ivars, cases>>
    \/ \E k \in Cases, p \in Members :
          \/ \E a \in Assignments, m \in Members : RequestCase(k, a, m, p)
          \/ \E l \in Lots, q \in 0..MaxQuantity : AttestItem(k, l, p, q)
          \/ \E b \in Assignments : ApproveCase(k, p, b)
          \/ RejectCase(k, p)
    \/ \E k \in Cases : AcceptCase(k) \/ DeclineCase(k) \/ Lapse(k)

Spec == Init /\ [][Next]_vars

-----------------------------------------------------------------------------
TypeOK ==
    /\ RTypeOK /\ ITypeOK
    /\ \A k \in Cases :
          /\ cases[k].status \in OpenCase \union {"ABSENT", "ACCEPTED", "REJECTED"}
          /\ cases[k].matched \subseteq Held(k) /\ Held(k) \subseteq Lots
          /\ cases[k].source \union cases[k].target \subseteq Assignments

\* A lot is held by a case exactly while that case is open and counts it, and the lot then still is
\* what the case found: same amount, same custodian (continuity_hold_case_id, _lot_blockers).
HoldsMatchCases ==
    \A k \in Cases, l \in Lots :
        /\ lots[l].hold = {k} <=> cases[k].status \in OpenCase /\ l \in Held(k)
        /\ lots[l].hold = {k} => LotKept(k, l)

\* What is still to be given out on the rights to a lot
Claimed(l) == [r \in Rights |-> IF rights[r].lot = {l} /\ rights[r].status # "REDEEMED" THEN rights[r].quantity ELSE 0]
Claims(l) == SumFunction(Claimed(l))

\* Rights stay backed by what was last counted: every unit of the count is available, claimed by a
\* right or put aside, up to a shortfall on record; a lot on which rights can be issued has none.
RightsBacked ==
    \A l \in Lots : balances[l].present =>
        LET b == balances[l]
        IN  /\ b.verified = lots[l].current /\ b.issued = Claims(l)
            /\ b.available + b.issued + b.quarantined = b.verified + b.shortfall
            /\ Claims(l) <= b.verified + b.shortfall
            /\ b.shortfall > 0 => b.available = 0 /\ b.quarantined = 0
            /\ lots[l].status = "VERIFIED" => b.shortfall = 0

=============================================================================

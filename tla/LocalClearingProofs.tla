------------------------ MODULE LocalClearingProofs ------------------------
(***************************************************************************)
(* Proofs about LocalClearing for all deals, obligations, members, roles,  *)
(* cycles and policies, and any calculation that clears of an obligation   *)
(* no more than is outstanding and, where it excludes nothing, changes     *)
(* nobody's balance; and about Deliveries, which extends the exchange with *)
(* the orders and the sources of its fulfillments.  Sums are handled by    *)
(* the lemmas of SumProofs.                                                *)
(***************************************************************************)
EXTENDS LocalClearing, SumProofs, TLAPS

CONSTANTS ProductOf, Redemptions, Goods, Orders, Users, None
VARIABLES traceable, completed, orders, carriage, performed, provenance

Delivery == INSTANCE Deliveries

\* A deal is at a version of its terms that was proposed, and an open dispute remembers a status
\* its obligation can return to.
Consistent == /\ \A d \in Deals : deals[d].terms \in 1..Len(Revisions[d])
              /\ \A o \in Obligations : disputes[o].open => disputes[o].obligationWas \in ObligationStatus

\* No more is submitted, performed and cleared of an obligation than is owed.
NeverOverdrawn == \A o \in Obligations : Remaining(o, obligations[o]) >= 0

ExchangeInv == ExchangeTypeOK /\ Consistent /\ NeverOverdrawn /\ BoundByOwnConfirmation

\* A snapshot takes at most the debt, and a result clears at most what the snapshot took.
Early == {"ABSENT", "DRAFT", "COLLECTING", "INPUT_FROZEN"}
ResultWithinSnapshot(row) ==
    /\ \A o \in DOMAIN row.entries : row.entries[o].amount <= Terms[o].total
    /\ row.status \in Early => row.cleared = Empty /\ row.approvals = {}
    /\ \A o \in DOMAIN row.cleared : o \in DOMAIN row.entries /\ row.cleared[o] <= row.entries[o].amount

\* Those who approved neither created the cycle nor have a part in its result, and what was
\* finalized had approvals enough and another finalizer.
InterestedIn(row) == UNION {PartiesOf(o) : o \in {p \in DOMAIN row.cleared : row.cleared[p] > 0}}
RolesSeparated(row) ==
    /\ row.approvals \intersect ({row.creator} \union InterestedIn(row)) = {}
    /\ row.status \in {"READY_TO_FINALIZE", "FINALIZED", "RECONCILED"}
          => Cardinality(row.approvals) >= RequiredApprovals
    /\ row.status \in {"FINALIZED", "RECONCILED"} => row.finalizer \notin {row.creator} \union row.approvals

InOrder(row) == row \in CycleRow /\ ResultWithinSnapshot(row) /\ RolesSeparated(row)

PolicyRows == [Policies -> [status : {"ABSENT", "PROPOSED", "ACTIVE", "SUPERSEDED"},
                            proposer : Members \union {Nobody}]]

\* A cycle is in order by itself: only finalize relates it to the obligations.
IInv == /\ ExchangeInv
        /\ policies \in PolicyRows
        /\ cycles \in [Cycles -> CycleRow]
        /\ \A c \in Cycles : InOrder(cycles[c])

-----------------------------------------------------------------------------
\* What the operators of the exchange return

LEMMA StatusType ==
    ASSUME NEW o, NEW row, NEW d, NEW rows, NEW open
    PROVE  /\ StatusFor(o, row) \in ObligationStatus
           /\ DealStatusFor(d, rows, open) \in DealStatus
  BY DEF StatusFor, ObligationStatus, Operable, DealStatusFor, DealStatus

DealRows == [Deals -> [status : DealStatus, terms : Nat]]

\* Refreshing the status of a deal leaves its terms alone.
LEMMA RefreshKeepsTerms ==
    ASSUME deals \in DealRows, NEW D, RefreshDeals(D)
    PROVE  /\ deals' \in DealRows
           /\ \A d \in Deals : deals'[d].terms = deals[d].terms
  <1>1. \A d \in Deals : LET r == [deals[d] EXCEPT !.status = DealStatusFor(d, obligations', disputes')]
                         IN  r \in [status : DealStatus, terms : Nat] /\ r.terms = deals[d].terms
    BY StatusType DEF DealRows
  <1> QED BY <1>1 DEF DealRows, RefreshDeals

\* What every command but confirm_deal leaves of the obligations: none comes into being, none is
\* written from other terms, and no more is taken of it than is there.
Carries ==
    /\ confirmations \subseteq confirmations'
    /\ \A o \in Obligations : Exists(o)' => Exists(o) /\ obligations'[o].terms = obligations[o].terms
    /\ NeverOverdrawn'

LEMMA ReviseStep ==
    ASSUME ExchangeTypeOK, Consistent, NeverOverdrawn, NEW d \in Deals, ReviseDeal(d)
    PROVE  ExchangeTypeOK' /\ Consistent' /\ Carries
  <1>1. deals' \in DealRows /\ \A e \in Deals : deals'[e].terms = IF e = d THEN deals[d].terms + 1 ELSE deals[e].terms
    BY DEF ExchangeTypeOK, DealRows, ReviseDeal
  <1>2. Len(Revisions[d]) \in Nat
    BY TermsAssumption
  <1>3. Consistent'
    BY <1>1, <1>2 DEF Consistent, ReviseDeal, ExchangeTypeOK
  <1> QED BY <1>1, <1>3 DEF ExchangeTypeOK, DealRows, ReviseDeal, Carries, NeverOverdrawn, Remaining, Exists

LEMMA TickStep ==
    ASSUME ExchangeTypeOK, Consistent, NeverOverdrawn, Tick
    PROVE  ExchangeTypeOK' /\ Consistent' /\ Carries
  BY DEF ExchangeTypeOK, Tick, Carries, NeverOverdrawn, Remaining, Exists, Consistent

\* A row of an obligation that was written keeps its terms and takes no more than is there.
Sound(o, row) == /\ row \in ObligationRow /\ row.terms = obligations[o].terms
                 /\ row.status = "ABSENT" => obligations[o].status = "ABSENT"
                 /\ row.status # "ABSENT" => obligations[o].status # "ABSENT"
                 /\ Remaining(o, row) >= 0

\* A command that writes sound rows carries the obligations on.
LEMMA SoundRowsCarry ==
    ASSUME confirmations \subseteq confirmations', DOMAIN obligations' = Obligations,
           obligations' = [o \in DOMAIN obligations' |-> obligations'[o]],
           \A o \in Obligations : Sound(o, obligations'[o])
    PROVE  Carries /\ obligations' \in [Obligations -> ObligationRow]
  BY DEF Carries, Sound, Exists, NeverOverdrawn, Remaining

LEMMA UntouchedSound ==
    ASSUME ExchangeTypeOK, NeverOverdrawn
    PROVE  \A o \in Obligations : Sound(o, obligations[o])
  BY DEF Sound, ExchangeTypeOK, NeverOverdrawn

LEMMA SubmitStep ==
    ASSUME ExchangeTypeOK, Consistent, NeverOverdrawn,
           NEW o \in Obligations, NEW k \in Slots, NEW q \in 1..Terms[o].total, SubmitFulfillment(o, k, q)
    PROVE  ExchangeTypeOK' /\ Consistent' /\ Carries
  <1> DEFINE row == [obligations[o] EXCEPT !.submitted = @ + q, !.version = @ + 1]
  <1>1. Terms[o].total \in Nat /\ q \in Nat
    BY TermsAssumption DEF Line
  <1>2. obligations[o] \in ObligationRow /\ q <= Remaining(o, obligations[o]) /\ obligations[o].status # "ABSENT"
    BY <1>1 DEF SubmitFulfillment, ExchangeTypeOK, MayWrite, Exists, Remaining, ObligationRow
  <1>3. Sound(o, row)
    <2>1. obligations[o].submitted + q \in Nat /\ obligations[o].version + 1 \in Nat
      BY <1>1, <1>2 DEF ObligationRow
    <2>2. /\ row \in ObligationRow /\ row.terms = obligations[o].terms
          /\ row.status = obligations[o].status /\ row.submitted = obligations[o].submitted + q
          /\ row.fulfilled = obligations[o].fulfilled /\ row.cleared = obligations[o].cleared
      BY <1>2, <2>1 DEF ObligationRow
    <2>3. Remaining(o, row) >= 0
      <3> HIDE DEF row
      <3> QED BY <1>1, <1>2, <2>2 DEF Remaining, ObligationRow
    <2> QED BY <2>2, <2>3 DEF Sound
  <1>4. obligations' = [obligations EXCEPT ![o] = row]
    BY DEF SubmitFulfillment
  <1>5. Carries /\ obligations' \in [Obligations -> ObligationRow]
    <2> HIDE DEF row
    <2>1. \A p \in Obligations : Sound(p, obligations'[p])
      BY <1>3, <1>4, UntouchedSound DEF ExchangeTypeOK
    <2> QED BY <1>4, <2>1, SoundRowsCarry DEF ExchangeTypeOK, SubmitFulfillment
  <1>6. fulfillments' \in [Obligations -> [Slots -> FulfillmentRow]]
    <2>1. [status |-> "SUBMITTED", quantity |-> q, accepted |-> 0] \in FulfillmentRow
      BY <1>1 DEF FulfillmentRow, FulfillmentStatus
    <2> QED BY <2>1 DEF SubmitFulfillment, ExchangeTypeOK
  <1> QED BY <1>5, <1>6 DEF ExchangeTypeOK, SubmitFulfillment, Consistent

LEMMA AcceptStep ==
    ASSUME ExchangeTypeOK, Consistent, NeverOverdrawn,
           NEW o \in Obligations, NEW k \in Slots, NEW a \in 0..Terms[o].total, AcceptFulfillment(o, k, a)
    PROVE  ExchangeTypeOK' /\ Consistent' /\ Carries
  <1> DEFINE f   == fulfillments[o][k]
             row == Performed(obligations[o], f.quantity, a)
             new == [row EXCEPT !.status = StatusFor(o, row)]
  <1>1. /\ Terms[o].total \in Nat /\ a \in Nat /\ f \in FulfillmentRow
        /\ f.quantity \in Nat /\ a <= f.quantity /\ f.quantity <= obligations[o].submitted
    <2>1. Terms[o].total \in Nat /\ a \in Nat
      BY TermsAssumption DEF Line
    <2>2. f \in FulfillmentRow
      BY DEF ExchangeTypeOK
    <2>3. f.quantity \in Nat
      BY <2>2 DEF FulfillmentRow
    <2>4. a <= f.quantity /\ f.quantity <= obligations[o].submitted
      BY <2>1, <2>3 DEF AcceptFulfillment
    <2> QED BY <2>1, <2>2, <2>3, <2>4
  <1>2. obligations[o] \in ObligationRow /\ obligations[o].status # "ABSENT"
    BY DEF AcceptFulfillment, ExchangeTypeOK, MayWrite, Exists
  <1>3. row \in ObligationRow /\ row.terms = obligations[o].terms /\ Remaining(o, row) >= 0
    <2>1. /\ obligations[o].submitted - f.quantity \in Nat /\ obligations[o].fulfilled + a \in Nat
          /\ obligations[o].version + 1 \in Nat
      BY <1>1, <1>2 DEF ObligationRow
    <2>2. /\ row \in ObligationRow /\ row.terms = obligations[o].terms
          /\ row.submitted = obligations[o].submitted - f.quantity
          /\ row.fulfilled = obligations[o].fulfilled + a /\ row.cleared = obligations[o].cleared
      BY <1>2, <2>1 DEF Performed, ObligationRow
    <2>3. Remaining(o, obligations[o]) >= 0
      BY DEF NeverOverdrawn
    <2>4. Remaining(o, row) >= 0
      <3> HIDE DEF row, f
      <3> QED BY <1>1, <1>2, <2>2, <2>3 DEF Remaining, ObligationRow
    <2> QED BY <2>2, <2>4
  <1>4. StatusFor(o, row) \in ObligationStatus /\ "ABSENT" \notin ObligationStatus
    BY StatusType DEF ObligationStatus, Operable
  <1>5. Sound(o, new)
    <2> HIDE DEF row
    <2> QED BY <1>2, <1>3, <1>4 DEF Sound, ObligationRow, Remaining
  <1>6. obligations' = [obligations EXCEPT ![o] = new] /\ UNCHANGED confirmations
    BY DEF AcceptFulfillment
  <1>7. Carries /\ obligations' \in [Obligations -> ObligationRow]
    <2> HIDE DEF new
    <2>1. \A p \in Obligations : Sound(p, obligations'[p])
      BY <1>5, <1>6, UntouchedSound DEF ExchangeTypeOK
    <2> QED BY <1>6, <2>1, SoundRowsCarry DEF ExchangeTypeOK
  <1>8. fulfillments' \in [Obligations -> [Slots -> FulfillmentRow]]
    <2>1. Decision(f.quantity, a) \in FulfillmentStatus
      BY DEF Decision, FulfillmentStatus
    <2>2. [f EXCEPT !.status = Decision(f.quantity, a), !.accepted = a] \in FulfillmentRow
      BY <1>1, <2>1 DEF FulfillmentRow
    <2>3. fulfillments' = [fulfillments EXCEPT ![o][k] = [f EXCEPT !.status = Decision(f.quantity, a),
                                                                  !.accepted = a]]
      BY DEF AcceptFulfillment, ExchangeTypeOK
    <2> QED BY <2>2, <2>3 DEF ExchangeTypeOK
  <1>9. deals' \in DealRows /\ \A d \in Deals : deals'[d].terms = deals[d].terms
    BY RefreshKeepsTerms DEF AcceptFulfillment, ExchangeTypeOK, DealRows
  <1> QED BY <1>7, <1>8, <1>9 DEF ExchangeTypeOK, DealRows, AcceptFulfillment, Consistent

\* A new status and a new version leave a row sound.
LEMMA StatusWriteSound ==
    ASSUME ExchangeTypeOK, NeverOverdrawn, NEW o \in Obligations, NEW s \in ObligationStatus, Exists(o)
    PROVE  Sound(o, [obligations[o] EXCEPT !.status = s, !.version = @ + 1])
  <1> DEFINE row == [obligations[o] EXCEPT !.status = s, !.version = @ + 1]
  <1>1. obligations[o] \in ObligationRow /\ s # "ABSENT" /\ obligations[o].status # "ABSENT"
    BY DEF ExchangeTypeOK, ObligationStatus, Operable, Exists
  <1>2. obligations[o].version + 1 \in Nat
    BY <1>1 DEF ObligationRow
  <1>3. /\ row \in ObligationRow /\ row.terms = obligations[o].terms /\ row.status = s
        /\ row.submitted = obligations[o].submitted /\ row.fulfilled = obligations[o].fulfilled
        /\ row.cleared = obligations[o].cleared
    BY <1>1, <1>2 DEF ObligationRow
  <1>4. Remaining(o, row) = Remaining(o, obligations[o])
    <2> HIDE DEF row
    <2> QED BY <1>3 DEF Remaining
  <1> QED BY <1>1, <1>3, <1>4 DEF Sound, NeverOverdrawn

\* So does a new status of a fulfillment.
LEMMA FulfillmentStatusWrite ==
    ASSUME NEW f \in FulfillmentRow, NEW s \in FulfillmentStatus \union {"ABSENT"}
    PROVE  [f EXCEPT !.status = s] \in FulfillmentRow
  BY DEF FulfillmentRow

LEMMA OpenDisputeStep ==
    ASSUME ExchangeTypeOK, Consistent, NeverOverdrawn,
           NEW o \in Obligations, NEW k \in Slots \union {0}, OpenDispute(o, k)
    PROVE  ExchangeTypeOK' /\ Consistent' /\ Carries
  <1> DEFINE row  == [obligations[o] EXCEPT !.status = "DISPUTED", !.version = @ + 1]
             case == [open |-> TRUE, slot |-> k, obligationWas |-> obligations[o].status,
                      fulfillmentWas |-> IF k = 0 THEN "ABSENT" ELSE fulfillments[o][k].status]
  <1>1. Sound(o, row)
    BY StatusWriteSound DEF OpenDispute, MayWrite, ObligationStatus
  <1>2. obligations' = [obligations EXCEPT ![o] = row]
    BY DEF OpenDispute
  <1>3. Carries /\ obligations' \in [Obligations -> ObligationRow]
    <2> HIDE DEF row
    <2>1. \A p \in Obligations : Sound(p, obligations'[p])
      BY <1>1, <1>2, UntouchedSound DEF ExchangeTypeOK
    <2> QED BY <1>2, <2>1, SoundRowsCarry DEF ExchangeTypeOK, OpenDispute
  <1>4. disputes' \in [Obligations -> DisputeRow]
    <2>1. obligations[o].status \in ObligationStatus \union {"ABSENT"}
      BY DEF ExchangeTypeOK, ObligationRow
    <2>2. k # 0 => fulfillments[o][k].status \in FulfillmentStatus \union {"ABSENT"}
      BY DEF ExchangeTypeOK, FulfillmentRow
    <2>3. case \in DisputeRow
      BY <2>1, <2>2 DEF DisputeRow
    <2>4. disputes' = [disputes EXCEPT ![o] = case]
      BY DEF OpenDispute
    <2> QED BY <2>3, <2>4 DEF ExchangeTypeOK
  <1>5. fulfillments' \in [Obligations -> [Slots -> FulfillmentRow]]
    <2>1. CASE k = 0
      BY <2>1 DEF OpenDispute, ExchangeTypeOK
    <2>2. CASE k # 0
      <3>1. [fulfillments[o][k] EXCEPT !.status = "DISPUTED"] \in FulfillmentRow
        <4>1. fulfillments[o][k] \in FulfillmentRow /\ "DISPUTED" \in FulfillmentStatus
          BY <2>2 DEF ExchangeTypeOK, FulfillmentStatus
        <4> QED BY <4>1, FulfillmentStatusWrite
      <3>2. fulfillments' = [fulfillments EXCEPT ![o][k] = [fulfillments[o][k] EXCEPT !.status = "DISPUTED"]]
        BY <2>2 DEF OpenDispute, ExchangeTypeOK
      <3> QED BY <3>1, <3>2 DEF ExchangeTypeOK
    <2> QED BY <2>1, <2>2
  <1>6. deals' \in DealRows /\ \A d \in Deals : deals'[d].terms = deals[d].terms
    BY TermsAssumption DEF OpenDispute, ExchangeTypeOK, DealRows, DealStatus
  <1>7. Consistent'
    <2>1. obligations[o].status \in ObligationStatus
      BY DEF OpenDispute, MayWrite, Exists, ExchangeTypeOK, ObligationRow
    <2>2. \A p \in Obligations : disputes'[p] = IF p = o THEN case ELSE disputes[p]
      BY DEF OpenDispute, ExchangeTypeOK
    <2> QED BY <1>6, <2>1, <2>2 DEF Consistent
  <1> QED BY <1>3, <1>4, <1>5, <1>6, <1>7 DEF ExchangeTypeOK, DealRows, OpenDispute

LEMMA ResolveDisputeStep ==
    ASSUME ExchangeTypeOK, Consistent, NeverOverdrawn,
           NEW o \in Obligations, NEW action \in Resolutions, ResolveDispute(o, action)
    PROVE  ExchangeTypeOK' /\ Consistent' /\ Carries
  <1> DEFINE case == disputes[o]
             to   == Resolved(action, case.obligationWas)
             row  == [obligations[o] EXCEPT !.status = to, !.version = @ + 1]
  <1>1. case \in DisputeRow
    BY DEF ExchangeTypeOK
  <1>2. Exists(o)
    BY DEF ResolveDispute, MayWrite
  <1>3. CASE to \in ObligationStatus
    <2>1. Sound(o, row)
      BY <1>2, <1>3, StatusWriteSound
    <2>2. obligations' = [obligations EXCEPT ![o] = row]
      BY DEF ResolveDispute
    <2>3. Carries /\ obligations' \in [Obligations -> ObligationRow]
      <3> HIDE DEF row
      <3>1. \A p \in Obligations : Sound(p, obligations'[p])
        BY <2>1, <2>2, UntouchedSound DEF ExchangeTypeOK
      <3> QED BY <2>2, <3>1, SoundRowsCarry DEF ExchangeTypeOK, ResolveDispute
    <2>4. disputes' \in [Obligations -> DisputeRow]
      BY DEF ResolveDispute, ExchangeTypeOK, NoDispute, DisputeRow
    <2>5. fulfillments' \in [Obligations -> [Slots -> FulfillmentRow]]
      <3>1. CASE case.slot = 0
        BY <3>1 DEF ResolveDispute, ExchangeTypeOK
      <3>2. CASE case.slot # 0
        <4> DEFINE new == [fulfillments[o][case.slot] EXCEPT !.status = case.fulfillmentWas]
        <4>1. case.slot \in Slots /\ case.fulfillmentWas \in FulfillmentStatus \union {"ABSENT"}
          BY <1>1, <3>2 DEF DisputeRow
        <4>2. new \in FulfillmentRow
          <5>1. fulfillments[o][case.slot] \in FulfillmentRow
            BY <4>1 DEF ExchangeTypeOK
          <5> QED BY <4>1, <5>1, FulfillmentStatusWrite
        <4>3. fulfillments' = [fulfillments EXCEPT ![o][case.slot] = new]
          BY <3>2, <4>1 DEF ResolveDispute, ExchangeTypeOK
        <4> QED BY <4>1, <4>2, <4>3 DEF ExchangeTypeOK
      <3> QED BY <3>1, <3>2
    <2>6. deals' \in DealRows /\ \A d \in Deals : deals'[d].terms = deals[d].terms
      BY RefreshKeepsTerms DEF ResolveDispute, ExchangeTypeOK, DealRows
    <2>7. Consistent'
      <3>1. \A p \in Obligations : disputes'[p] = IF p = o THEN NoDispute ELSE disputes[p]
        BY DEF ResolveDispute, ExchangeTypeOK
      <3> QED BY <2>6, <3>1 DEF Consistent, NoDispute
    <2> QED BY <2>3, <2>4, <2>5, <2>6, <2>7 DEF ExchangeTypeOK, DealRows, ResolveDispute
  <1>4. to \in ObligationStatus
    BY <1>1 DEF Resolved, ResolveDispute, Consistent, Resolutions, ObligationStatus, Operable
  <1> QED BY <1>3, <1>4

LEMMA OverdueStep ==
    ASSUME ExchangeTypeOK, Consistent, NeverOverdrawn,
           NEW asOf, NEW S \in SUBSET Obligations, MarkOverdue(asOf, S)
    PROVE  ExchangeTypeOK' /\ Consistent' /\ Carries
  <1> DEFINE row(o) == [obligations[o] EXCEPT !.status = "OVERDUE", !.version = @ + 1]
  <1>1. \A o \in S : Sound(o, row(o))
    BY StatusWriteSound DEF MarkOverdue, Exists, ObligationStatus, Operable
  <1>2. obligations' = [o \in Obligations |-> IF o \in S THEN row(o) ELSE obligations[o]]
    BY DEF MarkOverdue
  <1>3. Carries /\ obligations' \in [Obligations -> ObligationRow]
    <2> HIDE DEF row
    <2>1. \A p \in Obligations : Sound(p, obligations'[p])
      BY <1>1, <1>2, UntouchedSound
    <2> QED BY <1>2, <2>1, SoundRowsCarry DEF MarkOverdue
  <1> QED BY <1>3 DEF ExchangeTypeOK, MarkOverdue, Consistent

\* Obligations that are carried on stay confirmed.
LEMMA CarriedStaysConfirmed ==
    ASSUME BoundByOwnConfirmation, Carries
    PROVE  BoundByOwnConfirmation'
  BY DEF BoundByOwnConfirmation, Carries, Exists

\* The obligations that a confirmation brings into being are confirmed by every party to them.
LEMMA ConfirmStep ==
    ASSUME ExchangeTypeOK, Consistent, NeverOverdrawn, BoundByOwnConfirmation,
           NEW d \in Deals, NEW m \in Members, NEW v \in 1..deals[d].terms, ConfirmDeal(d, v, m)
    PROVE  ExchangeTypeOK' /\ Consistent' /\ NeverOverdrawn' /\ BoundByOwnConfirmation'
  <1> DEFINE new == [NoObligation EXCEPT !.status = "ACTIVE", !.terms = v, !.version = 1]
  <1>1. v \in Nat /\ v \in DOMAIN Revisions[d] /\ \A o \in Revisions[d][v] : Terms[o].deal = d
    <2>1. deals[d].terms \in 1..Len(Revisions[d]) /\ deals[d].terms = v
      BY DEF Consistent, ConfirmDeal
    <2>2. Revisions[d] \in Seq((SUBSET Obligations) \ {{}})
      BY TermsAssumption
    <2>3. v \in Nat /\ v \in DOMAIN Revisions[d]
      BY <2>1, <2>2
    <2> QED BY <2>3, TermsAssumption
  <1>2. confirmations' = confirmations \union {<<d, v, m>>} /\ confirmations' \subseteq Deals \X Nat \X Members
    BY <1>1 DEF ConfirmDeal, ExchangeTypeOK
  <1>3. /\ new \in ObligationRow /\ new.terms = v /\ new.status = "ACTIVE"
        /\ \A o \in Obligations : Remaining(o, new) >= 0
    <2>1. /\ NoObligation \in ObligationRow /\ NoObligation.submitted = 0
          /\ NoObligation.fulfilled = 0 /\ NoObligation.cleared = 0
      BY DEF NoObligation, ObligationRow
    <2>2. new \in ObligationRow /\ new.terms = v /\ new.status = "ACTIVE"
      <3> HIDE DEF NoObligation
      <3> QED BY <1>1, <2>1 DEF ObligationRow, ObligationStatus, Operable
    <2>3. new.submitted = 0 /\ new.fulfilled = 0 /\ new.cleared = 0
      <3> HIDE DEF NoObligation
      <3> QED BY <2>1 DEF ObligationRow
    <2>4. \A o \in Obligations : Terms[o].total \in Nat
      BY TermsAssumption DEF Line
    <2>5. \A o \in Obligations : Remaining(o, new) >= 0
      <3> HIDE DEF new
      <3> QED BY <2>3, <2>4 DEF Remaining
    <2> QED BY <2>2, <2>5
  <1>4. CASE ConfirmedBy(d, v) \union {m} = PartiesTo(d, v)
    <2>1. obligations' = [o \in Obligations |-> IF o \in Revisions[d][v] THEN new ELSE obligations[o]]
      BY <1>4 DEF ConfirmDeal
    <2>2. obligations' \in [Obligations -> ObligationRow] /\ NeverOverdrawn'
      <3> HIDE DEF new
      <3> QED BY <1>3, <2>1 DEF NeverOverdrawn, Remaining, ExchangeTypeOK
    <2>3. deals' \in DealRows /\ \A e \in Deals : deals'[e].terms = deals[e].terms
      <3> DEFINE row == [deals[d] EXCEPT !.status = "ACTIVE"]
      <3>1. deals \in DealRows
        BY DEF ExchangeTypeOK, DealRows
      <3>2. deals[d] \in [status : DealStatus, terms : Nat]
        BY <3>1 DEF DealRows
      <3>3. row \in [status : DealStatus, terms : Nat] /\ row.terms = deals[d].terms
        BY <3>2 DEF DealStatus
      <3>4. deals' = [deals EXCEPT ![d] = row]
        BY <1>4 DEF ConfirmDeal
      <3> HIDE DEF row
      <3> QED BY <3>1, <3>3, <3>4 DEF DealRows
    <2>4. BoundByOwnConfirmation'
      <3> SUFFICES ASSUME NEW o \in Obligations, Exists(o)',
                          NEW p \in PartiesTo(Terms[o].deal, obligations'[o].terms)
                   PROVE  <<Terms[o].deal, obligations'[o].terms, p>> \in confirmations'
        BY DEF BoundByOwnConfirmation
      <3>1. CASE o \in Revisions[d][v]
        <4>1. Terms[o].deal = d /\ obligations'[o].terms = v
          BY <1>1, <1>3, <2>1, <3>1
        <4>2. p \in ConfirmedBy(d, v) \union {m}
          BY <1>4, <4>1
        <4> QED BY <1>2, <4>1, <4>2 DEF ConfirmedBy
      <3>2. CASE o \notin Revisions[d][v]
        BY <1>2, <2>1, <3>2 DEF BoundByOwnConfirmation, Exists
      <3> QED BY <3>1, <3>2
    <2> QED BY <1>2, <2>2, <2>3, <2>4 DEF ExchangeTypeOK, DealRows, ConfirmDeal, Consistent
  <1>5. CASE ConfirmedBy(d, v) \union {m} # PartiesTo(d, v)
    <2>1. UNCHANGED <<deals, obligations, now, fulfillments, disputes>>
      BY <1>5 DEF ConfirmDeal
    <2> QED BY <1>2, <2>1 DEF ExchangeTypeOK, Consistent, NeverOverdrawn, Remaining,
                              BoundByOwnConfirmation, Exists
  <1> QED BY <1>4, <1>5

LEMMA ExchangeInitial == ASSUME ExchangeInit PROVE ExchangeInv
  <1>1. \A o \in Obligations : Terms[o].total \in Nat
    BY TermsAssumption DEF Line
  <1>2. \A d \in Deals : 1 \in 1..Len(Revisions[d])
    BY TermsAssumption
  <1>3. NoObligation \in ObligationRow /\ NoFulfillment \in FulfillmentRow /\ NoDispute \in DisputeRow
    BY DEF NoObligation, ObligationRow, NoFulfillment, FulfillmentRow, NoDispute, DisputeRow
  <1>4. ExchangeTypeOK
    BY <1>3 DEF ExchangeInit, ExchangeTypeOK, DealStatus
  <1> QED BY <1>1, <1>2, <1>4 DEF ExchangeInit, ExchangeInv, Consistent, NeverOverdrawn, Remaining,
                                 BoundByOwnConfirmation, Exists, NoObligation, NoDispute

LEMMA ExchangeStep == ASSUME ExchangeInv, ExchangeNext PROVE ExchangeInv'
  <1> USE CarriedStaysConfirmed DEF ExchangeInv
  <1>1. ASSUME Tick PROVE ExchangeInv'
    BY <1>1, TickStep DEF Carries
  <1>2. ASSUME NEW d \in Deals, ReviseDeal(d) PROVE ExchangeInv'
    BY <1>2, ReviseStep DEF Carries
  <1>3. ASSUME NEW d \in Deals, NEW m \in Members, NEW v \in 1..deals[d].terms, ConfirmDeal(d, v, m)
        PROVE  ExchangeInv'
    BY <1>3, ConfirmStep
  <1>4. ASSUME NEW o \in Obligations, NEW k \in Slots, NEW q \in 1..Terms[o].total,
               SubmitFulfillment(o, k, q)
        PROVE  ExchangeInv'
    BY <1>4, SubmitStep DEF Carries
  <1>5. ASSUME NEW o \in Obligations, NEW k \in Slots, NEW a \in 0..Terms[o].total,
               AcceptFulfillment(o, k, a)
        PROVE  ExchangeInv'
    BY <1>5, AcceptStep DEF Carries
  <1>6. ASSUME NEW o \in Obligations, NEW k \in Slots \union {0}, OpenDispute(o, k) PROVE ExchangeInv'
    BY <1>6, OpenDisputeStep DEF Carries
  <1>7. ASSUME NEW o \in Obligations, NEW action \in Resolutions, ResolveDispute(o, action)
        PROVE  ExchangeInv'
    BY <1>7, ResolveDisputeStep DEF Carries
  <1>8. ASSUME NEW asOf, NEW S \in SUBSET Obligations, MarkOverdue(asOf, S) PROVE ExchangeInv'
    BY <1>8, OverdueStep DEF Carries
  <1> QED BY <1>1, <1>2, <1>3, <1>4, <1>5, <1>6, <1>7, <1>8 DEF ExchangeNext
-----------------------------------------------------------------------------
\* Clearing

\* A command that puts a cycle in order leaves the cycles in order.
LEMMA CycleWrite ==
    ASSUME cycles \in [Cycles -> CycleRow], \A e \in Cycles : InOrder(cycles[e]),
           NEW c \in Cycles, NEW row, InOrder(row), cycles' = [cycles EXCEPT ![c] = row]
    PROVE  cycles' \in [Cycles -> CycleRow] /\ \A e \in Cycles : InOrder(cycles'[e])
  <1>1. row \in CycleRow
    BY DEF InOrder
  <1>2. \A e \in Cycles : cycles'[e] = IF e = c THEN row ELSE cycles[e]
    OBVIOUS
  <1> QED BY <1>1, <1>2

\* A new status alone keeps a row in order, unless it claims approvals, a finalizer or an
\* earlier phase.
LEMMA MoveOn ==
    ASSUME NEW row, InOrder(row), NEW s \in CycleStatus,
           s \in Early => row.status \in Early,
           s \in {"READY_TO_FINALIZE", "FINALIZED", "RECONCILED"}
              => Cardinality(row.approvals) >= RequiredApprovals,
           s \in {"FINALIZED", "RECONCILED"} => row.finalizer \notin {row.creator} \union row.approvals
    PROVE  InOrder([row EXCEPT !.status = s])
  <1> DEFINE new == [row EXCEPT !.status = s]
  <1>1. row \in CycleRow
    BY DEF InOrder
  <1>2. /\ new \in CycleRow /\ new.status = s /\ new.entries = row.entries /\ new.cleared = row.cleared
        /\ new.approvals = row.approvals /\ new.creator = row.creator /\ new.finalizer = row.finalizer
    BY <1>1 DEF CycleRow
  <1> HIDE DEF new
  <1>3. InterestedIn(new) = InterestedIn(row)
    BY <1>2 DEF InterestedIn
  <1>4. ResultWithinSnapshot(new)
    BY <1>2 DEF InOrder, ResultWithinSnapshot
  <1>5. RolesSeparated(new)
    BY <1>2, <1>3 DEF InOrder, RolesSeparated
  <1> QED BY <1>2, <1>4, <1>5 DEF InOrder, new

\* So does a write of the claims, the end of the window or the finalizer.
LEMMA ClaimsWrite ==
    ASSUME NEW row, InOrder(row), NEW D \in SUBSET DisputeAbout
    PROVE  InOrder([row EXCEPT !.disputes = D])
  <1> DEFINE new == [row EXCEPT !.disputes = D]
  <1>1. row \in CycleRow
    BY DEF InOrder
  <1>2. /\ new \in CycleRow /\ new.status = row.status /\ new.entries = row.entries
        /\ new.cleared = row.cleared /\ new.approvals = row.approvals /\ new.creator = row.creator
        /\ new.finalizer = row.finalizer
    BY <1>1 DEF CycleRow
  <1> HIDE DEF new
  <1>3. InterestedIn(new) = InterestedIn(row)
    BY <1>2 DEF InterestedIn
  <1>4. ResultWithinSnapshot(new) /\ RolesSeparated(new)
    BY <1>2, <1>3 DEF InOrder, ResultWithinSnapshot, RolesSeparated
  <1> QED BY <1>2, <1>4 DEF InOrder, new

CyclesInOrder == cycles \in [Cycles -> CycleRow] /\ \A c \in Cycles : InOrder(cycles[c])

LEMMA CreateStep ==
    ASSUME CyclesInOrder, NEW c \in Cycles, NEW p \in Policies, NEW m \in Members, CreateCycle(c, p, m)
    PROVE  CyclesInOrder'
  <1> DEFINE row == [cycles[c] EXCEPT !.status = "DRAFT", !.policy = p, !.creator = m]
  <1>1. cycles[c] \in CycleRow /\ cycles[c].status = "ABSENT" /\ InOrder(cycles[c])
    BY DEF CyclesInOrder, CreateCycle
  <1>2. /\ row \in CycleRow /\ row.status = "DRAFT" /\ row.entries = cycles[c].entries
        /\ row.cleared = cycles[c].cleared /\ row.approvals = cycles[c].approvals
    BY <1>1 DEF CycleRow, CycleStatus
  <1>3. cycles' = [cycles EXCEPT ![c] = row]
    BY DEF CreateCycle, CyclesInOrder
  <1> HIDE DEF row
  <1>4. ResultWithinSnapshot(row)
    BY <1>1, <1>2 DEF InOrder, ResultWithinSnapshot, Early
  <1>5. RolesSeparated(row)
    BY <1>1, <1>2 DEF InOrder, ResultWithinSnapshot, RolesSeparated, Early
  <1> QED BY <1>2, <1>3, <1>4, <1>5, CycleWrite DEF CyclesInOrder, InOrder

LEMMA CollectStep ==
    ASSUME CyclesInOrder, NEW c \in Cycles, Collect(c)
    PROVE  CyclesInOrder'
  <1>1. cycles[c].status \in Early /\ cycles' = [cycles EXCEPT ![c] = [cycles[c] EXCEPT !.status = "COLLECTING"]]
    BY DEF Collect, Step, Early
  <1>2. InOrder([cycles[c] EXCEPT !.status = "COLLECTING"])
    BY <1>1, MoveOn DEF CyclesInOrder, CycleStatus
  <1> QED BY <1>1, <1>2, CycleWrite DEF CyclesInOrder

\* A snapshot holds no more of an obligation than its debt.
LEMMA FreezeStep ==
    ASSUME ExchangeTypeOK, CyclesInOrder, NEW c \in Cycles, FreezeInput(c)
    PROVE  CyclesInOrder'
  <1> DEFINE row == [cycles[c] EXCEPT !.status = "INPUT_FROZEN", !.entries = InputEntries]
  <1>1. /\ cycles[c] \in CycleRow /\ InOrder(cycles[c]) /\ cycles[c].status \in Early
        /\ cycles' = [cycles EXCEPT ![c] = row]
    BY DEF FreezeInput, Step, Early, CyclesInOrder
  <1>2. \A o \in Candidates : /\ Outstanding(o) \in Nat \ {0} /\ Outstanding(o) <= Terms[o].total
                              /\ obligations[o].version \in Nat
    <2> SUFFICES ASSUME NEW o \in Candidates
                 PROVE  /\ Outstanding(o) \in Nat \ {0} /\ Outstanding(o) <= Terms[o].total
                        /\ obligations[o].version \in Nat
      OBVIOUS
    <2>1. o \in Obligations /\ Outstanding(o) > 0
      BY DEF Candidates
    <2>2. Terms[o].total \in Nat
      BY <2>1, TermsAssumption DEF Line
    <2>3. /\ obligations[o].fulfilled \in Nat /\ obligations[o].cleared \in Nat
          /\ obligations[o].version \in Nat
      BY <2>1 DEF ExchangeTypeOK, ObligationRow
    <2> QED BY <2>1, <2>2, <2>3 DEF Outstanding
  <1>3. \A o \in Candidates : InputEntries[o] \in Entry /\ InputEntries[o].amount <= Terms[o].total
    BY <1>2 DEF InputEntries, Entry, ReasonFor, Reasons
  <1>4. InputEntries \in [Candidates -> Entry] /\ Candidates \subseteq Obligations
    BY <1>3 DEF InputEntries, Candidates
  <1>5. InputEntries \in UNION {[S -> Entry] : S \in SUBSET Obligations} /\ DOMAIN InputEntries = Candidates
    BY <1>4
  <1>6. /\ row \in CycleRow /\ row.status = "INPUT_FROZEN" /\ row.entries = InputEntries
        /\ row.cleared = cycles[c].cleared /\ row.approvals = cycles[c].approvals
    <2> HIDE DEF InputEntries
    <2> QED BY <1>1, <1>5 DEF CycleRow, CycleStatus
  <1> HIDE DEF row
  <1>7. row.cleared = Empty /\ row.approvals = {}
    BY <1>1, <1>6 DEF InOrder, ResultWithinSnapshot
  <1>8. ResultWithinSnapshot(row)
    BY <1>3, <1>5, <1>6, <1>7 DEF ResultWithinSnapshot, Empty
  <1>9. RolesSeparated(row)
    BY <1>6, <1>7 DEF RolesSeparated
  <1> QED BY <1>1, <1>6, <1>8, <1>9, CycleWrite DEF CyclesInOrder, InOrder

\* A snapshot is an input of the calculation.
LEMMA SnapshotIsInput ==
    ASSUME NEW row, InOrder(row)
    PROVE  /\ InputOf(row.entries) \in Inputs
           /\ DOMAIN InputOf(row.entries) = DOMAIN row.entries
           /\ \A o \in DOMAIN row.entries :
                InputOf(row.entries)[o] = [amount |-> row.entries[o].amount,
                                           excluded |-> row.entries[o].reason # "INCLUDED"]
  <1> DEFINE entries == row.entries
  <1>1. PICK S \in SUBSET Obligations : entries \in [S -> Entry]
    BY DEF InOrder, CycleRow
  <1>2. \A o \in S : entries[o].amount \in 1..Terms[o].total
    <2> TAKE o \in S
    <2>1. entries[o].amount \in Nat \ {0}
      BY <1>1 DEF Entry
    <2>2. entries[o].amount <= Terms[o].total
      BY <1>1 DEF InOrder, ResultWithinSnapshot
    <2>3. Terms[o].total \in Nat
      BY <1>1, TermsAssumption DEF Line
    <2> QED BY <2>1, <2>2, <2>3
  <1>3. InputOf(entries) \in Inputs
    <2> DEFINE amounts == UNION {1..Terms[o].total : o \in Obligations}
    <2>1. InputOf(entries) \in [S -> [amount : amounts, excluded : BOOLEAN]]
      BY <1>1, <1>2 DEF InputOf
    <2> QED BY <2>1 DEF Inputs
  <1> QED BY <1>3 DEF InputOf

\* The calculation clears no more than the snapshot holds.
LEMMA PreviewStep ==
    ASSUME CyclesInOrder, NEW c \in Cycles, Preview(c)
    PROVE  CyclesInOrder'
  <1> DEFINE entries == cycles[c].entries
             result  == Netting(InputOf(entries))
             row     == [cycles[c] EXCEPT !.status = "PREVIEWED", !.cleared = result]
  <1>1. /\ cycles[c] \in CycleRow /\ InOrder(cycles[c]) /\ cycles[c].status \in Early
        /\ cycles' = [cycles EXCEPT ![c] = row]
    BY DEF Preview, Step, Early, CyclesInOrder
  <1>2. PICK S \in SUBSET Obligations : entries \in [S -> Entry]
    BY <1>1 DEF CycleRow
  <1>3. InputOf(entries) \in Inputs
    BY <1>1, SnapshotIsInput
  <1>4. DOMAIN InputOf(entries) = S /\ \A o \in S : InputOf(entries)[o].amount = entries[o].amount
    BY <1>2 DEF InputOf
  <1>5. result \in [S -> Nat] /\ \A o \in S : result[o] <= entries[o].amount
    <2> HIDE DEF entries
    <2> QED BY <1>3, <1>4, ClearingAssumption
  <1>6. /\ row \in CycleRow /\ row.status = "PREVIEWED" /\ row.entries = entries
        /\ row.cleared = result /\ row.approvals = cycles[c].approvals
    <2>1. result \in UNION {[R -> Nat] : R \in SUBSET Obligations}
      BY <1>5
    <2> HIDE DEF result
    <2> QED BY <1>1, <2>1 DEF CycleRow, CycleStatus
  <1> HIDE DEF row, result
  <1>7. row.approvals = {}
    BY <1>1, <1>6 DEF InOrder, ResultWithinSnapshot
  <1>8. ResultWithinSnapshot(row)
    BY <1>1, <1>2, <1>5, <1>6 DEF InOrder, ResultWithinSnapshot, Early
  <1>9. RolesSeparated(row)
    BY <1>6, <1>7 DEF RolesSeparated
  <1> QED BY <1>1, <1>6, <1>8, <1>9, CycleWrite DEF CyclesInOrder, InOrder, row

\* An approval is by a controller without a part in the result.
LEMMA ApproveStep ==
    ASSUME ExchangeTypeOK, CyclesInOrder, NEW c \in Cycles, NEW m \in Members, ApprovePreview(c, m)
    PROVE  CyclesInOrder'
  <1> DEFINE row  == [cycles[c] EXCEPT !.approvals = @ \union {m}]
             last == [row EXCEPT !.status = "DISPUTE_WINDOW", !.until = now + DisputeWindow]
  <1>1. /\ cycles[c] \in CycleRow /\ InOrder(cycles[c]) /\ cycles[c].status = "PREVIEWED"
        /\ m # cycles[c].creator /\ m \notin Interested(c)
        /\ cycles' = [cycles EXCEPT ![c] = IF Cardinality(row.approvals) >= RequiredApprovals THEN last ELSE row]
    BY DEF ApprovePreview, Step, CyclesInOrder
  <1>2. /\ row \in CycleRow /\ row.status = "PREVIEWED" /\ row.entries = cycles[c].entries
        /\ row.cleared = cycles[c].cleared /\ row.approvals = cycles[c].approvals \union {m}
        /\ row.creator = cycles[c].creator
    BY <1>1 DEF CycleRow
  <1>3. now + DisputeWindow \in Nat
    BY ClearingAssumption DEF ExchangeTypeOK
  <1>4. /\ last \in CycleRow /\ last.status = "DISPUTE_WINDOW" /\ last.entries = cycles[c].entries
        /\ last.cleared = cycles[c].cleared /\ last.approvals = cycles[c].approvals \union {m}
        /\ last.creator = cycles[c].creator
    <2> HIDE DEF row
    <2> QED BY <1>2, <1>3 DEF CycleRow, CycleStatus
  <1>5. Interested(c) = InterestedIn(cycles[c])
    BY DEF Interested, InterestedIn, ClearedIn
  <1>6. ASSUME NEW new \in CycleRow, new.status \in {"PREVIEWED", "DISPUTE_WINDOW"},
               new.entries = cycles[c].entries, new.cleared = cycles[c].cleared,
               new.approvals = cycles[c].approvals \union {m}, new.creator = cycles[c].creator
        PROVE  InOrder(new)
    <2>1. InterestedIn(new) = InterestedIn(cycles[c])
      BY <1>6 DEF InterestedIn
    <2>2. ResultWithinSnapshot(new)
      BY <1>1, <1>6 DEF InOrder, ResultWithinSnapshot, Early
    <2>3. RolesSeparated(new)
      BY <1>1, <1>5, <1>6, <2>1 DEF InOrder, RolesSeparated
    <2> QED BY <2>2, <2>3 DEF InOrder
  <1> HIDE DEF row, last
  <1>7. InOrder(row) /\ InOrder(last)
    BY <1>2, <1>4, <1>6
  <1> QED BY <1>1, <1>7, CycleWrite DEF CyclesInOrder

LEMMA DisputeEntryStep ==
    ASSUME CyclesInOrder, NEW c \in Cycles, NEW o \in Obligations, DisputeEntry(c, o)
    PROVE  CyclesInOrder'
  <1> DEFINE D    == cycles[c].disputes \union {[entry |-> o, upheld |-> FALSE]}
             row  == [cycles[c] EXCEPT !.disputes = D]
             last == [row EXCEPT !.status = "DISPUTED"]
  <1>1. InOrder(cycles[c]) /\ cycles[c] \in CycleRow /\ cycles[c].status = "DISPUTE_WINDOW"
    BY DEF DisputeEntry, CyclesInOrder
  <1>2. D \in SUBSET DisputeAbout
    <2>1. [entry |-> o, upheld |-> FALSE] \in DisputeAbout
      BY DEF DisputeAbout
    <2>2. cycles[c].disputes \in SUBSET DisputeAbout
      BY <1>1 DEF CycleRow
    <2> QED BY <2>1, <2>2
  <1>3. InOrder(row)
    <2> HIDE DEF D
    <2> QED BY <1>1, <1>2, ClaimsWrite
  <1>4. InOrder(last)
    <2> HIDE DEF row
    <2> QED BY <1>3, MoveOn DEF CycleStatus, Early
  <1>5. last = [cycles[c] EXCEPT !.status = "DISPUTED", !.disputes = D]
    BY <1>1 DEF CycleRow
  <1>6. cycles' = [cycles EXCEPT ![c] = last]
    BY <1>5 DEF DisputeEntry, CyclesInOrder
  <1> HIDE DEF last
  <1> QED BY <1>4, <1>6, CycleWrite DEF CyclesInOrder

LEMMA DecideStep ==
    ASSUME CyclesInOrder, NEW c \in Cycles, NEW uphold \in BOOLEAN,
           NEW claim \in cycles[c].disputes, DecideDispute(c, claim, uphold)
    PROVE  CyclesInOrder'
  <1> DEFINE row      == cycles[c]
             rest     == row.disputes \ {claim}
             D        == rest \union {[claim EXCEPT !.upheld = TRUE]}
             s        == IF \A other \in rest : other.upheld THEN "DISPUTE_WINDOW" ELSE row.status
             upheld   == [row EXCEPT !.disputes = D]
             without  == [row EXCEPT !.disputes = rest]
             rejected == [row EXCEPT !.disputes = rest, !.status = s]
  <1>1. InOrder(row) /\ row \in CycleRow /\ row.status = "DISPUTED"
    BY DEF DecideDispute, CyclesInOrder
  <1>2. rest \in SUBSET DisputeAbout /\ claim \in DisputeAbout
    BY <1>1 DEF CycleRow
  <1>3. D \in SUBSET DisputeAbout
    <2>1. [claim EXCEPT !.upheld = TRUE] \in DisputeAbout
      BY <1>2 DEF DisputeAbout
    <2> QED BY <1>2, <2>1
  <1>4. cycles' = [cycles EXCEPT ![c] = IF uphold THEN upheld ELSE rejected]
    BY DEF DecideDispute, CyclesInOrder
  <1>5. InOrder(upheld)
    <2> HIDE DEF row, D
    <2> QED BY <1>1, <1>3, ClaimsWrite
  <1>6. InOrder(without) /\ without.status = "DISPUTED"
    <2> HIDE DEF row, rest
    <2>1. InOrder(without)
      BY <1>1, <1>2, ClaimsWrite
    <2> QED BY <1>1, <2>1 DEF CycleRow
  <1>7. InOrder(rejected)
    <2>1. s \in {"DISPUTE_WINDOW", "DISPUTED"}
      BY <1>1
    <2>2. rejected = [without EXCEPT !.status = s]
      <3> HIDE DEF row, rest, s
      <3> QED BY <1>1 DEF CycleRow
    <2> HIDE DEF without, s
    <2>3. InOrder([without EXCEPT !.status = s])
      BY <1>6, <2>1, MoveOn DEF CycleStatus, Early
    <2> QED BY <2>2, <2>3
  <1> HIDE DEF upheld, rejected
  <1> QED BY <1>4, <1>5, <1>7, CycleWrite DEF CyclesInOrder

LEMMA MarkReadyStep ==
    ASSUME CyclesInOrder, NEW c \in Cycles, MarkReady(c)
    PROVE  CyclesInOrder'
  <1>1. /\ InOrder(cycles[c]) /\ Cardinality(cycles[c].approvals) >= RequiredApprovals
        /\ cycles' = [cycles EXCEPT ![c] = [cycles[c] EXCEPT !.status = "READY_TO_FINALIZE"]]
    BY DEF MarkReady, Step, CyclesInOrder
  <1>2. InOrder([cycles[c] EXCEPT !.status = "READY_TO_FINALIZE"])
    BY <1>1, MoveOn DEF CycleStatus, Early
  <1> QED BY <1>1, <1>2, CycleWrite DEF CyclesInOrder

LEMMA ReconcileStep ==
    ASSUME CyclesInOrder, NEW c \in Cycles, Reconcile(c)
    PROVE  CyclesInOrder'
  <1>1. /\ InOrder(cycles[c]) /\ cycles[c].status = "FINALIZED"
        /\ cycles' = [cycles EXCEPT ![c] = [cycles[c] EXCEPT !.status = "RECONCILED"]]
    BY DEF Reconcile, CyclesInOrder
  <1>2. InOrder([cycles[c] EXCEPT !.status = "RECONCILED"])
    BY <1>1, MoveOn DEF CycleStatus, Early, InOrder, RolesSeparated
  <1> QED BY <1>1, <1>2, CycleWrite DEF CyclesInOrder

\* Finalize: the cycle gets a finalizer that had no other part in it ...
LEMMA FinalizeCycle ==
    ASSUME CyclesInOrder, NEW c \in Cycles, NEW m \in Members, Finalize(c, m)
    PROVE  CyclesInOrder'
  <1> DEFINE row == [cycles[c] EXCEPT !.status = "FINALIZED", !.finalizer = m]
  <1>1. /\ InOrder(cycles[c]) /\ cycles[c] \in CycleRow /\ cycles[c].status = "READY_TO_FINALIZE"
        /\ m \notin {cycles[c].creator} \union cycles[c].approvals
        /\ cycles' = [cycles EXCEPT ![c] = row]
    BY DEF Finalize, MayFinalize, CyclesInOrder
  <1>2. /\ row \in CycleRow /\ row.status = "FINALIZED" /\ row.entries = cycles[c].entries
        /\ row.cleared = cycles[c].cleared /\ row.approvals = cycles[c].approvals
        /\ row.creator = cycles[c].creator /\ row.finalizer = m
    BY <1>1 DEF CycleRow, CycleStatus
  <1> HIDE DEF row
  <1>3. InterestedIn(row) = InterestedIn(cycles[c])
    BY <1>2 DEF InterestedIn
  <1>4. ResultWithinSnapshot(row)
    BY <1>1, <1>2 DEF InOrder, ResultWithinSnapshot, Early
  <1>5. RolesSeparated(row)
    BY <1>1, <1>2, <1>3 DEF InOrder, RolesSeparated
  <1> QED BY <1>1, <1>2, <1>4, <1>5, CycleWrite DEF CyclesInOrder, InOrder

\* ... and, as its input is what it froze, clears no more than remains.
LEMMA FinalizeObligations ==
    ASSUME ExchangeInv, CyclesInOrder, NEW c \in Cycles, NEW m \in Members, Finalize(c, m)
    PROVE  ExchangeInv'
  <1> DEFINE amount(o) == cycles[c].cleared[o]
             row(o)    == ClearedRow(obligations[o], amount(o))
             new(o)    == [row(o) EXCEPT !.status = StatusFor(o, row(o))]
  <1>1. InOrder(cycles[c]) /\ cycles[c] \in CycleRow /\ InputUnchanged(c)
    BY DEF Finalize, CyclesInOrder
  <1>2. \A o \in ClearedIn(c) : /\ o \in Obligations /\ amount(o) \in Nat
                                /\ amount(o) <= Remaining(o, obligations[o])
                                /\ obligations[o].status \in Operable
    <2> SUFFICES ASSUME NEW o \in ClearedIn(c)
                 PROVE  /\ o \in Obligations /\ amount(o) \in Nat
                        /\ amount(o) <= Remaining(o, obligations[o])
                        /\ obligations[o].status \in Operable
      OBVIOUS
    <2>1. o \in DOMAIN cycles[c].cleared
      BY DEF ClearedIn
    <2>2. o \in Obligations /\ amount(o) \in Nat
      BY <1>1, <2>1 DEF CycleRow
    <2>3. o \in DOMAIN cycles[c].entries /\ amount(o) <= cycles[c].entries[o].amount
      BY <1>1, <2>1 DEF InOrder, ResultWithinSnapshot
    <2>4. Unchanged(o, cycles[c].entries[o])
      BY <1>1, <2>3 DEF InputUnchanged
    <2> QED BY <2>2, <2>3, <2>4 DEF Unchanged
  <1>3. \A o \in ClearedIn(c) : Sound(o, new(o))
    <2> SUFFICES ASSUME NEW o \in ClearedIn(c) PROVE Sound(o, new(o))
      OBVIOUS
    <2>1. o \in Obligations /\ obligations[o] \in ObligationRow /\ obligations[o].status # "ABSENT"
      BY <1>2 DEF ExchangeInv, ExchangeTypeOK, Operable
    <2>2. /\ row(o) \in ObligationRow /\ row(o).terms = obligations[o].terms
          /\ row(o).submitted = obligations[o].submitted /\ row(o).fulfilled = obligations[o].fulfilled
          /\ row(o).cleared = obligations[o].cleared + amount(o)
      <3>1. obligations[o].cleared + amount(o) \in Nat /\ obligations[o].version + 1 \in Nat
        BY <1>2, <2>1 DEF ObligationRow
      <3> HIDE DEF amount
      <3> QED BY <2>1, <3>1 DEF ClearedRow, ObligationRow
    <2>3. Remaining(o, row(o)) >= 0
      <3>1. Terms[o].total \in Nat
        BY <2>1, TermsAssumption DEF Line
      <3>2. amount(o) \in Nat /\ amount(o) <= Remaining(o, obligations[o])
        BY <1>2
      <3> HIDE DEF row, amount
      <3> QED BY <2>1, <2>2, <3>1, <3>2 DEF Remaining, ObligationRow
    <2>4. StatusFor(o, row(o)) \in ObligationStatus /\ "ABSENT" \notin ObligationStatus
      BY StatusType DEF ObligationStatus, Operable
    <2> HIDE DEF row
    <2> QED BY <2>1, <2>2, <2>3, <2>4 DEF Sound, ObligationRow, Remaining
  <1>4. obligations' = [o \in Obligations |-> IF o \in ClearedIn(c) THEN new(o) ELSE obligations[o]]
    BY DEF Finalize
  <1>5. Carries /\ obligations' \in [Obligations -> ObligationRow]
    <2> HIDE DEF new
    <2>1. \A p \in Obligations : Sound(p, obligations'[p])
      BY <1>3, <1>4, UntouchedSound DEF ExchangeInv
    <2> QED BY <1>4, <2>1, SoundRowsCarry DEF Finalize
  <1>6. deals' \in DealRows /\ \A d \in Deals : deals'[d].terms = deals[d].terms
    BY RefreshKeepsTerms DEF Finalize, ExchangeInv, ExchangeTypeOK, DealRows
  <1>7. BoundByOwnConfirmation'
    BY <1>5, CarriedStaysConfirmed DEF ExchangeInv
  <1> QED BY <1>5, <1>6, <1>7 DEF ExchangeInv, ExchangeTypeOK, DealRows, Finalize, Consistent, Carries

\* Commands on policies touch neither cycles nor obligations.
LEMMA PolicyStep ==
    ASSUME IInv, NEW p \in Policies, NEW m \in Members, ProposePolicy(p, m) \/ ApprovePolicy(p, m)
    PROVE  policies' \in PolicyRows
  <1>1. \A r \in Policies : policies[r] \in [status : {"ABSENT", "PROPOSED", "ACTIVE", "SUPERSEDED"},
                                             proposer : Members \union {Nobody}]
    BY DEF IInv, PolicyRows
  <1>2. CASE ProposePolicy(p, m)
    BY <1>2 DEF IInv, ProposePolicy, PolicyRows
  <1>3. CASE ApprovePolicy(p, m)
    <2>1. \A r \in Policies, s \in {"ACTIVE", "SUPERSEDED"} :
             [policies[r] EXCEPT !.status = s] \in [status : {"ABSENT", "PROPOSED", "ACTIVE", "SUPERSEDED"},
                                                    proposer : Members \union {Nobody}]
      BY <1>1
    <2> QED BY <1>1, <1>3, <2>1 DEF ApprovePolicy, PolicyRows
  <1> QED BY <1>2, <1>3

LEMMA InvInitial == ASSUME Init PROVE IInv
  <1>1. ExchangeInv
    BY ExchangeInitial DEF Init
  <1>2. policies \in PolicyRows
    BY DEF Init, PolicyRows
  <1>3. NoCycle \in CycleRow
    <2>1. /\ Empty \in UNION {[S -> Entry] : S \in SUBSET Obligations}
          /\ Empty \in UNION {[S -> Nat] : S \in SUBSET Obligations}
      <3>1. Empty \in [{} -> Entry] /\ Empty \in [{} -> Nat]
        BY DEF Empty
      <3> QED BY <3>1
    <2> QED BY <2>1 DEF NoCycle, CycleRow
  <1>4. InOrder(NoCycle)
    <2>1. DOMAIN Empty = {}
      BY DEF Empty
    <2>2. /\ NoCycle.entries = Empty /\ NoCycle.cleared = Empty /\ NoCycle.approvals = {}
          /\ NoCycle.status = "ABSENT"
      BY DEF NoCycle
    <2>3. ResultWithinSnapshot(NoCycle) /\ RolesSeparated(NoCycle)
      BY <2>1, <2>2 DEF ResultWithinSnapshot, RolesSeparated
    <2> QED BY <1>3, <2>3 DEF InOrder
  <1>5. cycles \in [Cycles -> CycleRow] /\ \A c \in Cycles : InOrder(cycles[c])
    BY <1>3, <1>4 DEF Init
  <1> QED BY <1>1, <1>2, <1>5 DEF IInv

\* What the exchange's invariant says of the state is kept when its variables are.
LEMMA ExchangeUnchanged == ASSUME ExchangeInv, UNCHANGED exchangeVars PROVE ExchangeInv'
  BY DEF ExchangeInv, exchangeVars, ExchangeTypeOK, Consistent, NeverOverdrawn, Remaining,
         BoundByOwnConfirmation, Exists

LEMMA InvStep == ASSUME IInv, [Next]_vars PROVE IInv'
  <1> USE DEF IInv
  <1>1. CyclesInOrder
    BY DEF CyclesInOrder
  <1>2. ASSUME UNCHANGED vars PROVE IInv'
    <2>1. ExchangeInv'
      BY <1>2, ExchangeUnchanged DEF vars
    <2> QED BY <1>2, <2>1 DEF vars, clearingVars
  <1>3. ASSUME ExchangeNext, UNCHANGED clearingVars PROVE IInv'
    <2>1. ExchangeInv'
      BY <1>3, ExchangeStep
    <2> QED BY <1>3, <2>1 DEF clearingVars
  <1>4. ASSUME NEW p \in Policies, NEW m \in Members, ProposePolicy(p, m) \/ ApprovePolicy(p, m)
        PROVE  IInv'
    <2>1. UNCHANGED <<exchangeVars, cycles>>
      BY <1>4 DEF ProposePolicy, ApprovePolicy
    <2> QED BY <1>4, <2>1, PolicyStep, ExchangeUnchanged
  <1>5. ASSUME UNCHANGED <<exchangeVars, policies>>, CyclesInOrder' PROVE IInv'
    BY <1>5, ExchangeUnchanged DEF CyclesInOrder
  <1>6. ASSUME NEW c \in Cycles, NEW p \in Policies, NEW m \in Members, CreateCycle(c, p, m) PROVE IInv'
    BY <1>1, <1>5, <1>6, CreateStep DEF CreateCycle
  <1>7. ASSUME NEW c \in Cycles, Collect(c) PROVE IInv'
    BY <1>1, <1>5, <1>7, CollectStep DEF Collect, Step
  <1>8. ASSUME NEW c \in Cycles, FreezeInput(c) PROVE IInv'
    BY <1>1, <1>5, <1>8, FreezeStep DEF FreezeInput, Step, ExchangeInv
  <1>9. ASSUME NEW c \in Cycles, Preview(c) PROVE IInv'
    BY <1>1, <1>5, <1>9, PreviewStep DEF Preview, Step
  <1>10. ASSUME NEW c \in Cycles, MarkReady(c) PROVE IInv'
    BY <1>1, <1>5, <1>10, MarkReadyStep DEF MarkReady, Step
  <1>11. ASSUME NEW c \in Cycles, Reconcile(c) PROVE IInv'
    BY <1>1, <1>5, <1>11, ReconcileStep DEF Reconcile
  <1>12. ASSUME NEW c \in Cycles, NEW m \in Members, ApprovePreview(c, m) PROVE IInv'
    BY <1>1, <1>5, <1>12, ApproveStep DEF ApprovePreview, Step, ExchangeInv
  <1>13. ASSUME NEW c \in Cycles, NEW m \in Members, Finalize(c, m) PROVE IInv'
    <2>1. ExchangeInv' /\ CyclesInOrder'
      BY <1>1, <1>13, FinalizeObligations, FinalizeCycle
    <2> QED BY <1>13, <2>1 DEF Finalize, CyclesInOrder
  <1>14. ASSUME NEW c \in Cycles, NEW o \in Obligations, DisputeEntry(c, o) PROVE IInv'
    BY <1>1, <1>5, <1>14, DisputeEntryStep DEF DisputeEntry
  <1>15. ASSUME NEW c \in Cycles, NEW uphold \in BOOLEAN, NEW claim \in cycles[c].disputes,
                DecideDispute(c, claim, uphold)
         PROVE  IInv'
    BY <1>1, <1>5, <1>15, DecideStep DEF DecideDispute
  <1>16. ASSUME ClearingNext PROVE IInv'
    <2> HIDE DEF IInv
    <2> QED BY <1>4, <1>6, <1>7, <1>8, <1>9, <1>10, <1>11, <1>12, <1>13, <1>14, <1>15, <1>16
            DEF ClearingNext
  <1> QED BY <1>2, <1>3, <1>16 DEF Next

\* The invariant holds of every behaviour of deals, obligations and clearing cycles.
THEOREM LocalInvariant == Spec => []IInv
  BY InvInitial, InvStep, PTL DEF Spec

\* Every row keeps its shape: statuses are those of the state machines of the exchange, what is
\* submitted, performed and cleared is never negative, and a result concerns obligations only.
THEOREM LocalTypeCorrect == Spec => []TypeOK
  <1>1. IInv => TypeOK
    <2> SUFFICES ASSUME IInv PROVE TypeOK
      OBVIOUS
    <2>1. ASSUME NEW c \in Cycles
          PROVE  /\ cycles[c].status \in CycleStatus \union {"ABSENT"}
                 /\ cycles[c].approvals \subseteq Members
                 /\ cycles[c].disputes \subseteq DisputeAbout
                 /\ {cycles[c].creator, cycles[c].finalizer} \subseteq Members \union {Nobody}
                 /\ DOMAIN cycles[c].entries \subseteq Obligations
                 /\ \A o \in DOMAIN cycles[c].entries : cycles[c].entries[o] \in Entry
                 /\ cycles[c].cleared \in [DOMAIN cycles[c].cleared -> Nat]
      <3>1. cycles[c] \in CycleRow
        BY DEF IInv
      <3> QED BY <3>1 DEF CycleRow
    <2> QED BY <2>1 DEF IInv, ExchangeInv, PolicyRows, TypeOK
  <1> QED BY LocalInvariant, <1>1, PTL

\* Nobody is bound by terms he did not confirm (confirm_deal with _create_obligations), however
\* many deals, versions and parties there are.
THEOREM ConfirmedTermsBind == Spec => []BoundByOwnConfirmation
  <1>1. IInv => BoundByOwnConfirmation
    BY DEF IInv, ExchangeInv
  <1> QED BY LocalInvariant, <1>1, PTL

\* Performance and clearing together never take more of an obligation than is owed: finalize
\* rests on the versions and amounts that its snapshot froze, and on a calculation that clears
\* no more than the snapshot holds.
THEOREM DebtNeverOverdrawn == Spec => []NeverOverdrawn
  <1>1. IInv => NeverOverdrawn
    BY DEF IInv, ExchangeInv
  <1> QED BY LocalInvariant, <1>1, PTL

\* Nobody clears alone or in his own interest: creator, controllers and finalizer of a finalized
\* cycle differ, there are controllers enough, and none of them has a part in the result.
THEOREM ClearedByMany == Spec => []DutiesSeparated
  <1>1. IInv => DutiesSeparated
    <2> SUFFICES ASSUME IInv, NEW c \in Done
                 PROVE  /\ Cardinality(cycles[c].approvals) >= RequiredApprovals
                        /\ cycles[c].creator # cycles[c].finalizer
                        /\ {cycles[c].creator, cycles[c].finalizer} \intersect cycles[c].approvals = {}
                        /\ cycles[c].approvals \intersect Interested(c) = {}
      BY DEF DutiesSeparated
    <2>1. RolesSeparated(cycles[c]) /\ cycles[c].status \in {"FINALIZED", "RECONCILED"}
      BY DEF IInv, InOrder, Done
    <2>2. Interested(c) = InterestedIn(cycles[c])
      BY DEF Interested, InterestedIn, ClearedIn
    <2> QED BY <2>1, <2>2 DEF RolesSeparated
  <1> QED BY LocalInvariant, <1>1, PTL
-----------------------------------------------------------------------------
\* The status of a deal follows its obligations and their disputes.

\* What the status of a deal reads of an obligation is as it was.
SamePhase(o) ==
    /\ obligations'[o].status = "ABSENT" <=> obligations[o].status = "ABSENT"
    /\ obligations'[o].status = "DEFAULTED" <=> obligations[o].status = "DEFAULTED"
    /\ obligations'[o].status \in {"FULFILLED", "CLOSED"} <=> obligations[o].status \in {"FULFILLED", "CLOSED"}
    /\ obligations'[o].fulfilled = obligations[o].fulfilled /\ obligations'[o].cleared = obligations[o].cleared
    /\ disputes'[o].open <=> disputes[o].open

\* The obligations of a deal come into being when it leaves negotiation, and only they are disputed.
StatusInv ==
    /\ DealStatusAgrees
    /\ \A o \in Obligations : Exists(o) => deals[Terms[o].deal].status # "PROPOSED"
    /\ \A o \in Obligations : disputes[o].open => Exists(o)

LEMMA StatusOfPhases ==
    ASSUME NEW d \in Deals, \A o \in Obligations : Terms[o].deal = d => SamePhase(o)
    PROVE  DealStatusFor(d, obligations', disputes') = DealStatusFor(d, obligations, disputes)
<1> DEFINE mine(rows) == {o \in Obligations : Terms[o].deal = d /\ rows[o].status # "ABSENT"}
<1>1. mine(obligations') = mine(obligations)
  BY DEF SamePhase
<1>2. \A o \in mine(obligations) : SamePhase(o)
  OBVIOUS
<1>3. /\ (\E o \in mine(obligations) : disputes'[o].open) <=> (\E o \in mine(obligations) : disputes[o].open)
      /\ (\E o \in mine(obligations) : obligations'[o].status = "DEFAULTED")
            <=> (\E o \in mine(obligations) : obligations[o].status = "DEFAULTED")
      /\ (\A o \in mine(obligations) : obligations'[o].status \in {"FULFILLED", "CLOSED"})
            <=> (\A o \in mine(obligations) : obligations[o].status \in {"FULFILLED", "CLOSED"})
      /\ (\E o \in mine(obligations) : obligations'[o].fulfilled + obligations'[o].cleared > 0)
            <=> (\E o \in mine(obligations) : obligations[o].fulfilled + obligations[o].cleared > 0)
  <2> HIDE DEF mine
  <2> QED BY <1>2 DEF SamePhase
<1> QED BY <1>1, <1>3 DEF DealStatusFor

\* A command keeps the agreement if it refreshes every deal of which it moves an obligation.
LEMMA AgreementKept ==
    ASSUME StatusInv, NEW D,
           \A d \in Deals : deals'[d].status = IF d \in D THEN DealStatusFor(d, obligations', disputes')
                                                          ELSE deals[d].status,
           \A o \in Obligations : Terms[o].deal \in D \/ SamePhase(o),
           \A o \in Obligations : disputes'[o].open => Exists(o)'
    PROVE  StatusInv'
<1>1. \A d, rows, open : DealStatusFor(d, rows, open) # "PROPOSED"
  BY StatusType DEF DealStatus, DealStatusFor
<1>2. ASSUME NEW d \in Deals, deals'[d].status # "PROPOSED"
      PROVE  deals'[d].status = DealStatusFor(d, obligations', disputes')
  <2>1. CASE d \in D
    BY <2>1
  <2>2. CASE d \notin D
    <3>1. deals'[d].status = DealStatusFor(d, obligations, disputes)
      BY <1>2, <2>2 DEF StatusInv, DealStatusAgrees
    <3>2. \A o \in Obligations : Terms[o].deal = d => SamePhase(o)
      BY <2>2
    <3> QED BY <3>1, <3>2, StatusOfPhases
  <2> QED BY <2>1, <2>2
<1>3. ASSUME NEW o \in Obligations, Exists(o)'
      PROVE  deals'[Terms[o].deal].status # "PROPOSED"
  <2>1. Terms[o].deal \in Deals
    BY TermsAssumption DEF Line
  <2>2. CASE Terms[o].deal \in D
    BY <1>1, <2>1, <2>2
  <2>3. CASE Terms[o].deal \notin D
    BY <1>3, <2>1, <2>3 DEF StatusInv, SamePhase, Exists
  <2> QED BY <2>2, <2>3
<1> QED BY <1>2, <1>3 DEF StatusInv, DealStatusAgrees

LEMMA StatusConfirm ==
    ASSUME IInv, StatusInv, NEW d \in Deals, NEW m \in Members, NEW v \in 1..deals[d].terms, ConfirmDeal(d, v, m)
    PROVE  StatusInv'
<1>1. CASE UNCHANGED <<deals, obligations>>
  <2>1. UNCHANGED disputes
    BY DEF ConfirmDeal
  <2> QED BY <1>1, <2>1 DEF StatusInv, DealStatusAgrees, Exists
<1>2. CASE /\ deals' = [deals EXCEPT ![d].status = "ACTIVE"]
           /\ obligations' = [o \in Obligations |->
                IF o \in Revisions[d][v]
                THEN [NoObligation EXCEPT !.status = "ACTIVE", !.terms = v, !.version = 1]
                ELSE obligations[o]]
  <2>1. Revisions[d][v] \in (SUBSET Obligations) \ {{}} /\ \A o \in Revisions[d][v] : Terms[o].deal = d
    <3>1. v \in 1..Len(Revisions[d]) /\ Revisions[d] \in Seq((SUBSET Obligations) \ {{}})
      BY TermsAssumption DEF IInv, ExchangeInv, Consistent, ConfirmDeal
    <3> QED BY <3>1, TermsAssumption
  <2>2. deals[d].status = "PROPOSED" /\ UNCHANGED disputes
    BY DEF ConfirmDeal
  <2>3. \A o \in Obligations : Terms[o].deal = d => obligations[o].status = "ABSENT" /\ ~disputes[o].open
    BY <2>2 DEF StatusInv, Exists
  <2>4. \A o \in Revisions[d][v] : /\ obligations'[o].status = "ACTIVE"
                                   /\ obligations'[o].fulfilled = 0 /\ obligations'[o].cleared = 0
    BY <1>2, <2>1 DEF NoObligation
  <2>5. \A o \in Obligations : o \notin Revisions[d][v] => obligations'[o] = obligations[o]
    BY <1>2
  <2>6. DealStatusFor(d, obligations', disputes') = "ACTIVE"
    <3> DEFINE mine == {o \in Obligations : Terms[o].deal = d /\ obligations'[o].status # "ABSENT"}
    <3>1. mine = Revisions[d][v]
      BY <2>1, <2>3, <2>4, <2>5
    <3>2. mine # {} /\ \A o \in mine : /\ obligations'[o].status = "ACTIVE" /\ ~disputes'[o].open
                                       /\ obligations'[o].fulfilled = 0 /\ obligations'[o].cleared = 0
      BY <2>1, <2>2, <2>3, <2>4, <3>1
    <3>3. \A o \in mine : ~(obligations'[o].fulfilled + obligations'[o].cleared > 0)
      BY <3>2
    <3> QED BY <3>2, <3>3 DEF DealStatusFor
  <2>7. \A e \in Deals : deals'[e].status = IF e \in {d} THEN DealStatusFor(e, obligations', disputes')
                                                        ELSE deals[e].status
    BY <1>2, <2>6 DEF IInv, ExchangeInv, ExchangeTypeOK
  <2>8. \A o \in Obligations : Terms[o].deal \in {d} \/ SamePhase(o)
    BY <2>1, <2>2, <2>5 DEF SamePhase
  <2>9. \A o \in Obligations : disputes'[o].open => Exists(o)'
    BY <2>2, <2>3, <2>5, <2>1 DEF StatusInv, Exists
  <2> QED BY <2>7, <2>8, <2>9, AgreementKept
<1> QED BY <1>1, <1>2 DEF ConfirmDeal

\* A write of one obligation that refreshes its deal
LEMMA StatusRefreshed ==
    ASSUME IInv, StatusInv, NEW S \in SUBSET Obligations, RefreshDeals({Terms[o].deal : o \in S}),
           \A o \in Obligations \ S : obligations'[o] = obligations[o] /\ disputes'[o] = disputes[o],
           \A o \in S : Exists(o)'
    PROVE  StatusInv'
<1> DEFINE D == {Terms[o].deal : o \in S}
<1>1. \A d \in Deals : deals'[d].status = IF d \in D THEN DealStatusFor(d, obligations', disputes')
                                                     ELSE deals[d].status
  BY DEF RefreshDeals, IInv, ExchangeInv, ExchangeTypeOK
<1>2. \A o \in Obligations : Terms[o].deal \in D \/ SamePhase(o)
  BY DEF SamePhase
<1>3. \A o \in Obligations : disputes'[o].open => Exists(o)'
  BY DEF StatusInv, Exists
<1> HIDE DEF D
<1> QED BY <1>1, <1>2, <1>3, AgreementKept

LEMMA StatusAccept ==
    ASSUME IInv, StatusInv, NEW o \in Obligations, NEW k \in Slots, NEW a \in 0..Terms[o].total,
           AcceptFulfillment(o, k, a)
    PROVE  StatusInv'
<1> DEFINE row == Performed(obligations[o], fulfillments[o][k].quantity, a)
<1>1. obligations' = [obligations EXCEPT ![o] = [row EXCEPT !.status = StatusFor(o, row)]]
  BY DEF AcceptFulfillment
<1>2. "status" \in DOMAIN row
  <2>1. obligations[o] \in ObligationRow
    BY DEF IInv, ExchangeInv, ExchangeTypeOK
  <2> QED BY <2>1 DEF Performed, ObligationRow
<1>3. StatusFor(o, row) # "ABSENT"
  BY DEF StatusFor
<1> HIDE DEF row
<1>4. [row EXCEPT !.status = StatusFor(o, row)].status # "ABSENT"
  BY <1>2, <1>3
<1>5. obligations'[o].status # "ABSENT" /\ \A p \in Obligations \ {o} : obligations'[p] = obligations[p]
  BY <1>1, <1>4 DEF IInv, ExchangeInv, ExchangeTypeOK
<1>6. RefreshDeals({Terms[p].deal : p \in {o}}) /\ UNCHANGED disputes
  <2>1. {Terms[p].deal : p \in {o}} = {Terms[o].deal}
    OBVIOUS
  <2> QED BY <2>1 DEF AcceptFulfillment
<1>7. \A p \in {o} : Exists(p)'
  BY <1>5 DEF Exists
<1>8. \A p \in Obligations \ {o} : obligations'[p] = obligations[p] /\ disputes'[p] = disputes[p]
  BY <1>5, <1>6
<1>9. {o} \in SUBSET Obligations
  OBVIOUS
<1> QED BY <1>6, <1>7, <1>8, <1>9, StatusRefreshed

LEMMA StatusResolve ==
    ASSUME IInv, StatusInv, NEW o \in Obligations, NEW action \in Resolutions, ResolveDispute(o, action)
    PROVE  StatusInv'
<1> DEFINE status == Resolved(action, disputes[o].obligationWas)
<1>1. status # "ABSENT"
  BY DEF ResolveDispute, Resolved, IInv, ExchangeInv, Consistent, ObligationStatus, Operable
<1>2. /\ obligations' = [obligations EXCEPT ![o].status = status, ![o].version = @ + 1]
      /\ disputes' = [disputes EXCEPT ![o] = NoDispute]
  BY DEF ResolveDispute
<1>3. RefreshDeals({Terms[p].deal : p \in {o}})
  <2>1. {Terms[p].deal : p \in {o}} = {Terms[o].deal}
    OBVIOUS
  <2> QED BY <2>1 DEF ResolveDispute
<1> HIDE DEF status
<1>4. /\ obligations'[o].status # "ABSENT"
      /\ \A p \in Obligations \ {o} : obligations'[p] = obligations[p] /\ disputes'[p] = disputes[p]
  BY <1>1, <1>2 DEF IInv, ExchangeInv, ExchangeTypeOK, ObligationRow
<1>5. \A p \in {o} : Exists(p)'
  BY <1>4 DEF Exists
<1>6. {o} \in SUBSET Obligations
  OBVIOUS
<1> QED BY <1>3, <1>4, <1>5, <1>6, StatusRefreshed

LEMMA StatusOpen ==
    ASSUME IInv, StatusInv, NEW o \in Obligations, NEW k \in Slots \union {0}, OpenDispute(o, k)
    PROVE  StatusInv'
<1>1. /\ obligations'[o].status = "DISPUTED" /\ disputes'[o].open
      /\ \A p \in Obligations \ {o} : obligations'[p] = obligations[p] /\ disputes'[p] = disputes[p]
  BY DEF OpenDispute, IInv, ExchangeInv, ExchangeTypeOK, ObligationRow
<1>2. DealStatusFor(Terms[o].deal, obligations', disputes') = "DISPUTED"
  BY <1>1 DEF DealStatusFor
<1>3. \A d \in Deals : deals'[d].status = IF d \in {Terms[o].deal} THEN DealStatusFor(d, obligations', disputes')
                                                                    ELSE deals[d].status
  BY <1>2 DEF OpenDispute, IInv, ExchangeInv, ExchangeTypeOK
<1>4. \A p \in Obligations : Terms[p].deal \in {Terms[o].deal} \/ SamePhase(p)
  BY <1>1 DEF SamePhase
<1>5. \A p \in Obligations : disputes'[p].open => Exists(p)'
  BY <1>1 DEF StatusInv, Exists
<1> QED BY <1>3, <1>4, <1>5, AgreementKept

\* Commands that move no obligation leave the deals alone.
LEMMA StatusUntouched ==
    ASSUME StatusInv, \A o \in Obligations : SamePhase(o),
           \A d \in Deals : deals'[d].status = deals[d].status
    PROVE  StatusInv'
<1>1. \A o \in Obligations : disputes'[o].open => Exists(o)'
  BY DEF StatusInv, SamePhase, Exists
<1> DEFINE none == {}
<1>2. \A d \in Deals : d \notin none
  OBVIOUS
<1> HIDE DEF none
<1>3. \A d \in Deals : deals'[d].status = IF d \in none THEN DealStatusFor(d, obligations', disputes')
                                                        ELSE deals[d].status
  BY <1>2
<1> QED BY <1>1, <1>3, AgreementKept

LEMMA StatusOverdue ==
    ASSUME IInv, StatusInv, NEW asOf, NEW S \in SUBSET Obligations, MarkOverdue(asOf, S)
    PROVE  StatusInv'
<1> USE DEF IInv, ExchangeInv, ExchangeTypeOK
<1>1. \A p \in S : /\ obligations'[p].status = "OVERDUE"
                   /\ obligations[p].status \in {"ACTIVE", "PARTIALLY_FULFILLED"}
                   /\ obligations'[p].fulfilled = obligations[p].fulfilled
                   /\ obligations'[p].cleared = obligations[p].cleared
  BY DEF MarkOverdue, ObligationRow
<1>2. \A p \in Obligations \ S : obligations'[p] = obligations[p]
  BY DEF MarkOverdue
<1>3. UNCHANGED <<deals, disputes>>
  BY DEF MarkOverdue
<1> HIDE DEF IInv, ExchangeInv, ExchangeTypeOK
<1>4. \A p \in Obligations : SamePhase(p)
  BY <1>1, <1>2, <1>3 DEF SamePhase
<1> QED BY <1>3, <1>4, StatusUntouched

LEMMA StatusExchange == ASSUME IInv, StatusInv, ExchangeNext PROVE StatusInv'
<1> USE DEF IInv, ExchangeInv, ExchangeTypeOK
<1>1. ASSUME UNCHANGED <<deals, obligations, disputes>> PROVE StatusInv'
  BY <1>1 DEF StatusInv, DealStatusAgrees, Exists
<1>2. ASSUME NEW d \in Deals, ReviseDeal(d) PROVE StatusInv'
  BY <1>2, StatusUntouched DEF ReviseDeal, SamePhase
<1>3. ASSUME NEW o \in Obligations, NEW k \in Slots, NEW q \in 1..Terms[o].total, SubmitFulfillment(o, k, q)
      PROVE  StatusInv'
  <2>1. \A p \in Obligations : /\ obligations'[p].status = obligations[p].status
                               /\ obligations'[p].fulfilled = obligations[p].fulfilled
                               /\ obligations'[p].cleared = obligations[p].cleared
    BY <1>3 DEF SubmitFulfillment, ObligationRow
  <2> QED BY <1>3, <2>1, StatusUntouched DEF SubmitFulfillment, SamePhase
<1> HIDE DEF IInv, ExchangeInv, ExchangeTypeOK
<1> QED BY <1>1, <1>2, <1>3, StatusConfirm, StatusAccept, StatusResolve, StatusOpen, StatusOverdue DEF ExchangeNext, Tick

LEMMA StatusFinalize ==
    ASSUME IInv, StatusInv, NEW c \in Cycles, NEW m \in Members, Finalize(c, m)
    PROVE  StatusInv'
<1> DEFINE row(o) == ClearedRow(obligations[o], cycles[c].cleared[o])
           new(o) == [row(o) EXCEPT !.status = StatusFor(o, row(o))]
<1>1. ClearedIn(c) \subseteq Obligations
  BY DEF ClearedIn, IInv, CycleRow
<1>2. ASSUME NEW o \in Obligations PROVE new(o).status # "ABSENT"
  <2>1. StatusFor(o, row(o)) # "ABSENT"
    BY DEF StatusFor
  <2>2. "status" \in DOMAIN row(o)
    BY DEF ClearedRow, IInv, ExchangeInv, ExchangeTypeOK, ObligationRow
  <2> HIDE DEF row
  <2> QED BY <2>1, <2>2
<1>3. obligations' = [o \in Obligations |-> IF o \in ClearedIn(c) THEN new(o) ELSE obligations[o]]
  BY DEF Finalize
<1> HIDE DEF new
<1>4. /\ \A o \in ClearedIn(c) : Exists(o)'
      /\ \A o \in Obligations \ ClearedIn(c) : obligations'[o] = obligations[o]
  BY <1>1, <1>2, <1>3 DEF Exists
<1>5. RefreshDeals({Terms[o].deal : o \in ClearedIn(c)}) /\ UNCHANGED disputes
  BY DEF Finalize
<1> QED BY <1>1, <1>4, <1>5, StatusRefreshed

LEMMA StatusStep == ASSUME IInv, StatusInv, [Next]_vars PROVE StatusInv'
<1>1. ASSUME UNCHANGED exchangeVars PROVE StatusInv'
  BY <1>1 DEF exchangeVars, StatusInv, DealStatusAgrees, Exists
<1>2. CASE UNCHANGED vars
  BY <1>1, <1>2 DEF vars
<1>3. CASE ExchangeNext
  BY <1>3, StatusExchange
<1>4. CASE ClearingNext
  <2>1. ASSUME NEW p \in Policies, NEW m \in Members, ProposePolicy(p, m) \/ ApprovePolicy(p, m)
        PROVE  StatusInv'
    BY <1>1, <2>1 DEF ProposePolicy, ApprovePolicy
  <2>2. ASSUME NEW c \in Cycles, NEW p \in Policies, NEW m \in Members, CreateCycle(c, p, m) PROVE StatusInv'
    BY <1>1, <2>2 DEF CreateCycle
  <2>3. ASSUME NEW c \in Cycles, Collect(c) \/ FreezeInput(c) \/ Preview(c) \/ MarkReady(c) \/ Reconcile(c)
        PROVE  StatusInv'
    BY <1>1, <2>3 DEF Collect, FreezeInput, Preview, MarkReady, Reconcile, Step
  <2>4. ASSUME NEW c \in Cycles, NEW m \in Members, ApprovePreview(c, m) PROVE StatusInv'
    BY <1>1, <2>4 DEF ApprovePreview, Step
  <2>5. ASSUME NEW c \in Cycles, NEW o \in Obligations, DisputeEntry(c, o) PROVE StatusInv'
    BY <1>1, <2>5 DEF DisputeEntry
  <2>6. ASSUME NEW c \in Cycles, NEW uphold \in BOOLEAN, NEW claim \in cycles[c].disputes,
               DecideDispute(c, claim, uphold)
        PROVE  StatusInv'
    BY <1>1, <2>6 DEF DecideDispute
  <2> QED BY <1>4, <2>1, <2>2, <2>3, <2>4, <2>5, <2>6, StatusFinalize DEF ClearingNext
<1> QED BY <1>2, <1>3, <1>4 DEF Next

LEMMA StatusHolds == Spec => []StatusInv
<1>1. Init => StatusInv
  BY DEF Init, ExchangeInit, NoObligation, NoDispute, StatusInv, DealStatusAgrees, Exists
<1>2. IInv /\ StatusInv /\ [Next]_vars => StatusInv'
  BY StatusStep
<1> QED BY LocalInvariant, <1>1, <1>2, PTL DEF Spec

\* The status of a deal is what its obligations and disputes say, whatever order performance, disputes,
\* overdue scans and the cycles that clear them come in (_refresh_deal_status).
THEOREM DealsFollowObligations == Spec => []DealStatusAgrees
<1>1. StatusInv => DealStatusAgrees
  BY DEF StatusInv
<1> QED BY StatusHolds, <1>1, PTL
-----------------------------------------------------------------------------
\* The amounts of an obligation and its fulfillments

\* A slot is decided, suspended by the dispute about it, or free.
SlotInOrder(o, k) ==
    LET f         == fulfillments[o][k]
        suspended == disputes[o].open /\ disputes[o].slot = k
    IN  /\ f.status = "ABSENT" => f = NoFulfillment
        /\ f.status = "DISPUTED" <=> suspended
        /\ suspended => disputes[o].fulfillmentWas \in FulfillmentStatus \ {"DISPUTED"}
        /\ Undecided(o, k) => f.accepted = 0 /\ f.quantity > 0
        /\ ~Exists(o) => f = NoFulfillment

AmountsIn(o) ==
    /\ obligations[o].submitted = SumFunctionOnSet(Awaited(o), Slots)
    /\ obligations[o].fulfilled = SumFunctionOnSet(Accepted(o), Slots)
    /\ disputes[o].open => obligations[o].status = "DISPUTED"
    /\ ~Exists(o) => obligations[o] = NoObligation
    /\ \A k \in Slots : SlotInOrder(o, k)

AmountsInv == \A o \in Obligations : AmountsIn(o)

LEMMA SlotAmounts ==
    ASSUME ExchangeTypeOK, NEW o \in Obligations, NEW k \in Slots
    PROVE  /\ Awaited(o)[k] = IF Undecided(o, k) THEN fulfillments[o][k].quantity ELSE 0
           /\ Accepted(o)[k] = fulfillments[o][k].accepted
           /\ Awaited(o)[k] \in Nat /\ Accepted(o)[k] \in Nat
           /\ fulfillments[o][k] \in FulfillmentRow
  <1>1. fulfillments[o][k] \in FulfillmentRow
    BY DEF ExchangeTypeOK
  <1> QED BY <1>1 DEF Awaited, Accepted, FulfillmentRow

\* A command that leaves the fulfillments of an obligation, its amounts and its dispute alone.
LEMMA AmountsCarried ==
    ASSUME NEW o \in Obligations, AmountsIn(o),
           fulfillments'[o] = fulfillments[o], disputes'[o] = disputes[o],
           obligations'[o].submitted = obligations[o].submitted,
           obligations'[o].fulfilled = obligations[o].fulfilled,
           Exists(o)' \/ obligations'[o] = obligations[o],
           disputes[o].open => obligations'[o].status = "DISPUTED"
    PROVE  AmountsIn(o)'
  <1>1. \A k \in Slots : Undecided(o, k)' <=> Undecided(o, k)
    BY DEF Undecided
  <1>2. Awaited(o)' = Awaited(o) /\ Accepted(o)' = Accepted(o)
    BY <1>1 DEF Awaited, Accepted
  <1>3. \A k \in Slots : SlotInOrder(o, k)'
    BY <1>1 DEF SlotInOrder, AmountsIn, Exists
  <1> QED BY <1>2, <1>3 DEF AmountsIn, Exists

\* A command that writes one slot changes the sums by what the slot changes.
LEMMA SlotWritten ==
    ASSUME ExchangeTypeOK, ExchangeTypeOK', NEW o \in Obligations, AmountsIn(o), NEW k \in Slots,
           \A j \in Slots \ {k} : Awaited(o)'[j] = Awaited(o)[j] /\ Accepted(o)'[j] = Accepted(o)[j],
           obligations'[o].submitted = obligations[o].submitted - Awaited(o)[k] + Awaited(o)'[k],
           obligations'[o].fulfilled = obligations[o].fulfilled - Accepted(o)[k] + Accepted(o)'[k]
    PROVE  /\ obligations'[o].submitted = SumFunctionOnSet(Awaited(o)', Slots)
           /\ obligations'[o].fulfilled = SumFunctionOnSet(Accepted(o)', Slots)
  <1> DEFINE a == Awaited(o)
             b == Awaited(o)'
             c == Accepted(o)
             d == Accepted(o)'
  <1>1. \A j \in Slots : a[j] \in Int /\ c[j] \in Int
    BY SlotAmounts
  <1>2. \A j \in Slots : b[j] \in Int /\ d[j] \in Int
    <2> SUFFICES ASSUME NEW j \in Slots PROVE b[j] \in Int /\ d[j] \in Int
      OBVIOUS
    <2>1. fulfillments'[o][j] \in FulfillmentRow
      BY DEF ExchangeTypeOK
    <2> QED BY <2>1 DEF Awaited, Accepted, FulfillmentRow
  <1>3. IsFiniteSet(Slots)
    BY ExchangeBounds
  <1>4. \A j \in Slots \ {k} : a[j] = b[j] /\ c[j] = d[j]
    OBVIOUS
  <1>5. obligations[o].submitted = SumFunctionOnSet(a, Slots) /\ obligations[o].fulfilled = SumFunctionOnSet(c, Slots)
    BY DEF AmountsIn
  <1>6. /\ obligations'[o].submitted = obligations[o].submitted - a[k] + b[k]
        /\ obligations'[o].fulfilled = obligations[o].fulfilled - c[k] + d[k]
    OBVIOUS
  <1> HIDE DEF a, b, c, d
  <1>7. SumFunctionOnSet(b, Slots) = SumFunctionOnSet(a, Slots) - a[k] + b[k]
    BY <1>1, <1>2, <1>3, <1>4, SumChange
  <1>8. SumFunctionOnSet(d, Slots) = SumFunctionOnSet(c, Slots) - c[k] + d[k]
    BY <1>1, <1>2, <1>3, <1>4, SumChange
  <1> QED BY <1>5, <1>6, <1>7, <1>8 DEF b, d

LEMMA AmountsSubmit ==
    ASSUME ExchangeTypeOK, ExchangeTypeOK', AmountsInv,
           NEW o \in Obligations, NEW k \in Slots, NEW q \in 1..Terms[o].total, SubmitFulfillment(o, k, q)
    PROVE  AmountsInv'
  <1>1. /\ obligations[o].status \in Operable /\ ~disputes[o].open /\ fulfillments[o][k] = NoFulfillment
        /\ AmountsIn(o) /\ disputes' = disputes
    BY DEF AmountsInv, AmountsIn, SubmitFulfillment, Operable
  <1>2. q \in Nat /\ q > 0
    BY TermsAssumption DEF Line
  <1>3. /\ obligations'[o].submitted = obligations[o].submitted + q
        /\ obligations'[o].fulfilled = obligations[o].fulfilled
        /\ obligations'[o].status = obligations[o].status
        /\ \A p \in Obligations \ {o} : obligations'[p] = obligations[p] /\ fulfillments'[p] = fulfillments[p]
    BY DEF SubmitFulfillment, ExchangeTypeOK, ObligationRow
  <1>4. /\ fulfillments'[o][k] = [status |-> "SUBMITTED", quantity |-> q, accepted |-> 0]
        /\ \A j \in Slots \ {k} : fulfillments'[o][j] = fulfillments[o][j]
    BY DEF SubmitFulfillment, ExchangeTypeOK
  <1>5. ASSUME NEW p \in Obligations \ {o} PROVE AmountsIn(p)'
    <2>1. AmountsIn(p)
      BY DEF AmountsInv
    <2>2. Exists(p)' \/ obligations'[p] = obligations[p]
      BY <1>3
    <2>3. disputes[p].open => obligations'[p].status = "DISPUTED"
      BY <2>1, <1>3 DEF AmountsIn
    <2> QED BY <1>1, <1>3, <2>1, <2>2, <2>3, AmountsCarried
  <1>6. AmountsIn(o)'
    <2>1. /\ Awaited(o)[k] = 0 /\ Accepted(o)[k] = 0
          /\ Awaited(o)'[k] = q /\ Accepted(o)'[k] = 0
      BY <1>1, <1>4 DEF Awaited, Accepted, Undecided, NoFulfillment
    <2>2. \A j \in Slots \ {k} : Awaited(o)'[j] = Awaited(o)[j] /\ Accepted(o)'[j] = Accepted(o)[j]
      BY <1>1, <1>4 DEF Awaited, Accepted, Undecided
    <2>3. /\ obligations'[o].submitted = obligations[o].submitted - Awaited(o)[k] + Awaited(o)'[k]
          /\ obligations'[o].fulfilled = obligations[o].fulfilled - Accepted(o)[k] + Accepted(o)'[k]
      <3>1. obligations[o].submitted \in Nat /\ obligations[o].fulfilled \in Nat
        BY DEF ExchangeTypeOK, ObligationRow
      <3> QED BY <1>2, <1>3, <2>1, <3>1
    <2>4. /\ obligations'[o].submitted = SumFunctionOnSet(Awaited(o)', Slots)
          /\ obligations'[o].fulfilled = SumFunctionOnSet(Accepted(o)', Slots)
      BY <1>1, <2>2, <2>3, SlotWritten
    <2>5. \A j \in Slots : SlotInOrder(o, j)'
      <3> SUFFICES ASSUME NEW j \in Slots PROVE SlotInOrder(o, j)'
        OBVIOUS
      <3>1. SlotInOrder(o, j)
        BY <1>1 DEF AmountsIn
      <3>2. CASE j = k
        BY <1>1, <1>2, <1>3, <1>4, <3>2 DEF SlotInOrder, Undecided, Exists, Operable
      <3>3. CASE j # k
        BY <1>1, <1>3, <1>4, <3>1, <3>3 DEF SlotInOrder, Undecided, Exists
      <3> QED BY <3>2, <3>3
    <2> QED BY <1>1, <1>3, <2>4, <2>5 DEF AmountsIn, Exists, Operable
  <1> QED BY <1>5, <1>6 DEF AmountsInv

LEMMA AmountsAccept ==
    ASSUME ExchangeTypeOK, ExchangeTypeOK', AmountsInv,
           NEW o \in Obligations, NEW k \in Slots, NEW a \in 0..Terms[o].total, AcceptFulfillment(o, k, a)
    PROVE  AmountsInv'
  <1> DEFINE f   == fulfillments[o][k]
             row == Performed(obligations[o], f.quantity, a)
  <1>1. /\ obligations[o].status \in Operable /\ ~disputes[o].open /\ f.status = "SUBMITTED"
        /\ AmountsIn(o) /\ disputes' = disputes /\ f \in FulfillmentRow /\ f.accepted = 0
        /\ obligations[o] \in ObligationRow
    <2>1. AmountsIn(o) /\ SlotInOrder(o, k)
      BY DEF AmountsInv, AmountsIn
    <2> QED BY <2>1 DEF AmountsIn, SlotInOrder, Undecided, AcceptFulfillment, Operable, ExchangeTypeOK
  <1>2. a \in Nat
    BY TermsAssumption DEF Line
  <1>3. StatusFor(o, row) \in ObligationStatus
    BY StatusType
  <1>4. /\ obligations'[o].submitted = obligations[o].submitted - f.quantity
        /\ obligations'[o].fulfilled = obligations[o].fulfilled + a
        /\ obligations'[o].status \in ObligationStatus
        /\ \A p \in Obligations \ {o} : obligations'[p] = obligations[p] /\ fulfillments'[p] = fulfillments[p]
    <2>1. obligations' = [obligations EXCEPT ![o] = [row EXCEPT !.status = StatusFor(o, row)]]
      BY DEF AcceptFulfillment
    <2>2. obligations'[o] = [row EXCEPT !.status = StatusFor(o, row)]
      BY <2>1 DEF ExchangeTypeOK
    <2>3. [row EXCEPT !.status = StatusFor(o, row)].status = StatusFor(o, row)
      BY <1>1 DEF Performed, ObligationRow
    <2>4. /\ [row EXCEPT !.status = StatusFor(o, row)].submitted = obligations[o].submitted - f.quantity
          /\ [row EXCEPT !.status = StatusFor(o, row)].fulfilled = obligations[o].fulfilled + a
      BY <1>1 DEF Performed, ObligationRow
    <2>5. \A p \in Obligations \ {o} : obligations'[p] = obligations[p] /\ fulfillments'[p] = fulfillments[p]
      BY <2>1 DEF AcceptFulfillment, ExchangeTypeOK
    <2> QED BY <1>3, <2>2, <2>3, <2>4, <2>5
  <1>5. /\ fulfillments'[o][k].status \in {"ACCEPTED", "REJECTED", "PARTIALLY_ACCEPTED"}
        /\ fulfillments'[o][k].accepted = a
        /\ \A j \in Slots \ {k} : fulfillments'[o][j] = fulfillments[o][j]
    BY DEF AcceptFulfillment, ExchangeTypeOK, FulfillmentRow, Decision
  <1>6. ASSUME NEW p \in Obligations \ {o} PROVE AmountsIn(p)'
    <2>1. AmountsIn(p)
      BY DEF AmountsInv
    <2>2. Exists(p)' \/ obligations'[p] = obligations[p]
      BY <1>4
    <2>3. disputes[p].open => obligations'[p].status = "DISPUTED"
      BY <2>1, <1>4 DEF AmountsIn
    <2> QED BY <1>1, <1>4, <2>1, <2>2, <2>3, AmountsCarried
  <1>7. AmountsIn(o)'
    <2>1. /\ Awaited(o)[k] = f.quantity /\ Accepted(o)[k] = 0
          /\ Awaited(o)'[k] = 0 /\ Accepted(o)'[k] = a
      BY <1>1, <1>5 DEF Awaited, Accepted, Undecided
    <2>2. \A j \in Slots \ {k} : Awaited(o)'[j] = Awaited(o)[j] /\ Accepted(o)'[j] = Accepted(o)[j]
      BY <1>1, <1>5 DEF Awaited, Accepted, Undecided
    <2>3. /\ obligations'[o].submitted = obligations[o].submitted - Awaited(o)[k] + Awaited(o)'[k]
          /\ obligations'[o].fulfilled = obligations[o].fulfilled - Accepted(o)[k] + Accepted(o)'[k]
      <3>1. obligations[o].submitted \in Nat /\ obligations[o].fulfilled \in Nat /\ f.quantity \in Nat
        BY <1>1 DEF ObligationRow, FulfillmentRow
      <3> HIDE DEF f
      <3> QED BY <1>2, <1>4, <2>1, <3>1
    <2>4. /\ obligations'[o].submitted = SumFunctionOnSet(Awaited(o)', Slots)
          /\ obligations'[o].fulfilled = SumFunctionOnSet(Accepted(o)', Slots)
      BY <1>1, <2>2, <2>3, SlotWritten
    <2>5. Exists(o)'
      BY <1>4 DEF Exists, ObligationStatus, Operable
    <2>6. \A j \in Slots : SlotInOrder(o, j)'
      <3> SUFFICES ASSUME NEW j \in Slots PROVE SlotInOrder(o, j)'
        OBVIOUS
      <3>1. SlotInOrder(o, j)
        BY <1>1 DEF AmountsIn
      <3>2. CASE j = k
        BY <1>1, <1>5, <2>5, <3>2 DEF SlotInOrder, Undecided
      <3>3. CASE j # k
        BY <1>1, <1>5, <2>5, <3>1, <3>3 DEF SlotInOrder, Undecided
      <3> QED BY <3>2, <3>3
    <2> QED BY <1>1, <2>4, <2>5, <2>6 DEF AmountsIn
  <1> QED BY <1>6, <1>7 DEF AmountsInv

\* A dispute takes the status of a fulfillment away and gives it back: what awaits a decision is
\* the same before and after.
LEMMA AmountsOpenDispute ==
    ASSUME ExchangeTypeOK, ExchangeTypeOK', AmountsInv,
           NEW o \in Obligations, NEW k \in Slots \union {0}, OpenDispute(o, k)
    PROVE  AmountsInv'
  <1>1. /\ Exists(o) /\ ~disputes[o].open /\ AmountsIn(o)
        /\ k # 0 => k \in Slots /\ fulfillments[o][k].status # "ABSENT"
        /\ 0 \notin Slots
    BY ExchangeBounds DEF AmountsInv, OpenDispute, MayWrite
  <1>2. /\ disputes'[o].open /\ disputes'[o].slot = k
        /\ k # 0 => disputes'[o].fulfillmentWas = fulfillments[o][k].status
        /\ obligations'[o].status = "DISPUTED"
        /\ obligations'[o].submitted = obligations[o].submitted
        /\ obligations'[o].fulfilled = obligations[o].fulfilled
        /\ \A p \in Obligations \ {o} : /\ obligations'[p] = obligations[p] /\ disputes'[p] = disputes[p]
                                        /\ fulfillments'[p] = fulfillments[p]
    BY DEF OpenDispute, ExchangeTypeOK, ObligationRow
  <1>3. \A j \in Slots : /\ j # k => fulfillments'[o][j] = fulfillments[o][j]
                         /\ j = k => fulfillments'[o][j] = [fulfillments[o][j] EXCEPT !.status = "DISPUTED"]
    BY <1>1 DEF OpenDispute, ExchangeTypeOK
  <1>4. ASSUME NEW j \in Slots
        PROVE  /\ Undecided(o, j)' <=> Undecided(o, j)
               /\ fulfillments'[o][j].quantity = fulfillments[o][j].quantity
               /\ fulfillments'[o][j].accepted = fulfillments[o][j].accepted
               /\ SlotInOrder(o, j)'
    <2>1. SlotInOrder(o, j) /\ fulfillments[o][j] \in FulfillmentRow
      BY <1>1 DEF AmountsIn, ExchangeTypeOK
    <2>2. CASE j # k
      <3>1. fulfillments'[o][j] = fulfillments[o][j]
        BY <1>3, <2>2
      <3>2. Undecided(o, j)' <=> Undecided(o, j)
        BY <1>1, <1>2, <2>2, <3>1 DEF Undecided
      <3> QED BY <1>1, <1>2, <2>1, <2>2, <3>1, <3>2 DEF SlotInOrder, Exists
    <2>3. CASE j = k
      <3>1. /\ fulfillments'[o][j].status = "DISPUTED"
            /\ fulfillments'[o][j].quantity = fulfillments[o][j].quantity
            /\ fulfillments'[o][j].accepted = fulfillments[o][j].accepted
        BY <1>3, <2>1, <2>3 DEF FulfillmentRow
      <3>2. Undecided(o, j)' <=> Undecided(o, j)
        BY <1>1, <1>2, <2>1, <2>3, <3>1 DEF Undecided, SlotInOrder
      <3>3. disputes'[o].fulfillmentWas \in FulfillmentStatus \ {"DISPUTED"}
        BY <1>1, <1>2, <2>1, <2>3 DEF SlotInOrder, FulfillmentRow
      <3>4. Exists(o)'
        BY <1>2 DEF Exists
      <3> QED BY <1>2, <2>1, <2>3, <3>1, <3>2, <3>3, <3>4 DEF SlotInOrder
    <2> QED BY <2>2, <2>3
  <1>5. AmountsIn(o)'
    <2>1. Awaited(o)' = Awaited(o) /\ Accepted(o)' = Accepted(o)
      BY <1>4 DEF Awaited, Accepted
    <2> QED BY <1>1, <1>2, <1>4, <2>1 DEF AmountsIn, Exists
  <1>6. ASSUME NEW p \in Obligations \ {o} PROVE AmountsIn(p)'
    <2>1. AmountsIn(p)
      BY DEF AmountsInv
    <2>2. Exists(p)' \/ obligations'[p] = obligations[p]
      BY <1>2
    <2>3. disputes[p].open => obligations'[p].status = "DISPUTED"
      BY <2>1, <1>2 DEF AmountsIn
    <2> QED BY <1>2, <2>1, <2>2, <2>3, AmountsCarried
  <1> QED BY <1>5, <1>6 DEF AmountsInv

LEMMA AmountsResolveDispute ==
    ASSUME ExchangeTypeOK, ExchangeTypeOK', Consistent, AmountsInv,
           NEW o \in Obligations, NEW action \in Resolutions, ResolveDispute(o, action)
    PROVE  AmountsInv'
  <1> DEFINE k == disputes[o].slot
  <1>1. /\ Exists(o) /\ disputes[o].open /\ AmountsIn(o) /\ k \in Slots \union {0} /\ 0 \notin Slots
    BY ExchangeBounds DEF AmountsInv, ResolveDispute, MayWrite, ExchangeTypeOK, DisputeRow
  <1>2. /\ ~disputes'[o].open /\ obligations'[o].status \in ObligationStatus
        /\ obligations'[o].submitted = obligations[o].submitted
        /\ obligations'[o].fulfilled = obligations[o].fulfilled
        /\ \A p \in Obligations \ {o} : /\ obligations'[p] = obligations[p] /\ disputes'[p] = disputes[p]
                                        /\ fulfillments'[p] = fulfillments[p]
    <2>1. Resolved(action, disputes[o].obligationWas) \in ObligationStatus
      BY <1>1 DEF Resolved, Consistent, ObligationStatus
    <2> QED BY <2>1 DEF ResolveDispute, ExchangeTypeOK, ObligationRow, NoDispute
  <1>3. \A j \in Slots : /\ j # k => fulfillments'[o][j] = fulfillments[o][j]
                         /\ j = k => fulfillments'[o][j] =
                                       [fulfillments[o][j] EXCEPT !.status = disputes[o].fulfillmentWas]
    BY <1>1 DEF ResolveDispute, ExchangeTypeOK
  <1>4. ASSUME NEW j \in Slots
        PROVE  /\ Undecided(o, j)' <=> Undecided(o, j)
               /\ fulfillments'[o][j].quantity = fulfillments[o][j].quantity
               /\ fulfillments'[o][j].accepted = fulfillments[o][j].accepted
               /\ SlotInOrder(o, j)'
    <2>1. SlotInOrder(o, j) /\ fulfillments[o][j] \in FulfillmentRow
      BY <1>1 DEF AmountsIn, ExchangeTypeOK
    <2>2. Exists(o)'
      BY <1>2 DEF Exists, ObligationStatus, Operable
    <2>3. CASE j # k
      <3>1. fulfillments'[o][j] = fulfillments[o][j]
        BY <1>3, <2>3
      <3>2. Undecided(o, j)' <=> Undecided(o, j)
        BY <1>1, <1>2, <2>3, <3>1 DEF Undecided
      <3> HIDE DEF k
      <3> QED BY <1>1, <1>2, <2>1, <2>2, <2>3, <3>1, <3>2 DEF SlotInOrder, k
    <2>4. CASE j = k
      <3>1. /\ fulfillments'[o][j].status = disputes[o].fulfillmentWas
            /\ fulfillments'[o][j].quantity = fulfillments[o][j].quantity
            /\ fulfillments'[o][j].accepted = fulfillments[o][j].accepted
        BY <1>3, <2>1, <2>4 DEF FulfillmentRow
      <3>2. disputes[o].fulfillmentWas \in FulfillmentStatus \ {"DISPUTED"} /\ fulfillments[o][j].status = "DISPUTED"
        BY <1>1, <2>1, <2>4 DEF SlotInOrder
      <3>3. Undecided(o, j)' <=> Undecided(o, j)
        BY <1>1, <1>2, <2>4, <3>1, <3>2 DEF Undecided
      <3>4. disputes[o].fulfillmentWas # "ABSENT"
        BY <3>2 DEF FulfillmentStatus
      <3> QED BY <1>2, <2>1, <2>2, <3>1, <3>2, <3>3, <3>4 DEF SlotInOrder
    <2> QED BY <2>3, <2>4
  <1>5. AmountsIn(o)'
    <2>1. Awaited(o)' = Awaited(o) /\ Accepted(o)' = Accepted(o)
      BY <1>4 DEF Awaited, Accepted
    <2>2. Exists(o)'
      BY <1>2 DEF Exists, ObligationStatus, Operable
    <2> QED BY <1>1, <1>2, <1>4, <2>1, <2>2 DEF AmountsIn
  <1>6. ASSUME NEW p \in Obligations \ {o} PROVE AmountsIn(p)'
    <2>1. AmountsIn(p)
      BY DEF AmountsInv
    <2>2. Exists(p)' \/ obligations'[p] = obligations[p]
      BY <1>2
    <2>3. disputes[p].open => obligations'[p].status = "DISPUTED"
      BY <2>1, <1>2 DEF AmountsIn
    <2> QED BY <1>2, <2>1, <2>2, <2>3, AmountsCarried
  <1> QED BY <1>5, <1>6 DEF AmountsInv

\* Obligations come into being without fulfillments.
LEMMA AmountsConfirm ==
    ASSUME IInv, StatusInv, AmountsInv,
           NEW d \in Deals, NEW m \in Members, NEW v \in 1..deals[d].terms, ConfirmDeal(d, v, m)
    PROVE  AmountsInv'
  <1>1. ASSUME NEW o \in Obligations PROVE AmountsIn(o)'
    <2>1. AmountsIn(o)
      BY DEF AmountsInv
    <2>2. fulfillments' = fulfillments /\ disputes' = disputes
      BY DEF ConfirmDeal
    <2>3. CASE obligations'[o] = obligations[o]
      BY <2>1, <2>2, <2>3, AmountsCarried DEF AmountsIn
    <2>4. CASE obligations'[o] # obligations[o]
      <3>1. v \in 1..Len(Revisions[d]) /\ Revisions[d] \in Seq((SUBSET Obligations) \ {{}})
        BY TermsAssumption DEF IInv, ExchangeInv, Consistent, ConfirmDeal
      <3>2. /\ o \in Revisions[d][v]
            /\ obligations'[o] = [NoObligation EXCEPT !.status = "ACTIVE", !.terms = v, !.version = 1]
        BY <2>4 DEF ConfirmDeal
      <3>3. Terms[o].deal = d
        BY <3>1, <3>2, TermsAssumption
      <3>4. ~Exists(o) /\ ~disputes[o].open
        BY <3>3 DEF StatusInv, ConfirmDeal
      <3>5. /\ obligations[o] = NoObligation
            /\ obligations'[o].submitted = obligations[o].submitted
            /\ obligations'[o].fulfilled = obligations[o].fulfilled
        BY <2>1, <3>2, <3>4 DEF AmountsIn, NoObligation
      <3>6. Exists(o)'
        BY <3>2 DEF Exists, NoObligation
      <3> QED BY <2>1, <2>2, <3>4, <3>5, <3>6, AmountsCarried
    <2> QED BY <2>3, <2>4
  <1> QED BY <1>1 DEF AmountsInv

LEMMA AmountsOverdue ==
    ASSUME ExchangeTypeOK, AmountsInv, NEW asOf, NEW S \in SUBSET Obligations, MarkOverdue(asOf, S)
    PROVE  AmountsInv'
  <1>1. ASSUME NEW o \in Obligations PROVE AmountsIn(o)'
    <2>1. AmountsIn(o) /\ fulfillments' = fulfillments /\ disputes' = disputes /\ obligations[o] \in ObligationRow
      BY DEF AmountsInv, MarkOverdue, ExchangeTypeOK
    <2>2. CASE o \in S
      <3>1. obligations'[o] = [obligations[o] EXCEPT !.status = "OVERDUE", !.version = @ + 1]
        BY <2>2 DEF MarkOverdue
      <3>2. /\ obligations'[o].submitted = obligations[o].submitted /\ obligations'[o].status = "OVERDUE"
            /\ obligations'[o].fulfilled = obligations[o].fulfilled
        BY <2>1, <3>1 DEF ObligationRow
      <3>3. ~disputes[o].open
        BY <2>1, <2>2 DEF AmountsIn, MarkOverdue
      <3>4. Exists(o)'
        BY <3>2 DEF Exists
      <3> QED BY <2>1, <3>2, <3>3, <3>4, AmountsCarried
    <2>3. CASE o \notin S
      <3>1. obligations'[o] = obligations[o]
        BY <2>3 DEF MarkOverdue
      <3> QED BY <2>1, <3>1, AmountsCarried DEF AmountsIn
    <2> QED BY <2>2, <2>3
  <1> QED BY <1>1 DEF AmountsInv

\* Clearing touches neither what is set aside nor what was performed.
LEMMA AmountsFinalize ==
    ASSUME IInv, AmountsInv, NEW c \in Cycles, NEW m \in Members, Finalize(c, m)
    PROVE  AmountsInv'
  <1>1. ASSUME NEW o \in Obligations PROVE AmountsIn(o)'
    <2>1. AmountsIn(o) /\ fulfillments' = fulfillments /\ disputes' = disputes /\ obligations[o] \in ObligationRow
      BY DEF AmountsInv, Finalize, IInv, ExchangeInv, ExchangeTypeOK
    <2>2. CASE o \in ClearedIn(c)
      <3> DEFINE row == ClearedRow(obligations[o], cycles[c].cleared[o])
      <3>1. obligations'[o] = [row EXCEPT !.status = StatusFor(o, row)]
        BY <2>2 DEF Finalize
      <3>2. StatusFor(o, row) \in ObligationStatus
        BY StatusType
      <3>3. /\ obligations'[o].submitted = obligations[o].submitted
            /\ obligations'[o].fulfilled = obligations[o].fulfilled
            /\ obligations'[o].status \in ObligationStatus
        <4>1. /\ row.submitted = obligations[o].submitted /\ row.fulfilled = obligations[o].fulfilled
              /\ "status" \in DOMAIN row
          BY <2>1 DEF ClearedRow, ObligationRow
        <4>2. DOMAIN row = DOMAIN obligations[o]
          BY <2>1 DEF ClearedRow, ObligationRow
        <4>3. DOMAIN obligations[o] = {"status", "submitted", "fulfilled", "cleared", "terms", "version"}
          BY <2>1 DEF ObligationRow
        <4> HIDE DEF row
        <4> QED BY <3>1, <3>2, <4>1, <4>2, <4>3
      <3>4. obligations[o].status \in Operable
        <4>1. InOrder(cycles[c]) /\ o \in DOMAIN cycles[c].cleared /\ InputUnchanged(c)
          BY <2>2 DEF IInv, ClearedIn, Finalize
        <4>2. o \in DOMAIN cycles[c].entries
          BY <4>1 DEF InOrder, ResultWithinSnapshot
        <4> QED BY <4>1, <4>2 DEF InputUnchanged, Unchanged
      <3>5. ~disputes[o].open
        BY <2>1, <3>4 DEF AmountsIn, Operable
      <3>6. Exists(o)'
        BY <3>3 DEF Exists, ObligationStatus, Operable
      <3> QED BY <2>1, <3>3, <3>5, <3>6, AmountsCarried
    <2>3. CASE o \notin ClearedIn(c)
      <3>1. obligations'[o] = obligations[o]
        BY <2>3 DEF Finalize
      <3> QED BY <2>1, <3>1, AmountsCarried DEF AmountsIn
    <2> QED BY <2>2, <2>3
  <1> QED BY <1>1 DEF AmountsInv

LEMMA AmountsExchange == ASSUME IInv, StatusInv, AmountsInv, ExchangeNext PROVE AmountsInv'
  <1>1. ExchangeTypeOK /\ ExchangeTypeOK' /\ Consistent
    BY ExchangeStep DEF IInv, ExchangeInv
  <1>2. ASSUME UNCHANGED <<obligations, fulfillments, disputes>> PROVE AmountsInv'
    <2>1. ASSUME NEW o \in Obligations PROVE AmountsIn(o)'
      <3>1. AmountsIn(o) /\ Exists(o) = Exists(o)'
        BY <1>2 DEF AmountsInv, Exists
      <3> QED BY <1>2, <3>1, AmountsCarried DEF AmountsIn
    <2> QED BY <2>1 DEF AmountsInv
  <1>3. ASSUME Tick PROVE AmountsInv'
    BY <1>2, <1>3 DEF Tick
  <1>4. ASSUME NEW d \in Deals, ReviseDeal(d) PROVE AmountsInv'
    BY <1>2, <1>4 DEF ReviseDeal
  <1>5. ASSUME NEW d \in Deals, NEW m \in Members, NEW v \in 1..deals[d].terms, ConfirmDeal(d, v, m)
        PROVE  AmountsInv'
    BY <1>5, AmountsConfirm
  <1>6. ASSUME NEW o \in Obligations, NEW k \in Slots, NEW q \in 1..Terms[o].total, SubmitFulfillment(o, k, q)
        PROVE  AmountsInv'
    BY <1>1, <1>6, AmountsSubmit
  <1>7. ASSUME NEW o \in Obligations, NEW k \in Slots, NEW a \in 0..Terms[o].total, AcceptFulfillment(o, k, a)
        PROVE  AmountsInv'
    BY <1>1, <1>7, AmountsAccept
  <1>8. ASSUME NEW o \in Obligations, NEW k \in Slots \union {0}, OpenDispute(o, k) PROVE AmountsInv'
    BY <1>1, <1>8, AmountsOpenDispute
  <1>9. ASSUME NEW o \in Obligations, NEW action \in Resolutions, ResolveDispute(o, action) PROVE AmountsInv'
    BY <1>1, <1>9, AmountsResolveDispute
  <1>10. ASSUME NEW asOf, NEW S \in SUBSET Obligations, MarkOverdue(asOf, S) PROVE AmountsInv'
    BY <1>1, <1>10, AmountsOverdue
  <1> QED BY <1>3, <1>4, <1>5, <1>6, <1>7, <1>8, <1>9, <1>10 DEF ExchangeNext

LEMMA AmountsStep == ASSUME IInv, StatusInv, AmountsInv, [Next]_vars PROVE AmountsInv'
  <1>1. ASSUME UNCHANGED exchangeVars PROVE AmountsInv'
    <2>1. ASSUME NEW o \in Obligations PROVE AmountsIn(o)'
      <3>1. AmountsIn(o) /\ Exists(o) = Exists(o)'
        BY <1>1 DEF AmountsInv, Exists, exchangeVars
      <3> QED BY <1>1, <3>1, AmountsCarried DEF AmountsIn, exchangeVars
    <2> QED BY <2>1 DEF AmountsInv
  <1>2. CASE UNCHANGED vars
    BY <1>1, <1>2 DEF vars
  <1>3. CASE ExchangeNext /\ UNCHANGED clearingVars
    BY <1>3, AmountsExchange
  <1>4. CASE ClearingNext
    <2>1. ASSUME NEW c \in Cycles, NEW m \in Members, Finalize(c, m) PROVE AmountsInv'
      BY <2>1, AmountsFinalize
    <2>2. \/ UNCHANGED exchangeVars
          \/ \E c \in Cycles, m \in Members : Finalize(c, m)
      BY <1>4 DEF ClearingNext, ProposePolicy, ApprovePolicy, CreateCycle, Collect, FreezeInput, Preview,
                  MarkReady, Reconcile, ApprovePreview, DisputeEntry, DecideDispute, Step
    <2> QED BY <1>1, <2>1, <2>2
  <1> QED BY <1>2, <1>3, <1>4 DEF Next

LEMMA AmountsInitial == ASSUME Init PROVE AmountsInv
  <1>1. ASSUME NEW o \in Obligations PROVE AmountsIn(o)
    <2>1. /\ obligations[o] = NoObligation /\ disputes[o] = NoDispute
          /\ \A k \in Slots : fulfillments[o][k] = NoFulfillment
      BY DEF Init, ExchangeInit
    <2>2. \A k \in Slots : Awaited(o)[k] = 0 /\ Accepted(o)[k] = 0
      BY <2>1 DEF Awaited, Accepted, Undecided, NoFulfillment, NoDispute
    <2>3. SumFunctionOnSet(Awaited(o), Slots) = 0 /\ SumFunctionOnSet(Accepted(o), Slots) = 0
      BY <2>2, SumZero, ExchangeBounds
    <2>4. \A k \in Slots : SlotInOrder(o, k)
      BY <2>1 DEF SlotInOrder, Undecided, NoFulfillment, NoDispute
    <2> QED BY <2>1, <2>3, <2>4 DEF AmountsIn, NoObligation, NoDispute
  <1> QED BY <1>1 DEF AmountsInv

LEMMA AmountsHold == Spec => []AmountsInv
  BY AmountsInitial, AmountsStep, LocalInvariant, StatusHolds, PTL DEF Spec

\* Of every obligation, what is set aside is the sum of the fulfillments that await a decision and
\* what is performed the sum of what was accepted (submit_fulfillment, accept_fulfillment,
\* open_dispute, resolve_dispute, finalize), however many fulfillments there are.
THEOREM FulfillmentsAddUp == Spec => []AmountsAccounted
  <1>1. IInv /\ AmountsInv => AmountsAccounted
    <2> SUFFICES ASSUME IInv, AmountsInv, NEW o \in Obligations
                 PROVE  /\ obligations[o].submitted = SumFunction(Awaited(o))
                        /\ obligations[o].fulfilled = SumFunction(Accepted(o))
                        /\ Remaining(o, obligations[o]) >= 0
      BY DEF AmountsAccounted
    <2>1. DOMAIN Awaited(o) = Slots /\ DOMAIN Accepted(o) = Slots
      BY DEF Awaited, Accepted
    <2>2. /\ SumFunction(Awaited(o)) = SumFunctionOnSet(Awaited(o), Slots)
          /\ SumFunction(Accepted(o)) = SumFunctionOnSet(Accepted(o), Slots)
      BY <2>1, SumOfAll
    <2> QED BY <2>2 DEF AmountsInv, AmountsIn, IInv, ExchangeInv, NeverOverdrawn
  <1> QED BY LocalInvariant, AmountsHold, <1>1, PTL

-----------------------------------------------------------------------------
\* What a cycle froze, and what finalize clears of it

\* An entry tells what its obligation was at that version, and the row has moved on if it is no longer so.
Frozen(o, entry) ==
    /\ Exists(o) /\ entry.version <= obligations[o].version
    /\ entry.version = obligations[o].version => entry.reason = ReasonFor(o) /\ entry.amount = Outstanding(o)

\* A result is that of the snapshot, and nobody's claim is left when a cycle is ready.
ResultOfSnapshot(row) ==
    /\ row.status \notin Early => row.cleared = Netting(InputOf(row.entries))
    /\ row.status = "READY_TO_FINALIZE" => row.disputes = {}

FrozenInv == \A c \in Cycles : /\ ResultOfSnapshot(cycles[c])
                               /\ \A o \in DOMAIN cycles[c].entries : Frozen(o, cycles[c].entries[o])

\* A command that changes a row of an obligation, or whether it is disputed, counts up its version.
Dated(o) ==
    Exists(o) => /\ Exists(o)'
                 /\ \/ obligations'[o].version > obligations[o].version
                    \/ obligations'[o] = obligations[o] /\ disputes'[o].open = disputes[o].open

LEMMA ExchangeDates ==
    ASSUME IInv, StatusInv, AmountsInv, ExchangeNext, NEW o \in Obligations
    PROVE  Dated(o) /\ obligations'[o].cleared = obligations[o].cleared
  <1>1. obligations[o] \in ObligationRow /\ obligations[o].version \in Nat
    BY DEF IInv, ExchangeInv, ExchangeTypeOK, ObligationRow
  <1>2. ASSUME UNCHANGED <<obligations, disputes>> PROVE Dated(o) /\ obligations'[o].cleared = obligations[o].cleared
    BY <1>2 DEF Dated, Exists
  <1>3. ASSUME Tick PROVE Dated(o) /\ obligations'[o].cleared = obligations[o].cleared
    BY <1>2, <1>3 DEF Tick
  <1>4. ASSUME NEW d \in Deals, ReviseDeal(d) PROVE Dated(o) /\ obligations'[o].cleared = obligations[o].cleared
    BY <1>2, <1>4 DEF ReviseDeal
  <1>5. ASSUME NEW d \in Deals, NEW m \in Members, NEW v \in 1..deals[d].terms, ConfirmDeal(d, v, m)
        PROVE  Dated(o) /\ obligations'[o].cleared = obligations[o].cleared
    <2>1. CASE obligations'[o] = obligations[o]
      BY <1>5, <2>1 DEF Dated, Exists, ConfirmDeal
    <2>2. CASE obligations'[o] # obligations[o]
      <3>1. v \in 1..Len(Revisions[d]) /\ Revisions[d] \in Seq((SUBSET Obligations) \ {{}})
        BY <1>5, TermsAssumption DEF IInv, ExchangeInv, Consistent, ConfirmDeal
      <3>2. /\ o \in Revisions[d][v]
            /\ obligations'[o] = [NoObligation EXCEPT !.status = "ACTIVE", !.terms = v, !.version = 1]
        BY <1>5, <2>2 DEF ConfirmDeal
      <3>3. Terms[o].deal = d
        BY <3>1, <3>2, TermsAssumption
      <3>4. ~Exists(o)
        BY <1>5, <3>3 DEF StatusInv, ConfirmDeal
      <3>5. obligations[o] = NoObligation
        BY <3>4 DEF AmountsInv, AmountsIn
      <3> QED BY <3>2, <3>4, <3>5 DEF Dated, NoObligation
    <2> QED BY <2>1, <2>2
  <1>6. ASSUME NEW p \in Obligations, NEW row, obligations' = [obligations EXCEPT ![p] = row],
               row.version = obligations[p].version + 1, row.status # "ABSENT",
               row.cleared = obligations[p].cleared, \A r \in Obligations \ {p} : disputes'[r] = disputes[r]
        PROVE  Dated(o) /\ obligations'[o].cleared = obligations[o].cleared
    <2>1. CASE o = p
      <3>1. obligations'[o] = row
        BY <1>6, <2>1 DEF IInv, ExchangeInv, ExchangeTypeOK
      <3> QED BY <1>1, <1>6, <2>1, <3>1 DEF Dated, Exists
    <2>2. CASE o # p
      <3>1. obligations'[o] = obligations[o] /\ disputes'[o] = disputes[o]
        BY <1>6, <2>2 DEF IInv, ExchangeInv, ExchangeTypeOK
      <3> QED BY <3>1 DEF Dated, Exists
    <2> QED BY <2>1, <2>2
  <1>7. \A p \in Obligations : obligations[p] \in ObligationRow /\ DOMAIN obligations = Obligations
    BY DEF IInv, ExchangeInv, ExchangeTypeOK
  <1>8. ASSUME NEW p \in Obligations, NEW k \in Slots, NEW q \in 1..Terms[p].total, SubmitFulfillment(p, k, q)
        PROVE  Dated(o) /\ obligations'[o].cleared = obligations[o].cleared
    <2> DEFINE row == [obligations[p] EXCEPT !.submitted = @ + q, !.version = @ + 1]
    <2>1. obligations' = [obligations EXCEPT ![p] = row] /\ disputes' = disputes
      BY <1>8 DEF SubmitFulfillment
    <2>2. /\ row.version = obligations[p].version + 1 /\ row.status = obligations[p].status
          /\ row.cleared = obligations[p].cleared
      BY <1>7 DEF ObligationRow
    <2>3. obligations[p].status # "ABSENT"
      BY <1>8 DEF SubmitFulfillment, MayWrite, Exists
    <2> HIDE DEF row
    <2> QED BY <1>6, <2>1, <2>2, <2>3
  <1>9. ASSUME NEW p \in Obligations, NEW k \in Slots, NEW a \in 0..Terms[p].total, AcceptFulfillment(p, k, a)
        PROVE  Dated(o) /\ obligations'[o].cleared = obligations[o].cleared
    <2> DEFINE old == Performed(obligations[p], fulfillments[p][k].quantity, a)
               row == [old EXCEPT !.status = StatusFor(p, old)]
    <2>1. obligations' = [obligations EXCEPT ![p] = row] /\ disputes' = disputes
      BY <1>9 DEF AcceptFulfillment
    <2>2. /\ old.version = obligations[p].version + 1 /\ old.cleared = obligations[p].cleared
          /\ DOMAIN old = {"status", "submitted", "fulfilled", "cleared", "terms", "version"}
      BY <1>7 DEF ObligationRow, Performed
    <2>3. StatusFor(p, old) # "ABSENT"
      BY StatusType DEF ObligationStatus, Operable
    <2>4. row.version = old.version /\ row.status # "ABSENT" /\ row.cleared = old.cleared
      <3> HIDE DEF old
      <3> QED BY <2>2, <2>3
    <2> HIDE DEF row, old
    <2> QED BY <1>6, <2>1, <2>2, <2>4
  <1>10. ASSUME NEW p \in Obligations, NEW k \in Slots \union {0}, OpenDispute(p, k)
         PROVE  Dated(o) /\ obligations'[o].cleared = obligations[o].cleared
    <2> DEFINE row == [obligations[p] EXCEPT !.status = "DISPUTED", !.version = @ + 1]
    <2>1. /\ obligations' = [obligations EXCEPT ![p] = row]
          /\ \A r \in Obligations \ {p} : disputes'[r] = disputes[r]
      BY <1>10 DEF OpenDispute, IInv, ExchangeInv, ExchangeTypeOK
    <2>2. /\ row.version = obligations[p].version + 1 /\ row.status = "DISPUTED"
          /\ row.cleared = obligations[p].cleared
      BY <1>7 DEF ObligationRow
    <2> HIDE DEF row
    <2> QED BY <1>6, <2>1, <2>2
  <1>11. ASSUME NEW p \in Obligations, NEW action \in Resolutions, ResolveDispute(p, action)
         PROVE  Dated(o) /\ obligations'[o].cleared = obligations[o].cleared
    <2> DEFINE row == [obligations[p] EXCEPT !.status = Resolved(action, disputes[p].obligationWas),
                                             !.version = @ + 1]
    <2>1. /\ obligations' = [obligations EXCEPT ![p] = row]
          /\ \A r \in Obligations \ {p} : disputes'[r] = disputes[r]
      BY <1>11 DEF ResolveDispute, IInv, ExchangeInv, ExchangeTypeOK
    <2>2. Resolved(action, disputes[p].obligationWas) # "ABSENT"
      BY <1>11 DEF Resolved, ResolveDispute, IInv, ExchangeInv, Consistent, ObligationStatus, Operable
    <2>3. /\ row.version = obligations[p].version + 1 /\ row.status # "ABSENT"
          /\ row.cleared = obligations[p].cleared
      BY <1>7, <2>2 DEF ObligationRow
    <2> HIDE DEF row
    <2> QED BY <1>6, <2>1, <2>3
  <1>12. ASSUME NEW asOf, NEW S \in SUBSET Obligations, MarkOverdue(asOf, S)
         PROVE  Dated(o) /\ obligations'[o].cleared = obligations[o].cleared
    <2>1. CASE o \in S
      <3>1. obligations'[o] = [obligations[o] EXCEPT !.status = "OVERDUE", !.version = @ + 1]
        BY <1>12, <2>1 DEF MarkOverdue
      <3>2. /\ obligations'[o].version = obligations[o].version + 1 /\ obligations'[o].status = "OVERDUE"
            /\ obligations'[o].cleared = obligations[o].cleared
        BY <1>1, <3>1 DEF ObligationRow
      <3> QED BY <1>1, <3>2 DEF Dated, Exists
    <2>2. CASE o \notin S
      BY <1>12, <2>2 DEF MarkOverdue, Dated, Exists
    <2> QED BY <2>1, <2>2
  <1> QED BY <1>3, <1>4, <1>5, <1>8, <1>9, <1>10, <1>11, <1>12 DEF ExchangeNext

LEMMA FinalizeRows ==
    ASSUME IInv, NEW c \in Cycles, NEW m \in Members, Finalize(c, m), NEW o \in Obligations
    PROVE  /\ o \in ClearedIn(c) => /\ obligations'[o].cleared = obligations[o].cleared + cycles[c].cleared[o]
                                    /\ obligations'[o].version = obligations[o].version + 1
                                    /\ obligations'[o].status # "ABSENT"
           /\ o \notin ClearedIn(c) => obligations'[o] = obligations[o]
  <1>1. ASSUME o \in ClearedIn(c)
        PROVE  /\ obligations'[o].cleared = obligations[o].cleared + cycles[c].cleared[o]
               /\ obligations'[o].version = obligations[o].version + 1
               /\ obligations'[o].status # "ABSENT"
    <2> DEFINE old == ClearedRow(obligations[o], cycles[c].cleared[o])
               row == [old EXCEPT !.status = StatusFor(o, old)]
    <2>1. obligations'[o] = row
      BY <1>1 DEF Finalize
    <2>2. obligations[o] \in ObligationRow
      BY DEF IInv, ExchangeInv, ExchangeTypeOK
    <2>3. /\ old.version = obligations[o].version + 1
          /\ old.cleared = obligations[o].cleared + cycles[c].cleared[o]
          /\ DOMAIN old = {"status", "submitted", "fulfilled", "cleared", "terms", "version"}
      BY <2>2 DEF ObligationRow, ClearedRow
    <2>4. StatusFor(o, old) # "ABSENT"
      BY StatusType DEF ObligationStatus, Operable
    <2>5. row.version = old.version /\ row.status # "ABSENT" /\ row.cleared = old.cleared
      <3> HIDE DEF old
      <3> QED BY <2>3, <2>4
    <2> HIDE DEF row, old
    <2> QED BY <2>1, <2>3, <2>5
  <1> QED BY <1>1 DEF Finalize

\* What finalize finds of its input: nothing excluded, disputed or awaiting a decision.
LEMMA FinalizeInput ==
    ASSUME IInv, AmountsInv, FrozenInv, NEW c \in Cycles, NEW m \in Members, Finalize(c, m)
    PROVE  /\ \A o \in DOMAIN cycles[c].entries : /\ cycles[c].entries[o].reason = "INCLUDED"
                                                  /\ ~disputes[o].open /\ obligations[o].submitted = 0
           /\ cycles[c].cleared = Netting(InputOf(cycles[c].entries))
           /\ DOMAIN cycles[c].cleared = DOMAIN cycles[c].entries
           /\ cycles[c].disputes = {}
           /\ ClearedIn(c) \subseteq Obligations
  <1>1. /\ InOrder(cycles[c]) /\ cycles[c] \in CycleRow /\ InputUnchanged(c)
        /\ cycles[c].status = "READY_TO_FINALIZE" /\ ResultOfSnapshot(cycles[c])
    BY DEF IInv, Finalize, FrozenInv
  <1>2. cycles[c].cleared = Netting(InputOf(cycles[c].entries)) /\ cycles[c].disputes = {}
    BY <1>1 DEF ResultOfSnapshot, Early
  <1>3. DOMAIN cycles[c].cleared = DOMAIN cycles[c].entries
    <2>1. Netting(InputOf(cycles[c].entries)) \in [DOMAIN InputOf(cycles[c].entries) -> Nat]
      BY <1>1, SnapshotIsInput, ClearingAssumption
    <2> QED BY <1>1, <1>2, <2>1, SnapshotIsInput
  <1>4. ASSUME NEW o \in DOMAIN cycles[c].entries
        PROVE  /\ cycles[c].entries[o].reason = "INCLUDED"
               /\ ~disputes[o].open /\ obligations[o].submitted = 0
    <2> DEFINE entry == cycles[c].entries[o]
    <2>1. o \in Obligations
      BY <1>1 DEF CycleRow
    <2>2. /\ obligations[o].version = entry.version /\ Remaining(o, obligations[o]) = entry.amount
          /\ obligations[o].status \in Operable
      BY <1>1 DEF InputUnchanged, Unchanged
    <2>3. entry.reason = ReasonFor(o) /\ entry.amount = Outstanding(o)
      BY <2>2 DEF FrozenInv, Frozen
    <2>4. obligations[o].submitted = 0
      <3>1. obligations[o] \in ObligationRow /\ Terms[o].total \in Nat
        BY <2>1, TermsAssumption DEF IInv, ExchangeInv, ExchangeTypeOK, Line
      <3> HIDE DEF entry
      <3> QED BY <2>2, <2>3, <3>1 DEF Remaining, Outstanding, ObligationRow
    <2>5. ~disputes[o].open
      BY <2>1, <2>2 DEF AmountsInv, AmountsIn, Operable
    <2> QED BY <2>2, <2>3, <2>4, <2>5 DEF ReasonFor, Operable
  <1>5. ClearedIn(c) \subseteq Obligations
    BY <1>1 DEF ClearedIn, CycleRow
  <1> QED BY <1>2, <1>3, <1>4, <1>5

\* Commands on cycles other than finalize leave the obligations alone.
LEMMA FrozenMove ==
    ASSUME IInv, FrozenInv, UNCHANGED exchangeVars, NEW c \in Cycles, NEW row,
           cycles' = [cycles EXCEPT ![c] = row], ResultOfSnapshot(row),
           \A o \in DOMAIN row.entries : Frozen(o, row.entries[o])
    PROVE  FrozenInv'
  <1>1. ASSUME NEW e \in Cycles
        PROVE  /\ ResultOfSnapshot(cycles'[e])
               /\ \A o \in DOMAIN cycles'[e].entries : Frozen(o, cycles'[e].entries[o])
    <2>1. cycles'[e] = IF e = c THEN row ELSE cycles[e]
      BY DEF IInv
    <2> QED BY <2>1 DEF FrozenInv
  <1>2. \A o, entry : Frozen(o, entry)' <=> Frozen(o, entry)
    BY DEF exchangeVars, Frozen, Exists, ReasonFor, Outstanding
  <1> QED BY <1>1, <1>2 DEF FrozenInv, ResultOfSnapshot

LEMMA FrozenDates ==
    ASSUME IInv, IInv', FrozenInv, \A c \in Cycles : cycles'[c].entries = cycles[c].entries,
           \A c \in Cycles : ResultOfSnapshot(cycles'[c]), \A o \in Obligations : Dated(o)
    PROVE  FrozenInv'
  <1>1. ASSUME NEW c \in Cycles, NEW o \in DOMAIN cycles[c].entries PROVE Frozen(o, cycles[c].entries[o])'
    <2>1. cycles[c] \in CycleRow /\ Frozen(o, cycles[c].entries[o])
      BY DEF IInv, FrozenInv
    <2>2. o \in Obligations /\ cycles[c].entries[o] \in Entry
      BY <2>1 DEF CycleRow
    <2> DEFINE entry == cycles[c].entries[o]
    <2>3. Frozen(o, entry)
      BY <2>1
    <2>4. ExchangeTypeOK /\ ExchangeTypeOK' /\ Dated(o) /\ cycles'[c].entries[o] = entry
      BY <2>2 DEF IInv, ExchangeInv
    <2>5. /\ obligations[o].version \in Nat /\ obligations'[o].version \in Nat /\ entry.version \in Nat
      BY <2>2, <2>4 DEF ExchangeTypeOK, ObligationRow, Entry
    <2> HIDE DEF entry
    <2>6. CASE obligations'[o].version > obligations[o].version
      BY <2>3, <2>4, <2>5, <2>6 DEF Frozen, Dated, entry
    <2>7. CASE obligations'[o] = obligations[o] /\ disputes'[o].open = disputes[o].open
      BY <2>3, <2>4, <2>7 DEF Frozen, Dated, Exists, ReasonFor, Outstanding, entry
    <2> QED BY <2>3, <2>4, <2>6, <2>7 DEF Dated, Frozen
  <1> QED BY <1>1 DEF FrozenInv, ResultOfSnapshot

LEMMA FrozenFinalize ==
    ASSUME IInv, IInv', FrozenInv, NEW c \in Cycles, NEW m \in Members, Finalize(c, m)
    PROVE  FrozenInv'
  <1>1. cycles[c] \in CycleRow /\ cycles[c].status = "READY_TO_FINALIZE"
        /\ cycles' = [cycles EXCEPT ![c].status = "FINALIZED", ![c].finalizer = m]
    BY DEF IInv, Finalize
  <1>2. \A e \in Cycles : /\ cycles'[e].entries = cycles[e].entries
                          /\ ResultOfSnapshot(cycles'[e])
    <2> SUFFICES ASSUME NEW e \in Cycles
                 PROVE  cycles'[e].entries = cycles[e].entries /\ ResultOfSnapshot(cycles'[e])
      OBVIOUS
    <2>1. ResultOfSnapshot(cycles[e])
      BY DEF FrozenInv
    <2>2. CASE e = c
      <3>1. /\ cycles'[e].entries = cycles[e].entries /\ cycles'[e].cleared = cycles[e].cleared
            /\ cycles'[e].status = "FINALIZED"
        BY <1>1, <2>2 DEF IInv, CycleRow
      <3> QED BY <1>1, <2>1, <2>2, <3>1 DEF ResultOfSnapshot, Early
    <2>3. CASE e # c
      BY <1>1, <2>1, <2>3 DEF IInv
    <2> QED BY <2>2, <2>3
  <1>3. \A o \in Obligations : Dated(o)
    <2> SUFFICES ASSUME NEW o \in Obligations PROVE Dated(o)
      OBVIOUS
    <2>1. obligations[o].version \in Nat /\ disputes' = disputes
      BY DEF IInv, ExchangeInv, ExchangeTypeOK, ObligationRow, Finalize
    <2> QED BY <2>1, FinalizeRows DEF Dated, Exists
  <1> QED BY <1>2, <1>3, FrozenDates

LEMMA FrozenStep ==
    ASSUME IInv, StatusInv, AmountsInv, FrozenInv, [Next]_vars
    PROVE  FrozenInv'
  <1>1. IInv'
    BY InvStep
  <1>2. ASSUME UNCHANGED <<exchangeVars, cycles>> PROVE FrozenInv'
    BY <1>2 DEF exchangeVars, FrozenInv, ResultOfSnapshot, Frozen, Exists, ReasonFor, Outstanding
  <1>3. CASE UNCHANGED vars
    BY <1>2, <1>3 DEF vars, clearingVars
  <1>4. CASE ExchangeNext /\ UNCHANGED clearingVars
    <2>1. cycles' = cycles /\ \A o \in Obligations : Dated(o)
      BY <1>4, ExchangeDates DEF clearingVars
    <2> QED BY <1>1, <2>1, FrozenDates DEF FrozenInv
  <1>5. ASSUME NEW c \in Cycles
        PROVE  /\ cycles[c] \in CycleRow /\ ResultOfSnapshot(cycles[c])
               /\ \A o \in DOMAIN cycles[c].entries : Frozen(o, cycles[c].entries[o])
    BY DEF IInv, FrozenInv
  \* A row that keeps its snapshot and its result, in a phase that asks for no more.
  <1>6. ASSUME NEW c \in Cycles, UNCHANGED exchangeVars, NEW row, cycles' = [cycles EXCEPT ![c] = row],
               row.entries = cycles[c].entries, row.cleared = cycles[c].cleared,
               row.status \in Early \/ cycles[c].status \notin Early,
               row.status = "READY_TO_FINALIZE" => row.disputes = {}
        PROVE  FrozenInv'
    <2>1. ResultOfSnapshot(row)
      BY <1>5, <1>6 DEF ResultOfSnapshot
    <2> QED BY <1>5, <1>6, <2>1, FrozenMove
  <1>7. ASSUME NEW p \in Policies, NEW m \in Members, ProposePolicy(p, m) \/ ApprovePolicy(p, m) PROVE FrozenInv'
    BY <1>2, <1>7 DEF ProposePolicy, ApprovePolicy
  <1>8. ASSUME NEW c \in Cycles, NEW p \in Policies, NEW m \in Members, CreateCycle(c, p, m) PROVE FrozenInv'
    <2> DEFINE row == [cycles[c] EXCEPT !.status = "DRAFT", !.policy = p, !.creator = m]
    <2>1. UNCHANGED exchangeVars /\ cycles' = [cycles EXCEPT ![c] = row]
      BY <1>8 DEF CreateCycle
    <2>2. row.entries = cycles[c].entries /\ row.cleared = cycles[c].cleared /\ row.status = "DRAFT"
      BY <1>5 DEF CycleRow
    <2> HIDE DEF row
    <2> QED BY <1>6, <2>1, <2>2 DEF Early
  <1>9. ASSUME NEW c \in Cycles, Collect(c) PROVE FrozenInv'
    <2> DEFINE row == [cycles[c] EXCEPT !.status = "COLLECTING"]
    <2>1. UNCHANGED exchangeVars /\ cycles' = [cycles EXCEPT ![c] = row]
      BY <1>9 DEF Collect, Step
    <2>2. row.entries = cycles[c].entries /\ row.cleared = cycles[c].cleared /\ row.status = "COLLECTING"
      BY <1>5 DEF CycleRow
    <2> HIDE DEF row
    <2> QED BY <1>6, <2>1, <2>2 DEF Early
  <1>10. ASSUME NEW c \in Cycles, FreezeInput(c) PROVE FrozenInv'
    <2> DEFINE row == [cycles[c] EXCEPT !.status = "INPUT_FROZEN", !.entries = InputEntries]
    <2>1. UNCHANGED exchangeVars /\ cycles' = [cycles EXCEPT ![c] = row]
      BY <1>10 DEF FreezeInput, Step
    <2>2. row.entries = InputEntries /\ row.status = "INPUT_FROZEN"
      BY <1>5 DEF CycleRow
    <2>3. ASSUME NEW o \in DOMAIN InputEntries PROVE Frozen(o, InputEntries[o])
      <3>1. o \in Candidates
        BY DEF InputEntries
      <3>2. obligations[o].version \in Nat /\ Exists(o)
        BY <3>1 DEF Candidates, IInv, ExchangeInv, ExchangeTypeOK, ObligationRow
      <3>3. InputEntries[o] = [amount |-> Outstanding(o), version |-> obligations[o].version,
                               reason |-> ReasonFor(o)]
        BY <3>1 DEF InputEntries
      <3> HIDE DEF InputEntries
      <3> QED BY <3>2, <3>3 DEF Frozen
    <2> HIDE DEF row
    <2> QED BY <2>1, <2>2, <2>3, FrozenMove DEF ResultOfSnapshot, Early
  <1>11. ASSUME NEW c \in Cycles, Preview(c) PROVE FrozenInv'
    <2> DEFINE row == [cycles[c] EXCEPT !.status = "PREVIEWED", !.cleared = Netting(InputOf(cycles[c].entries))]
    <2>1. UNCHANGED exchangeVars /\ cycles' = [cycles EXCEPT ![c] = row]
      BY <1>11 DEF Preview, Step
    <2>2. /\ row.entries = cycles[c].entries /\ row.cleared = Netting(InputOf(cycles[c].entries))
          /\ row.status = "PREVIEWED"
      BY <1>5 DEF CycleRow
    <2> HIDE DEF row
    <2> QED BY <1>5, <2>1, <2>2, FrozenMove DEF ResultOfSnapshot
  <1>12. ASSUME NEW c \in Cycles, NEW m \in Members, ApprovePreview(c, m) PROVE FrozenInv'
    <2> DEFINE old == [cycles[c] EXCEPT !.approvals = @ \union {m}]
               new == [old EXCEPT !.status = "DISPUTE_WINDOW", !.until = now + DisputeWindow]
    <2>1. /\ UNCHANGED exchangeVars /\ cycles[c].status = "PREVIEWED"
          /\ cycles' = [cycles EXCEPT ![c] = old] \/ cycles' = [cycles EXCEPT ![c] = new]
      BY <1>12 DEF ApprovePreview, Step
    <2>2. /\ old.entries = cycles[c].entries /\ old.cleared = cycles[c].cleared /\ old.status = "PREVIEWED"
          /\ new.entries = cycles[c].entries /\ new.cleared = cycles[c].cleared /\ new.status = "DISPUTE_WINDOW"
      BY <1>5, <2>1 DEF CycleRow
    <2> HIDE DEF old, new
    <2> QED BY <1>6, <2>1, <2>2 DEF Early
  <1>13. ASSUME NEW c \in Cycles, NEW o \in Obligations, DisputeEntry(c, o) PROVE FrozenInv'
    <2> DEFINE row == [cycles[c] EXCEPT !.status = "DISPUTED",
                                        !.disputes = @ \union {[entry |-> o, upheld |-> FALSE]}]
    <2>1. UNCHANGED exchangeVars /\ cycles' = [cycles EXCEPT ![c] = row] /\ cycles[c].status = "DISPUTE_WINDOW"
      BY <1>13 DEF DisputeEntry
    <2>2. row.entries = cycles[c].entries /\ row.cleared = cycles[c].cleared /\ row.status = "DISPUTED"
      BY <1>5 DEF CycleRow
    <2> HIDE DEF row
    <2> QED BY <1>6, <2>1, <2>2 DEF Early
  <1>14. ASSUME NEW c \in Cycles, NEW uphold \in BOOLEAN, NEW claim \in cycles[c].disputes,
                DecideDispute(c, claim, uphold)
         PROVE  FrozenInv'
    <2>1. PICK D, s : /\ cycles' = [cycles EXCEPT ![c] = [cycles[c] EXCEPT !.disputes = D, !.status = s]]
                      /\ s \in {"DISPUTED", "DISPUTE_WINDOW"}
      <3> DEFINE rest == cycles[c].disputes \ {claim}
                 D1   == rest \union {[claim EXCEPT !.upheld = TRUE]}
      <3>1. CASE uphold
        <4>1. cycles' = [cycles EXCEPT ![c] = [cycles[c] EXCEPT !.disputes = D1]] /\ cycles[c].status = "DISPUTED"
          BY <1>14, <3>1 DEF DecideDispute
        <4>2. [cycles[c] EXCEPT !.disputes = D1] = [cycles[c] EXCEPT !.disputes = D1, !.status = "DISPUTED"]
          BY <1>5, <4>1 DEF CycleRow
        <4> HIDE DEF D1
        <4> QED BY <4>1, <4>2
      <3>2. CASE ~uphold
        BY <1>14, <3>2 DEF DecideDispute
      <3> QED BY <3>1, <3>2
    <2> DEFINE row == [cycles[c] EXCEPT !.disputes = D, !.status = s]
    <2>2. UNCHANGED exchangeVars /\ cycles[c].status = "DISPUTED"
      BY <1>14 DEF DecideDispute
    <2>3. row.entries = cycles[c].entries /\ row.cleared = cycles[c].cleared /\ row.status = s
      BY <1>5 DEF CycleRow
    <2> HIDE DEF row
    <2> QED BY <1>6, <2>1, <2>2, <2>3 DEF Early, row
  <1>15. ASSUME NEW c \in Cycles, MarkReady(c) PROVE FrozenInv'
    <2> DEFINE row == [cycles[c] EXCEPT !.status = "READY_TO_FINALIZE"]
    <2>1. /\ UNCHANGED exchangeVars /\ cycles' = [cycles EXCEPT ![c] = row]
          /\ cycles[c].status = "DISPUTE_WINDOW" /\ cycles[c].disputes = {}
      BY <1>15 DEF MarkReady, Step
    <2>2. row.entries = cycles[c].entries /\ row.cleared = cycles[c].cleared /\ row.disputes = cycles[c].disputes
      BY <1>5 DEF CycleRow
    <2> HIDE DEF row
    <2> QED BY <1>6, <2>1, <2>2 DEF Early
  <1>16. ASSUME NEW c \in Cycles, Reconcile(c) PROVE FrozenInv'
    <2> DEFINE row == [cycles[c] EXCEPT !.status = "RECONCILED"]
    <2>1. UNCHANGED exchangeVars /\ cycles' = [cycles EXCEPT ![c] = row] /\ cycles[c].status = "FINALIZED"
      BY <1>16 DEF Reconcile
    <2>2. row.entries = cycles[c].entries /\ row.cleared = cycles[c].cleared /\ row.status = "RECONCILED"
      BY <1>5 DEF CycleRow
    <2> HIDE DEF row
    <2> QED BY <1>6, <2>1, <2>2 DEF Early
  <1>17. ASSUME NEW c \in Cycles, NEW m \in Members, Finalize(c, m) PROVE FrozenInv'
    BY <1>1, <1>17, FrozenFinalize
  <1>18. CASE ClearingNext
    BY <1>7, <1>8, <1>9, <1>10, <1>11, <1>12, <1>13, <1>14, <1>15, <1>16, <1>17, <1>18 DEF ClearingNext
  <1> QED BY <1>3, <1>4, <1>18 DEF Next

LEMMA FrozenHolds == Spec => []FrozenInv
  <1>1. Init => FrozenInv
    <2> SUFFICES ASSUME Init, NEW c \in Cycles
                 PROVE  /\ ResultOfSnapshot(cycles[c])
                        /\ \A o \in DOMAIN cycles[c].entries : Frozen(o, cycles[c].entries[o])
      BY DEF FrozenInv
    <2>1. cycles[c] = NoCycle /\ DOMAIN Empty = {}
      BY DEF Init, Empty
    <2>2. cycles[c].status = "ABSENT" /\ cycles[c].entries = Empty
      BY <2>1 DEF NoCycle
    <2> QED BY <2>1, <2>2 DEF ResultOfSnapshot, Early
  <1> QED BY <1>1, LocalInvariant, StatusHolds, AmountsHold, FrozenStep, PTL DEF Spec

\* What every command but finalize leaves alone.
NothingCleared ==
    /\ \A o \in Obligations : obligations'[o].cleared = obligations[o].cleared
    /\ Done' = Done /\ \A d \in Done : cycles'[d].cleared = cycles[d].cleared

LEMMA OnlyFinalizeClears ==
    ASSUME IInv, StatusInv, AmountsInv, [Next]_vars
    PROVE  NothingCleared \/ \E c \in Cycles, m \in Members : Finalize(c, m)
  <1>1. ASSUME NEW c \in Cycles PROVE cycles[c] \in CycleRow
    BY DEF IInv
  <1>2. ASSUME UNCHANGED <<obligations, cycles>> PROVE NothingCleared
    BY <1>2 DEF NothingCleared, Done
  <1>3. ASSUME UNCHANGED exchangeVars, NEW c \in Cycles, NEW row, cycles' = [cycles EXCEPT ![c] = row],
               c \notin Done, row.status \notin {"FINALIZED", "RECONCILED"}
        PROVE  NothingCleared
    <2>1. \A d \in Cycles : cycles'[d] = IF d = c THEN row ELSE cycles[d]
      BY <1>3 DEF IInv
    <2>2. Done' = Done /\ \A d \in Done : cycles'[d] = cycles[d]
      BY <1>3, <2>1 DEF Done
    <2> QED BY <1>3, <2>2 DEF NothingCleared, exchangeVars
  <1>4. CASE UNCHANGED vars
    BY <1>2, <1>4 DEF vars, exchangeVars, clearingVars
  <1>5. CASE ExchangeNext /\ UNCHANGED clearingVars
    <2>1. \A o \in Obligations : obligations'[o].cleared = obligations[o].cleared
      BY <1>5, ExchangeDates
    <2> QED BY <1>5, <2>1 DEF NothingCleared, clearingVars, Done
  <1>6. ASSUME NEW p \in Policies, NEW m \in Members, ProposePolicy(p, m) \/ ApprovePolicy(p, m)
        PROVE  NothingCleared
    BY <1>2, <1>6 DEF ProposePolicy, ApprovePolicy, exchangeVars
  <1>7. ASSUME NEW c \in Cycles, NEW p \in Policies, NEW m \in Members, CreateCycle(c, p, m)
        PROVE  NothingCleared
    <2> DEFINE row == [cycles[c] EXCEPT !.status = "DRAFT", !.policy = p, !.creator = m]
    <2>1. /\ UNCHANGED exchangeVars /\ cycles' = [cycles EXCEPT ![c] = row]
          /\ c \notin Done
      BY <1>7 DEF CreateCycle, Done
    <2>2. row.status = "DRAFT"
      BY <1>1 DEF CycleRow
    <2> HIDE DEF row
    <2> QED BY <1>3, <2>1, <2>2
  <1>8. ASSUME NEW c \in Cycles, NEW from, NEW row, Step(c, from, row),
               from \intersect {"FINALIZED", "RECONCILED"} = {}, row.status \notin {"FINALIZED", "RECONCILED"}
        PROVE  NothingCleared
    BY <1>3, <1>8 DEF Step, Done
  <1>9. ASSUME NEW c \in Cycles, Collect(c) PROVE NothingCleared
    <2> DEFINE row == [cycles[c] EXCEPT !.status = "COLLECTING"]
    <2>1. row.status = "COLLECTING" /\ Step(c, {"DRAFT", "COLLECTING"}, row)
      BY <1>1, <1>9 DEF CycleRow, Collect
    <2> HIDE DEF row
    <2> QED BY <1>8, <2>1
  <1>10. ASSUME NEW c \in Cycles, FreezeInput(c) PROVE NothingCleared
    <2> DEFINE row == [cycles[c] EXCEPT !.status = "INPUT_FROZEN", !.entries = InputEntries]
    <2>1. row.status = "INPUT_FROZEN" /\ Step(c, {"COLLECTING"}, row)
      BY <1>1, <1>10 DEF CycleRow, FreezeInput
    <2> HIDE DEF row
    <2> QED BY <1>8, <2>1
  <1>11. ASSUME NEW c \in Cycles, Preview(c) PROVE NothingCleared
    <2> DEFINE row == [cycles[c] EXCEPT !.status = "PREVIEWED", !.cleared = Netting(InputOf(cycles[c].entries))]
    <2>1. row.status = "PREVIEWED" /\ Step(c, {"INPUT_FROZEN"}, row)
      BY <1>1, <1>11 DEF CycleRow, Preview
    <2> HIDE DEF row
    <2> QED BY <1>8, <2>1
  <1>12. ASSUME NEW c \in Cycles, MarkReady(c) PROVE NothingCleared
    <2> DEFINE row == [cycles[c] EXCEPT !.status = "READY_TO_FINALIZE"]
    <2>1. row.status = "READY_TO_FINALIZE" /\ Step(c, {"DISPUTE_WINDOW"}, row)
      BY <1>1, <1>12 DEF CycleRow, MarkReady
    <2> HIDE DEF row
    <2> QED BY <1>8, <2>1
  <1>13. ASSUME NEW c \in Cycles, Reconcile(c) PROVE NothingCleared
    <2>1. /\ cycles' = [cycles EXCEPT ![c] = [cycles[c] EXCEPT !.status = "RECONCILED"]]
          /\ cycles[c].status = "FINALIZED" /\ UNCHANGED exchangeVars
      BY <1>13 DEF Reconcile
    <2>2. /\ [cycles[c] EXCEPT !.status = "RECONCILED"].status = "RECONCILED"
          /\ [cycles[c] EXCEPT !.status = "RECONCILED"].cleared = cycles[c].cleared
      BY <1>1 DEF CycleRow
    <2>3. \A d \in Cycles : cycles'[d] = IF d = c THEN [cycles[c] EXCEPT !.status = "RECONCILED"] ELSE cycles[d]
      BY <2>1 DEF IInv
    <2>4. Done' = Done /\ \A d \in Done : cycles'[d].cleared = cycles[d].cleared
      BY <2>1, <2>2, <2>3 DEF Done
    <2> QED BY <2>1, <2>4 DEF NothingCleared, exchangeVars
  <1>14. ASSUME NEW c \in Cycles, NEW m \in Members, ApprovePreview(c, m) PROVE NothingCleared
    <2> DEFINE old == [cycles[c] EXCEPT !.approvals = @ \union {m}]
               new == [old EXCEPT !.status = "DISPUTE_WINDOW", !.until = now + DisputeWindow]
    <2>1. cycles[c].status = "PREVIEWED" /\ (Step(c, {"PREVIEWED"}, old) \/ Step(c, {"PREVIEWED"}, new))
      BY <1>14 DEF ApprovePreview, Step
    <2>2. old.status = "PREVIEWED" /\ new.status = "DISPUTE_WINDOW"
      BY <1>1, <2>1 DEF CycleRow
    <2> HIDE DEF old, new
    <2> QED BY <1>8, <2>1, <2>2
  <1>15. ASSUME NEW c \in Cycles, NEW o \in Obligations, DisputeEntry(c, o) PROVE NothingCleared
    <2> DEFINE row == [cycles[c] EXCEPT !.status = "DISPUTED",
                                        !.disputes = @ \union {[entry |-> o, upheld |-> FALSE]}]
    <2>1. UNCHANGED exchangeVars /\ cycles' = [cycles EXCEPT ![c] = row] /\ c \notin Done
      BY <1>15 DEF DisputeEntry, Done
    <2>2. row.status = "DISPUTED"
      BY <1>1 DEF CycleRow
    <2> HIDE DEF row
    <2> QED BY <1>3, <2>1, <2>2
  <1>16. ASSUME NEW c \in Cycles, NEW uphold \in BOOLEAN, NEW claim \in cycles[c].disputes,
                DecideDispute(c, claim, uphold)
         PROVE  NothingCleared
    <2>1. UNCHANGED exchangeVars /\ cycles[c].status = "DISPUTED" /\ c \notin Done
      BY <1>16 DEF DecideDispute, Done
    <2>2. cycles'[c].status \in {"DISPUTED", "DISPUTE_WINDOW"} /\ cycles' = [cycles EXCEPT ![c] = cycles'[c]]
      BY <1>1, <1>16, <2>1 DEF DecideDispute, CycleRow, IInv
    <2> QED BY <1>3, <2>1, <2>2
  <1>17. CASE ClearingNext
    BY <1>6, <1>7, <1>9, <1>10, <1>11, <1>12, <1>13, <1>14, <1>15, <1>16, <1>17 DEF ClearingNext
  <1> QED BY <1>4, <1>5, <1>17 DEF Next

\* What is recorded as cleared of an obligation is what the finalized cycles cleared of it, however
\* many cycles share it (finalize adds to quantity_cleared, and a cycle is finalized once).
THEOREM ClearedByFinalized == Spec => []ClearedByCycles
  <1> DEFINE Sharing(o) == {d \in Done : o \in DOMAIN cycles[d].cleared}
             Amounts(o) == [c \in Sharing(o) |-> cycles[c].cleared[o]]
  <1>1. Init => ClearedByCycles
    <2> SUFFICES ASSUME Init, NEW o \in Obligations
                 PROVE  obligations[o].cleared = SumFunction(Amounts(o))
      BY DEF ClearedByCycles
    <2>1. Sharing(o) = {}
      BY DEF Init, Done, NoCycle
    <2>2. SumFunction(Amounts(o)) = 0
      <3>1. DOMAIN Amounts(o) = {}
        BY <2>1
      <3> HIDE DEF Amounts
      <3> QED BY <3>1, SumOfAll, SumEmpty
    <2> QED BY <2>2 DEF Init, ExchangeInit, NoObligation
  <1>2. ASSUME IInv, StatusInv, AmountsInv, FrozenInv, ClearedByCycles, [Next]_vars PROVE ClearedByCycles'
    <2> SUFFICES ASSUME NEW o \in Obligations
                 PROVE  obligations'[o].cleared = SumFunction(Amounts(o)')
      BY DEF ClearedByCycles
    <2>1. obligations[o].cleared = SumFunction(Amounts(o))
      BY <1>2 DEF ClearedByCycles
    <2>2. CASE NothingCleared
      <3>1. Sharing(o)' = Sharing(o) /\ \A d \in Sharing(o) : cycles'[d].cleared[o] = cycles[d].cleared[o]
        BY <2>2 DEF NothingCleared
      <3>2. Amounts(o)' = Amounts(o)
        BY <3>1
      <3> QED BY <2>1, <2>2, <3>2 DEF NothingCleared
    <2>3. ASSUME NEW c \in Cycles, NEW m \in Members, Finalize(c, m)
          PROVE  obligations'[o].cleared = SumFunction(Amounts(o)')
      <3>1. cycles[c].status = "READY_TO_FINALIZE" /\ cycles[c] \in CycleRow /\ c \notin Done
        BY <1>2, <2>3 DEF Finalize, IInv, Done
      <3>2. \A d \in Cycles : /\ cycles'[d].cleared = cycles[d].cleared
                              /\ cycles'[d].status = IF d = c THEN "FINALIZED" ELSE cycles[d].status
        BY <1>2, <2>3, <3>1 DEF Finalize, IInv, CycleRow
      <3>3. Done' = Done \union {c}
        BY <3>2 DEF Done
      <3>4. Sharing(o)' = Sharing(o) \union (IF o \in DOMAIN cycles[c].cleared THEN {c} ELSE {})
        BY <3>2, <3>3 DEF Done
      <3>5. IsFiniteSet(Sharing(o)) /\ IsFiniteSet(Sharing(o)') /\ Sharing(o) \subseteq Cycles
        <4>1. Sharing(o) \subseteq Cycles /\ Sharing(o)' \subseteq Cycles
          BY DEF Done
        <4> QED BY <4>1, ClearingAssumption, FS_Subset
      <3>6. \A d \in Sharing(o)' : Amounts(o)'[d] \in Int /\ Amounts(o)'[d] = cycles[d].cleared[o]
        <4> SUFFICES ASSUME NEW d \in Sharing(o)' PROVE Amounts(o)'[d] \in Int /\ Amounts(o)'[d] = cycles[d].cleared[o]
          OBVIOUS
        <4>1. d \in Cycles /\ o \in DOMAIN cycles[d].cleared
          BY <3>2 DEF Done
        <4>2. cycles[d].cleared[o] \in Nat
          BY <1>2, <4>1 DEF IInv, CycleRow
        <4> QED BY <3>2, <4>1, <4>2
      <3>7. \A d \in Sharing(o) : Amounts(o)[d] = Amounts(o)'[d]
        BY <3>4, <3>6
      <3>8. /\ SumFunction(Amounts(o)) = SumFunctionOnSet(Amounts(o), Sharing(o))
            /\ SumFunction(Amounts(o)') = SumFunctionOnSet(Amounts(o)', Sharing(o)')
        <4>1. DOMAIN Amounts(o) = Sharing(o) /\ DOMAIN Amounts(o)' = Sharing(o)'
          OBVIOUS
        <4> HIDE DEF Amounts, Sharing
        <4> QED BY <4>1, SumOfAll
      <3>9. SumFunctionOnSet(Amounts(o), Sharing(o)) = SumFunctionOnSet(Amounts(o)', Sharing(o))
        <4> HIDE DEF Amounts, Sharing
        <4> QED BY <3>5, <3>7, SumSame
      <3>10. obligations[o].cleared \in Nat
        BY <1>2 DEF IInv, ExchangeInv, ExchangeTypeOK, ObligationRow
      <3>11. obligations'[o].cleared = obligations[o].cleared +
                (IF o \in DOMAIN cycles[c].cleared THEN cycles[c].cleared[o] ELSE 0)
        <4>1. o \in DOMAIN cycles[c].cleared => cycles[c].cleared[o] \in Nat
          BY <3>1 DEF CycleRow
        <4> QED BY <1>2, <2>3, <3>10, <4>1, FinalizeRows DEF ClearedIn
      <3>12. CASE o \in DOMAIN cycles[c].cleared
        <4>1. Sharing(o)' = Sharing(o) \union {c} /\ c \notin Sharing(o) /\ Amounts(o)'[c] = cycles[c].cleared[o]
          BY <3>1, <3>4, <3>6, <3>12
        <4>2. SumFunctionOnSet(Amounts(o)', Sharing(o)') = SumFunctionOnSet(Amounts(o)', Sharing(o)) + Amounts(o)'[c]
          <5> HIDE DEF Amounts, Sharing
          <5>1. \A d \in Sharing(o) \union {c} : Amounts(o)'[d] \in Int
            BY <3>6, <4>1
          <5> QED BY <3>5, <4>1, <5>1, SumAdd
        <4> HIDE DEF Amounts, Sharing
        <4> QED BY <2>1, <3>8, <3>9, <3>11, <3>12, <4>1, <4>2
      <3>13. CASE o \notin DOMAIN cycles[c].cleared
        <4>1. Sharing(o)' = Sharing(o)
          BY <3>4, <3>13
        <4> HIDE DEF Amounts, Sharing
        <4> QED BY <2>1, <3>8, <3>9, <3>10, <3>11, <3>13, <4>1
      <3> QED BY <3>12, <3>13
    <2> QED BY <1>2, <2>2, <2>3, OnlyFinalizeClears
  <1> HIDE DEF Sharing, Amounts
  <1> QED BY <1>1, <1>2, LocalInvariant, StatusHolds, AmountsHold, FrozenHolds, PTL DEF Spec

\* Over any set of obligations, finalize adds what the result of the cycle clears of those in it.
LEMMA FinalizeAdds ==
    ASSUME IInv, AmountsInv, FrozenInv, NEW c \in Cycles, NEW m \in Members, Finalize(c, m),
           NEW P \in SUBSET Obligations, NEW Q, Q = P \intersect DOMAIN cycles[c].cleared
    PROVE  SumFunction([o \in P |-> obligations'[o].cleared])
              = SumFunction([o \in P |-> obligations[o].cleared])
                  + SumFunction([o \in Q |-> cycles[c].cleared[o]])
  <1> DEFINE f == [o \in P |-> obligations[o].cleared]
             h == [o \in P |-> obligations'[o].cleared]
             g == [o \in P |-> IF o \in ClearedIn(c) THEN cycles[c].cleared[o] ELSE 0]
             k == [o \in Q |-> cycles[c].cleared[o]]
  <1>1. cycles[c] \in CycleRow /\ ClearedIn(c) \subseteq DOMAIN cycles[c].cleared
    BY DEF IInv, ClearedIn
  <1>2. IsFiniteSet(P) /\ IsFiniteSet(Q) /\ Q \in SUBSET P
    <2>1. P \subseteq Obligations /\ Q \subseteq Obligations
      OBVIOUS
    <2> QED BY <2>1, ExchangeBounds, FS_Subset
  <1>3. \A o \in P : f[o] \in Int /\ g[o] \in Int /\ h[o] = f[o] + g[o]
    <2> SUFFICES ASSUME NEW o \in P PROVE f[o] \in Int /\ g[o] \in Int /\ h[o] = f[o] + g[o]
      OBVIOUS
    <2>1. obligations[o].cleared \in Nat
      BY DEF IInv, ExchangeInv, ExchangeTypeOK, ObligationRow
    <2>2. o \in ClearedIn(c) => cycles[c].cleared[o] \in Nat
      BY <1>1 DEF CycleRow
    <2> QED BY <2>1, <2>2, FinalizeRows
  <1>4. \A o \in P \ Q : g[o] = 0
    BY <1>1
  <1>5. \A o \in Q : g[o] = k[o]
    <2> SUFFICES ASSUME NEW o \in Q PROVE g[o] = k[o]
      OBVIOUS
    <2>1. o \in DOMAIN cycles[c].cleared /\ cycles[c].cleared[o] \in Nat
      BY <1>1 DEF CycleRow
    <2> QED BY <2>1 DEF ClearedIn
  <1>6. DOMAIN f = P /\ DOMAIN h = P /\ DOMAIN k = Q
    OBVIOUS
  <1> HIDE DEF f, g, h, k
  <1>7. SumFunctionOnSet(h, P) = SumFunctionOnSet(f, P) + SumFunctionOnSet(g, P)
    BY <1>2, <1>3, SumPlus
  <1>8. SumFunctionOnSet(g, P) = SumFunctionOnSet(g, Q)
    BY <1>2, <1>3, <1>4, SumWithin
  <1>9. SumFunctionOnSet(g, Q) = SumFunctionOnSet(k, Q)
    BY <1>2, <1>5, SumSame
  <1>10. /\ SumFunction(f) = SumFunctionOnSet(f, P) /\ SumFunction(h) = SumFunctionOnSet(h, P)
         /\ SumFunction(k) = SumFunctionOnSet(k, Q)
    BY <1>6, SumOfAll
  <1>11. SumFunction(h) = SumFunction(f) + SumFunction(k)
    BY <1>7, <1>8, <1>9, <1>10
  <1> QED BY <1>11 DEF f, h, k

\* Clearing changes nobody's balance, whatever is performed, disputed or prepared by another cycle
\* meanwhile: finalize applies a result only if its snapshot still holds and excludes nothing, and then
\* as a whole.  Of the calculation it needs NettingKeepsBalances.
THEOREM ClearingKeepsBalances == Spec => []BalancesKept
  <1> DEFINE Owing(m) == {o \in Obligations : Terms[o].debtor = m}
             Owed(m)  == {o \in Obligations : Terms[o].creditor = m}
             Total(P) == SumFunction([o \in P |-> obligations[o].cleared])
  <1>1. ASSUME NEW m PROVE /\ OwedBy(m, [o \in Obligations |-> obligations[o].cleared]) = Total(Owing(m))
                           /\ OwedTo(m, [o \in Obligations |-> obligations[o].cleared]) = Total(Owed(m))
                           /\ OwedBy(m, [o \in Obligations |-> obligations'[o].cleared]) = Total(Owing(m))'
                           /\ OwedTo(m, [o \in Obligations |-> obligations'[o].cleared]) = Total(Owed(m))'
    <2> DEFINE now0  == [o \in Obligations |-> obligations[o].cleared]
               next0 == [o \in Obligations |-> obligations'[o].cleared]
    <2>1. /\ [o \in {p \in DOMAIN now0 : Terms[p].debtor = m} |-> now0[o]]
                = [o \in Owing(m) |-> obligations[o].cleared]
          /\ [o \in {p \in DOMAIN now0 : Terms[p].creditor = m} |-> now0[o]]
                = [o \in Owed(m) |-> obligations[o].cleared]
          /\ [o \in {p \in DOMAIN next0 : Terms[p].debtor = m} |-> next0[o]]
                = [o \in Owing(m) |-> obligations'[o].cleared]
          /\ [o \in {p \in DOMAIN next0 : Terms[p].creditor = m} |-> next0[o]]
                = [o \in Owed(m) |-> obligations'[o].cleared]
      OBVIOUS
    <2> QED BY <2>1 DEF OwedBy, OwedTo
  <1>2. Init => BalancesKept
    <2> SUFFICES ASSUME Init, NEW m \in Members PROVE Total(Owing(m)) = Total(Owed(m))
      <3> HIDE DEF Owing, Owed, Total
      <3> QED BY <1>1 DEF BalancesKept
    <2>1. ASSUME NEW P \in SUBSET Obligations PROVE Total(P) = 0
      <3> DEFINE f == [o \in P |-> obligations[o].cleared]
      <3>1. DOMAIN f = P /\ \A o \in P : f[o] = 0
        BY DEF Init, ExchangeInit, NoObligation
      <3>2. IsFiniteSet(P)
        BY ExchangeBounds, FS_Subset
      <3> HIDE DEF f
      <3>3. SumFunction(f) = 0
        BY <3>1, <3>2, SumOfAll, SumZero
      <3> QED BY <3>3 DEF f
    <2>2. Owing(m) \in SUBSET Obligations /\ Owed(m) \in SUBSET Obligations
      OBVIOUS
    <2> HIDE DEF Owing, Owed, Total
    <2> QED BY <2>1, <2>2
  <1>3. ASSUME IInv, StatusInv, AmountsInv, FrozenInv, BalancesKept, [Next]_vars PROVE BalancesKept'
    <2> SUFFICES ASSUME NEW m \in Members PROVE Total(Owing(m))' = Total(Owed(m))'
      <3> HIDE DEF Owing, Owed, Total
      <3> QED BY <1>1 DEF BalancesKept
    <2>1. Total(Owing(m)) = Total(Owed(m))
      <3> HIDE DEF Owing, Owed, Total
      <3> QED BY <1>1, <1>3 DEF BalancesKept
    <2>2. CASE NothingCleared
      <3>1. /\ [o \in Owing(m) |-> obligations'[o].cleared] = [o \in Owing(m) |-> obligations[o].cleared]
            /\ [o \in Owed(m) |-> obligations'[o].cleared] = [o \in Owed(m) |-> obligations[o].cleared]
        BY <2>2 DEF NothingCleared
      <3> QED BY <2>1, <3>1
    <2>3. ASSUME NEW c \in Cycles, NEW n \in Members, Finalize(c, n)
          PROVE  Total(Owing(m))' = Total(Owed(m))'
      <3> DEFINE result == cycles[c].cleared
                 A == {o \in DOMAIN result : Terms[o].debtor = m}
                 B == {o \in DOMAIN result : Terms[o].creditor = m}
      <3>1. InOrder(cycles[c]) /\ cycles[c] \in CycleRow
        BY <1>3 DEF IInv
      <3>2. result = Netting(InputOf(cycles[c].entries))
        BY <1>3, <2>3, FinalizeInput
      <3>3. SumFunction([o \in A |-> result[o]]) = SumFunction([o \in B |-> result[o]])
        <4>1. InputOf(cycles[c].entries) \in Inputs
          BY <3>1, SnapshotIsInput
        <4>2. \A o \in DOMAIN InputOf(cycles[c].entries) : ~InputOf(cycles[c].entries)[o].excluded
          <5> SUFFICES ASSUME NEW o \in DOMAIN InputOf(cycles[c].entries)
                       PROVE  ~InputOf(cycles[c].entries)[o].excluded
            OBVIOUS
          <5>1. o \in DOMAIN cycles[c].entries
            BY <3>1, SnapshotIsInput
          <5>2. cycles[c].entries[o].reason = "INCLUDED"
            BY <1>3, <2>3, <5>1, FinalizeInput
          <5>3. InputOf(cycles[c].entries)[o] = [amount |-> cycles[c].entries[o].amount,
                                                 excluded |-> cycles[c].entries[o].reason # "INCLUDED"]
            BY <3>1, <5>1, SnapshotIsInput
          <5>4. InputOf(cycles[c].entries)[o].excluded = (cycles[c].entries[o].reason # "INCLUDED")
            BY <5>3
          <5> QED BY <5>2, <5>4
        <4>3. OwedBy(m, result) = OwedTo(m, result)
          BY <3>2, <4>1, <4>2, NettingKeepsBalances
        <4> QED BY <4>3 DEF OwedBy, OwedTo
      <3>4. DOMAIN result \subseteq Obligations
        BY <3>1 DEF CycleRow
      <3>5. /\ A = Owing(m) \intersect DOMAIN cycles[c].cleared /\ Owing(m) \in SUBSET Obligations
            /\ B = Owed(m) \intersect DOMAIN cycles[c].cleared /\ Owed(m) \in SUBSET Obligations
        BY <3>4
      <3>6. Total(Owing(m))' = Total(Owing(m)) + SumFunction([o \in A |-> cycles[c].cleared[o]])
        <4> HIDE DEF Owing, A
        <4> QED BY <1>3, <2>3, <3>5, FinalizeAdds
      <3>7. Total(Owed(m))' = Total(Owed(m)) + SumFunction([o \in B |-> cycles[c].cleared[o]])
        <4> HIDE DEF Owed, B
        <4> QED BY <1>3, <2>3, <3>5, FinalizeAdds
      <3> QED BY <2>1, <3>3, <3>6, <3>7
    <2> QED BY <1>3, <2>2, <2>3, OnlyFinalizeClears
  <1> QED BY <1>2, <1>3, LocalInvariant, StatusHolds, AmountsHold, FrozenHolds, PTL DEF Spec

\* An amount is cleared only of an obligation that nobody disputes and no fulfillment of which awaits
\* a decision, and by a cycle against which no claim is left (freeze_input, mark_ready, finalize).
THEOREM NothingContestedIsCleared == Spec => ContestedNotCleared
  <1> DEFINE Uncontested ==
               \A o \in Obligations : obligations'[o].cleared # obligations[o].cleared =>
                  /\ ~disputes[o].open
                  /\ \A k \in Slots : fulfillments[o][k].status # "SUBMITTED"
                  /\ \A c \in Cycles : cycles'[c].status # cycles[c].status => cycles[c].disputes = {}
  <1>1. IInv /\ StatusInv /\ AmountsInv /\ FrozenInv /\ [Next]_vars => Uncontested
    <2> SUFFICES ASSUME IInv, StatusInv, AmountsInv, FrozenInv, [Next]_vars, NEW o \in Obligations,
                        obligations'[o].cleared # obligations[o].cleared
                 PROVE  /\ ~disputes[o].open
                        /\ \A k \in Slots : fulfillments[o][k].status # "SUBMITTED"
                        /\ \A c \in Cycles : cycles'[c].status # cycles[c].status => cycles[c].disputes = {}
      OBVIOUS
    <2>1. PICK c \in Cycles, m \in Members : Finalize(c, m)
      BY OnlyFinalizeClears DEF NothingCleared
    <2>2. o \in DOMAIN cycles[c].entries
      <3>1. o \in ClearedIn(c)
        BY <2>1, FinalizeRows
      <3> QED BY <2>1, <3>1, FinalizeInput DEF ClearedIn
    <2>3. ~disputes[o].open /\ obligations[o].submitted = 0 /\ cycles[c].disputes = {}
      BY <2>1, <2>2, FinalizeInput
    <2>4. ASSUME NEW k \in Slots PROVE fulfillments[o][k].status # "SUBMITTED"
      <3> SUFFICES ASSUME fulfillments[o][k].status = "SUBMITTED" PROVE FALSE
        OBVIOUS
      <3>1. Undecided(o, k) /\ fulfillments[o][k].quantity > 0
        BY DEF Undecided, AmountsInv, AmountsIn, SlotInOrder
      <3>2. ExchangeTypeOK
        BY DEF IInv, ExchangeInv
      <3>3. Awaited(o)[k] = fulfillments[o][k].quantity /\ \A j \in Slots : Awaited(o)[j] \in Nat
        BY <3>1, <3>2, SlotAmounts
      <3>4. Awaited(o)[k] <= SumFunctionOnSet(Awaited(o), Slots)
        BY <3>3, ExchangeBounds, SumBounds
      <3>5. SumFunctionOnSet(Awaited(o), Slots) = 0
        BY <2>3 DEF AmountsInv, AmountsIn
      <3> QED BY <3>1, <3>3, <3>4, <3>5
    <2>5. ASSUME NEW d \in Cycles, cycles'[d].status # cycles[d].status PROVE cycles[d].disputes = {}
      <3>1. d = c
        BY <2>1, <2>5 DEF Finalize, IInv
      <3> QED BY <2>3, <3>1
    <2> QED BY <2>3, <2>4, <2>5
  <1>2. [][Uncontested]_vars => ContestedNotCleared
    BY PTL DEF ContestedNotCleared
  <1> QED BY <1>1, LocalInvariant, StatusHolds, AmountsHold, FrozenHolds, PTL DEF Spec, ContestedNotCleared

-----------------------------------------------------------------------------
\* Deliveries

\* Redemptions and orders are rows of a database, and a redemption is of a quantity.
DeliveryAssumptions ==
    /\ IsFiniteSet(Redemptions) /\ IsFiniteSet(Orders)
    /\ \A r \in Redemptions : Goods[r].quantity \in Nat

\* The commands Deliveries takes from Exchange are those of this module.
LEMMA SameStart == ASSUME Delivery!ExchangeInit PROVE ExchangeInit
  BY DEF Delivery!ExchangeInit, ExchangeInit, Delivery!NoObligation, NoObligation, Delivery!NoFulfillment, NoFulfillment,
         Delivery!NoDispute, NoDispute

LEMMA SameDeliverySum == \A f : Delivery!SumFunction(f) = SumFunction(f)
  BY DEF Delivery!SumFunction, Delivery!SumFunctionOnSet, Delivery!FoldFunctionOnSet, Delivery!MapThenFoldSet,
         SumFunction, SumFunctionOnSet, FoldFunctionOnSet, MapThenFoldSet

LEMMA SameWrites == Delivery!Writes = Writes /\ \A o : Delivery!MayWrite(o) <=> MayWrite(o)
  <1>1. Delivery!Writes = Writes
    BY SameDeliverySum DEF Delivery!Writes, Writes
  <1> QED BY <1>1 DEF Delivery!MayWrite, MayWrite, Delivery!Exists, Exists

LEMMA SameStatus ==
    /\ \A o, row : Delivery!StatusFor(o, row) = StatusFor(o, row) /\ Delivery!Remaining(o, row) = Remaining(o, row)
    /\ \A D : Delivery!RefreshDeals(D) <=> RefreshDeals(D)
  <1>1. \A o, row : Delivery!StatusFor(o, row) = StatusFor(o, row) /\ Delivery!Remaining(o, row) = Remaining(o, row)
    BY DEF Delivery!StatusFor, StatusFor, Delivery!Remaining, Remaining, Delivery!Late, Late
  <1>2. \A d, rows, open : Delivery!DealStatusFor(d, rows, open) = DealStatusFor(d, rows, open)
    BY DEF Delivery!DealStatusFor, DealStatusFor
  <1>3. \A d : Delivery!DealStatusFor(d, obligations', disputes') = DealStatusFor(d, obligations', disputes')
    BY <1>2
  <1>4. \A D : Delivery!RefreshDeals(D) <=> RefreshDeals(D)
    BY <1>3 DEF Delivery!RefreshDeals, RefreshDeals
  <1> QED BY <1>1, <1>4

LEMMA SameCommands ==
    /\ Delivery!Tick => Tick
    /\ \A d : Delivery!ReviseDeal(d) => ReviseDeal(d)
    /\ \A d, v, m : Delivery!ConfirmDeal(d, v, m) => ConfirmDeal(d, v, m)
    /\ \A o, k, q : Delivery!SubmitFulfillment(o, k, q) => SubmitFulfillment(o, k, q)
    /\ \A o, k, a : Delivery!AcceptFulfillment(o, k, a) => AcceptFulfillment(o, k, a)
    /\ \A o, k : Delivery!OpenDispute(o, k) => OpenDispute(o, k)
    /\ \A o, action : Delivery!ResolveDispute(o, action) => ResolveDispute(o, action)
    /\ \A asOf, S : Delivery!MarkOverdue(asOf, S) => MarkOverdue(asOf, S)
  <1>1. Delivery!Tick => Tick
    BY DEF Delivery!Tick, Tick
  <1>2. \A d : Delivery!ReviseDeal(d) => ReviseDeal(d)
    BY DEF Delivery!ReviseDeal, ReviseDeal
  <1>3. \A d, v, m : Delivery!ConfirmDeal(d, v, m) => ConfirmDeal(d, v, m)
    BY DEF Delivery!ConfirmDeal, ConfirmDeal, Delivery!PartiesTo, PartiesTo, Delivery!PartiesOf, PartiesOf,
           Delivery!ConfirmedBy, ConfirmedBy, Delivery!NoObligation, NoObligation
  <1>4. \A o, k, q : Delivery!SubmitFulfillment(o, k, q) => SubmitFulfillment(o, k, q)
    BY SameWrites, SameStatus DEF Delivery!SubmitFulfillment, SubmitFulfillment, Delivery!NoFulfillment, NoFulfillment,
           Delivery!Operable, Operable
  <1>5. \A o, k, a : Delivery!AcceptFulfillment(o, k, a) => AcceptFulfillment(o, k, a)
    <2> SUFFICES ASSUME NEW o, NEW k, NEW a, Delivery!AcceptFulfillment(o, k, a)
                 PROVE  AcceptFulfillment(o, k, a)
      OBVIOUS
    <2>1. Delivery!Performed(obligations[o], fulfillments[o][k].quantity, a)
            = Performed(obligations[o], fulfillments[o][k].quantity, a)
      BY DEF Delivery!Performed, Performed
    <2>2. Delivery!Decision(fulfillments[o][k].quantity, a) = Decision(fulfillments[o][k].quantity, a)
      BY DEF Delivery!Decision, Decision
    <2>3. \A row : Delivery!StatusFor(o, row) = StatusFor(o, row)
      BY SameStatus
    <2>4. Delivery!RefreshDeals({Terms[o].deal}) => RefreshDeals({Terms[o].deal})
      BY SameStatus
    <2>5. Delivery!MayWrite(o) => MayWrite(o)
      BY SameWrites
    <2> QED BY <2>1, <2>2, <2>3, <2>4, <2>5
              DEF Delivery!AcceptFulfillment, AcceptFulfillment, Delivery!Operable, Operable
  <1>6. \A o, k : Delivery!OpenDispute(o, k) => OpenDispute(o, k)
    BY SameWrites DEF Delivery!OpenDispute, OpenDispute
  <1>7. \A o, action : Delivery!ResolveDispute(o, action) => ResolveDispute(o, action)
    BY SameWrites, SameStatus DEF Delivery!ResolveDispute, ResolveDispute, Delivery!Resolved, Resolved,
           Delivery!PartiesOf, PartiesOf, Delivery!NoDispute, NoDispute
  <1>8. \A asOf, S : Delivery!MarkOverdue(asOf, S) => MarkOverdue(asOf, S)
    <2>1. \A S : Delivery!Cardinality(S) = Cardinality(S)
      BY DEF Delivery!Cardinality, Cardinality
    <2> QED BY <2>1, SameWrites DEF Delivery!MarkOverdue, MarkOverdue
  <1> QED BY <1>1, <1>2, <1>3, <1>4, <1>5, <1>6, <1>7, <1>8

OrderRow == [status : {"ABSENT", "OFFERED", "ACCEPTED", "IN_TRANSIT", "DELIVERED"},
             obligation : Obligations \union {None}, quantity : Nat, user : Users \union {None}]

\* No creditor accepts more of a fulfillment than was submitted.
AcceptedWithin == \A o \in Obligations, k \in Slots : fulfillments[o][k].accepted <= fulfillments[o][k].quantity

\* A fulfillment with a source was submitted by the owner of what that redemption released, in its quantity.
SourceSound(f) ==
    /\ f \in DOMAIN performed /\ provenance[f] \in DOMAIN completed
    /\ Goods[provenance[f]] = [owner |-> Terms[f[1]].debtor, product |-> ProductOf[f[1]],
                               quantity |-> fulfillments[f[1]][f[2]].quantity]

SourcesSound ==
    /\ DOMAIN completed \subseteq Redemptions /\ DOMAIN performed \subseteq Obligations \X Slots
    /\ \A f \in DOMAIN performed : fulfillments[f[1]][f[2]].quantity > 0
    /\ \A f \in DOMAIN provenance : SourceSound(f)
    /\ \A f, g \in DOMAIN provenance : provenance[f] = provenance[g] => f = g

OrdersSound ==
    /\ orders \in [Orders -> OrderRow]
    /\ \A o \in Obligations : Delivery!Ordered(o) <= Terms[o].total

DeliveryInv == ExchangeInv /\ AcceptedWithin /\ SourcesSound /\ OrdersSound

\* What open orders carry to an obligation is a sum over all orders.
Carried(o) == [n \in Orders |-> IF orders[n].obligation = o /\ orders[n].status \in Delivery!OpenOrder
                                  THEN orders[n].quantity ELSE 0]
LEMMA CarriedNat ==
    ASSUME orders \in [Orders -> OrderRow], NEW o
    PROVE  DOMAIN Carried(o) = Orders /\ \A n \in Orders : Carried(o)[n] \in Nat
  BY DEF Carried, OrderRow

LEMMA OrderedIs ==
    ASSUME DeliveryAssumptions, orders \in [Orders -> OrderRow], NEW o
    PROVE  Delivery!Ordered(o) = SumFunction(Carried(o))
  <1> DEFINE T == {m \in Orders : orders[m].obligation = o /\ orders[m].status \in Delivery!OpenOrder}
             f == [n \in T |-> orders[n].quantity]
  <1>1. Delivery!Ordered(o) = SumFunction(f)
    BY SameDeliverySum DEF Delivery!Ordered
  <1>2. \A n \in Orders : Carried(o)[n] \in Int /\ Carried(o)[n] = IF n \in T THEN f[n] ELSE 0
    BY CarriedNat DEF Carried
  <1>3. T \in SUBSET Orders /\ DOMAIN f = T /\ DOMAIN Carried(o) = Orders
    BY CarriedNat
  <1> HIDE DEF T, f
  <1>4. SumFunction(f) = SumFunction(Carried(o))
    BY <1>2, <1>3, TotalWithin DEF DeliveryAssumptions
  <1> QED BY <1>1, <1>4

LEMMA OrderedIsNext ==
    ASSUME DeliveryAssumptions, orders' \in [Orders -> OrderRow], NEW o
    PROVE  Delivery!Ordered(o)' = SumFunction(Carried(o)')
  <1> DEFINE T == {m \in Orders : orders'[m].obligation = o /\ orders'[m].status \in Delivery!OpenOrder}
             f == [n \in T |-> orders'[n].quantity]
  <1>1. Delivery!Ordered(o)' = SumFunction(f)
    BY SameDeliverySum DEF Delivery!Ordered
  <1>2. \A n \in Orders : Carried(o)'[n] \in Int /\ Carried(o)'[n] = IF n \in T THEN f[n] ELSE 0
    BY DEF Carried, OrderRow
  <1>3. T \in SUBSET Orders /\ DOMAIN f = T /\ DOMAIN Carried(o)' = Orders
    BY DEF Carried
  <1> HIDE DEF T, f
  <1>4. SumFunction(f) = SumFunction(Carried(o)')
    BY <1>2, <1>3, TotalWithin DEF DeliveryAssumptions
  <1> QED BY <1>1, <1>4

LEMMA OrdersStay ==
    ASSUME OrdersSound, UNCHANGED orders
    PROVE  OrdersSound'
  BY DEF OrdersSound, Delivery!Ordered

LEMMA SourcesStay ==
    ASSUME SourcesSound, UNCHANGED <<completed, performed, provenance>>,
           \A o \in Obligations, k \in Slots : fulfillments'[o][k].quantity = fulfillments[o][k].quantity
    PROVE  SourcesSound'
  <1>1. \A f \in DOMAIN performed : fulfillments'[f[1]][f[2]].quantity = fulfillments[f[1]][f[2]].quantity
    BY DEF SourcesSound
  <1> QED BY <1>1 DEF SourcesSound, SourceSound

\* The other commands leave the quantity of every fulfillment, and accept no more than it.
LEMMA OthersStand ==
    ASSUME ExchangeInv, AcceptedWithin, Delivery!OtherCommand
    PROVE  /\ ExchangeInv' /\ AcceptedWithin'
           /\ \A o \in Obligations, k \in Slots : fulfillments'[o][k].quantity = fulfillments[o][k].quantity
  <1> DEFINE Stands == /\ AcceptedWithin'
                       /\ \A o \in Obligations, k \in Slots : fulfillments'[o][k].quantity = fulfillments[o][k].quantity
  <1>0. fulfillments \in [Obligations -> [Slots -> FulfillmentRow]]
    BY DEF ExchangeInv, ExchangeTypeOK
  <1>1. ASSUME UNCHANGED fulfillments PROVE Stands
    BY <1>1 DEF AcceptedWithin
  <1>2. CASE Tick
    BY <1>2, <1>1, ExchangeStep DEF Tick, ExchangeNext
  <1>3. CASE \E d \in Deals : ReviseDeal(d)
    <2>1. ExchangeNext BY <1>3 DEF ExchangeNext
    <2> QED BY <1>3, <1>1, <2>1, ExchangeStep DEF ReviseDeal
  <1>4. CASE \E d \in Deals, m \in Members : \E v \in 1..deals[d].terms : ConfirmDeal(d, v, m)
    <2>1. ExchangeNext BY <1>4 DEF ExchangeNext
    <2> QED BY <1>4, <1>1, <2>1, ExchangeStep DEF ConfirmDeal
  <1>5. CASE \E o \in Obligations, k \in Slots : \E a \in 0..Terms[o].total : AcceptFulfillment(o, k, a)
    <2>1. PICK o \in Obligations, k \in Slots : \E a \in 0..Terms[o].total : AcceptFulfillment(o, k, a) BY <1>5
    <2>2. PICK a \in 0..Terms[o].total : AcceptFulfillment(o, k, a) BY <2>1
    <2>3. ExchangeNext BY <2>2 DEF ExchangeNext
    <2>4. a \in 0..fulfillments[o][k].quantity
      BY <2>2 DEF AcceptFulfillment
    <2>5. fulfillments' = [fulfillments EXCEPT ![o][k].status = Decision(fulfillments[o][k].quantity, a), ![o][k].accepted = a]
      BY <2>2 DEF AcceptFulfillment
    <2>6. fulfillments[o][k].quantity \in Nat BY <1>0 DEF FulfillmentRow
    <2>7. Stands
      BY <1>0, <2>4, <2>5, <2>6 DEF AcceptedWithin, FulfillmentRow
    <2> QED BY <2>3, <2>7, ExchangeStep
  <1>6. CASE \E o \in Obligations, k \in Slots \union {0} : OpenDispute(o, k)
    <2>1. PICK o \in Obligations, k \in Slots \union {0} : OpenDispute(o, k) BY <1>6
    <2>2. ExchangeNext BY <2>1 DEF ExchangeNext
    <2>3. fulfillments' = IF k = 0 THEN fulfillments ELSE [fulfillments EXCEPT ![o][k].status = "DISPUTED"]
      BY <2>1 DEF OpenDispute
    <2>4. Stands BY <1>0, <2>3 DEF AcceptedWithin, FulfillmentRow
    <2> QED BY <2>2, <2>4, ExchangeStep
  <1>7. CASE \E o \in Obligations, action \in Resolutions : ResolveDispute(o, action)
    <2>1. PICK o \in Obligations, action \in Resolutions : ResolveDispute(o, action) BY <1>7
    <2>2. ExchangeNext BY <2>1 DEF ExchangeNext
    <2>3. fulfillments' = IF disputes[o].slot = 0 THEN fulfillments
                          ELSE [fulfillments EXCEPT ![o][disputes[o].slot].status = disputes[o].fulfillmentWas]
      BY <2>1 DEF ResolveDispute
    <2>4. Stands BY <1>0, <2>3 DEF AcceptedWithin, FulfillmentRow
    <2> QED BY <2>2, <2>4, ExchangeStep
  <1>8. CASE \E asOf \in 0..MaxNow + 1, S \in SUBSET Obligations : MarkOverdue(asOf, S)
    <2>1. ExchangeNext BY <1>8 DEF ExchangeNext
    <2> QED BY <1>8, <1>1, <2>1, ExchangeStep DEF MarkOverdue
  <1> QED
    <2>1. Delivery!Resolutions = Resolutions BY DEF Delivery!Resolutions, Resolutions
    <2>2. CASE Delivery!Tick BY <2>2, <1>2, SameCommands
    <2>3. CASE \E d \in Deals : Delivery!ReviseDeal(d) BY <2>3, <1>3, SameCommands
    <2>4. CASE \E d \in Deals, m \in Members : \E v \in 1..deals[d].terms : Delivery!ConfirmDeal(d, v, m)
      BY <2>4, <1>4, SameCommands
    <2>5. CASE \E o \in Obligations, k \in Slots : \E a \in 0..Terms[o].total : Delivery!AcceptFulfillment(o, k, a)
      BY <2>5, <1>5, SameCommands
    <2>6. CASE \E o \in Obligations, k \in Slots \union {0} : Delivery!OpenDispute(o, k)
      BY <2>6, <1>6, SameCommands
    <2>7. CASE \E o \in Obligations, action \in Delivery!Resolutions : Delivery!ResolveDispute(o, action)
      BY <2>7, <2>1, <1>7, SameCommands
    <2>8. CASE \E asOf \in 0..MaxNow + 1, S \in SUBSET Obligations : Delivery!MarkOverdue(asOf, S)
      BY <2>8, <1>8, SameCommands
    <2> QED BY <2>2, <2>3, <2>4, <2>5, <2>6, <2>7, <2>8 DEF Delivery!OtherCommand

\* Another source for a fulfillment of its owner, product and quantity
LEMMA SourceKeeps ==
    ASSUME SourcesSound, NEW o \in Obligations, NEW k \in Slots, NEW q, NEW at, NEW r,
           Delivery!ProductSource(o, q, at, r), completed' = completed,
           <<o, k>> \notin DOMAIN provenance, <<o, k>> \in DOMAIN performed', DOMAIN performed \subseteq DOMAIN performed',
           fulfillments'[o][k].quantity = q,
           \A f \in DOMAIN performed : fulfillments'[f[1]][f[2]].quantity = fulfillments[f[1]][f[2]].quantity,
           provenance' = Delivery!Insert(provenance, <<o, k>>, r)
    PROVE  /\ \A f \in DOMAIN provenance' : SourceSound(f)'
           /\ \A f, g \in DOMAIN provenance' : provenance'[f] = provenance'[g] => f = g
  <1> DEFINE x == <<o, k>>
  <1>1. /\ DOMAIN provenance' = DOMAIN provenance \union {x} /\ provenance'[x] = r
        /\ \A f \in DOMAIN provenance : f # x /\ provenance'[f] = provenance[f]
    BY DEF Delivery!Insert
  <1>2. r \in DOMAIN completed /\ \A f \in DOMAIN provenance : provenance[f] # r
    BY DEF Delivery!ProductSource, Delivery!Unused, Delivery!Used
  <1>3. Goods[r] = [owner |-> Terms[o].debtor, product |-> ProductOf[o], quantity |-> q]
    BY DEF Delivery!ProductSource
  <1>4. x[1] = o /\ x[2] = k /\ x \in DOMAIN performed' /\ fulfillments'[x[1]][x[2]].quantity = q
    OBVIOUS
  <1> HIDE DEF x
  <1>5. SourceSound(x)'
    BY <1>1, <1>2, <1>3, <1>4 DEF SourceSound
  <1>6. ASSUME NEW f \in DOMAIN provenance PROVE SourceSound(f)'
    <2>1. SourceSound(f) BY DEF SourcesSound
    <2>2. fulfillments'[f[1]][f[2]].quantity = fulfillments[f[1]][f[2]].quantity BY <2>1 DEF SourceSound
    <2> QED BY <2>1, <2>2, <1>1 DEF SourceSound
  <1>7. \A f, g \in DOMAIN provenance : provenance[f] = provenance[g] => f = g BY DEF SourcesSound
  <1> QED BY <1>1, <1>2, <1>5, <1>6, <1>7

LEMMA SubmitKeeps ==
    ASSUME DeliveryInv, NEW o \in Obligations, NEW k \in Slots, NEW q \in 1..Terms[o].total, NEW at, NEW r, NEW n,
           Delivery!Submit(o, k, q, at, r, n)
    PROVE  DeliveryInv'
  <1>1. SubmitFulfillment(o, k, q)
    BY SameCommands DEF Delivery!Submit
  <1>2. ExchangeInv'
    <2>1. ExchangeNext BY <1>1 DEF ExchangeNext
    <2> QED BY <2>1, ExchangeStep DEF DeliveryInv
  <1>3. /\ fulfillments \in [Obligations -> [Slots -> FulfillmentRow]] /\ fulfillments[o][k] = NoFulfillment
        /\ fulfillments' = [fulfillments EXCEPT ![o][k] = [status |-> "SUBMITTED", quantity |-> q, accepted |-> 0]]
    BY <1>1 DEF SubmitFulfillment, DeliveryInv, ExchangeInv, ExchangeTypeOK
  <1>4. Terms[o].total \in Nat
    BY TermsAssumption DEF Line
  <1>5. \A p \in Obligations, j \in Slots : fulfillments'[p][j] =
            IF p = o /\ j = k THEN [status |-> "SUBMITTED", quantity |-> q, accepted |-> 0] ELSE fulfillments[p][j]
    BY <1>3
  <1>6. AcceptedWithin'
    BY <1>4, <1>5 DEF DeliveryInv, AcceptedWithin
  <1>7. OrdersSound'
    BY OrdersStay DEF DeliveryInv, Delivery!Submit
  <1>8. SourcesSound
    BY DEF DeliveryInv
  <1>9. <<o, k>> \notin DOMAIN performed
    BY <1>3, <1>8 DEF SourcesSound, NoFulfillment
  <1>10. <<o, k>> \notin DOMAIN provenance
    BY <1>8, <1>9 DEF SourcesSound, SourceSound
  <1>11. /\ DOMAIN performed' = DOMAIN performed \union {<<o, k>>} /\ completed' = completed
    BY DEF Delivery!Submit, Delivery!Insert
  <1>12. ASSUME NEW f \in DOMAIN performed PROVE fulfillments'[f[1]][f[2]] = fulfillments[f[1]][f[2]]
    <2>1. f \in Obligations \X Slots /\ f # <<o, k>> BY <1>8, <1>9 DEF SourcesSound
    <2>2. f[1] \in Obligations /\ f[2] \in Slots /\ ~(f[1] = o /\ f[2] = k) BY <2>1
    <2> QED BY <2>2, <1>5
  <1>13. fulfillments'[o][k].quantity = q /\ q > 0
    BY <1>4, <1>5
  <1>14. /\ DOMAIN completed' \subseteq Redemptions /\ DOMAIN performed' \subseteq Obligations \X Slots
         /\ \A f \in DOMAIN performed' : fulfillments'[f[1]][f[2]].quantity > 0
    BY <1>8, <1>11, <1>12, <1>13 DEF SourcesSound
  <1>15. CASE r = None
    <2>1. provenance' = provenance BY <1>15 DEF Delivery!Submit
    <2>2. ASSUME NEW f \in DOMAIN provenance PROVE SourceSound(f)'
      <3>1. SourceSound(f) BY <1>8 DEF SourcesSound
      <3>2. fulfillments'[f[1]][f[2]] = fulfillments[f[1]][f[2]] BY <3>1, <1>12 DEF SourceSound
      <3> QED BY <3>1, <3>2, <2>1, <1>11 DEF SourceSound
    <2>3. SourcesSound'
      BY <1>8, <1>14, <2>1, <2>2 DEF SourcesSound
    <2> QED BY <1>2, <1>6, <1>7, <2>3 DEF DeliveryInv
  <1>16. CASE r # None
    <2>1. Delivery!ProductSource(o, q, at, r) /\ provenance' = Delivery!Insert(provenance, <<o, k>>, r)
      BY <1>16 DEF Delivery!Submit
    <2>2. /\ \A f \in DOMAIN provenance' : SourceSound(f)'
          /\ \A f, g \in DOMAIN provenance' : provenance'[f] = provenance'[g] => f = g
      BY <1>8, <1>10, <1>11, <1>12, <1>13, <2>1, SourceKeeps
    <2>3. SourcesSound'
      BY <1>14, <2>2 DEF SourcesSound
    <2> QED BY <1>2, <1>6, <1>7, <2>3 DEF DeliveryInv
  <1> QED BY <1>15, <1>16

LEMMA ReconcileKeeps ==
    ASSUME DeliveryInv, NEW o \in Obligations, NEW k \in Slots, NEW r,
           Delivery!ReconcileFulfillmentProvenance(o, k, r)
    PROVE  DeliveryInv'
  <1>1. /\ UNCHANGED <<exchangeVars, completed, orders, performed>>
        /\ <<o, k>> \in DOMAIN performed \ DOMAIN provenance
        /\ Delivery!ProductSource(o, fulfillments[o][k].quantity, performed[<<o, k>>], r)
        /\ provenance' = Delivery!Insert(provenance, <<o, k>>, r)
    BY DEF Delivery!ReconcileFulfillmentProvenance, Delivery!exchangeVars, exchangeVars
  <1>2. ExchangeInv' /\ OrdersSound' /\ AcceptedWithin'
    BY <1>1, ExchangeUnchanged, OrdersStay DEF DeliveryInv, AcceptedWithin, exchangeVars
  <1>3. SourcesSound /\ fulfillments' = fulfillments /\ performed' = performed /\ completed' = completed
    BY <1>1 DEF DeliveryInv, exchangeVars
  <1>4. /\ \A f \in DOMAIN provenance' : SourceSound(f)'
        /\ \A f, g \in DOMAIN provenance' : provenance'[f] = provenance'[g] => f = g
    BY <1>1, <1>3, SourceKeeps
  <1>5. SourcesSound'
    BY <1>3, <1>4 DEF SourcesSound
  <1> QED BY <1>2, <1>5 DEF DeliveryInv

LEMMA CompleteKeeps ==
    ASSUME DeliveryInv, NEW r \in Redemptions, Delivery!CompleteRedemption(r)
    PROVE  DeliveryInv'
  <1>1. /\ UNCHANGED <<exchangeVars, orders, performed, provenance>>
        /\ DOMAIN completed' = DOMAIN completed \union {r}
    BY DEF Delivery!CompleteRedemption, Delivery!exchangeVars, exchangeVars, Delivery!Insert
  <1>2. ExchangeInv' /\ OrdersSound' /\ AcceptedWithin'
    BY <1>1, ExchangeUnchanged, OrdersStay DEF DeliveryInv, AcceptedWithin, exchangeVars
  <1>3. SourcesSound'
    BY <1>1 DEF DeliveryInv, SourcesSound, SourceSound, exchangeVars
  <1> QED BY <1>2, <1>3 DEF DeliveryInv

LEMMA NoDeliveryKeeps ==
    ASSUME DeliveryInv, UNCHANGED <<exchangeVars, completed, performed, provenance>>, OrdersSound'
    PROVE  DeliveryInv'
  <1>1. ExchangeInv' /\ AcceptedWithin'
    BY ExchangeUnchanged DEF DeliveryInv, AcceptedWithin, exchangeVars
  <1>2. SourcesSound'
    BY SourcesStay DEF DeliveryInv, exchangeVars
  <1> QED BY <1>1, <1>2 DEF DeliveryInv

LEMMA CreateKeeps ==
    ASSUME DeliveryAssumptions, DeliveryInv, NEW n \in Orders, NEW o \in Obligations, NEW q \in 1..Terms[o].total,
           Delivery!CreateLogisticsOrder(n, o, q)
    PROVE  DeliveryInv'
  <1> DEFINE new == [status |-> "OFFERED", obligation |-> o, quantity |-> q, user |-> None]
  <1>1. /\ UNCHANGED <<exchangeVars, completed, performed, provenance>>
        /\ orders' = [orders EXCEPT ![n] = new]
    BY DEF Delivery!CreateLogisticsOrder, Delivery!exchangeVars, exchangeVars
  <1>2. orders \in [Orders -> OrderRow] /\ orders[n].status = "ABSENT"
    BY DEF DeliveryInv, OrdersSound, Delivery!CreateLogisticsOrder, Delivery!NoOrder
  <1>3. Terms[o].total \in Nat /\ q \in Nat
    BY TermsAssumption DEF Line
  <1>4. orders' \in [Orders -> OrderRow]
    <2>1. new \in OrderRow BY <1>3 DEF OrderRow
    <2> HIDE DEF new
    <2> QED BY <2>1, <1>1, <1>2
  <1>5. obligations[o].fulfilled \in Nat /\ obligations[o].cleared \in Nat
    BY DEF DeliveryInv, ExchangeInv, ExchangeTypeOK, ObligationRow
  <1>6. Delivery!Ordered(o) + q <= Terms[o].total - obligations[o].fulfilled - obligations[o].cleared
    BY DEF Delivery!CreateLogisticsOrder
  <1>7. ASSUME NEW p \in Obligations PROVE Delivery!Ordered(p)' <= Terms[p].total
    <2>1. Delivery!Ordered(p) = SumFunction(Carried(p)) /\ Delivery!Ordered(p)' = SumFunction(Carried(p)')
      BY <1>2, <1>4, OrderedIs, OrderedIsNext
    <2>2. /\ DOMAIN Carried(p) = Orders /\ DOMAIN Carried(p)' = Orders
          /\ \A m \in Orders : Carried(p)[m] \in Int /\ Carried(p)'[m] \in Int
      BY <1>2, <1>4 DEF Carried, OrderRow
    <2>3. \A m \in Orders \ {n} : Carried(p)[m] = Carried(p)'[m]
      BY <1>1, <1>2 DEF Carried
    <2>4. Carried(p)[n] = 0 /\ Carried(p)'[n] = IF p = o THEN q ELSE 0
      BY <1>1, <1>2 DEF Carried, Delivery!OpenOrder
    <2>5. SumFunction(Carried(p)') = SumFunction(Carried(p)) - Carried(p)[n] + Carried(p)'[n]
      BY <2>2, <2>3, TotalChange DEF DeliveryAssumptions
    <2>6. SumFunction(Carried(p)) \in Int
      BY <2>2, TotalInt DEF DeliveryAssumptions
    <2>7. Delivery!Ordered(p) <= Terms[p].total
      BY DEF DeliveryInv, OrdersSound
    <2>8. Delivery!Ordered(p)' = Delivery!Ordered(p) + (IF p = o THEN q ELSE 0) /\ Delivery!Ordered(p) \in Int
      BY <2>1, <2>4, <2>5, <2>6
    <2> QED BY <2>7, <2>8, <1>3, <1>5, <1>6
  <1>8. OrdersSound'
    BY <1>4, <1>7 DEF OrdersSound
  <1> QED BY <1>1, <1>8, NoDeliveryKeeps

LEMMA TransitionKeeps ==
    ASSUME DeliveryAssumptions, DeliveryInv, NEW n \in Orders, NEW u \in Users, Delivery!TransitionLogisticsOrder(n, u)
    PROVE  DeliveryInv'
  <1>1. UNCHANGED <<exchangeVars, completed, performed, provenance>>
    BY DEF Delivery!TransitionLogisticsOrder, Delivery!exchangeVars, exchangeVars
  <1>2. orders \in [Orders -> OrderRow]
    BY DEF DeliveryInv, OrdersSound
  <1>3. /\ orders' \in [Orders -> OrderRow] /\ orders[n].status \in Delivery!OpenOrder
        /\ \A m \in Orders : orders'[m].obligation = orders[m].obligation /\ orders'[m].quantity = orders[m].quantity
        /\ \A m \in Orders \ {n} : orders'[m] = orders[m]
    BY <1>2 DEF Delivery!TransitionLogisticsOrder, OrderRow, Delivery!OpenOrder
  <1>4. ASSUME NEW p \in Obligations PROVE Delivery!Ordered(p)' <= Terms[p].total
    <2>1. Delivery!Ordered(p) = SumFunction(Carried(p)) /\ Delivery!Ordered(p)' = SumFunction(Carried(p)')
      BY <1>2, <1>3, OrderedIs, OrderedIsNext
    <2>2. /\ DOMAIN Carried(p) = Orders /\ DOMAIN Carried(p)' = Orders
          /\ \A m \in Orders : Carried(p)[m] \in Int /\ Carried(p)'[m] \in Int
      BY <1>2, <1>3 DEF Carried, OrderRow
    <2>3. \A m \in Orders : Carried(p)'[m] <= Carried(p)[m]
      BY <1>2, <1>3 DEF Carried, OrderRow
    <2>4. SumFunction(Carried(p)') <= SumFunction(Carried(p))
      BY <2>2, <2>3, TotalOrder DEF DeliveryAssumptions
    <2>5. SumFunction(Carried(p)') \in Int /\ SumFunction(Carried(p)) \in Int
      BY <2>2, TotalInt DEF DeliveryAssumptions
    <2>6. Delivery!Ordered(p) <= Terms[p].total /\ Terms[p].total \in Nat
      BY TermsAssumption DEF DeliveryInv, OrdersSound, Line
    <2> QED BY <2>1, <2>4, <2>5, <2>6
  <1>5. OrdersSound'
    BY <1>3, <1>4 DEF OrdersSound
  <1> QED BY <1>1, <1>5, NoDeliveryKeeps

LEMMA DeliveryInvInit == DeliveryAssumptions /\ Delivery!Init => DeliveryInv
  <1> SUFFICES ASSUME DeliveryAssumptions, Delivery!Init PROVE DeliveryInv
    OBVIOUS
  <1>1. ExchangeInit /\ ExchangeInv
    BY SameStart, ExchangeInitial DEF Delivery!Init
  <1>2. AcceptedWithin
    BY <1>1 DEF AcceptedWithin, ExchangeInit, NoFulfillment
  <1>3. SourcesSound
    BY DEF SourcesSound, Delivery!Init, Delivery!Nothing
  <1>4. orders \in [Orders -> OrderRow] /\ \A n \in Orders : orders[n].status = "ABSENT"
    BY DEF Delivery!Init, Delivery!NoOrder, OrderRow
  <1>5. ASSUME NEW p \in Obligations PROVE Delivery!Ordered(p) <= Terms[p].total
    <2>1. Delivery!Ordered(p) = SumFunction(Carried(p)) BY <1>4, OrderedIs
    <2>2. DOMAIN Carried(p) = Orders /\ \A n \in Orders : Carried(p)[n] = 0
      BY <1>4 DEF Carried, Delivery!OpenOrder
    <2>3. SumFunction(Carried(p)) = 0 BY <2>2, TotalZero DEF DeliveryAssumptions
    <2> QED BY <2>1, <2>3, TermsAssumption DEF Line
  <1> QED BY <1>1, <1>2, <1>3, <1>4, <1>5 DEF DeliveryInv, OrdersSound

LEMMA DeliveryInvNext == DeliveryAssumptions /\ DeliveryInv /\ [Delivery!Next]_(Delivery!vars) => DeliveryInv'
  <1> SUFFICES ASSUME DeliveryAssumptions, DeliveryInv, [Delivery!Next]_(Delivery!vars) PROVE DeliveryInv'
    OBVIOUS
  <1>1. CASE UNCHANGED Delivery!vars
    <2>1. UNCHANGED <<exchangeVars, completed, performed, provenance, orders>>
      BY <1>1 DEF Delivery!vars, Delivery!exchangeVars, Delivery!deliveryVars, exchangeVars
    <2> QED BY <2>1, NoDeliveryKeeps, OrdersStay DEF DeliveryInv
  <1>2. CASE Delivery!Migrate
    <2>1. UNCHANGED <<exchangeVars, completed, performed, provenance, orders>>
      BY <1>2 DEF Delivery!Migrate, Delivery!exchangeVars, exchangeVars
    <2> QED BY <2>1, NoDeliveryKeeps, OrdersStay DEF DeliveryInv
  <1>3. CASE Delivery!OtherCommand
    <2>1. UNCHANGED <<completed, performed, provenance, orders>>
      BY <1>3 DEF Delivery!OtherCommand, Delivery!deliveryVars
    <2>2. /\ ExchangeInv' /\ AcceptedWithin'
          /\ \A o \in Obligations, k \in Slots : fulfillments'[o][k].quantity = fulfillments[o][k].quantity
      BY <1>3, OthersStand DEF DeliveryInv
    <2> QED BY <2>1, <2>2, SourcesStay, OrdersStay DEF DeliveryInv
  <1>4. CASE \E o \in Obligations, k \in Slots, at \in 0..MaxNow, r \in Redemptions \union {None}, n \in Orders \union {None} :
                \E q \in 1..Terms[o].total : Delivery!Submit(o, k, q, at, r, n)
    BY <1>4, SubmitKeeps
  <1>5. CASE \E o \in Obligations, k \in Slots, r \in Redemptions : Delivery!ReconcileFulfillmentProvenance(o, k, r)
    BY <1>5, ReconcileKeeps
  <1> QED BY <1>1, <1>2, <1>3, <1>4, <1>5, CompleteKeeps, CreateKeeps, TransitionKeeps DEF Delivery!Next

\* What is accepted of a member's product stays within what he released of it.
LEMMA AcceptedBacked ==
    ASSUME DeliveryAssumptions, DeliveryInv, NEW m, NEW p
    PROVE  SumFunction([f \in {g \in DOMAIN provenance : Terms[g[1]].debtor = m /\ ProductOf[g[1]] = p}
                          |-> fulfillments[f[1]][f[2]].accepted])
             <= SumFunction([r \in {s \in DOMAIN completed : Goods[s].owner = m /\ Goods[s].product = p}
                               |-> Goods[r].quantity])
  <1> DEFINE S == {g \in DOMAIN provenance : Terms[g[1]].debtor = m /\ ProductOf[g[1]] = p}
             R == {s \in DOMAIN completed : Goods[s].owner = m /\ Goods[s].product = p}
             f == [x \in S |-> fulfillments[x[1]][x[2]].accepted]
             g == [r \in R |-> Goods[r].quantity]
  <1>1. SourcesSound
    BY DEF DeliveryInv
  <1>2. IsFiniteSet(S)
    <2>1. IsFiniteSet(Obligations \X Slots) BY ExchangeBounds, FS_Product
    <2>2. S \in SUBSET (Obligations \X Slots) BY <1>1 DEF SourcesSound, SourceSound
    <2> HIDE DEF S
    <2> QED BY <2>1, <2>2, FS_Subset
  <1>3. IsFiniteSet(R)
    <2>1. R \in SUBSET Redemptions BY <1>1 DEF SourcesSound
    <2> HIDE DEF R
    <2> QED BY <2>1, FS_Subset DEF DeliveryAssumptions
  <1>4. ASSUME NEW x \in S
        PROVE  /\ provenance[x] \in R /\ fulfillments[x[1]][x[2]].accepted \in Int
               /\ fulfillments[x[1]][x[2]].accepted <= Goods[provenance[x]].quantity
    <2>1. SourceSound(x) /\ Terms[x[1]].debtor = m /\ ProductOf[x[1]] = p
      BY <1>1 DEF SourcesSound
    <2>2. x[1] \in Obligations /\ x[2] \in Slots
      BY <1>1, <2>1 DEF SourcesSound, SourceSound
    <2>3. fulfillments[x[1]][x[2]] \in FulfillmentRow
      BY <2>2 DEF DeliveryInv, ExchangeInv, ExchangeTypeOK
    <2>4. fulfillments[x[1]][x[2]].accepted <= fulfillments[x[1]][x[2]].quantity
      BY <2>2 DEF DeliveryInv, AcceptedWithin
    <2>5. /\ Goods[provenance[x]].quantity = fulfillments[x[1]][x[2]].quantity
          /\ Goods[provenance[x]].owner = m /\ Goods[provenance[x]].product = p
      BY <2>1 DEF SourceSound
    <2>6. provenance[x] \in R
      BY <2>1, <2>5 DEF SourceSound
    <2> QED BY <2>3, <2>4, <2>5, <2>6 DEF FulfillmentRow
  <1>5. \A r \in R : Goods[r].quantity \in Nat
    BY <1>1 DEF SourcesSound, DeliveryAssumptions
  <1>6. \A x, y \in S : provenance[x] = provenance[y] => x = y
    BY <1>1 DEF SourcesSound
  <1> HIDE DEF S, R
  <1>7. /\ DOMAIN f = S /\ DOMAIN g = R /\ \A r \in R : g[r] \in Nat
        /\ \A x \in S : provenance[x] \in R /\ f[x] \in Int /\ f[x] <= g[provenance[x]]
    BY <1>4, <1>5
  <1> HIDE DEF f, g
  <1>8. SumFunction(f) <= SumFunction(g)
    BY <1>2, <1>3, <1>6, <1>7, TotalInjection
  <1> QED BY <1>8 DEF f, g, S, R

\* For any deals, redemptions, orders and times of the migration: what creditors accept was released before, once,
\* and open orders of carriage never exceed the debt (_product_fulfillment_source, create_logistics_order).
THEOREM DeliveriesAlwaysBacked ==
    ASSUME DeliveryAssumptions
    PROVE  Delivery!Spec => []Delivery!DeliveriesBacked
<1>1. Delivery!Init => DeliveryInv
  BY DeliveryInvInit
<1>2. DeliveryInv /\ [Delivery!Next]_(Delivery!vars) => DeliveryInv'
  BY DeliveryInvNext
<1>3. DeliveryInv => Delivery!DeliveriesBacked
  <2> SUFFICES ASSUME DeliveryInv PROVE Delivery!DeliveriesBacked
    OBVIOUS
  <2>1. ASSUME NEW f \in DOMAIN provenance PROVE fulfillments[f[1]][f[2]].quantity = Goods[provenance[f]].quantity
    <3>1. SourceSound(f) BY DEF DeliveryInv, SourcesSound
    <3> QED BY <3>1 DEF SourceSound
  <2>2. \A o \in Obligations : Delivery!Ordered(o) <= Terms[o].total
    BY DEF DeliveryInv, OrdersSound
  <2> DEFINE F(m, p) == [f \in {g \in DOMAIN provenance : Terms[g[1]].debtor = m /\ ProductOf[g[1]] = p}
                           |-> fulfillments[f[1]][f[2]].accepted]
             G(m, p) == [r \in {s \in DOMAIN completed : Goods[s].owner = m /\ Goods[s].product = p}
                           |-> Goods[r].quantity]
  <2>3. \A m, p : SumFunction(F(m, p)) <= SumFunction(G(m, p))
    BY AcceptedBacked
  <2>4. \A m, p : Delivery!SumFunction(F(m, p)) <= Delivery!SumFunction(G(m, p))
    <3> HIDE DEF F, G
    <3>1. ASSUME NEW m, NEW p PROVE Delivery!SumFunction(F(m, p)) <= Delivery!SumFunction(G(m, p))
      <4>1. Delivery!SumFunction(F(m, p)) = SumFunction(F(m, p)) /\ Delivery!SumFunction(G(m, p)) = SumFunction(G(m, p))
        BY SameDeliverySum
      <4> QED BY <4>1, <2>3
    <3> QED BY <3>1
  <2>5. \A m \in Members, p \in {Goods[r].product : r \in Redemptions} :
           Delivery!SumFunction(F(m, p)) <= Delivery!SumFunction(G(m, p))
    <3> HIDE DEF F, G
    <3> QED BY <2>4
  <2> QED BY ONLY <2>1, <2>2, <2>5, Zenon DEF Delivery!DeliveriesBacked, F, G
<1> QED BY <1>1, <1>2, <1>3, PTL DEF Delivery!Spec
=============================================================================

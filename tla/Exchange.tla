------------------------------ MODULE Exchange ------------------------------
(***************************************************************************)
(* Deals and obligations of one cooperative.  A deal is negotiated by      *)
(* versions of its terms; once every party has confirmed the current       *)
(* version its obligations come into being and are performed, disputed or  *)
(* found overdue.  Every command is one transaction that locks the rows it *)
(* changes before it checks them, so it is one step.                       *)
(***************************************************************************)
EXTENDS Integers, Sequences, FiniteSets, Functions

CONSTANTS
    Members,      \* members of the cooperative
    Deals,
    Obligations,
    Terms,        \* what a line of terms says: deal, parties, total, due time, permissions
    Revisions,    \* Revisions[d]: the versions of its terms, each a set of obligations
    Slots,        \* bound: the fulfillments an obligation can have
    MaxWrites,    \* bound: commands on obligation rows
    MaxNow        \* bound: the clock stops here

Line == [deal : Deals, debtor : Members, creditor : Members, total : Nat \ {0}, due : Nat,
         partial : BOOLEAN, clearing : BOOLEAN]

ASSUME TermsAssumption ==
    /\ Terms \in [Obligations -> Line]
    /\ \A o \in Obligations : Terms[o].debtor # Terms[o].creditor
    /\ Revisions \in [Deals -> Seq((SUBSET Obligations) \ {{}})]
    /\ \A d \in Deals : /\ Revisions[d] # <<>>
                        /\ \A v \in DOMAIN Revisions[d] :
                             \A o \in Revisions[d][v] : Terms[o].deal = d
ASSUME ExchangeBounds == /\ Slots \subseteq Nat \ {0} /\ IsFiniteSet(Slots)
                         /\ IsFiniteSet(Obligations) /\ MaxWrites \in Nat /\ MaxNow \in Nat

VARIABLES
    now,            \* the clock
    deals,          \* exchange.deals
    confirmations,  \* exchange.deal_confirmations
    obligations,    \* exchange.obligations
    fulfillments,   \* exchange.fulfillments, by obligation and slot
    disputes        \* the open row of exchange.obligation_disputes, if any

exchangeVars == <<now, deals, confirmations, obligations, fulfillments, disputes>>

-----------------------------------------------------------------------------
Operable == {"ACTIVE", "PARTIALLY_FULFILLED", "OVERDUE"}
ObligationStatus == Operable \union {"FULFILLED", "DISPUTED", "DEFAULTED", "CLOSED"}
DealStatus == {"PROPOSED", "ACTIVE", "PARTIALLY_FULFILLED", "FULFILLED", "DISPUTED", "DEFAULTED"}
FulfillmentStatus == {"SUBMITTED", "ACCEPTED", "PARTIALLY_ACCEPTED", "REJECTED", "DISPUTED"}

\* version counts the writes of the row, as the column does
ObligationRow == [status : ObligationStatus \union {"ABSENT"}, submitted : Nat, fulfilled : Nat,
                  cleared : Nat, terms : Nat, version : Nat]
NoObligation == [status |-> "ABSENT", submitted |-> 0, fulfilled |-> 0, cleared |-> 0,
                 terms |-> 0, version |-> 0]

FulfillmentRow == [status : FulfillmentStatus \union {"ABSENT"}, quantity : Nat, accepted : Nat]
NoFulfillment == [status |-> "ABSENT", quantity |-> 0, accepted |-> 0]

\* An open dispute keeps the statuses it replaced; slot 0 is a dispute about no fulfillment.
DisputeRow == [open : BOOLEAN, slot : Slots \union {0},
               obligationWas : ObligationStatus \union {"ABSENT"},
               fulfillmentWas : FulfillmentStatus \union {"ABSENT"}]
NoDispute == [open |-> FALSE, slot |-> 0, obligationWas |-> "ABSENT", fulfillmentWas |-> "ABSENT"]

ExchangeInit ==
    /\ now = 0
    /\ deals = [d \in Deals |-> [status |-> "PROPOSED", terms |-> 1]]
    /\ confirmations = {}
    /\ obligations = [o \in Obligations |-> NoObligation]
    /\ fulfillments = [o \in Obligations |-> [k \in Slots |-> NoFulfillment]]
    /\ disputes = [o \in Obligations |-> NoDispute]

-----------------------------------------------------------------------------
Exists(o) == obligations[o].status # "ABSENT"
PartiesOf(o) == {Terms[o].debtor, Terms[o].creditor}
PartiesTo(d, v) == UNION {PartiesOf(o) : o \in Revisions[d][v]}
Late(o) == Terms[o].due < now
Remaining(o, row) == Terms[o].total - row.submitted - row.fulfilled - row.cleared
Writes == SumFunction([o \in Obligations |-> obligations[o].version])
MayWrite(o) == Exists(o) /\ Writes < MaxWrites

\* obligation_status_for
StatusFor(o, row) ==
    IF row.cleared > 0 /\ Remaining(o, row) = 0 THEN "CLOSED"
    ELSE IF row.fulfilled = Terms[o].total      THEN "FULFILLED"
    ELSE IF Late(o)                             THEN "OVERDUE"
    ELSE IF row.fulfilled > 0 \/ row.cleared > 0 THEN "PARTIALLY_FULFILLED"
    ELSE "ACTIVE"

\* _refresh_deal_status, over the rows as they are after the command
DealStatusFor(d, rows, open) ==
    LET mine == {o \in Obligations : Terms[o].deal = d /\ rows[o].status # "ABSENT"}
    IN  IF \E o \in mine : open[o].open                                THEN "DISPUTED"
        ELSE IF \E o \in mine : rows[o].status = "DEFAULTED"           THEN "DEFAULTED"
        ELSE IF \A o \in mine : rows[o].status \in {"FULFILLED", "CLOSED"} THEN "FULFILLED"
        ELSE IF \E o \in mine : rows[o].fulfilled + rows[o].cleared > 0
                                                                THEN "PARTIALLY_FULFILLED"
        ELSE "ACTIVE"

\* Mutant: the status of the deal is left as it was
KeepDeals(D) == deals' = deals

RefreshDeals(D) ==
    deals' = [d \in Deals |->
                IF d \in D THEN [deals[d] EXCEPT !.status = DealStatusFor(d, obligations', disputes')]
                ELSE deals[d]]

-----------------------------------------------------------------------------
\* revise_deal: a new version of the terms, confirmed by nobody
ReviseDeal(d) ==
    /\ deals[d].status = "PROPOSED"
    /\ deals[d].terms < Len(Revisions[d])
    /\ deals' = [deals EXCEPT ![d].terms = @ + 1]
    /\ UNCHANGED <<now, confirmations, obligations, fulfillments, disputes>>

\* Mutant: a confirmation of an earlier version counts as well
ConfirmedEver(d, v) == {m \in Members : \E w \in 1..v : <<d, w, m>> \in confirmations}

\* The confirmations counted for version v of the terms
ConfirmedBy(d, v) == {m \in Members : <<d, v, m>> \in confirmations}

\* confirm_deal by m, who has seen version v: the last party activates the deal and
\* _create_obligations writes the lines of its terms
ConfirmDeal(d, v, m) ==
    /\ deals[d].status = "PROPOSED" /\ v = deals[d].terms
    /\ m \in PartiesTo(d, v) /\ <<d, v, m>> \notin confirmations
    /\ confirmations' = confirmations \union {<<d, v, m>>}
    /\ IF ConfirmedBy(d, v) \union {m} = PartiesTo(d, v)
       THEN /\ deals' = [deals EXCEPT ![d].status = "ACTIVE"]
            /\ obligations' = [o \in Obligations |->
                 IF o \in Revisions[d][v]
                 THEN [NoObligation EXCEPT !.status = "ACTIVE", !.terms = v, !.version = 1]
                 ELSE obligations[o]]
       ELSE UNCHANGED <<deals, obligations>>
    /\ UNCHANGED <<now, fulfillments, disputes>>

\* submit_fulfillment by the debtor: q is set aside until the creditor decides
SubmitFulfillment(o, k, q) ==
    /\ fulfillments[o][k] = NoFulfillment /\ obligations[o].status \in Operable
    /\ MayWrite(o)
    /\ q \in 1..Remaining(o, obligations[o])
    /\ Terms[o].partial \/ q = Remaining(o, obligations[o])
    /\ obligations' = [obligations EXCEPT ![o].submitted = @ + q, ![o].version = @ + 1]
    /\ fulfillments' = [fulfillments EXCEPT ![o][k] =
                          [status |-> "SUBMITTED", quantity |-> q, accepted |-> 0]]
    /\ UNCHANGED <<now, deals, confirmations, disputes>>

Decision(q, a) == CASE a = q -> "ACCEPTED" [] a = 0 -> "REJECTED" [] OTHER -> "PARTIALLY_ACCEPTED"

\* Mutant: only what was accepted leaves quantity_submitted
PerformedAccepted(row, q, a) == [row EXCEPT !.submitted = @ - a, !.fulfilled = @ + a, !.version = @ + 1]

\* ObligationAmounts.accept: all of q leaves quantity_submitted, a of it is performed
Performed(row, q, a) == [row EXCEPT !.submitted = @ - q, !.fulfilled = @ + a, !.version = @ + 1]

\* accept_fulfillment by the creditor: all, some or nothing of what was submitted
AcceptFulfillment(o, k, a) ==
    LET f   == fulfillments[o][k]
        row == Performed(obligations[o], f.quantity, a)
    IN  /\ f.status = "SUBMITTED" /\ obligations[o].status \in Operable
        /\ MayWrite(o)
        /\ a \in 0..f.quantity /\ f.quantity <= obligations[o].submitted
        /\ obligations' = [obligations EXCEPT ![o] = [row EXCEPT !.status = StatusFor(o, row)]]
        /\ fulfillments' = [fulfillments EXCEPT ![o][k].status = Decision(f.quantity, a),
                                                ![o][k].accepted = a]
        /\ UNCHANGED <<now, confirmations, disputes>>
        /\ RefreshDeals({Terms[o].deal})

\* open_dispute by either party, whatever the status of the obligation
OpenDispute(o, k) ==
    /\ ~disputes[o].open
    /\ k # 0 => fulfillments[o][k].status # "ABSENT"
    /\ MayWrite(o)
    /\ disputes' = [disputes EXCEPT ![o] =
                      [open |-> TRUE, slot |-> k, obligationWas |-> obligations[o].status,
                       fulfillmentWas |-> IF k = 0 THEN "ABSENT" ELSE fulfillments[o][k].status]]
    /\ obligations' = [obligations EXCEPT ![o].status = "DISPUTED", ![o].version = @ + 1]
    /\ fulfillments' = IF k = 0 THEN fulfillments
                       ELSE [fulfillments EXCEPT ![o][k].status = "DISPUTED"]
    /\ deals' = [deals EXCEPT ![Terms[o].deal].status = "DISPUTED"]
    /\ UNCHANGED <<now, confirmations>>

Resolutions == {"REJECT_CLAIM", "CONTINUE_PERFORMANCE", "DEFAULT_OBLIGATION", "CLOSE_OBLIGATION"}
Resolved(action, was) == CASE action = "DEFAULT_OBLIGATION" -> "DEFAULTED"
                           [] action = "CLOSE_OBLIGATION"   -> "CLOSED"
                           [] OTHER                         -> was

\* resolve_dispute by somebody who is not a party
ResolveDispute(o, action) ==
    LET case == disputes[o]
    IN  /\ case.open /\ Members \ PartiesOf(o) # {}
        /\ MayWrite(o)
        /\ disputes' = [disputes EXCEPT ![o] = NoDispute]
        /\ obligations' = [obligations EXCEPT ![o].status = Resolved(action, case.obligationWas),
                                              ![o].version = @ + 1]
        /\ fulfillments' = IF case.slot = 0 THEN fulfillments
                           ELSE [fulfillments EXCEPT ![o][case.slot].status = case.fulfillmentWas]
        /\ UNCHANGED <<now, confirmations>>
        /\ RefreshDeals({Terms[o].deal})

\* mark_overdue as of a time the caller names; rows that are locked (skip_locked) are left out
MarkOverdue(asOf, S) ==
    /\ S # {}
    /\ \A o \in S : /\ obligations[o].status \in {"ACTIVE", "PARTIALLY_FULFILLED"}
                    /\ Terms[o].due < asOf
    /\ Writes + Cardinality(S) <= MaxWrites
    /\ obligations' = [o \in Obligations |->
                         IF o \in S THEN [obligations[o] EXCEPT !.status = "OVERDUE", !.version = @ + 1]
                         ELSE obligations[o]]
    /\ UNCHANGED <<now, deals, confirmations, fulfillments, disputes>>

Tick == /\ now < MaxNow /\ now' = now + 1
        /\ UNCHANGED <<deals, confirmations, obligations, fulfillments, disputes>>

ExchangeNext ==
    \/ Tick
    \/ \E d \in Deals : ReviseDeal(d)
    \/ \E d \in Deals, m \in Members : \E v \in 1..deals[d].terms : ConfirmDeal(d, v, m)
    \/ \E o \in Obligations, k \in Slots : \/ \E q \in 1..Terms[o].total : SubmitFulfillment(o, k, q)
                                           \/ \E a \in 0..Terms[o].total : AcceptFulfillment(o, k, a)
    \/ \E o \in Obligations, k \in Slots \union {0} : OpenDispute(o, k)
    \/ \E o \in Obligations, action \in Resolutions : ResolveDispute(o, action)
    \/ \E asOf \in 0..MaxNow + 1, S \in SUBSET Obligations : MarkOverdue(asOf, S)

-----------------------------------------------------------------------------
ExchangeTypeOK ==
    /\ now \in Nat
    /\ deals \in [Deals -> [status : DealStatus, terms : Nat]]
    /\ confirmations \subseteq Deals \X Nat \X Members
    /\ obligations \in [Obligations -> ObligationRow]
    /\ fulfillments \in [Obligations -> [Slots -> FulfillmentRow]]
    /\ disputes \in [Obligations -> DisputeRow]

\* A fulfillment the creditor has not decided, also while a dispute suspends it
Undecided(o, k) ==
    \/ fulfillments[o][k].status = "SUBMITTED"
    \/ disputes[o].open /\ disputes[o].slot = k /\ disputes[o].fulfillmentWas = "SUBMITTED"

\* What is set aside in the slots of an obligation, and what was accepted in them
Awaited(o)  == [k \in Slots |-> IF Undecided(o, k) THEN fulfillments[o][k].quantity ELSE 0]
Accepted(o) == [k \in Slots |-> fulfillments[o][k].accepted]

\* The amounts of an obligation agree with its fulfillments through any order of submissions,
\* decisions, disputes and clearing: what is set aside is exactly what awaits a decision, what
\* is performed is exactly what was accepted, and together with what was cleared they never
\* exceed the debt.  Each command changes two rows and a dispute rewrites their statuses.
AmountsAccounted ==
    \A o \in Obligations :
        /\ obligations[o].submitted = SumFunction(Awaited(o))
        /\ obligations[o].fulfilled = SumFunction(Accepted(o))
        /\ Remaining(o, obligations[o]) >= 0

\* The status of a deal is what its obligations and disputes say, although the commands
\* of performance, disputes and clearing each update it on their own (_refresh_deal_status).
DealStatusAgrees ==
    \A d \in Deals : deals[d].status # "PROPOSED"
                        => deals[d].status = DealStatusFor(d, obligations, disputes)

\* Nobody is bound by terms he did not confirm: an obligation exists only if every party
\* confirmed the very version of the terms it was written from, whatever was confirmed before
\* a revision.
BoundByOwnConfirmation ==
    \A o \in Obligations : Exists(o) =>
        \A m \in PartiesTo(Terms[o].deal, obligations[o].terms) :
            <<Terms[o].deal, obligations[o].terms, m>> \in confirmations

\* An obligation is done when nothing of it is left: performance or clearing that closes an
\* operable obligation leaves no submitted fulfillment behind, which its creditor could then
\* no longer accept or reject (accept_fulfillment wants an operable obligation).
ClosedWithNothingPending ==
    [][\A o \in Obligations :
          /\ obligations[o].status \in Operable
          /\ obligations'[o].status \in {"FULFILLED", "CLOSED"}
          => \A k \in Slots : fulfillments'[o][k].status # "SUBMITTED"]_exchangeVars
=============================================================================

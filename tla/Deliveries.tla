----------------------------- MODULE Deliveries -----------------------------
(***************************************************************************)
(* How goods reach the creditor of an obligation (module Exchange): the    *)
(* carriage that is ordered for them and the goods they come from.  Since  *)
(* migration 0036 whoever performs a product obligation names a completed  *)
(* redemption of his own commodity right, of exactly the quantity he       *)
(* submits; a fulfillment submitted before is connected with its source    *)
(* afterwards.                                                             *)
(***************************************************************************)
EXTENDS Exchange

CONSTANTS
    ProductOf,    \* subject_id of a product obligation, None of another
    Redemptions,
    Goods,        \* Goods[r]: owner, product and quantity of redemption r and of its right
    Orders,
    Users,        \* accounts of the carrier
    None

VARIABLES
    traceable,    \* migration 0036 has run
    completed,    \* completed_at of the redemptions that are completed
    orders,       \* exchange.logistics_orders
    carriage,     \* logistics_order_id of a fulfillment, by obligation and slot
    performed,    \* performed_at of a fulfillment
    provenance    \* exchange.fulfillment_provenance: its redemption

deliveryVars == <<traceable, completed, orders, carriage, performed, provenance>>
vars == <<exchangeVars, deliveryVars>>

NoOrder == [status |-> "ABSENT", obligation |-> None, quantity |-> 0, user |-> None]
OpenOrder == {"OFFERED", "ACCEPTED", "IN_TRANSIT"}
Nothing == [f \in {} |-> 0]
Insert(rows, x, value) == [y \in DOMAIN rows \union {x} |-> IF y = x THEN value ELSE rows[y]]

Init == /\ ExchangeInit
        /\ traceable = FALSE /\ completed = Nothing
        /\ orders = [n \in Orders |-> NoOrder]
        /\ carriage = Nothing /\ performed = Nothing /\ provenance = Nothing

-----------------------------------------------------------------------------
Migrate == /\ ~traceable /\ traceable' = TRUE
           /\ UNCHANGED <<exchangeVars, completed, orders, carriage, performed, provenance>>

\* The redemption of a right is completed and its goods leave the warehouse (rights)
CompleteRedemption(r) ==
    /\ r \notin DOMAIN completed
    /\ completed' = Insert(completed, r, now)
    /\ UNCHANGED <<exchangeVars, traceable, orders, carriage, performed, provenance>>

\* create_logistics_order: open orders and this one within what is neither performed nor cleared
Ordered(o) == SumFunction([n \in {m \in Orders : orders[m].obligation = o /\ orders[m].status \in OpenOrder}
                             |-> orders[n].quantity])
CreateLogisticsOrder(n, o, q) ==
    /\ orders[n] = NoOrder /\ obligations[o].status \in Operable
    /\ Ordered(o) + q <= Terms[o].total - obligations[o].fulfilled - obligations[o].cleared
    /\ orders' = [orders EXCEPT ![n] = [status |-> "OFFERED", obligation |-> o, quantity |-> q, user |-> None]]
    /\ UNCHANGED <<exchangeVars, traceable, completed, carriage, performed, provenance>>

\* transition_logistics_order by an account of the carrier: whoever accepts sees it through
TransitionLogisticsOrder(n, u) ==
    /\ \/ orders[n].status = "OFFERED"
          /\ orders' = [orders EXCEPT ![n].status = "ACCEPTED", ![n].user = u]
       \/ orders[n].user = u
          /\ \/ orders[n].status = "ACCEPTED" /\ orders' = [orders EXCEPT ![n].status = "IN_TRANSIT"]
             \/ orders[n].status = "IN_TRANSIT" /\ orders' = [orders EXCEPT ![n].status = "DELIVERED"]
    /\ UNCHANGED <<exchangeVars, traceable, completed, carriage, performed, provenance>>

\* _product_fulfillment_source, for the quantity of a fulfillment and the time at which its
\* debtor says he performed
Used == {provenance[f] : f \in DOMAIN provenance}

\* Mutant: only the row of this fulfillment is looked up
UnusedHere(r) == r \in Redemptions

Unused(r) == r \notin Used
ProductSource(o, q, at, r) ==
    /\ r \in DOMAIN completed /\ Unused(r)
    /\ Goods[r] = [owner |-> Terms[o].debtor, product |-> ProductOf[o], quantity |-> q]
    /\ completed[r] <= at

\* submit_fulfillment with its source, none for another subject or before the migration, and
\* with the order that delivered it, if any
Submit(o, k, q, at, r, n) ==
    /\ SubmitFulfillment(o, k, q)
    /\ IF traceable /\ ProductOf[o] # None THEN ProductSource(o, q, at, r) ELSE r = None
    /\ n # None => /\ orders[n].obligation = o /\ orders[n].status = "DELIVERED"
                   /\ q <= orders[n].quantity
    /\ carriage' = Insert(carriage, <<o, k>>, n)
    /\ performed' = Insert(performed, <<o, k>>, at)
    /\ provenance' = IF r = None THEN provenance ELSE Insert(provenance, <<o, k>>, r)
    /\ UNCHANGED <<traceable, completed, orders>>

\* reconcile_fulfillment_provenance, whatever has become of the fulfillment
ReconcileFulfillmentProvenance(o, k, r) ==
    /\ traceable /\ <<o, k>> \in DOMAIN performed \ DOMAIN provenance
    /\ ProductOf[o] # None
    /\ ProductSource(o, fulfillments[o][k].quantity, performed[<<o, k>>], r)
    /\ provenance' = Insert(provenance, <<o, k>>, r)
    /\ UNCHANGED <<exchangeVars, traceable, completed, orders, carriage, performed>>

\* The other commands of Exchange neither read nor write these rows
OtherCommand ==
    /\ \/ Tick
       \/ \E d \in Deals : ReviseDeal(d)
       \/ \E d \in Deals, m \in Members : \E v \in 1..deals[d].terms : ConfirmDeal(d, v, m)
       \/ \E o \in Obligations, k \in Slots : \E a \in 0..Terms[o].total : AcceptFulfillment(o, k, a)
       \/ \E o \in Obligations, k \in Slots \union {0} : OpenDispute(o, k)
       \/ \E o \in Obligations, action \in Resolutions : ResolveDispute(o, action)
       \/ \E asOf \in 0..MaxNow + 1, S \in SUBSET Obligations : MarkOverdue(asOf, S)
    /\ UNCHANGED deliveryVars

Next ==
    \/ Migrate
    \/ \E r \in Redemptions : CompleteRedemption(r)
    \/ \E n \in Orders, o \in Obligations : \E q \in 1..Terms[o].total : CreateLogisticsOrder(n, o, q)
    \/ \E n \in Orders, u \in Users : TransitionLogisticsOrder(n, u)
    \/ \E o \in Obligations, k \in Slots, at \in 0..MaxNow, r \in Redemptions \union {None}, n \in Orders \union {None} :
          \E q \in 1..Terms[o].total : Submit(o, k, q, at, r, n)
    \/ \E o \in Obligations, k \in Slots, r \in Redemptions : ReconcileFulfillmentProvenance(o, k, r)
    \/ OtherCommand
Spec == Init /\ [][Next]_vars

-----------------------------------------------------------------------------
TypeOK ==
    /\ ExchangeTypeOK
    /\ traceable \in BOOLEAN /\ DOMAIN completed \subseteq Redemptions
    /\ DOMAIN orders = Orders
    /\ \A n \in Orders : /\ orders[n].obligation \in Obligations \union {None}
                         /\ orders[n].user = None <=> orders[n].status \in {"ABSENT", "OFFERED"}
    /\ DOMAIN carriage = DOMAIN performed /\ DOMAIN provenance \subseteq DOMAIN performed

\* What creditors accept of the fulfillments whose source is known was released before, once:
\* of each member and product the accepted quantities stay within the redemptions he completed,
\* through rejections, disputes and the reconciliation of old fulfillments, whose quantity
\* nothing changes afterwards.  Open orders of carriage never exceed the debt.
DeliveriesBacked ==
    /\ \A m \in Members, p \in {Goods[r].product : r \in Redemptions} :
          SumFunction([f \in {g \in DOMAIN provenance : Terms[g[1]].debtor = m /\ ProductOf[g[1]] = p}
                         |-> fulfillments[f[1]][f[2]].accepted])
            <= SumFunction([r \in {s \in DOMAIN completed : Goods[s].owner = m /\ Goods[s].product = p}
                              |-> Goods[r].quantity])
    /\ \A f \in DOMAIN provenance : fulfillments[f[1]][f[2]].quantity = Goods[provenance[f]].quantity
    /\ \A o \in Obligations : Ordered(o) <= Terms[o].total
=============================================================================

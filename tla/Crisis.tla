-------------------------------- MODULE Crisis --------------------------------
(***************************************************************************)
(* Crisis mandates and the rationing of one resource of a cooperative.     *)
(* Commands lock the row they change; previews and confirmations of plans  *)
(* and activations of mandates also take the lock of the cooperative.      *)
(* Mandates and rules are read without a lock elsewhere: SawEffective,     *)
(* SawActiveRule.  cancel_rationing_plan counts the issued rations in one  *)
(* statement and cancels the others in a later one: two steps here.        *)
(***************************************************************************)
EXTENDS Functions, Integers

CONSTANTS
    Members, Operators, Controllers,
    Reviewers,      \* REVIEW_ROLES: controllers and auditors
    Eligible,       \* members who receive rations
    Nobody,
    Targets, Mandates, Rules, Plans, Snapshots, Forms,
    MaxAvailable,   \* bound on the quantity of a snapshot
    Maximum,        \* maximum_per_member of the rules
    MaximumEnd,     \* maximum_end_at of the mandates
    MaxTime

VARIABLES
    now,
    targets, mandates, rules, plans,
    snapshots,      \* the quantity available of each reserve snapshot taken, and of which target
    latest,         \* _latest_snapshot of a target, or 0
    cancelling,     \* plans whose cancellation found nothing issued and is not committed
    forms           \* solidarity.crisis_paper_forms

vars == <<now, targets, mandates, rules, plans, snapshots, latest, cancelling, forms>>

Anyone == Members \union {Nobody}
NoTarget == [status |-> "ABSENT", proposer |-> Nobody]
NoMandate == [status |-> "ABSENT", proposer |-> Nobody, activator |-> Nobody, expires |-> 0]
NoRule == [status |-> "ABSENT", proposer |-> Nobody, mandate |-> {}, target |-> {}]
Rations == {"NONE", "PROPOSED", "RESERVED", "ISSUED", "CANCELLED"}
NoPlan == [status |-> "ABSENT", proposer |-> Nobody, confirmer |-> Nobody, rule |-> {}, snapshot |-> 0,
           shares |-> [m \in Eligible |-> 0], rations |-> [m \in Eligible |-> "NONE"]]
NoForm == [status |-> "ABSENT", issuer |-> Nobody, mandate |-> {}, until |-> 0]

Init ==
    /\ now = 0
    /\ targets = [t \in Targets |-> NoTarget]
    /\ mandates = [m \in Mandates |-> NoMandate]
    /\ rules = [r \in Rules |-> NoRule]
    /\ plans = [p \in Plans |-> NoPlan]
    /\ snapshots = [s \in Snapshots |-> -1]
    /\ latest = [t \in Targets |-> 0]
    /\ cancelling = {}
    /\ forms = [f \in Forms |-> NoForm]

-----------------------------------------------------------------------------
\* _require_effective_mandate on a row read without a lock: it may have been closed meanwhile
SawEffective(m) == mandates[m].status \in {"ACTIVE", "CLOSED", "EXPIRED"} /\ now < mandates[m].expires
SawActiveRule(r) == rules[r].status \in {"ACTIVE", "RETIRED"}
OfRule(p, field) == UNION {rules[r][field] : r \in plans[p].rule}

ProposeReserveTarget(t, a) ==
    /\ targets[t].status = "ABSENT" /\ a \in Operators
    /\ targets' = [targets EXCEPT ![t] = [status |-> "DRAFT", proposer |-> a]]
    /\ UNCHANGED <<now, mandates, rules, plans, snapshots, latest, cancelling, forms>>

InUse(t) == \E r \in Rules : /\ rules[r].status = "ACTIVE" /\ t \in rules[r].target
                             /\ \E m \in rules[r].mandate : mandates[m].status = "ACTIVE"
\* The active target found is retired; two approvals at a time do not find each other's (found = {})
ApproveReserveTarget(t, a, found) ==
    /\ targets[t].status = "DRAFT" /\ a \in Controllers \ {targets[t].proposer}
    /\ \A u \in found : targets[u].status = "ACTIVE" /\ ~InUse(u)
    /\ targets' = [u \in Targets |-> IF u = t THEN [targets[u] EXCEPT !.status = "ACTIVE"]
                                     ELSE IF u \in found THEN [targets[u] EXCEPT !.status = "RETIRED"]
                                     ELSE targets[u]]
    /\ UNCHANGED <<now, mandates, rules, plans, snapshots, latest, cancelling, forms>>

\* assess_reserve bounds what is available by what was verified
RecordReserveSnapshot(s, t, available) ==
    /\ targets[t].status \in {"ACTIVE", "RETIRED"} /\ snapshots[s] = -1
    /\ snapshots' = [snapshots EXCEPT ![s] = available]
    /\ latest' = [latest EXCEPT ![t] = s]
    /\ UNCHANGED <<now, targets, mandates, rules, plans, cancelling, forms>>

-----------------------------------------------------------------------------
ProposeMandate(m, a, expires) ==
    /\ mandates[m].status = "ABSENT" /\ a \in Operators
    /\ now < expires /\ expires <= MaximumEnd
    /\ mandates' = [mandates EXCEPT ![m] = [status |-> "DRAFT", proposer |-> a,
                                            activator |-> Nobody, expires |-> expires]]
    /\ UNCHANGED <<now, targets, rules, plans, snapshots, latest, cancelling, forms>>

OtherActive(m) == {n \in Mandates \ {m} : mandates[n].status = "ACTIVE"}
ActivateMandate(m, a) ==
    /\ mandates[m].status = "DRAFT" /\ now < mandates[m].expires
    /\ a \in Controllers \ {mandates[m].proposer} /\ OtherActive(m) = {}
    /\ mandates' = [mandates EXCEPT ![m].status = "ACTIVE", ![m].activator = a]
    /\ UNCHANGED <<now, targets, rules, plans, snapshots, latest, cancelling, forms>>

\* review_mandate, which keeps or extends the end; the time of the next review guards nothing
ReviewMandate(m, a, expires) ==
    /\ mandates[m].status = "ACTIVE" /\ now < mandates[m].expires
    /\ a \in Reviewers \ {mandates[m].proposer, mandates[m].activator}
    /\ mandates[m].expires <= expires /\ expires <= MaximumEnd
    /\ mandates' = [mandates EXCEPT ![m].expires = expires]
    /\ UNCHANGED <<now, targets, rules, plans, snapshots, latest, cancelling, forms>>

\* Counted by close_mandate: reserved rations under its rules, forms that are still out
Unreconciled(m) ==
    \/ \E p \in Plans, e \in Eligible : m \in OfRule(p, "mandate") /\ plans[p].rations[e] = "RESERVED"
    \/ \E f \in Forms : m \in forms[f].mandate /\ forms[f].status = "ISSUED" /\ now < forms[f].until
CloseMandate(m, a) ==
    /\ mandates[m].status = "ACTIVE" /\ a \in Reviewers \ {mandates[m].proposer}
    /\ ~Unreconciled(m)
    /\ mandates' = [mandates EXCEPT ![m].status = IF now < mandates[m].expires THEN "CLOSED" ELSE "EXPIRED"]
    /\ UNCHANGED <<now, targets, rules, plans, snapshots, latest, cancelling, forms>>

-----------------------------------------------------------------------------
ProposeRationingRule(r, m, t, a) ==
    /\ rules[r].status = "ABSENT" /\ SawEffective(m) /\ targets[t].status \in {"ACTIVE", "RETIRED"}
    /\ a \in Operators
    /\ rules' = [rules EXCEPT ![r] = [status |-> "DRAFT", proposer |-> a, mandate |-> {m}, target |-> {t}]]
    /\ UNCHANGED <<now, targets, mandates, plans, snapshots, latest, cancelling, forms>>

OpenRations(r) == \E p \in Plans, e \in Eligible :
                      r \in plans[p].rule /\ plans[p].rations[e] \in {"PROPOSED", "RESERVED"}
\* As with targets, an approval that runs at the same time is not found
ApproveRationingRule(r, a, found) ==
    /\ rules[r].status = "DRAFT" /\ a \in Controllers \ {rules[r].proposer}
    /\ \A m \in rules[r].mandate : SawEffective(m)
    /\ \A q \in found : /\ rules[q].status = "ACTIVE" /\ ~OpenRations(q)
                        /\ rules[q].mandate = rules[r].mandate /\ rules[q].target = rules[r].target
    /\ rules' = [q \in Rules |-> IF q = r THEN [rules[q] EXCEPT !.status = "ACTIVE"]
                                 ELSE IF q \in found THEN [rules[q] EXCEPT !.status = "RETIRED"]
                                 ELSE rules[q]]
    /\ UNCHANGED <<now, targets, mandates, plans, snapshots, latest, cancelling, forms>>

\* _reserved_total: rations of confirmed plans that are reserved or issued
Held(p, statuses) ==
    SumFunction([e \in Eligible |-> IF plans[p].rations[e] \in statuses THEN plans[p].shares[e] ELSE 0])
Confirmed(t) == {p \in Plans : plans[p].status = "CONFIRMED" /\ t \in OfRule(p, "target")}
\* Mutant: rations that were handed out are forgotten
ReservedUnissued(t) == SumFunction([p \in Confirmed(t) |-> Held(p, {"RESERVED"})])
ReservedTotal(t) == SumFunction([p \in Confirmed(t) |-> Held(p, {"RESERVED", "ISSUED"})])

\* allocate_rations: never more than the maximum each, nor than what is available together
Shares(available) ==
    {share \in [Eligible -> 0..Maximum] : SumFunction(share) <= available}

PreviewRationingPlan(p, r, a, share) ==
    /\ plans[p].status = "ABSENT" /\ SawActiveRule(r) /\ a \in Operators
    /\ \A m \in rules[r].mandate : SawEffective(m)
    /\ \E t \in rules[r].target :
          /\ latest[t] # 0
          /\ share \in Shares(snapshots[latest[t]] - ReservedTotal(t))
          /\ plans' = [plans EXCEPT ![p] =
                 [status |-> "PREVIEWED", proposer |-> a, confirmer |-> Nobody, rule |-> {r},
                  snapshot |-> latest[t], shares |-> share,
                  rations |-> [e \in Eligible |-> "PROPOSED"]]]
    /\ UNCHANGED <<now, targets, mandates, rules, snapshots, latest, cancelling, forms>>

\* The input of the plan must still be the latest snapshot and suffice beside what is reserved
ConfirmRationingPlan(p, a) ==
    /\ plans[p].status = "PREVIEWED" /\ p \notin cancelling
    /\ a \in Controllers \ {plans[p].proposer}
    /\ \A m \in OfRule(p, "mandate") : SawEffective(m)
    /\ \A t \in OfRule(p, "target") :
          /\ latest[t] = plans[p].snapshot
          /\ Held(p, {"PROPOSED"}) <= snapshots[latest[t]] - ReservedTotal(t)
    /\ plans' = [plans EXCEPT ![p].status = "CONFIRMED", ![p].confirmer = a,
                              ![p].rations = [e \in Eligible |-> "RESERVED"]]
    /\ UNCHANGED <<now, targets, mandates, rules, snapshots, latest, cancelling, forms>>

\* cancel_rationing_plan up to its count of issued rations
BeginCancel(p, a) ==
    /\ plans[p].status \in {"PREVIEWED", "CONFIRMED"} /\ p \notin cancelling
    /\ a \in Controllers \ {plans[p].proposer}
    /\ \A e \in Eligible : plans[p].rations[e] # "ISSUED"
    /\ cancelling' = cancelling \union {p}
    /\ UNCHANGED <<now, targets, mandates, rules, plans, snapshots, latest, forms>>

\* The update that follows skips what was issued meanwhile
CancelRationingPlan(p) ==
    /\ p \in cancelling
    /\ cancelling' = cancelling \ {p}
    /\ plans' = [plans EXCEPT ![p].status = "CANCELLED",
                              ![p].rations = [e \in Eligible |->
                                  IF plans[p].rations[e] \in {"PROPOSED", "RESERVED"}
                                  THEN "CANCELLED" ELSE plans[p].rations[e]]]
    /\ UNCHANGED <<now, targets, mandates, rules, snapshots, latest, forms>>

\* issue_ration locks the ration, not the plan
IssueRation(p, e, a) ==
    /\ plans[p].rations[e] = "RESERVED" /\ plans[p].shares[e] > 0
    /\ \A m \in OfRule(p, "mandate") : SawEffective(m)
    /\ a \in Operators \ {e, plans[p].confirmer}
    /\ plans' = [plans EXCEPT ![p].rations = [plans[p].rations EXCEPT ![e] = "ISSUED"]]
    /\ UNCHANGED <<now, targets, mandates, rules, snapshots, latest, cancelling, forms>>

IssuePaperForm(f, m, a, until) ==
    /\ forms[f].status = "ABSENT" /\ SawEffective(m) /\ a \in Operators
    /\ now < until /\ until <= mandates[m].expires
    /\ forms' = [forms EXCEPT ![f] = [status |-> "ISSUED", issuer |-> a, mandate |-> {m}, until |-> until]]
    /\ UNCHANGED <<now, targets, mandates, rules, plans, snapshots, latest, cancelling>>

RecordPaperForm(f, a) ==
    /\ forms[f].status = "ISSUED" /\ now < forms[f].until
    /\ \A m \in forms[f].mandate : SawEffective(m)
    /\ a \in Controllers \ {forms[f].issuer}
    /\ forms' = [forms EXCEPT ![f].status = "RECORDED"]
    /\ UNCHANGED <<now, targets, mandates, rules, plans, snapshots, latest, cancelling>>

Tick == /\ now < MaxTime /\ now' = now + 1
        /\ UNCHANGED <<targets, mandates, rules, plans, snapshots, latest, cancelling, forms>>

Optional(S) == {{}} \union {{x} : x \in S}
Next ==
    \/ \E t \in Targets, a \in Members :
          \/ ProposeReserveTarget(t, a)
          \/ \E found \in Optional(Targets \ {t}) : ApproveReserveTarget(t, a, found)
    \/ \E s \in Snapshots, t \in Targets, q \in 0..MaxAvailable : RecordReserveSnapshot(s, t, q)
    \/ \E m \in Mandates, a \in Members :
          \/ ActivateMandate(m, a) \/ CloseMandate(m, a)
          \/ \E e \in 1..MaximumEnd : ProposeMandate(m, a, e) \/ ReviewMandate(m, a, e)
    \/ \E r \in Rules, a \in Members :
          \/ \E m \in Mandates, t \in Targets : ProposeRationingRule(r, m, t, a)
          \/ \E found \in Optional(Rules \ {r}) : ApproveRationingRule(r, a, found)
    \/ \E p \in Plans, r \in Rules, a \in Members, share \in [Eligible -> 0..Maximum] :
          PreviewRationingPlan(p, r, a, share)
    \/ \E p \in Plans, a \in Members : ConfirmRationingPlan(p, a) \/ BeginCancel(p, a)
    \/ \E p \in Plans : CancelRationingPlan(p)
    \/ \E p \in Plans, e \in Eligible, a \in Members : IssueRation(p, e, a)
    \/ \E f \in Forms, a \in Members :
          \/ RecordPaperForm(f, a)
          \/ \E m \in Mandates, until \in 1..MaximumEnd : IssuePaperForm(f, m, a, until)
    \/ Tick

Spec == Init /\ [][Next]_vars

-----------------------------------------------------------------------------
TypeOK ==
    /\ now \in 0..MaxTime
    /\ targets \in [Targets -> [status : {"ABSENT", "DRAFT", "ACTIVE", "RETIRED"}, proposer : Anyone]]
    /\ mandates \in [Mandates -> [status : {"ABSENT", "DRAFT", "ACTIVE", "CLOSED", "EXPIRED"},
                                  proposer : Anyone, activator : Anyone, expires : 0..MaximumEnd]]
    /\ rules \in [Rules -> [status : {"ABSENT", "DRAFT", "ACTIVE", "RETIRED"}, proposer : Anyone,
                            mandate : SUBSET Mandates, target : SUBSET Targets]]
    /\ plans \in [Plans -> [status : {"ABSENT", "PREVIEWED", "CONFIRMED", "CANCELLED"}, proposer : Anyone,
                            confirmer : Anyone, rule : SUBSET Rules, snapshot : Snapshots \union {0},
                            shares : [Eligible -> 0..Maximum], rations : [Eligible -> Rations]]]
    /\ snapshots \in [Snapshots -> -1..MaxAvailable]
    /\ latest \in [Targets -> Snapshots \union {0}]
    /\ cancelling \in SUBSET Plans
    /\ forms \in [Forms -> [status : {"ABSENT", "ISSUED", "RECORDED"}, issuer : Anyone,
                            mandate : SUBSET Mandates, until : 0..MaximumEnd]]

MadeOn(s) == {p \in Plans : plans[p].snapshot = s}
Available(s) == IF snapshots[s] = -1 THEN 0 ELSE snapshots[s]

\* What was reserved or handed out from a snapshot, whatever became of the plan
Drawn(s) == SumFunction([p \in MadeOn(s) |-> Held(p, {"RESERVED", "ISSUED"})])

\* What a plan handed out between the count and the update of its cancellation: _reserved_total
\* looks at confirmed plans only and gives the same stock to the next plan.
Forgotten(s) ==
    SumFunction([p \in {q \in MadeOn(s) : plans[q].status = "CANCELLED"} |-> Held(p, {"ISSUED"})])

\* Counting every ration of every plan, cancelled ones too (confirm_rationing_plan, issue_ration,
\* cancel_rationing_plan), a plan never holds more than the snapshot found, and all together exceed
\* that by no more than what cancelled plans handed out while they were being cancelled.
RationsWithinSnapshot ==
    \A s \in Snapshots :
        /\ \A p \in MadeOn(s) : Held(p, {"RESERVED", "ISSUED"}) <= Available(s)
        /\ Drawn(s) <= Available(s) + Forgotten(s)

\* What the documentation says of a verified stock: it is not given out twice (confirm_rationing_plan).
StockGivenOnce == \A s \in Snapshots : Drawn(s) <= Available(s)

\* A cooperative is under one mandate at most (activate_mandate), so exceptional powers do not add up.
OneMandate ==
    \A m, n \in Mandates : mandates[m].status = "ACTIVE" /\ mandates[n].status = "ACTIVE" => m = n

\* What the emergency allows is bounded: one mandate at a time, and rations within the counted stock
\* but for what a cancellation overtook (activate_mandate, confirm_rationing_plan).
EmergencyBounded == RationsWithinSnapshot /\ OneMandate
=============================================================================

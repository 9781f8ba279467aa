--------------------------------- MODULE Trust ---------------------------------
(***************************************************************************)
(* One trust case: opened against a member, answered, decided, appealed,   *)
(* perhaps sent back and decided again, with the protective measures,      *)
(* sanctions, reputation events and rehabilitation plans that follow from  *)
(* it.  Every command is a transaction that locks the rows it changes, the *)
(* case among them wherever its status decides.                            *)
(***************************************************************************)
EXTENDS FiniteSetsExt, Integers

CONSTANTS
    Members, Admins, Auditors, Arbitrators,
    Protectors,     \* PROTECTIVE_ROLES
    Subject, Claimant, Nobody,
    Policies, Decisions, Sanctions, Measures, Reputations, Rehabilitations,
    Steps,          \* steps of a rehabilitation plan
    AppealWindow, MaxProtective, MaxTime

VARIABLES
    now,
    policies,       \* trust.policies
    case,           \* trust.cases, one row
    declared,       \* trust.conflict_declarations of the case
    measures, decisions, sanctions,
    reputations,    \* trust.reputation_events
    plans           \* trust.rehabilitation_plans with the steps that are still pending

vars == <<now, policies, case, declared, measures, decisions, sanctions, reputations, plans>>

Anyone == Members \union {Nobody}
Stages == {"ORIGINAL", "APPEAL", "REHABILITATION"}
AppealOutcomes == {"AFFIRMED", "MODIFIED", "OVERTURNED", "REMANDED"}
NoPolicy == [status |-> "ABSENT", proposer |-> Nobody]
NoCase == [status |-> "ABSENT", responded |-> FALSE, until |-> 0]
NoDecision == [issuer |-> Nobody, substantiated |-> FALSE, appeal |-> "NONE"]
NoMeasure == [status |-> "ABSENT", until |-> 0]
NoSanction == [status |-> "ABSENT", decision |-> {}, until |-> 0]
\* The row that records a fact, and the later row that affirms or corrects it
NoReputation == [state |-> "ABSENT", decision |-> {}]
NoPlan == [status |-> "ABSENT", decision |-> {}, creator |-> Nobody, pending |-> {}]

Init ==
    /\ now = 0
    /\ policies = [p \in Policies |-> NoPolicy]
    /\ case = NoCase
    /\ declared = {}
    /\ measures = [m \in Measures |-> NoMeasure]
    /\ decisions = [d \in Decisions |-> NoDecision]
    /\ sanctions = [s \in Sanctions |-> NoSanction]
    /\ reputations = [r \in Reputations |-> NoReputation]
    /\ plans = [p \in Rehabilitations |-> NoPlan]

Issued == {d \in Decisions : decisions[d].issuer # Nobody}
Parties == {Subject, Claimant}
\* _require_clear_conflict
Clear(a, stage) == [member |-> a, stage |-> stage] \in declared

-----------------------------------------------------------------------------
ProposePolicy(p, a) ==
    /\ policies[p].status = "ABSENT" /\ a \in Admins
    /\ policies' = [policies EXCEPT ![p] = [status |-> "PROPOSED", proposer |-> a]]
    /\ UNCHANGED <<now, case, declared, measures, decisions, sanctions, reputations, plans>>

ApprovePolicy(p, a) ==
    /\ policies[p].status = "PROPOSED" /\ a \in Auditors \ {policies[p].proposer}
    /\ policies' = [q \in Policies |-> IF q = p THEN [policies[q] EXCEPT !.status = "ACTIVE"]
                                       ELSE IF policies[q].status = "ACTIVE"
                                            THEN [policies[q] EXCEPT !.status = "SUPERSEDED"]
                                       ELSE policies[q]]
    /\ UNCHANGED <<now, case, declared, measures, decisions, sanctions, reputations, plans>>

\* The case keeps the policy that was active
OpenCase ==
    /\ case.status = "ABSENT" /\ \E p \in Policies : policies[p].status = "ACTIVE"
    /\ case' = [case EXCEPT !.status = "OPEN"]
    /\ UNCHANGED <<now, policies, declared, measures, decisions, sanctions, reputations, plans>>

RecordResponse ==
    /\ case.status \in {"OPEN", "REMANDED"} /\ ~case.responded
    /\ case' = [case EXCEPT !.status = "RESPONSE_RECEIVED", !.responded = TRUE]
    /\ UNCHANGED <<now, policies, declared, measures, decisions, sanctions, reputations, plans>>

MarkCaseReady(a) ==
    /\ case.status \in {"RESPONSE_RECEIVED", "REMANDED"} /\ a \in Auditors \ Parties
    /\ case' = [case EXCEPT !.status = "READY_FOR_DECISION"]
    /\ UNCHANGED <<now, policies, declared, measures, decisions, sanctions, reputations, plans>>

\* declare_conflict with assessment CLEAR.  A conflict that is declared keeps the arbitrator out of
\* the stage, as if he declared nothing, and is not kept.
DeclareConflict(a, stage) ==
    /\ case.status # "ABSENT" /\ a \in Arbitrators \ Parties /\ ~Clear(a, stage)
    /\ declared' = declared \union {[member |-> a, stage |-> stage]}
    /\ UNCHANGED <<now, policies, case, measures, decisions, sanctions, reputations, plans>>

\* Mutant: a period one too long is still accepted
ProtectiveOneMore(until) == now < until /\ until <= now + MaxProtective + 1
Protective(until) == now < until /\ until <= now + MaxProtective

ImposeProtectiveMeasure(m, a, until) ==
    /\ measures[m].status = "ABSENT" /\ case.status \notin {"ABSENT", "CLOSED"}
    /\ a \in Protectors \ {Subject}
    /\ Protective(until)
    /\ measures' = [measures EXCEPT ![m] = [status |-> "ACTIVE", until |-> until]]
    /\ UNCHANGED <<now, policies, case, declared, decisions, sanctions, reputations, plans>>

LiftProtectiveMeasure(m) ==
    /\ measures[m].status = "ACTIVE"
    /\ measures' = [measures EXCEPT ![m].status = "LIFTED"]
    /\ UNCHANGED <<now, policies, case, declared, decisions, sanctions, reputations, plans>>

-----------------------------------------------------------------------------
IssueOriginalDecision(d, a, substantiated) ==
    /\ case.status = "READY_FOR_DECISION" /\ d \notin Issued
    /\ a \in Arbitrators \ Parties /\ Clear(a, "ORIGINAL")
    /\ decisions' = [decisions EXCEPT ![d] = [issuer |-> a, substantiated |-> substantiated,
                                              appeal |-> "NONE"]]
    /\ case' = [case EXCEPT !.status = "DECIDED", !.until = now + AppealWindow]
    /\ UNCHANGED <<now, policies, declared, measures, sanctions, reputations, plans>>

\* Any original decision of the case will do, also one that was sent back
ProposeSanction(s, d, a) ==
    /\ sanctions[s].status = "ABSENT" /\ case.status = "DECIDED"
    /\ d \in Issued /\ decisions[d].substantiated /\ a = decisions[d].issuer
    /\ sanctions' = [sanctions EXCEPT ![s] = [status |-> "PENDING_APPEAL", decision |-> {d},
                                              until |-> case.until]]
    /\ UNCHANGED <<now, policies, case, declared, measures, decisions, reputations, plans>>

\* record_reputation_event does not look at the status of the case
RecordReputationEvent(r, d, a) ==
    /\ reputations[r].state = "ABSENT" /\ d \in Issued /\ a \in Auditors \ {decisions[d].issuer}
    /\ reputations' = [reputations EXCEPT ![r] = [state |-> "DISPUTED", decision |-> {d}]]
    /\ UNCHANGED <<now, policies, case, declared, measures, decisions, sanctions, plans>>

SubmitAppeal(d) ==
    /\ case.status = "DECIDED" /\ now <= case.until
    /\ d \in Issued /\ decisions[d].appeal = "NONE"
    /\ decisions' = [decisions EXCEPT ![d].appeal = "SUBMITTED"]
    /\ case' = [case EXCEPT !.status = "UNDER_APPEAL"]
    /\ UNCHANGED <<now, policies, declared, measures, sanctions, reputations, plans>>

-----------------------------------------------------------------------------
\* _append_affirmed_reputation: the facts still disputed are affirmed
Affirmed(d) == [r \in Reputations |->
    IF reputations[r].decision = {d} /\ reputations[r].state = "DISPUTED"
    THEN [reputations[r] EXCEPT !.state = "AFFIRMED"] ELSE reputations[r]]

\* _activate_pending_consequences
Activated(d) == [s \in Sanctions |->
    IF sanctions[s].decision = {d} /\ sanctions[s].status = "PENDING_APPEAL"
    THEN [sanctions[s] EXCEPT !.status = "ACTIVE"] ELSE sanctions[s]]

\* _correct_consequences revokes the sanctions of the decision and what else the case imposed
\* Mutant: only the sanctions in force are revoked
RevokedActive(d) == [s \in Sanctions |->
    IF sanctions[s].decision = {d} /\ sanctions[s].status = "ACTIVE"
    THEN [sanctions[s] EXCEPT !.status = "REVOKED"] ELSE sanctions[s]]
Revoked(d) == [s \in Sanctions |->
    IF sanctions[s].decision = {d} /\ sanctions[s].status \in {"PENDING_APPEAL", "ACTIVE"}
    THEN [sanctions[s] EXCEPT !.status = "REVOKED"] ELSE sanctions[s]]
MeasuresRevoked == [m \in Measures |->
    IF measures[m].status = "ACTIVE" THEN [measures[m] EXCEPT !.status = "REVOKED"] ELSE measures[m]]
PlansCancelled == [p \in Rehabilitations |->
    IF plans[p].status = "ACTIVE" THEN [plans[p] EXCEPT !.status = "CANCELLED"] ELSE plans[p]]
Corrected(d) == [r \in Reputations |->
    IF reputations[r].decision = {d} THEN [reputations[r] EXCEPT !.state = "CORRECTED"]
    ELSE reputations[r]]

\* decide_appeal by another arbitrator than the one of the decision
DecideAppeal(d, a, outcome) ==
    /\ case.status = "UNDER_APPEAL" /\ decisions[d].appeal = "SUBMITTED"
    /\ a \in Arbitrators \ (Parties \union {decisions[d].issuer}) /\ Clear(a, "APPEAL")
    /\ decisions' = [decisions EXCEPT ![d].appeal = outcome]
    /\ case' = [case EXCEPT !.status = IF outcome = "REMANDED" THEN "REMANDED" ELSE "CLOSED"]
    /\ CASE outcome = "AFFIRMED" -> /\ sanctions' = Activated(d) /\ reputations' = Affirmed(d)
                                    /\ UNCHANGED <<measures, plans>>
         [] outcome = "REMANDED" -> UNCHANGED <<sanctions, reputations, measures, plans>>
         [] OTHER -> /\ sanctions' = Revoked(d) /\ reputations' = Corrected(d)
                     /\ measures' = MeasuresRevoked /\ plans' = PlansCancelled
    /\ UNCHANGED <<now, policies, declared>>

\* finalize_unappealed_sanction looks for a pending appeal, not at the status of the case
FinalizeUnappealedSanction(s, a) ==
    /\ sanctions[s].status = "PENDING_APPEAL" /\ sanctions[s].until < now
    /\ \A d \in sanctions[s].decision :
          /\ decisions[d].appeal # "SUBMITTED"
          /\ a \in Arbitrators \ {decisions[d].issuer} /\ Clear(a, "APPEAL")
          /\ reputations' = Affirmed(d)
    /\ sanctions' = [sanctions EXCEPT ![s].status = "ACTIVE"]
    /\ case' = [case EXCEPT !.status = "CLOSED"]
    /\ UNCHANGED <<now, policies, declared, measures, decisions, plans>>

-----------------------------------------------------------------------------
\* A plan may follow from an original decision or from an appeal that upheld it
CreateRehabilitationPlan(p, d, a) ==
    /\ plans[p].status = "ABSENT" /\ a \in Arbitrators
    /\ d \in Issued /\ (decisions[d].substantiated \/ decisions[d].appeal \in {"AFFIRMED", "MODIFIED"})
    /\ plans' = [plans EXCEPT ![p] = [status |-> "ACTIVE", decision |-> {d}, creator |-> a,
                                      pending |-> Steps]]
    /\ UNCHANGED <<now, policies, case, declared, measures, decisions, sanctions, reputations>>

CompleteRehabilitationStep(p, i, a) ==
    /\ plans[p].status = "ACTIVE" /\ i \in plans[p].pending /\ a \in Auditors \ {Subject}
    /\ plans' = [plans EXCEPT ![p].pending = plans[p].pending \ {i}]
    /\ UNCHANGED <<now, policies, case, declared, measures, decisions, sanctions, reputations>>

CloseRehabilitationPlan(p, a) ==
    /\ plans[p].status = "ACTIVE" /\ plans[p].pending = {}
    /\ a \in Arbitrators \ {plans[p].creator} /\ Clear(a, "REHABILITATION")
    /\ plans' = [plans EXCEPT ![p].status = "COMPLETED"]
    /\ UNCHANGED <<now, policies, case, declared, measures, decisions, sanctions, reputations>>

Tick == /\ now < MaxTime /\ now' = now + 1
        /\ UNCHANGED <<policies, case, declared, measures, decisions, sanctions, reputations, plans>>

Next ==
    \/ \E p \in Policies, a \in Members : ProposePolicy(p, a) \/ ApprovePolicy(p, a)
    \/ OpenCase \/ RecordResponse \/ Tick
    \/ \E a \in Members : MarkCaseReady(a)
    \/ \E a \in Arbitrators, stage \in Stages : DeclareConflict(a, stage)
    \/ \E m \in Measures, a \in Members, until \in 1..(MaxTime + MaxProtective + 1) :
          ImposeProtectiveMeasure(m, a, until)
    \/ \E m \in Measures : LiftProtectiveMeasure(m)
    \/ \E d \in Decisions, a \in Members :
          \/ \E substantiated \in BOOLEAN : IssueOriginalDecision(d, a, substantiated)
          \/ \E s \in Sanctions : ProposeSanction(s, d, a)
          \/ \E r \in Reputations : RecordReputationEvent(r, d, a)
          \/ \E outcome \in AppealOutcomes : DecideAppeal(d, a, outcome)
          \/ \E p \in Rehabilitations : CreateRehabilitationPlan(p, d, a)
    \/ \E d \in Decisions : SubmitAppeal(d)
    \/ \E s \in Sanctions, a \in Members : FinalizeUnappealedSanction(s, a)
    \/ \E p \in Rehabilitations, a \in Members :
          CloseRehabilitationPlan(p, a) \/ \E i \in Steps : CompleteRehabilitationStep(p, i, a)

Spec == Init /\ [][Next]_vars

-----------------------------------------------------------------------------
TypeOK ==
    /\ now \in 0..MaxTime
    /\ policies \in [Policies -> [status : {"ABSENT", "PROPOSED", "ACTIVE", "SUPERSEDED"}, proposer : Anyone]]
    /\ case \in [status : {"ABSENT", "OPEN", "RESPONSE_RECEIVED", "READY_FOR_DECISION", "DECIDED",
                           "UNDER_APPEAL", "REMANDED", "CLOSED"},
                 responded : BOOLEAN, until : 0..(MaxTime + AppealWindow)]
    /\ declared \subseteq [member : Arbitrators, stage : Stages]
    /\ measures \in [Measures -> [status : {"ABSENT", "ACTIVE", "LIFTED", "REVOKED"},
                                  until : 0..(MaxTime + MaxProtective)]]
    /\ decisions \in [Decisions -> [issuer : Anyone, substantiated : BOOLEAN,
                                    appeal : {"NONE", "SUBMITTED"} \union AppealOutcomes]]
    /\ sanctions \in [Sanctions -> [status : {"ABSENT", "PENDING_APPEAL", "ACTIVE", "REVOKED"},
                                    decision : SUBSET Decisions, until : 0..(MaxTime + AppealWindow)]]
    /\ reputations \in [Reputations -> [state : {"ABSENT", "DISPUTED", "AFFIRMED", "CORRECTED"},
                                        decision : SUBSET Decisions]]
    /\ plans \in [Rehabilitations -> [status : {"ABSENT", "ACTIVE", "COMPLETED", "CANCELLED"},
                                      decision : SUBSET Decisions, creator : Anyone, pending : SUBSET Steps]]

\* require_member_action_allowed: what restricts the subject now, in the rest of the system
InForce == {m \in Measures : measures[m].status = "ACTIVE" /\ now < measures[m].until}
Sanctioned(d) == {s \in Sanctions : sanctions[s].decision = {d} /\ sanctions[s].status = "ACTIVE"}

\* A decision that was overturned or modified restricts nobody: its sanctions are revoked and cannot
\* come back, no measure of the case is left, and whatever was in flight then - a proposal, a
\* measure, a finalization - does not restore one (decide_appeal, _correct_consequences).
OverturnedWithoutEffect ==
    \A d \in Decisions :
        decisions[d].appeal \in {"MODIFIED", "OVERTURNED"} =>
            /\ case.status = "CLOSED" /\ InForce = {} /\ Sanctioned(d) = {}
            /\ \A s \in Sanctions : sanctions[s].decision = {d} => sanctions[s].status = "REVOKED"

\* While an appeal against a decision is pending none of its sanctions is in force.
PendingAppealSuspends ==
    \A d \in Decisions : decisions[d].appeal = "SUBMITTED" => Sanctioned(d) = {}

\* An appeal governs the consequences of the decision: pending it suspends them, won it ends them.
AppealGoverns == PendingAppealSuspends /\ OverturnedWithoutEffect
=============================================================================

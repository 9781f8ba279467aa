---------------------------- MODULE SyncPackages ----------------------------
(***************************************************************************)
(* Carrying the journal of one node to another in signed packages: a range  *)
(* of the source's events is exported, travels on a medium that may lose,   *)
(* delay or repeat it, is simulated in the inbox of the receiver, has its    *)
(* conflicts decided by an independent auditor and is applied as a whole.    *)
(***************************************************************************)
EXTENDS Integers, FiniteSets

CONSTANTS
    Events,      \* 1 .. N, positions in the source's journal, each chained to the one before
    Shared,      \* events of a type the contract lets the source export
    Automatic,   \* events applied without a domain handler
    Version,     \* the version of an aggregate each event writes, as a function on Events
    Written,     \* versions the receiver's own journal has written too
    Packages,
    Importers, Appliers, Panel, Nobody   \* users by what their roles allow

VARIABLES
    packages,    \* SyncPackage on both sides : events, status at the receiver, who imported it
    lapsed,      \* packages whose expires_at has passed
    inbox,       \* InboxEvent by event
    conflicts,   \* SyncConflict by event
    checkpoint   \* last_checkpoint_hash of the source, as the last event it covers

vars == <<packages, lapsed, inbox, conflicts, checkpoint>>

Init ==
    /\ packages = [p \in Packages |-> [status |-> "ABSENT", events |-> {}, importer |-> Nobody]]
    /\ lapsed = {}
    /\ inbox = [e \in Events |-> [status |-> "ABSENT", package |-> 0]]
    /\ conflicts = [e \in Events |-> "ABSENT"]
    /\ checkpoint = 0

Rows(p) == {e \in Events : inbox[e].package = p}
Open(p) == {e \in Rows(p) : conflicts[e] = "OPEN"}
First(set) == CHOOSE e \in set : \A d \in set : e <= d
Last(set) == CHOOSE e \in set : \A d \in set : d <= e

\* The exportable events after a position the exporter names, up to a maximum
Range(after, maximum) ==
    {e \in Shared : e > after /\ Cardinality({d \in Shared : after < d /\ d <= e}) <= maximum}

ExportPackage(p, after, maximum) ==
    /\ packages[p].status = "ABSENT" /\ Range(after, maximum) # {}
    /\ packages' = [packages EXCEPT ![p].status = "EXPORTED", ![p].events = Range(after, maximum)]
    /\ UNCHANGED <<lapsed, inbox, conflicts, checkpoint>>

Lapse(p) ==
    /\ packages[p].status # "ABSENT" /\ p \notin lapsed
    /\ lapsed' = lapsed \union {p}
    /\ UNCHANGED <<packages, inbox, conflicts, checkpoint>>

\* The chain is checked from the base the package itself states, so only a hole inside it shows
Chained(events) == events = First(events) .. Last(events)

\* Events already in the inbox are skipped whatever became of them there
New(events) == {e \in events : inbox[e].status = "ABSENT"}
\* Two events of one package compete when they write the same version; each is set against the one before
Before(e, events) == {d \in events : d < e /\ Version[d] = Version[e]}
Nearest(events) == {d \in events : \A c \in events : c <= d}
Overtaken(new) == {d \in new : \E e \in new : d \in Before(e, new)}
\* Otherwise an event conflicts with what another package, or the receiver, wrote under its version
Branched(e) == Version[e] \in Written \/ \E d \in Events \ {e} : inbox[d].status # "ABSENT" /\ Version[d] = Version[e]
Clashing(new) == {e \in new : Before(e, new) # {} \/ Branched(e)}

Accepted(e) == IF e \in Automatic THEN "READY" ELSE "HELD"
Received(p, e, new) ==
    [package |-> p, status |-> IF e \in Clashing(new) \union Overtaken(new) THEN "CONFLICT" ELSE Accepted(e)]
Simulated(clashing) == IF clashing # {} THEN "CONFLICT" ELSE "SIMULATED"

\* An overtaken event waits as CONFLICT without a conflict of its own
ImportPackage(p, u) ==
    /\ packages[p].status = "EXPORTED" /\ p \notin lapsed /\ u \in Importers /\ Chained(packages[p].events)
    /\ LET new == New(packages[p].events) IN
       /\ inbox' = [e \in Events |-> IF e \in new THEN Received(p, e, new) ELSE inbox[e]]
       /\ conflicts' = [e \in Events |-> IF e \in Clashing(new) THEN "OPEN" ELSE conflicts[e]]
       /\ packages' = [packages EXCEPT ![p].importer = u, ![p].status = Simulated(Clashing(new))]
    /\ UNCHANGED <<lapsed, checkpoint>>

Decisions == {"ACCEPT_REMOTE", "KEEP_LOCAL", "REJECT_PACKAGE"}
\* Mutant: whatever is decided, the row becomes ready again
VerdictAccepted(e, decision) == Accepted(e)
\* What becomes of a conflicting row
Verdict(e, decision) == IF decision = "ACCEPT_REMOTE" THEN Accepted(e) ELSE "REJECTED"
\* The row of the same package it competes with goes the other way, whatever was decided about it before
Competing(e) == Nearest(Before(e, Rows(inbox[e].package)))
Yielded(d, decision) == IF decision = "ACCEPT_REMOTE" THEN "IGNORED" ELSE Accepted(d)

\* The last conflict of a package makes it applicable, also when an earlier one had it rejected
ResolveConflict(e, u, decision) ==
    LET p == inbox[e].package IN
    /\ conflicts[e] = "OPEN" /\ u \in Panel /\ u # packages[p].importer
    /\ conflicts' = [conflicts EXCEPT ![e] = decision]
    /\ inbox' = [d \in Events |-> IF d = e THEN [inbox[d] EXCEPT !.status = Verdict(d, decision)]
                                  ELSE IF d \in Competing(e) THEN [inbox[d] EXCEPT !.status = Yielded(d, decision)]
                                  ELSE inbox[d]]
    /\ packages' = [packages EXCEPT ![p].status =
                       IF decision = "REJECT_PACKAGE" THEN "REJECTED"
                       ELSE IF Open(p) = {e} THEN "SIMULATED" ELSE @]
    /\ UNCHANGED <<lapsed, checkpoint>>

\* Rows nothing can be done about hold the whole package back
Held(p) == {e \in Rows(p) : inbox[e].status \in {"HELD", "CONFLICT"}}
ApplyPackage(p, u) ==
    /\ packages[p].status = "SIMULATED" /\ p \notin lapsed /\ u \in Appliers /\ u # packages[p].importer
    /\ Open(p) = {} /\ Held(p) = {}
    /\ inbox' = [e \in Events |-> IF e \in Rows(p) /\ inbox[e].status = "READY"
                                  THEN [inbox[e] EXCEPT !.status = "APPLIED"] ELSE inbox[e]]
    /\ packages' = [packages EXCEPT ![p].status = "APPLIED"]
    /\ checkpoint' = Last(packages[p].events)
    /\ UNCHANGED <<lapsed, conflicts>>

Next ==
    \/ \E p \in Packages, after \in Events \union {0}, maximum \in 1 .. Cardinality(Events) :
          ExportPackage(p, after, maximum)
    \/ \E p \in Packages : Lapse(p) \/ (\E u \in Importers : ImportPackage(p, u)) \/ (\E u \in Appliers : ApplyPackage(p, u))
    \/ \E e \in Events, u \in Panel, decision \in Decisions : ResolveConflict(e, u, decision)

Spec == Init /\ [][Next]_vars

-----------------------------------------------------------------------------
TypeOK ==
    /\ \A p \in Packages : /\ packages[p].status \in {"ABSENT", "EXPORTED", "SIMULATED", "CONFLICT", "REJECTED", "APPLIED"}
                           /\ packages[p].events \subseteq Events
                           /\ packages[p].importer \in Importers \union {Nobody}
    /\ lapsed \subseteq Packages
    /\ \A e \in Events : /\ inbox[e].status \in {"ABSENT", "READY", "HELD", "CONFLICT", "REJECTED", "IGNORED", "APPLIED"}
                         /\ inbox[e].package \in Packages \union {0}
                         /\ conflicts[e] \in {"ABSENT", "OPEN"} \union Decisions
    /\ checkpoint \in Events \union {0}

\* What the panel has said about an event: in its own conflict, or in the one of the event that competes with it
Followers(e) == {f \in Events : e \in Competing(f)}
SpokenFor(e) == conflicts[e] = "ACCEPT_REMOTE" \/ \E f \in Followers(e) : conflicts[f] \in {"KEEP_LOCAL", "REJECT_PACKAGE"}
SpokenAgainst(e) == conflicts[e] \in {"KEEP_LOCAL", "REJECT_PACKAGE"} \/ \E f \in Followers(e) : conflicts[f] = "ACCEPT_REMOTE"
Undisputed(e) == conflicts[e] = "ABSENT" /\ Followers(e) = {}

\* A package takes effect as a whole and as its panel decided. An event is applied only with the package
\* that brought it, and only if it was in no conflict or a decision spoke for it; once the package is
\* applied nothing of it waits, and every event left out has a decision against it. Of two events that
\* compete, with no third one and no other conflict about the first, exactly one is applied.
SyncAtomic ==
    /\ \A e \in Events :
          inbox[e].status = "APPLIED" =>
             /\ inbox[e].package \in Packages /\ packages[inbox[e].package].status = "APPLIED"
             /\ Undisputed(e) \/ SpokenFor(e)
    /\ \A p \in Packages : packages[p].status = "APPLIED" =>
          /\ Open(p) = {}
          /\ \A e \in Rows(p) : inbox[e].status # "APPLIED" => SpokenAgainst(e)
          /\ \A e \in Rows(p) : Followers(e) = {} =>
                \A d \in Competing(e) : conflicts[d] = "ABSENT" => (inbox[d].status = "APPLIED" <=> inbox[e].status # "APPLIED")

=============================================================================

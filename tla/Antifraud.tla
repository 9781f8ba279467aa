------------------------------- MODULE Antifraud -------------------------------
(***************************************************************************)
(* Signals of the antifraud rules.  A scan is one long transaction: it     *)
(* collects findings, locks the active signal of each finding that has one *)
(* and inserts new signals for the others at its end, so that two scans    *)
(* may both miss a signal the other is about to insert.                    *)
(***************************************************************************)
EXTENDS Integers, Sequences

CONSTANTS
    Members,
    Scanners,     \* SCAN_ROLES
    Reviewers,    \* REVIEW_ROLES
    Nobody,
    Findings,     \* pairs of a rule and a subject that a scan may find
    Signals, Scans,
    MaxSeen       \* bound on occurrence_count

VARIABLES
    signals,      \* risk.antifraud_signals
    scans         \* risk.antifraud_scans, and the transaction until it commits

vars == <<signals, scans>>

Anyone == Members \union {Nobody}
NoSignal == [status |-> "ABSENT", finding |-> {}, detector |-> Nobody, reviewer |-> Nobody, seen |-> 0]
\* todo: the findings not looked up yet; known: the signals locked; fresh: the findings to insert
NoScan == [status |-> "ABSENT", actor |-> Nobody, todo |-> {}, known |-> {}, fresh |-> {}]

Init ==
    /\ signals = [g \in Signals |-> NoSignal]
    /\ scans = [s \in Scans |-> NoScan]

\* ACTIVE_SIGNAL_STATUSES
\* Mutant: a confirmed signal does not count as one
ActiveUnconfirmed == {"OPEN", "IN_REVIEW"}
Active == {"OPEN", "IN_REVIEW", "CONFIRMED"}
ActiveSignals(f) == {g \in Signals : signals[g].finding = {f} /\ signals[g].status \in Active}
Locked == UNION {scans[s].known : s \in Scans}

-----------------------------------------------------------------------------
\* _collect_findings, narrowed to the rules and subjects the caller asked for
BeginScan(s, a, found) ==
    /\ scans[s].status = "ABSENT" /\ a \in Scanners
    /\ scans' = [scans EXCEPT ![s] = [NoScan EXCEPT !.status = "RUNNING", !.actor = a, !.todo = found]]
    /\ UNCHANGED signals

\* SELECT ... FOR UPDATE of the active signal of one finding, which waits for who holds it
LookUp(s, f) ==
    /\ scans[s].status = "RUNNING" /\ f \in scans[s].todo
    /\ ActiveSignals(f) \cap Locked = {}
    /\ scans' = [scans EXCEPT ![s].todo = scans[s].todo \ {f},
                              ![s].known = scans[s].known \union ActiveSignals(f),
                              ![s].fresh = IF ActiveSignals(f) = {} THEN scans[s].fresh \union {f}
                                                                    ELSE scans[s].fresh]
    /\ UNCHANGED signals

Insertable(s) == \A f \in scans[s].fresh : ActiveSignals(f) = {}

\* The commit inserts the new signals: the unique index refuses the scan as a whole
CommitScan(s, ids) ==
    LET new(g) == {f \in scans[s].fresh : ids[f] = g}
    IN  /\ scans[s].status = "RUNNING" /\ scans[s].todo = {} /\ Insertable(s)
        /\ \A f \in scans[s].fresh : signals[ids[f]].status = "ABSENT"
        /\ \A f, e \in scans[s].fresh : ids[f] = ids[e] => f = e
        /\ \A g \in scans[s].known : signals[g].seen < MaxSeen
        /\ signals' = [g \in Signals |->
               IF new(g) # {} THEN [status |-> "OPEN", finding |-> new(g), detector |-> scans[s].actor,
                                    reviewer |-> Nobody, seen |-> 1]
               ELSE IF g \in scans[s].known THEN [signals[g] EXCEPT !.seen = signals[g].seen + 1]
               ELSE signals[g]]
        /\ scans' = [scans EXCEPT ![s] = [NoScan EXCEPT !.status = "DONE"]]

\* Refused by the index, or the client gave up
AbortScan(s) ==
    /\ scans[s].status = "RUNNING"
    /\ scans' = [scans EXCEPT ![s] = NoScan]
    /\ UNCHANGED signals

-----------------------------------------------------------------------------
BeginReview(g, a) ==
    /\ signals[g].status = "OPEN" /\ g \notin Locked /\ a \in Reviewers \ {signals[g].detector}
    /\ signals' = [signals EXCEPT ![g].status = "IN_REVIEW", ![g].reviewer = a]
    /\ UNCHANGED scans

Decide(g, a, decision) ==
    /\ signals[g].status = "IN_REVIEW" /\ g \notin Locked /\ a = signals[g].reviewer
    /\ signals' = [signals EXCEPT ![g].status = decision]
    /\ UNCHANGED scans

Next ==
    \/ \E s \in Scans :
          \/ \E a \in Members, found \in SUBSET Findings : BeginScan(s, a, found)
          \/ \E f \in Findings : LookUp(s, f)
          \/ \E ids \in [Findings -> Signals] : CommitScan(s, ids)
          \/ AbortScan(s)
    \/ \E g \in Signals, a \in Members :
          \/ BeginReview(g, a)
          \/ \E decision \in {"CLEARED", "CONFIRMED"} : Decide(g, a, decision)

Spec == Init /\ [][Next]_vars

-----------------------------------------------------------------------------
TypeOK ==
    /\ signals \in [Signals -> [status : {"ABSENT", "OPEN", "IN_REVIEW", "CLEARED", "CONFIRMED"},
                                finding : SUBSET Findings, detector : Anyone, reviewer : Anyone,
                                seen : 0..MaxSeen]]
    /\ scans \in [Scans -> [status : {"ABSENT", "RUNNING", "DONE"}, actor : Anyone,
                            todo : SUBSET Findings, known : SUBSET Signals, fresh : SUBSET Findings]]

Holding(g) == signals[g].status \in {"OPEN", "IN_REVIEW", "CONFIRMED"}

\* However scans and reviews overlap, a rule holds a subject by one signal at most, and only a reviewer
\* who did not detect it can have lifted it; a signal a scan saw is still active when the scan commits
\* its recurrence (scan, begin_review, decide and uq_antifraud_signals_active_subject).
OneSignalPerSubject ==
    /\ \A g, h \in Signals : Holding(g) /\ Holding(h) /\ signals[g].finding = signals[h].finding => g = h
    /\ \A g \in Signals : signals[g].status = "CLEARED" => signals[g].reviewer \notin {Nobody, signals[g].detector}
    /\ \A s \in Scans : \A g \in scans[s].known : Holding(g)
=============================================================================

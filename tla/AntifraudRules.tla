---------------------------- MODULE AntifraudRules ----------------------------
(***************************************************************************)
(* The antifraud rules that search: bursts of reputation events, aid       *)
(* campaigns that overlap, and related members who hold most of a critical *)
(* resource.  A behaviour takes the rows of one group and collects the     *)
(* finding; it is compared with what the rule is to find.                  *)
(***************************************************************************)
EXTENDS SequencesExt, Integers

CONSTANTS
    Members,
    MaxRows,     \* bound on the rows of a group
    MaxTime,     \* bound on the times of the rows
    Window,      \* the ten minutes of REPUTATION_SYNCHRONIZATION
    Percent      \* the concentration a component may reach, of a hundred

VARIABLES input, found
vars == <<input, found>>

Collected == "found" \in DOMAIN found

-----------------------------------------------------------------------------
\* _qualified_reputation_window: events in the order of their times; the window ends at each in turn
Left(events) ==
    [r \in DOMAIN events |-> Min({l \in 1..r : events[r].at - events[l].at <= Window})]

Qualified(events) ==
    LET candidate(r) == Left(events)[r]..r
    IN  {candidate(r) : r \in {r \in DOMAIN events :
            /\ Cardinality(candidate(r)) >= 3
            /\ Cardinality({events[i].by : i \in candidate(r)}) >= 2}}

\* The longest one, or nothing
ReputationSynchronization(events) ==
    Max({0} \union {Cardinality(w) : w \in Qualified(events)})

-----------------------------------------------------------------------------
\* _largest_overlapping_campaign_group: those that run when the anchor starts
Overlapping(campaigns, a) ==
    {i \in DOMAIN campaigns : campaigns[i].starts <= campaigns[a].starts /\ campaigns[a].starts < campaigns[i].ends}

CampaignSplitting(campaigns) ==
    Max({0} \union {Cardinality(Overlapping(campaigns, a)) : a \in DOMAIN campaigns})

-----------------------------------------------------------------------------
\* _related_components: a forest in which the root of a component is its own parent.  Halving the
\* paths on the way changes no root.
RECURSIVE Find(_, _)
Find(parent, m) == IF parent[m] = m THEN m ELSE Find(parent, parent[m])

\* Mutant: the second member is attached, not the root of his component
JoinedMember(parent, pair) == [parent EXCEPT ![pair[2]] = Find(parent, pair[1])]
Joined(parent, pair) == [parent EXCEPT ![Find(parent, pair[2])] = Find(parent, pair[1])]

RelatedComponents(pairs) ==
    LET parent == FoldLeft(Joined, [m \in Members |-> m], pairs)
        known == UNION {{pairs[i][1], pairs[i][2]} : i \in DOMAIN pairs}
    IN  {{m \in known : Find(parent, m) = Find(parent, n)} : n \in known}

\* _critical_resource_findings for one resource: lots[m] is what the verified lots of m hold
Held(lots, who) == MapThenSumSet(LAMBDA m : lots[m], who)
CriticalResource(pairs, lots) ==
    UNION {{m \in c : lots[m] > 0} : c \in {c \in RelatedComponents(pairs) :
        /\ Held(lots, Members) > 0
        /\ Cardinality({m \in c : lots[m] > 0}) >= 2
        /\ 100 * Held(lots, c) > Percent * Held(lots, Members)}}

-----------------------------------------------------------------------------
Sorted(rows, key(_)) == \A i, j \in DOMAIN rows : i < j => key(rows[i]) <= key(rows[j])
Events == {s \in BoundedSeq([at : 0..MaxTime, by : Members], MaxRows) : Sorted(s, LAMBDA e : e.at)}
Campaigns == {s \in BoundedSeq({c \in [starts : 0..MaxTime, ends : 0..MaxTime] : c.starts < c.ends}, MaxRows) :
                 Sorted(s, LAMBDA c : c.starts)}
Pairs == BoundedSeq({p \in Members \X Members : p[1] < p[2]}, MaxRows)

Init ==
    /\ \/ \E events \in Events : input = [rule |-> "REPUTATION", events |-> events]
       \/ \E campaigns \in Campaigns : input = [rule |-> "CAMPAIGN", campaigns |-> campaigns]
       \/ \E pairs \in Pairs, lots \in [Members -> 0..2] :
             input = [rule |-> "RESOURCE", pairs |-> pairs, lots |-> lots]
    /\ found = << >>

Collect ==
    /\ ~Collected
    /\ found' = [found |-> CASE input.rule = "REPUTATION" -> ReputationSynchronization(input.events)
                             [] input.rule = "CAMPAIGN" -> CampaignSplitting(input.campaigns)
                             [] OTHER -> CriticalResource(input.pairs, input.lots)]
    /\ UNCHANGED input

Next == Collect
Spec == Init /\ [][Next]_vars

-----------------------------------------------------------------------------
\* What the rules are to find, each said without the search
Burst(events, S) ==
    /\ Cardinality(S) >= 3 /\ Cardinality({events[i].by : i \in S}) >= 2
    /\ \A i, j \in S : events[i].at - events[j].at <= Window
Running(campaigns, t) == {i \in DOMAIN campaigns : campaigns[i].starts <= t /\ t < campaigns[i].ends}
Connected(pairs, m) ==
    {n \in Members : \A S \in SUBSET Members :
        m \in S /\ (\A i \in DOMAIN pairs : (pairs[i][1] \in S) = (pairs[i][2] \in S)) => n \in S}
Concentrated(pairs, lots, m) ==
    /\ \E i \in DOMAIN pairs : m \in {pairs[i][1], pairs[i][2]}
    /\ lots[m] > 0 /\ Cardinality({n \in Connected(pairs, m) : lots[n] > 0}) >= 2
    /\ 100 * Held(lots, Connected(pairs, m)) > Percent * Held(lots, Members)

\* The searches miss nothing and exaggerate nothing: the window is as long as the largest set of
\* events that close together by two recorders at least, the group is as large as the most campaigns
\* that run at one moment, and the components are those of the graph of the links.
FindingsExact ==
    Collected =>
        CASE input.rule = "REPUTATION" ->
                found.found = Max({0} \union {Cardinality(S) :
                    S \in {S \in SUBSET (DOMAIN input.events) : Burst(input.events, S)}})
          [] input.rule = "CAMPAIGN" ->
                found.found = Max({0} \union {Cardinality(Running(input.campaigns, t)) : t \in 0..MaxTime})
          [] OTHER -> found.found = {m \in Members : Concentrated(input.pairs, input.lots, m)}
=============================================================================

---------------------------- MODULE MemberIntake ----------------------------
(***************************************************************************)
(* New members: one by one, and in batches that are staged, previewed,       *)
(* approved by another person and applied. Both look for the person among    *)
(* the members the cooperative already has.                                  *)
(***************************************************************************)
EXTENDS Integers, FiniteSets

CONSTANTS
    Members,
    Content,         \* rows and direct applications -> [cooperative, name, identifier]; a row also has a batch
    Rows,            \* the rows of import batches; the rest of Content is entered by hand
    Batches,         \* batches -> [cooperative, creator]
    Reviewers,
    None

VARIABLES
    member,          \* Member and its MemberIdentifier, with the duplicate resolution it was created under
    row,             \* status of each MemberImportRow
    batch            \* MemberImportBatch

vars == <<member, row, batch>>
Entries == DOMAIN Content \ Rows

Init ==
    /\ member = [m \in Members |-> [status |-> "ABSENT", entry |-> None, resolved |-> FALSE]]
    /\ row = [r \in Rows |-> "ABSENT"]
    /\ batch = [b \in DOMAIN Batches |-> [status |-> "ABSENT", reviewer |-> None]]

Registered == {m \in Members : member[m].status # "ABSENT"}
What(m) == Content[member[m].entry]
In(coop) == {m \in Registered : What(m).cooperative = coop}
SameIdentifier(e, f) == Content[e].identifier # None /\ Content[e].identifier = Content[f].identifier
SameName(e, f) == Content[e].name = Content[f].name

\* The members of the cooperative who may be the person, by identifier and by name
ExistingIdentifier(e) == \E m \in In(Content[e].cooperative) : SameIdentifier(e, member[m].entry)
ExistingName(e) == \E m \in In(Content[e].cooperative) : SameName(e, member[m].entry)
\* The identifier is unique in the whole register, the search is not as wide
Taken(e) == \E m \in Registered : SameIdentifier(e, member[m].entry)

Add(entries, resolved) ==
    LET free == Members \ Registered
        places == {p \in [entries -> free] : \A e, f \in entries : e # f => p[e] # p[f]}
        place == CHOOSE p \in places : TRUE IN
    /\ places # {}
    /\ \A e, f \in entries : e # f => ~SameIdentifier(e, f)
    /\ \A e \in entries : ~Taken(e)
    /\ member' = [m \in Members |-> IF \E e \in entries : place[e] = m
          THEN [status |-> "APPLICANT", entry |-> CHOOSE e \in entries : place[e] = m, resolved |-> resolved]
          ELSE member[m]]

\* The lock of the cooperative's intake is held from the search to the commit
CreateMember(e, resolved) ==
    /\ ~ExistingIdentifier(e) /\ (ExistingName(e) => resolved)
    /\ Add({e}, resolved)
    /\ UNCHANGED <<row, batch>>

RowsOf(b) == {r \in Rows : Content[r].batch = b}
StageImport(b) ==
    /\ batch[b].status = "ABSENT"
    /\ batch' = [batch EXCEPT ![b].status = "STAGED"]
    /\ row' = [r \in Rows |-> IF r \in RowsOf(b) THEN IF Content[r].name = None THEN "INVALID" ELSE "STAGED" ELSE row[r]]
    /\ UNCHANGED member

\* A row is ready when it is nobody the cooperative has and no other row of its batch
Verdict(r) ==
    LET others == {o \in RowsOf(Content[r].batch) \ {r} : Content[o].name # None} IN
    IF Content[r].name = None THEN "INVALID"
    ELSE IF ExistingIdentifier(r) \/ ExistingName(r) \/ (\E o \in others : SameIdentifier(r, o) \/ SameName(r, o))
    THEN "DUPLICATE" ELSE "READY"
Evaluated(b) == [r \in Rows |-> IF r \in RowsOf(b) THEN Verdict(r) ELSE row[r]]
Ready(rows, b) == {r \in RowsOf(b) : rows[r] = "READY"}

PreviewImport(b) ==
    /\ batch[b].status \in {"STAGED", "PREVIEWED", "APPROVED"}
    /\ row' = Evaluated(b)
    /\ batch' = [batch EXCEPT ![b] = [status |-> "PREVIEWED", reviewer |-> None]]
    /\ UNCHANGED member

DecideImport(b, u, approve) ==
    /\ batch[b].status = "PREVIEWED" /\ u # Batches[b].creator
    /\ approve => Ready(row, b) # {}
    /\ batch' = [batch EXCEPT ![b] = [status |-> IF approve THEN "APPROVED" ELSE "REJECTED", reviewer |-> u]]
    /\ UNCHANGED <<member, row>>

\* Mutant: what was ready at the preview is applied
CurrentPreviewed(b) == row
Current(b) == Evaluated(b)
ApplyImport(b) ==
    /\ batch[b].status = "APPROVED"
    /\ Ready(Current(b), b) = Ready(row, b)
    /\ Add(Ready(row, b), FALSE)
    /\ row' = [r \in Rows |-> IF r \in Ready(row, b) THEN "APPLIED" ELSE Current(b)[r]]
    /\ batch' = [batch EXCEPT ![b].status = "APPLIED"]

Next ==
    \/ \E e \in Entries, resolved \in BOOLEAN : CreateMember(e, resolved)
    \/ \E b \in DOMAIN Batches : StageImport(b) \/ PreviewImport(b) \/ ApplyImport(b)
    \/ \E b \in DOMAIN Batches, u \in Reviewers, approve \in BOOLEAN : DecideImport(b, u, approve)

Spec == Init /\ [][Next]_vars

-----------------------------------------------------------------------------
TypeOK ==
    /\ \A m \in Members : member[m].status \in {"ABSENT", "APPLICANT"}
    /\ \A r \in Rows : row[r] \in {"ABSENT", "STAGED", "INVALID", "READY", "DUPLICATE", "APPLIED"}
    /\ \A b \in DOMAIN Batches : batch[b].status \in {"ABSENT", "STAGED", "PREVIEWED", "APPROVED", "REJECTED", "APPLIED"}

\* No person enters a cooperative twice: of two members of one cooperative with the same identifier
\* there is none, and with the same name only when one of them was entered by a resolved review.
NoTwins ==
    \A m, n \in Registered : m # n /\ What(m).cooperative = What(n).cooperative =>
        /\ ~SameIdentifier(member[m].entry, member[n].entry)
        /\ SameName(member[m].entry, member[n].entry) => member[m].resolved \/ member[n].resolved
=============================================================================

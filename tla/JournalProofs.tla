---------------------------- MODULE JournalProofs ----------------------------
(***************************************************************************)
(* Proofs about Journal for any requests, keys, bodies and workers, any    *)
(* number of events of a command and any size of a batch.                  *)
(***************************************************************************)
EXTENDS Journal, SequenceTheorems, TLAPS

Answers == {"NONE", "LOST", "FAILED", "REFUSED"}
Assumptions ==
    /\ Requests \intersect Workers = {} /\ None \notin Requests /\ Answers \intersect Requests = {}
    /\ Appends \in Nat /\ Sweeps \in Nat

Hashes == Sessions \X Nat
EventSet == [sequence : Nat, previous : Hashes \union {None}, hash : Hashes, by : Sessions]
HeadSet == [next : Nat, last : Hashes \union {None}]
RowSet == [status : {"PENDING", "PUBLISHED", "QUARANTINED"}, attempts : Nat, intact : BOOLEAN]
TxSet == [open : BOOLEAN, staged : Seq(EventSet), claimed : SUBSET Nat, made : Nat]

\* The events E are a chain with that head, and S continues it.
Chained(E, head) ==
    /\ \A i \in DOMAIN E : E[i].sequence = i /\ E[i].previous = IF i = 1 THEN None ELSE E[i - 1].hash
    /\ head.next = Len(E) + 1
    /\ head.last = IF E = <<>> THEN None ELSE E[Len(E)].hash
Continues(S, E, head) ==
    \A i \in DOMAIN S :
        S[i].sequence = Len(E) + i /\ S[i].previous = IF i = 1 THEN head.last ELSE S[i - 1].hash

\* One transaction at most has appended, and its events continue the committed chain.
ChainInv ==
    /\ events \in Seq(EventSet) /\ chain \in HeadSet /\ outbox \in Seq(RowSet) /\ tx \in [Sessions -> TxSet]
    /\ \A s, t \in Sessions : tx[s].staged # <<>> /\ tx[t].staged # <<>> => s = t
    /\ \A s \in Sessions : Continues(tx[s].staged, events, chain)
    /\ \A s \in Sessions : ~tx[s].open => tx[s].staged = <<>> /\ tx[s].claimed = {}
    /\ Chained(events, chain)
    /\ Len(outbox) = Len(events)

\* What a transaction has appended is its own, and a command under way has its key to itself.
OwnEvents == \A s \in Sessions : \A i \in DOMAIN tx[s].staged : tx[s].staged[i].by = s
UnderWay ==
    \A r \in Requests : tx[r].open =>
        /\ Len(tx[r].staged) = tx[r].made
        /\ \A i \in DOMAIN tx[r].staged : tx[r].staged[i].hash = <<r, i>>
        /\ records[KeyOf[r]] = None
OneUnderWay == \A q, r \in Requests : tx[q].open /\ tx[r].open /\ KeyOf[q] = KeyOf[r] => q = r

\* What is recorded was executed as a whole, what was executed is recorded, and what was
\* answered is recorded under the key of the request.
Executed ==
    \A k \in Keys : records[k] \in Requests =>
        /\ KeyOf[records[k]] = k
        /\ \A n \in 1 .. Appends : \E i \in DOMAIN events : events[i].hash = <<records[k], n>>
Recorded == \A i \in DOMAIN events : events[i].by \in Requests => records[KeyOf[events[i].by]] = events[i].by
Answered ==
    \A r \in Requests : answers[r] \in Requests => records[KeyOf[r]] = answers[r] /\ BodyOf[answers[r]] = BodyOf[r]

EffectInv ==
    /\ records \in [Keys -> Requests \union {None}]
    /\ answers \in [Requests -> Requests \union Answers]
    /\ OwnEvents /\ UnderWay /\ OneUnderWay
    /\ Executed /\ Recorded /\ Answered

\* A message is worked on by one worker, and only while it is pending.
DeliveryInv ==
    /\ receipts = {i \in DOMAIN outbox : outbox[i].status = "PUBLISHED"}
    /\ \A i \in DOMAIN outbox :
        /\ outbox[i].status = "QUARANTINED" => ~outbox[i].intact
        /\ outbox[i].status = "PUBLISHED" => outbox[i].intact
    /\ \A s \in Sessions : \A i \in tx[s].claimed :
        s \in Workers /\ i \in DOMAIN outbox /\ outbox[i].status = "PENDING"
    /\ \A s, t \in Sessions : s # t => tx[s].claimed \intersect tx[t].claimed = {}

-----------------------------------------------------------------------------
\* The head after events that continue a chain is the head of the longer chain.
LEMMA JoinChains ==
    ASSUME NEW E \in Seq(EventSet), NEW S \in Seq(EventSet), NEW head \in HeadSet,
           Chained(E, head), Continues(S, E, head)
    PROVE  Chained(E \o S, HeadAfter(head, S)) /\ HeadAfter(head, S) \in HeadSet
<1>1. CASE S = <<>>
  <2>1. E \o S = E
    BY <1>1
  <2> QED BY <1>1, <2>1 DEF HeadAfter
<1>2. CASE S # <<>>
  <2>1. Len(S) \in Nat /\ Len(S) > 0 /\ DOMAIN S = 1 .. Len(S) /\ Len(E) \in Nat /\ DOMAIN E = 1 .. Len(E)
    BY <1>2
  <2>2. Len(E \o S) = Len(E) + Len(S) /\ DOMAIN (E \o S) = 1 .. (Len(E) + Len(S))
    BY <2>1
  <2>3. \A i \in 1 .. Len(E) : (E \o S)[i] = E[i]
    BY <2>1
  <2>4. \A i \in 1 .. Len(S) : (E \o S)[Len(E) + i] = S[i]
    BY <2>1
  <2>5. HeadAfter(head, S) = [next |-> S[Len(S)].sequence + 1, last |-> S[Len(S)].hash]
    BY <1>2 DEF HeadAfter
  <2>6. S[Len(S)] \in EventSet /\ S[Len(S)].sequence = Len(E) + Len(S)
    BY <2>1 DEF Continues
  <2>7. ASSUME NEW i \in DOMAIN (E \o S)
        PROVE  /\ (E \o S)[i].sequence = i
               /\ (E \o S)[i].previous = IF i = 1 THEN None ELSE (E \o S)[i - 1].hash
    <3>1. CASE i \in 1 .. Len(E)
      <4>1. (E \o S)[i] = E[i] /\ (i # 1 => (E \o S)[i - 1] = E[i - 1])
        BY <2>1, <2>3, <3>1
      <4> QED BY <2>1, <3>1, <4>1 DEF Chained
    <3>2. CASE i \notin 1 .. Len(E)
      <4> DEFINE j == i - Len(E)
      <4>1. j \in 1 .. Len(S) /\ i = Len(E) + j
        BY <2>1, <2>2, <3>2
      <4>2. (E \o S)[i] = S[j] /\ S[j].sequence = i
        BY <2>1, <2>4, <4>1 DEF Continues
      <4>3. CASE j = 1
        <5>1. S[j].previous = head.last
          BY <2>1, <4>1, <4>3 DEF Continues
        <5>2. CASE E = <<>>
          BY <2>1, <4>1, <4>2, <4>3, <5>1, <5>2 DEF Chained
        <5>3. CASE E # <<>>
          <6> HIDE DEF j
          <6>0. Len(E) # 0
            BY <5>3, EmptySeq
          <6>1. Len(E) > 0 /\ i - 1 = Len(E) /\ i # 1
            BY <2>1, <4>1, <4>3, <6>0
          <6>2. (E \o S)[i - 1] = E[Len(E)]
            BY <2>1, <2>3, <6>1
          <6> QED BY <4>2, <5>1, <5>3, <6>1, <6>2 DEF Chained
        <5> QED BY <5>2, <5>3
      <4>4. CASE j # 1
        <5>1. j - 1 \in 1 .. Len(S) /\ i - 1 = Len(E) + (j - 1) /\ i # 1
          BY <2>1, <4>1, <4>4
        <5>2. (E \o S)[i - 1] = S[j - 1]
          BY <2>4, <5>1
        <5>3. S[j].previous = S[j - 1].hash
          BY <2>1, <4>1, <4>4 DEF Continues
        <5> QED BY <4>2, <5>1, <5>2, <5>3
      <4> QED BY <4>3, <4>4
    <3> QED BY <3>1, <3>2
  <2>8. E \o S # <<>> /\ (E \o S)[Len(E \o S)] = S[Len(S)]
    BY <2>1, <2>2, <2>4
  <2>9. HeadAfter(head, S) \in HeadSet
    BY <2>1, <2>5, <2>6 DEF EventSet, HeadSet
  <2>10. /\ HeadAfter(head, S).next = Len(E \o S) + 1
         /\ HeadAfter(head, S).last = IF E \o S = <<>> THEN None ELSE (E \o S)[Len(E \o S)].hash
    BY <2>1, <2>2, <2>5, <2>6, <2>8
  <2> QED BY <2>7, <2>9, <2>10 DEF Chained
<1> QED BY <1>1, <1>2

\* An event made from the head that a transaction sees continues the chain.
LEMMA AppendToChain ==
    ASSUME NEW E \in Seq(EventSet), NEW S \in Seq(EventSet), NEW head \in HeadSet,
           Chained(E, head), Continues(S, E, head), NEW e \in EventSet,
           e.sequence = HeadAfter(head, S).next, e.previous = HeadAfter(head, S).last
    PROVE  Continues(Append(S, e), E, head)
<1>1. Len(S) \in Nat /\ DOMAIN S = 1 .. Len(S) /\ Len(E) \in Nat
  OBVIOUS
<1>2. DOMAIN Append(S, e) = 1 .. Len(S) + 1 /\ Append(S, e)[Len(S) + 1] = e
  BY <1>1
<1>3. \A i \in 1 .. Len(S) : Append(S, e)[i] = S[i]
  BY <1>1
<1>4. ASSUME NEW i \in DOMAIN Append(S, e)
      PROVE  /\ Append(S, e)[i].sequence = Len(E) + i
             /\ Append(S, e)[i].previous = IF i = 1 THEN head.last ELSE Append(S, e)[i - 1].hash
  <2>1. CASE i \in 1 .. Len(S)
    <3>1. Append(S, e)[i] = S[i] /\ (i # 1 => Append(S, e)[i - 1] = S[i - 1])
      BY <1>1, <1>3, <2>1
    <3> QED BY <1>1, <2>1, <3>1 DEF Continues
  <2>2. CASE i \notin 1 .. Len(S)
    <3>1. i = Len(S) + 1 /\ Append(S, e)[i] = e
      BY <1>1, <1>2, <2>2
    <3>2. CASE S = <<>>
      BY <1>1, <3>1, <3>2 DEF HeadAfter, Chained
    <3>3. CASE S # <<>>
      <4>1. Len(S) > 0 /\ Len(S) \in DOMAIN S
        BY <1>1, <3>3
      <4>2. e.sequence = S[Len(S)].sequence + 1 /\ e.previous = S[Len(S)].hash
        BY <3>3 DEF HeadAfter
      <4>3. S[Len(S)].sequence = Len(E) + Len(S)
        BY <4>1 DEF Continues
      <4>4. Append(S, e)[i - 1] = S[Len(S)] /\ i # 1
        BY <1>1, <1>3, <3>1, <4>1
      <4>5. Append(S, e)[i].sequence = Len(E) + i
        BY <1>1, <3>1, <4>2, <4>3
      <4>6. Append(S, e)[i].previous = Append(S, e)[i - 1].hash
        BY <3>1, <4>2, <4>4
      <4> QED BY <4>4, <4>5, <4>6
    <3> QED BY <3>2, <3>3
  <2> QED BY <2>1, <2>2
<1> QED BY <1>4 DEF Continues

-----------------------------------------------------------------------------
\* The transaction of a session after it has ended, and after it has appended
LEMMA WithMade ==
    ASSUME NEW row \in TxSet, NEW n \in Nat
    PROVE  /\ [row EXCEPT !.made = n] \in TxSet /\ [row EXCEPT !.made = n].made = n
           /\ [row EXCEPT !.made = n].open = row.open /\ [row EXCEPT !.made = n].staged = row.staged
           /\ [row EXCEPT !.made = n].claimed = row.claimed
  BY DEF TxSet

LEMMA WithStaged ==
    ASSUME NEW row \in TxSet, NEW S \in Seq(EventSet)
    PROVE  /\ [row EXCEPT !.staged = S] \in TxSet /\ [row EXCEPT !.staged = S].staged = S
           /\ [row EXCEPT !.staged = S].open = row.open /\ [row EXCEPT !.staged = S].claimed = row.claimed
  BY DEF TxSet

LEMMA EndedTx ==
    ASSUME tx \in [Sessions -> TxSet], NEW s \in Sessions
    PROVE  /\ Ended(s) \in [Sessions -> TxSet]
           /\ Ended(s)[s].open = FALSE /\ Ended(s)[s].staged = <<>> /\ Ended(s)[s].claimed = {}
           /\ \A t \in Sessions \ {s} : Ended(s)[t] = tx[t]
<1>1. tx[s].made \in Nat
  BY DEF TxSet
<1>2. <<>> \in Seq(EventSet) /\ {} \in SUBSET Nat /\ FALSE \in BOOLEAN /\ 0 \in Nat
  OBVIOUS
<1>3. Idle \in TxSet
  BY <1>2 DEF Idle, TxSet
<1>4. Idle.open = FALSE /\ Idle.staged = <<>> /\ Idle.claimed = {}
  BY DEF Idle
<1> QED BY <1>1, <1>3, <1>4, WithMade DEF Ended

LEMMA AppendedTx ==
    ASSUME NEW row \in TxSet, NEW e \in EventSet
    PROVE  /\ [row EXCEPT !.staged = Append(row.staged, e), !.made = row.made + 1] \in TxSet
           /\ [row EXCEPT !.staged = Append(row.staged, e), !.made = row.made + 1].open = row.open
           /\ [row EXCEPT !.staged = Append(row.staged, e), !.made = row.made + 1].claimed = row.claimed
           /\ [row EXCEPT !.staged = Append(row.staged, e), !.made = row.made + 1].staged = Append(row.staged, e)
           /\ [row EXCEPT !.staged = Append(row.staged, e), !.made = row.made + 1].made = row.made + 1
<1>1. Append(row.staged, e) \in Seq(EventSet) /\ row.made + 1 \in Nat
  BY DEF TxSet
<1> DEFINE with == [row EXCEPT !.staged = Append(row.staged, e)]
<1>2. with \in TxSet /\ with.open = row.open /\ with.claimed = row.claimed /\ with.staged = Append(row.staged, e)
  BY <1>1, WithStaged
<1>3. [row EXCEPT !.staged = Append(row.staged, e), !.made = row.made + 1] = [with EXCEPT !.made = row.made + 1]
  OBVIOUS
<1> HIDE DEF with
<1> QED BY <1>1, <1>2, <1>3, WithMade

\* A command or a poll that commits, whatever the dispatch made of the rows, keeps the chain.
LEMMA CommitKeepsChain ==
    ASSUME ChainInv, NEW s \in Sessions, NEW rows \in Seq(RowSet), Len(rows) = Len(outbox),
           events' = events \o tx[s].staged, outbox' = rows \o Rows(tx[s].staged),
           chain' = ChainHead(s), tx' = Ended(s)
    PROVE  ChainInv'
<1> DEFINE S == tx[s].staged
<1>1. S \in Seq(EventSet) /\ Continues(S, events, chain) /\ Chained(events, chain) /\ tx[s] \in TxSet
      /\ events \in Seq(EventSet) /\ chain \in HeadSet
  BY DEF ChainInv, TxSet
<1>2. Chained(events', chain') /\ chain' \in HeadSet /\ events' \in Seq(EventSet)
  BY <1>1, JoinChains DEF ChainHead
<1>3. Rows(S) \in Seq(RowSet) /\ Len(Rows(S)) = Len(S)
  <2>1. Len(S) \in Nat /\ DOMAIN S = 1 .. Len(S)
    BY <1>1
  <2> QED BY <2>1, IsASeq DEF Rows, Undelivered, RowSet
<1>4. outbox' \in Seq(RowSet) /\ Len(outbox') = Len(events')
  <2>0. Len(rows) = Len(events)
    BY DEF ChainInv
  <2>1. Len(events \o S) = Len(events) + Len(S) /\ Len(rows \o Rows(S)) = Len(rows) + Len(Rows(S))
    <3> DEFINE R == Rows(S)
    <3>1. R \in Seq(RowSet) /\ S \in Seq(EventSet)
      BY <1>1, <1>3
    <3> HIDE DEF S, R
    <3>2. Len(events \o S) = Len(events) + Len(S)
      BY <1>1, <3>1, ConcatProperties
    <3>3. Len(rows \o R) = Len(rows) + Len(R)
      BY <3>1, ConcatProperties
    <3> QED BY <3>2, <3>3 DEF R
  <2>2. rows \o Rows(S) \in Seq(RowSet)
    BY <1>3, ConcatProperties
  <2> QED BY <1>3, <2>0, <2>1, <2>2
<1>5. tx' \in [Sessions -> TxSet] /\ tx'[s].staged = <<>> /\ tx'[s].claimed = {}
      /\ \A t \in Sessions \ {s} : tx'[t] = tx[t]
  BY EndedTx DEF ChainInv
<1>6. \A t, u \in Sessions : tx'[t].staged # <<>> /\ tx'[u].staged # <<>> => t = u
  BY <1>5 DEF ChainInv
<1>7. ASSUME NEW t \in Sessions PROVE Continues(tx'[t].staged, events', chain')
  <2>1. CASE tx'[t].staged = <<>>
    BY <2>1 DEF Continues
  <2>2. CASE tx'[t].staged # <<>>
    <3>1. t # s /\ tx'[t] = tx[t] /\ S = <<>>
      BY <1>5, <2>2 DEF ChainInv
    <3>2. events' = events /\ chain' = chain
      BY <1>1, <3>1 DEF ChainHead, HeadAfter
    <3> QED BY <3>1, <3>2 DEF ChainInv
  <2> QED BY <2>1, <2>2
<1>8. \A t \in Sessions : ~tx'[t].open => tx'[t].staged = <<>> /\ tx'[t].claimed = {}
  BY <1>5 DEF ChainInv
<1> QED BY <1>2, <1>4, <1>5, <1>6, <1>7, <1>8 DEF ChainInv

LEMMA AppendKeepsChain ==
    ASSUME Assumptions, ChainInv, NEW s \in Sessions, AppendEvent(s)
    PROVE  ChainInv'
<1> DEFINE S == tx[s].staged
<1>1. S \in Seq(EventSet) /\ Continues(S, events, chain) /\ Chained(events, chain) /\ tx[s] \in TxSet
      /\ events \in Seq(EventSet) /\ chain \in HeadSet /\ tx[s].made \in Nat
  BY DEF ChainInv, TxSet
<1>2. ChainHead(s) \in HeadSet
  BY <1>1, JoinChains DEF ChainHead
<1>3. Event(s) \in EventSet
  BY <1>1, <1>2 DEF Event, EventSet, HeadSet, Hashes
<1>4. Event(s).sequence = HeadAfter(chain, S).next /\ Event(s).previous = HeadAfter(chain, S).last
  BY DEF Event, ChainHead
<1>5. Continues(Append(S, Event(s)), events, chain)
  BY <1>1, <1>3, <1>4, AppendToChain
<1>6. /\ tx' \in [Sessions -> TxSet] /\ tx'[s].staged = Append(S, Event(s)) /\ tx'[s].open
      /\ \A t \in Sessions \ {s} : tx'[t] = tx[t] /\ tx[t].staged = <<>>
  <2>1. tx \in [Sessions -> TxSet]
    BY DEF ChainInv
  <2>2. tx[s].open /\ tx' = [tx EXCEPT ![s] = [tx[s] EXCEPT !.staged = Append(S, Event(s)), !.made = tx[s].made + 1]]
    BY DEF AppendEvent
  <2>3. \A t \in Sessions \ {s} : tx[t].staged = <<>>
    BY DEF AppendEvent, ChainFree
  <2>4. tx'[s] \in TxSet /\ tx'[s].staged = Append(S, Event(s)) /\ tx'[s].open
    BY <1>1, <1>3, <2>1, <2>2, AppendedTx
  <2> QED BY <2>1, <2>2, <2>3, <2>4
<1>7. \A t \in Sessions : Continues(tx'[t].staged, events, chain)
  BY <1>5, <1>6 DEF ChainInv
<1>8. UNCHANGED <<chain, events, outbox>>
  BY DEF AppendEvent
<1> QED BY <1>6, <1>7, <1>8 DEF ChainInv

\* Whatever leaves the committed chain alone and appends nothing keeps it.
LEMMA OthersKeepChain ==
    ASSUME ChainInv, UNCHANGED <<chain, events>>, outbox' \in Seq(RowSet), Len(outbox') = Len(outbox),
           tx' \in [Sessions -> TxSet],
           \A s \in Sessions : tx'[s].staged = tx[s].staged \/ tx'[s].staged = <<>>,
           \A s \in Sessions : ~tx'[s].open => tx'[s].staged = <<>> /\ tx'[s].claimed = {}
    PROVE  ChainInv'
<1>1. ASSUME NEW s \in Sessions PROVE Continues(tx'[s].staged, events, chain)
  BY DEF ChainInv, Continues
<1> QED BY <1>1 DEF ChainInv

LEMMA WithOpen ==
    ASSUME NEW row \in TxSet
    PROVE  /\ [row EXCEPT !.open = TRUE] \in TxSet /\ [row EXCEPT !.open = TRUE].open = TRUE
           /\ [row EXCEPT !.open = TRUE].staged = row.staged /\ [row EXCEPT !.open = TRUE].claimed = row.claimed
           /\ [row EXCEPT !.open = TRUE].made = row.made
  BY DEF TxSet

LEMMA WithClaimed ==
    ASSUME NEW row \in TxSet, NEW C \in SUBSET Nat
    PROVE  /\ [row EXCEPT !.claimed = C] \in TxSet /\ [row EXCEPT !.claimed = C].claimed = C
           /\ [row EXCEPT !.claimed = C].staged = row.staged /\ [row EXCEPT !.claimed = C].open = row.open
           /\ [row EXCEPT !.claimed = C].made = row.made
  BY DEF TxSet

\* A transaction is opened, or claims rows: the others are as they were.
Opened(s) == [tx EXCEPT ![s].open = TRUE]
LEMMA OpenedTx ==
    ASSUME tx \in [Sessions -> TxSet], NEW s \in Sessions
    PROVE  /\ Opened(s) \in [Sessions -> TxSet]
           /\ Opened(s)[s].open = TRUE /\ Opened(s)[s].staged = tx[s].staged
           /\ Opened(s)[s].claimed = tx[s].claimed /\ Opened(s)[s].made = tx[s].made
           /\ \A t \in Sessions \ {s} : Opened(s)[t] = tx[t]
<1>1. Opened(s) = [tx EXCEPT ![s] = [tx[s] EXCEPT !.open = TRUE]] /\ tx[s] \in TxSet
  BY DEF Opened
<1>2. PICK row \in TxSet : row = [tx[s] EXCEPT !.open = TRUE]
  BY <1>1, WithOpen
<1>3. Opened(s)[s] = row /\ Opened(s) \in [Sessions -> TxSet] /\ \A t \in Sessions \ {s} : Opened(s)[t] = tx[t]
  BY <1>1, <1>2
<1> QED BY <1>1, <1>2, <1>3, WithOpen

Claiming(s, batch) == [tx EXCEPT ![s].claimed = batch]
LEMMA ClaimingTx ==
    ASSUME tx \in [Sessions -> TxSet], NEW s \in Sessions, NEW batch \in SUBSET Nat
    PROVE  /\ Claiming(s, batch) \in [Sessions -> TxSet]
           /\ Claiming(s, batch)[s].open = tx[s].open /\ Claiming(s, batch)[s].staged = tx[s].staged
           /\ Claiming(s, batch)[s].claimed = batch /\ Claiming(s, batch)[s].made = tx[s].made
           /\ \A t \in Sessions \ {s} : Claiming(s, batch)[t] = tx[t]
<1>1. Claiming(s, batch) = [tx EXCEPT ![s] = [tx[s] EXCEPT !.claimed = batch]] /\ tx[s] \in TxSet
  BY DEF Claiming
<1>2. PICK row \in TxSet : row = [tx[s] EXCEPT !.claimed = batch]
  BY <1>1, WithClaimed
<1>3. /\ Claiming(s, batch)[s] = row /\ Claiming(s, batch) \in [Sessions -> TxSet]
      /\ \A t \in Sessions \ {s} : Claiming(s, batch)[t] = tx[t]
  BY <1>1, <1>2
<1> QED BY <1>1, <1>2, <1>3, WithClaimed

\* What a dispatch makes of the rows: as many, each tried at most once
Dispatched(w) == [i \in DOMAIN outbox |-> IF i \in tx[w].claimed THEN Tried(outbox[i]) ELSE outbox[i]]
LEMMA DispatchedRows ==
    ASSUME outbox \in Seq(RowSet), NEW w
    PROVE  Dispatched(w) \in Seq(RowSet) /\ Len(Dispatched(w)) = Len(outbox)
<1>1. ASSUME NEW row \in RowSet PROVE Tried(row) \in RowSet
  <2>1. PICK new \in {"PENDING", "PUBLISHED", "QUARANTINED"} :
            Tried(row) = [row EXCEPT !.attempts = row.attempts + 1, !.status = new]
    BY DEF Tried
  <2>2. row.attempts + 1 \in Nat
    BY DEF RowSet
  <2> QED BY <2>1, <2>2 DEF RowSet
<1>2. Len(outbox) \in Nat /\ DOMAIN outbox = 1 .. Len(outbox) /\ \A i \in 1 .. Len(outbox) : outbox[i] \in RowSet
  OBVIOUS
<1> QED BY <1>1, <1>2, IsASeq DEF Dispatched

LEMMA RowChanged ==
    ASSUME outbox \in Seq(RowSet), NEW i \in DOMAIN outbox, NEW row \in RowSet
    PROVE  [outbox EXCEPT ![i] = row] \in Seq(RowSet) /\ Len([outbox EXCEPT ![i] = row]) = Len(outbox)
  BY ExceptSeq

\* Every step keeps the chain.
LEMMA StepKeepsChain ==
    ASSUME Assumptions, ChainInv, [Next]_vars
    PROVE  ChainInv'
<1>1. ASSUME NEW r \in Requests, Begin(r) PROVE ChainInv'
  <2>1. r \in Sessions /\ tx \in [Sessions -> TxSet] /\ outbox \in Seq(RowSet)
    BY DEF Sessions, ChainInv
  <2>2. UNCHANGED <<chain, events, outbox>>
    BY <1>1 DEF Begin
  <2>3. tx' = tx \/ tx' = Opened(r)
    BY <1>1 DEF Begin, Opened
  <2>4. CASE tx' = tx
    BY <2>1, <2>2, <2>4, OthersKeepChain DEF ChainInv
  <2>5. CASE tx' = Opened(r)
    <3>1. tx' \in [Sessions -> TxSet] /\ \A s \in Sessions : tx'[s].staged = tx[s].staged
      BY <2>1, <2>5, OpenedTx
    <3>2. \A s \in Sessions : ~tx'[s].open => tx'[s] = tx[s]
      BY <2>1, <2>5, OpenedTx
    <3> QED BY <2>1, <2>2, <3>1, <3>2, OthersKeepChain DEF ChainInv
  <2> QED BY <2>3, <2>4, <2>5
<1>2. ASSUME NEW s \in Sessions, AppendEvent(s) PROVE ChainInv'
  BY <1>2, AppendKeepsChain
<1>3. ASSUME NEW s \in Sessions, Rollback(s) PROVE ChainInv'
  <2>1. tx \in [Sessions -> TxSet] /\ outbox \in Seq(RowSet) /\ tx' = Ended(s) /\ UNCHANGED <<chain, events, outbox>>
    BY <1>3 DEF ChainInv, Rollback
  <2>2. /\ tx' \in [Sessions -> TxSet] /\ \A t \in Sessions : tx'[t].staged = tx[t].staged \/ tx'[t].staged = <<>>
        /\ \A t \in Sessions : ~tx'[t].open => tx'[t].staged = <<>> /\ tx'[t].claimed = {}
    BY <2>1, EndedTx DEF ChainInv
  <2> QED BY <2>1, <2>2, OthersKeepChain
<1>4. ASSUME NEW r \in Requests, NEW heard \in BOOLEAN, Commit(r, heard) PROVE ChainInv'
  <2>1. r \in Sessions /\ outbox \in Seq(RowSet)
    BY DEF Sessions, ChainInv
  <2>2. /\ events' = events \o tx[r].staged /\ outbox' = outbox \o Rows(tx[r].staged)
        /\ chain' = ChainHead(r) /\ tx' = Ended(r)
    BY <1>4 DEF Commit
  <2> QED BY <2>1, <2>2, CommitKeepsChain
<1>5. ASSUME NEW w \in Workers, Poll(w) PROVE ChainInv'
  <2>1. /\ w \in Sessions /\ tx \in [Sessions -> TxSet] /\ outbox \in Seq(RowSet)
        /\ tx' = Opened(w) /\ UNCHANGED <<chain, events, outbox>>
    BY <1>5 DEF Sessions, ChainInv, Poll, Opened
  <2>2. tx' \in [Sessions -> TxSet] /\ \A s \in Sessions : tx'[s].staged = tx[s].staged
    BY <2>1, OpenedTx
  <2>3. \A s \in Sessions : ~tx'[s].open => tx'[s] = tx[s]
    BY <2>1, OpenedTx
  <2> QED BY <2>1, <2>2, <2>3, OthersKeepChain DEF ChainInv
<1>6. ASSUME NEW w \in Workers, CommitPoll(w) PROVE ChainInv'
  <2>1. w \in Sessions /\ Dispatched(w) \in Seq(RowSet) /\ Len(Dispatched(w)) = Len(outbox)
    BY DispatchedRows DEF Sessions, ChainInv
  <2>2. /\ events' = events \o tx[w].staged /\ outbox' = Dispatched(w) \o Rows(tx[w].staged)
        /\ chain' = ChainHead(w) /\ tx' = Ended(w)
    BY <1>6 DEF CommitPoll, Dispatched
  <2> QED BY <2>1, <2>2, CommitKeepsChain
<1>7. ASSUME NEW w \in Workers, NEW batch \in SUBSET Ready, Claim(w, batch) PROVE ChainInv'
  <2>1. /\ w \in Sessions /\ tx \in [Sessions -> TxSet] /\ outbox \in Seq(RowSet) /\ tx[w].open
        /\ tx' = Claiming(w, batch) /\ UNCHANGED <<chain, events, outbox>>
    BY <1>7 DEF Sessions, ChainInv, Claim, Claiming
  <2>2. batch \in SUBSET Nat
    BY <2>1 DEF Ready
  <2>3. tx' \in [Sessions -> TxSet] /\ \A s \in Sessions : tx'[s].staged = tx[s].staged /\ tx'[s].open = tx[s].open
    BY <2>1, <2>2, ClaimingTx
  <2>4. \A s \in Sessions : ~tx'[s].open => tx'[s] = tx[s]
    BY <2>1, <2>2, ClaimingTx
  <2> QED BY <2>1, <2>3, <2>4, OthersKeepChain DEF ChainInv
<1>8. ASSUME NEW i \in DOMAIN outbox, Damage(i) \/ Repair(i) PROVE ChainInv'
  <2>1. outbox \in Seq(RowSet) /\ outbox[i] \in RowSet /\ UNCHANGED <<chain, events, tx>>
    BY <1>8 DEF ChainInv, Damage, Repair
  <2>2. PICK row \in RowSet : outbox' = [outbox EXCEPT ![i] = row]
    <3>1. CASE Damage(i)
      <4>1. [outbox[i] EXCEPT !.intact = FALSE] \in RowSet
        BY <2>1 DEF RowSet
      <4> QED BY <3>1, <4>1 DEF Damage
    <3>2. CASE Repair(i)
      <4> DEFINE first == [outbox[i] EXCEPT !.intact = TRUE]
      <4>1. first \in RowSet
        BY <2>1 DEF RowSet
      <4> HIDE DEF first
      <4>2. [first EXCEPT !.status = "PENDING"] \in RowSet
        BY <4>1 DEF RowSet
      <4>3. [[first EXCEPT !.status = "PENDING"] EXCEPT !.attempts = 0] \in RowSet
        BY <4>2 DEF RowSet
      <4> QED BY <3>2, <4>3 DEF Repair, first
    <3> QED BY <1>8, <3>1, <3>2
  <2>3. outbox' \in Seq(RowSet) /\ Len(outbox') = Len(outbox)
    BY <2>1, <2>2, RowChanged
  <2> QED BY <2>1, <2>3, OthersKeepChain DEF ChainInv
<1>9. CASE UNCHANGED vars
  BY <1>9 DEF vars, ChainInv, Continues, Chained
<1> QED BY <1>1, <1>2, <1>3, <1>4, <1>5, <1>6, <1>7, <1>8, <1>9 DEF Next

-----------------------------------------------------------------------------
\* What the steps do to the effects of commands.  EndedTx, OpenedTx and ClaimingTx say what becomes
\* of the transactions.
LEMMA KeyInKeys ==
    ASSUME NEW r \in Requests
    PROVE  KeyOf[r] \in Keys /\ r \in Sessions
  BY DEF Keys, Sessions

LEMMA BeginKeepsEffects ==
    ASSUME Assumptions, ChainInv, EffectInv, NEW r \in Requests, Begin(r)
    PROVE  EffectInv'
<1>1. r \in Sessions /\ KeyOf[r] \in Keys /\ tx \in [Sessions -> TxSet] /\ Requests \subseteq Sessions
  BY KeyInKeys DEF ChainInv, Sessions
<1>2. UNCHANGED <<records, events>> /\ tx[r] = Idle /\ KeyFree(r)
  BY DEF Begin
<1>3. CASE records[KeyOf[r]] = None
  <2>1. tx' = Opened(r) /\ answers' = answers
    BY <1>3 DEF Begin, Opened
  <2>2. /\ tx'[r].open /\ tx'[r].staged = <<>> /\ tx'[r].made = 0
        /\ \A t \in Sessions \ {r} : tx'[t] = tx[t]
    <3>1. tx[r].staged = <<>> /\ tx[r].made = 0
      BY <1>2 DEF Idle
    <3> QED BY <1>1, <2>1, <3>1, OpenedTx
  <2>3. OwnEvents'
    BY <2>2 DEF EffectInv, OwnEvents
  <2>4. UnderWay'
    BY <1>1, <1>2, <1>3, <2>2 DEF EffectInv, UnderWay
  <2>5. OneUnderWay'
    BY <1>1, <1>2, <2>2 DEF EffectInv, OneUnderWay, KeyFree
  <2> QED BY <1>2, <2>1, <2>3, <2>4, <2>5 DEF EffectInv, Executed, Recorded, Answered
<1>4. CASE records[KeyOf[r]] # None
  <2>1. tx' = tx /\ answers' = [answers EXCEPT ![r] = IF Reused(r) THEN "REFUSED" ELSE records[KeyOf[r]]]
    BY <1>4 DEF Begin
  <2>2. records[KeyOf[r]] \in Requests /\ answers \in [Requests -> Requests \union Answers]
    BY <1>1, <1>4 DEF EffectInv
  <2>3. answers' \in [Requests -> Requests \union Answers]
    BY <2>1, <2>2 DEF Answers
  <2>4. ASSUME NEW q \in Requests, answers'[q] \in Requests
        PROVE  records[KeyOf[q]] = answers'[q] /\ BodyOf[answers'[q]] = BodyOf[q]
    <3>1. CASE q # r
      BY <2>1, <2>2, <2>4, <3>1 DEF EffectInv, Answered
    <3>2. CASE q = r
      <4>1. "REFUSED" \notin Requests
        BY DEF Assumptions, Answers
      <4>2. ~Reused(r) /\ answers'[r] = records[KeyOf[r]]
        BY <2>1, <2>2, <2>4, <3>2, <4>1
      <4> QED BY <3>2, <4>2 DEF Reused
    <3> QED BY <3>1, <3>2
  <2>5. Answered'
    BY <1>2, <2>4 DEF Answered
  <2>6. OwnEvents' /\ UnderWay' /\ OneUnderWay'
    BY <1>2, <2>1 DEF EffectInv, OwnEvents, UnderWay, OneUnderWay
  <2>7. Executed' /\ Recorded'
    BY <1>2 DEF EffectInv, Executed, Recorded
  <2>8. records' \in [Keys -> Requests \union {None}]
    BY <1>2 DEF EffectInv
  <2> QED BY <2>3, <2>5, <2>6, <2>7, <2>8 DEF EffectInv
<1> QED BY <1>3, <1>4

LEMMA AppendKeepsEffects ==
    ASSUME Assumptions, ChainInv, EffectInv, NEW s \in Sessions, AppendEvent(s)
    PROVE  EffectInv'
<1>1. /\ tx \in [Sessions -> TxSet] /\ tx[s] \in TxSet /\ tx[s].staged \in Seq(EventSet) /\ tx[s].made \in Nat
      /\ chain \in HeadSet /\ Continues(tx[s].staged, events, chain) /\ Chained(events, chain)
      /\ events \in Seq(EventSet) /\ Requests \subseteq Sessions
  BY DEF ChainInv, TxSet, Sessions
<1>2. ChainHead(s) \in HeadSet
  BY <1>1, JoinChains DEF ChainHead
<1>3. Event(s) \in EventSet /\ Event(s).by = s /\ Event(s).hash = <<s, tx[s].made + 1>>
  BY <1>1, <1>2 DEF Event, EventSet, HeadSet, Hashes
<1>4. UNCHANGED <<records, events, answers>>
      /\ tx' = [tx EXCEPT ![s] = [tx[s] EXCEPT !.staged = Append(tx[s].staged, Event(s)), !.made = tx[s].made + 1]]
  BY DEF AppendEvent
<1>5. /\ tx'[s].staged = Append(tx[s].staged, Event(s)) /\ tx'[s].made = tx[s].made + 1 /\ tx'[s].open = tx[s].open
      /\ \A t \in Sessions \ {s} : tx'[t] = tx[t]
  BY <1>1, <1>3, <1>4, AppendedTx
<1>6. /\ DOMAIN Append(tx[s].staged, Event(s)) = 1 .. Len(tx[s].staged) + 1
      /\ Len(Append(tx[s].staged, Event(s))) = Len(tx[s].staged) + 1
      /\ \A i \in 1 .. Len(tx[s].staged) : Append(tx[s].staged, Event(s))[i] = tx[s].staged[i]
      /\ Append(tx[s].staged, Event(s))[Len(tx[s].staged) + 1] = Event(s)
      /\ DOMAIN tx[s].staged = 1 .. Len(tx[s].staged) /\ Len(tx[s].staged) \in Nat
  BY <1>1, <1>3
<1>7. ASSUME NEW t \in Sessions, NEW i \in DOMAIN tx'[t].staged PROVE tx'[t].staged[i].by = t
  <2>1. CASE t # s
    BY <1>5, <2>1 DEF EffectInv, OwnEvents
  <2>2. CASE t = s /\ i \in 1 .. Len(tx[s].staged)
    BY <1>5, <1>6, <2>2 DEF EffectInv, OwnEvents
  <2>3. CASE t = s /\ i \notin 1 .. Len(tx[s].staged)
    <3>1. i = Len(tx[s].staged) + 1
      BY <1>5, <1>6, <2>3
    <3> QED BY <1>3, <1>5, <1>6, <2>3, <3>1
  <2> QED BY <2>1, <2>2, <2>3
<1>8. ASSUME NEW r \in Requests, tx'[r].open
      PROVE  /\ Len(tx'[r].staged) = tx'[r].made
             /\ \A i \in DOMAIN tx'[r].staged : tx'[r].staged[i].hash = <<r, i>>
             /\ records[KeyOf[r]] = None
  <2>1. CASE r # s
    BY <1>1, <1>5, <1>8, <2>1 DEF EffectInv, UnderWay
  <2>2. CASE r = s
    <3>1. /\ Len(tx[s].staged) = tx[s].made /\ records[KeyOf[r]] = None
          /\ \A i \in DOMAIN tx[s].staged : tx[s].staged[i].hash = <<r, i>>
      BY <1>5, <1>8, <2>2 DEF EffectInv, UnderWay
    <3>2. ASSUME NEW i \in DOMAIN tx'[r].staged PROVE tx'[r].staged[i].hash = <<r, i>>
      <4>1. CASE i \in 1 .. Len(tx[s].staged)
        BY <1>5, <1>6, <2>2, <3>1, <4>1
      <4>2. CASE i \notin 1 .. Len(tx[s].staged)
        <5>1. i = Len(tx[s].staged) + 1
          BY <1>5, <1>6, <2>2, <4>2
        <5> QED BY <1>3, <1>5, <1>6, <2>2, <3>1, <5>1
      <4> QED BY <4>1, <4>2
    <3> QED BY <1>5, <1>6, <2>2, <3>1, <3>2
  <2> QED BY <2>1, <2>2
<1>9. OneUnderWay'
  <2>1. \A r \in Requests : tx'[r].open = tx[r].open
    BY <1>1, <1>5
  <2> QED BY <2>1 DEF EffectInv, OneUnderWay
<1> QED BY <1>4, <1>7, <1>8, <1>9 DEF EffectInv, OwnEvents, UnderWay, Executed, Recorded, Answered

\* What neither executes nor answers a command keeps the effects of all.
LEMMA OthersKeepEffects ==
    ASSUME ChainInv, EffectInv, records' = records,
           NEW S \in Seq(EventSet), events' = events \o S, \A i \in DOMAIN S : S[i].by \notin Requests,
           \A s \in Sessions : tx'[s].staged = tx[s].staged \/ tx'[s].staged = <<>>,
           \A r \in Requests : tx'[r].open => tx'[r].staged = tx[r].staged /\ tx'[r].made = tx[r].made /\ tx[r].open,
           answers' \in [Requests -> Requests \union Answers],
           \A r \in Requests : answers'[r] \in Requests => answers'[r] = answers[r]
    PROVE  EffectInv'
<1>1. events \in Seq(EventSet) /\ Len(events) \in Nat /\ Len(S) \in Nat /\ DOMAIN events = 1 .. Len(events)
      /\ DOMAIN S = 1 .. Len(S)
  BY DEF ChainInv
<1>2. DOMAIN events' = 1 .. Len(events) + Len(S) /\ \A i \in 1 .. Len(events) : events'[i] = events[i]
  BY <1>1
<1>3. \A i \in 1 .. Len(S) : events'[Len(events) + i] = S[i]
  BY <1>1
<1>4. OwnEvents'
  BY DEF EffectInv, OwnEvents
<1>5. UnderWay'
  BY DEF EffectInv, UnderWay
<1>6. OneUnderWay'
  BY DEF EffectInv, OneUnderWay
<1>7. Executed'
  <2>1. ASSUME NEW k \in Keys, records[k] \in Requests, NEW n \in 1 .. Appends
        PROVE  \E i \in DOMAIN events' : events'[i].hash = <<records[k], n>>
    <3>1. PICK i \in DOMAIN events : events[i].hash = <<records[k], n>>
      BY <2>1 DEF EffectInv, Executed
    <3>2. i \in DOMAIN events' /\ events'[i] = events[i]
      BY <1>1, <1>2
    <3>3. events'[i].hash = <<records[k], n>>
      BY <3>1, <3>2
    <3> QED BY <3>2, <3>3
  <2> QED BY <2>1 DEF EffectInv, Executed
<1>8. Recorded'
  <2>1. ASSUME NEW i \in DOMAIN events', events'[i].by \in Requests PROVE i \in 1 .. Len(events)
    <3>1. CASE i \notin 1 .. Len(events)
      <4>1. i - Len(events) \in 1 .. Len(S) /\ i = Len(events) + (i - Len(events))
        BY <1>1, <1>2, <3>1
      <4>2. events'[i] = S[i - Len(events)]
        BY <1>3, <4>1
      <4> QED BY <1>1, <2>1, <4>1, <4>2
    <3> QED BY <3>1
  <2> QED BY <1>1, <1>2, <2>1 DEF EffectInv, Recorded
<1>9. Answered'
  BY DEF EffectInv, Answered
<1>10. records' \in [Keys -> Requests \union {None}]
  BY DEF EffectInv
<1> QED BY <1>4, <1>5, <1>6, <1>7, <1>8, <1>9, <1>10 DEF EffectInv

\* A command that commits is the first of its key to be executed.
LEMMA CommitKeepsEffects ==
    ASSUME Assumptions, ChainInv, EffectInv, NEW r \in Requests, NEW heard \in BOOLEAN, Commit(r, heard)
    PROVE  EffectInv'
<1> DEFINE S == tx[r].staged
<1>1. /\ r \in Sessions /\ KeyOf[r] \in Keys /\ tx \in [Sessions -> TxSet] /\ Requests \subseteq Sessions
      /\ S \in Seq(EventSet) /\ events \in Seq(EventSet) /\ Appends \in Nat /\ None \notin Requests
  BY KeyInKeys DEF ChainInv, Sessions, TxSet, Assumptions
<1>2. /\ Len(S) = Appends /\ records[KeyOf[r]] = None /\ tx[r].open
      /\ \A i \in DOMAIN S : S[i].hash = <<r, i>> /\ S[i].by = r
  BY <1>1 DEF Commit, EffectInv, UnderWay, OwnEvents
<1>3. /\ events' = events \o S /\ records' = [records EXCEPT ![KeyOf[r]] = r] /\ tx' = Ended(r)
      /\ answers' = [answers EXCEPT ![r] = IF heard THEN r ELSE "LOST"]
  BY DEF Commit
<1>4. /\ DOMAIN events = 1 .. Len(events) /\ Len(events) \in Nat /\ DOMAIN S = 1 .. Appends
      /\ DOMAIN events' = 1 .. Len(events) + Appends
  <2>1. DOMAIN events = 1 .. Len(events) /\ Len(events) \in Nat /\ DOMAIN S = 1 .. Len(S)
    BY <1>1
  <2> HIDE DEF S
  <2>2. events \o S \in Seq(EventSet) /\ Len(events \o S) = Len(events) + Len(S)
    BY <1>1, ConcatProperties
  <2>3. DOMAIN (events \o S) = 1 .. Len(events \o S)
    BY <2>2
  <2> QED BY <1>2, <1>3, <2>1, <2>2, <2>3
<1>5. \A i \in 1 .. Len(events) : events'[i] = events[i]
  BY <1>1, <1>3
<1>6. \A i \in 1 .. Appends : events'[Len(events) + i] = S[i]
  BY <1>1, <1>2, <1>3
<1>7. /\ ~tx'[r].open /\ tx'[r].staged = <<>> /\ \A s \in Sessions \ {r} : tx'[s] = tx[s]
  BY <1>1, <1>3, EndedTx
<1>8. /\ records \in [Keys -> Requests \union {None}] /\ records' \in [Keys -> Requests \union {None}]
      /\ records'[KeyOf[r]] = r /\ \A k \in Keys \ {KeyOf[r]} : records'[k] = records[k]
  BY <1>1, <1>3 DEF EffectInv
<1>9. answers' \in [Requests -> Requests \union Answers] /\ \A q \in Requests \ {r} : answers'[q] = answers[q]
      /\ (answers'[r] \in Requests => answers'[r] = r)
  <2>1. (IF heard THEN r ELSE "LOST") \in Requests \union Answers /\ "LOST" \notin Requests
    BY DEF Answers, Assumptions
  <2>2. answers \in [Requests -> Requests \union Answers]
    BY DEF EffectInv
  <2> QED BY <1>3, <2>1, <2>2
<1> HIDE DEF S
<1>10. OwnEvents'
  BY <1>7 DEF EffectInv, OwnEvents
<1>11. UnderWay'
  <2>1. ASSUME NEW q \in Requests, tx'[q].open
        PROVE  q # r /\ tx'[q] = tx[q] /\ records'[KeyOf[q]] = records[KeyOf[q]]
    <3>1. q # r /\ tx'[q] = tx[q] /\ KeyOf[q] \in Keys
      BY <1>1, <1>7, <2>1, KeyInKeys
    <3>2. KeyOf[q] # KeyOf[r]
      BY <1>2, <2>1, <3>1 DEF EffectInv, OneUnderWay
    <3> QED BY <1>8, <3>1, <3>2
  <2> QED BY <2>1 DEF EffectInv, UnderWay
<1>12. OneUnderWay'
  BY <1>1, <1>7 DEF EffectInv, OneUnderWay
<1>13. Executed'
  <2>1. ASSUME NEW k \in Keys, records'[k] \in Requests, NEW n \in 1 .. Appends
        PROVE  \E i \in DOMAIN events' : events'[i].hash = <<records'[k], n>>
    <3>1. CASE k = KeyOf[r]
      <4>1. events'[Len(events) + n].hash = <<r, n>> /\ Len(events) + n \in DOMAIN events'
        <5>1. events'[Len(events) + n] = S[n] /\ n \in DOMAIN S
          BY <1>4, <1>6
        <5>2. S[n].hash = <<r, n>>
          BY <1>2, <5>1
        <5>3. Len(events) + n \in DOMAIN events'
          BY <1>1, <1>4
        <5> QED BY <5>1, <5>2, <5>3
      <4> QED BY <1>8, <3>1, <4>1
    <3>2. CASE k # KeyOf[r]
      <4>1. PICK i \in DOMAIN events : events[i].hash = <<records[k], n>>
        BY <1>8, <2>1, <3>2 DEF EffectInv, Executed
      <4>2. i \in DOMAIN events' /\ events'[i] = events[i]
        BY <1>1, <1>4, <1>5
      <4> QED BY <1>8, <3>2, <4>1, <4>2
    <3> QED BY <3>1, <3>2
  <2>2. \A k \in Keys : records'[k] \in Requests => KeyOf[records'[k]] = k
    BY <1>8 DEF EffectInv, Executed
  <2> QED BY <2>1, <2>2 DEF Executed
<1>14. Recorded'
  <2>1. ASSUME NEW i \in DOMAIN events', events'[i].by \in Requests
        PROVE  records'[KeyOf[events'[i].by]] = events'[i].by
    <3>1. CASE i \in 1 .. Len(events)
      <4> DEFINE q == events[i].by
      <4>1. q \in Requests /\ KeyOf[q] \in Keys /\ events'[i].by = q
        BY <1>5, <2>1, <3>1, KeyInKeys
      <4>2. records[KeyOf[q]] = q
        BY <1>4, <3>1, <4>1 DEF EffectInv, Recorded
      <4>3. KeyOf[q] # KeyOf[r]
        BY <1>1, <1>2, <4>1, <4>2
      <4> QED BY <1>8, <4>1, <4>2, <4>3
    <3>2. CASE i \notin 1 .. Len(events)
      <4>1. i - Len(events) \in 1 .. Appends /\ i = Len(events) + (i - Len(events))
        BY <1>1, <1>4, <3>2
      <4>2. events'[i].by = r
        BY <1>2, <1>4, <1>6, <4>1
      <4> QED BY <1>8, <4>2
    <3> QED BY <3>1, <3>2
  <2> QED BY <2>1 DEF Recorded
<1>15. Answered'
  <2>1. ASSUME NEW q \in Requests \ {r}, answers'[q] \in Requests
        PROVE  records'[KeyOf[q]] = answers'[q] /\ BodyOf[answers'[q]] = BodyOf[q]
    <3>1. records[KeyOf[q]] = answers[q] /\ BodyOf[answers[q]] = BodyOf[q] /\ answers'[q] = answers[q]
      BY <1>9, <2>1 DEF EffectInv, Answered
    <3>2. KeyOf[q] # KeyOf[r] /\ KeyOf[q] \in Keys
      BY <1>1, <1>2, <2>1, <3>1, KeyInKeys
    <3> QED BY <1>8, <3>1, <3>2
  <2> QED BY <1>8, <1>9, <2>1 DEF Answered
<1> QED BY <1>8, <1>9, <1>10, <1>11, <1>12, <1>13, <1>14, <1>15 DEF EffectInv

\* Every step keeps the effects of commands.
LEMMA StepKeepsEffects ==
    ASSUME Assumptions, ChainInv, EffectInv, [Next]_vars
    PROVE  EffectInv'
<1>1. /\ tx \in [Sessions -> TxSet] /\ events \in Seq(EventSet) /\ Requests \subseteq Sessions
      /\ Workers \subseteq Sessions /\ Requests \intersect Workers = {}
      /\ answers \in [Requests -> Requests \union Answers]
  BY DEF ChainInv, EffectInv, Sessions, Assumptions
<1>2. events \o <<>> = events /\ <<>> \in Seq(EventSet) /\ DOMAIN <<>> = {}
  BY <1>1
<1>3. ASSUME NEW r \in Requests, Begin(r) PROVE EffectInv'
  BY <1>3, BeginKeepsEffects
<1>4. ASSUME NEW s \in Sessions, AppendEvent(s) PROVE EffectInv'
  BY <1>4, AppendKeepsEffects
<1>5. ASSUME NEW s \in Sessions, Rollback(s) PROVE EffectInv'
  <2>1. tx' = Ended(s) /\ events' = events \o <<>> /\ records' = records
        /\ answers' = IF s \in Requests THEN [answers EXCEPT ![s] = "FAILED"] ELSE answers
    BY <1>2, <1>5 DEF Rollback
  <2>2. ~tx'[s].open /\ tx'[s].staged = <<>> /\ \A t \in Sessions \ {s} : tx'[t] = tx[t]
    BY <1>1, <2>1, EndedTx
  <2>3. answers' \in [Requests -> Requests \union Answers]
    BY <1>1, <2>1 DEF Answers
  <2>4. \A r \in Requests : answers'[r] \in Requests => answers'[r] = answers[r]
    BY <1>1, <2>1 DEF Answers, Assumptions
  <2>5. \A t \in Sessions : tx'[t].staged = tx[t].staged \/ tx'[t].staged = <<>>
    BY <2>2
  <2>6. \A r \in Requests : tx'[r].open => tx'[r].staged = tx[r].staged /\ tx'[r].made = tx[r].made /\ tx[r].open
    BY <1>1, <2>2
  <2> QED BY <1>2, <2>1, <2>3, <2>4, <2>5, <2>6, OthersKeepEffects
<1>6. ASSUME NEW r \in Requests, NEW heard \in BOOLEAN, Commit(r, heard) PROVE EffectInv'
  BY <1>6, CommitKeepsEffects
<1>7. ASSUME NEW w \in Workers, Poll(w) PROVE EffectInv'
  <2>1. tx' = Opened(w) /\ events' = events \o <<>> /\ records' = records /\ answers' = answers
    BY <1>2, <1>7 DEF Poll, Opened
  <2>2. tx'[w].staged = tx[w].staged /\ \A t \in Sessions \ {w} : tx'[t] = tx[t]
    BY <1>1, <2>1, OpenedTx
  <2>3. \A t \in Sessions : tx'[t].staged = tx[t].staged
    BY <2>2
  <2>4. \A r \in Requests : tx'[r] = tx[r]
    BY <1>1, <2>2
  <2> QED BY <1>1, <1>2, <2>1, <2>3, <2>4, OthersKeepEffects
<1>8. ASSUME NEW w \in Workers, CommitPoll(w) PROVE EffectInv'
  <2>1. tx' = Ended(w) /\ events' = events \o tx[w].staged /\ records' = records /\ answers' = answers
    BY <1>8 DEF CommitPoll
  <2>2. tx'[w].staged = <<>> /\ \A t \in Sessions \ {w} : tx'[t] = tx[t]
    BY <1>1, <2>1, EndedTx
  <2>3. \A t \in Sessions : tx'[t].staged = tx[t].staged \/ tx'[t].staged = <<>>
    BY <2>2
  <2>4. \A r \in Requests : tx'[r] = tx[r]
    BY <1>1, <2>2
  <2>5. tx[w].staged \in Seq(EventSet)
    BY <1>1 DEF TxSet
  <2>6. \A i \in DOMAIN tx[w].staged : tx[w].staged[i].by \notin Requests
    BY <1>1 DEF EffectInv, OwnEvents
  <2> QED BY <1>1, <2>1, <2>3, <2>4, <2>5, <2>6, OthersKeepEffects
<1>9. ASSUME NEW w \in Workers, NEW batch \in SUBSET Ready, Claim(w, batch) PROVE EffectInv'
  <2>1. tx' = Claiming(w, batch) /\ events' = events \o <<>> /\ records' = records /\ answers' = answers
    BY <1>2, <1>9 DEF Claim, Claiming
  <2>2. batch \in SUBSET Nat /\ w \in Sessions
    BY <1>1 DEF Ready, ChainInv
  <2>3. tx'[w].staged = tx[w].staged /\ \A t \in Sessions \ {w} : tx'[t] = tx[t]
    BY <1>1, <2>1, <2>2, ClaimingTx
  <2>4. \A t \in Sessions : tx'[t].staged = tx[t].staged
    BY <2>3
  <2>5. \A r \in Requests : tx'[r] = tx[r]
    BY <1>1, <2>3
  <2> QED BY <1>1, <1>2, <2>1, <2>4, <2>5, OthersKeepEffects
<1>10. CASE (\E i \in DOMAIN outbox : Damage(i) \/ Repair(i)) \/ UNCHANGED vars
  <2>1. tx' = tx /\ events' = events \o <<>> /\ records' = records /\ answers' = answers
    BY <1>2, <1>10 DEF Damage, Repair, vars
  <2> QED BY <1>1, <1>2, <2>1, OthersKeepEffects
<1> QED BY <1>3, <1>4, <1>5, <1>6, <1>7, <1>8, <1>9, <1>10 DEF Next

-----------------------------------------------------------------------------
\* What leaves the rows alone and claims none keeps the delivery.
LEMMA OthersKeepDelivery ==
    ASSUME DeliveryInv, UNCHANGED <<outbox, receipts>>,
           \A s \in Sessions : tx'[s].claimed = tx[s].claimed \/ tx'[s].claimed = {}
    PROVE  DeliveryInv'
  BY DEF DeliveryInv

\* The rows of the events of a commit are appended as undelivered.
LEMMA AppendedRows ==
    ASSUME NEW rows \in Seq(RowSet), NEW S \in Seq(EventSet)
    PROVE  /\ DOMAIN rows \subseteq DOMAIN (rows \o Rows(S))
           /\ \A i \in DOMAIN rows : (rows \o Rows(S))[i] = rows[i]
           /\ \A i \in DOMAIN (rows \o Rows(S)) \ DOMAIN rows : (rows \o Rows(S))[i] = Undelivered
<1> DEFINE R == Rows(S)
<1>1. R \in Seq(RowSet) /\ Len(R) = Len(S) /\ \A i \in DOMAIN S : R[i] = Undelivered
  <2>1. Len(S) \in Nat /\ DOMAIN S = 1 .. Len(S)
    OBVIOUS
  <2> QED BY <2>1, IsASeq DEF Rows, Undelivered, RowSet
<1>2. Len(rows) \in Nat /\ DOMAIN rows = 1 .. Len(rows) /\ Len(S) \in Nat /\ DOMAIN S = 1 .. Len(S)
  OBVIOUS
<1> HIDE DEF R
<1>3. rows \o R \in Seq(RowSet) /\ Len(rows \o R) = Len(rows) + Len(S)
  <2>1. rows \o R \in Seq(RowSet) /\ Len(rows \o R) = Len(rows) + Len(R)
    BY <1>1, ConcatProperties
  <2> QED BY <1>1, <2>1
<1>4. DOMAIN (rows \o R) = 1 .. Len(rows) + Len(S)
  BY <1>3
<1>5. \A i \in DOMAIN rows : (rows \o R)[i] = rows[i]
  BY <1>1, <1>2
<1>6. ASSUME NEW i \in DOMAIN (rows \o R) \ DOMAIN rows PROVE (rows \o R)[i] = Undelivered
  <2>1. i - Len(rows) \in 1 .. Len(S)
    BY <1>2, <1>4
  <2>2. (rows \o R)[i] = R[i - Len(rows)]
    BY <1>1, <1>2, <1>4
  <2> QED BY <1>1, <1>2, <2>1, <2>2
<1>7. DOMAIN rows \subseteq DOMAIN (rows \o R)
  BY <1>2, <1>4
<1> QED BY <1>5, <1>6, <1>7 DEF R

\* A claimed row is tried: it is published, tried again or set aside.
LEMMA TriedRow ==
    ASSUME NEW row \in RowSet
    PROVE  /\ Tried(row).intact = row.intact
           /\ row.intact => Tried(row).status = "PUBLISHED"
           /\ ~row.intact => Tried(row).status \in {"PENDING", "QUARANTINED"}
<1>1. PICK new \in {"PENDING", "PUBLISHED", "QUARANTINED"} :
          /\ Tried(row) = [row EXCEPT !.attempts = row.attempts + 1, !.status = new]
          /\ row.intact => new = "PUBLISHED"
          /\ ~row.intact => new \in {"PENDING", "QUARANTINED"}
  BY DEF Tried
<1>2. Tried(row).intact = row.intact /\ Tried(row).status = new
  BY <1>1 DEF RowSet
<1> QED BY <1>1, <1>2

LEMMA CommitKeepsDelivery ==
    ASSUME ChainInv, DeliveryInv, NEW r \in Requests, NEW heard \in BOOLEAN, Commit(r, heard)
    PROVE  DeliveryInv'
<1>1. /\ r \in Sessions /\ outbox \in Seq(RowSet) /\ tx \in [Sessions -> TxSet] /\ tx[r].staged \in Seq(EventSet)
      /\ outbox' = outbox \o Rows(tx[r].staged) /\ receipts' = receipts /\ tx' = Ended(r)
  BY DEF Sessions, ChainInv, TxSet, Commit
<1>2. /\ DOMAIN outbox \subseteq DOMAIN outbox' /\ \A i \in DOMAIN outbox : outbox'[i] = outbox[i]
      /\ \A i \in DOMAIN outbox' \ DOMAIN outbox : outbox'[i] = Undelivered
  BY <1>1, AppendedRows
<1>3. tx'[r].claimed = {} /\ \A s \in Sessions \ {r} : tx'[s] = tx[s]
  BY <1>1, EndedTx
<1>4. Undelivered.status = "PENDING"
  BY DEF Undelivered
<1>5. receipts' = {i \in DOMAIN outbox' : outbox'[i].status = "PUBLISHED"}
  BY <1>1, <1>2, <1>4 DEF DeliveryInv
<1>6. \A i \in DOMAIN outbox' :
          /\ outbox'[i].status = "QUARANTINED" => ~outbox'[i].intact
          /\ outbox'[i].status = "PUBLISHED" => outbox'[i].intact
  BY <1>2, <1>4 DEF DeliveryInv
<1>7. \A s \in Sessions : \A i \in tx'[s].claimed : s \in Workers /\ i \in DOMAIN outbox' /\ outbox'[i].status = "PENDING"
  BY <1>2, <1>3 DEF DeliveryInv
<1>8. \A s, t \in Sessions : s # t => tx'[s].claimed \intersect tx'[t].claimed = {}
  BY <1>3 DEF DeliveryInv
<1> QED BY <1>5, <1>6, <1>7, <1>8 DEF DeliveryInv

LEMMA CommitPollKeepsDelivery ==
    ASSUME ChainInv, DeliveryInv, NEW w \in Workers, CommitPoll(w)
    PROVE  DeliveryInv'
<1> DEFINE rows == Dispatched(w)
<1>1. /\ w \in Sessions /\ outbox \in Seq(RowSet) /\ tx \in [Sessions -> TxSet] /\ tx[w].staged \in Seq(EventSet)
      /\ outbox' = rows \o Rows(tx[w].staged) /\ tx' = Ended(w)
      /\ receipts' = receipts \union {i \in tx[w].claimed : outbox[i].intact}
  BY DEF Sessions, ChainInv, TxSet, CommitPoll, Dispatched
<1>2. rows \in Seq(RowSet) /\ DOMAIN rows = DOMAIN outbox
  BY <1>1, DispatchedRows DEF Dispatched
<1>3. /\ \A i \in tx[w].claimed : rows[i] = Tried(outbox[i]) /\ i \in DOMAIN outbox /\ outbox[i].status = "PENDING"
      /\ \A i \in DOMAIN outbox \ tx[w].claimed : rows[i] = outbox[i]
  BY <1>1 DEF Dispatched, DeliveryInv
<1>4. \A i \in DOMAIN outbox : outbox[i] \in RowSet
  BY <1>1
<1> HIDE DEF rows
<1>5. /\ DOMAIN outbox \subseteq DOMAIN outbox' /\ \A i \in DOMAIN outbox : outbox'[i] = rows[i]
      /\ \A i \in DOMAIN outbox' \ DOMAIN outbox : outbox'[i] = Undelivered
  BY <1>1, <1>2, AppendedRows
<1>6. tx'[w].claimed = {} /\ \A s \in Sessions \ {w} : tx'[s] = tx[s]
  BY <1>1, EndedTx
<1>7. Undelivered.status = "PENDING"
  BY DEF Undelivered
<1>8. \A i \in tx[w].claimed :
          /\ outbox'[i].intact = outbox[i].intact
          /\ outbox[i].intact => outbox'[i].status = "PUBLISHED"
          /\ ~outbox[i].intact => outbox'[i].status \in {"PENDING", "QUARANTINED"}
  BY <1>3, <1>4, <1>5, TriedRow
<1>9. receipts' = {i \in DOMAIN outbox' : outbox'[i].status = "PUBLISHED"}
  <2>1. ASSUME NEW i \in DOMAIN outbox' PROVE i \in receipts' <=> outbox'[i].status = "PUBLISHED"
    <3>1. CASE i \in tx[w].claimed
      BY <1>1, <1>3, <1>8, <3>1 DEF DeliveryInv
    <3>2. CASE i \in DOMAIN outbox \ tx[w].claimed
      BY <1>1, <1>3, <1>5, <3>2 DEF DeliveryInv
    <3>3. CASE i \notin DOMAIN outbox
      BY <1>1, <1>3, <1>5, <1>7, <3>3 DEF DeliveryInv
    <3> QED BY <3>1, <3>2, <3>3
  <2>2. receipts' \subseteq DOMAIN outbox'
    BY <1>1, <1>3, <1>5 DEF DeliveryInv
  <2> QED BY <2>1, <2>2
<1>10. ASSUME NEW i \in DOMAIN outbox'
       PROVE  /\ outbox'[i].status = "QUARANTINED" => ~outbox'[i].intact
              /\ outbox'[i].status = "PUBLISHED" => outbox'[i].intact
  <2>1. CASE i \in tx[w].claimed
    BY <1>3, <1>4, <1>8, <2>1 DEF RowSet
  <2>2. CASE i \in DOMAIN outbox \ tx[w].claimed
    BY <1>3, <1>5, <2>2 DEF DeliveryInv
  <2>3. CASE i \notin DOMAIN outbox
    BY <1>5, <1>7, <2>3
  <2> QED BY <2>1, <2>2, <2>3
<1>11. ASSUME NEW s \in Sessions, NEW i \in tx'[s].claimed
       PROVE  s \in Workers /\ i \in DOMAIN outbox' /\ outbox'[i].status = "PENDING"
  <2>1. s # w /\ i \in tx[s].claimed
    BY <1>6, <1>11
  <2>2. s \in Workers /\ i \in DOMAIN outbox /\ outbox[i].status = "PENDING" /\ i \notin tx[w].claimed
    BY <1>1, <2>1 DEF DeliveryInv
  <2> QED BY <1>3, <1>5, <2>2
<1>12. \A s, t \in Sessions : s # t => tx'[s].claimed \intersect tx'[t].claimed = {}
  BY <1>6 DEF DeliveryInv
<1> QED BY <1>9, <1>10, <1>11, <1>12 DEF DeliveryInv

\* Every step keeps the delivery.
LEMMA StepKeepsDelivery ==
    ASSUME Assumptions, ChainInv, DeliveryInv, [Next]_vars
    PROVE  DeliveryInv'
<1>1. /\ tx \in [Sessions -> TxSet] /\ outbox \in Seq(RowSet) /\ chain \in HeadSet /\ events \in Seq(EventSet)
      /\ Requests \subseteq Sessions /\ Workers \subseteq Sessions /\ \A s \in Sessions : tx[s].staged \in Seq(EventSet)
  BY DEF ChainInv, Sessions, TxSet
<1>2. ASSUME NEW r \in Requests, Begin(r) PROVE DeliveryInv'
  <2>1. UNCHANGED <<outbox, receipts>> /\ (tx' = tx \/ tx' = Opened(r))
    BY <1>2 DEF Begin, Opened
  <2>2. CASE tx' = tx
    BY <2>1, <2>2, OthersKeepDelivery
  <2>3. CASE tx' = Opened(r)
    <3>1. \A s \in Sessions : tx'[s].claimed = tx[s].claimed
      BY <1>1, <2>3, OpenedTx
    <3> QED BY <2>1, <3>1, OthersKeepDelivery
  <2> QED BY <2>1, <2>2, <2>3
<1>3. ASSUME NEW s \in Sessions, AppendEvent(s) PROVE DeliveryInv'
  <2>1. /\ UNCHANGED <<outbox, receipts>>
        /\ tx' = [tx EXCEPT ![s] = [tx[s] EXCEPT !.staged = Append(tx[s].staged, Event(s)), !.made = tx[s].made + 1]]
    BY <1>3 DEF AppendEvent
  <2>2. ChainHead(s) \in HeadSet /\ tx[s] \in TxSet /\ tx[s].made \in Nat
    BY <1>1, JoinChains DEF ChainHead, ChainInv, TxSet
  <2>3. Event(s) \in EventSet
    BY <2>2 DEF Event, EventSet, HeadSet, Hashes
  <2>4. tx'[s].claimed = tx[s].claimed
    BY <1>1, <2>1, <2>2, <2>3, AppendedTx
  <2>5. \A t \in Sessions : tx'[t].claimed = tx[t].claimed
    BY <1>1, <2>1, <2>4
  <2> QED BY <2>1, <2>5, OthersKeepDelivery
<1>4. ASSUME NEW s \in Sessions, Rollback(s) PROVE DeliveryInv'
  <2>1. UNCHANGED <<outbox, receipts>> /\ tx' = Ended(s)
    BY <1>4 DEF Rollback
  <2>2. \A t \in Sessions : tx'[t].claimed = tx[t].claimed \/ tx'[t].claimed = {}
    BY <1>1, <2>1, EndedTx
  <2> QED BY <2>1, <2>2, OthersKeepDelivery
<1>5. ASSUME NEW r \in Requests, NEW heard \in BOOLEAN, Commit(r, heard) PROVE DeliveryInv'
  BY <1>5, CommitKeepsDelivery
<1>6. ASSUME NEW w \in Workers, Poll(w) PROVE DeliveryInv'
  <2>1. UNCHANGED <<outbox, receipts>> /\ tx' = Opened(w)
    BY <1>6 DEF Poll, Opened
  <2>2. \A s \in Sessions : tx'[s].claimed = tx[s].claimed
    BY <1>1, <2>1, OpenedTx
  <2> QED BY <2>1, <2>2, OthersKeepDelivery
<1>7. ASSUME NEW w \in Workers, CommitPoll(w) PROVE DeliveryInv'
  BY <1>7, CommitPollKeepsDelivery
<1>8. ASSUME NEW w \in Workers, NEW batch \in SUBSET Ready, Claim(w, batch) PROVE DeliveryInv'
  <2>1. UNCHANGED <<outbox, receipts>> /\ tx' = Claiming(w, batch) /\ w \in Sessions
    BY <1>1, <1>8 DEF Claim, Claiming
  <2>2. batch \in SUBSET Nat
    BY <1>1 DEF Ready
  <2>3. tx'[w].claimed = batch /\ \A s \in Sessions \ {w} : tx'[s] = tx[s]
    BY <1>1, <2>1, <2>2, ClaimingTx
  <2>4. ASSUME NEW s \in Sessions \ {w} PROVE batch \intersect tx[s].claimed = {}
    <3>1. CASE s \in Workers
      BY <3>1 DEF Ready, Claimed
    <3>2. CASE s \notin Workers
      BY <3>2 DEF DeliveryInv
    <3> QED BY <3>1, <3>2
  <2>5. \A s, t \in Sessions : s # t => tx'[s].claimed \intersect tx'[t].claimed = {}
    BY <2>3, <2>4 DEF DeliveryInv
  <2>6. \A s \in Sessions : \A i \in tx'[s].claimed : s \in Workers /\ i \in DOMAIN outbox' /\ outbox'[i].status = "PENDING"
    BY <2>1, <2>3 DEF DeliveryInv, Ready
  <2> QED BY <2>1, <2>5, <2>6 DEF DeliveryInv
<1>9. ASSUME NEW i \in DOMAIN outbox, Damage(i) \/ Repair(i) PROVE DeliveryInv'
  <2>1. /\ UNCHANGED <<receipts, tx>> /\ outbox[i] \in RowSet /\ i \notin Claimed
        /\ DOMAIN outbox' = DOMAIN outbox /\ \A j \in DOMAIN outbox \ {i} : outbox'[j] = outbox[j]
    BY <1>1, <1>9 DEF Damage, Repair
  <2>2. outbox[i].status # "PUBLISHED" /\ outbox'[i].status = "PENDING"
    <3>1. CASE Damage(i)
      BY <1>1, <2>1, <3>1 DEF Damage, RowSet
    <3>2. CASE Repair(i)
      BY <1>1, <2>1, <3>2 DEF Repair, RowSet, DeliveryInv
    <3> QED BY <1>9, <3>1, <3>2
  <2>3. receipts' = {j \in DOMAIN outbox' : outbox'[j].status = "PUBLISHED"}
    BY <2>1, <2>2 DEF DeliveryInv
  <2>4. \A j \in DOMAIN outbox' :
            /\ outbox'[j].status = "QUARANTINED" => ~outbox'[j].intact
            /\ outbox'[j].status = "PUBLISHED" => outbox'[j].intact
    BY <2>1, <2>2 DEF DeliveryInv
  <2>5. \A s \in Sessions : \A j \in tx'[s].claimed : s \in Workers /\ j \in DOMAIN outbox' /\ outbox'[j].status = "PENDING"
    BY <2>1, <2>2 DEF DeliveryInv
  <2> QED BY <2>1, <2>3, <2>4, <2>5 DEF DeliveryInv
<1>10. CASE UNCHANGED vars
  BY <1>10, OthersKeepDelivery DEF vars
<1> QED BY <1>2, <1>3, <1>4, <1>5, <1>6, <1>7, <1>8, <1>9, <1>10 DEF Next

-----------------------------------------------------------------------------
JournalInv == ChainInv /\ EffectInv /\ DeliveryInv

LEMMA InitEstablishes ==
    ASSUME Assumptions, Init
    PROVE  JournalInv
<1>1. /\ <<>> \in Seq(EventSet) /\ <<>> \in Seq(RowSet) /\ Idle \in TxSet
      /\ Idle.open = FALSE /\ Idle.staged = <<>> /\ Idle.claimed = {}
  <2>1. <<>> \in Seq(EventSet) /\ <<>> \in Seq(RowSet)
    OBVIOUS
  <2> QED BY <2>1 DEF Idle, TxSet
<1>2. /\ events = <<>> /\ outbox = <<>> /\ receipts = {} /\ records = [k \in Keys |-> None]
      /\ tx = [s \in Sessions |-> Idle] /\ answers = [r \in Requests |-> "NONE"]
      /\ chain.next = 1 /\ chain.last = None /\ chain \in HeadSet
  BY DEF Init, HeadSet
<1>3. \A s \in Sessions : tx[s].open = FALSE /\ tx[s].staged = <<>> /\ tx[s].claimed = {}
  BY <1>1, <1>2
<1>4. \A r \in Requests : r \in Sessions /\ KeyOf[r] \in Keys
  BY KeyInKeys
<1>5. ChainInv
  <2>1. Chained(events, chain) /\ Len(outbox) = Len(events)
    BY <1>2 DEF Chained
  <2>2. \A s \in Sessions : Continues(tx[s].staged, events, chain)
    BY <1>3 DEF Continues
  <2> QED BY <1>1, <1>2, <1>3, <2>1, <2>2 DEF ChainInv
<1>6. EffectInv
  <2>1. OwnEvents /\ UnderWay /\ OneUnderWay
    BY <1>3, <1>4 DEF OwnEvents, UnderWay, OneUnderWay
  <2>2. Executed /\ Recorded
    BY <1>2 DEF Executed, Recorded, Assumptions
  <2>3. Answered /\ answers \in [Requests -> Requests \union Answers] /\ records \in [Keys -> Requests \union {None}]
    BY <1>2 DEF Answered, Answers, Assumptions
  <2> QED BY <2>1, <2>2, <2>3 DEF EffectInv
<1>7. DeliveryInv
  BY <1>2, <1>3 DEF DeliveryInv
<1> QED BY <1>5, <1>6, <1>7 DEF JournalInv

\* What the invariant says of the journal that verify_journal, the clients and the consumers see.
LEMMA InvImpliesKept ==
    ASSUME Assumptions, JournalInv
    PROVE  JournalKept
<1>1. ChainIntact
  BY DEF JournalInv, ChainInv, Chained, ChainIntact, Verified
<1>2. DeliveredOnce
  BY DEF JournalInv, DeliveryInv, DeliveredOnce
<1>3. ASSUME NEW i \in DOMAIN events, NEW j \in DOMAIN events, events[i].by \in Requests, events[j].by \in Requests,
             KeyOf[events[i].by] = KeyOf[events[j].by]
      PROVE  events[i].by = events[j].by
  BY <1>3 DEF JournalInv, EffectInv, Recorded
<1>4. ASSUME NEW r \in Requests, answers[r] \in Requests
      PROVE  /\ KeyOf[answers[r]] = KeyOf[r] /\ BodyOf[answers[r]] = BodyOf[r]
             /\ \A n \in 1 .. Appends : \E i \in DOMAIN events : events[i].hash = <<answers[r], n>>
  <2>1. records[KeyOf[r]] = answers[r] /\ BodyOf[answers[r]] = BodyOf[r] /\ KeyOf[r] \in Keys
    BY <1>4, KeyInKeys DEF JournalInv, EffectInv, Answered
  <2> DEFINE k == KeyOf[r]
  <2>2. k \in Keys /\ records[k] \in Requests /\ records[k] = answers[r]
    BY <1>4, <2>1
  <2> HIDE DEF k
  <2>3. KeyOf[records[k]] = k /\ \A n \in 1 .. Appends : \E i \in DOMAIN events : events[i].hash = <<records[k], n>>
    BY <2>2 DEF JournalInv, EffectInv, Executed
  <2>4. KeyOf[answers[r]] = k
    BY <2>2, <2>3
  <2> QED BY <2>1, <2>2, <2>3, <2>4 DEF k
<1>5. EffectOnce
  BY <1>3, <1>4 DEF EffectOnce
<1> QED BY <1>1, <1>2, <1>5 DEF JournalKept

\* Whatever commands and polls of the worker run side by side, retry and are rolled back, the
\* inductive invariant of the journal holds.
THEOREM JournalInvariant ==
    ASSUME Assumptions
    PROVE  Spec => []JournalInv
<1>1. Init => JournalInv
  BY InitEstablishes
<1>2. JournalInv /\ [Next]_vars => JournalInv'
  BY StepKeepsChain, StepKeepsEffects, StepKeepsDelivery DEF JournalInv
<1> QED BY <1>1, <1>2, PTL DEF Spec

\* The committed chain never has a gap or a fork, a command is executed at most once under its
\* key and answered only with its own result, and what is published is what was consumed
\* (SignedJournalService.append, IdempotencyRepository.begin, dispatch_outbox_batch).
THEOREM JournalSafe ==
    ASSUME Assumptions
    PROVE  Spec => []JournalKept
<1>1. JournalInv => JournalKept
  BY InvImpliesKept
<1> QED BY <1>1, JournalInvariant, PTL
=============================================================================

------------------------------- MODULE Journal -------------------------------
(***************************************************************************)
(* The signed journal of a node: the chain of its events, the outbox that  *)
(* is committed with them, the worker that delivers it, and the records by *)
(* which a repeated request finds the answer of the first one.             *)
(*                                                                         *)
(* Requests and workers run in transactions of their own.  The row of the  *)
(* chain is locked from the first append of a transaction to its end, and  *)
(* an inserted idempotency key makes other transactions with the same key  *)
(* wait: an action that needs a lock is enabled when nobody else has it.   *)
(***************************************************************************)
EXTENDS Integers, Sequences, FiniteSets

CONSTANTS
    Requests,     \* requests that reach the node, each retry being one more
    Workers,
    KeyOf,        \* [Requests -> keys], the Idempotency-Key
    BodyOf,       \* [Requests -> bodies]
    Appends,      \* events that a command appends
    Sweeps,       \* bound on the events appended by the sweeps of a worker
    Batch,        \* settings.outbox_batch_size
    MaxAttempts,  \* settings.outbox_max_attempts
    MaxDamages,   \* bound on the payloads found altered
    None          \* no event before the first

VARIABLES
    chain,      \* NodeChainState: next_sequence and last_event_hash
    events,     \* committed SignedEvents in the order of their commits
    outbox,     \* the OutboxMessage of each event
    receipts,   \* events with a ConsumerReceipt
    records,    \* completed IdempotencyRecords: the request that was executed, or None
    tx,         \* the transaction of each request and worker
    answers,    \* what the client of a request was told: whose result, or "REFUSED"
    damages
vars == <<chain, events, outbox, receipts, records, tx, answers, damages>>

Keys == {KeyOf[r] : r \in Requests}
Sessions == Requests \union Workers
Limit(s) == IF s \in Requests THEN Appends ELSE Sweeps
Idle == [open |-> FALSE, staged |-> <<>>, claimed |-> {}, made |-> 0]

-----------------------------------------------------------------------------
\* The locks of the chain, of a key and of outbox rows
ChainFree(s) == \A t \in Sessions \ {s} : tx[t].staged = <<>>
KeyFree(r) == \A q \in Requests \ {r} : KeyOf[q] = KeyOf[r] => ~tx[q].open
Claimed == UNION {tx[w].claimed : w \in Workers}

\* A transaction ends, and its locks with it
Ended(s) == [tx EXCEPT ![s] = [Idle EXCEPT !.made = tx[s].made]]

\* The head of the chain as the transaction sees it, with its own events
HeadAfter(head, staged) ==
    IF staged = <<>> THEN head
    ELSE [next |-> staged[Len(staged)].sequence + 1, last |-> staged[Len(staged)].hash]
ChainHead(s) == HeadAfter(chain, tx[s].staged)

\* build_envelope; the hash covers the envelope, so that no two events have the same
Event(s) == [sequence |-> ChainHead(s).next, previous |-> ChainHead(s).last, hash |-> <<s, tx[s].made + 1>>, by |-> s]

\* IdempotencyRepository.begin finds the key with another request under it
\* Mutant: the request hash is not compared
ReusedNever(r) == FALSE
Reused(r) == BodyOf[records[KeyOf[r]]] # BodyOf[r]

Begin(r) ==
    /\ tx[r] = Idle /\ answers[r] = "NONE" /\ KeyFree(r)
    /\ IF records[KeyOf[r]] = None
       THEN tx' = [tx EXCEPT ![r].open = TRUE] /\ UNCHANGED answers
       ELSE /\ answers' = [answers EXCEPT ![r] = IF Reused(r) THEN "REFUSED" ELSE records[KeyOf[r]]]
            /\ UNCHANGED tx
    /\ UNCHANGED <<chain, events, outbox, receipts, records, damages>>

\* SignedJournalService.append
AppendEvent(s) ==
    /\ tx[s].open /\ tx[s].made < Limit(s) /\ ChainFree(s)
    /\ tx[s].claimed = {}
    /\ tx' = [tx EXCEPT ![s] = [tx[s] EXCEPT !.staged = Append(tx[s].staged, Event(s)), !.made = tx[s].made + 1]]
    /\ UNCHANGED <<chain, events, outbox, receipts, records, answers, damages>>

Undelivered == [status |-> "PENDING", attempts |-> 0, intact |-> TRUE]
Rows(staged) == [i \in DOMAIN staged |-> Undelivered]

\* The commit of a command; the deferred trigger finds one signature and one outbox row of each
\* event.  The answer may be lost on its way.
Commit(r, heard) ==
    /\ tx[r].open /\ tx[r].made = Appends
    /\ events' = events \o tx[r].staged
    /\ outbox' = outbox \o Rows(tx[r].staged)
    /\ chain' = ChainHead(r)
    /\ records' = [records EXCEPT ![KeyOf[r]] = r]
    /\ tx' = Ended(r)
    /\ answers' = [answers EXCEPT ![r] = IF heard THEN r ELSE "LOST"]
    /\ UNCHANGED <<receipts, damages>>

\* A check fails, the process stops, or a recovery raises in the worker: nothing remains
Rollback(s) ==
    /\ tx[s].open
    /\ tx' = Ended(s)
    /\ answers' = IF s \in Requests THEN [answers EXCEPT ![s] = "FAILED"] ELSE answers
    /\ UNCHANGED <<chain, events, outbox, receipts, records, damages>>

-----------------------------------------------------------------------------
\* run_worker: sweeps, recovery and dispatch in one transaction
Poll(w) ==
    /\ ~tx[w].open
    /\ tx' = [tx EXCEPT ![w].open = TRUE]
    /\ UNCHANGED <<chain, events, outbox, receipts, records, answers, damages>>

\* PENDING rows nobody has locked; which of the retried ones are due is up to the clock
Ready == {i \in DOMAIN outbox : outbox[i].status = "PENDING"} \ Claimed

\* dispatch_outbox_batch, FOR UPDATE SKIP LOCKED
Claim(w, batch) ==
    /\ tx[w].open /\ tx[w].claimed = {}
    /\ batch # {} /\ Cardinality(batch) <= Batch
    /\ tx' = [tx EXCEPT ![w].claimed = batch]
    /\ UNCHANGED <<chain, events, outbox, receipts, records, answers, damages>>

\* _validate_message compares the payload with the event
Tried(row) ==
    [row EXCEPT !.attempts = @ + 1,
                !.status = IF row.intact THEN "PUBLISHED"
                           ELSE IF row.attempts + 1 >= MaxAttempts THEN "QUARANTINED" ELSE "PENDING"]

CommitPoll(w) ==
    /\ tx[w].open
    /\ events' = events \o tx[w].staged
    /\ outbox' = [i \in DOMAIN outbox |-> IF i \in tx[w].claimed THEN Tried(outbox[i]) ELSE outbox[i]]
                     \o Rows(tx[w].staged)
    /\ receipts' = receipts \union {i \in tx[w].claimed : outbox[i].intact}
    /\ chain' = ChainHead(w)
    /\ tx' = Ended(w)
    /\ UNCHANGED <<records, answers, damages>>

-----------------------------------------------------------------------------
\* A payload is altered in the database, outside of the program
Damage(i) ==
    /\ outbox[i].status = "PENDING" /\ outbox[i].intact /\ i \notin Claimed /\ damages < MaxDamages
    /\ outbox' = [outbox EXCEPT ![i].intact = FALSE]
    /\ damages' = damages + 1
    /\ UNCHANGED <<chain, events, receipts, records, tx, answers>>

\* It is restored by an operator, who sends a quarantined message again
Repair(i) ==
    /\ ~outbox[i].intact /\ i \notin Claimed
    /\ outbox' = [outbox EXCEPT ![i].intact = TRUE, ![i].status = "PENDING", ![i].attempts = 0]
    /\ UNCHANGED <<chain, events, receipts, records, tx, answers, damages>>

\* verify_journal reports no failure
Verified ==
    /\ \A i \in DOMAIN events :
        /\ events[i].sequence = i
        /\ events[i].previous = IF i = 1 THEN None ELSE events[i - 1].hash
    /\ chain.next = Len(events) + 1
    /\ chain.last = IF events = <<>> THEN None ELSE events[Len(events)].hash
    /\ Len(outbox) = Len(events)

-----------------------------------------------------------------------------
\* initialize_node_key leaves an empty chain
Init ==
    /\ chain = [next |-> 1, last |-> None]
    /\ events = <<>> /\ outbox = <<>> /\ receipts = {}
    /\ records = [k \in Keys |-> None]
    /\ tx = [s \in Sessions |-> Idle]
    /\ answers = [r \in Requests |-> "NONE"]
    /\ damages = 0

Next ==
    \/ \E r \in Requests : Begin(r)
    \/ \E s \in Sessions : AppendEvent(s) \/ Rollback(s)
    \/ \E r \in Requests, heard \in BOOLEAN : Commit(r, heard)
    \/ \E w \in Workers : Poll(w) \/ CommitPoll(w)
    \/ \E w \in Workers, batch \in SUBSET Ready : Claim(w, batch)
    \/ \E i \in DOMAIN outbox : Damage(i) \/ Repair(i)

Spec == Init /\ [][Next]_vars

-----------------------------------------------------------------------------
TypeOK ==
    /\ \A s \in Sessions :
        tx[s].open \in BOOLEAN /\ tx[s].made \in 0 .. Limit(s) /\ tx[s].claimed \subseteq DOMAIN outbox
    /\ \A i \in DOMAIN outbox :
        outbox[i].status \in {"PENDING", "PUBLISHED", "QUARANTINED"} /\ outbox[i].attempts \in 0 .. MaxAttempts
    /\ \A k \in Keys : records[k] \in Requests \union {None}
    /\ \A r \in Requests : answers[r] \in Requests \union {"NONE", "LOST", "FAILED", "REFUSED"}

\* Whatever runs side by side and is rolled back, the committed events are numbered without a
\* gap, each names the one before, the head is the last one, and every event has its outbox row.
ChainIntact == Verified

\* However often and however much at once a request is sent under its key, its command is
\* executed once, as a whole, and whoever is answered has the result of a request like his own.
EffectOnce ==
    /\ \A i, j \in DOMAIN events :
        events[i].by \in Requests /\ events[j].by \in Requests /\ KeyOf[events[i].by] = KeyOf[events[j].by]
            => events[i].by = events[j].by
    /\ \A r \in Requests : answers[r] \in Requests =>
        /\ KeyOf[answers[r]] = KeyOf[r] /\ BodyOf[answers[r]] = BodyOf[r]
        /\ \A n \in 1 .. Appends : \E i \in DOMAIN events : events[i].hash = <<answers[r], n>>

\* What is published was consumed and the reverse, and only what stays unreadable is set aside
\* (implemented_slice_41.md).
DeliveredOnce ==
    /\ receipts = {i \in DOMAIN outbox : outbox[i].status = "PUBLISHED"}
    /\ \A i \in DOMAIN outbox : outbox[i].status = "QUARANTINED" => ~outbox[i].intact

JournalKept == ChainIntact /\ EffectOnce /\ DeliveredOnce
=============================================================================

--------------------------- MODULE KnowledgeStream ---------------------------
(***************************************************************************)
(* knowledge/knowledge_stream.py and scripts/kb_worker.py: one consumer    *)
(* group of the knowledge stream and its workers.                          *)
(*                                                                         *)
(* An entry's id is its position on the stream.  A worker claims what      *)
(* other workers left pending, reads new entries, projects each one and    *)
(* acknowledges it, and then reports (ProjectionWatermarks).  Groups do    *)
(* not touch each other's state.                                           *)
(***************************************************************************)
EXTENDS Naturals, FiniteSets, FiniteSetsExt

CONSTANTS
    MaxEntries,   \* bound: entries published in a behaviour
    Poisoned,     \* entries whose artifact is gone or has another hash
    Garbled,      \* entries of a schema_version decode_event does not know
    Supersedes,   \* entry -> the entry whose version it replaces, 0 for none
    Tombstones,   \* entries whose operation is delete
    Facts,        \* entries whose source_type is fact
    Workers,      \* kb_worker processes of the group
    ClaimBatch,   \* CLAIM_BATCH
    MaxRetries,   \* MAX_RETRIES
    Lease,        \* LEASE_TIMEOUT_MS, in ticks
    MaxFaults     \* bound: failures in a behaviour

Entries == 1..MaxEntries

ASSUME StreamAssumption ==
    /\ MaxEntries \in Nat /\ MaxFaults \in Nat
    /\ ClaimBatch \in Nat \ {0} /\ MaxRetries \in Nat \ {0} /\ Lease \in Nat \ {0}
    /\ Poisoned \subseteq Entries /\ Garbled \subseteq Entries /\ Tombstones \subseteq Entries
    /\ Facts \subseteq Entries
    /\ Supersedes \in [Entries -> 0..MaxEntries]
    /\ \A e \in Entries : Supersedes[e] < e

VARIABLES
    head,         \* last id generated on the stream
    delivered,    \* last id handed to the group
    pending,      \* the group's pending entries
    times,        \* entry -> times_delivered
    idle,         \* entry -> ticks since it was last handed out
    acked,        \* entries acknowledged
    deadLetters,  \* entries on the dead-letter stream
    projection,   \* entry -> the lifecycle_state of its node
    proc,         \* worker -> where it is in its loop
    faults        \* failures so far

redis == <<head, delivered, pending, times, idle, acked, deadLetters>>
vars  == <<redis, projection, proc, faults>>

Points == {"poll", "read", "handle", "ack", "giveUp", "ackDead", "report", "error"}

\* batch: the entries still to be handled, in the order of their ids; claimed:
\* they were claimed, so new ones are read next; last: BatchOutcome's
\* last_acked_id.
Fresh == [at |-> "poll", batch |-> {}, claimed |-> FALSE, last |-> 0]

TypeOK ==
    /\ head \in 0..MaxEntries /\ delivered \in 0..head
    /\ pending \subseteq 1..delivered
    /\ times \in [Entries -> 0..MaxRetries]
    /\ idle \in [Entries -> 0..Lease]
    /\ acked \subseteq 1..delivered
    /\ deadLetters \subseteq 1..delivered
    /\ projection \in [Entries -> {"none", "stub", "current", "superseded", "tombstoned"}]
    /\ proc \in [Workers -> [at : Points, batch : SUBSET (1..delivered),
                             claimed : BOOLEAN, last : 0..delivered]]
    /\ \A p \in Workers : proc[p].at \in {"handle", "ack", "giveUp", "ackDead"} => proc[p].batch # {}
    /\ faults \in 0..MaxFaults

Init ==
    /\ head = 0 /\ delivered = 0
    /\ pending = {} /\ acked = {} /\ deadLetters = {}
    /\ times = [e \in Entries |-> 0]
    /\ idle = [e \in Entries |-> 0]
    /\ projection = [e \in Entries |-> "none"]
    /\ proc = [p \in Workers |-> Fresh]
    /\ faults = 0

Fault == faults < MaxFaults /\ faults' = faults + 1

-----------------------------------------------------------------------------
\* publish_event.  The source-type index it writes beside the stream serves
\* the actuation gate only, which nothing arms.
Publish ==
    /\ head < MaxEntries
    /\ head' = head + 1
    /\ UNCHANGED <<delivered, pending, times, idle, acked, deadLetters, projection, proc, faults>>

\* The idle time of pending entries grows, also while a worker has them in hand.
Tick ==
    /\ \E e \in pending : idle[e] < Lease
    /\ idle' = [e \in Entries |-> IF e \in pending /\ idle[e] < Lease THEN idle[e] + 1 ELSE idle[e]]
    /\ UNCHANGED <<head, delivered, pending, times, acked, deadLetters, projection, proc, faults>>

-----------------------------------------------------------------------------
(* process_batch.                                                          *)

Current(p) == Min(proc[p].batch)
At(p, point) == proc' = [proc EXCEPT ![p].at = point]

\* The ClaimBatch smallest ids of S.
FirstOf(S) == {e \in S : Cardinality({f \in S : f < e}) < ClaimBatch}

\* What handing entries out does; times_delivered matters up to MaxRetries.
HandOut(S) ==
    /\ times' = [e \in Entries |-> IF e \in S /\ times[e] < MaxRetries THEN times[e] + 1 ELSE times[e]]
    /\ idle' = [e \in Entries |-> IF e \in S THEN 0 ELSE idle[e]]

\* decode_event raises for the whole batch, which by then is pending.
Take(p, ids, claimed, otherwise) ==
    LET whole == ids \cap Garbled = {}
    IN  proc' = [proc EXCEPT ![p] =
            [at |-> IF ~whole THEN "error" ELSE IF ids = {} THEN otherwise ELSE "handle",
             batch |-> IF whole THEN ids ELSE {}, claimed |-> claimed, last |-> @.last]]

\* claim_pending: XAUTOCLAIM from the start of the pending list.
ClaimPending(p) ==
    LET ids == FirstOf({e \in pending : idle[e] >= Lease})
    IN  /\ proc[p].at = "poll"
        /\ HandOut(ids)
        /\ Take(p, ids, TRUE, "read")
        /\ UNCHANGED <<head, delivered, pending, acked, deadLetters, projection, faults>>

\* read_events: XREADGROUP with ">"; an empty answer ends the batch.
ReadEvents(p) ==
    LET ids == FirstOf((delivered + 1)..head)
    IN  /\ proc[p].at = "read"
        /\ delivered' = delivered + Cardinality(ids)
        /\ pending' = pending \cup ids
        /\ HandOut(ids)
        /\ Take(p, ids, FALSE, "report")
        /\ UNCHANGED <<head, acked, deadLetters, projection, faults>>

\* The loop goes on with the next entry, then to the new ones, then reports.
AfterEntry(record) ==
    LET rest == record.batch \ {Min(record.batch)}
    IN  [record EXCEPT !.batch = rest,
                       !.at = IF rest # {} THEN "handle"
                              ELSE IF record.claimed THEN "read" ELSE "report"]

-----------------------------------------------------------------------------
(* process_entry.                                                          *)

\* The graph handler: the node of the entry, and its predecessor's, which the
\* MERGE creates as a superseded stub when it is not there yet.
Projected(e) ==
    [n \in Entries |->
        IF n = e THEN IF e \in Tombstones THEN "tombstoned" ELSE "current"
        ELSE IF n = Supersedes[e]
             THEN IF projection[n] \in {"none", "stub"} THEN "stub" ELSE "superseded"
        ELSE projection[n]]

\* A fact is resolved by its address: the handler returns without projecting.
HandlerSucceeds(p) ==
    /\ proc[p].at = "handle" /\ Current(p) \notin Poisoned
    /\ projection' = IF Current(p) \in Facts THEN projection ELSE Projected(Current(p))
    /\ At(p, "ack")
    /\ UNCHANGED <<redis, faults>>

\* delivery_count looks at the first ClaimBatch pending entries only.
DeliveryCount(e) == IF e \in FirstOf(pending) THEN times[e] ELSE 0

\* Mutant: a failed entry is retried for ever.
IsNeverSpent(e) == FALSE

IsSpent(e) == DeliveryCount(e) >= MaxRetries

\* The artifact cannot be read or verified, or the store fails.
HandlerFails(p) ==
    /\ proc[p].at = "handle"
    /\ \/ Current(p) \in Poisoned /\ UNCHANGED faults
       \/ Current(p) \notin Poisoned /\ Fault
    /\ \/ IsSpent(Current(p)) /\ At(p, "giveUp")
       \/ ~IsSpent(Current(p)) /\ proc' = [proc EXCEPT ![p] = AfterEntry(@)]
    /\ UNCHANGED <<redis, projection>>

\* Mutant: the entry is acknowledged without a dead letter.
GiveUpSilently(p) ==
    /\ proc[p].at = "giveUp"
    /\ At(p, "ackDead")
    /\ UNCHANGED <<redis, projection, faults>>

DeadLetter(p) ==
    /\ proc[p].at = "giveUp"
    /\ deadLetters' = deadLetters \cup {Current(p)}
    /\ At(p, "ackDead")
    /\ UNCHANGED <<head, delivered, pending, times, idle, acked, projection, faults>>

Acknowledge(p) ==
    /\ proc[p].at \in {"ack", "ackDead"}
    /\ pending' = pending \ {Current(p)}
    /\ acked' = acked \cup {Current(p)}
    /\ proc' = [proc EXCEPT ![p] = [AfterEntry(@) EXCEPT !.last = Current(p)]]
    /\ UNCHANGED <<head, delivered, times, idle, deadLetters, projection, faults>>

\* An exception leaves process_batch: Redis is away, or answers no more.
BatchRaises(p) ==
    /\ proc[p].at \in {"poll", "read", "handle", "ack", "giveUp", "ackDead"}
    /\ Fault
    /\ proc' = [proc EXCEPT ![p] = [Fresh EXCEPT !.at = "error"]]
    /\ UNCHANGED <<redis, projection>>

\* The worker is killed; its supervisor starts another.
Crash(p) ==
    /\ proc[p] # Fresh
    /\ Fault
    /\ proc' = [proc EXCEPT ![p] = Fresh]
    /\ UNCHANGED <<redis, projection>>

-----------------------------------------------------------------------------
\* refresh_watermark ends: the next poll begins with a new BatchOutcome.
PollAgain(p) ==
    /\ proc[p].at \in {"report", "error"}
    /\ proc' = [proc EXCEPT ![p] = Fresh]
    /\ UNCHANGED <<redis, projection, faults>>

-----------------------------------------------------------------------------
Work(p) ==
    \/ ClaimPending(p) \/ ReadEvents(p)
    \/ HandlerSucceeds(p) \/ HandlerFails(p) \/ DeadLetter(p) \/ Acknowledge(p)
    \/ BatchRaises(p)

Next ==
    \/ Publish \/ Tick
    \/ \E p \in Workers : Work(p) \/ PollAgain(p) \/ Crash(p)

\* _poll_loop never ends by itself, and time passes.
Fairness ==
    /\ \A p \in Workers : WF_vars(Work(p) \/ PollAgain(p))
    /\ WF_vars(Tick)

Spec == Init /\ [][Next]_vars /\ Fairness

-----------------------------------------------------------------------------
\* The destination has confirmed the entry: it has its node, or the handler
\* had its artifact and found that facts get none.
IsConfirmed(e) ==
    IF e \in Facts THEN e \notin Poisoned ELSE projection[e] \notin {"none", "stub"}

\* process_entry, "XACK only after the destination confirms": an entry leaves
\* the pending list only when it is in the projection, is a fact that verified,
\* or is on the dead-letter stream, whichever worker handled it and whoever
\* died in between.
AckedIsAccountedFor ==
    \A e \in acked : IsConfirmed(e) \/ e \in deadLetters

\* "retried up to MAX_RETRIES, then dead-lettered": a published entry is
\* eventually acknowledged, as confirmed or as a dead letter, although
\* delivery_count sees no further than a hundred pending entries.  Undecodable
\* entries are the exception: one of them is never acknowledged, and while it is
\* pending every batch it is claimed with is dropped, its neighbours included.
EveryEntrySettles ==
    \A e \in Entries : (head >= e) ~> (e \in acked \/ Garbled \cap pending # {})
=============================================================================

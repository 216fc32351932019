------------------------------- MODULE Outbox -------------------------------
(***************************************************************************)
(* control/outbox.py: the transactional outbox of the control database.    *)
(*                                                                         *)
(* A run's terminal write queues the knowledge events it owes.  Drainers   *)
(* (every finished run, and the operator's drain command) take a snapshot  *)
(* of the due rows and deliver them one by one: artifact, publish,         *)
(* bookkeeping, mark delivered.  Nothing locks a row while it is being     *)
(* delivered, so two passes may work on one row.                           *)
(***************************************************************************)
EXTENDS Naturals, Sequences, FiniteSets

CONSTANTS
    Runs,           \* runs whose terminal write is modelled
    Owes,           \* run -> the events its terminal write queues, in order
    Unreadable,     \* events whose payload _parse refuses
    Unbuildable,    \* events whose record _rebuild cannot make
    Checkpointed,   \* events whose payload asks for a consumer checkpoint
    Drainers,       \* processes that drain
    MaxAttempts,    \* BackoffPolicy.max_attempts
    BaseDelay, Factor, MaxDelay,   \* BackoffPolicy's delays, in ticks
    MaxFaults       \* bound: failures of the stream, the disk, the database
                    \* or a process in a behaviour

OwedBy(r) == {Owes[r][i] : i \in DOMAIN Owes[r]}
Events == UNION {OwedBy(r) : r \in Runs}

\* Every queued row gets an event id of its own.
ASSUME OutboxAssumption ==
    /\ Owes \in [Runs -> Seq(Events) \ {<<>>}]
    /\ \A r, q \in Runs : r # q => OwedBy(r) \cap OwedBy(q) = {}
    /\ \A r \in Runs : \A i, j \in DOMAIN Owes[r] : i # j => Owes[r][i] # Owes[r][j]
    /\ MaxAttempts \in Nat \ {0} /\ Factor \in Nat \ {0}
    /\ BaseDelay \in Nat /\ MaxDelay \in Nat /\ MaxFaults \in Nat
    /\ Checkpointed \subseteq Events

VARIABLES
    table,        \* the rows of the outbox table, oldest first
    status,       \* event -> the status of its row
    attempts,     \* event -> the row's attempts column
    wait,         \* event -> ticks until the row's next_retry_at
    stream,       \* events on the knowledge stream
    artifacts,    \* events whose artifact is on disk, whole
    torn,         \* events whose artifact a pass left cut off (history)
    checkpoints,  \* events in the consumer checkpoint hash
    pass,         \* drainer -> its drain() call
    faults        \* failures so far

db    == <<table, status, attempts, wait>>
world == <<stream, artifacts, torn, checkpoints>>
vars  == <<db, world, pass, faults>>

Statuses == {"none", "pending", "delivered", "dead"}
Points == {"idle", "row", "write", "publish", "bookkeep", "mark", "failed", "raised"}

\* A row of a pass is the snapshot the query returned: the event and the
\* attempts the row had then.
Snapshot == [event : Events, attempts : Nat]
Idle == [at |-> "idle", rows |-> <<>>]

TypeOK ==
    /\ table \in Seq(Events)
    /\ status \in [Events -> Statuses]
    /\ attempts \in [Events -> Nat]
    /\ wait \in [Events -> 0..MaxDelay]
    /\ stream \subseteq Events
    /\ artifacts \subseteq Events /\ torn \subseteq Events
    /\ checkpoints \subseteq Checkpointed
    /\ \A d \in Drainers :
           /\ pass[d].at \in Points
           /\ pass[d].rows \in Seq(Snapshot)
           /\ (pass[d].at \in {"idle", "raised"}) <=> (pass[d].rows = <<>>)
    /\ faults \in 0..MaxFaults

\* The knowledge stream may already hold events of the direct publishing path
\* that preceded the outbox.
Init ==
    /\ table = <<>>
    /\ status = [e \in Events |-> "none"]
    /\ attempts = [e \in Events |-> 0]
    /\ wait = [e \in Events |-> 0]
    /\ checkpoints \in SUBSET Checkpointed
    /\ stream = checkpoints
    /\ artifacts = checkpoints
    /\ torn = {}
    /\ pass = [d \in Drainers |-> Idle]
    /\ faults = 0

Fault == faults < MaxFaults /\ faults' = faults + 1
NoFault == UNCHANGED faults

-----------------------------------------------------------------------------
(* The terminal write and the clock.                                       *)

\* record_terminal_run: the transition and every row in one transaction.
RecordTerminalRun(r) ==
    /\ \A e \in OwedBy(r) : status[e] = "none"
    /\ table' = table \o Owes[r]
    /\ status' = [e \in Events |-> IF e \in OwedBy(r) THEN "pending" ELSE status[e]]
    /\ UNCHANGED <<attempts, wait, world, pass, faults>>

Tick ==
    /\ \E e \in Events : wait[e] > 0
    /\ wait' = [e \in Events |-> IF wait[e] > 0 THEN wait[e] - 1 ELSE 0]
    /\ UNCHANGED <<table, status, attempts, world, pass, faults>>

-----------------------------------------------------------------------------
(* ControlDB._update_outbox.                                               *)

\* Mutant: a delivered row may be marked again.
MarkedAnyRow(e, mark, delay) ==
    /\ status' = [status EXCEPT ![e] = mark]
    /\ attempts' = [attempts EXCEPT ![e] = @ + 1]
    /\ wait' = [wait EXCEPT ![e] = delay]
    /\ UNCHANGED table

\* The mark is refused when the row is delivered already.
Marked(e, mark, delay) ==
    /\ status[e] # "delivered"
    /\ status' = [status EXCEPT ![e] = mark]
    /\ attempts' = [attempts EXCEPT ![e] = @ + 1]
    /\ wait' = [wait EXCEPT ![e] = delay]
    /\ UNCHANGED table

MarkRefused(e) == status[e] = "delivered" /\ UNCHANGED db

-----------------------------------------------------------------------------
(* drain.                                                                  *)

Current(d) == Head(pass[d].rows)
At(d, p) == pass' = [pass EXCEPT ![d].at = p]

NextRow(d) ==
    pass' = [pass EXCEPT ![d] =
                IF Tail(@.rows) = <<>> THEN Idle
                ELSE [at |-> "row", rows |-> Tail(@.rows)]]

\* An exception leaves drain(): the rest of the pass is not visited.
Raises(d) == pass' = [pass EXCEPT ![d] = [at |-> "raised", rows |-> <<>>]]

\* Mutant: a row that was charged an attempt is not picked up again.
DueAtFirst == {i \in DOMAIN table : status[table[i]] = "pending" /\ attempts[table[i]] = 0}

\* pending_outbox_events: the places of the rows that are due.
Due == {i \in DOMAIN table : status[table[i]] = "pending" /\ wait[table[i]] = 0}

\* A connection failure ends the pass here and charges no row.  The limit
\* takes the oldest of the rows that are due.
DrainBegin(d) ==
    /\ pass[d].at \in {"idle", "raised"}
    /\ \E limit \in 1..Cardinality(Due) : \E place \in [1..limit -> Due] :
           /\ \A i, j \in 1..limit : i < j => place[i] < place[j]
           /\ \A k \in Due : k < place[limit] => \E i \in 1..limit : place[i] = k
           /\ pass' = [pass EXCEPT ![d] =
                  [at |-> "row",
                   rows |-> [i \in 1..limit |->
                               [event |-> table[place[i]], attempts |-> attempts[table[place[i]]]]]]]
    /\ UNCHANGED <<db, world, faults>>

\* MalformedPayloadError: no attempt will ever read the row differently.
Malformed(e) ==
    e \in Unreadable \/ (e \in Unbuildable /\ e \notin checkpoints)

\* _attempt, before the artifact is written.
DeadOnArrival(d) ==
    /\ pass[d].at = "row" /\ Malformed(Current(d).event)
    /\ \/ Marked(Current(d).event, "dead", wait[Current(d).event]) /\ NextRow(d)
       \/ MarkRefused(Current(d).event) /\ Raises(d)
    /\ UNCHANGED <<world, faults>>

SkipCheckpointed(d) ==
    /\ pass[d].at = "row" /\ ~Malformed(Current(d).event)
    /\ Current(d).event \in checkpoints
    /\ At(d, "mark")
    /\ UNCHANGED <<db, world, faults>>

\* Mutant: the artifact is left to the bookkeeping.
SkipArtifact(d) ==
    /\ pass[d].at = "row" /\ ~Malformed(Current(d).event)
    /\ Current(d).event \notin checkpoints
    /\ At(d, "publish")
    /\ UNCHANGED <<db, world, faults>>

(* _write_artifact: write_bytes opens the file, which empties the one an   *)
(* earlier delivery left, ...                                              *)
TruncateArtifact(d) ==
    /\ pass[d].at = "row" /\ ~Malformed(Current(d).event)
    /\ Current(d).event \notin checkpoints
    /\ artifacts' = artifacts \ {Current(d).event}
    /\ At(d, "write")
    /\ UNCHANGED <<db, stream, torn, checkpoints, faults>>

\* ... and then writes the same bytes again.
WriteArtifact(d) ==
    /\ pass[d].at = "write"
    /\ artifacts' = artifacts \cup {Current(d).event}
    /\ torn' = torn \ {Current(d).event}
    /\ At(d, "publish")
    /\ UNCHANGED <<db, stream, checkpoints, faults>>

\* A pass stopped between the two leaves the file cut off, unless another
\* pass has written it since.
CutOff(d) ==
    torn' = IF pass[d].at = "write" THEN torn \cup ({Current(d).event} \ artifacts) ELSE torn

\* Mutant: a failed publish is swallowed like the rest of the bookkeeping.
PublishBestEffort(d) ==
    /\ pass[d].at = "publish"
    /\ \/ NoFault /\ stream' = stream \cup {Current(d).event}
       \/ Fault /\ UNCHANGED stream
    /\ At(d, "bookkeep")
    /\ UNCHANGED <<db, artifacts, torn, checkpoints>>

\* The reply of the stream may be lost: the event is there, publish raises.
Publish(d) ==
    /\ pass[d].at = "publish"
    /\ stream' = stream \cup {Current(d).event}
    /\ \/ NoFault /\ At(d, "bookkeep")
       \/ Fault /\ At(d, "failed")
    /\ UNCHANGED <<db, artifacts, torn, checkpoints>>

\* The checkpoint write and the registry append; a failure is swallowed.
Bookkeep(d) ==
    /\ pass[d].at = "bookkeep"
    /\ \/ NoFault /\ checkpoints' = checkpoints \cup ({Current(d).event} \cap Checkpointed)
       \/ Fault /\ UNCHANGED checkpoints
    /\ At(d, "mark")
    /\ UNCHANGED <<db, stream, artifacts, torn>>

MarkDelivered(d) ==
    /\ pass[d].at = "mark"
    /\ \/ Marked(Current(d).event, "delivered", wait[Current(d).event]) /\ NextRow(d)
       \/ MarkRefused(Current(d).event) /\ At(d, "failed")
    /\ UNCHANGED <<world, faults>>

\* Reading the checkpoint, writing the artifact, publishing or marking fails.
AttemptFails(d) ==
    /\ pass[d].at \in {"row", "write", "publish", "mark"}
    /\ pass[d].at = "row" => ~Malformed(Current(d).event)
    /\ Fault
    /\ CutOff(d)
    /\ At(d, "failed")
    /\ UNCHANGED <<db, stream, artifacts, checkpoints>>

-----------------------------------------------------------------------------
(* _record_failure.                                                        *)

\* The delays grow by the factor, the first failure waits the base delay.
DelayFor(n) ==
    LET delay[k \in 1..n] == IF k = 1 THEN BaseDelay ELSE Factor * delay[k - 1]
    IN  IF delay[n] < MaxDelay THEN delay[n] ELSE MaxDelay

\* Mutant: a row whose next failure would be its last is given up.
IsExhaustedEarly(n) == n + 1 >= MaxAttempts

IsExhausted(n) == n >= MaxAttempts

\* The attempts are those of the snapshot, the stored counter is bumped.
RecordFailure(d) ==
    LET e == Current(d).event
        n == Current(d).attempts + 1
    IN  /\ pass[d].at = "failed"
        /\ \/ IsExhausted(n) /\ Marked(e, "dead", wait[e]) /\ NextRow(d)
           \/ ~IsExhausted(n) /\ Marked(e, "pending", DelayFor(n)) /\ NextRow(d)
           \/ MarkRefused(e) /\ Raises(d)
        /\ UNCHANGED <<world, faults>>

\* Recording an outcome fails too: there is no handler left.
RecordFails(d) ==
    /\ \/ pass[d].at = "failed"
       \/ pass[d].at = "row" /\ Malformed(Current(d).event)
    /\ Fault
    /\ Raises(d)
    /\ UNCHANGED <<db, world>>

\* The process of the pass is killed.
Crash(d) ==
    /\ pass[d].rows # <<>>
    /\ Fault
    /\ CutOff(d)
    /\ pass' = [pass EXCEPT ![d] = Idle]
    /\ UNCHANGED <<db, stream, artifacts, checkpoints>>

-----------------------------------------------------------------------------
\* What a pass does by itself once begun.
Deliver(d) ==
    \/ DeadOnArrival(d) \/ SkipCheckpointed(d) \/ TruncateArtifact(d) \/ WriteArtifact(d)
    \/ Publish(d) \/ Bookkeep(d) \/ MarkDelivered(d)
    \/ AttemptFails(d) \/ RecordFailure(d) \/ RecordFails(d)

Next ==
    \/ \E r \in Runs : RecordTerminalRun(r)
    \/ \E d \in Drainers : DrainBegin(d) \/ Deliver(d) \/ Crash(d)
    \/ Tick

\* A begun pass goes on until it returns, raises or is killed, and time passes.
\* Nothing in the code starts the next drain: no fairness of DrainBegin.
Fairness ==
    /\ \A d \in Drainers : WF_vars(Deliver(d))
    /\ WF_vars(Tick)

Spec == Init /\ [][Next]_vars /\ Fairness

-----------------------------------------------------------------------------
\* _attempt: a row is marked delivered only when the stream has its event,
\* whoever published it, whatever crashed in between.
DeliveredIsPublished ==
    \A e \in Events : status[e] = "delivered" => e \in stream

\* A pass has emptied the artifact and is about to write it.
IsBeingWritten(e) == \E d \in Drainers : pass[d].at = "write" /\ Current(d).event = e

\* _attempt's order, "artifact -> publish": no event is on the stream whose
\* artifact was never whole.  A pointer dangles only while a redelivery rewrites
\* the file, or because one was killed or failed in between: overlapping passes
\* that run to their end, lost replies and other failures never take it away.
ArtifactFirst ==
    \A e \in stream : e \in artifacts \/ IsBeingWritten(e) \/ e \in torn

\* drain, "A row's retry budget is spent only on failures the row itself
\* provoked": apart from the one that delivered it, each attempt charged to a
\* row was a failure; neither an unreachable stream nor a pass that lost the
\* race for the row costs it anything.
ChargedOnlyForFailures ==
    LET readable == Events \ (Unreadable \cup Unbuildable)
        charged == UNION {{e} \X (1..attempts[e]) : e \in readable}
        delivered == {e \in readable : status[e] = "delivered"}
    IN  Cardinality(charged) <= faults + Cardinality(delivered)

\* What a terminal write may count on, whatever passes overlap: the rows of the
\* table implement the promise, in which every decision is one step.
Delivery == INSTANCE EventDelivery WITH
    Batches <- {OwedBy(r) : r \in Runs}, Defective <- Unreadable \cup Unbuildable,
    state <- status, charged <- attempts, published <- stream
ImplementsEventDelivery == Delivery!Spec

\* The environment's part: while rows are due, a run ends or the operator
\* drains sooner or later.
DrainsGoOn == WF_vars(\E d \in Drainers : DrainBegin(d))

\* A pass delivers a row, gives it up or puts it off: as long as drains are
\* started, every queued row is eventually delivered or visibly dead.
EveryRowSettles ==
    DrainsGoOn =>
        \A e \in Events : status[e] = "pending" ~> status[e] \in {"delivered", "dead"}
=============================================================================

------------------------ MODULE ProjectionWatermarks ------------------------
(***************************************************************************)
(* control/projection_watermarks.py and ControlDB.record_watermark: the    *)
(* row that says how far a consumer group is, composed with the group.     *)
(*                                                                         *)
(* Workers report after every batch and pollers whenever they like.  A     *)
(* report reads the position of the group in three calls while the group   *)
(* goes on working, and then replaces the row.  The wording of last_error  *)
(* is left out: the next report replaces it.                               *)
(***************************************************************************)
EXTENDS KnowledgeStream

CONSTANT Pollers   \* processes that call refresh_all

ASSUME PollersAssumption == Workers \cap Pollers = {}

VARIABLES
    report,      \* process -> its report in progress
    watermark    \* the group's row of projection_watermarks

allVars == <<vars, report, watermark>>

Reporters == Workers \cup Pollers

\* The NULL that record_error stores.  The stream is never trimmed here, so
\* Redis itself always knows the lag.
NoLag == 2 * MaxEntries + 1

\* seen...: the fields of ConsumerPosition that are used later.
Silent == [at |-> "stream", seenHead |-> 0, seenLast |-> 0, seenLag |-> 0, seenPending |-> 0]

WatermarkTypeOK ==
    /\ TypeOK
    /\ report \in [Reporters -> [at : {"stream", "groups", "pending", "write", "error"},
                                 seenHead : 0..head, seenLast : 0..delivered,
                                 seenLag : 0..MaxEntries, seenPending : 0..MaxEntries]]
    /\ watermark \in [last : 0..delivered, head : 0..head, lag : 0..NoLag]

WatermarkInit ==
    /\ Init
    /\ report = [p \in Reporters |-> Silent]
    /\ watermark = [last |-> 0, head |-> 0, lag |-> NoLag]

-----------------------------------------------------------------------------
(* read_position.                                                          *)

\* A worker reports at the end of its batch.
MayReport(p) == p \in Pollers \/ (p \in Workers /\ proc[p].at = "report")

ReadStreamInfo(p) ==
    /\ MayReport(p) /\ report[p].at = "stream"
    /\ report' = [report EXCEPT ![p].at = "groups", ![p].seenHead = head]
    /\ UNCHANGED <<vars, watermark>>

ReadGroupInfo(p) ==
    /\ report[p].at = "groups"
    /\ report' = [report EXCEPT ![p].at = "pending",
                                ![p].seenLast = delivered, ![p].seenLag = head - delivered]
    /\ UNCHANGED <<vars, watermark>>

\* Mutant: an entry that was just handed out does not count as pending.
ReadPendingIdle(p) ==
    /\ report[p].at = "pending"
    /\ report' = [report EXCEPT ![p].at = "write",
                     ![p].seenPending = Cardinality({e \in pending : idle[e] >= Lease})]
    /\ UNCHANGED <<vars, watermark>>

ReadPending(p) ==
    /\ report[p].at = "pending"
    /\ report' = [report EXCEPT ![p].at = "write", ![p].seenPending = Cardinality(pending)]
    /\ UNCHANGED <<vars, watermark>>

\* A Redis call of read_position raises.
PositionRaises(p) ==
    /\ MayReport(p) /\ report[p].at \in {"stream", "groups", "pending"}
    /\ Fault
    /\ report' = [report EXCEPT ![p].at = "error"]
    /\ UNCHANGED <<redis, projection, proc, watermark>>

-----------------------------------------------------------------------------
(* record_position, record_error.                                          *)

\* Mutant: the delivered frontier is taken for the confirmed one.
ConfirmedIsDelivered(last, seen) == IF last # 0 THEN last ELSE seen.seenLast

\* confirmed_event_id: the worker's own acknowledgement, the delivered frontier
\* when nothing is pending, or the frontier on record.
ConfirmedEventId(last, seen) ==
    IF last # 0 THEN last
    ELSE IF seen.seenPending = 0 /\ seen.seenLast # 0 THEN seen.seenLast
    ELSE watermark.last

\* The acknowledgement a report carries; a poller has none.
LastAcked(p) == IF p \in Workers THEN proc[p].last ELSE 0

\* A worker polls again once its report is over, however it ended.
Resume(p) ==
    /\ report' = [report EXCEPT ![p] = Silent]
    /\ IF p \in Workers THEN PollAgain(p) ELSE UNCHANGED vars

\* unconfirmed_events is the lag plus the pending entries.
RecordPosition(p) ==
    /\ report[p].at = "write"
    /\ watermark' = [last |-> ConfirmedEventId(LastAcked(p), report[p]),
                     head |-> report[p].seenHead,
                     lag |-> report[p].seenLag + report[p].seenPending]
    /\ Resume(p)

\* Also what a worker does when an exception left its batch.
RecordError(p) ==
    /\ report[p].at = "error" \/ (p \in Workers /\ proc[p].at = "error")
    /\ watermark' = [watermark EXCEPT !.lag = NoLag]
    /\ Resume(p)

\* The control database refuses: logged, and the loop goes on.
RecordFails(p) ==
    /\ report[p].at \in {"write", "error"} \/ (p \in Workers /\ proc[p].at = "error")
    /\ Fault
    /\ report' = [report EXCEPT ![p] = Silent]
    /\ proc' = [q \in Workers |-> IF q = p THEN Fresh ELSE proc[q]]
    /\ UNCHANGED <<redis, projection, watermark>>

CrashReporting(p) ==
    /\ Crash(p)
    /\ report' = [report EXCEPT ![p] = Silent]
    /\ UNCHANGED watermark

-----------------------------------------------------------------------------
Report(p) ==
    \/ ReadStreamInfo(p) \/ ReadGroupInfo(p) \/ ReadPending(p) \/ PositionRaises(p)
    \/ RecordPosition(p) \/ RecordError(p) \/ RecordFails(p)

WatermarkNext ==
    \/ (Publish \/ Tick \/ \E p \in Workers : Work(p)) /\ UNCHANGED <<report, watermark>>
    \/ \E p \in Workers : CrashReporting(p)
    \/ \E p \in Reporters : Report(p)

WatermarkSpec == WatermarkInit /\ [][WatermarkNext]_allVars

-----------------------------------------------------------------------------
\* record_watermark, "the single most dangerous wrong answer this table can
\* give": a recorded lag of zero means that every entry up to the recorded head
\* is acknowledged, although the row is put together from three reads of a
\* group that goes on working.
ZeroLagIsConfirmed ==
    watermark.lag = 0 => \A e \in 1..watermark.head : e \in acked

\* "acked, not merely delivered": the recorded last_event_id was acknowledged,
\* whoever reported it and whatever was read before.
FrontierIsAcked == watermark.last # 0 => watermark.last \in acked
=============================================================================

---------------------------- MODULE OutboxProofs ----------------------------
(***************************************************************************)
(* Theorems about Outbox, for any number of drains, runs and events, any   *)
(* backoff policy and any number of failures.                              *)
(***************************************************************************)
EXTENDS Outbox, FiniteSetTheorems, WellFoundedInduction, TLAPS

\* The statuses, and a pass as a record; what a snapshot holds does not matter
\* to the order of the calls.
PassShape == pass = [d \in Drainers |-> [at |-> pass[d].at, rows |-> pass[d].rows]]
Shapes == status \in [Events -> Statuses] /\ PassShape

\* What a pass has done to its current row by the time it reaches a point.
StepsInOrder ==
    \A d \in Drainers :
        pass[d].at \in {"bookkeep", "mark"} => Current(d).event \in stream

\* The consumer checkpoint is written behind the publish.
CheckpointsLast == checkpoints \subseteq stream

Inv == Shapes /\ StepsInOrder /\ CheckpointsLast /\ DeliveredIsPublished

-----------------------------------------------------------------------------
LEMMA InitInv == Init => Inv
BY DEF Init, Inv, Shapes, StepsInOrder, CheckpointsLast, DeliveredIsPublished, Idle, Statuses,
       PassShape

\* A pass that goes to its next row, or ends, owes nothing.
LEMMA PassMovesOn ==
    ASSUME Inv, NEW d \in Drainers, NEW at \in {"idle", "raised", "row", "failed"}, NEW rows,
           pass' = [pass EXCEPT ![d] = [at |-> at, rows |-> rows]], UNCHANGED stream
    PROVE  PassShape' /\ StepsInOrder'
BY DEF Inv, Shapes, PassShape, StepsInOrder, Current

LEMMA AtMoves ==
    ASSUME PassShape, NEW d \in Drainers, NEW point, At(d, point)
    PROVE  pass' = [pass EXCEPT ![d] = [at |-> point, rows |-> pass[d].rows]]
<1> DEFINE a == pass[d].at
           r == pass[d].rows
<1>1. pass[d] = [at |-> a, rows |-> r]
  BY DEF PassShape
<1>2. pass' = [pass EXCEPT ![d] = [pass[d] EXCEPT !.at = point]]
  BY DEF At
<1> HIDE DEF a, r
<1>3. [pass[d] EXCEPT !.at = point] = [at |-> point, rows |-> r]
  BY <1>1
<1> QED BY <1>2, <1>3 DEF r

LEMMA RowFails ==
    ASSUME Inv, NEW d \in Drainers, At(d, "failed"), UNCHANGED stream
    PROVE  PassShape' /\ StepsInOrder'
<1>1. pass' = [pass EXCEPT ![d] = [at |-> "failed", rows |-> pass[d].rows]]
  BY AtMoves DEF Inv, Shapes
<1> QED BY <1>1, PassMovesOn

LEMMA RowEnds ==
    ASSUME Inv, NEW d \in Drainers, NextRow(d) \/ Raises(d), UNCHANGED stream
    PROVE  PassShape' /\ StepsInOrder'
<1>1. CASE Raises(d)
  <2>1. pass' = [pass EXCEPT ![d] = [at |-> "raised", rows |-> <<>>]]
    BY <1>1 DEF Raises
  <2> QED BY <2>1, PassMovesOn
<1>2. CASE NextRow(d) /\ Tail(pass[d].rows) = <<>>
  <2>1. pass' = [pass EXCEPT ![d] = [at |-> "idle", rows |-> <<>>]]
    BY <1>2 DEF NextRow, Idle
  <2> QED BY <2>1, PassMovesOn
<1>3. CASE NextRow(d) /\ Tail(pass[d].rows) # <<>>
  <2>1. pass' = [pass EXCEPT ![d] = [at |-> "row", rows |-> Tail(pass[d].rows)]]
    BY <1>3 DEF NextRow
  <2> QED BY <2>1, PassMovesOn
<1> QED BY <1>1, <1>2, <1>3

\* A mark of the current row.
LEMMA MarkKeepsRows ==
    ASSUME Inv, NEW e, NEW mark \in Statuses, NEW delay,
           Marked(e, mark, delay) \/ MarkRefused(e), mark = "delivered" => e \in stream,
           UNCHANGED world
    PROVE  status' \in [Events -> Statuses] /\ DeliveredIsPublished'
BY DEF Inv, Shapes, Marked, MarkRefused, DeliveredIsPublished, db, world

LEMMA DrainKeepsInv ==
    ASSUME Inv, NEW d \in Drainers, DrainBegin(d) \/ Deliver(d) \/ Crash(d)
    PROVE  Inv'
<1> USE DEF Inv
<1>1. CASE DrainBegin(d) \/ Crash(d) \/ AttemptFails(d) \/ RecordFails(d)
  <2>1. UNCHANGED <<db, stream, checkpoints>>
    BY <1>1 DEF DrainBegin, Crash, AttemptFails, RecordFails, world
  <2>2. stream' = stream
    BY <2>1
  <2>3. PassShape' /\ StepsInOrder'
    <3>1. CASE DrainBegin(d)
      <4>1. PICK rows : pass' = [pass EXCEPT ![d] = [at |-> "row", rows |-> rows]]
        BY <3>1 DEF DrainBegin
      <4> QED BY <2>2, <4>1, PassMovesOn
    <3>2. CASE Crash(d)
      <4>1. pass' = [pass EXCEPT ![d] = [at |-> "idle", rows |-> <<>>]]
        BY <3>2 DEF Crash, Idle
      <4> QED BY <2>2, <4>1, PassMovesOn
    <3>3. CASE AttemptFails(d)
      BY <2>2, <3>3, RowFails DEF AttemptFails
    <3>4. CASE RecordFails(d)
      BY <2>2, <3>4, RowEnds DEF RecordFails
    <3> QED BY <1>1, <3>1, <3>2, <3>3, <3>4
  <2> QED BY <2>1, <2>3 DEF Shapes, CheckpointsLast, DeliveredIsPublished, db
<1>2. CASE DeadOnArrival(d) \/ MarkDelivered(d) \/ RecordFailure(d)
  <2>1. UNCHANGED world
    BY <1>2 DEF DeadOnArrival, MarkDelivered, RecordFailure
  <2>3. PassShape' /\ StepsInOrder'
    <3>1. UNCHANGED stream
      BY <2>1 DEF world
    <3> QED BY <1>2, <3>1, RowEnds, RowFails DEF DeadOnArrival, MarkDelivered, RecordFailure
  <2>4. status' \in [Events -> Statuses] /\ DeliveredIsPublished'
    <3>1. PICK mark \in Statuses :
            /\ \E delay : Marked(Current(d).event, mark, delay) \/ MarkRefused(Current(d).event)
            /\ mark = "delivered" => pass[d].at = "mark"
      BY <1>2 DEF DeadOnArrival, MarkDelivered, RecordFailure, Statuses
    <3>2. mark = "delivered" => Current(d).event \in stream
      BY <3>1 DEF StepsInOrder
    <3> QED BY <2>1, <3>1, <3>2, MarkKeepsRows
  <2> QED BY <2>1, <2>3, <2>4 DEF Shapes, CheckpointsLast, world
<1>3. CASE SkipCheckpointed(d) \/ TruncateArtifact(d) \/ WriteArtifact(d) \/ Publish(d) \/ Bookkeep(d)
  <2>1. UNCHANGED db
    BY <1>3 DEF SkipCheckpointed, TruncateArtifact, WriteArtifact, Publish, Bookkeep
  <2>2. PICK point : At(d, point)
    BY <1>3 DEF SkipCheckpointed, TruncateArtifact, WriteArtifact, Publish, Bookkeep
  <2>3. pass' = [pass EXCEPT ![d] = [at |-> point, rows |-> pass[d].rows]]
    BY <2>2, AtMoves DEF Shapes
  <2>4. /\ PassShape'
        /\ pass'[d].at = point /\ \A q \in Drainers : q # d => pass'[q] = pass[q]
        /\ \A q \in Drainers : Current(q)' = Current(q)
    BY <2>3 DEF Shapes, PassShape, Current
  <2>5. /\ point \in {"bookkeep", "mark"} => Current(d).event \in stream'
        /\ checkpoints' \subseteq stream' /\ stream \subseteq stream'
    <3> USE DEF StepsInOrder, CheckpointsLast, world
    <3>1. CASE SkipCheckpointed(d)
      BY <2>4, <3>1 DEF SkipCheckpointed, At, Shapes, PassShape
    <3>2. CASE TruncateArtifact(d) \/ WriteArtifact(d)
      BY <2>4, <3>2 DEF TruncateArtifact, WriteArtifact, At, Shapes, PassShape
    <3>3. CASE Publish(d)
      BY <2>4, <3>3 DEF Publish, At, Shapes, PassShape
    <3>4. CASE Bookkeep(d)
      BY <2>4, <3>4 DEF Bookkeep, At, Shapes, PassShape
    <3> QED BY <1>3, <3>1, <3>2, <3>3, <3>4
  <2>6. StepsInOrder'
    BY <2>4, <2>5 DEF StepsInOrder
  <2>7. DeliveredIsPublished' /\ status' \in [Events -> Statuses]
    BY <2>1, <2>5 DEF DeliveredIsPublished, Shapes, db
  <2> QED BY <2>4, <2>5, <2>6, <2>7 DEF Shapes, CheckpointsLast
<1> QED BY <1>1, <1>2, <1>3 DEF Deliver

LEMMA InvStep == Inv /\ [Next]_vars => Inv'
<1> SUFFICES ASSUME Inv, [Next]_vars PROVE Inv'
  OBVIOUS
<1> USE DEF Inv, Shapes, PassShape, StepsInOrder, CheckpointsLast, DeliveredIsPublished, Current
<1>1. ASSUME NEW r \in Runs, RecordTerminalRun(r) PROVE Inv'
  BY <1>1 DEF RecordTerminalRun, Statuses, world
<1>2. CASE Tick
  BY <1>2 DEF Tick, world
<1>3. CASE UNCHANGED vars
  BY <1>3 DEF vars, db, world
<1> QED BY <1>1, <1>2, <1>3, DrainKeepsInv DEF Next

\* _attempt: whatever passes overlap and whatever fails or dies in between, a
\* row is delivered only when its event is on the stream.
THEOREM DeliveredRowsArePublished == Spec => []DeliveredIsPublished
<1>1. Inv => DeliveredIsPublished
  BY DEF Inv
<1> QED BY <1>1, InitInv, InvStep, PTL DEF Spec

-----------------------------------------------------------------------------
(* The artifacts.  A redelivery empties the file before it writes it again,  *)
(* so having an artifact is not stable; being covered is.                    *)

Covered(e) == e \in artifacts \/ IsBeingWritten(e) \/ e \in torn

ArtifactInv ==
    /\ ArtifactFirst
    /\ \A d \in Drainers : pass[d].at = "publish" => Covered(Current(d).event)

\* A step of one pass leaves the others where they are.
LEMMA OthersStay ==
    ASSUME PassShape, NEW d \in Drainers, DrainBegin(d) \/ Deliver(d) \/ Crash(d)
    PROVE  \A q \in Drainers \ {d} : pass'[q] = pass[q]
<1>1. PICK p : pass' = [pass EXCEPT ![d] = p]
  <2>1. \A point : At(d, point) => pass' = [pass EXCEPT ![d] = [at |-> point, rows |-> pass[d].rows]]
    BY AtMoves
  <2> QED BY <2>1 DEF DrainBegin, Deliver, Crash, DeadOnArrival, SkipCheckpointed, TruncateArtifact,
         WriteArtifact, Publish, Bookkeep, MarkDelivered, AttemptFails, RecordFailure, RecordFails,
         NextRow, Raises
<1> QED BY <1>1 DEF PassShape

\* Most steps leave the disk alone, and no pass that is writing moves.
LEMMA DiskUntouched ==
    ASSUME PassShape, UNCHANGED <<artifacts, torn>>,
           \A q \in Drainers : pass[q].at = "write" => pass'[q] = pass[q],
           NEW e, Covered(e)
    PROVE  Covered(e)'
BY DEF Covered, IsBeingWritten, Current

LEMMA CoverIsKept ==
    ASSUME PassShape, NEW d \in Drainers, DrainBegin(d) \/ Deliver(d) \/ Crash(d),
           NEW e, Covered(e)
    PROVE  Covered(e)'
<1>1. \A q \in Drainers \ {d} : pass'[q] = pass[q]
  BY OthersStay
<1>2. CASE TruncateArtifact(d)
  <2>1. pass' = [pass EXCEPT ![d] = [at |-> "write", rows |-> pass[d].rows]] /\ pass[d].at = "row"
    BY <1>2, AtMoves DEF TruncateArtifact
  <2>2. pass'[d].at = "write" /\ Current(d)' = Current(d)
    BY <2>1 DEF PassShape, Current
  <2>3. artifacts' = artifacts \ {Current(d).event} /\ torn' = torn
    BY <1>2 DEF TruncateArtifact
  <2>4. CASE e = Current(d).event
    BY <2>2, <2>4 DEF Covered, IsBeingWritten
  <2>5. CASE e # Current(d).event
    <3>1. IsBeingWritten(e) => IsBeingWritten(e)'
      BY <1>1, <2>1 DEF IsBeingWritten, Current
    <3> QED BY <2>3, <2>5, <3>1 DEF Covered
  <2> QED BY <2>4, <2>5
<1>3. CASE WriteArtifact(d)
  <2>1. artifacts' = artifacts \cup {Current(d).event} /\ torn' = torn \ {Current(d).event}
    BY <1>3 DEF WriteArtifact
  <2>2. e # Current(d).event /\ IsBeingWritten(e) => IsBeingWritten(e)'
    BY <1>1 DEF IsBeingWritten, Current
  <2> QED BY <2>1, <2>2 DEF Covered
<1>4. CASE AttemptFails(d) \/ Crash(d)
  <2>1. artifacts' = artifacts /\ CutOff(d)
    BY <1>4 DEF AttemptFails, Crash
  <2>2. IsBeingWritten(e) => IsBeingWritten(e)' \/ (pass[d].at = "write" /\ Current(d).event = e)
    BY <1>1 DEF IsBeingWritten, Current
  <2> QED BY <2>1, <2>2 DEF Covered, CutOff
<1>5. CASE ~ (TruncateArtifact(d) \/ WriteArtifact(d) \/ AttemptFails(d) \/ Crash(d))
  <2>1. UNCHANGED <<artifacts, torn>> /\ pass[d].at # "write"
    BY <1>5 DEF DrainBegin, Deliver, DeadOnArrival, SkipCheckpointed, Publish, Bookkeep,
       MarkDelivered, RecordFailure, RecordFails, world
  <2> QED BY <1>1, <2>1, DiskUntouched
<1> QED BY <1>2, <1>3, <1>4, <1>5

LEMMA ArtifactStep == Inv /\ ArtifactInv /\ [Next]_vars => ArtifactInv'
<1> SUFFICES ASSUME Inv, ArtifactInv, [Next]_vars PROVE ArtifactInv'
  OBVIOUS
<1>0. PassShape
  BY DEF Inv, Shapes
<1>1. CASE UNCHANGED vars \/ Tick \/ \E r \in Runs : RecordTerminalRun(r)
  <2>1. UNCHANGED <<stream, artifacts, torn, pass>>
    BY <1>1 DEF vars, world, Tick, RecordTerminalRun
  <2> QED BY <2>1 DEF ArtifactInv, ArtifactFirst, Covered, IsBeingWritten, Current
<1>2. ASSUME NEW d \in Drainers, DrainBegin(d) \/ Deliver(d) \/ Crash(d) PROVE ArtifactInv'
  <2>1. \A e : Covered(e) => Covered(e)'
    BY <1>0, <1>2, CoverIsKept
  <2>2. \A q \in Drainers \ {d} : pass'[q] = pass[q]
    BY <1>0, <1>2, OthersStay
  <2>3. stream' = stream \/ (Publish(d) /\ stream' = stream \cup {Current(d).event})
    BY <1>2 DEF DrainBegin, Deliver, Crash, DeadOnArrival, SkipCheckpointed, TruncateArtifact,
       WriteArtifact, Publish, Bookkeep, MarkDelivered, AttemptFails, RecordFailure, RecordFails, world
  <2>4. ArtifactFirst'
    <3>1. \A e \in stream' : Covered(e)
      BY <2>3 DEF ArtifactInv, ArtifactFirst, Covered, Publish
    <3> QED BY <2>1, <3>1 DEF ArtifactFirst, Covered
  <2>5. ASSUME pass'[d].at = "publish" PROVE WriteArtifact(d)
    <3>1. \A point : At(d, point) => pass'[d].at = point
      <4> SUFFICES ASSUME NEW point, At(d, point) PROVE pass'[d].at = point
        OBVIOUS
      <4>1. pass' = [pass EXCEPT ![d] = [at |-> point, rows |-> pass[d].rows]]
        BY <1>0, AtMoves
      <4> QED BY <1>0, <4>1 DEF PassShape
    <3>2. NextRow(d) \/ Raises(d) \/ DrainBegin(d) \/ Crash(d) => pass'[d].at \in {"idle", "raised", "row"}
      BY <1>0 DEF PassShape, NextRow, Raises, DrainBegin, Crash, Idle
    <3> QED BY <1>2, <2>5, <3>1, <3>2 DEF Deliver, DeadOnArrival, SkipCheckpointed, TruncateArtifact,
         Publish, Bookkeep, MarkDelivered, AttemptFails, RecordFailure, RecordFails
  <2>6. ASSUME WriteArtifact(d) PROVE Covered(Current(d).event)'
    <3>1. pass' = [pass EXCEPT ![d] = [at |-> "publish", rows |-> pass[d].rows]]
      BY <1>0, <2>6, AtMoves DEF WriteArtifact
    <3>2. Current(d)' = Current(d)
      BY <1>0, <3>1 DEF PassShape, Current
    <3> QED BY <2>6, <3>2 DEF WriteArtifact, Covered
  <2>7. ASSUME NEW q \in Drainers, pass'[q].at = "publish" PROVE Covered(Current(q).event)'
    <3>1. CASE q = d
      BY <2>5, <2>6, <2>7, <3>1
    <3>2. CASE q # d
      <4>1. Current(q)' = Current(q) /\ pass[q].at = "publish"
        BY <2>2, <2>7, <3>2 DEF Current
      <4>2. Covered(Current(q).event)
        BY <4>1 DEF ArtifactInv
      <4>3. PICK e : e = Current(q).event
        OBVIOUS
      <4>4. Covered(e)'
        BY <2>1, <4>2, <4>3
      <4> QED BY <4>1, <4>3, <4>4 DEF Covered, IsBeingWritten
    <3> QED BY <3>1, <3>2
  <2> QED BY <2>4, <2>7 DEF ArtifactInv
<1> QED BY <1>1, <1>2 DEF Next

\* _attempt's order: an event is on the stream only with an artifact that was
\* written whole, and that is missing again only while a redelivery rewrites it
\* or where one was stopped in between.
THEOREM ArtifactsComeFirst == Spec => []ArtifactFirst
<1>1. Init => ArtifactInv
  BY DEF Init, ArtifactInv, ArtifactFirst, Idle
<1>2. ArtifactInv => ArtifactFirst
  BY DEF ArtifactInv
<1> QED BY <1>1, <1>2, InitInv, InvStep, ArtifactStep, PTL DEF Spec
-----------------------------------------------------------------------------
(* What a row's attempts were charged for.  A pass that is about to record a *)
(* failure has the failure behind it, but the attempt is not charged yet.    *)

Readable == Events \ (Unreadable \cup Unbuildable)

\* Each attempt charged to a readable row, as a pair of the row and its ordinal.
Charged == UNION {{e} \X (1..attempts[e]) : e \in Readable}

DeliveredRows == {e \in Readable : status[e] = "delivered"}

\* The passes that will charge an attempt: their row is not delivered, so the
\* failure they saw was one of the stream, the disk or the database.
Owing ==
    {d \in Drainers :
        /\ pass[d].at = "failed" /\ Current(d).event \in Readable
        /\ status[Current(d).event] # "delivered"}

Counted ==
    /\ status \in [Events -> Statuses] /\ attempts \in [Events -> Nat] /\ faults \in Nat
    /\ PassShape
    /\ IsFiniteSet(Charged) /\ IsFiniteSet(Owing) /\ IsFiniteSet(DeliveredRows)

\* Every charged attempt, and every one a pass still owes, was a failure, but
\* for the one that delivered the row.
Paid == Cardinality(Charged) + Cardinality(Owing) <= faults + Cardinality(DeliveredRows)

ChargeInv == Counted /\ Paid

LEMMA InitCharge == Init => ChargeInv
<1> SUFFICES ASSUME Init PROVE ChargeInv
  OBVIOUS
<1>1. Charged = {}
  BY DEF Init, Charged, Readable
<1>2. Owing = {}
  BY DEF Init, Owing, Idle
<1>3. DeliveredRows = {}
  BY DEF Init, DeliveredRows, Readable
<1>4. IsFiniteSet({}) /\ Cardinality({}) = 0
  BY FS_EmptySet
<1>5. /\ status \in [Events -> Statuses] /\ attempts \in [Events -> Nat] /\ faults \in Nat
      /\ PassShape
  BY DEF Init, Statuses, PassShape, Idle
<1> QED BY <1>1, <1>2, <1>3, <1>4, <1>5 DEF ChargeInv, Counted, Paid

\* A set that grows by at most one element, counted.
LEMMA GrowsByOne ==
    ASSUME NEW S, NEW T, NEW x, IsFiniteSet(S), T \subseteq S \cup {x}
    PROVE  IsFiniteSet(T) /\ Cardinality(T) \in Nat /\ Cardinality(T) <= Cardinality(S) + 1
<1>1. IsFiniteSet(S \cup {x}) /\ Cardinality(S \cup {x}) <= Cardinality(S) + 1
  <2>1. /\ IsFiniteSet(S \cup {x})
        /\ Cardinality(S \cup {x}) = IF x \in S THEN Cardinality(S) ELSE Cardinality(S) + 1
    BY FS_AddElement, Zenon
  <2>2. Cardinality(S) \in Nat
    BY FS_CardinalityType
  <2> QED BY <2>1, <2>2
<1>2. IsFiniteSet(T) /\ Cardinality(T) <= Cardinality(S \cup {x})
  BY <1>1, FS_Subset
<1>3. Cardinality(T) \in Nat /\ Cardinality(S) \in Nat /\ Cardinality(S \cup {x}) \in Nat
  BY <1>1, <1>2, FS_CardinalityType
<1> QED BY <1>1, <1>2, <1>3

\* A set that loses a member, and perhaps more.
LEMMA LosesOne ==
    ASSUME NEW S, NEW T, NEW x \in S, IsFiniteSet(S), T \subseteq S \ {x}
    PROVE  IsFiniteSet(T) /\ Cardinality(T) \in Nat /\ Cardinality(T) + 1 <= Cardinality(S)
<1>1. IsFiniteSet(S \ {x}) /\ Cardinality(S \ {x}) = Cardinality(S) - 1
  BY FS_RemoveElement
<1>2. IsFiniteSet(T) /\ Cardinality(T) <= Cardinality(S \ {x})
  BY <1>1, FS_Subset
<1>3. Cardinality(T) \in Nat /\ Cardinality(S) \in Nat /\ Cardinality(S \ {x}) \in Nat
  BY <1>1, <1>2, FS_CardinalityType
<1> QED BY <1>1, <1>2, <1>3

\* One mark charges one attempt to one row.
LEMMA OneAttempt ==
    ASSUME Counted, NEW e, NEW mark, NEW delay, Marked(e, mark, delay)
    PROVE  /\ attempts' \in [Events -> Nat]
           /\ e \in Readable => Charged' \subseteq Charged \cup {<<e, attempts[e] + 1>>}
           /\ e \notin Readable => Charged' \subseteq Charged
<1>1. attempts' = [attempts EXCEPT ![e] = @ + 1]
  BY DEF Marked
<1>2. /\ attempts' \in [Events -> Nat]
      /\ \A q \in Events : attempts'[q] = IF q = e THEN attempts[q] + 1 ELSE attempts[q]
  <2>1. attempts \in [Events -> Nat]
    BY DEF Counted
  <2>2. attempts' = [q \in Events |-> IF q = e THEN attempts[q] + 1 ELSE attempts[q]]
    BY <1>1, <2>1
  <2>3. ASSUME NEW q \in Events PROVE attempts[q] + 1 \in Nat /\ attempts[q] \in Nat
    BY <2>1
  <2> QED BY <2>2, <2>3
<1>3. ASSUME NEW x \in Charged'
      PROVE  x \in Charged \/ (e \in Readable /\ x = <<e, attempts[e] + 1>>)
  <2>1. PICK q \in Readable : x \in {q} \X (1..attempts'[q])
    BY <1>3 DEF Charged
  <2>2. PICK k \in 1..attempts'[q] : x = <<q, k>>
    BY <2>1
  <2>3. q \in Events /\ attempts[q] \in Nat
    BY DEF Readable, Counted
  <2>4. CASE k \in 1..attempts[q]
    <3>1. x \in {q} \X (1..attempts[q])
      BY <2>2, <2>4
    <3> QED BY <3>1 DEF Charged
  <2>5. CASE k \notin 1..attempts[q]
    <3>1. q = e /\ k = attempts[e] + 1
      BY <1>2, <2>2, <2>3, <2>5
    <3> QED BY <2>2, <3>1
  <2> QED BY <2>4, <2>5
<1> QED BY <1>2, <1>3

\* A step that charges nothing, delivers nothing and makes no pass owe more
\* than the faults it counts.
LEMMA PaidFor ==
    ASSUME ChargeInv, NEW n \in {0, 1}, faults' = faults + n,
           status' \in [Events -> Statuses], attempts' \in [Events -> Nat], PassShape',
           Charged' \subseteq Charged, DeliveredRows' = DeliveredRows,
           \/ Owing' \subseteq Owing
           \/ n = 1 /\ \E d : Owing' \subseteq Owing \cup {d}
    PROVE  ChargeInv'
<1> USE DEF ChargeInv, Counted
<1>1. IsFiniteSet(Charged') /\ Cardinality(Charged') <= Cardinality(Charged)
  BY FS_Subset
<1>2. IsFiniteSet(Owing') /\ Cardinality(Owing') <= Cardinality(Owing) + n
  <2>1. CASE Owing' \subseteq Owing
    <3>1. IsFiniteSet(Owing') /\ Cardinality(Owing') <= Cardinality(Owing)
      BY <2>1, FS_Subset
    <3>2. Cardinality(Owing) \in Nat /\ Cardinality(Owing') \in Nat
      BY <3>1, FS_CardinalityType
    <3> QED BY <3>1, <3>2
  <2>2. CASE n = 1 /\ \E d : Owing' \subseteq Owing \cup {d}
    BY <2>2, GrowsByOne
  <2> QED BY <2>1, <2>2
<1>3. /\ Cardinality(Charged) \in Nat /\ Cardinality(Charged') \in Nat
      /\ Cardinality(Owing) \in Nat /\ Cardinality(Owing') \in Nat
      /\ Cardinality(DeliveredRows) \in Nat
  BY <1>1, <1>2, FS_CardinalityType
<1>4. faults' \in Nat /\ IsFiniteSet(DeliveredRows')
  OBVIOUS
<1>5. Cardinality(Charged') + Cardinality(Owing') <= faults' + Cardinality(DeliveredRows')
  BY <1>1, <1>2, <1>3 DEF Paid
<1> QED BY <1>1, <1>2, <1>4, <1>5 DEF Paid

\* Who owes an attempt after a step of d: d itself only if it failed.
LEMMA OwingMoves ==
    ASSUME PassShape, NEW d \in Drainers, NEW at, NEW rows,
           pass' = [pass EXCEPT ![d] = [at |-> at, rows |-> rows]],
           \A e \in Readable : status[e] = "delivered" => status'[e] = "delivered"
    PROVE  /\ PassShape'
           /\ Owing' \subseteq Owing \cup {d}
           /\ at # "failed" => Owing' \subseteq Owing \ {d}
<1>1. /\ PassShape'
      /\ pass'[d].at = at
      /\ \A q \in Drainers : q # d => pass'[q] = pass[q]
  BY DEF PassShape
<1>2. ASSUME NEW q \in Owing', q # d
      PROVE  q \in Owing
  BY <1>1, <1>2 DEF Owing, Current
<1>3. at # "failed" => d \notin Owing'
  BY <1>1 DEF Owing
<1> QED BY <1>1, <1>2, <1>3

\* d leaves its row behind: it owes nothing any more.
LEMMA LeavesRow ==
    ASSUME PassShape, NEW d \in Drainers, NextRow(d) \/ Raises(d),
           \A e \in Readable : status[e] = "delivered" => status'[e] = "delivered"
    PROVE  PassShape' /\ Owing' \subseteq Owing \ {d}
<1>1. PICK at \in {"idle", "row", "raised"} :
        \E rows : pass' = [pass EXCEPT ![d] = [at |-> at, rows |-> rows]]
  <2>1. CASE Raises(d)
    BY <2>1 DEF Raises
  <2>2. CASE NextRow(d)
    <3>1. CASE Tail(pass[d].rows) = <<>>
      BY <2>2, <3>1 DEF NextRow, Idle
    <3>2. CASE Tail(pass[d].rows) # <<>>
      <4>1. pass' = [pass EXCEPT ![d] = [at |-> "row", rows |-> Tail(pass[d].rows)]]
        BY <2>2, <3>2 DEF NextRow
      <4> QED BY <4>1
    <3> QED BY <3>1, <3>2
  <2> QED BY <2>1, <2>2
<1>2. PICK rows : pass' = [pass EXCEPT ![d] = [at |-> at, rows |-> rows]]
  BY <1>1
<1> QED BY <1>1, <1>2, OwingMoves

\* A mark charges one attempt: the failure behind it was counted, or the row is
\* delivered with it.
LEMMA MarkIsPaid ==
    ASSUME ChargeInv, NEW d \in Drainers, NEW mark \in Statuses, NEW delay,
           Marked(Current(d).event, mark, delay), NextRow(d), UNCHANGED faults,
           \/ Current(d).event \notin Readable /\ mark # "delivered"
           \/ pass[d].at = "failed" /\ mark # "delivered"
           \/ mark = "delivered"
    PROVE  ChargeInv'
<1> DEFINE e == Current(d).event
<1>1. /\ Counted /\ PassShape /\ status \in [Events -> Statuses] /\ faults \in Nat
      /\ IsFiniteSet(Charged) /\ IsFiniteSet(Owing) /\ IsFiniteSet(DeliveredRows)
  BY DEF ChargeInv, Counted
<1>2. /\ status[e] # "delivered"
      /\ status' \in [Events -> Statuses]
      /\ \A q \in Events : status'[q] = IF q = e THEN mark ELSE status[q]
  BY <1>1 DEF Marked
<1>3. Readable \subseteq Events
  BY DEF Readable
<1>4. /\ attempts' \in [Events -> Nat]
      /\ e \in Readable => Charged' \subseteq Charged \cup {<<e, attempts[e] + 1>>}
      /\ e \notin Readable => Charged' \subseteq Charged
  BY <1>1, OneAttempt
<1>5. PassShape' /\ Owing' \subseteq Owing \ {d}
  BY <1>1, <1>2, <1>3, LeavesRow
<1>6. faults' = faults + 0
  BY <1>1
<1>7. CASE e \notin Readable
  <2>1. DeliveredRows' = DeliveredRows
    BY <1>2, <1>3, <1>7 DEF DeliveredRows
  <2> QED BY <1>2, <1>4, <1>5, <1>6, <1>7, <2>1, PaidFor
<1>8. CASE e \in Readable
  <2>1. /\ IsFiniteSet(Charged') /\ Cardinality(Charged') \in Nat
        /\ Cardinality(Charged') <= Cardinality(Charged) + 1
    BY <1>1, <1>4, <1>8, GrowsByOne
  <2>2. /\ Cardinality(Charged) \in Nat /\ Cardinality(Owing) \in Nat
        /\ Cardinality(DeliveredRows) \in Nat
    BY <1>1, FS_CardinalityType
  <2>3. Cardinality(Charged) + Cardinality(Owing) <= faults + Cardinality(DeliveredRows)
    BY DEF ChargeInv, Paid
  <2>4. CASE mark = "delivered"
    <3>1. DeliveredRows' = DeliveredRows \cup {e} /\ e \notin DeliveredRows
      BY <1>2, <1>3, <1>8, <2>4 DEF DeliveredRows
    <3>2. /\ IsFiniteSet(DeliveredRows')
          /\ Cardinality(DeliveredRows') = Cardinality(DeliveredRows) + 1
      BY <1>1, <3>1, FS_AddElement, Zenon
    <3>3. /\ IsFiniteSet(Owing') /\ Cardinality(Owing') <= Cardinality(Owing)
          /\ Cardinality(Owing') \in Nat
      BY <1>1, <1>5, FS_Subset, FS_CardinalityType
    <3>4. Cardinality(Charged') + Cardinality(Owing') <= faults' + Cardinality(DeliveredRows')
      BY <1>1, <1>6, <2>1, <2>2, <2>3, <3>2, <3>3
    <3> QED BY <1>1, <1>2, <1>4, <1>5, <1>6, <2>1, <3>2, <3>3, <3>4 DEF ChargeInv, Counted, Paid
  <2>5. CASE pass[d].at = "failed" /\ mark # "delivered"
    <3>1. d \in Owing
      BY <1>2, <1>8, <2>5 DEF Owing
    <3>2. /\ IsFiniteSet(Owing') /\ Cardinality(Owing') \in Nat
          /\ Cardinality(Owing') + 1 <= Cardinality(Owing)
      BY <1>1, <1>5, <3>1, LosesOne
    <3>3. DeliveredRows' = DeliveredRows
      BY <1>2, <1>3, <2>5 DEF DeliveredRows
    <3>4. Cardinality(Charged') + Cardinality(Owing') <= faults' + Cardinality(DeliveredRows')
      BY <1>1, <1>6, <2>1, <2>2, <2>3, <3>2, <3>3
    <3> QED BY <1>1, <1>2, <1>4, <1>5, <1>6, <2>1, <3>2, <3>3, <3>4 DEF ChargeInv, Counted, Paid
  <2> QED BY <1>8, <2>4, <2>5
<1> QED BY <1>7, <1>8

\* The other steps of a pass leave every row alone; those that go wrong count a fault.
LEMMA PassIsPaid ==
    ASSUME ChargeInv, NEW d \in Drainers, UNCHANGED db, NEW at, NEW rows,
           pass' = [pass EXCEPT ![d] = [at |-> at, rows |-> rows]],
           \/ at # "failed" /\ (UNCHANGED faults \/ Fault)
           \/ at = "failed" /\ Fault
           \/ /\ at = "failed" /\ UNCHANGED faults
              /\ rows = pass[d].rows /\ status[Current(d).event] = "delivered"
    PROVE  ChargeInv'
<1>1. PassShape /\ status \in [Events -> Statuses] /\ attempts \in [Events -> Nat] /\ faults \in Nat
  BY DEF ChargeInv, Counted
<1>2. UNCHANGED <<status, attempts>>
  BY DEF db
<1>3. Charged' = Charged /\ DeliveredRows' = DeliveredRows
  BY <1>2 DEF Charged, DeliveredRows
<1>4. /\ PassShape'
      /\ Owing' \subseteq Owing \cup {d}
      /\ at # "failed" => Owing' \subseteq Owing \ {d}
  BY <1>1, <1>2, OwingMoves
<1>5. PICK n \in {0, 1} :
        /\ faults' = faults + n
        /\ n = 1 \/ Owing' \subseteq Owing
  <2>1. CASE at # "failed" /\ (UNCHANGED faults \/ Fault)
    <3>1. Owing' \subseteq Owing
      BY <1>4, <2>1
    <3>2. faults' = faults + 0 \/ faults' = faults + 1
      BY <1>1, <2>1 DEF Fault
    <3> QED BY <3>1, <3>2
  <2>2. CASE at = "failed" /\ Fault
    BY <2>2 DEF Fault
  <2>3. CASE /\ at = "failed" /\ UNCHANGED faults
             /\ rows = pass[d].rows /\ status[Current(d).event] = "delivered"
    <3>1. pass'[d].rows = pass[d].rows
      BY <1>1, <2>3 DEF PassShape
    <3>2. d \notin Owing'
      BY <1>2, <2>3, <3>1 DEF Owing, Current
    <3>3. Owing' \subseteq Owing
      BY <1>4, <3>2
    <3>4. faults' = faults + 0
      BY <1>1, <2>3
    <3> QED BY <3>3, <3>4
  <2> QED BY <2>1, <2>2, <2>3
<1> QED BY <1>1, <1>2, <1>3, <1>4, <1>5, PaidFor

LEMMA DrainIsPaid ==
    ASSUME ChargeInv, NEW d \in Drainers, DrainBegin(d) \/ Deliver(d) \/ Crash(d)
    PROVE  ChargeInv'
<1>0. PassShape
  BY DEF ChargeInv, Counted
<1>1. CASE DrainBegin(d)
  <2>2. PICK rows : pass' = [pass EXCEPT ![d] = [at |-> "row", rows |-> rows]]
    BY <1>1 DEF DrainBegin
  <2>3. UNCHANGED db /\ UNCHANGED faults
    BY <1>1 DEF DrainBegin
  <2> QED BY <2>2, <2>3, PassIsPaid
<1>2. CASE Crash(d)
  <2>1. pass' = [pass EXCEPT ![d] = [at |-> "idle", rows |-> <<>>]]
    BY <1>2 DEF Crash, Idle
  <2>2. UNCHANGED db /\ Fault
    BY <1>2 DEF Crash
  <2> QED BY <2>1, <2>2, PassIsPaid
<1>3. CASE Raises(d) /\ UNCHANGED db /\ (Fault \/ UNCHANGED faults)
  <2>1. pass' = [pass EXCEPT ![d] = [at |-> "raised", rows |-> <<>>]]
    BY <1>3 DEF Raises
  <2> QED BY <1>3, <2>1, PassIsPaid
<1>4. CASE DeadOnArrival(d)
  <2>1. Current(d).event \notin Readable
    BY <1>4 DEF DeadOnArrival, Malformed, Readable
  <2>2. CASE Marked(Current(d).event, "dead", wait[Current(d).event]) /\ NextRow(d)
    BY <1>4, <2>1, <2>2, MarkIsPaid DEF DeadOnArrival, Statuses
  <2> QED BY <1>3, <1>4, <2>2 DEF DeadOnArrival, MarkRefused
<1>5. CASE MarkDelivered(d)
  <2>1. CASE Marked(Current(d).event, "delivered", wait[Current(d).event]) /\ NextRow(d)
    BY <1>5, <2>1, MarkIsPaid DEF MarkDelivered, Statuses
  <2>2. CASE MarkRefused(Current(d).event) /\ At(d, "failed")
    <3>1. pass' = [pass EXCEPT ![d] = [at |-> "failed", rows |-> pass[d].rows]]
      BY <1>0, <2>2, AtMoves
    <3>2. UNCHANGED db /\ UNCHANGED faults /\ status[Current(d).event] = "delivered"
      BY <1>5, <2>2 DEF MarkDelivered, MarkRefused
    <3> QED BY <3>1, <3>2, PassIsPaid
  <2> QED BY <1>5, <2>1, <2>2 DEF MarkDelivered
<1>6. CASE RecordFailure(d)
  <2>1. pass[d].at = "failed" /\ UNCHANGED faults
    BY <1>6 DEF RecordFailure
  <2>2. \/ \E mark \in {"dead", "pending"} : \E delay :
             Marked(Current(d).event, mark, delay) /\ NextRow(d)
        \/ MarkRefused(Current(d).event) /\ Raises(d)
    BY <1>6 DEF RecordFailure
  <2>3. CASE MarkRefused(Current(d).event) /\ Raises(d)
    BY <1>3, <2>1, <2>3 DEF MarkRefused
  <2>4. ASSUME NEW mark \in {"dead", "pending"}, NEW delay,
               Marked(Current(d).event, mark, delay), NextRow(d)
        PROVE  ChargeInv'
    <3>1. mark \in Statuses /\ mark # "delivered"
      BY DEF Statuses
    <3> QED BY <2>1, <2>4, <3>1, MarkIsPaid
  <2> QED BY <2>2, <2>3, <2>4
<1>7. CASE RecordFails(d)
  BY <1>3, <1>7 DEF RecordFails
<1>8. ASSUME NEW point, At(d, point), UNCHANGED db,
             \/ point # "failed" /\ (UNCHANGED faults \/ Fault)
             \/ point = "failed" /\ Fault
      PROVE  ChargeInv'
  <2>1. pass' = [pass EXCEPT ![d] = [at |-> point, rows |-> pass[d].rows]]
    BY <1>0, <1>8, AtMoves
  <2> QED BY <1>8, <2>1, PassIsPaid
<1>9. CASE AttemptFails(d)
  BY <1>8, <1>9 DEF AttemptFails
<1>10. CASE SkipCheckpointed(d) \/ TruncateArtifact(d) \/ WriteArtifact(d)
  BY <1>8, <1>10 DEF SkipCheckpointed, TruncateArtifact, WriteArtifact
<1>11. CASE Publish(d)
  BY <1>8, <1>11 DEF Publish, NoFault
<1>12. CASE Bookkeep(d)
  BY <1>8, <1>12 DEF Bookkeep, NoFault
<1> QED BY <1>1, <1>2, <1>4, <1>5, <1>6, <1>7, <1>9, <1>10, <1>11, <1>12 DEF Deliver

LEMMA ChargeStep == ChargeInv /\ [Next]_vars => ChargeInv'
<1> SUFFICES ASSUME ChargeInv, [Next]_vars PROVE ChargeInv'
  OBVIOUS
<1>0. /\ PassShape /\ status \in [Events -> Statuses] /\ attempts \in [Events -> Nat]
      /\ faults \in Nat
  BY DEF ChargeInv, Counted
<1>1. ASSUME NEW r \in Runs, RecordTerminalRun(r) PROVE ChargeInv'
  <2>1. /\ status' \in [Events -> Statuses]
        /\ \A e \in Events : status'[e] = "delivered" <=> status[e] = "delivered"
    BY <1>0, <1>1 DEF RecordTerminalRun, Statuses
  <2>2. UNCHANGED <<attempts, pass>> /\ faults' = faults + 0
    BY <1>0, <1>1 DEF RecordTerminalRun
  <2>3. Charged' = Charged
    BY <2>2 DEF Charged
  <2>4. DeliveredRows' = DeliveredRows /\ Owing' \subseteq Owing
    BY <2>1, <2>2 DEF DeliveredRows, Owing, Readable, Current
  <2> QED BY <1>0, <2>1, <2>2, <2>3, <2>4, PaidFor DEF PassShape
<1>2. CASE Tick \/ UNCHANGED vars
  <2>1. UNCHANGED <<status, attempts, pass, faults>>
    BY <1>2 DEF Tick, vars, db
  <2>2. Charged' = Charged /\ DeliveredRows' = DeliveredRows /\ Owing' = Owing /\ PassShape'
    BY <1>0, <2>1 DEF Charged, DeliveredRows, Owing, Current, PassShape
  <2> QED BY <2>1, <2>2 DEF ChargeInv, Counted, Paid
<1> QED BY <1>1, <1>2, DrainIsPaid DEF Next

\* drain, "A row's retry budget is spent only on failures the row itself
\* provoked": the attempts charged to the readable rows are never more than the
\* failures, and one for each row delivered, however many passes race.
THEOREM RetriesAreEarned == Spec => []ChargedOnlyForFailures
<1>1. ChargeInv => ChargedOnlyForFailures
  <2> SUFFICES ASSUME ChargeInv PROVE ChargedOnlyForFailures
    OBVIOUS
  <2>1. /\ Cardinality(Charged) \in Nat /\ Cardinality(Owing) \in Nat
        /\ Cardinality(DeliveredRows) \in Nat /\ faults \in Nat
    BY FS_CardinalityType DEF ChargeInv, Counted
  <2>2. Cardinality(Charged) <= faults + Cardinality(DeliveredRows)
    BY <2>1 DEF ChargeInv, Paid
  <2> QED BY <2>2 DEF ChargedOnlyForFailures, Charged, DeliveredRows, Readable
<1> QED BY <1>1, InitCharge, ChargeStep, PTL DEF Spec

-----------------------------------------------------------------------------
(* The outbox implements EventDelivery.  A pass decides on a row as it was   *)
(* when the pass began, so the invariant says what of that is still true.    *)

Defective == Unreadable \cup Unbuildable

\* What a pass has read, against the columns s and a: the rows were queued,
\* and have been charged no less since.
ReadFrom(rows, s, a) ==
    /\ rows \in Seq(Snapshot)
    /\ \A i \in DOMAIN rows : s[rows[i].event] # "none" /\ rows[i].attempts <= a[rows[i].event]

\* Beyond the first call, the current row can be built, or its event is on the
\* stream sent: the checkpoint has it.
Buildable(at, rows, sent) ==
    /\ at \notin {"idle", "raised"} => rows # <<>>
    /\ at \in {"write", "publish"} => Head(rows).event \notin Defective
    /\ at = "failed" => Head(rows).event \notin Defective \/ Head(rows).event \in sent

PassesSound ==
    \A d \in Drainers :
        ReadFrom(pass[d].rows, status, attempts) /\ Buildable(pass[d].at, pass[d].rows, stream)

TableQueued ==
    /\ table \in Seq(Events)
    /\ \A i \in DOMAIN table : status[table[i]] # "none"

PromiseInv ==
    Inv /\ attempts \in [Events -> Nat] /\ stream \subseteq Events /\ TableQueued /\ PassesSound

\* Rows are never taken back, nor charges; the stream only grows.
Grows ==
    /\ \A e \in Events : status[e] # "none" => status'[e] # "none"
    /\ \A e \in Events : attempts[e] <= attempts'[e]
    /\ stream \subseteq stream'

LEMMA InitPromise == Init => PromiseInv
<1> SUFFICES ASSUME Init PROVE PromiseInv
  OBVIOUS
<1>1. Inv
  BY InitInv
<1>2. attempts \in [Events -> Nat] /\ stream \subseteq Events
  BY OutboxAssumption DEF Init, OutboxAssumption
<1>3. TableQueued
  BY DEF Init, TableQueued
<1>4. PassesSound
  <2>1. \A d \in Drainers : pass[d].at = "idle" /\ pass[d].rows = <<>>
    BY DEF Init, Idle
  <2>2. ReadFrom(<<>>, status, attempts) /\ Buildable("idle", <<>>, stream)
    BY DEF ReadFrom, Buildable
  <2> QED BY <2>1, <2>2 DEF PassesSound
<1> QED BY <1>1, <1>2, <1>3, <1>4 DEF PromiseInv

LEMMA GrownReads ==
    ASSUME PromiseInv, Grows, attempts' \in [Events -> Nat], NEW rows, ReadFrom(rows, status, attempts)
    PROVE  ReadFrom(rows, status', attempts')
<1>1. rows \in Seq(Snapshot) /\ attempts \in [Events -> Nat]
  BY DEF ReadFrom, PromiseInv
<1>2. ASSUME NEW i \in DOMAIN rows
      PROVE  status'[rows[i].event] # "none" /\ rows[i].attempts <= attempts'[rows[i].event]
  <2>1. rows[i] \in Snapshot
    BY <1>1, <1>2
  <2>2. rows[i].event \in Events /\ rows[i].attempts \in Nat
    BY <2>1 DEF Snapshot
  <2>3. attempts[rows[i].event] \in Nat /\ attempts'[rows[i].event] \in Nat
    BY <1>1, <2>2
  <2>4. status[rows[i].event] # "none" /\ rows[i].attempts <= attempts[rows[i].event]
    BY DEF ReadFrom
  <2>5. status'[rows[i].event] # "none" /\ attempts[rows[i].event] <= attempts'[rows[i].event]
    BY <2>2, <2>4 DEF Grows
  <2> QED BY <2>2, <2>3, <2>4, <2>5
<1> QED BY <1>1, <1>2 DEF ReadFrom

\* One pass moves while the rows and the stream grow.
LEMMA PassMovesSoundly ==
    ASSUME PromiseInv, Grows, attempts' \in [Events -> Nat], NEW d \in Drainers, NEW at, NEW rows,
           pass' = [pass EXCEPT ![d] = [at |-> at, rows |-> rows]],
           ReadFrom(rows, status, attempts), Buildable(at, rows, stream')
    PROVE  PassesSound'
<1>1. ASSUME NEW q \in Drainers
      PROVE  ReadFrom(pass'[q].rows, status', attempts') /\ Buildable(pass'[q].at, pass'[q].rows, stream')
  <2>1. CASE q = d
    <3>1. pass'[q] = [at |-> at, rows |-> rows]
      BY <2>1 DEF PromiseInv, Inv, Shapes, PassShape
    <3>2. pass'[q].at = at /\ pass'[q].rows = rows
      BY <3>1
    <3> QED BY <3>2, GrownReads
  <2>2. CASE q # d
    <3>1. pass'[q] = pass[q]
      BY <2>2 DEF PromiseInv, Inv, Shapes, PassShape
    <3>2. ReadFrom(pass[q].rows, status, attempts) /\ Buildable(pass[q].at, pass[q].rows, stream)
      BY DEF PromiseInv, PassesSound
    <3>3. Buildable(pass[q].at, pass[q].rows, stream')
      BY <3>2 DEF Buildable, Grows
    <3> QED BY <3>1, <3>2, <3>3, GrownReads
  <2> QED BY <2>1, <2>2
<1> QED BY <1>1 DEF PassesSound

\* The current row of a pass at work.
LEMMA CurrentIsQueued ==
    ASSUME PromiseInv, NEW d \in Drainers, pass[d].at \notin {"idle", "raised"}
    PROVE  /\ Current(d).event \in Events /\ Current(d).attempts \in Nat
           /\ status[Current(d).event] \in Statuses \ {"none"}
           /\ attempts[Current(d).event] \in Nat
           /\ Current(d).attempts <= attempts[Current(d).event]
           /\ ReadFrom(Tail(pass[d].rows), status, attempts)
<1> DEFINE rows == pass[d].rows
<1>1. rows \in Seq(Snapshot) /\ rows # <<>> /\ ReadFrom(rows, status, attempts)
  BY DEF PromiseInv, PassesSound, ReadFrom, Buildable
<1> HIDE DEF rows
<1>2. 1 \in DOMAIN rows /\ Head(rows) = rows[1] /\ Head(rows) \in Snapshot
  BY <1>1
<1>3. Head(rows).event \in Events /\ Head(rows).attempts \in Nat
  BY <1>2 DEF Snapshot
<1>4. status[Head(rows).event] # "none" /\ Head(rows).attempts <= attempts[Head(rows).event]
  BY <1>1, <1>2 DEF ReadFrom
<1>5. status[Head(rows).event] \in Statuses /\ attempts[Head(rows).event] \in Nat
  BY <1>3 DEF PromiseInv, Inv, Shapes
<1>6. ReadFrom(Tail(rows), status, attempts)
  <2>1. Tail(rows) \in Seq(Snapshot) /\ \A i \in DOMAIN Tail(rows) : Tail(rows)[i] = rows[i + 1] /\ i + 1 \in DOMAIN rows
    BY <1>1
  <2> QED BY <1>1, <2>1 DEF ReadFrom
<1> QED BY <1>3, <1>4, <1>5, <1>6 DEF Current, rows

\* What pending_outbox_events returns was queued, and is read as it is.
LEMMA BeginReads ==
    ASSUME PromiseInv, NEW d \in Drainers, DrainBegin(d)
    PROVE  PassesSound'
<1>0. PICK limit \in 1..Cardinality(Due) : \E place \in [1..limit -> Due] :
        pass' = [pass EXCEPT ![d] =
            [at |-> "row",
             rows |-> [i \in 1..limit |->
                         [event |-> table[place[i]], attempts |-> attempts[table[place[i]]]]]]]
  BY DEF DrainBegin
<1>1. PICK place \in [1..limit -> Due] :
        pass' = [pass EXCEPT ![d] =
            [at |-> "row",
             rows |-> [i \in 1..limit |->
                         [event |-> table[place[i]], attempts |-> attempts[table[place[i]]]]]]]
  BY <1>0
<1>2. UNCHANGED <<status, attempts, stream>>
  BY DEF DrainBegin, db, world
<1> DEFINE rows == [i \in 1..limit |-> [event |-> table[place[i]], attempts |-> attempts[table[place[i]]]]]
<1>3. ASSUME NEW i \in 1..limit
      PROVE  rows[i] \in Snapshot /\ status[rows[i].event] # "none" /\ rows[i].attempts <= attempts[rows[i].event]
  <2>1. place[i] \in DOMAIN table
    BY DEF Due
  <2>2. table[place[i]] \in Events /\ status[table[place[i]]] # "none"
    BY <2>1 DEF PromiseInv, TableQueued
  <2>3. attempts[table[place[i]]] \in Nat
    BY <2>2 DEF PromiseInv
  <2> QED BY <2>2, <2>3 DEF Snapshot
<1>4. DOMAIN rows = 1..limit /\ limit \in Nat /\ limit # 0
  <2>1. limit \in Int /\ limit >= 1
    OBVIOUS
  <2> QED BY <2>1
<1>5. pass' = [pass EXCEPT ![d] = [at |-> "row", rows |-> rows]]
  BY <1>1
<1> HIDE DEF rows
<1>6. rows \in Seq(Snapshot) /\ rows # <<>>
  <2>1. rows \in [1..limit -> Snapshot]
    <3>1. rows = [i \in 1..limit |-> rows[i]]
      BY DEF rows
    <3> QED BY <1>3, <3>1
  <2> QED BY <1>4, <2>1
<1>7. ReadFrom(rows, status, attempts) /\ Buildable("row", rows, stream')
  BY <1>3, <1>4, <1>6 DEF ReadFrom, Buildable
<1>8. Grows /\ attempts' \in [Events -> Nat]
  BY <1>2 DEF Grows, PromiseInv
<1> QED BY <1>5, <1>7, <1>8, PassMovesSoundly

\* The pass goes to another call for its row.
LEMMA StaysSound ==
    ASSUME PromiseInv, Grows, attempts' \in [Events -> Nat], NEW d \in Drainers, NEW point,
           pass[d].at \notin {"idle", "raised"}, At(d, point),
           point \in {"write", "publish"} => Current(d).event \notin Defective,
           point = "failed" => Current(d).event \notin Defective \/ Current(d).event \in stream'
    PROVE  PassesSound'
<1> DEFINE rows == pass[d].rows
<1>1. pass' = [pass EXCEPT ![d] = [at |-> point, rows |-> rows]]
  BY AtMoves DEF PromiseInv, Inv, Shapes
<1>2. ReadFrom(rows, status, attempts) /\ rows # <<>>
  BY DEF PromiseInv, PassesSound, Buildable
<1>3. Buildable(point, rows, stream')
  BY <1>2 DEF Buildable, Current
<1> HIDE DEF rows
<1> QED BY <1>1, <1>2, <1>3, PassMovesSoundly

\* The pass goes to its next row, or ends.
LEMMA LeavesSound ==
    ASSUME PromiseInv, Grows, attempts' \in [Events -> Nat], NEW d \in Drainers,
           pass[d].at \notin {"idle", "raised"}, NextRow(d) \/ Raises(d)
    PROVE  PassesSound'
<1> DEFINE rest == Tail(pass[d].rows)
<1>1. ReadFrom(rest, status, attempts)
  BY CurrentIsQueued
<1>2. ReadFrom(<<>>, status, attempts)
  BY DEF ReadFrom
<1>3. CASE Raises(d)
  <2>1. pass' = [pass EXCEPT ![d] = [at |-> "raised", rows |-> <<>>]] /\ Buildable("raised", <<>>, stream')
    BY <1>3 DEF Raises, Buildable
  <2> QED BY <1>2, <2>1, PassMovesSoundly
<1>4. CASE NextRow(d) /\ rest = <<>>
  <2>1. pass' = [pass EXCEPT ![d] = [at |-> "idle", rows |-> <<>>]] /\ Buildable("idle", <<>>, stream')
    BY <1>4 DEF NextRow, Idle, Buildable
  <2> QED BY <1>2, <2>1, PassMovesSoundly
<1>5. CASE NextRow(d) /\ rest # <<>>
  <2>1. pass' = [pass EXCEPT ![d] = [at |-> "row", rows |-> rest]] /\ Buildable("row", rest, stream')
    BY <1>5 DEF NextRow, Buildable
  <2> HIDE DEF rest
  <2> QED BY <1>1, <2>1, PassMovesSoundly
<1> QED BY <1>3, <1>4, <1>5

\* A mark is a decision of the promise.
LEMMA MarkDecides ==
    ASSUME PromiseInv, NEW e \in Events, status[e] # "none", NEW mark \in Statuses \ {"none"}, NEW delay,
           Marked(e, mark, delay), UNCHANGED world
    PROVE  /\ Delivery!Decide(e, mark)
           /\ Grows /\ attempts' \in [Events -> Nat] /\ TableQueued' /\ stream' \subseteq Events
<1>1. /\ status' = [status EXCEPT ![e] = mark] /\ attempts' = [attempts EXCEPT ![e] = @ + 1]
      /\ UNCHANGED <<table, stream>> /\ status[e] # "delivered"
  BY DEF Marked, world
<1>2. status \in [Events -> Statuses] /\ attempts \in [Events -> Nat]
  BY DEF PromiseInv, Inv, Shapes
<1>3. Delivery!Decide(e, mark)
  BY <1>1, <1>2 DEF Delivery!Decide, Delivery!Open, Statuses
<1>4. Grows /\ attempts' \in [Events -> Nat]
  BY <1>1, <1>2 DEF Grows
<1>5. TableQueued' /\ stream' \subseteq Events
  BY <1>1, <1>2 DEF TableQueued, PromiseInv
<1> QED BY <1>3, <1>4, <1>5

\* A step of a pass that leaves the database and the stream alone.
LEMMA QuietPass ==
    ASSUME PromiseInv, UNCHANGED <<db, stream>>
    PROVE  /\ UNCHANGED <<status, attempts, stream>>
           /\ Grows /\ attempts' \in [Events -> Nat] /\ TableQueued' /\ stream' \subseteq Events
BY DEF PromiseInv, TableQueued, Grows, db

Promised == Delivery!Next \/ UNCHANGED <<status, attempts, stream>>

\* What is left of the invariant once Inv' is known.
RowsSound == attempts \in [Events -> Nat] /\ stream \subseteq Events /\ TableQueued /\ PassesSound

\* The three ways to leave a row behind with a mark, or by losing the race for it.
LEMMA OutcomeIsPromised ==
    ASSUME PromiseInv, NEW d \in Drainers, DeadOnArrival(d) \/ MarkDelivered(d) \/ RecordFailure(d)
    PROVE  RowsSound' /\ Promised
<1> DEFINE e == Current(d).event
<1>0. pass[d].at \in {"row", "mark", "failed"}
  BY DEF DeadOnArrival, MarkDelivered, RecordFailure
<1>1. /\ e \in Events /\ Current(d).attempts \in Nat /\ attempts[e] \in Nat
      /\ status[e] \in Statuses \ {"none"} /\ Current(d).attempts <= attempts[e]
  BY <1>0, CurrentIsQueued
<1>2. UNCHANGED world /\ UNCHANGED stream
  BY DEF DeadOnArrival, MarkDelivered, RecordFailure, world
<1>3. PICK mark \in {"delivered", "pending", "dead"} :
        /\ \/ /\ \E delay : Marked(e, mark, delay)
              /\ NextRow(d)
           \/ MarkRefused(e) /\ (Raises(d) \/ (pass[d].at = "mark" /\ At(d, "failed")))
        /\ mark = "delivered" => pass[d].at = "mark"
        /\ mark = "pending" => pass[d].at = "failed"
        /\ mark = "dead" => Malformed(e) \/ IsExhausted(Current(d).attempts + 1)
  <2>1. CASE DeadOnArrival(d)
    BY <2>1 DEF DeadOnArrival
  <2>2. CASE MarkDelivered(d)
    BY <2>2 DEF MarkDelivered
  <2>3. CASE RecordFailure(d)
    <3>1. CASE MarkRefused(e) /\ Raises(d)
      BY <2>3, <3>1 DEF RecordFailure
    <3>2. CASE IsExhausted(Current(d).attempts + 1) /\ Marked(e, "dead", wait[e]) /\ NextRow(d)
      BY <2>3, <3>2 DEF RecordFailure
    <3>3. CASE Marked(e, "pending", DelayFor(Current(d).attempts + 1)) /\ NextRow(d)
      BY <2>3, <3>3 DEF RecordFailure
    <3> QED BY <2>3, <3>1, <3>2, <3>3 DEF RecordFailure
  <2> QED BY <2>1, <2>2, <2>3
<1>4. CASE MarkRefused(e)
  <2>1. UNCHANGED db
    BY <1>4 DEF MarkRefused
  <2>2. /\ UNCHANGED <<status, attempts, stream>>
        /\ Grows /\ attempts' \in [Events -> Nat] /\ TableQueued' /\ stream' \subseteq Events
    BY <1>2, <2>1, QuietPass
  <2>3. status[e] = "delivered"
    BY <1>4 DEF MarkRefused
  <2>4. e \in stream'
    BY <1>1, <1>2, <2>3 DEF PromiseInv, Inv, DeliveredIsPublished
  <2>5. PassesSound'
    <3>1. CASE Raises(d)
      BY <1>0, <2>2, <3>1, LeavesSound
    <3>2. CASE At(d, "failed")
      BY <1>0, <2>2, <2>4, <3>2, StaysSound
    <3>3. ~(\E delay : Marked(e, mark, delay))
      BY <2>3 DEF Marked
    <3> QED BY <1>3, <3>1, <3>2, <3>3
  <2> QED BY <2>2, <2>5 DEF RowsSound, Promised
<1>5. CASE (\E delay : Marked(e, mark, delay)) /\ NextRow(d)
  <2>1. PICK delay : Marked(e, mark, delay)
    BY <1>5
  <2>2. mark \in Statuses \ {"none"}
    BY DEF Statuses
  <2>3. /\ Delivery!Decide(e, mark)
        /\ Grows /\ attempts' \in [Events -> Nat] /\ TableQueued' /\ stream' \subseteq Events
    BY <1>1, <1>2, <2>1, <2>2, MarkDecides
  <2>4. PassesSound'
    BY <1>0, <1>5, <2>3, LeavesSound
  <2>5. Delivery!Next
    <3>1. CASE mark = "delivered"
      <4>1. e \in stream
        BY <1>3, <3>1 DEF PromiseInv, Inv, StepsInOrder
      <4> QED BY <1>1, <2>3, <3>1, <4>1 DEF Delivery!Next, Delivery!MarkDelivered, Delivery!Queueable, Events
    <3>2. CASE mark = "pending"
      <4>1. Buildable(pass[d].at, pass[d].rows, stream)
        BY DEF PromiseInv, PassesSound
      <4>2. e \notin Defective \/ e \in stream
        BY <1>3, <3>2, <4>1 DEF Buildable, Current
      <4> QED BY <1>1, <2>3, <3>2, <4>2 DEF Delivery!Next, Delivery!PutOff, Delivery!Queueable, Events, Defective
    <3>3. CASE mark = "dead"
      <4>1. e \in Defective \/ attempts[e] + 1 >= MaxAttempts
        <5>1. CASE Malformed(e)
          BY <5>1 DEF Malformed, Defective
        <5>2. CASE IsExhausted(Current(d).attempts + 1)
          <6>1. Current(d).attempts + 1 >= MaxAttempts /\ MaxAttempts \in Nat
            BY <5>2, OutboxAssumption DEF IsExhausted, OutboxAssumption
          <6> QED BY <1>1, <6>1
        <5> QED BY <1>3, <3>3, <5>1, <5>2
      <4> QED BY <1>1, <2>3, <3>3, <4>1 DEF Delivery!Next, Delivery!GiveUp, Delivery!Queueable, Events, Defective
    <3> QED BY <3>1, <3>2, <3>3
  <2> QED BY <2>3, <2>4, <2>5 DEF RowsSound, Promised
<1> QED BY <1>3, <1>4, <1>5

\* The steps before the mark, and those that fail or are cut off.
LEMMA AttemptIsPromised ==
    ASSUME PromiseInv, NEW d \in Drainers,
           \/ DrainBegin(d) \/ SkipCheckpointed(d) \/ TruncateArtifact(d) \/ WriteArtifact(d)
           \/ Publish(d) \/ Bookkeep(d) \/ AttemptFails(d) \/ RecordFails(d) \/ Crash(d)
    PROVE  RowsSound' /\ Promised
<1> DEFINE e == Current(d).event
<1>1. CASE DrainBegin(d)
  <2>1. UNCHANGED <<db, stream>>
    BY <1>1 DEF DrainBegin, world
  <2> QED BY <1>1, <2>1, QuietPass, BeginReads DEF RowsSound, Promised
<1>2. CASE Crash(d)
  <2>1. UNCHANGED <<db, stream>> /\ pass' = [pass EXCEPT ![d] = [at |-> "idle", rows |-> <<>>]]
    BY <1>2 DEF Crash, world, Idle
  <2>2. ReadFrom(<<>>, status, attempts) /\ Buildable("idle", <<>>, stream')
    BY DEF ReadFrom, Buildable
  <2>3. PassesSound'
    BY <2>1, <2>2, QuietPass, PassMovesSoundly
  <2> QED BY <2>1, <2>3, QuietPass DEF RowsSound, Promised
<1>3. CASE RecordFails(d)
  <2>1. UNCHANGED <<db, stream>> /\ Raises(d) /\ pass[d].at \notin {"idle", "raised"}
    BY <1>3 DEF RecordFails, world
  <2>2. PassesSound'
    BY <2>1, QuietPass, LeavesSound
  <2> QED BY <2>1, <2>2, QuietPass DEF RowsSound, Promised
<1>4. CASE AttemptFails(d)
  <2>1. UNCHANGED <<db, stream>> /\ At(d, "failed") /\ pass[d].at \in {"row", "write", "publish", "mark"}
    BY <1>4 DEF AttemptFails, world
  <2>2. e \notin Defective \/ e \in stream
    <3>1. CASE pass[d].at = "row"
      <4>1. ~Malformed(e)
        BY <1>4, <3>1 DEF AttemptFails
      <4>2. checkpoints \subseteq stream
        BY DEF PromiseInv, Inv, CheckpointsLast
      <4> QED BY <4>1, <4>2 DEF Malformed, Defective
    <3>2. CASE pass[d].at \in {"write", "publish"}
      BY <3>2 DEF PromiseInv, PassesSound, Buildable, Current
    <3>3. CASE pass[d].at = "mark"
      BY <3>3 DEF PromiseInv, Inv, StepsInOrder
    <3> QED BY <2>1, <3>1, <3>2, <3>3
  <2>3. stream' = stream /\ pass[d].at \notin {"idle", "raised"}
    BY <2>1
  <2>4. PassesSound'
    BY <2>1, <2>2, <2>3, QuietPass, StaysSound
  <2> QED BY <2>1, <2>4, QuietPass DEF RowsSound, Promised
<1>5. CASE SkipCheckpointed(d) \/ Bookkeep(d)
  <2>1. UNCHANGED <<db, stream>> /\ At(d, "mark") /\ pass[d].at \notin {"idle", "raised"}
    BY <1>5 DEF SkipCheckpointed, Bookkeep, world
  <2>2. PassesSound'
    BY <2>1, QuietPass, StaysSound
  <2> QED BY <2>1, <2>2, QuietPass DEF RowsSound, Promised
<1>6. CASE TruncateArtifact(d) \/ WriteArtifact(d)
  <2>1. /\ UNCHANGED <<db, stream>> /\ pass[d].at \notin {"idle", "raised"}
        /\ At(d, "write") \/ At(d, "publish")
    BY <1>6 DEF TruncateArtifact, WriteArtifact
  <2>2. e \notin Defective
    <3>1. CASE TruncateArtifact(d)
      BY <3>1 DEF TruncateArtifact, Malformed, Defective
    <3>2. CASE WriteArtifact(d)
      BY <3>2 DEF WriteArtifact, PromiseInv, PassesSound, Buildable, Current
    <3> QED BY <1>6, <3>1, <3>2
  <2>3. PassesSound'
    BY <2>1, <2>2, QuietPass, StaysSound
  <2> QED BY <2>1, <2>3, QuietPass DEF RowsSound, Promised
<1>7. CASE Publish(d)
  <2>1. /\ pass[d].at = "publish" /\ stream' = stream \cup {e} /\ UNCHANGED db
        /\ At(d, "bookkeep") \/ At(d, "failed")
    BY <1>7 DEF Publish
  <2>2. e \in Events /\ status[e] # "none"
    BY <2>1, CurrentIsQueued
  <2>3. e \notin Defective
    BY <2>1 DEF PromiseInv, PassesSound, Buildable, Current
  <2>4. /\ Grows /\ attempts' \in [Events -> Nat] /\ TableQueued' /\ stream' \subseteq Events
        /\ UNCHANGED <<status, attempts>>
    BY <2>1, <2>2 DEF Grows, TableQueued, PromiseInv, db
  <2>5. PassesSound'
    BY <2>1, <2>3, <2>4, StaysSound
  <2>6. Delivery!PublishEvent(e)
    BY <2>1, <2>2, <2>3, <2>4 DEF Delivery!PublishEvent, Defective
  <2>7. Delivery!Next
    BY <2>2, <2>6 DEF Delivery!Next, Delivery!Queueable, Events
  <2> QED BY <2>4, <2>5, <2>7 DEF RowsSound, Promised
<1> QED BY <1>1, <1>2, <1>3, <1>4, <1>5, <1>6, <1>7

LEMMA TerminalWriteIsPromised ==
    ASSUME PromiseInv, NEW r \in Runs, RecordTerminalRun(r)
    PROVE  RowsSound' /\ Promised
<1>1. /\ table' = table \o Owes[r] /\ \A e \in OwedBy(r) : status[e] = "none"
      /\ status' = [e \in Events |-> IF e \in OwedBy(r) THEN "pending" ELSE status[e]]
      /\ UNCHANGED <<attempts, stream, pass>>
  BY DEF RecordTerminalRun, world
<1>2. Owes[r] \in Seq(Events) /\ \A i \in DOMAIN Owes[r] : Owes[r][i] \in OwedBy(r)
  BY OutboxAssumption DEF OutboxAssumption, OwedBy
<1>3. status \in [Events -> Statuses] /\ attempts \in [Events -> Nat] /\ table \in Seq(Events)
  BY DEF PromiseInv, Inv, Shapes, TableQueued
<1>4. Grows /\ attempts' \in [Events -> Nat]
  BY <1>1, <1>3 DEF Grows
<1>5. TableQueued'
  <2>1. table' \in Seq(Events)
    BY <1>1, <1>2, <1>3
  <2>2. ASSUME NEW i \in DOMAIN table' PROVE status'[table'[i]] # "none"
    <3>1. CASE i \in DOMAIN table
      <4>1. table'[i] = table[i] /\ table[i] \in Events /\ status[table[i]] # "none"
        BY <1>1, <1>2, <1>3, <3>1 DEF PromiseInv, TableQueued
      <4> QED BY <1>1, <4>1
    <3>2. CASE i \notin DOMAIN table
      <4>1. i - Len(table) \in DOMAIN Owes[r] /\ table'[i] = Owes[r][i - Len(table)]
        BY <1>1, <1>2, <1>3, <3>2
      <4>2. table'[i] \in OwedBy(r) /\ table'[i] \in Events
        BY <1>2, <4>1
      <4> QED BY <1>1, <4>2
    <3> QED BY <3>1, <3>2
  <2> QED BY <2>1, <2>2 DEF TableQueued
<1>6. PassesSound'
  <2>1. ASSUME NEW d \in Drainers
        PROVE  ReadFrom(pass[d].rows, status', attempts') /\ Buildable(pass[d].at, pass[d].rows, stream')
    <3>1. ReadFrom(pass[d].rows, status, attempts) /\ Buildable(pass[d].at, pass[d].rows, stream)
      BY DEF PromiseInv, PassesSound
    <3> QED BY <1>1, <1>4, <3>1, GrownReads
  <2> QED BY <1>1, <2>1 DEF PassesSound
<1>7. Delivery!Queue(OwedBy(r))
  BY <1>1 DEF Delivery!Queue, Delivery!Queueable, Events
<1>8. Delivery!Next
  BY <1>7 DEF Delivery!Next
<1>9. stream' \subseteq Events
  BY <1>1 DEF PromiseInv
<1> QED BY <1>4, <1>5, <1>6, <1>8, <1>9 DEF RowsSound, Promised

LEMMA PromiseStep ==
    ASSUME PromiseInv, [Next]_vars
    PROVE  PromiseInv' /\ Promised
<1>1. RowsSound' /\ Promised
  <2>1. CASE UNCHANGED vars \/ Tick
    <3>1. UNCHANGED <<table, status, attempts, stream, pass>>
      BY <2>1 DEF vars, db, world, Tick
    <3> QED BY <3>1 DEF PromiseInv, RowsSound, TableQueued, PassesSound, Promised
  <2>2. ASSUME NEW r \in Runs, RecordTerminalRun(r) PROVE RowsSound' /\ Promised
    BY <2>2, TerminalWriteIsPromised
  <2>3. ASSUME NEW d \in Drainers, DrainBegin(d) \/ Deliver(d) \/ Crash(d) PROVE RowsSound' /\ Promised
    BY <2>3, OutcomeIsPromised, AttemptIsPromised DEF Deliver
  <2> QED BY <2>1, <2>2, <2>3 DEF Next
<1>2. Inv'
  BY InvStep DEF PromiseInv
<1> QED BY <1>1, <1>2 DEF PromiseInv, RowsSound

\* record_terminal_run and the outbox: whatever passes overlap, whatever they
\* read before others wrote and wherever they die, the rows of the table move
\* as EventDelivery promises.  An event that can be built is given up only when
\* its attempts are used up, and delivered only when it is on the stream.
THEOREM OutboxKeepsItsPromise == Spec => ImplementsEventDelivery
<1>1. Init => PromiseInv
  BY InitPromise
<1>2. Init => Delivery!Init
  <2> SUFFICES ASSUME Init PROVE Delivery!Init
    OBVIOUS
  <2>1. stream \subseteq Events
    BY InitPromise DEF PromiseInv
  <2> QED BY <2>1 DEF Init, Delivery!Init, Delivery!Queueable, Events
<1>3. PromiseInv /\ [Next]_vars => PromiseInv' /\ [Delivery!Next]_(Delivery!deliveryVars)
  BY PromiseStep DEF Promised, Delivery!deliveryVars
<1> QED BY <1>1, <1>2, <1>3, PTL DEF Spec, ImplementsEventDelivery, Delivery!Spec

-----------------------------------------------------------------------------
(* The types of the columns, the clock and the passes.                     *)

\* A set of natural numbers that is not empty has a least member.
LEMMA LeastNatural ==
    ASSUME NEW S \in SUBSET Nat, S # {}
    PROVE  \E x \in S : \A y \in S : x <= y
<1> DEFINE R == OpToRel(<, Nat)
<1>1. IsWellFoundedOn(R, Nat)
  BY NatLessThanWellFounded
<1>2. PICK x \in S : \A y \in S : ~(<<y, x>> \in R)
  <2> HIDE DEF R
  <2> QED BY <1>1, WFMin, Zenon
<1>3. \A y \in S : x \in Nat /\ y \in Nat /\ ~(y < x)
  BY <1>2 DEF OpToRel
<1> QED BY <1>3

\* delay_for's sequence of delays: for any number of failures there is one.
LEMMA DelaysExist ==
    ASSUME NEW n \in Nat
    PROVE  \E f \in [1..n -> Nat] :
              f = [k \in 1..n |-> IF k = 1 THEN BaseDelay ELSE Factor * f[k - 1]]
<1> DEFINE Delays(f, m) == /\ f \in [1..m -> Nat]
                           /\ f = [k \in 1..m |-> IF k = 1 THEN BaseDelay ELSE Factor * f[k - 1]]
           Missing == {m \in Nat : ~\E f : Delays(f, m)}
<1>0. BaseDelay \in Nat /\ Factor \in Nat
  BY OutboxAssumption DEF OutboxAssumption
<1> SUFFICES Missing = {}
  OBVIOUS
<1> SUFFICES ASSUME Missing # {} PROVE FALSE
  OBVIOUS
<1>1. PICK m \in Missing : \A y \in Missing : m <= y
  <2>1. Missing \in SUBSET Nat
    OBVIOUS
  <2> HIDE DEF Missing
  <2> QED BY <2>1, LeastNatural
<1>2. CASE m = 0
  <2> DEFINE f == [k \in 1..0 |-> 0]
  <2>1. Delays(f, 0)
    OBVIOUS
  <2> HIDE DEF f, Delays
  <2> QED BY <1>2, <2>1
<1>3. CASE m # 0
  <2>1. m - 1 \in Nat /\ m - 1 < m
    BY <1>3
  <2>2. PICK f : Delays(f, m - 1)
    <3> HIDE DEF Delays
    <3> QED BY <1>1, <2>1
  <2> DEFINE g == [k \in 1..m |-> IF k = 1 THEN BaseDelay ELSE Factor * f[k - 1]]
  <2>3. ASSUME NEW k \in 1..m PROVE g[k] \in Nat
    <3>1. CASE k = 1
      BY <1>0, <3>1
    <3>2. CASE k # 1
      <4>1. k - 1 \in 1..(m - 1)
        BY <3>2
      <4>2. f[k - 1] \in Nat
        BY <2>2, <4>1
      <4>3. g[k] = Factor * f[k - 1]
        BY <3>2
      <4> HIDE DEF g
      <4> QED BY <1>0, <4>2, <4>3
    <3> QED BY <3>1, <3>2
  <2>4. ASSUME NEW k \in 1..(m - 1) PROVE g[k] = f[k]
    <3>1. k \in 1..m
      BY <2>1
    <3> QED BY <2>2, <3>1
  <2>5. ASSUME NEW k \in 1..m PROVE g[k] = IF k = 1 THEN BaseDelay ELSE Factor * g[k - 1]
    <3>1. CASE k = 1
      BY <3>1
    <3>2. CASE k # 1
      <4>1. k - 1 \in 1..(m - 1)
        BY <3>2
      <4>2. g[k - 1] = f[k - 1] /\ g[k] = Factor * f[k - 1]
        BY <2>4, <4>1, <3>2
      <4> HIDE DEF g
      <4> QED BY <3>2, <4>2
    <3> QED BY <3>1, <3>2
  <2>6. g = [k \in 1..m |-> g[k]]
    OBVIOUS
  <2> HIDE DEF g
  <2>7. Delays(g, m)
    BY <2>3, <2>5, <2>6
  <2> HIDE DEF Delays
  <2> QED BY <2>7
<1> QED BY <1>2, <1>3

\* delay_for: never longer than the ceiling, and never negative.
LEMMA DelayIsCapped ==
    ASSUME NEW n \in Nat \ {0}
    PROVE  DelayFor(n) \in 0..MaxDelay
<1> DEFINE Rec(f) == f = [k \in 1..n |-> IF k = 1 THEN BaseDelay ELSE Factor * f[k - 1]]
           delay == CHOOSE f : Rec(f)
<1>0. BaseDelay \in Nat /\ Factor \in Nat /\ MaxDelay \in Nat
  BY OutboxAssumption DEF OutboxAssumption
<1>1. Rec(delay)
  <2>1. \E f : Rec(f)
    BY DelaysExist
  <2> HIDE DEF Rec
  <2> QED BY <2>1
<1> HIDE DEF delay
<1>2. \A k \in 1..n : delay[k] \in Nat
  <2>1. PICK f \in [1..n -> Nat] : Rec(f)
    BY DelaysExist
  <2> DEFINE Apart == {k \in 1..n : delay[k] # f[k]}
  <2>2. Apart = {}
    <3> SUFFICES ASSUME Apart # {} PROVE FALSE
      OBVIOUS
    <3>1. PICK x \in Apart : \A y \in Apart : x <= y
      <4>1. Apart \in SUBSET Nat
        OBVIOUS
      <4> HIDE DEF Apart
      <4> QED BY <4>1, LeastNatural
    <3>2. CASE x = 1
      BY <1>1, <2>1, <3>2
    <3>3. CASE x # 1
      <4>1. x - 1 \in 1..n /\ x - 1 \notin Apart
        BY <3>1, <3>3
      <4>2. delay[x - 1] = f[x - 1]
        BY <4>1
      <4>3. delay[x] = Factor * delay[x - 1] /\ f[x] = Factor * f[x - 1]
        BY <1>1, <2>1, <3>3
      <4> QED BY <4>2, <4>3
    <3> QED BY <3>2, <3>3
  <2> QED BY <2>1, <2>2
<1>3. DelayFor(n) = IF delay[n] < MaxDelay THEN delay[n] ELSE MaxDelay
  BY DEF DelayFor, delay
<1>4. delay[n] \in Nat
  BY <1>2
<1> QED BY <1>0, <1>3, <1>4

\* Where a pass is, and whether it has rows before it.
AtWork == Points \ {"idle", "raised"}
Walks(p) == p.at \in Points /\ (p.at \in {"idle", "raised"} <=> p.rows = <<>>)

\* What TypeOK says besides PromiseInv.
ColumnsTyped ==
    /\ wait \in [Events -> 0..MaxDelay] /\ faults \in 0..MaxFaults
    /\ artifacts \subseteq Events /\ torn \subseteq Events /\ checkpoints \subseteq Checkpointed
    /\ \A d \in Drainers : Walks(pass[d])

\* A step of one pass.
LEMMA OneWalks ==
    ASSUME Inv, ColumnsTyped, NEW d \in Drainers, NEW at, NEW rows,
           pass' = [pass EXCEPT ![d] = [at |-> at, rows |-> rows]],
           \/ at \in {"idle", "raised"} /\ rows = <<>>
           \/ at \in AtWork /\ rows # <<>>
    PROVE  \A q \in Drainers : Walks(pass'[q])
<1>1. ASSUME NEW q \in Drainers PROVE pass'[q] = IF q = d THEN [at |-> at, rows |-> rows] ELSE pass[q]
  BY DEF Inv, Shapes, PassShape
<1>2. Walks([at |-> at, rows |-> rows])
  BY DEF Walks, AtWork, Points
<1> QED BY <1>1, <1>2 DEF ColumnsTyped

LEMMA AtWalks ==
    ASSUME PromiseInv, ColumnsTyped, NEW d \in Drainers, pass[d].at \in AtWork, NEW at \in AtWork, At(d, at)
    PROVE  \A q \in Drainers : Walks(pass'[q])
<1>1. pass' = [pass EXCEPT ![d] = [at |-> at, rows |-> pass[d].rows]]
  BY AtMoves DEF PromiseInv, Inv, Shapes
<1>2. pass[d].rows # <<>>
  BY DEF PromiseInv, PassesSound, Buildable, AtWork
<1> QED BY <1>1, <1>2, OneWalks DEF PromiseInv

LEMMA EndWalks ==
    ASSUME PromiseInv, ColumnsTyped, NEW d \in Drainers, NextRow(d) \/ Raises(d)
    PROVE  \A q \in Drainers : Walks(pass'[q])
<1> DEFINE rest == Tail(pass[d].rows)
<1>1. CASE Raises(d)
  BY <1>1, OneWalks DEF Raises, PromiseInv
<1>2. CASE NextRow(d) /\ rest = <<>>
  BY <1>2, OneWalks DEF NextRow, Idle, PromiseInv
<1>3. CASE NextRow(d) /\ rest # <<>>
  <2>1. pass' = [pass EXCEPT ![d] = [at |-> "row", rows |-> rest]] /\ "row" \in AtWork
    BY <1>3 DEF NextRow, AtWork, Points
  <2> HIDE DEF rest
  <2> QED BY <1>3, <2>1, OneWalks DEF PromiseInv
<1> QED BY <1>1, <1>2, <1>3

\* The columns, the stream and the disk.
LEMMA ColumnsStep ==
    ASSUME PromiseInv, ColumnsTyped, [Next]_vars
    PROVE  /\ wait' \in [Events -> 0..MaxDelay] /\ faults' \in 0..MaxFaults
           /\ artifacts' \subseteq Events /\ torn' \subseteq Events
           /\ checkpoints' \subseteq Checkpointed
<1>0. MaxFaults \in Nat /\ MaxDelay \in Nat
  BY OutboxAssumption DEF OutboxAssumption
<1>1. faults' \in 0..MaxFaults
  BY <1>0 DEF ColumnsTyped, Next, vars, RecordTerminalRun, Tick, DrainBegin, Deliver, Crash, DeadOnArrival,
     SkipCheckpointed, TruncateArtifact, WriteArtifact, Publish, Bookkeep, MarkDelivered, AttemptFails, RecordFailure,
     RecordFails, Fault, NoFault
<1>2. artifacts' \subseteq Events /\ torn' \subseteq Events
  <2> DEFINE Writes(d) == TruncateArtifact(d) \/ WriteArtifact(d) \/ AttemptFails(d) \/ Crash(d)
  <2>1. CASE \E d \in Drainers : Writes(d)
    <3>1. PICK d \in Drainers : Writes(d)
      BY <2>1
    <3>2. pass[d].at \in {"row", "write"} => Current(d).event \in Events
      BY CurrentIsQueued
    <3>3. artifacts' \subseteq artifacts \cup {Current(d).event} /\ torn' \subseteq torn \cup {Current(d).event}
          /\ (pass[d].at \notin {"row", "write"} => UNCHANGED <<artifacts, torn>>)
      BY <3>1 DEF TruncateArtifact, WriteArtifact, AttemptFails, Crash, CutOff
    <3> QED BY <3>2, <3>3 DEF ColumnsTyped
  <2>2. CASE ~\E d \in Drainers : Writes(d)
    <3>1. UNCHANGED <<artifacts, torn>>
      BY <2>2 DEF Next, vars, world, RecordTerminalRun, Tick, DrainBegin, Deliver, DeadOnArrival,
         SkipCheckpointed, Publish, Bookkeep, MarkDelivered, RecordFailure, RecordFails
    <3> QED BY <3>1 DEF ColumnsTyped
  <2> QED BY <2>1, <2>2
<1>3. checkpoints' \subseteq Checkpointed
  BY DEF ColumnsTyped, Next, vars, world, RecordTerminalRun, Tick, DrainBegin, Deliver, Crash, DeadOnArrival,
     SkipCheckpointed, TruncateArtifact, WriteArtifact, Publish, Bookkeep, MarkDelivered, AttemptFails, RecordFailure, RecordFails
<1>4. wait' \in [Events -> 0..MaxDelay]
  <2>1. CASE Tick
    <3>1. wait' = [e \in Events |-> IF wait[e] > 0 THEN wait[e] - 1 ELSE 0]
      BY <2>1 DEF Tick
    <3>2. \A e \in Events : wait[e] \in 0..MaxDelay
      BY DEF ColumnsTyped
    <3>3. \A e \in Events : (IF wait[e] > 0 THEN wait[e] - 1 ELSE 0) \in 0..MaxDelay
      BY <1>0, <3>2
    <3> QED BY <3>1, <3>3
  <2>2. CASE \E d \in Drainers : DeadOnArrival(d) \/ MarkDelivered(d) \/ RecordFailure(d)
    <3>1. PICK d \in Drainers : DeadOnArrival(d) \/ MarkDelivered(d) \/ RecordFailure(d)
      BY <2>2
    <3> DEFINE e == Current(d).event
    <3>2. pass[d].at \notin {"idle", "raised"}
      BY <3>1 DEF DeadOnArrival, MarkDelivered, RecordFailure
    <3>3. e \in Events /\ Current(d).attempts + 1 \in Nat \ {0}
      BY <3>2, CurrentIsQueued
    <3>4. wait[e] \in 0..MaxDelay /\ DelayFor(Current(d).attempts + 1) \in 0..MaxDelay
      BY <3>3, DelayIsCapped DEF ColumnsTyped
    <3>5. wait' = wait \/ \E delay \in 0..MaxDelay : wait' = [wait EXCEPT ![e] = delay]
      BY <3>1, <3>4 DEF DeadOnArrival, MarkDelivered, RecordFailure, Marked, MarkRefused, db
    <3> HIDE DEF e
    <3> QED BY <3>3, <3>5 DEF ColumnsTyped
  <2>3. CASE ~Tick /\ ~\E d \in Drainers : DeadOnArrival(d) \/ MarkDelivered(d) \/ RecordFailure(d)
    <3>1. wait' = wait
      BY <2>3 DEF Next, vars, db, RecordTerminalRun, DrainBegin, Deliver, Crash, SkipCheckpointed, TruncateArtifact, WriteArtifact,
         Publish, Bookkeep, AttemptFails, RecordFails
    <3> QED BY <3>1 DEF ColumnsTyped
  <2> QED BY <2>1, <2>2, <2>3
<1> QED BY <1>1, <1>2, <1>3, <1>4

\* A pass has rows before it exactly while it is at work on them.
LEMMA PassesWalk ==
    ASSUME PromiseInv, ColumnsTyped, [Next]_vars
    PROVE  \A q \in Drainers : Walks(pass'[q])
<1>1. CASE pass' = pass
  BY <1>1 DEF ColumnsTyped
<1>2. ASSUME NEW d \in Drainers, DrainBegin(d) PROVE \A q \in Drainers : Walks(pass'[q])
  <2>1. PICK limit \in 1..Cardinality(Due) : \E place \in [1..limit -> Due] :
          pass' = [pass EXCEPT ![d] =
              [at |-> "row",
               rows |-> [i \in 1..limit |->
                           [event |-> table[place[i]], attempts |-> attempts[table[place[i]]]]]]]
    BY <1>2 DEF DrainBegin
  <2>2. PICK place \in [1..limit -> Due] :
          pass' = [pass EXCEPT ![d] =
              [at |-> "row",
               rows |-> [i \in 1..limit |->
                           [event |-> table[place[i]], attempts |-> attempts[table[place[i]]]]]]]
    BY <2>1
  <2> DEFINE rows == [i \in 1..limit |-> [event |-> table[place[i]], attempts |-> attempts[table[place[i]]]]]
  <2>3. DOMAIN rows = 1..limit /\ 1 \in DOMAIN rows
    OBVIOUS
  <2>4. pass' = [pass EXCEPT ![d] = [at |-> "row", rows |-> rows]] /\ "row" \in AtWork
    BY <2>2 DEF AtWork, Points
  <2> HIDE DEF rows
  <2>5. rows # <<>>
    BY <2>3
  <2> QED BY <2>4, <2>5, OneWalks DEF PromiseInv
<1>3. ASSUME NEW d \in Drainers, Crash(d) PROVE \A q \in Drainers : Walks(pass'[q])
  BY <1>3, OneWalks DEF Crash, Idle, PromiseInv
<1>4. ASSUME NEW d \in Drainers, Deliver(d) PROVE \A q \in Drainers : Walks(pass'[q])
  <2>1. pass[d].at \in AtWork
    BY <1>4 DEF Deliver, DeadOnArrival, SkipCheckpointed, TruncateArtifact, WriteArtifact, Publish, Bookkeep, MarkDelivered,
       AttemptFails, RecordFailure, RecordFails, AtWork, Points
  <2>2. NextRow(d) \/ Raises(d) \/ \E at \in {"write", "publish", "bookkeep", "mark", "failed"} : At(d, at)
    BY <1>4 DEF Deliver, DeadOnArrival, SkipCheckpointed, TruncateArtifact, WriteArtifact, Publish, Bookkeep, MarkDelivered,
       AttemptFails, RecordFailure, RecordFails
  <2>3. {"write", "publish", "bookkeep", "mark", "failed"} \subseteq AtWork
    BY DEF AtWork, Points
  <2> QED BY <2>1, <2>2, <2>3, AtWalks, EndWalks
<1> QED BY <1>1, <1>2, <1>3, <1>4 DEF Next, vars, RecordTerminalRun, Tick

\* Every column and every pass keeps its type; among others a wait never
\* exceeds the ceiling of the backoff, and a pass that is over has no rows.
THEOREM TypeCorrect == Spec => []TypeOK
<1>1. Init => PromiseInv /\ ColumnsTyped
  <2> SUFFICES ASSUME Init PROVE ColumnsTyped
    BY InitPromise
  <2>1. MaxDelay \in Nat /\ MaxFaults \in Nat /\ Checkpointed \subseteq Events
    BY OutboxAssumption DEF OutboxAssumption
  <2>2. \A d \in Drainers : Walks(pass[d])
    BY DEF Init, Idle, Walks, Points
  <2> QED BY <2>1, <2>2 DEF Init, ColumnsTyped
<1>2. PromiseInv /\ ColumnsTyped /\ [Next]_vars => (PromiseInv /\ ColumnsTyped)'
  BY PromiseStep, ColumnsStep, PassesWalk DEF ColumnsTyped
<1>3. PromiseInv /\ ColumnsTyped => TypeOK
  <2> SUFFICES ASSUME PromiseInv, ColumnsTyped PROVE TypeOK
    OBVIOUS
  <2>1. \A d \in Drainers : Walks(pass[d]) /\ pass[d].rows \in Seq(Snapshot)
    BY DEF ColumnsTyped, PromiseInv, PassesSound, ReadFrom
  <2>2. /\ table \in Seq(Events) /\ status \in [Events -> Statuses]
        /\ attempts \in [Events -> Nat] /\ stream \subseteq Events
    BY DEF PromiseInv, TableQueued, Inv, Shapes
  <2> QED BY <2>1, <2>2 DEF TypeOK, ColumnsTyped, Walks
<1> QED BY <1>1, <1>2, <1>3, PTL DEF Spec

=============================================================================

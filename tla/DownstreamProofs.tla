--------------------------- MODULE DownstreamProofs --------------------------
(***************************************************************************)
(* Theorems about what is downstream of the ledger: the knowledge stream,  *)
(* the watermarks that report on it, and the publications that the         *)
(* watermarks let pass or refuse.  For any number of workers, pollers,     *)
(* entries, retries and failures and any batch size; and for any number of *)
(* overlapping publications, commits, journal rows, versions of the corpus *)
(* and mishaps.                                                            *)
(***************************************************************************)
EXTENDS ProjectionWatermarks, Publication, FiniteSetTheorems, WellFoundedInduction, TLAPS

-----------------------------------------------------------------------------
(* The knowledge stream.                                                   *)

\* A worker about to acknowledge has the entry confirmed or has filed it.
AckIsEarned ==
    \A p \in Workers :
        /\ proc[p].at = "ack" => IsConfirmed(Current(p))
        /\ proc[p].at = "ackDead" => Current(p) \in deadLetters

\* What was handed out is pending until it is acknowledged.
NothingSkipped == 1..delivered \subseteq pending \cup acked

\* The acknowledgement a worker reports was made.
LastIsAcked == \A p \in Workers : proc[p].last # 0 => proc[p].last \in acked

StreamInv == TypeOK /\ AckIsEarned /\ AckedIsAccountedFor /\ NothingSkipped /\ LastIsAcked

-----------------------------------------------------------------------------
(* The operators.                                                          *)

\* A set of ids that is not empty has a first one.
LEMMA MinIsMember ==
    ASSUME NEW S \in SUBSET Nat, S # {}
    PROVE  Min(S) \in S
<1> DEFINE R == OpToRel(<, Nat)
<1>1. PICK x \in S : \A y \in S : ~(<<y, x>> \in R)
  <2>1. IsWellFoundedOn(R, Nat)
    BY NatLessThanWellFounded
  <2> HIDE DEF R
  <2> QED BY <2>1, WFMin, Zenon
<1>2. \A y \in S : ~(y < x)
  BY <1>1 DEF OpToRel
<1>3. \A y \in S : x =< y
  BY <1>2
<1> QED BY <1>3 DEF Min

\* What XREADGROUP hands out of the entries behind a is the interval up to the
\* group's new position.
LEMMA FirstOfInterval ==
    ASSUME NEW a \in Nat, NEW b \in Nat, a <= b
    PROVE  LET n == Cardinality(FirstOf((a + 1)..b))
           IN  /\ n \in Nat /\ a + n <= b
               /\ FirstOf((a + 1)..b) = (a + 1)..(a + n)
<1> DEFINE S == (a + 1)..b
           m == IF b - a < ClaimBatch THEN b ELSE a + ClaimBatch
<1>0. ClaimBatch \in Nat /\ ClaimBatch > 0
  BY StreamAssumption
<1>1. ASSUME NEW e \in S
      PROVE  Cardinality({f \in S : f < e}) = (e - 1) - a
  <2>1. {f \in S : f < e} = (a + 1)..(e - 1)
    OBVIOUS
  <2>2. a + 1 \in Int /\ e - 1 \in Int
    OBVIOUS
  <2>3. Cardinality((a + 1)..(e - 1)) = IF a + 1 > e - 1 THEN 0 ELSE (e - 1) - (a + 1) + 1
    BY <2>2, FS_Interval, Zenon
  <2>4. Cardinality({f \in S : f < e}) = Cardinality((a + 1)..(e - 1))
    BY <2>1, Zenon
  <2>5. (IF a + 1 > e - 1 THEN 0 ELSE (e - 1) - (a + 1) + 1) = (e - 1) - a
    OBVIOUS
  <2> QED BY <2>3, <2>4, <2>5, Zenon
<1>2. FirstOf(S) = {e \in S : (e - 1) - a < ClaimBatch}
  BY <1>1 DEF FirstOf
<1>3. m \in Nat /\ a <= m /\ m <= b
  BY <1>0
<1>4. FirstOf(S) = (a + 1)..m
  <2>1. ASSUME NEW e \in S
        PROVE  (e - 1) - a < ClaimBatch <=> e <= m
    BY <1>0
  <2>2. FirstOf(S) = {e \in S : e <= m}
    BY <1>2, <2>1, Zenon
  <2> HIDE DEF m
  <2>3. {e \in S : e <= m} = (a + 1)..m
    BY <1>3
  <2> QED BY <2>2, <2>3, Zenon
<1>5. Cardinality((a + 1)..m) = m - a
  <2> HIDE DEF m
  <2>1. a + 1 \in Int /\ m \in Int
    BY <1>3
  <2>2. Cardinality((a + 1)..m) = IF a + 1 > m THEN 0 ELSE m - (a + 1) + 1
    BY <2>1, FS_Interval, Zenon
  <2> QED BY <1>3, <2>2
<1> HIDE DEF m
<1> QED BY <1>3, <1>4, <1>5

\* A worker's locals, when the group is at position n.
ProcState(n) == [at : Points, batch : SUBSET (1..n), claimed : BOOLEAN, last : 0..n]

LEMMA FreshType ==
    ASSUME NEW n \in Nat
    PROVE  Fresh \in ProcState(n) /\ [Fresh EXCEPT !.at = "error"] \in ProcState(n)
<1>1. 0 \in 0..n /\ {} \in SUBSET (1..n) /\ FALSE \in BOOLEAN
  OBVIOUS
<1>2. \A at \in Points : [at |-> at, batch |-> {}, claimed |-> FALSE, last |-> 0] \in ProcState(n)
  BY <1>1 DEF ProcState
<1>3. "poll" \in Points /\ "error" \in Points
  BY DEF Points
<1> QED BY <1>2, <1>3 DEF Fresh

LEMMA AfterEntryType ==
    ASSUME NEW n \in Nat, NEW r \in ProcState(n), r.batch # {}
    PROVE  /\ AfterEntry(r) \in ProcState(n)
           /\ AfterEntry(r).at \in {"handle", "read", "report"}
           /\ AfterEntry(r).at = "handle" => AfterEntry(r).batch # {}
           /\ AfterEntry(r).last = r.last
BY DEF AfterEntry, ProcState, Points

\* The entry a worker is at was handed out, and so is an entry of the stream.
LEMMA CurrentIsDelivered ==
    ASSUME TypeOK, NEW p \in Workers, proc[p].batch # {}
    PROVE  Current(p) \in proc[p].batch /\ Current(p) \in 1..delivered /\ Current(p) \in Entries
<1>1. proc[p].batch \subseteq 1..delivered /\ delivered \in 0..head /\ head \in 0..MaxEntries
  BY DEF TypeOK
<1>2. proc[p].batch \in SUBSET Nat
  BY <1>1
<1>3. Current(p) \in proc[p].batch
  BY <1>2, MinIsMember DEF Current
<1> QED BY <1>1, <1>3, StreamAssumption DEF Entries

\* A confirmed entry stays confirmed, whatever is projected next.
LEMMA ProjectedStays ==
    ASSUME TypeOK, NEW e \in Entries, e \notin Poisoned,
           projection' = IF e \in Facts THEN projection ELSE Projected(e)
    PROVE  /\ projection' \in [Entries -> {"none", "stub", "current", "superseded", "tombstoned"}]
           /\ IsConfirmed(e)'
           /\ \A n \in Entries : IsConfirmed(n) => IsConfirmed(n)'
BY DEF Projected, TypeOK, IsConfirmed

-----------------------------------------------------------------------------
(* The inductive invariant.                                                *)

LEMMA InitStream == Init => StreamInv
<1> SUFFICES ASSUME Init PROVE StreamInv
  OBVIOUS
<1>1. TypeOK
  BY StreamAssumption DEF Init, TypeOK, Fresh, Points
<1>2. AckIsEarned /\ AckedIsAccountedFor /\ NothingSkipped /\ LastIsAcked
  BY DEF Init, Fresh, AckIsEarned, AckedIsAccountedFor, IsConfirmed, NothingSkipped, LastIsAcked
<1> QED BY <1>1, <1>2 DEF StreamInv

\* Starting a worker afresh, or losing its batch to an exception, forgets
\* nothing that the group does not know.
LEMMA StartAfresh ==
    ASSUME StreamInv, UNCHANGED <<redis, projection>>, faults' \in 0..MaxFaults,
           proc' \in [Workers -> ProcState(delivered)],
           \A p \in Workers : proc'[p] \in {proc[p], Fresh, [Fresh EXCEPT !.at = "error"]}
    PROVE  StreamInv'
<1> USE DEF StreamInv, redis
<1>1. TypeOK'
  BY DEF TypeOK, ProcState, Fresh
<1>2. AckIsEarned'
  BY DEF AckIsEarned, IsConfirmed, Current, Fresh
<1>3. AckedIsAccountedFor' /\ NothingSkipped'
  BY DEF AckedIsAccountedFor, IsConfirmed, NothingSkipped
<1>4. LastIsAcked'
  BY DEF LastIsAcked, Fresh
<1> QED BY <1>1, <1>2, <1>3, <1>4

\* What handing entries out does to the counters of the pending list.
LEMMA HandOutType ==
    ASSUME TypeOK, NEW S, HandOut(S)
    PROVE  times' \in [Entries -> 0..MaxRetries] /\ idle' \in [Entries -> 0..Lease]
<1>1. /\ MaxRetries \in Nat /\ Lease \in Nat
      /\ times \in [Entries -> 0..MaxRetries] /\ idle \in [Entries -> 0..Lease]
  BY StreamAssumption DEF TypeOK
<1>2. times' \in [Entries -> 0..MaxRetries]
  <2>1. \A e \in Entries : (IF e \in S /\ times[e] < MaxRetries THEN times[e] + 1 ELSE times[e]) \in 0..MaxRetries
    BY <1>1
  <2> QED BY <2>1 DEF HandOut
<1>3. idle' \in [Entries -> 0..Lease]
  <2>1. \A e \in Entries : (IF e \in S THEN 0 ELSE idle[e]) \in 0..Lease
    BY <1>1
  <2> QED BY <2>1 DEF HandOut
<1> QED BY <1>2, <1>3

LEMMA TakeType ==
    ASSUME NEW n \in Nat, NEW p \in Workers, proc \in [Workers -> ProcState(n)],
           NEW ids \in SUBSET (1..n), NEW claimed \in BOOLEAN, NEW otherwise \in {"read", "report"},
           Take(p, ids, claimed, otherwise)
    PROVE  /\ proc' \in [Workers -> ProcState(n)]
           /\ proc'[p].at \in {"error", "read", "report", "handle"}
           /\ proc'[p].at = "handle" => proc'[p].batch # {}
           /\ proc'[p].last = proc[p].last
           /\ \A q \in Workers : q # p => proc'[q] = proc[q]
<1> DEFINE good == ids \cap Garbled = {}
           b == IF good THEN ids ELSE {}
           at == IF ~good THEN "error" ELSE IF ids = {} THEN otherwise ELSE "handle"
           r == [at |-> at, batch |-> b, claimed |-> claimed, last |-> proc[p].last]
<1>1. /\ at \in {"error", "read", "report", "handle"} /\ at \in Points
      /\ b \in SUBSET (1..n) /\ (at = "handle" => b # {})
  BY DEF Points
<1>2. proc' = [proc EXCEPT ![p] = r]
  BY DEF Take
<1> HIDE DEF at, b
<1>3. r \in ProcState(n)
  BY <1>1 DEF ProcState
<1> QED BY <1>1, <1>2, <1>3

LEMMA ClaimKeepsInv ==
    ASSUME StreamInv, NEW p \in Workers, ClaimPending(p)
    PROVE  StreamInv'
<1> DEFINE ids == FirstOf({e \in pending : idle[e] >= Lease})
<1>0. ids \in SUBSET (1..delivered) /\ delivered \in Nat
  <2>1. pending \subseteq 1..delivered /\ delivered \in Nat
    BY StreamAssumption DEF StreamInv, TypeOK
  <2>2. ids \subseteq pending
    BY DEF FirstOf
  <2> QED BY <2>1, <2>2
<1>1. proc \in [Workers -> ProcState(delivered)]
  BY DEF StreamInv, TypeOK, ProcState
<1>2. /\ proc' \in [Workers -> ProcState(delivered)]
      /\ proc'[p].at \in {"error", "read", "report", "handle"}
      /\ proc'[p].at = "handle" => proc'[p].batch # {}
      /\ proc'[p].last = proc[p].last
      /\ \A q \in Workers : q # p => proc'[q] = proc[q]
  <2>1. Take(p, ids, TRUE, "read")
    BY DEF ClaimPending
  <2> HIDE DEF ids
  <2> QED BY <1>0, <1>1, <2>1, TakeType
<1>3. times' \in [Entries -> 0..MaxRetries] /\ idle' \in [Entries -> 0..Lease]
  BY HandOutType DEF ClaimPending, StreamInv
<1>4. UNCHANGED <<head, delivered, pending, acked, deadLetters, projection, faults>>
  BY DEF ClaimPending
<1> HIDE DEF ids
<1>5. TypeOK'
  BY <1>2, <1>3, <1>4 DEF StreamInv, TypeOK, ProcState
<1>6. AckIsEarned' /\ LastIsAcked'
  BY <1>2, <1>4 DEF StreamInv, AckIsEarned, IsConfirmed, LastIsAcked, Current
<1>7. AckedIsAccountedFor' /\ NothingSkipped'
  BY <1>4 DEF StreamInv, AckedIsAccountedFor, IsConfirmed, NothingSkipped
<1> QED BY <1>5, <1>6, <1>7 DEF StreamInv

\* The group's position moves to the last entry handed out, so that no entry is
\* passed over.
LEMMA ReadKeepsInv ==
    ASSUME StreamInv, NEW p \in Workers, ReadEvents(p)
    PROVE  StreamInv'
<1> DEFINE ids == FirstOf((delivered + 1)..head)
           n == Cardinality(ids)
<1>0. /\ delivered \in Nat /\ head \in Nat /\ delivered <= head /\ head <= MaxEntries
      /\ n \in Nat /\ delivered + n <= head /\ ids = (delivered + 1)..(delivered + n)
  <2>1. delivered \in Nat /\ head \in Nat /\ delivered <= head /\ head <= MaxEntries
    BY StreamAssumption DEF StreamInv, TypeOK
  <2> QED BY <2>1, FirstOfInterval
<1>1. delivered' = delivered + n /\ pending' = pending \cup ids
  BY DEF ReadEvents
<1>2. UNCHANGED <<head, acked, deadLetters, projection, faults>>
  BY DEF ReadEvents
<1>3. times' \in [Entries -> 0..MaxRetries] /\ idle' \in [Entries -> 0..Lease]
  BY HandOutType DEF ReadEvents, StreamInv
<1>4. Take(p, ids, FALSE, "report")
  BY DEF ReadEvents
<1> HIDE DEF n, ids
<1>5. proc \in [Workers -> ProcState(delivered')] /\ ids \in SUBSET (1..delivered') /\ delivered' \in Nat
  <2>1. 1..delivered \subseteq 1..delivered' /\ 0..delivered \subseteq 0..delivered'
    BY <1>0, <1>1
  <2>2. proc \in [Workers -> ProcState(delivered)]
    BY DEF StreamInv, TypeOK, ProcState
  <2>3. \A q \in Workers : proc[q] \in ProcState(delivered')
    BY <2>1, <2>2 DEF ProcState
  <2> QED BY <1>0, <1>1, <2>2, <2>3
<1>6. /\ proc' \in [Workers -> ProcState(delivered')]
      /\ proc'[p].at \in {"error", "read", "report", "handle"}
      /\ proc'[p].at = "handle" => proc'[p].batch # {}
      /\ proc'[p].last = proc[p].last
      /\ \A q \in Workers : q # p => proc'[q] = proc[q]
  <2> DEFINE d == delivered'
  <2>1. d \in Nat /\ proc \in [Workers -> ProcState(d)] /\ ids \in SUBSET (1..d)
    BY <1>5
  <2> HIDE DEF d
  <2>2. /\ proc' \in [Workers -> ProcState(d)]
        /\ proc'[p].at \in {"error", "read", "report", "handle"}
        /\ proc'[p].at = "handle" => proc'[p].batch # {}
        /\ proc'[p].last = proc[p].last
        /\ \A q \in Workers : q # p => proc'[q] = proc[q]
    BY <1>4, <2>1, TakeType
  <2> QED BY <2>2 DEF d
<1>7. TypeOK'
  <2>1. head' \in 0..MaxEntries /\ delivered' \in 0..head'
    BY <1>0, <1>1, <1>2, StreamAssumption
  <2>2. pending' \subseteq 1..delivered' /\ acked' \subseteq 1..delivered' /\ deadLetters' \subseteq 1..delivered'
    BY <1>0, <1>1, <1>2 DEF StreamInv, TypeOK
  <2>3. proc' \in [Workers -> [at : Points, batch : SUBSET (1..delivered'),
                               claimed : BOOLEAN, last : 0..delivered']]
    BY <1>6 DEF ProcState
  <2>4. \A q \in Workers : proc'[q].at \in {"handle", "ack", "giveUp", "ackDead"} => proc'[q].batch # {}
    BY <1>6 DEF StreamInv, TypeOK
  <2>5. projection' = projection /\ faults' = faults
    BY <1>2
  <2>6. /\ projection' \in [Entries -> {"none", "stub", "current", "superseded", "tombstoned"}]
        /\ faults' \in 0..MaxFaults
    BY <2>5 DEF StreamInv, TypeOK
  <2> QED BY <1>3, <2>1, <2>2, <2>3, <2>4, <2>6 DEF TypeOK
<1>8. AckIsEarned' /\ LastIsAcked'
  BY <1>2, <1>6 DEF StreamInv, AckIsEarned, IsConfirmed, LastIsAcked, Current
<1>9. AckedIsAccountedFor'
  BY <1>2 DEF StreamInv, AckedIsAccountedFor, IsConfirmed
<1>10. NothingSkipped'
  BY <1>0, <1>1, <1>2 DEF StreamInv, NothingSkipped
<1> QED BY <1>7, <1>8, <1>9, <1>10 DEF StreamInv

\* Projecting an entry earns its acknowledgement and takes no other's away.
LEMMA ProjectKeepsInv ==
    ASSUME StreamInv, NEW p \in Workers, HandlerSucceeds(p)
    PROVE  StreamInv'
<1> DEFINE e == Current(p)
<1>0. e \in Entries /\ proc[p].batch # {}
  BY CurrentIsDelivered DEF StreamInv, TypeOK, HandlerSucceeds
<1>1. /\ projection' = IF e \in Facts THEN projection ELSE Projected(e)
      /\ e \notin Poisoned /\ UNCHANGED <<redis, faults>>
  BY DEF HandlerSucceeds
<1>2. proc' = [proc EXCEPT ![p].at = "ack"]
  BY DEF HandlerSucceeds, At
<1>3. /\ projection' \in [Entries -> {"none", "stub", "current", "superseded", "tombstoned"}]
      /\ \A n \in Entries : n = e \/ IsConfirmed(n) => IsConfirmed(n)'
  <2>1. PICK n \in Entries : n = e
    BY <1>0
  <2> QED BY <1>1, <2>1, ProjectedStays DEF StreamInv
<1>4. TypeOK'
  BY <1>0, <1>1, <1>2, <1>3 DEF StreamInv, TypeOK, redis, Points
<1>5. \A q \in Workers : Current(q)' = Current(q)
  BY <1>2 DEF StreamInv, TypeOK, Current
<1>6. AckIsEarned'
  <2>1. ASSUME NEW q \in Workers, proc'[q].at = "ack"
        PROVE  IsConfirmed(Current(q))'
    <3>1. Current(q) \in Entries /\ (q = p \/ IsConfirmed(Current(q)))
      <4>1. q = p \/ (proc[q].at = "ack" /\ proc[q].batch # {})
        BY <1>2, <2>1 DEF StreamInv, TypeOK
      <4> QED BY <1>0, <4>1, CurrentIsDelivered DEF StreamInv, AckIsEarned
    <3>2. PICK n \in Entries : n = Current(q)
      BY <3>1
    <3>3. IsConfirmed(n)'
      BY <1>3, <3>1, <3>2
    <3> QED BY <1>5, <3>2, <3>3 DEF IsConfirmed
  <2>2. ASSUME NEW q \in Workers, proc'[q].at = "ackDead"
        PROVE  Current(q)' \in deadLetters'
    BY <1>1, <1>2, <1>5, <2>2 DEF StreamInv, TypeOK, AckIsEarned, IsConfirmed, redis
  <2> QED BY <2>1, <2>2 DEF AckIsEarned, IsConfirmed
<1>7. AckedIsAccountedFor'
  <2>1. acked \subseteq Entries
    BY StreamAssumption DEF StreamInv, TypeOK, Entries
  <2> QED BY <1>1, <1>3, <2>1 DEF StreamInv, AckedIsAccountedFor, redis
<1>8. NothingSkipped' /\ LastIsAcked'
  BY <1>1, <1>2 DEF StreamInv, TypeOK, NothingSkipped, LastIsAcked, redis
<1> QED BY <1>4, <1>6, <1>7, <1>8 DEF StreamInv

\* A handler that fails retries later or gives up.
LEMMA FailKeepsInv ==
    ASSUME StreamInv, NEW p \in Workers, HandlerFails(p)
    PROVE  StreamInv'
<1>0. proc[p].batch # {} /\ delivered \in Nat /\ proc[p] \in ProcState(delivered)
  BY StreamAssumption DEF StreamInv, TypeOK, HandlerFails, ProcState
<1>1. UNCHANGED <<redis, projection>> /\ faults' \in 0..MaxFaults
  BY StreamAssumption DEF HandlerFails, Fault, StreamInv, TypeOK
<1>2. PICK r \in ProcState(delivered) :
        /\ proc' = [proc EXCEPT ![p] = r]
        /\ r.at \in {"handle", "read", "report", "giveUp"}
        /\ r.at \in {"handle", "giveUp"} => r.batch # {}
        /\ r.last = proc[p].last
  <2>1. CASE At(p, "giveUp")
    <3>1. [proc[p] EXCEPT !.at = "giveUp"] \in ProcState(delivered)
      BY <1>0 DEF ProcState, Points
    <3> QED BY <1>0, <2>1, <3>1 DEF At, ProcState
  <2>2. CASE proc' = [proc EXCEPT ![p] = AfterEntry(@)]
    BY <1>0, <2>2, AfterEntryType
  <2> QED BY <2>1, <2>2 DEF HandlerFails
<1>3. TypeOK'
  BY <1>1, <1>2 DEF StreamInv, TypeOK, redis, ProcState
<1>4. AckIsEarned'
  BY <1>1, <1>2 DEF StreamInv, TypeOK, AckIsEarned, IsConfirmed, redis, Current
<1>5. AckedIsAccountedFor' /\ NothingSkipped' /\ LastIsAcked'
  BY <1>1, <1>2 DEF StreamInv, TypeOK, AckedIsAccountedFor, IsConfirmed, NothingSkipped, LastIsAcked, redis
<1> QED BY <1>3, <1>4, <1>5 DEF StreamInv

LEMMA FileKeepsInv ==
    ASSUME StreamInv, NEW p \in Workers, DeadLetter(p)
    PROVE  StreamInv'
<1>0. proc[p].batch # {} /\ Current(p) \in 1..delivered
  BY CurrentIsDelivered DEF StreamInv, TypeOK, DeadLetter
<1>1. /\ deadLetters' = deadLetters \cup {Current(p)}
      /\ proc' = [proc EXCEPT ![p].at = "ackDead"]
      /\ UNCHANGED <<head, delivered, pending, times, idle, acked, projection, faults>>
  BY DEF DeadLetter, At
<1>2. TypeOK'
  BY <1>0, <1>1 DEF StreamInv, TypeOK, Points
<1>3. \A q \in Workers : Current(q)' = Current(q)
  BY <1>1 DEF StreamInv, TypeOK, Current
<1>4. AckIsEarned'
  BY <1>1, <1>3 DEF StreamInv, TypeOK, AckIsEarned, IsConfirmed
<1>5. AckedIsAccountedFor' /\ NothingSkipped' /\ LastIsAcked'
  BY <1>1 DEF StreamInv, TypeOK, AckedIsAccountedFor, IsConfirmed, NothingSkipped, LastIsAcked
<1> QED BY <1>2, <1>4, <1>5 DEF StreamInv

\* The entry leaves the pending list with its acknowledgement earned.
LEMMA AcknowledgeKeepsInv ==
    ASSUME StreamInv, NEW p \in Workers, Acknowledge(p)
    PROVE  StreamInv'
<1> DEFINE e == Current(p)
           r == [AfterEntry(proc[p]) EXCEPT !.last = e]
<1>0. proc[p].batch # {} /\ delivered \in Nat /\ proc[p] \in ProcState(delivered)
  BY StreamAssumption DEF StreamInv, TypeOK, Acknowledge, ProcState
<1>1. e \in 1..delivered /\ e \in Entries
  BY <1>0, CurrentIsDelivered DEF StreamInv
<1>2. /\ pending' = pending \ {e} /\ acked' = acked \cup {e}
      /\ proc' = [proc EXCEPT ![p] = r]
      /\ UNCHANGED <<head, delivered, times, idle, deadLetters, projection, faults>>
  BY DEF Acknowledge
<1>3. IsConfirmed(e) \/ e \in deadLetters
  BY DEF Acknowledge, StreamInv, AckIsEarned
<1>4. /\ r \in ProcState(delivered) /\ r.at \in {"handle", "read", "report"}
      /\ r.at = "handle" => r.batch # {}
      /\ r.last = e
  <2> HIDE DEF e
  <2> QED BY <1>0, <1>1, AfterEntryType DEF ProcState
<1> HIDE DEF r
<1>5. TypeOK'
  BY <1>1, <1>2, <1>4 DEF StreamInv, TypeOK, ProcState
<1>6. AckIsEarned'
  BY <1>2, <1>4 DEF StreamInv, TypeOK, AckIsEarned, IsConfirmed, Current
<1>7. AckedIsAccountedFor' /\ NothingSkipped'
  BY <1>2, <1>3 DEF StreamInv, AckedIsAccountedFor, IsConfirmed, NothingSkipped
<1>8. LastIsAcked'
  BY <1>2, <1>4 DEF StreamInv, TypeOK, LastIsAcked
<1> QED BY <1>5, <1>6, <1>7, <1>8 DEF StreamInv

\* Publishing and the passing of time.
LEMMA WorldKeepsInv ==
    ASSUME StreamInv, Publish \/ Tick
    PROVE  StreamInv'
<1>1. UNCHANGED <<delivered, pending, times, acked, deadLetters, projection, proc, faults>>
  BY DEF Publish, Tick
<1>2. head' \in 0..MaxEntries /\ delivered' \in 0..head'
  BY StreamAssumption DEF Publish, Tick, StreamInv, TypeOK
<1>3. idle' \in [Entries -> 0..Lease]
  <2>1. CASE Publish
    BY <2>1 DEF Publish, StreamInv, TypeOK
  <2>2. CASE Tick
    <3>1. \A e \in Entries : (IF e \in pending /\ idle[e] < Lease THEN idle[e] + 1 ELSE idle[e]) \in 0..Lease
      BY StreamAssumption DEF StreamInv, TypeOK
    <3> QED BY <2>2, <3>1 DEF Tick
  <2> QED BY <2>1, <2>2
<1>4. TypeOK'
  BY <1>1, <1>2, <1>3 DEF StreamInv, TypeOK
<1>5. AckIsEarned' /\ AckedIsAccountedFor' /\ NothingSkipped' /\ LastIsAcked'
  BY <1>1 DEF StreamInv, AckIsEarned, AckedIsAccountedFor, IsConfirmed, NothingSkipped, LastIsAcked, Current
<1> QED BY <1>4, <1>5 DEF StreamInv

LEMMA WorkKeepsInv ==
    ASSUME StreamInv, NEW p \in Workers, Work(p) \/ PollAgain(p) \/ Crash(p)
    PROVE  StreamInv'
<1>1. CASE BatchRaises(p) \/ PollAgain(p) \/ Crash(p)
  <2>1. PICK r \in {Fresh, [Fresh EXCEPT !.at = "error"]} : proc' = [proc EXCEPT ![p] = r]
    BY <1>1 DEF BatchRaises, PollAgain, Crash
  <2>2. UNCHANGED <<redis, projection>> /\ faults' \in 0..MaxFaults
    BY <1>1, StreamAssumption DEF BatchRaises, PollAgain, Crash, Fault, StreamInv, TypeOK
  <2>3. r \in ProcState(delivered) /\ proc \in [Workers -> ProcState(delivered)]
    <3>1. delivered \in Nat /\ proc \in [Workers -> ProcState(delivered)]
      BY StreamAssumption DEF ProcState, StreamInv, TypeOK
    <3> QED BY <3>1, FreshType
  <2>4. /\ proc' \in [Workers -> ProcState(delivered)]
        /\ \A q \in Workers : proc'[q] \in {proc[q], r}
    BY <2>1, <2>3
  <2> QED BY <2>2, <2>4, StartAfresh
<1> QED BY <1>1, ClaimKeepsInv, ReadKeepsInv, ProjectKeepsInv, FailKeepsInv, FileKeepsInv,
           AcknowledgeKeepsInv DEF Work

LEMMA StreamStep == StreamInv /\ [Next]_vars => StreamInv'
<1> SUFFICES ASSUME StreamInv, [Next]_vars PROVE StreamInv'
  OBVIOUS
<1>1. CASE UNCHANGED vars
  BY <1>1 DEF vars, redis, StreamInv, TypeOK, AckIsEarned, AckedIsAccountedFor, IsConfirmed, NothingSkipped,
              LastIsAcked, Current
<1> QED BY <1>1, WorldKeepsInv, WorkKeepsInv DEF Next

\* Every variable keeps its type: among others nothing is pending, acknowledged
\* or dead-lettered that was not handed out, and a worker that handles,
\* acknowledges or gives up an entry has one in hand.
THEOREM TypeCorrect == Spec => []TypeOK
<1>1. StreamInv => TypeOK
  BY DEF StreamInv
<1> QED BY <1>1, InitStream, StreamStep, PTL DEF Spec

\* process_entry, "XACK only after the destination confirms", for any number of
\* workers that share, lose and take over entries.
THEOREM AcknowledgementsAreEarned == Spec => []AckedIsAccountedFor
<1>1. StreamInv => AckedIsAccountedFor
  BY DEF StreamInv
<1> QED BY <1>1, InitStream, StreamStep, PTL DEF Spec

-----------------------------------------------------------------------------
(* The watermarks: the group composed with its reports.                    *)

RowsType ==
    /\ report \in [Reporters -> [at : {"stream", "groups", "pending", "write", "error"},
                                 seenHead : Nat, seenLast : Nat, seenLag : Nat, seenPending : Nat]]
    /\ watermark \in [last : Nat, head : Nat, lag : Nat]

\* What a report has read describes the past of the group: positions only
\* grow, a lag of zero puts the position behind the head read before, and an
\* empty pending list was empty with everything up to it acknowledged.
ReadsArePast ==
    \A p \in Reporters :
        /\ report[p].at = "groups" => report[p].seenHead <= head
        /\ report[p].at \in {"pending", "write"} =>
               /\ report[p].seenLast <= delivered
               /\ report[p].seenLag = 0 => report[p].seenHead <= report[p].seenLast
        /\ report[p].at = "write" /\ report[p].seenPending = 0 =>
               1..report[p].seenLast \subseteq acked

WatermarkInv ==
    StreamInv /\ RowsType /\ ReadsArePast /\ ZeroLagIsConfirmed /\ FrontierIsAcked

-----------------------------------------------------------------------------
LEMMA InitWatermark == WatermarkInit => WatermarkInv
<1> SUFFICES ASSUME WatermarkInit PROVE WatermarkInv
  OBVIOUS
<1>1. StreamInv
  BY InitStream DEF WatermarkInit
<1>2. NoLag \in Nat /\ NoLag # 0
  BY StreamAssumption DEF NoLag
<1>3. RowsType /\ ReadsArePast /\ ZeroLagIsConfirmed /\ FrontierIsAcked
  <2> HIDE DEF NoLag
  <2> QED BY <1>2 DEF WatermarkInit, RowsType, ReadsArePast, ZeroLagIsConfirmed, FrontierIsAcked, Silent
<1> QED BY <1>1, <1>3 DEF WatermarkInv

\* Positions and acknowledgements of a group only grow.
Grows == head <= head' /\ delivered <= delivered' /\ acked \subseteq acked'

LEMMA StreamGrows ==
    ASSUME StreamInv, [Next]_vars
    PROVE  Grows
<1>0. head \in Nat /\ delivered \in Nat
  BY StreamAssumption DEF StreamInv, TypeOK
<1>1. CASE \E p \in Workers : ReadEvents(p)
  <2>1. PICK p \in Workers : ReadEvents(p)
    BY <1>1
  <2> DEFINE n == Cardinality(FirstOf((delivered + 1)..head))
  <2>2. n \in Nat
    BY <1>0, FirstOfInterval DEF StreamInv, TypeOK
  <2>3. delivered' = delivered + n /\ head' = head /\ acked' = acked
    BY <2>1 DEF ReadEvents
  <2> HIDE DEF n
  <2> QED BY <1>0, <2>2, <2>3 DEF Grows
<1>2. CASE Publish
  BY <1>0, <1>2 DEF Publish, Grows
<1>3. CASE ~Publish /\ ~\E p \in Workers : ReadEvents(p)
  <2>1. head' = head /\ delivered' = delivered /\ acked \subseteq acked'
    BY <1>3 DEF Next, Work, PollAgain, Crash, Tick, ClaimPending, HandlerSucceeds, HandlerFails,
                DeadLetter, Acknowledge, BatchRaises, vars, redis
  <2> QED BY <1>0, <2>1 DEF Grows
<1> QED BY <1>1, <1>2, <1>3

\* A step of the group that leaves the reports and the row alone.
LEMMA GroupKeepsReads ==
    ASSUME WatermarkInv, Grows, StreamInv',
           watermark' = watermark,
           report' \in [Reporters -> [at : {"stream", "groups", "pending", "write", "error"},
                                 seenHead : Nat, seenLast : Nat, seenLag : Nat, seenPending : Nat]],
           \A p \in Reporters : report'[p] = report[p] \/ report'[p].at \in {"stream", "error"}
    PROVE  WatermarkInv'
<1>0. /\ head \in Nat /\ delivered \in Nat /\ head' \in Nat /\ delivered' \in Nat
      /\ head <= head' /\ delivered <= delivered' /\ acked \subseteq acked'
  BY StreamAssumption DEF WatermarkInv, StreamInv, TypeOK, Grows
<1>1. RowsType'
  BY DEF RowsType, WatermarkInv
<1>2. ReadsArePast'
  <2> SUFFICES ASSUME NEW p \in Reporters, report'[p] = report[p]
               PROVE  /\ report[p].at = "groups" => report[p].seenHead <= head'
                      /\ report[p].at \in {"pending", "write"} =>
                             /\ report[p].seenLast <= delivered'
                             /\ report[p].seenLag = 0 => report[p].seenHead <= report[p].seenLast
                      /\ report[p].at = "write" /\ report[p].seenPending = 0 =>
                             1..report[p].seenLast \subseteq acked'
    BY DEF ReadsArePast
  <2>1. report[p].seenHead \in Nat /\ report[p].seenLast \in Nat
    BY DEF WatermarkInv, RowsType
  <2> QED BY <1>0, <2>1 DEF WatermarkInv, ReadsArePast
<1>3. ZeroLagIsConfirmed' /\ FrontierIsAcked'
  BY <1>0 DEF WatermarkInv, ZeroLagIsConfirmed, FrontierIsAcked
<1> QED BY <1>1, <1>2, <1>3 DEF WatermarkInv
-----------------------------------------------------------------------------
(* The three reads.                                                        *)

LEMMA ReadsKeepInv ==
    ASSUME WatermarkInv, NEW p \in Reporters,
           ReadStreamInfo(p) \/ ReadGroupInfo(p) \/ ReadPending(p)
    PROVE  WatermarkInv'
<1>0. /\ head \in Nat /\ delivered \in Nat /\ delivered <= head
      /\ pending \subseteq 1..delivered
  BY StreamAssumption DEF WatermarkInv, StreamInv, TypeOK
<1>1. UNCHANGED <<vars, watermark>>
  BY DEF ReadStreamInfo, ReadGroupInfo, ReadPending
<1>2. StreamInv'
  BY <1>1, StreamStep DEF WatermarkInv
<1>3. ZeroLagIsConfirmed' /\ FrontierIsAcked'
  BY <1>1 DEF WatermarkInv, ZeroLagIsConfirmed, FrontierIsAcked, vars, redis
<1>4. IsFiniteSet(pending) /\ Cardinality(pending) \in Nat /\ (Cardinality(pending) = 0 => pending = {})
  <2>1. IsFiniteSet(1..delivered)
    BY <1>0, FS_Interval
  <2>2. IsFiniteSet(pending)
    BY <1>0, <2>1, FS_Subset
  <2> QED BY <2>2, FS_CardinalityType, FS_EmptySet
<1>5. pending = {} => 1..delivered \subseteq acked
  BY DEF WatermarkInv, StreamInv, NothingSkipped
<1>6. RowsType'
  BY <1>0, <1>1, <1>4 DEF WatermarkInv, RowsType, ReadStreamInfo, ReadGroupInfo, ReadPending
<1>7. ReadsArePast'
  <2> USE DEF WatermarkInv, RowsType, ReadsArePast, vars, redis
  <2>1. CASE ReadStreamInfo(p)
    BY <1>0, <1>1, <2>1 DEF ReadStreamInfo
  <2>2. CASE ReadGroupInfo(p)
    BY <1>0, <1>1, <2>2 DEF ReadGroupInfo
  <2>3. CASE ReadPending(p)
    <3>1. report[p].seenLast \in Nat /\ report[p].seenLast <= delivered
      BY <2>3 DEF ReadPending
    <3>2. Cardinality(pending) = 0 => 1..report[p].seenLast \subseteq acked
      BY <1>0, <1>4, <1>5, <3>1
    <3>3. report' = [report EXCEPT ![p].at = "write", ![p].seenPending = Cardinality(pending)]
      BY <2>3 DEF ReadPending
    <3> QED BY <1>1, <2>3, <3>2, <3>3 DEF ReadPending
  <2> QED BY <2>1, <2>2, <2>3
<1> QED BY <1>2, <1>3, <1>6, <1>7 DEF WatermarkInv

-----------------------------------------------------------------------------
(* The row.                                                                *)

\* Ending a report, and with it a worker's batch.
LEMMA ResumeSteps ==
    ASSUME WatermarkInv, NEW p \in Reporters, Resume(p)
    PROVE  /\ StreamInv' /\ UNCHANGED <<redis, projection, faults>>
           /\ RowsType => report' \in [Reporters -> [at : {"stream", "groups", "pending", "write", "error"},
                                 seenHead : Nat, seenLast : Nat, seenLag : Nat, seenPending : Nat]]
           /\ \A q \in Reporters : report'[q] = report[q] \/ report'[q].at = "stream"
<1>1. CASE p \in Workers
  <2>1. PollAgain(p)
    BY <1>1 DEF Resume
  <2> QED BY <1>1, <2>1, WorkKeepsInv DEF WatermarkInv, Resume, PollAgain, Silent, RowsType
<1>2. CASE p \notin Workers
  <2>1. UNCHANGED vars
    BY <1>2 DEF Resume
  <2> QED BY <2>1, StreamStep DEF WatermarkInv, Resume, Silent, RowsType, vars
<1> QED BY <1>1, <1>2

LEMMA RecordsKeepInv ==
    ASSUME WatermarkInv, NEW p \in Reporters, RecordPosition(p) \/ RecordError(p)
    PROVE  WatermarkInv'
<1>0. Resume(p)
  BY DEF RecordPosition, RecordError
<1>1. /\ StreamInv' /\ UNCHANGED <<redis, projection, faults>>
      /\ report' \in [Reporters -> [at : {"stream", "groups", "pending", "write", "error"},
                                 seenHead : Nat, seenLast : Nat, seenLag : Nat, seenPending : Nat]]
      /\ \A q \in Reporters : report'[q] = report[q] \/ report'[q].at = "stream"
  BY <1>0, ResumeSteps DEF WatermarkInv
<1>2. ReadsArePast'
  BY <1>1 DEF WatermarkInv, ReadsArePast, redis
<1>3. /\ watermark' \in [last : Nat, head : Nat, lag : Nat]
      /\ watermark'.lag = 0 => \A e \in 1..watermark'.head : e \in acked
      /\ watermark'.last # 0 => watermark'.last \in acked
  <2>1. CASE RecordPosition(p)
    <3> DEFINE r == report[p]
               last == ConfirmedEventId(LastAcked(p), r)
    <3>1. /\ r.seenHead \in Nat /\ r.seenLast \in Nat /\ r.seenLag \in Nat /\ r.seenPending \in Nat
          /\ r.seenLag = 0 => r.seenHead <= r.seenLast
          /\ r.seenPending = 0 => 1..r.seenLast \subseteq acked
          /\ watermark.last \in Nat /\ (watermark.last # 0 => watermark.last \in acked)
      BY <2>1 DEF RecordPosition, WatermarkInv, RowsType, ReadsArePast, FrontierIsAcked
    <3>2. LastAcked(p) \in Nat /\ (LastAcked(p) # 0 => LastAcked(p) \in acked)
      BY StreamAssumption DEF LastAcked, WatermarkInv, StreamInv, TypeOK, LastIsAcked
    <3> HIDE DEF r
    <3>3. last \in Nat /\ (last # 0 => last \in acked)
      BY <3>1, <3>2 DEF ConfirmedEventId
    <3>4. watermark' = [last |-> last, head |-> r.seenHead, lag |-> r.seenLag + r.seenPending]
      BY <2>1 DEF RecordPosition, r
    <3> HIDE DEF last
    <3>5. r.seenLag + r.seenPending = 0 => \A e \in 1..r.seenHead : e \in acked
      BY <3>1
    <3> QED BY <3>1, <3>3, <3>4, <3>5
  <2>2. CASE RecordError(p)
    <3>1. NoLag \in Nat /\ NoLag # 0
      BY StreamAssumption DEF NoLag
    <3>2. watermark' = [watermark EXCEPT !.lag = NoLag]
      BY <2>2 DEF RecordError
    <3> HIDE DEF NoLag
    <3> QED BY <3>1, <3>2 DEF WatermarkInv, RowsType, FrontierIsAcked
  <2> QED BY <2>1, <2>2
<1>4. RowsType' /\ ZeroLagIsConfirmed' /\ FrontierIsAcked'
  BY <1>1, <1>3 DEF RowsType, ZeroLagIsConfirmed, FrontierIsAcked, redis
<1> QED BY <1>1, <1>2, <1>4 DEF WatermarkInv

\* Failed reads and writes, and the death of a worker.
LEMMA FaultsKeepInv ==
    ASSUME WatermarkInv, NEW p \in Reporters,
           PositionRaises(p) \/ RecordFails(p) \/ (p \in Workers /\ CrashReporting(p))
    PROVE  WatermarkInv'
<1>0. delivered \in Nat /\ head \in Nat /\ proc \in [Workers -> ProcState(delivered)]
  BY StreamAssumption DEF WatermarkInv, StreamInv, TypeOK, ProcState
<1>1. /\ UNCHANGED <<redis, projection, watermark>> /\ faults' \in 0..MaxFaults
      /\ proc' \in [Workers -> ProcState(delivered)]
      /\ \A q \in Workers : proc'[q] \in {proc[q], Fresh}
  <2>1. UNCHANGED <<redis, projection, watermark>> /\ faults' \in 0..MaxFaults
    BY StreamAssumption DEF PositionRaises, RecordFails, CrashReporting, Crash, Fault, WatermarkInv, StreamInv, TypeOK
  <2>2. Fresh \in ProcState(delivered)
    BY <1>0, FreshType
  <2>3. proc' \in [Workers -> ProcState(delivered)] /\ \A q \in Workers : proc'[q] \in {proc[q], Fresh}
    BY <1>0, <2>2 DEF PositionRaises, RecordFails, CrashReporting, Crash
  <2> QED BY <2>1, <2>3
<1>2. StreamInv'
  BY <1>1, StartAfresh DEF WatermarkInv
<1>3. Grows
  BY <1>0, <1>1 DEF Grows, redis
<1>4. /\ report' \in [Reporters -> [at : {"stream", "groups", "pending", "write", "error"},
                                 seenHead : Nat, seenLast : Nat, seenLag : Nat, seenPending : Nat]]
      /\ \A q \in Reporters : report'[q] = report[q] \/ report'[q].at \in {"stream", "error"}
  BY DEF PositionRaises, RecordFails, CrashReporting, Silent, WatermarkInv, RowsType
<1> QED BY <1>1, <1>2, <1>3, <1>4, GroupKeepsReads

LEMMA WatermarkStep == WatermarkInv /\ [WatermarkNext]_allVars => WatermarkInv'
<1> SUFFICES ASSUME WatermarkInv, [WatermarkNext]_allVars PROVE WatermarkInv'
  OBVIOUS
<1>1. CASE [Next]_vars /\ UNCHANGED <<report, watermark>>
  <2>1. StreamInv' /\ Grows
    BY <1>1, StreamStep, StreamGrows DEF WatermarkInv
  <2> QED BY <1>1, <2>1, GroupKeepsReads DEF WatermarkInv, RowsType
<1>2. CASE \E p \in Workers : CrashReporting(p)
  BY <1>2, FaultsKeepInv DEF Reporters
<1>3. CASE \E p \in Reporters : Report(p)
  BY <1>3, ReadsKeepInv, RecordsKeepInv, FaultsKeepInv DEF Report
<1> QED BY <1>1, <1>2, <1>3 DEF WatermarkNext, Next, allVars

\* record_watermark: a recorded lag of zero means that everything up to the
\* recorded head is acknowledged, though the row combines three reads of a
\* group that goes on working.
THEOREM ZeroLagIsTrue == WatermarkSpec => []ZeroLagIsConfirmed
<1>1. WatermarkInv => ZeroLagIsConfirmed
  BY DEF WatermarkInv
<1> QED BY <1>1, InitWatermark, WatermarkStep, PTL DEF WatermarkSpec

\* confirmed_event_id: the recorded frontier was acknowledged, not merely
\* delivered, whoever reported it.
THEOREM FrontierWasAcked == WatermarkSpec => []FrontierIsAcked
<1>1. WatermarkInv => FrontierIsAcked
  BY DEF WatermarkInv
<1> QED BY <1>1, InitWatermark, WatermarkStep, PTL DEF WatermarkSpec

-----------------------------------------------------------------------------
(* What is recorded stays within what there is.                            *)

ReportTypes(h, d) == [at : {"stream", "groups", "pending", "write", "error"},
                      seenHead : 0..h, seenLast : 0..d,
                      seenLag : 0..MaxEntries, seenPending : 0..MaxEntries]

WithinStream ==
    /\ report \in [Reporters -> ReportTypes(head, delivered)]
    /\ watermark \in [last : 0..delivered, head : 0..head, lag : 0..NoLag]

LEMMA StreamBounds ==
    ASSUME WatermarkInv
    PROVE  /\ MaxEntries \in Nat /\ NoLag = 2 * MaxEntries + 1 /\ head \in 0..MaxEntries /\ delivered \in 0..head
           /\ head - delivered \in 0..MaxEntries
           /\ Cardinality(pending) \in 0..MaxEntries
           /\ \A p \in Reporters : LastAcked(p) \in 0..delivered
<1>1. MaxEntries \in Nat /\ head \in 0..MaxEntries /\ delivered \in 0..head /\ pending \subseteq 1..delivered
  BY StreamAssumption DEF WatermarkInv, StreamInv, TypeOK
<1>2. Cardinality(pending) \in 0..MaxEntries
  <2>1. IsFiniteSet(1..delivered) /\ Cardinality(1..delivered) = delivered
    BY <1>1, FS_Interval
  <2>2. Cardinality(pending) <= Cardinality(1..delivered) /\ IsFiniteSet(pending)
    BY <1>1, <2>1, FS_Subset
  <2> QED BY <1>1, <2>1, <2>2, FS_CardinalityType
<1>3. \A p \in Reporters : LastAcked(p) \in 0..delivered
  BY <1>1 DEF LastAcked, WatermarkInv, StreamInv, TypeOK
<1> QED BY <1>1, <1>2, <1>3 DEF NoLag

\* Ranges only widen as the group goes on.
LEMMA ReportsWiden ==
    ASSUME NEW h \in Nat, NEW d \in Nat, NEW i \in Nat, NEW e \in Nat, h <= i, d <= e
    PROVE  /\ ReportTypes(h, d) \subseteq ReportTypes(i, e)
           /\ [last : 0..d, head : 0..h, lag : 0..NoLag] \subseteq [last : 0..e, head : 0..i, lag : 0..NoLag]
<1>1. 0..h \subseteq 0..i /\ 0..d \subseteq 0..e
  OBVIOUS
<1> QED BY <1>1 DEF ReportTypes

LEMMA WithinStreamStep ==
    ASSUME WatermarkInv, WithinStream, [WatermarkNext]_allVars
    PROVE  WithinStream'
<1>1. /\ MaxEntries \in Nat /\ head \in Nat /\ delivered \in Nat
      /\ head \in 0..head /\ delivered \in 0..delivered /\ 0 \in 0..head /\ 0 \in 0..delivered
  BY StreamBounds
<1>2. CASE [Next]_vars /\ UNCHANGED <<report, watermark>>
  <2>1. StreamInv' /\ Grows
    BY <1>2, StreamStep, StreamGrows DEF WatermarkInv
  <2>2. head' \in Nat /\ delivered' \in Nat /\ head <= head' /\ delivered <= delivered'
    BY <2>1, StreamAssumption DEF StreamInv, TypeOK, Grows
  <2>3. /\ ReportTypes(head, delivered) \subseteq ReportTypes(head', delivered')
        /\ [last : 0..delivered, head : 0..head, lag : 0..NoLag]
               \subseteq [last : 0..delivered', head : 0..head', lag : 0..NoLag]
    BY <1>1, <2>2, ReportsWiden
  <2> QED BY <1>2, <2>3 DEF WithinStream
<1>3. Silent \in ReportTypes(head, delivered)
  BY <1>1 DEF Silent, ReportTypes
<1>4. ASSUME NEW p \in Reporters, Report(p) \/ (p \in Workers /\ CrashReporting(p)), UNCHANGED <<head, delivered>>
      PROVE  WithinStream'
  <2>1. CASE ReadStreamInfo(p) \/ ReadGroupInfo(p) \/ ReadPending(p) \/ PositionRaises(p)
    <3>1. head - delivered \in 0..MaxEntries /\ Cardinality(pending) \in 0..MaxEntries
      BY StreamBounds
    <3>2. report' \in [Reporters -> ReportTypes(head, delivered)]
      BY <1>1, <2>1, <3>1 DEF ReadStreamInfo, ReadGroupInfo, ReadPending, PositionRaises, WithinStream, ReportTypes
    <3>3. watermark' = watermark
      BY <2>1 DEF ReadStreamInfo, ReadGroupInfo, ReadPending, PositionRaises
    <3> QED BY <1>4, <3>2, <3>3 DEF WithinStream
  <2>2. CASE RecordPosition(p) \/ RecordError(p) \/ RecordFails(p) \/ CrashReporting(p)
    <3>1. report' = [report EXCEPT ![p] = Silent]
      BY <2>2 DEF RecordPosition, RecordError, RecordFails, CrashReporting, Resume
    <3>2. report' \in [Reporters -> ReportTypes(head, delivered)]
      BY <1>3, <3>1 DEF WithinStream
    <3>3. watermark' \in [last : 0..delivered, head : 0..head, lag : 0..NoLag]
      <4>1. CASE RecordPosition(p)
        <5>1. /\ report[p].seenHead \in 0..head /\ report[p].seenLast \in 0..delivered
              /\ report[p].seenLag \in 0..MaxEntries /\ report[p].seenPending \in 0..MaxEntries
              /\ watermark.last \in 0..delivered
          BY DEF WithinStream, ReportTypes
        <5>2. ConfirmedEventId(LastAcked(p), report[p]) \in 0..delivered
          BY <5>1, StreamBounds DEF ConfirmedEventId
        <5>3. report[p].seenLag + report[p].seenPending \in 0..NoLag
          BY <1>1, <5>1, StreamBounds
        <5> QED BY <4>1, <5>1, <5>2, <5>3 DEF RecordPosition
      <4>2. CASE RecordError(p)
        <5>1. NoLag \in 0..NoLag
          BY <1>1, StreamBounds
        <5> QED BY <4>2, <5>1 DEF RecordError, WithinStream
      <4>3. CASE RecordFails(p) \/ CrashReporting(p)
        BY <4>3 DEF RecordFails, CrashReporting, WithinStream
      <4> QED BY <2>2, <4>1, <4>2, <4>3
    <3> QED BY <1>4, <3>2, <3>3 DEF WithinStream
  <2> QED BY <1>4, <2>1, <2>2 DEF Report
<1>5. ASSUME NEW p \in Reporters, Report(p) \/ (p \in Workers /\ CrashReporting(p))
      PROVE  UNCHANGED <<head, delivered>>
  BY <1>5 DEF Report, ReadStreamInfo, ReadGroupInfo, ReadPending, PositionRaises, RecordPosition, RecordError,
       RecordFails, Resume, PollAgain, CrashReporting, Crash, vars, redis
<1> QED BY <1>2, <1>4, <1>5 DEF WatermarkNext, Next, allVars, Reporters

\* read_position and record_position: a recorded head is one the stream has had
\* and a recorded frontier was handed out, whatever falls between the reads.
THEOREM PositionsAreWithinStream == WatermarkSpec => []WatermarkTypeOK
<1>1. WatermarkInit => WithinStream
  <2> SUFFICES ASSUME WatermarkInit PROVE WithinStream
    OBVIOUS
  <2>1. head = 0 /\ delivered = 0 /\ MaxEntries \in Nat /\ NoLag \in 0..NoLag
    BY StreamAssumption DEF WatermarkInit, Init, NoLag
  <2> HIDE DEF NoLag
  <2> QED BY <2>1 DEF WatermarkInit, WithinStream, ReportTypes, Silent
<1>2. WatermarkInv /\ WithinStream => WatermarkTypeOK
  BY DEF WatermarkInv, StreamInv, WithinStream, ReportTypes, WatermarkTypeOK
<1> QED BY <1>1, <1>2, InitWatermark, WatermarkStep, WithinStreamStep, PTL DEF WatermarkSpec

-----------------------------------------------------------------------------
(* Publication.                                                            *)

PubState == [at : Stages, result : Results, sha : Shas, data : Versions, key : Keys,
             options : SUBSET Options, raised : BOOLEAN, ok : SUBSET Roles, seen : SUBSET Roles]

Shapes ==
    /\ pub \in [Publications -> PubState]
    /\ corpus \in Versions
    /\ host \in [Roles -> [data : Versions, by : Publications \cup {Nobody}]]
    /\ journal \in [Shas -> [Keys -> {"none", "intent", "completed", "failed"}]]
    /\ released \in [Shas -> [Keys -> SUBSET Publications]]

\* Points before the intent is on record, and before the look at the sites.
Early  == {"idle", "gate", "build", "check", "begin", "insert"}
Unseen == Early \cup {"canonical", "mirror", "receipt", "record", "archive", "database", "see canonical"}

\* What publication p, in state r, has done when the journal is jn and the
\* releases are rel.
Sound(p, r, jn, rel) ==
    /\ r.at \in Early \cup {"canonical"} => r.ok = {}
    /\ r.at = "mirror" => r.ok \subseteq {"canonical"}
    /\ r.at \in Unseen => r.seen = {}
    /\ r.ok = Roles => p \in rel[r.sha][r.key]
    /\ r.at \notin Early \cup {"done"} => jn[r.sha][r.key] # "none"
    /\ r.result # "none" => r.at = "done"
    /\ r.result = "published" => r.seen = Roles

StepsInOrder == \A p \in Publications : Sound(p, pub[p], journal, released)

\* What a host serves is the data of a publication whose intent is on record.
ServedIsRecorded ==
    \A h \in Roles : host[h].by # Nobody =>
        LET p == host[h].by
        IN  pub[p].at \notin Early /\ host[h].data = pub[p].data /\ Row(p) # "none"

\* Whoever released what one host serves has seen its own data at the other;
\* the release that was there at first counts as seen.
Saw(p, role) == p = Nobody \/ role \in pub[p].seen

\* When the hosts differ, one of the two releases they serve has not been seen
\* at the other host: the later deployment happened behind the earlier look.
DriftIsUnseen ==
    host["canonical"].data # host["mirror"].data =>
        ~(Saw(host["canonical"].by, "mirror") /\ Saw(host["mirror"].by, "canonical"))

CompletedIsReleased ==
    \A s \in Shas, k \in Keys : journal[s][k] = "completed" => released[s][k] # {}

PublicationInv == Shapes /\ StepsInOrder /\ ServedIsRecorded /\ DriftIsUnseen /\ CompletedIsReleased

-----------------------------------------------------------------------------
LEMMA InitPublication == PublicationInit => PublicationInv
<1> SUFFICES ASSUME PublicationInit PROVE PublicationInv
  OBVIOUS
<1>1. 0 \in Versions /\ 1 \in Keys
  BY PublicationAssumption DEF Versions, Keys
<1> DEFINE Start(s) == [at |-> "idle", result |-> "none", sha |-> s, data |-> 0, key |-> 1,
                        options |-> {}, raised |-> FALSE, ok |-> {}, seen |-> {}]
<1>2. pub \in [Publications -> {Start(s) : s \in Shas}]
  BY DEF PublicationInit
<1>3. pub \in [Publications -> PubState]
  <2>1. "idle" \in Stages /\ "none" \in Results
    BY DEF Stages, Results
  <2>2. {} \in SUBSET Roles /\ {} \in SUBSET Options /\ FALSE \in BOOLEAN
    OBVIOUS
  <2>3. \A s \in Shas : Start(s) \in PubState
    BY <1>1, <2>1, <2>2 DEF PubState
  <2> HIDE DEF Start
  <2> QED BY <1>2, <2>3
<1>4. Shapes
  BY <1>1, <1>3 DEF PublicationInit, Shapes
<1>5. StepsInOrder
  <2>1. \A s \in Shas : LET r == Start(s) IN r.at = "idle" /\ r.result = "none" /\ r.ok = {} /\ r.seen = {}
    OBVIOUS
  <2> HIDE DEF Start
  <2>2. \A p \in Publications : pub[p].at = "idle" /\ pub[p].result = "none" /\ pub[p].ok = {} /\ pub[p].seen = {}
    BY <1>2, <2>1
  <2> QED BY <2>2 DEF StepsInOrder, Sound, Early, Unseen, Roles
<1>6. ServedIsRecorded /\ DriftIsUnseen /\ CompletedIsReleased
  BY DEF PublicationInit, ServedIsRecorded, DriftIsUnseen, CompletedIsReleased, Roles
<1> QED BY <1>4, <1>5, <1>6 DEF PublicationInv

\* A step of p that deploys nothing.
LEMMA QuietStep ==
    ASSUME PublicationInv, NEW p \in Publications, corpus' = corpus, UNCHANGED <<host, released>>,
           journal' \in [Shas -> [Keys -> {"none", "intent", "completed", "failed"}]],
           \A s \in Shas, k \in Keys : journal[s][k] # "none" => journal'[s][k] # "none",
           CompletedIsReleased',
           pub' \in [Publications -> PubState],
           \A q \in Publications : q # p => pub'[q] = pub[q],
           Sound(p, pub'[p], journal', released),
           pub[p].at \notin Early => /\ pub'[p].at \notin Early
                                     /\ pub'[p].data = pub[p].data
                                     /\ pub'[p].sha = pub[p].sha /\ pub'[p].key = pub[p].key,
           \A role \in pub'[p].seen \ pub[p].seen : host[role].data = pub[p].data
    PROVE  PublicationInv'
<1> USE DEF PublicationInv
<1>1. Shapes'
  BY DEF Shapes
<1>2. \A q \in Publications : pub[q].sha \in Shas /\ pub[q].key \in Keys
  BY DEF Shapes, PubState
<1>3. StepsInOrder'
  <2>1. ASSUME NEW q \in Publications, q # p
        PROVE  Sound(q, pub'[q], journal', released')
    BY <1>2, <2>1 DEF StepsInOrder, Sound
  <2> QED BY <2>1 DEF StepsInOrder
<1>4. ASSUME NEW h \in Roles, host[h].by # Nobody
      PROVE  LET q == host[h].by
             IN  /\ q \in Publications /\ pub'[q].at \notin Early
                 /\ host[h].data = pub'[q].data /\ pub'[q].data = pub[q].data
                 /\ journal'[pub'[q].sha][pub'[q].key] # "none"
  <2> DEFINE q == host[h].by
  <2>1. /\ q \in Publications /\ pub[q].at \notin Early /\ host[h].data = pub[q].data
        /\ journal[pub[q].sha][pub[q].key] # "none"
    BY <1>4 DEF Shapes, ServedIsRecorded, Row
  <2> HIDE DEF q
  <2>2. pub'[q].at \notin Early /\ pub'[q].data = pub[q].data
        /\ pub'[q].sha = pub[q].sha /\ pub'[q].key = pub[q].key
    BY <2>1
  <2>3. journal'[pub'[q].sha][pub'[q].key] # "none"
    BY <1>2, <2>1, <2>2
  <2>4. host[h].data = pub'[q].data
    BY <2>1, <2>2
  <2> QED BY <2>1, <2>2, <2>3, <2>4 DEF q
<1>5. ServedIsRecorded'
  BY <1>4 DEF ServedIsRecorded, Row
<1>6. DriftIsUnseen'
  <2> SUFFICES ASSUME host["canonical"].data # host["mirror"].data,
                      Saw(host["canonical"].by, "mirror")', Saw(host["mirror"].by, "canonical")'
               PROVE  FALSE
    BY DEF DriftIsUnseen
  <2>1. ASSUME NEW h \in Roles, NEW g \in Roles, Saw(host[h].by, g)', host[h].data # host[g].data
        PROVE  Saw(host[h].by, g)
    <3>1. CASE host[h].by = Nobody
      BY <3>1 DEF Saw
    <3>2. CASE host[h].by # Nobody
      <4>1. g \in pub'[host[h].by].seen /\ host[h].by \in Publications /\ host[h].data = pub[host[h].by].data
        BY <1>4, <2>1, <3>2 DEF Saw
      <4> QED BY <2>1, <4>1 DEF Saw
    <3> QED BY <3>1, <3>2
  <2>2. Saw(host["canonical"].by, "mirror") /\ Saw(host["mirror"].by, "canonical")
    BY <2>1 DEF Roles
  <2> QED BY <2>2 DEF DriftIsUnseen
<1> QED BY <1>1, <1>3, <1>5, <1>6
\* A change of p's point and result leaves its other locals alone.
Elsewhere(p) ==
    /\ \A q \in Publications : q # p => pub'[q] = pub[q]
    /\ pub'[p].sha = pub[p].sha /\ pub'[p].data = pub[p].data /\ pub'[p].key = pub[p].key
    /\ pub'[p].ok = pub[p].ok /\ pub'[p].seen = pub[p].seen

LEMMA GoType ==
    ASSUME pub \in [Publications -> PubState], NEW p \in Publications, NEW step \in Stages, Go(p, step)
    PROVE  /\ pub' \in [Publications -> PubState] /\ Elsewhere(p)
           /\ pub'[p].at = step /\ pub'[p].result = pub[p].result
BY DEF Go, PubState, Elsewhere

LEMMA EndType ==
    ASSUME pub \in [Publications -> PubState], NEW p \in Publications, NEW r \in Results, End(p, r)
    PROVE  /\ pub' \in [Publications -> PubState] /\ Elsewhere(p)
           /\ pub'[p].at = "done" /\ pub'[p].result = r
<1>1. "done" \in Stages
  BY DEF Stages
<1> QED BY <1>1 DEF End, PubState, Elsewhere

\* What a step that deploys nothing may do to the journal.
JournalGrows ==
    /\ journal' \in [Shas -> [Keys -> {"none", "intent", "completed", "failed"}]]
    /\ \A s \in Shas, k \in Keys : journal[s][k] # "none" => journal'[s][k] # "none"
    /\ CompletedIsReleased'

LEMMA JournalStays ==
    ASSUME PublicationInv, UNCHANGED <<journal, released>>
    PROVE  JournalGrows
BY DEF PublicationInv, Shapes, CompletedIsReleased, JournalGrows

\* The command ends without having published, however far it got.
LEMMA EndKeepsInv ==
    ASSUME PublicationInv, NEW p \in Publications, NEW r \in Results \ {"published"}, End(p, r),
           UNCHANGED <<corpus, host, released>>, JournalGrows
    PROVE  PublicationInv'
<1>1. /\ pub' \in [Publications -> PubState] /\ Elsewhere(p)
      /\ pub'[p].at = "done" /\ pub'[p].result = r
  BY EndType DEF PublicationInv, Shapes
<1>2. Sound(p, pub[p], journal, released)
  BY DEF PublicationInv, StepsInOrder
<1>3. Sound(p, pub'[p], journal', released)
  BY <1>1, <1>2 DEF Sound, Elsewhere, Early, Unseen
<1> QED BY <1>1, <1>3, QuietStep DEF Elsewhere, JournalGrows, Early

\* The command goes on to a later point.
LEMMA GoKeepsInv ==
    ASSUME PublicationInv, NEW p \in Publications, NEW step \in Stages \ {"done", "mirror"}, Go(p, step),
           UNCHANGED <<corpus, host, released>>, JournalGrows,
           pub[p].at # "done",
           step \in Early \cup {"canonical"} => pub[p].at \in Early,
           step \in Unseen => pub[p].at \in Unseen,
           step \notin Early => journal'[pub[p].sha][pub[p].key] # "none"
    PROVE  PublicationInv'
<1>1. /\ pub' \in [Publications -> PubState] /\ Elsewhere(p)
      /\ pub'[p].at = step /\ pub'[p].result = pub[p].result
  BY GoType DEF PublicationInv, Shapes
<1>2. Sound(p, pub[p], journal, released)
  BY DEF PublicationInv, StepsInOrder
<1>3. Sound(p, pub'[p], journal', released)
  BY <1>1, <1>2 DEF Sound, Elsewhere, Early, Unseen
<1> QED BY <1>1, <1>3, QuietStep DEF Elsewhere, JournalGrows, Early

-----------------------------------------------------------------------------
(* Before the deployments.                                                 *)

LEMMA PreparationKeepsInv ==
    ASSUME PublicationInv, NEW p \in Publications,
           \/ \E options \in SUBSET Options : Begin(p, options)
           \/ Gate(p) \/ Build(p) \/ Check(p)
    PROVE  PublicationInv'
<1>0. JournalGrows /\ UNCHANGED <<corpus, host, released, journal>>
  <2>1. UNCHANGED <<corpus, host, released, journal>>
    BY DEF Begin, Gate, Build, Check
  <2> QED BY <2>1, JournalStays
<1>1. Sound(p, pub[p], journal, released) /\ pub \in [Publications -> PubState] /\ corpus \in Versions
  BY DEF PublicationInv, Shapes, StepsInOrder
<1>2. CASE \E options \in SUBSET Options : Begin(p, options)
  <2>1. PICK options \in SUBSET Options : Begin(p, options)
    BY <1>2
  <2>2. "gate" \in Stages
    BY DEF Stages
  <2>3. /\ pub' \in [Publications -> PubState] /\ Elsewhere(p)
        /\ pub'[p].at = "gate" /\ pub'[p].result = pub[p].result /\ pub[p].at = "idle"
    BY <1>1, <2>1, <2>2 DEF Begin, PubState, Elsewhere
  <2>4. Sound(p, pub'[p], journal', released)
    BY <1>0, <1>1, <2>3 DEF Sound, Elsewhere, Early, Unseen
  <2> QED BY <1>0, <2>3, <2>4, QuietStep DEF Elsewhere, JournalGrows, Early
<1>3. CASE Gate(p) \/ Check(p)
  <2>1. CASE \E r \in {"refused", "dry run"} : End(p, r)
    BY <1>0, <2>1, EndKeepsInv DEF Results
  <2>2. CASE pub[p].at = "gate" /\ Go(p, "build")
    BY <1>0, <2>2, GoKeepsInv DEF Early, Unseen, Stages
  <2>3. CASE pub[p].at = "check" /\ Go(p, "begin")
    BY <1>0, <2>3, GoKeepsInv DEF Early, Unseen, Stages
  <2> QED BY <1>3, <2>1, <2>2, <2>3 DEF Gate, Check
<1>4. CASE Build(p)
  <2>1. CASE End(p, "refused")
    BY <1>0, <2>1, EndKeepsInv DEF Results
  <2>2. CASE pub' = [pub EXCEPT ![p].at = "check", ![p].data = IF "skip-build" \in pub[p].options THEN @ ELSE corpus]
    <3>1. "check" \in Stages /\ (IF "skip-build" \in pub[p].options THEN pub[p].data ELSE corpus) \in Versions
      BY <1>1 DEF Stages, PubState
    <3>2. /\ pub' \in [Publications -> PubState]
          /\ \A q \in Publications : q # p => pub'[q] = pub[q]
          /\ pub'[p].sha = pub[p].sha /\ pub'[p].key = pub[p].key
          /\ pub'[p].ok = pub[p].ok /\ pub'[p].seen = pub[p].seen
          /\ pub'[p].at = "check" /\ pub'[p].result = pub[p].result /\ pub[p].at = "build"
      <4> DEFINE data == IF "skip-build" \in pub[p].options THEN pub[p].data ELSE corpus
                 r    == [pub[p] EXCEPT !.at = "check", !.data = data]
      <4>1. pub' = [pub EXCEPT ![p] = r] /\ pub[p].at = "build" /\ pub[p] \in PubState
        BY <1>1, <1>4, <2>2 DEF Build
      <4> HIDE DEF data
      <4>2. r \in PubState
        BY <3>1, <4>1 DEF PubState, data
      <4>3. /\ r.sha = pub[p].sha /\ r.key = pub[p].key /\ r.ok = pub[p].ok /\ r.seen = pub[p].seen
            /\ r.at = "check" /\ r.result = pub[p].result
        BY <4>1 DEF PubState
      <4> HIDE DEF r
      <4> QED BY <1>1, <4>1, <4>2, <4>3
    <3>3. Sound(p, pub'[p], journal', released)
      BY <1>0, <1>1, <3>2 DEF Sound, Early, Unseen
    <3> QED BY <1>0, <3>2, <3>3, QuietStep DEF JournalGrows, Early
  <2> QED BY <1>4, <2>1, <2>2 DEF Build
<1> QED BY <1>2, <1>3, <1>4

\* A command joins an intent or inserts one: when it begins to deploy, its row
\* is there.
LEMMA IntentKeepsInv ==
    ASSUME PublicationInv, NEW p \in Publications, BeginCommand(p) \/ InsertIntent(p)
    PROVE  PublicationInv'
<1>0. UNCHANGED <<corpus, host, released>>
  BY DEF BeginCommand, InsertIntent
<1>1. /\ Sound(p, pub[p], journal, released) /\ pub \in [Publications -> PubState]
      /\ pub[p].sha \in Shas /\ pub[p].key \in Keys
      /\ journal \in [Shas -> [Keys -> {"none", "intent", "completed", "failed"}]]
  BY DEF PublicationInv, Shapes, StepsInOrder, PubState
<1>2. CASE BeginCommand(p)
  <2>0. journal' = journal /\ JournalGrows
    BY <1>0, <1>2, JournalStays DEF BeginCommand
  <2>1. CASE End(p, "refused")
    BY <1>0, <2>0, <2>1, EndKeepsInv DEF Results
  <2>2. CASE ~End(p, "refused")
    <3>1. PICK k \in Keys :
            pub' = [pub EXCEPT ![p].key = k,
                          ![p].at = IF journal[pub[p].sha][k] = "none" THEN "insert" ELSE "canonical"]
      BY <1>2, <2>2 DEF BeginCommand
    <3> DEFINE step == IF journal[pub[p].sha][k] = "none" THEN "insert" ELSE "canonical"
    <3>2. /\ step \in Stages /\ step \in {"insert", "canonical"} /\ pub[p].at = "begin"
          /\ step = "canonical" => journal[pub[p].sha][k] # "none"
      BY <1>2 DEF Stages, BeginCommand
    <3>3. pub' = [pub EXCEPT ![p].key = k, ![p].at = step]
      BY <3>1
    <3> HIDE DEF step
    <3>4. /\ pub' \in [Publications -> PubState]
          /\ \A q \in Publications : q # p => pub'[q] = pub[q]
          /\ pub'[p].sha = pub[p].sha /\ pub'[p].data = pub[p].data /\ pub'[p].key = k
          /\ pub'[p].ok = pub[p].ok /\ pub'[p].seen = pub[p].seen
          /\ pub'[p].at = step /\ pub'[p].result = pub[p].result
      BY <1>1, <3>2, <3>3 DEF PubState
    <3>5. Sound(p, pub'[p], journal', released)
      BY <1>1, <2>0, <3>2, <3>4 DEF Sound, Early, Unseen, Roles
    <3> QED BY <1>0, <2>0, <3>2, <3>4, <3>5, QuietStep DEF JournalGrows, Early
  <2> QED BY <2>1, <2>2
<1>3. CASE InsertIntent(p)
  <2>1. JournalGrows /\ journal'[pub[p].sha][pub[p].key] # "none"
    <3>1. CASE journal' = [journal EXCEPT ![pub[p].sha][pub[p].key] = "intent"]
      BY <1>0, <1>1, <3>1 DEF JournalGrows, PublicationInv, CompletedIsReleased
    <3>2. CASE journal' = journal /\ Row(p) # "none"
      BY <1>0, <3>2, JournalStays DEF Row
    <3> QED BY <1>3, <3>1, <3>2 DEF InsertIntent
  <2>2. CASE End(p, "refused")
    BY <1>0, <2>1, <2>2, EndKeepsInv DEF Results
  <2>3. CASE Go(p, "canonical")
    BY <1>0, <1>3, <2>1, <2>3, GoKeepsInv DEF InsertIntent, Stages, Early, Unseen
  <2> QED BY <1>3, <2>2, <2>3 DEF InsertIntent
<1> QED BY <1>2, <1>3
-----------------------------------------------------------------------------
(* The deployments and what follows.                                       *)

\* A host gets a new release only from a publication whose row is there and
\* that has not looked at either site.
LEMMA DeployKeepsInv ==
    ASSUME PublicationInv, NEW p \in Publications, NEW role \in Roles, Deploy(p, role)
    PROVE  PublicationInv'
<1> DEFINE s == pub[p].sha
           k == pub[p].key
<1>0. /\ Sound(p, pub[p], journal, released) /\ pub \in [Publications -> PubState]
      /\ s \in Shas /\ k \in Keys /\ pub[p].data \in Versions
      /\ host \in [Roles -> [data : Versions, by : Publications \cup {Nobody}]]
      /\ journal \in [Shas -> [Keys -> {"none", "intent", "completed", "failed"}]]
      /\ released \in [Shas -> [Keys -> SUBSET Publications]]
      /\ p # Nobody
  BY PublicationAssumption DEF PublicationInv, Shapes, StepsInOrder, PubState
<1>1. journal' = journal /\ corpus' = corpus /\ pub[p].at = role /\ role \in {"canonical", "mirror"}
  BY DEF Deploy, Roles
<1>2. /\ pub' \in [Publications -> PubState]
      /\ \A q \in Publications : q # p => pub'[q] = pub[q]
      /\ pub'[p].sha = s /\ pub'[p].data = pub[p].data /\ pub'[p].key = k
      /\ pub'[p].seen = pub[p].seen /\ pub'[p].result = pub[p].result
      /\ pub'[p].at \in {"mirror", "receipt"} /\ (role = "mirror" => pub'[p].at = "receipt")
      /\ pub'[p].ok \in {pub[p].ok, pub[p].ok \cup {role}}
  <2> DEFINE next == IF role = "canonical" THEN "mirror" ELSE "receipt"
  <2>1. next \in Stages /\ "receipt" \in Stages /\ next \in {"mirror", "receipt"} /\ (role = "mirror" => next = "receipt")
    BY <1>1 DEF Stages
  <2>2. \/ pub' = [pub EXCEPT ![p].at = next, ![p].ok = @ \cup {role}]
        \/ pub' = [pub EXCEPT ![p].at = next]
        \/ pub' = [pub EXCEPT ![p].at = "receipt", ![p].raised = TRUE]
    BY DEF Deploy, Go
  <2> HIDE DEF next
  <2>3. pub[p] \in PubState
    BY <1>0
  <2>4. CASE pub' = [pub EXCEPT ![p].at = next, ![p].ok = @ \cup {role}]
    <3> DEFINE r == [pub[p] EXCEPT !.at = next, !.ok = @ \cup {role}]
    <3>1. pub' = [pub EXCEPT ![p] = r]
      BY <2>4
    <3>2. r \in PubState
      BY <2>1, <2>3 DEF PubState
    <3>3. /\ r.sha = s /\ r.data = pub[p].data /\ r.key = k /\ r.seen = pub[p].seen
          /\ r.result = pub[p].result /\ r.at = next /\ r.ok = pub[p].ok \cup {role}
      BY <2>3 DEF PubState
    <3> HIDE DEF r
    <3>4. pub' \in [Publications -> PubState] /\ pub'[p] = r /\ \A q \in Publications : q # p => pub'[q] = pub[q]
      BY <1>0, <3>1, <3>2
    <3> QED BY <2>1, <3>3, <3>4
  <2>5. CASE pub' = [pub EXCEPT ![p].at = next]
    <3>1. Go(p, next)
      BY <2>5 DEF Go
    <3> QED BY <1>0, <2>1, <3>1, GoType DEF Elsewhere
  <2>6. CASE pub' = [pub EXCEPT ![p].at = "receipt", ![p].raised = TRUE]
    <3> DEFINE r == [pub[p] EXCEPT !.at = "receipt", !.raised = TRUE]
    <3>1. pub' = [pub EXCEPT ![p] = r]
      BY <2>6
    <3>2. r \in PubState
      BY <2>1, <2>3 DEF PubState
    <3>3. /\ r.sha = s /\ r.data = pub[p].data /\ r.key = k /\ r.seen = pub[p].seen
          /\ r.result = pub[p].result /\ r.at = "receipt" /\ r.ok = pub[p].ok
      BY <2>3 DEF PubState
    <3> HIDE DEF r
    <3>4. pub' \in [Publications -> PubState] /\ pub'[p] = r /\ \A q \in Publications : q # p => pub'[q] = pub[q]
      BY <1>0, <3>1, <3>2
    <3> QED BY <3>3, <3>4
  <2> QED BY <2>2, <2>4, <2>5, <2>6
<1>3. host' = host \/ host' = [host EXCEPT ![role] = [data |-> pub[p].data, by |-> p]]
  BY DEF Deploy, Serve
<1>4. /\ released' \in [Shas -> [Keys -> SUBSET Publications]]
      /\ \A t \in Shas, j \in Keys : released[t][j] \subseteq released'[t][j]
      /\ role = "mirror" /\ pub'[p].ok = Roles => p \in released'[s][k]
  <2>1. CASE role = "mirror" /\ pub'[p].ok = Roles
    <3>1. released' = [released EXCEPT ![s][k] = @ \cup {p}]
      BY <2>1 DEF Deploy
    <3> HIDE DEF s, k
    <3> QED BY <1>0, <3>1
  <2>2. CASE ~(role = "mirror" /\ pub'[p].ok = Roles)
    BY <1>0, <2>2 DEF Deploy
  <2> QED BY <2>1, <2>2
<1>5. pub[p].seen = {} /\ journal[s][k] # "none" /\ pub[p].result = "none"
  BY <1>0, <1>1 DEF Sound, Early, Unseen
<1>6. Shapes'
  <2>1. [data |-> pub[p].data, by |-> p] \in [data : Versions, by : Publications \cup {Nobody}]
    BY <1>0
  <2>2. host' \in [Roles -> [data : Versions, by : Publications \cup {Nobody}]]
    BY <1>0, <1>3, <2>1
  <2>3. corpus' \in Versions
    BY <1>1 DEF PublicationInv, Shapes
  <2>4. journal' \in [Shas -> [Keys -> {"none", "intent", "completed", "failed"}]]
    BY <1>0, <1>1
  <2> QED BY <1>2, <1>4, <2>2, <2>3, <2>4 DEF Shapes
<1>7. StepsInOrder'
  <2>1. ASSUME NEW q \in Publications, q # p
        PROVE  Sound(q, pub'[q], journal', released')
    <3>1. Sound(q, pub[q], journal, released) /\ pub[q].sha \in Shas /\ pub[q].key \in Keys
      BY DEF PublicationInv, Shapes, StepsInOrder, PubState
    <3> QED BY <1>1, <1>2, <1>4, <2>1, <3>1 DEF Sound
  <2>2. pub'[p].ok = Roles => role = "mirror"
    BY <1>0, <1>1, <1>2 DEF Sound, Roles
  <2>3. pub'[p].at = "mirror" => pub'[p].ok \subseteq {"canonical"}
    BY <1>0, <1>1, <1>2 DEF Sound
  <2>4. Sound(p, pub'[p], journal', released')
    BY <1>1, <1>2, <1>4, <1>5, <2>2, <2>3 DEF Sound, Early, Unseen
  <2> QED BY <2>1, <2>4 DEF StepsInOrder
<1>8. ServedIsRecorded'
  <2> SUFFICES ASSUME NEW h \in Roles, host'[h].by # Nobody
               PROVE  LET q == host'[h].by
                      IN  /\ pub'[q].at \notin Early /\ host'[h].data = pub'[q].data
                          /\ journal'[pub'[q].sha][pub'[q].key] # "none"
    BY DEF ServedIsRecorded, Row
  <2>1. CASE host'[h] = host[h]
    <3>1. /\ host[h].by \in Publications /\ pub[host[h].by].at \notin Early
          /\ host[h].data = pub[host[h].by].data
          /\ journal[pub[host[h].by].sha][pub[host[h].by].key] # "none"
      BY <1>0, <2>1 DEF PublicationInv, ServedIsRecorded, Row
    <3> QED BY <1>1, <1>2, <2>1, <3>1 DEF Early
  <2>2. CASE host'[h] = [data |-> pub[p].data, by |-> p]
    BY <1>1, <1>2, <1>5, <2>2 DEF Early
  <2> QED BY <1>0, <1>3, <2>1, <2>2
<1>9. DriftIsUnseen'
  <2>1. \A q \in Publications : pub'[q].seen = pub[q].seen
    BY <1>2
  <2>2. CASE host' = host
    BY <1>0, <2>1, <2>2 DEF PublicationInv, DriftIsUnseen, Saw, Roles
  <2>3. CASE host' = [host EXCEPT ![role] = [data |-> pub[p].data, by |-> p]]
    <3>1. host'[role].by = p /\ \A other \in Roles : ~Saw(p, other)'
      BY <1>0, <1>2, <1>5, <2>3 DEF Saw
    <3> QED BY <1>1, <3>1 DEF DriftIsUnseen, Roles
  <2> QED BY <1>3, <2>2, <2>3
<1>10. CompletedIsReleased'
  BY <1>1, <1>4 DEF PublicationInv, CompletedIsReleased
<1> QED BY <1>6, <1>7, <1>8, <1>9, <1>10 DEF PublicationInv

\* "completed" is written by a publication that released to both hosts.
LEMMA ReceiptKeepsInv ==
    ASSUME PublicationInv, NEW p \in Publications, ReceiptRead(p) \/ ReceiptWrite(p)
    PROVE  PublicationInv'
<1>0. /\ Sound(p, pub[p], journal, released) /\ pub[p].sha \in Shas /\ pub[p].key \in Keys
      /\ journal \in [Shas -> [Keys -> {"none", "intent", "completed", "failed"}]]
  BY DEF PublicationInv, Shapes, StepsInOrder, PubState
<1>1. /\ UNCHANGED <<corpus, host, released>> /\ pub[p].at \in {"receipt", "record"}
      /\ journal[pub[p].sha][pub[p].key] # "none"
  BY <1>0 DEF ReceiptRead, ReceiptWrite, Sound, Early
<1>2. JournalGrows
  <2>1. CASE ReceiptRead(p)
    BY <1>1, <2>1, JournalStays DEF ReceiptRead
  <2>2. CASE ReceiptWrite(p)
    <3>1. journal' = [journal EXCEPT ![pub[p].sha][pub[p].key] = Outcome(p)]
      BY <2>2 DEF ReceiptWrite
    <3>2. /\ Outcome(p) \in {"completed", "failed"}
          /\ Outcome(p) = "completed" => p \in released[pub[p].sha][pub[p].key]
      BY <1>0 DEF Outcome, Sound
    <3> QED BY <1>0, <1>1, <3>1, <3>2 DEF JournalGrows, CompletedIsReleased, PublicationInv
  <2> QED BY <2>1, <2>2
<1>3. journal'[pub[p].sha][pub[p].key] # "none"
  BY <1>0, <1>1, <1>2 DEF JournalGrows
<1>4. Go(p, "record") \/ Go(p, "archive") \/ End(p, "died")
  BY DEF ReceiptRead, ReceiptWrite, AfterReceipt
<1>5. CASE End(p, "died")
  BY <1>1, <1>2, <1>5, EndKeepsInv DEF Results
<1>6. CASE Go(p, "record")
  BY <1>1, <1>2, <1>3, <1>6, GoKeepsInv DEF Stages, Early, Unseen
<1>7. CASE Go(p, "archive")
  BY <1>1, <1>2, <1>3, <1>7, GoKeepsInv DEF Stages, Early, Unseen
<1> QED BY <1>4, <1>5, <1>6, <1>7

LEMMA RecordingKeepsInv ==
    ASSUME PublicationInv, NEW p \in Publications, Archive(p) \/ Database(p) \/ Killed(p)
    PROVE  PublicationInv'
<1>1. UNCHANGED <<corpus, host, released, journal>>
  BY DEF Archive, Database, Killed
<1>2. JournalGrows
  BY <1>1, JournalStays
<1>3. CASE \E r \in {"died", "deploy failed", "unchecked"} : End(p, r)
  BY <1>1, <1>2, <1>3, EndKeepsInv DEF Results
<1>4. CASE pub[p].at \in {"archive", "database"}
  <2>1. journal'[pub[p].sha][pub[p].key] # "none"
    BY <1>1, <1>4 DEF PublicationInv, StepsInOrder, Sound, Early
  <2>2. CASE Go(p, "database")
    BY <1>1, <1>2, <1>4, <2>1, <2>2, GoKeepsInv DEF Stages, Early, Unseen
  <2>3. CASE Go(p, "see canonical")
    BY <1>1, <1>2, <1>4, <2>1, <2>3, GoKeepsInv DEF Stages, Early, Unseen
  <2> QED BY <1>3, <2>2, <2>3 DEF Archive, Database, AfterRecords, Killed
<1> QED BY <1>3, <1>4 DEF Archive, Database, Killed

\* A site is seen only while it serves the data of the one who looks.
LEMMA LookKeepsInv ==
    ASSUME PublicationInv, NEW p \in Publications, SeeCanonical(p) \/ SeeMirror(p)
    PROVE  PublicationInv'
<1>0. Sound(p, pub[p], journal, released) /\ pub \in [Publications -> PubState]
  BY DEF PublicationInv, Shapes, StepsInOrder
<1>1. UNCHANGED <<corpus, host, released, journal>>
  BY DEF SeeCanonical, SeeMirror
<1>2. JournalGrows
  BY <1>1, JournalStays
<1>3. CASE SeeCanonical(p)
  <2> DEFINE seen == IF Seen(p, "canonical") THEN {"canonical"} ELSE {}
  <2>1. seen \in SUBSET Roles /\ \A role \in seen : host[role].data = pub[p].data
    BY DEF Seen, Roles
  <2>2. pub' = [pub EXCEPT ![p].at = "see mirror", ![p].seen = seen] /\ pub[p].at = "see canonical"
    BY <1>3 DEF SeeCanonical
  <2>3. "see mirror" \in Stages
    BY DEF Stages
  <2> HIDE DEF seen
  <2>4. /\ pub' \in [Publications -> PubState]
        /\ \A q \in Publications : q # p => pub'[q] = pub[q]
        /\ pub'[p].sha = pub[p].sha /\ pub'[p].data = pub[p].data /\ pub'[p].key = pub[p].key
        /\ pub'[p].ok = pub[p].ok /\ pub'[p].seen = seen
        /\ pub'[p].at = "see mirror" /\ pub'[p].result = pub[p].result
    BY <1>0, <2>1, <2>2, <2>3 DEF PubState
  <2>5. Sound(p, pub'[p], journal', released)
    BY <1>0, <1>1, <2>2, <2>4 DEF Sound, Early, Unseen
  <2> QED BY <1>1, <1>2, <2>1, <2>4, <2>5, QuietStep DEF JournalGrows, Early
<1>4. CASE SeeMirror(p)
  <2> DEFINE seen == pub[p].seen \cup (IF Seen(p, "mirror") THEN {"mirror"} ELSE {})
             result == IF seen = Roles THEN "published" ELSE "not live"
  <2>1. seen \in SUBSET Roles /\ \A role \in seen \ pub[p].seen : host[role].data = pub[p].data
    BY <1>0 DEF Seen, Roles, PubState
  <2>2. pub' = [pub EXCEPT ![p].at = "done", ![p].seen = seen, ![p].result = result] /\ pub[p].at = "see mirror"
    BY <1>4 DEF SeeMirror
  <2>3. "done" \in Stages /\ result \in Results /\ (result = "published" => seen = Roles)
    BY DEF Stages, Results
  <2> HIDE DEF seen, result
  <2>4. /\ pub' \in [Publications -> PubState]
        /\ \A q \in Publications : q # p => pub'[q] = pub[q]
        /\ pub'[p].sha = pub[p].sha /\ pub'[p].data = pub[p].data /\ pub'[p].key = pub[p].key
        /\ pub'[p].ok = pub[p].ok /\ pub'[p].seen = seen
        /\ pub'[p].at = "done" /\ pub'[p].result = result
    <3> DEFINE r == [pub[p] EXCEPT !.at = "done", !.seen = seen, !.result = result]
    <3>1. pub' = [pub EXCEPT ![p] = r]
      BY <2>2
    <3>2. pub[p] \in PubState
      BY <1>0
    <3>3. r \in PubState
      BY <2>1, <2>3, <3>2 DEF PubState
    <3>4. /\ r.sha = pub[p].sha /\ r.data = pub[p].data /\ r.key = pub[p].key
          /\ r.ok = pub[p].ok /\ r.seen = seen /\ r.at = "done" /\ r.result = result
      BY <3>2 DEF PubState
    <3> HIDE DEF r
    <3> QED BY <1>0, <3>1, <3>3, <3>4
  <2>5. Sound(p, pub'[p], journal', released)
    BY <1>0, <1>1, <2>2, <2>3, <2>4 DEF Sound, Early, Unseen
  <2> QED BY <1>1, <1>2, <2>1, <2>4, <2>5, QuietStep DEF JournalGrows, Early
<1> QED BY <1>3, <1>4

LEMMA PublicationStep == PublicationInv /\ [PublicationNext]_publicationVars => PublicationInv'
<1> SUFFICES ASSUME PublicationInv, [PublicationNext]_publicationVars PROVE PublicationInv'
  OBVIOUS
<1>1. CASE UNCHANGED <<pub, host, journal, released>> /\ corpus' \in Versions
  BY <1>1 DEF PublicationInv, Shapes, StepsInOrder, ServedIsRecorded, DriftIsUnseen, CompletedIsReleased, Saw, Row
<1>2. CASE Grow
  BY <1>1, <1>2, PublicationAssumption DEF Grow, PublicationInv, Shapes, Versions
<1>3. CASE UNCHANGED publicationVars
  BY <1>1, <1>3 DEF publicationVars, PublicationInv, Shapes
<1> QED BY <1>2, <1>3, PreparationKeepsInv, IntentKeepsInv, DeployKeepsInv, ReceiptKeepsInv,
           RecordingKeepsInv, LookKeepsInv DEF PublicationNext, PublishRelease

\* "The mirror must never drift from canonical": when the hosts serve different
\* data, one of the publications they serve has not reported success, however
\* many overlapped.
THEOREM DriftIsAlwaysReported == PublicationSpec => []DriftIsReported
<1>1. PublicationInv => DriftIsReported
  <2> SUFFICES ASSUME PublicationInv, host["canonical"].data # host["mirror"].data,
                      \A h \in Roles : host[h].by # Nobody => pub[host[h].by].result = "published"
               PROVE  FALSE
    BY DEF DriftIsReported
  <2>1. ASSUME NEW h \in Roles, NEW g \in Roles
        PROVE  Saw(host[h].by, g)
    <3>1. host[h].by = Nobody \/ host[h].by \in Publications
      BY DEF PublicationInv, Shapes
    <3> QED BY <3>1 DEF PublicationInv, StepsInOrder, Sound, Saw
  <2> QED BY <2>1 DEF PublicationInv, DriftIsUnseen, Roles
<1> QED BY <1>1, InitPublication, PublicationStep, PTL DEF PublicationSpec

\* The journal under overlapping publications that share a row: completed
\* stands for a release to both hosts, and a release leaves a row.
THEOREM JournalTellsTheTruth == PublicationSpec => []JournalIsTruthful
<1>1. PublicationInv => JournalIsTruthful
  BY DEF PublicationInv, CompletedIsReleased, ServedIsRecorded, JournalIsTruthful, Row
<1> QED BY <1>1, InitPublication, PublicationStep, PTL DEF PublicationSpec

-----------------------------------------------------------------------------
(* How a command ends.                                                     *)

\* A command whose deployment raised ends with the receipt, and only one that
\* released to both hosts looks at the sites.
EndsInOrder(r) ==
    /\ r.raised => r.at \in {"receipt", "record", "done"}
    /\ (r.result = "none") <=> (r.at # "done")
    /\ r.at \in {"see canonical", "see mirror"} => r.ok = Roles
    /\ r.result = "published" => r.ok = Roles

EndsInv ==
    /\ PublicationInv
    /\ \A p \in Publications : EndsInOrder(pub[p])
    /\ rows \subseteq [pub : Publications, role : Roles, ok : BOOLEAN]

LEMMA InitEnds == PublicationInit => EndsInv
<1> SUFFICES ASSUME PublicationInit PROVE EndsInv
  OBVIOUS
<1>1. \A p \in Publications : /\ pub[p].at = "idle" /\ pub[p].result = "none"
                              /\ pub[p].raised = FALSE
  BY DEF PublicationInit
<1> QED BY <1>1, InitPublication DEF EndsInv, EndsInOrder, PublicationInit

\* Going on and ending, as records.
LEMMA GoesOn ==
    ASSUME EndsInv, NEW p \in Publications, NEW step, Go(p, step),
           pub[p].at # "done", step # "done",
           pub[p].raised => step \in {"receipt", "record"},
           step \in {"see canonical", "see mirror"} => pub[p].ok = Roles
    PROVE  \A q \in Publications : EndsInOrder(pub'[q])
<1>1. pub \in [Publications -> PubState]
  BY DEF EndsInv, PublicationInv, Shapes
<1>2. /\ \A q \in Publications : q # p => pub'[q] = pub[q]
      /\ pub'[p] = [pub[p] EXCEPT !.at = step]
  BY <1>1 DEF Go
<1>3. /\ pub'[p].at = step /\ pub'[p].result = pub[p].result
      /\ pub'[p].raised = pub[p].raised /\ pub'[p].ok = pub[p].ok
  BY <1>1, <1>2 DEF PubState
<1>4. pub[p].result = "none"
  BY DEF EndsInv, EndsInOrder
<1>5. pub[p].raised \in BOOLEAN
  BY <1>1 DEF PubState
<1>6. EndsInOrder(pub'[p])
  <2> HIDE DEF Go
  <2>1. pub'[p].raised => step \in {"receipt", "record", "done"}
    BY <1>3, <1>5
  <2>2. (pub'[p].result = "none") <=> (pub'[p].at # "done")
    BY <1>3, <1>4
  <2>3. pub'[p].at \in {"see canonical", "see mirror"} => pub'[p].ok = Roles
    BY <1>3
  <2>4. pub'[p].result = "published" => pub'[p].ok = Roles
    BY <1>3, <1>4
  <2> QED BY <2>1, <2>2, <2>3, <2>4, <1>3 DEF EndsInOrder
<1> QED BY <1>2, <1>6 DEF EndsInv

LEMMA EndsWith ==
    ASSUME EndsInv, NEW p \in Publications, NEW r \in Results \ {"none", "published"}, End(p, r)
    PROVE  \A q \in Publications : EndsInOrder(pub'[q])
<1>1. pub \in [Publications -> PubState]
  BY DEF EndsInv, PublicationInv, Shapes
<1>2. /\ \A q \in Publications : q # p => pub'[q] = pub[q]
      /\ pub'[p] = [pub[p] EXCEPT !.at = "done", !.result = r]
  BY <1>1 DEF End
<1>3. pub'[p].at = "done" /\ pub'[p].result = r
  BY <1>1, <1>2 DEF PubState
<1> QED BY <1>2, <1>3 DEF EndsInv, EndsInOrder

LEMMA EndsStep ==
    ASSUME EndsInv, NEW p \in Publications, PublishRelease(p) \/ Killed(p)
    PROVE  \A q \in Publications : EndsInOrder(pub'[q])
<1>0. /\ pub \in [Publications -> PubState] /\ EndsInOrder(pub[p])
      /\ pub[p].raised \in BOOLEAN
  BY DEF EndsInv, PublicationInv, Shapes, PubState
<1>1. CASE \E r \in Results \ {"none", "published"} : End(p, r)
  BY <1>1, EndsWith
<1>2. ASSUME NEW r, \A q \in Publications : pub'[q] = IF q = p THEN r ELSE pub[q], EndsInOrder(r)
      PROVE  \A q \in Publications : EndsInOrder(pub'[q])
  BY <1>2 DEF EndsInv
<1>3. CASE \E options \in SUBSET Options : Begin(p, options)
  <2>1. PICK options \in SUBSET Options : Begin(p, options)
    BY <1>3
  <2> DEFINE r == [pub[p] EXCEPT !.at = "gate", !.options = options]
  <2>2. (\A q \in Publications : pub'[q] = IF q = p THEN r ELSE pub[q]) /\ pub[p].at = "idle"
    BY <1>0, <2>1 DEF Begin
  <2>3. EndsInOrder(r)
    BY <1>0, <2>2 DEF EndsInOrder, PubState
  <2> QED BY <1>2, <2>2, <2>3
<1>4. CASE Gate(p) \/ Check(p)
  <2>1. pub[p].at \in {"gate", "check"}
    BY <1>4 DEF Gate, Check
  <2>2. CASE Go(p, "build") \/ Go(p, "begin")
    BY <1>0, <2>1, <2>2, GoesOn DEF EndsInOrder
  <2>3. CASE End(p, "refused") \/ End(p, "dry run")
    BY <1>1, <2>3 DEF Results
  <2> QED BY <1>4, <2>2, <2>3 DEF Gate, Check
<1>5. CASE Build(p)
  <2>1. CASE End(p, "refused")
    BY <1>1, <2>1 DEF Results
  <2>2. CASE ~End(p, "refused")
    <3>1. PICK data : pub' = [pub EXCEPT ![p].at = "check", ![p].data = data]
      BY <1>5, <2>2 DEF Build
    <3> DEFINE r == [pub[p] EXCEPT !.at = "check", !.data = data]
    <3>2. (\A q \in Publications : pub'[q] = IF q = p THEN r ELSE pub[q]) /\ pub[p].at = "build"
      BY <1>0, <1>5, <3>1 DEF Build
    <3>3. EndsInOrder(r)
      BY <1>0, <3>2 DEF EndsInOrder, PubState
    <3> QED BY <1>2, <3>2, <3>3
  <2> QED BY <2>1, <2>2
<1>6. CASE BeginCommand(p)
  <2>1. CASE End(p, "refused")
    BY <1>1, <2>1 DEF Results
  <2>2. CASE ~End(p, "refused")
    <3>1. PICK k \in Keys :
            pub' = [pub EXCEPT ![p].key = k,
                          ![p].at = IF journal[pub[p].sha][k] = "none" THEN "insert" ELSE "canonical"]
      BY <1>6, <2>2 DEF BeginCommand
    <3>2. PICK step \in {"insert", "canonical"} :
            step = IF journal[pub[p].sha][k] = "none" THEN "insert" ELSE "canonical"
      OBVIOUS
    <3> DEFINE r == [pub[p] EXCEPT !.key = k, !.at = step]
    <3>3. (\A q \in Publications : pub'[q] = IF q = p THEN r ELSE pub[q]) /\ pub[p].at = "begin"
      BY <1>0, <1>6, <3>1, <3>2 DEF BeginCommand
    <3>4. EndsInOrder(r)
      BY <1>0, <3>2, <3>3 DEF EndsInOrder, PubState
    <3> QED BY <1>2, <3>3, <3>4
  <2> QED BY <2>1, <2>2
<1>7. CASE InsertIntent(p)
  <2>1. pub[p].at = "insert" /\ (Go(p, "canonical") \/ End(p, "refused"))
    BY <1>7 DEF InsertIntent
  <2>2. CASE Go(p, "canonical")
    BY <1>0, <2>1, <2>2, GoesOn DEF EndsInOrder
  <2>3. CASE End(p, "refused")
    BY <1>1, <2>3 DEF Results
  <2> QED BY <2>1, <2>2, <2>3
<1>8. ASSUME NEW role \in Roles, Deploy(p, role) PROVE \A q \in Publications : EndsInOrder(pub'[q])
  <2>1. PICK next \in {"mirror", "receipt"} : next = IF role = "canonical" THEN "mirror" ELSE "receipt"
    OBVIOUS
  <2>2. pub[p].at = role /\ role # "done" /\ role \notin {"receipt", "record"}
    BY <1>8 DEF Deploy, Roles
  <2>3. CASE Go(p, next)
    BY <1>0, <2>1, <2>2, <2>3, GoesOn DEF EndsInOrder
  <2>4. CASE pub' = [pub EXCEPT ![p].at = next, ![p].ok = @ \cup {role}]
    <3> DEFINE r == [pub[p] EXCEPT !.at = next, !.ok = pub[p].ok \cup {role}]
    <3>1. \A q \in Publications : pub'[q] = IF q = p THEN r ELSE pub[q]
      BY <1>0, <2>4
    <3>2. /\ r.at = next /\ r.raised = pub[p].raised /\ r.result = pub[p].result
      BY <1>0 DEF PubState
    <3> HIDE DEF r
    <3>3. EndsInOrder(r)
      BY <1>0, <2>2, <3>2 DEF EndsInOrder
    <3> QED BY <1>2, <3>1, <3>3
  <2>5. CASE pub' = [pub EXCEPT ![p].at = "receipt", ![p].raised = TRUE]
    <3> DEFINE r == [pub[p] EXCEPT !.at = "receipt", !.raised = TRUE]
    <3>1. \A q \in Publications : pub'[q] = IF q = p THEN r ELSE pub[q]
      BY <1>0, <2>5
    <3>2. EndsInOrder(r)
      BY <1>0, <2>2 DEF EndsInOrder, PubState
    <3> QED BY <1>2, <3>1, <3>2
  <2> QED BY <1>8, <2>1, <2>3, <2>4, <2>5 DEF Deploy
<1>9. CASE ReceiptRead(p) \/ ReceiptWrite(p)
  <2>1. pub[p].at \in {"receipt", "record"}
    BY <1>9 DEF ReceiptRead, ReceiptWrite
  <2>2. Go(p, "record") \/ (Go(p, "archive") /\ ~pub[p].raised) \/ End(p, "died")
    BY <1>9 DEF ReceiptRead, ReceiptWrite, AfterReceipt
  <2>3. CASE End(p, "died")
    BY <1>1, <2>3 DEF Results
  <2>4. CASE Go(p, "record") \/ (Go(p, "archive") /\ ~pub[p].raised)
    BY <1>0, <2>1, <2>4, GoesOn
  <2> QED BY <2>2, <2>3, <2>4
<1>10. CASE Archive(p) \/ Database(p)
  <2>1. pub[p].at \in {"archive", "database"} /\ ~pub[p].raised
    BY <1>0, <1>10 DEF Archive, Database, EndsInOrder
  <2>2. \/ Go(p, "database") \/ (Go(p, "see canonical") /\ pub[p].ok = Roles)
        \/ \E r \in {"died", "deploy failed", "unchecked"} : End(p, r)
    BY <1>10 DEF Archive, Database, AfterRecords
  <2>3. CASE \E r \in {"died", "deploy failed", "unchecked"} : End(p, r)
    BY <1>1, <2>3 DEF Results
  <2>4. CASE Go(p, "database") \/ (Go(p, "see canonical") /\ pub[p].ok = Roles)
    BY <2>1, <2>4, GoesOn
  <2> QED BY <2>2, <2>3, <2>4
<1>11. CASE SeeCanonical(p)
  <2>1. PICK seen : pub' = [pub EXCEPT ![p].at = "see mirror", ![p].seen = seen]
    BY <1>11 DEF SeeCanonical
  <2> DEFINE r == [pub[p] EXCEPT !.at = "see mirror", !.seen = seen]
  <2>2. (\A q \in Publications : pub'[q] = IF q = p THEN r ELSE pub[q]) /\ pub[p].at = "see canonical"
    BY <1>0, <1>11, <2>1 DEF SeeCanonical
  <2>3. EndsInOrder(r)
    BY <1>0, <2>2 DEF EndsInOrder, PubState
  <2> QED BY <1>2, <2>2, <2>3
<1>12. CASE SeeMirror(p)
  <2> DEFINE seen == pub[p].seen \cup (IF Seen(p, "mirror") THEN {"mirror"} ELSE {})
             result == IF seen = Roles THEN "published" ELSE "not live"
             r == [pub[p] EXCEPT !.at = "done", !.seen = seen, !.result = result]
  <2>1. /\ pub' = [pub EXCEPT ![p].at = "done", ![p].seen = seen, ![p].result = result]
        /\ pub[p].at = "see mirror"
    BY <1>12 DEF SeeMirror
  <2>2. result # "none"
    OBVIOUS
  <2> HIDE DEF seen, result
  <2>3. \A q \in Publications : pub'[q] = IF q = p THEN r ELSE pub[q]
    BY <1>0, <2>1
  <2>4. r.at = "done" /\ r.result = result /\ r.ok = pub[p].ok
    BY <1>0 DEF PubState
  <2>5. pub[p].ok = Roles
    BY <1>0, <2>1 DEF EndsInOrder
  <2> HIDE DEF r
  <2>6. EndsInOrder(r)
    BY <2>2, <2>4, <2>5 DEF EndsInOrder
  <2> QED BY <1>2, <2>3, <2>6
<1>13. CASE Killed(p)
  BY <1>1, <1>13 DEF Killed, Results
<1> QED BY <1>3, <1>4, <1>5, <1>6, <1>7, <1>8, <1>9, <1>10, <1>11, <1>12, <1>13 DEF PublishRelease

LEMMA RowsAreTyped ==
    ASSUME EndsInv, [PublicationNext]_publicationVars
    PROVE  rows' \subseteq [pub : Publications, role : Roles, ok : BOOLEAN]
<1>1. ASSUME NEW p \in Publications, Database(p)
      PROVE  rows' \subseteq [pub : Publications, role : Roles, ok : BOOLEAN]
  <2> DEFINE row(role) == [pub |-> p, role |-> role, ok |-> role \in pub[p].ok]
  <2>1. ASSUME NEW role \in Roles
        PROVE  row(role) \in [pub : Publications, role : Roles, ok : BOOLEAN]
    <3>1. (role \in pub[p].ok) \in BOOLEAN
      OBVIOUS
    <3> QED BY <3>1
  <2>2. rows' \subseteq rows \cup {row(role) : role \in Roles}
    BY <1>1 DEF Database, Roles
  <2> HIDE DEF row
  <2> QED BY <2>1, <2>2 DEF EndsInv
<1>2. CASE ~\E p \in Publications : Database(p)
  <2>1. rows' = rows
    BY <1>2 DEF PublicationNext, PublishRelease, publicationVars, Grow, Begin, Gate, Build, Check, BeginCommand,
         InsertIntent, Deploy, ReceiptRead, ReceiptWrite, Archive, SeeCanonical, SeeMirror, Killed
  <2> QED BY <2>1 DEF EndsInv
<1> QED BY <1>1, <1>2

\* publish_release: a command that is over has a result; "published" is only
\* the result of one that released to both hosts and saw its data on both, and
\* one whose deployment raised goes no further than its receipt.
THEOREM SuccessIsEarned == PublicationSpec => []PublicationTypeOK
<1>1. EndsInv /\ [PublicationNext]_publicationVars => EndsInv'
  <2> SUFFICES ASSUME EndsInv, [PublicationNext]_publicationVars PROVE EndsInv'
    OBVIOUS
  <2>1. CASE pub' = pub
    BY <2>1, PublicationStep, RowsAreTyped DEF EndsInv
  <2>2. CASE \E p \in Publications : PublishRelease(p) \/ Killed(p)
    BY <2>2, EndsStep, PublicationStep, RowsAreTyped DEF EndsInv
  <2> QED BY <2>1, <2>2 DEF PublicationNext, Grow, publicationVars
<1>2. EndsInv => PublicationTypeOK
  <2> SUFFICES ASSUME EndsInv PROVE PublicationTypeOK
    OBVIOUS
  <2>1. ASSUME NEW p \in Publications
        PROVE  /\ pub[p].at \in Stages /\ pub[p].result \in Results /\ pub[p].sha \in Shas
               /\ pub[p].data \in Versions /\ pub[p].key \in Keys
               /\ pub[p].options \subseteq Options
               /\ pub[p].ok \subseteq Roles /\ pub[p].seen \subseteq Roles
    BY DEF EndsInv, PublicationInv, Shapes, PubState
  <2>2. \A p \in Publications : /\ EndsInOrder(pub[p])
                                /\ pub[p].result = "published" => pub[p].seen = Roles
    BY DEF EndsInv, PublicationInv, StepsInOrder, Sound
  <2>3. /\ corpus \in Versions /\ host \in [Roles -> [data : Versions, by : Publications \cup {Nobody}]]
        /\ journal \in [Shas -> [Keys -> {"none", "intent", "completed", "failed"}]]
    BY DEF EndsInv, PublicationInv, Shapes
  <2> QED BY <2>1, <2>2, <2>3 DEF EndsInOrder, EndsInv, PublicationTypeOK
<1> QED BY <1>1, <1>2, InitEnds, PTL DEF PublicationSpec

==============================================================================

------------------------ MODULE WorkflowEngineProofs ------------------------
(***************************************************************************)
(* Theorems about WorkflowEngine, for any number of phases, checkpoints,   *)
(* attempts, corrections, runs and kills.                                  *)
(***************************************************************************)
EXTENDS WorkflowEngine, SequenceTheorems, FiniteSetTheorems, NaturalsInduction, WellFoundedInduction, TLAPS

-----------------------------------------------------------------------------
(* The inductive invariant.                                                *)

Running     == {"loop", "invoke", "agent", "worked", "gates", "conclude"}
RowsState   == [n : Nat, cost : Nat]
RecordState == [phase : Phases, status : {"ok", "awaiting", "failed"}, rows : RowsState]
LedgerState == [state : {"none", "running", "failed", "cancelled", "awaiting", "succeeded"},
                written : BOOLEAN, ok : SUBSET Phases, reached : SUBSET Phases,
                inherited : [Phases -> 0..MaxRuns], candidate : Nat, linked : BOOLEAN]

\* The worktree and what was signed in it.
WorktreeTyped ==
    /\ history \in Seq(0..MaxPhase) /\ Tip >= 1 /\ dirty \in BOOLEAN
    /\ artifact \in [Checkpoints -> [run : 0..MaxRuns, candidate : Nat, since : Nat]]
    /\ \A c \in Checkpoints : artifact[c].since <= Tip

\* The runs there have been.
RunsTyped ==
    /\ ledgers \in [Runs -> LedgerState]
    /\ run \in 0..MaxRuns /\ parent \in 0..run /\ kills \in 0..MaxKills
    /\ \A r \in Runs : r > run => ledgers[r] = NoLedger
    /\ at # "idle" => run # 0
    /\ at \in Running => ~ledgers[run].written

\* The books of the run under way.
BooksTyped ==
    /\ at \in Points /\ idx \in 1..MaxPhase + 1
    /\ completed \subseteq Phases /\ inherited \in [Phases -> 0..MaxRuns]
    /\ records \in Seq(RecordState)
    /\ priorInvocations \in [Phases -> RowsState]
    /\ correctionBudget \in [Phases -> Nat]
    /\ \A p \in Phases : correctionBudget[p] <= GateRetry[p]
    /\ attempt \in 1..MaxAttempts /\ attemptRows \in RowsState \cup {Unbound} /\ status \in Statuses
    /\ awaiting \in Checkpoints \cup {0}
    /\ fresh \subseteq Phases /\ issued \in [Phases -> Seq(Nat)]
    /\ at \in Running \ {"loop"} => idx \in Phases \ completed
    /\ at \in {"invoke", "agent", "worked", "gates"} => idx \in Agents

\* Phases are executed in order, so that a phase has one record.
RecordsInOrder ==
    /\ \A i, j \in DOMAIN records : records[i].phase = records[j].phase => i = j
    /\ at \in Running => \A i \in DOMAIN records : records[i].phase < idx /\ records[i].status = "ok"

\* Every checkpoint the run has passed, or will skip, is signed.
SignedAhead ==
    at \in Running =>
        \A c \in Checkpoints : c < idx \/ c \in completed =>
            artifact[c].candidate = CommitOf(c) /\ artifact[c].since > CommitOf(c)

\* The ordinals given to a phase are counted by its record, or by what was
\* retained of it; those of the phase under way by its attempts as well.
Issued(p, n) == \A i \in DOMAIN issued[p] : issued[p][i] <= n
CountedByBooks(p) ==
    /\ \A i \in DOMAIN records : records[i].phase = p => Issued(p, records[i].rows.n)
    /\ (p # idx \/ at = "loop") /\ (\A i \in DOMAIN records : records[i].phase # p)
          => Issued(p, priorInvocations[p].n)
CountedByAttempts ==
    /\ at \in {"invoke", "agent", "worked"} => attemptRows.n + 1 = Ordinal(idx)
    /\ at = "gates" => attemptRows.n = Ordinal(idx)
    /\ at = "invoke" => Issued(idx, attemptRows.n)
    /\ at \in {"agent", "worked", "gates"} => Issued(idx, Ordinal(idx))
    /\ at = "conclude" /\ status \in {"ok", "gate"} /\ idx \in Agents => Issued(idx, attemptRows.n)
OrdinalsCounted ==
    /\ \A p \in TestPhases : issued[p] = <<>>
    /\ at \in Running => \A p \in Phases : CountedByBooks(p)
    /\ CountedByAttempts

\* What the run has in its books as done, and the checkpoints it has reached.
Recorded(verdict) == {records[i].phase : i \in {j \in DOMAIN records : records[j].status = verdict}}
Inherited == {p \in Phases : inherited[p] # 0}
Done      == Recorded("ok") \cup Inherited
Reached   == ledgers[run].reached \cup Recorded("awaiting")
LedgerDone(r) == ledgers[r].ok \cup {p \in Phases : ledgers[r].inherited[p] # 0}
Closed(S) == \A p \in S, q \in Phases : q < p => q \in S
\* done and reached are what the last executions say.
UpToDate(done, reached) ==
    /\ done \subseteq fresh /\ Closed(done)
    /\ reached \subseteq fresh /\ \A p \in reached, q \in Phases : q < p => q \in done

\* The books of a run that started fresh, or continues the run before it.
FreshSoFar ==
    /\ 1..idx - 1 \subseteq fresh /\ 1..idx - 1 \subseteq Done
    /\ \A p \in Inherited : p < idx
    /\ completed \subseteq fresh /\ Closed(completed)
    /\ parent = 0 => completed = {}
    /\ ledgers[run].reached = {}
LinkedIsFresh ==
    run # 0 /\ ledgers[run].linked =>
        /\ at \in Running => FreshSoFar
        /\ at = "ledger" /\ ~ledgers[run].written => UpToDate(Done, Reached)
        /\ at \in {"ledger", "idle"} /\ ledgers[run].written =>
               UpToDate(LedgerDone(run), ledgers[run].reached)
        /\ at = "ledger" /\ awaiting = 0 =>
               fresh = Phases \/ \E i \in DOMAIN records : records[i].status # "ok"

EngineInv ==
    /\ WorktreeTyped /\ RunsTyped /\ BooksTyped
    /\ RecordsInOrder /\ SignedAhead /\ OrdinalsCounted /\ AttemptOrdinalsUnique /\ LinkedIsFresh

-----------------------------------------------------------------------------
(* Least and greatest numbers.                                             *)

LEMMA LeastNatural ==
    ASSUME NEW S \in SUBSET Nat, S # {}
    PROVE  \E x \in S : \A y \in S : x <= y
<1> DEFINE R == OpToRel(<, Nat)
<1>1. PICK x \in S : \A y \in S : ~(<<y, x>> \in R)
  <2>1. IsWellFoundedOn(R, Nat)
    BY NatLessThanWellFounded
  <2> HIDE DEF R
  <2> QED
    BY <2>1, WFMin, Zenon
<1>2. \A y \in S : ~(y < x)
  BY <1>1 DEF OpToRel
<1> QED
  BY <1>2

LEMMA GreatestBelow ==
    ASSUME NEW n \in Nat, NEW S \in SUBSET (1..n), S # {}
    PROVE  \E x \in S : \A y \in S : y <= x
<1> DEFINE T == {n - y : y \in S}
<1>1. T \in SUBSET Nat /\ T # {}
  <2>1. \A y \in S : n - y \in Nat
    OBVIOUS
  <2>2. QED
    BY <2>1
<1> HIDE DEF T
<1>2. PICK t \in T : \A u \in T : t <= u
  BY <1>1, LeastNatural
<1>3. PICK x \in S : t = n - x
  BY DEF T
<1>4. \A y \in S : n - x <= n - y
  BY <1>2, <1>3 DEF T
<1> QED
  BY <1>4

-----------------------------------------------------------------------------
(* The latest commit of a phase.                                           *)

\* A commit with another subject does not change it.
LEMMA CommitStays ==
    ASSUME NEW q \in 0..MaxPhase, NEW p, p # q,
           history \in Seq(0..MaxPhase), history' = Append(history, q)
    PROVE  CommitOf(p)' = CommitOf(p)
<1> DEFINE I(t) == {i \in 1..Len(t) : t[i] = p}
<1>1. I(history') = I(history)
  <2>1. /\ Len(history') = Len(history) + 1 /\ history'[Len(history) + 1] = q
        /\ \A i \in 1..Len(history) : history'[i] = history[i]
    OBVIOUS
  <2>2. \A i \in 1..Len(history) + 1 : i \in 1..Len(history) \/ i = Len(history) + 1
    OBVIOUS
  <2>3. \A i \in 1..Len(history) : i \in 1..Len(history) + 1
    OBVIOUS
  <2>4. QED
    BY <2>1, <2>2, <2>3
<1>2. QED
  BY <1>1 DEF CommitOf, SelectLastInSeq

-----------------------------------------------------------------------------
(* The records of the phases.                                              *)

OnePerPhase(s) == \A i, j \in DOMAIN s : s[i].phase = s[j].phase => i = j

\* The record of a phase, where there is one.
LEMMA RecordFound ==
    ASSUME NEW s \in Seq(RecordState), NEW k \in 1..Len(s), OnePerPhase(s)
    PROVE  RecordOf(s, s[k].phase) = k
<1>1. {i \in 1..Len(s) : s[i].phase = s[k].phase} = {k}
  BY DEF OnePerPhase
<1>2. QED
  BY <1>1 DEF RecordOf, SelectLastInSeq, Max

LEMMA NoRecordFound ==
    ASSUME NEW s \in Seq(RecordState), NEW p, \A i \in 1..Len(s) : s[i].phase # p
    PROVE  RecordOf(s, p) = 0
BY DEF RecordOf, SelectLastInSeq

\* What is left without the record of a phase.
LEMMA RecordDropped ==
    ASSUME NEW s \in Seq(RecordState), NEW p, OnePerPhase(s)
    PROVE  /\ Without(s, p) \in Seq(RecordState)
           /\ OnePerPhase(Without(s, p))
           /\ \A i \in DOMAIN Without(s, p) :
                  \E j \in DOMAIN s : Without(s, p)[i] = s[j] /\ s[j].phase # p
           /\ \A j \in DOMAIN s : s[j].phase # p =>
                  \E i \in DOMAIN Without(s, p) : Without(s, p)[i] = s[j]
<1>1. CASE \A i \in 1..Len(s) : s[i].phase # p
  <2>1. Without(s, p) = s
    BY <1>1, NoRecordFound DEF Without
  <2>2. QED
    BY <1>1, <2>1
<1>2. CASE \E k \in 1..Len(s) : s[k].phase = p
  <2>1. PICK k \in 1..Len(s) : s[k].phase = p
    BY <1>2
  <2>2. RecordOf(s, p) = k
    BY <2>1, RecordFound
  <2> DEFINE t == SubSeq(s, 1, k - 1) \o SubSeq(s, k + 1, Len(s))
  <2>3. Without(s, p) = t
    <3>1. k # 0
      OBVIOUS
    <3>2. Without(s, p) = RemoveAt(s, k)
      BY <2>2, <3>1 DEF Without
    <3>3. QED
      BY <3>2 DEF RemoveAt
  <2>4. /\ t \in Seq(RecordState) /\ Len(s) \in Nat /\ Len(t) = Len(s) - 1
        /\ \A i \in 1..Len(t) : t[i] = IF i < k THEN s[i] ELSE s[i + 1]
    <3>1. /\ SubSeq(s, 1, k - 1) \in Seq(RecordState) /\ SubSeq(s, k + 1, Len(s)) \in Seq(RecordState)
          /\ Len(SubSeq(s, 1, k - 1)) = k - 1 /\ Len(SubSeq(s, k + 1, Len(s))) = Len(s) - k
      BY <2>1, SubSeqProperties
    <3>2. /\ \A i \in 1..(k - 1) : SubSeq(s, 1, k - 1)[i] = s[i]
          /\ \A i \in 1..(Len(s) - k) : SubSeq(s, k + 1, Len(s))[i] = s[k + i]
      BY <2>1
    <3> DEFINE a == SubSeq(s, 1, k - 1)
               b == SubSeq(s, k + 1, Len(s))
    <3> HIDE DEF a, b
    <3>3. /\ a \in Seq(RecordState) /\ Len(a) = k - 1 /\ \A i \in 1..(k - 1) : a[i] = s[i]
          /\ b \in Seq(RecordState) /\ Len(b) = Len(s) - k /\ \A i \in 1..(Len(s) - k) : b[i] = s[k + i]
      BY <3>1, <3>2 DEF a, b
    <3>4. t = a \o b
      BY DEF a, b
    <3> HIDE DEF t
    <3>5. /\ a \o b \in Seq(RecordState)
          /\ Len(a \o b) = Len(a) + Len(b)
          /\ \A i \in 1..(Len(a) + Len(b)) : (a \o b)[i] = IF i <= Len(a) THEN a[i] ELSE b[i - Len(a)]
      BY <3>3, ConcatProperties
    <3>6. /\ t \in Seq(RecordState) /\ Len(t) = (k - 1) + (Len(s) - k)
          /\ \A i \in 1..((k - 1) + (Len(s) - k)) :
                 t[i] = IF i <= k - 1 THEN a[i] ELSE b[i - (k - 1)]
      BY <3>3, <3>4, <3>5
    <3>7. Len(s) \in Nat /\ Len(t) = Len(s) - 1
      BY <2>1, <3>6
    <3>8. ASSUME NEW i \in 1..Len(t) PROVE t[i] = IF i < k THEN s[i] ELSE s[i + 1]
      <4>1. i \in 1..((k - 1) + (Len(s) - k))
        BY <2>1, <3>7
      <4>2. CASE i < k
        BY <2>1, <3>3, <3>6, <4>1, <4>2
      <4>3. CASE ~(i < k)
        <5>1. i - (k - 1) \in 1..(Len(s) - k) /\ k + (i - (k - 1)) = i + 1
          BY <2>1, <3>7, <4>3
        <5>2. QED
          BY <2>1, <3>3, <3>6, <4>1, <4>3, <5>1
      <4>4. QED
        BY <4>2, <4>3
    <3>9. QED
      BY <3>6, <3>7, <3>8
  <2> HIDE DEF t
  <2>5. \A i \in 1..Len(t) : i \in 1..Len(s) /\ i + 1 \in 1..Len(s)
    BY <2>4
  <2>6. \A j \in 1..Len(s) : j = k \/ (j < k /\ j \in 1..Len(t)) \/ (j - 1 \in 1..Len(t) /\ ~(j - 1 < k))
    BY <2>1, <2>4
  <2>7. \A j \in 1..Len(s) : j # k => s[j].phase # p
    BY <2>1 DEF OnePerPhase
  <2>8. ASSUME NEW i \in 1..Len(t)
        PROVE  \E j \in 1..Len(s) : t[i] = s[j] /\ s[j].phase # p
    <3>1. CASE i < k
      BY <3>1, <2>4, <2>5, <2>7
    <3>2. CASE ~(i < k)
      <4>1. i + 1 \in 1..Len(s) /\ i + 1 # k /\ t[i] = s[i + 1]
        BY <3>2, <2>4, <2>5
      <4>2. QED
        BY <4>1, <2>7
    <3>3. QED
      BY <3>1, <3>2
  <2>9. ASSUME NEW j \in 1..Len(s), s[j].phase # p
        PROVE  \E i \in 1..Len(t) : t[i] = s[j]
    <3>1. CASE j < k /\ j \in 1..Len(t)
      BY <3>1, <2>4
    <3>2. CASE j - 1 \in 1..Len(t) /\ ~(j - 1 < k)
      <4>1. t[j - 1] = s[(j - 1) + 1]
        BY <3>2, <2>4
      <4>2. QED
        BY <4>1, <3>2
    <3>3. QED
      BY <2>1, <2>6, <2>9, <3>1, <3>2
  <2>10. ASSUME NEW i \in 1..Len(t), NEW j \in 1..Len(t), t[i].phase = t[j].phase
         PROVE  i = j
    <3> DEFINE At(m) == IF m < k THEN m ELSE m + 1
    <3>1. \A m \in 1..Len(t) : At(m) \in 1..Len(s) /\ t[m] = s[At(m)]
      BY <2>4, <2>5
    <3>2. At(i) = At(j)
      <4> HIDE DEF At
      <4>1. t[i] = s[At(i)] /\ t[j] = s[At(j)] /\ At(i) \in 1..Len(s) /\ At(j) \in 1..Len(s)
        BY <3>1
      <4>2. s[At(i)].phase = s[At(j)].phase /\ DOMAIN s = 1..Len(s)
        BY <2>10, <4>1
      <4>3. QED
        BY <4>1, <4>2 DEF OnePerPhase
    <3>3. QED
      BY <2>1, <3>2
  <2>11. DOMAIN t = 1..Len(t) /\ DOMAIN s = 1..Len(s)
    BY <2>4
  <2>12. OnePerPhase(t)
    BY <2>10, <2>11 DEF OnePerPhase
  <2>13. \A i \in DOMAIN t : \E j \in DOMAIN s : t[i] = s[j] /\ s[j].phase # p
    BY <2>8, <2>11
  <2>14. \A j \in DOMAIN s : s[j].phase # p => \E i \in DOMAIN t : t[i] = s[j]
    BY <2>9, <2>11
  <2>15. t \in Seq(RecordState)
    BY <2>4
  <2>16. QED
    BY <2>3, <2>12, <2>13, <2>14, <2>15, Zenon
<1>3. QED
  BY <1>1, <1>2

\* The record that was appended last goes again.
LEMMA LastRecordDropped ==
    ASSUME NEW s \in Seq(RecordState), NEW record \in RecordState,
           \A i \in DOMAIN s : s[i].phase # record.phase
    PROVE  /\ RecordOf(Append(s, record), record.phase) = Len(s) + 1
           /\ Without(Append(s, record), record.phase) = s
           /\ \A p \in Phases \ {record.phase} : RecordOf(Append(s, record), p) = RecordOf(s, p)
<1> DEFINE t == Append(s, record)
           I(u, p) == {i \in 1..Len(u) : u[i].phase = p}
<1>1. /\ t \in Seq(RecordState) /\ Len(s) \in Nat /\ Len(t) = Len(s) + 1 /\ t[Len(s) + 1] = record
      /\ \A i \in 1..Len(s) : t[i] = s[i]
      /\ DOMAIN s = 1..Len(s)
  OBVIOUS
<1> HIDE DEF t
<1>2. \A i \in 1..Len(t) : i \in 1..Len(s) \/ i = Len(s) + 1
  BY <1>1
<1>3. \A i \in 1..Len(s) : i \in 1..Len(t) /\ i # Len(s) + 1
  BY <1>1
<1>4. Len(s) + 1 \in 1..Len(t) /\ Len(s) + 1 # 0
  BY <1>1
<1>5. I(t, record.phase) = {Len(s) + 1}
  BY <1>1, <1>2, <1>3, <1>4
<1>6. RecordOf(t, record.phase) = Len(s) + 1
  <2>1. \A i \in I(t, record.phase) : Len(s) + 1 >= i
    BY <1>1, <1>5
  <2>2. Max({Len(s) + 1}) = Len(s) + 1
    BY <1>1 DEF Max
  <2>3. QED
    BY <1>5, <2>2 DEF RecordOf, SelectLastInSeq
<1>7. ASSUME NEW p \in Phases \ {record.phase} PROVE RecordOf(t, p) = RecordOf(s, p)
  <2>1. I(t, p) = I(s, p)
    BY <1>1, <1>2, <1>3
  <2>2. QED
    BY <2>1 DEF RecordOf, SelectLastInSeq
<1>8. Without(t, record.phase) = s
  <2> DEFINE n == Len(s) + 1
  <2>1. Without(t, record.phase) = SubSeq(t, 1, n - 1) \o SubSeq(t, n + 1, Len(t))
    <3>1. Without(t, record.phase) = RemoveAt(t, n)
      BY <1>4, <1>6 DEF Without
    <3> HIDE DEF n
    <3>2. QED
      BY <3>1 DEF RemoveAt
  <2>2. SubSeq(t, 1, n - 1) = s
    BY <1>1
  <2>3. SubSeq(t, n + 1, Len(t)) = <<>>
    BY <1>1
  <2> HIDE DEF n
  <2>4. QED
    BY <2>1, <2>2, <2>3, ConcatEmptySeq
<1>9. QED
  BY <1>6, <1>7, <1>8 DEF t

-----------------------------------------------------------------------------
(* The steps, by what they do to the run.                                  *)

\* A phase comes to its conclusion before its gates.
Concludes ==
    /\ at \in Running \ {"gates", "conclude"} /\ at' = "conclude" /\ idx \in Phases \ completed
    /\ status' \in Statuses /\ (idx \in Agents => status' \notin {"ok", "gate"})
    /\ UNCHANGED <<worktree, artifact, ledgers, run, parent, idx, books, attempt, attemptRows,
                   awaiting, kills, ghosts>>

\* The process ends, after its row was written or without it.
Finishes ==
    /\ at # "idle" /\ Ends
    /\ kills' \in 0..MaxKills
    /\ \/ UNCHANGED ledgers
       \/ /\ at = "ledger" /\ ledgers[run].written
          /\ ledgers' = [ledgers EXCEPT ![run].state = Outcome, ![run].candidate = Tip]
    /\ UNCHANGED <<worktree, artifact, run, awaiting, fresh>>

\* A run begins that skips what q has done, or ends at the checkpoints that wait.
Starts(q, skipped, waiting, linked) ==
    /\ at = "idle" /\ run < MaxRuns
    /\ run' = run + 1 /\ parent' = q /\ Locals(skipped)
    /\ ledgers' \in [Runs -> LedgerState] /\ \A r \in Runs \ {run + 1} : ledgers'[r] = ledgers[r]
    /\ ledgers'[run + 1].linked = linked /\ ledgers'[run + 1].reached = waiting
    /\ ~ledgers'[run + 1].written
    /\ \/ waiting = {} /\ at' = "loop" /\ awaiting' = 0 /\ inherited' = [p \in Phases |-> 0]
       \/ /\ waiting # {} /\ at' = "ledger" /\ awaiting' \in waiting
          /\ inherited' = [p \in Phases |-> IF q # 0 /\ p \in skipped THEN Origin(q, p) ELSE 0]
    /\ \A c \in Checkpoints : c \in skipped \ waiting =>
           artifact[c].candidate = CommitOf(c) /\ artifact[c].since > CommitOf(c)
    /\ UNCHANGED <<worktree, artifact, kills, fresh>>

StartsFrom(q, done, reached, linked) ==
    \E skipped \in SUBSET Phases, waiting \in SUBSET Checkpoints :
        /\ Starts(q, skipped, waiting, linked)
        /\ done \subseteq skipped /\ skipped \cup waiting \subseteq done \cup reached

Begins ==
    \E q \in 0..run, skipped \in SUBSET Phases, waiting \in SUBSET Checkpoints, linked \in BOOLEAN :
        /\ Starts(q, skipped, waiting, linked)
        /\ linked => \/ q = 0 /\ skipped = {} /\ waiting = {}
                     \/ /\ q = run /\ run # 0 /\ ledgers[run].linked /\ ledgers[run].written
                        /\ LedgerDone(run) \subseteq skipped
                        /\ skipped \cup waiting \subseteq LedgerDone(run) \cup ledgers[run].reached

LEMMA EngineFacts ==
    /\ Phases \subseteq Nat \ {0} /\ Checkpoints \subseteq Agents /\ Agents \subseteq Phases
    /\ TestPhases \subseteq Phases /\ Requiring \subseteq Agents /\ Gated \subseteq Agents
    /\ MaxPhase \in Nat \ {0} /\ MaxRuns \in Nat /\ MaxAttempts \in Nat \ {0} /\ MaxKills \in Nat
BY EngineAssumption DEF Phases, Agents

LEMMA EmptyLedger == NoLedger \in LedgerState /\ ~NoLedger.written /\ ~NoLedger.linked
BY EngineFacts DEF NoLedger, LedgerState

\* The approval contract: all of the checkpoints that count are signed, or
\* the run awaits the first of those that are not.
LEMMA BeginStarts ==
    ASSUME RunsTyped, at = "idle", run < MaxRuns,
           NEW q \in 0..run, NEW done \in SUBSET Phases, NEW reached \in SUBSET Phases,
           NEW linked \in BOOLEAN, Begin(q, done, reached, linked)
    PROVE  StartsFrom(q, done, reached, linked)
<1> DEFINE Expected(c) == IF q = 0 THEN 0 ELSE Origin(q, c)
           tracked     == Checkpoints \cap (done \cup reached)
           valid       == {c \in tracked : Signed(c, Expected(c))}
           skipped     == done \cup valid
           waiting     == tracked \ valid
           first       == CHOOSE c \in tracked \ valid : \A d \in tracked \ valid : c <= d
<1>1. /\ skipped \in SUBSET Phases /\ waiting \in SUBSET Checkpoints
      /\ done \subseteq skipped /\ skipped \cup waiting \subseteq done \cup reached
      /\ valid = tracked <=> waiting = {}
  BY EngineFacts
<1>2. \A c \in Checkpoints : c \in skipped \ waiting =>
          artifact[c].candidate = CommitOf(c) /\ artifact[c].since > CommitOf(c)
  BY DEF Signed
<1>3. waiting # {} => first \in waiting
  <2>1. SUFFICES ASSUME waiting # {} PROVE first \in waiting
    OBVIOUS
  <2>2. waiting \in SUBSET Nat
    BY <1>1, EngineFacts
  <2>3. \E c \in waiting : \A d \in waiting : c <= d
    <3> DEFINE S == waiting
    <3>1. S \in SUBSET Nat /\ S # {}
      BY <2>1, <2>2
    <3> HIDE DEF S
    <3>2. \E c \in S : \A d \in S : c <= d
      BY <3>1, LeastNatural
    <3>3. QED
      BY <3>2 DEF S
  <2>4. QED
    BY <2>3
<1>4. ledgers[run + 1] = NoLedger /\ run + 1 \in Runs /\ run \in Nat /\ DOMAIN ledgers = Runs
  BY EngineFacts DEF RunsTyped, Runs
<1>5. /\ run' = run + 1 /\ parent' = q /\ Locals(skipped)
      /\ UNCHANGED <<worktree, artifact, kills, fresh>>
  BY DEF Begin
<1>6. \/ /\ valid = tracked
         /\ awaiting' = 0 /\ at' = "loop"
         /\ inherited' = [p \in Phases |-> 0]
         /\ ledgers' = [ledgers EXCEPT ![run + 1].state = "running", ![run + 1].linked = linked]
      \/ /\ valid # tracked
         /\ awaiting' = first /\ at' = "ledger"
         /\ inherited' = [p \in Phases |-> IF q # 0 /\ p \in skipped THEN Origin(q, p) ELSE 0]
         /\ ledgers' = [ledgers EXCEPT ![run + 1].state = "running", ![run + 1].linked = linked,
                                       ![run + 1].reached = waiting]
  BY DEF Begin
<1> HIDE DEF valid, tracked, waiting, skipped, first
<1>7. /\ ledgers' \in [Runs -> LedgerState] /\ \A r \in Runs \ {run + 1} : ledgers'[r] = ledgers[r]
      /\ ledgers'[run + 1].linked = linked /\ ledgers'[run + 1].reached = waiting
      /\ ~ledgers'[run + 1].written
  <2>0. NoLedger \in LedgerState /\ ~NoLedger.written /\ NoLedger.reached = {}
    BY EmptyLedger DEF NoLedger
  <2>1. waiting \in SUBSET Phases
    BY <1>1, EngineFacts
  <2>2. CASE valid = tracked
    <3>1. waiting = {} /\ ledgers' = [ledgers EXCEPT ![run + 1].state = "running", ![run + 1].linked = linked]
      BY <1>1, <1>6, <2>2
    <3>2. ledgers' = [ledgers EXCEPT ![run + 1] = [NoLedger EXCEPT !.state = "running", !.linked = linked]]
      BY <1>4, <3>1
    <3> DEFINE new == [NoLedger EXCEPT !.state = "running", !.linked = linked]
    <3>3. new \in LedgerState /\ new.linked = linked /\ new.reached = {} /\ ~new.written
      BY <2>0 DEF LedgerState
    <3> HIDE DEF new
    <3>4. ledgers' = [ledgers EXCEPT ![run + 1] = new]
      BY <3>2 DEF new
    <3>5. QED
      BY <1>4, <3>1, <3>3, <3>4 DEF RunsTyped
  <2>3. CASE valid # tracked
    <3>1. ledgers' = [ledgers EXCEPT ![run + 1].state = "running", ![run + 1].linked = linked,
                                     ![run + 1].reached = waiting]
      BY <1>6, <2>3
    <3>2. ledgers' = [ledgers EXCEPT ![run + 1] = [NoLedger EXCEPT !.state = "running", !.linked = linked,
                                                                   !.reached = waiting]]
      BY <1>4, <3>1
    <3> DEFINE new == [NoLedger EXCEPT !.state = "running", !.linked = linked, !.reached = waiting]
    <3>3. new \in LedgerState /\ new.linked = linked /\ new.reached = waiting /\ ~new.written
      BY <2>0, <2>1 DEF LedgerState
    <3> HIDE DEF new
    <3>4. ledgers' = [ledgers EXCEPT ![run + 1] = new]
      BY <3>2 DEF new
    <3>5. QED
      BY <1>4, <3>3, <3>4 DEF RunsTyped
  <2>4. QED
    BY <2>2, <2>3
<1>8. \/ waiting = {} /\ at' = "loop" /\ awaiting' = 0 /\ inherited' = [p \in Phases |-> 0]
      \/ /\ waiting # {} /\ at' = "ledger" /\ awaiting' \in waiting
         /\ inherited' = [p \in Phases |-> IF q # 0 /\ p \in skipped THEN Origin(q, p) ELSE 0]
  BY <1>1, <1>3, <1>6
<1>9. Starts(q, skipped, waiting, linked)
  BY <1>2, <1>5, <1>7, <1>8 DEF Starts
<1>10. QED
  BY <1>1, <1>9 DEF StartsFrom

\* What git and the index say of the phases that are done.
LEMMA InferredPhases ==
    ASSUME RunsTyped
    PROVE  Inferred \in SUBSET Phases
<1> DEFINE subjects == {p \in Phases : CommitOf(p) # 0}
           written  == {r \in 1..run : ledgers[r].written}
           latest   == CHOOSE r \in written : \A s \in written : s <= r
<1>1. CASE subjects # {} \/ written = {}
  BY <1>1 DEF Inferred
<1>2. CASE ~(subjects # {} \/ written = {})
  <2>1. run \in Nat /\ written \in SUBSET (1..run) /\ written # {} /\ 1..run \subseteq Runs
    BY <1>2, EngineFacts DEF RunsTyped, Runs
  <2>2. \E r \in written : \A s \in written : s <= r
    <3> HIDE DEF written
    <3>1. QED
      BY <2>1, GreatestBelow
  <2>3. latest \in written
    BY <2>2
  <2>4. ledgers[latest].ok \in SUBSET Phases
    BY <2>1, <2>3 DEF RunsTyped, LedgerState
  <2>5. Inferred = ledgers[latest].ok
    BY <1>2 DEF Inferred
  <2>6. QED
    BY <2>4, <2>5
<1>3. QED
  BY <1>1, <1>2

LEMMA RunBegins ==
    ASSUME RunsTyped, StartRun \/ ResumeInferred \/ \E q \in Runs : ResumeLinked(q)
    PROVE  Begins
<1>0. run \in 0..MaxRuns /\ MaxRuns \in Nat
  BY EngineFacts DEF RunsTyped
<1>1. CASE StartRun
  <2>1. at = "idle" /\ run < MaxRuns /\ 0 \in 0..run /\ Begin(0, {}, {}, TRUE)
    <3>1. at = "idle" /\ run = 0 /\ MaxRuns > 0 /\ Begin(0, {}, {}, TRUE)
      BY <1>1, Zenon DEF StartRun
    <3>2. run = 0 /\ MaxRuns > 0 => run < MaxRuns /\ 0 \in 0..run
      BY <1>0
    <3>3. QED
      BY <3>1, <3>2, Zenon
  <2>2. \E skipped \in SUBSET Phases, waiting \in SUBSET Checkpoints :
            /\ Starts(0, skipped, waiting, TRUE)
            /\ {} \subseteq skipped /\ skipped \cup waiting \subseteq {} \cup {}
    <3>1. {} \in SUBSET Phases /\ TRUE \in BOOLEAN
      OBVIOUS
    <3>2. QED
      BY <2>1, <3>1, BeginStarts, Zenon DEF StartsFrom
  <2>3. PICK skipped \in SUBSET Phases, waiting \in SUBSET Checkpoints :
            /\ Starts(0, skipped, waiting, TRUE)
            /\ {} \subseteq skipped /\ skipped \cup waiting \subseteq {} \cup {}
    BY <2>2
  <2>4. skipped = {} /\ waiting = {}
    BY <2>3
  <2>5. QED
    BY <2>1, <2>3, <2>4 DEF Begins
<1>2. CASE ResumeInferred
  <2>1. at = "idle" /\ run < MaxRuns /\ 0 \in 0..run /\ Begin(0, Inferred, {}, FALSE)
    <3>1. at = "idle" /\ run \in 1..MaxRuns - 1 /\ Begin(0, Inferred, {}, FALSE)
      BY <1>2, Zenon DEF ResumeInferred
    <3>2. run \in 1..MaxRuns - 1 => run < MaxRuns /\ 0 \in 0..run
      BY <1>0
    <3>3. QED
      BY <3>1, <3>2, Zenon
  <2>2. \E skipped \in SUBSET Phases, waiting \in SUBSET Checkpoints : Starts(0, skipped, waiting, FALSE)
    <3>1. Inferred \in SUBSET Phases /\ {} \in SUBSET Phases /\ FALSE \in BOOLEAN
      BY InferredPhases
    <3>2. QED
      BY <2>1, <3>1, BeginStarts, Zenon DEF StartsFrom
  <2>3. QED
    BY <2>1, <2>2 DEF Begins
<1>3. ASSUME NEW q \in Runs, ResumeLinked(q) PROVE Begins
  <2> DEFINE linked == q = run /\ ledgers[q].linked
  <2>1. /\ at = "idle" /\ run < MaxRuns /\ q \in Continuable /\ ledgers[q].written
        /\ Begin(q, LedgerDone(q), ledgers[q].reached, linked)
    BY <1>3, Zenon DEF ResumeLinked, LedgerDone
  <2>2. q \in 1..run /\ q \in 0..run
    BY <1>0, <2>1 DEF Continuable
  <2>3. LedgerDone(q) \in SUBSET Phases /\ ledgers[q].reached \in SUBSET Phases /\ linked \in BOOLEAN
    BY DEF RunsTyped, LedgerState, LedgerDone
  <2>4. linked => q = run /\ ledgers[q].linked
    OBVIOUS
  <2> DEFINE done == LedgerDone(q)
             reached == ledgers[q].reached
  <2> HIDE DEF linked, done, reached
  <2>5. /\ at = "idle" /\ run < MaxRuns /\ q \in 0..run
        /\ done \in SUBSET Phases /\ reached \in SUBSET Phases /\ linked \in BOOLEAN
        /\ Begin(q, done, reached, linked)
    BY <2>1, <2>2, <2>3, Zenon DEF done, reached
  <2>6. ASSUME NEW l \in BOOLEAN, Begin(q, done, reached, l), l => linked
        PROVE  Begins
    <3>1. StartsFrom(q, done, reached, l)
      BY <2>5, <2>6, BeginStarts, Zenon
    <3>2. PICK skipped \in SUBSET Phases, waiting \in SUBSET Checkpoints :
              /\ Starts(q, skipped, waiting, l)
              /\ done \subseteq skipped /\ skipped \cup waiting \subseteq done \cup reached
      BY <3>1, Zenon DEF StartsFrom
    <3>3. l => /\ q = run /\ run # 0 /\ ledgers[run].linked /\ ledgers[run].written
               /\ LedgerDone(run) \subseteq skipped
               /\ skipped \cup waiting \subseteq LedgerDone(run) \cup ledgers[run].reached
      BY <1>0, <2>1, <2>2, <2>4, <2>6, <3>2 DEF done, reached
    <3>4. QED
      BY <2>5, <3>2, <3>3, Zenon DEF Begins
  <2>7. CASE linked
    <3>1. linked = TRUE
      BY <2>7, <2>5
    <3>2. Begin(q, done, reached, TRUE)
      BY <2>5, <3>1, Zenon
    <3>3. QED
      BY <2>6, <2>7, <3>2, Zenon
  <2>8. CASE ~linked
    <3>1. linked = FALSE
      BY <2>8, <2>5
    <3>2. Begin(q, done, reached, FALSE)
      BY <2>5, <3>1, Zenon
    <3>3. QED
      BY <2>6, <3>2, Zenon
  <2>9. QED
    BY <2>7, <2>8
<1>4. QED
  BY <1>1, <1>2, <1>3

LEMMA Raising ==
    ASSUME RunsTyped, BooksTyped, Raise, at \in Running \ {"gates", "conclude"}, idx \in Phases \ completed
    PROVE  Concludes \/ Finishes
<1>1. CASE attemptRows # Unbound
  BY <1>1 DEF Raise, Concludes, Escapes, Statuses
<1>2. CASE attemptRows = Unbound
  <2>1. at # "idle" /\ kills \in 0..MaxKills
    BY DEF Running, RunsTyped
  <2>2. QED
    BY <1>2, <2>1 DEF Raise, Escapes, Finishes
<1>3. QED
  BY <1>1, <1>2

\* The steps of the engine, in the kinds that the proofs distinguish.
LEMMA Kinds ==
    ASSUME RunsTyped, BooksTyped, Next
    PROVE  \/ Begins \/ Concludes \/ Finishes
           \/ \E q \in Runs : ResumeRefused(q) \/ Sweep(q)
           \/ \E r \in Runs, c \in Checkpoints : Approve(r, c)
           \/ Skip \/ LoopEnds \/ BeginAgentPhase \/ Invoke \/ AgentWorks \/ AgentEnds \/ Gates
           \/ Passes \/ Stops \/ Fails \/ Correct \/ WriteLedger
<1>1. CASE StartRun \/ ResumeInferred \/ \E q \in Runs : ResumeLinked(q)
  BY <1>1, RunBegins
<1>2. CASE ArtifactMissing
  BY <1>2, Raising, EngineFacts DEF ArtifactMissing, Running
<1>3. CASE TestPhase
  BY <1>3, EngineFacts DEF TestPhase, Concludes, Running, Statuses, Agents
<1>4. CASE TestPhaseRaises
  BY <1>4, Raising, EngineFacts DEF TestPhaseRaises, Running
<1>5. CASE AdmissionRefused
  BY <1>5 DEF AdmissionRefused, Concludes, Running, Statuses, BooksTyped
<1>6. CASE AgentRaises
  BY <1>6, Raising DEF AgentRaises, Running, BooksTyped
<1>7. CASE GateRaises
  <2>1. at # "idle" /\ kills \in 0..MaxKills
    BY <1>7 DEF GateRaises, RunsTyped
  <2>2. QED
    BY <1>7, <2>1 DEF GateRaises, Escapes, Finishes
<1>8. CASE WriteRow
  <2>1. at # "idle" /\ kills \in 0..MaxKills
    BY <1>8 DEF WriteRow, RunsTyped
  <2>2. QED
    BY <1>8, <2>1 DEF WriteRow, Finishes
<1>9. CASE Kill
  <2>1. kills + 1 \in 0..MaxKills
    BY <1>9, EngineFacts DEF Kill, RunsTyped
  <2>2. QED
    BY <1>9, <2>1 DEF Kill, Finishes
<1>10. QED
  BY <1>1, <1>2, <1>3, <1>4, <1>5, <1>6, <1>7, <1>8, <1>9 DEF Next, Engine

-----------------------------------------------------------------------------
(* The invariant is preserved, part by part.                               *)

LEMMA RecordsTyped ==
    ASSUME BooksTyped
    PROVE  /\ DOMAIN records = 1..Len(records)
           /\ \A i \in DOMAIN records :
                  /\ records[i] \in RecordState /\ records[i].phase \in Phases
                  /\ records[i].rows.n \in Nat
<1>1. records \in Seq(RecordState)
  BY DEF BooksTyped
<1>2. DOMAIN records = 1..Len(records) /\ \A i \in DOMAIN records : records[i] \in RecordState
  BY <1>1
<1>3. \A x \in RecordState : x.phase \in Phases /\ x.rows.n \in Nat
  BY DEF RecordState, RowsState
<1>4. QED
  BY <1>2, <1>3

\* The worktree.
LEMMA WorktreeStep ==
    ASSUME EngineInv, Next
    PROVE  WorktreeTyped'
<1>1. WorktreeTyped /\ RunsTyped /\ BooksTyped
  BY DEF EngineInv
<1>2. CASE \/ Begins \/ Concludes \/ Finishes \/ (\E q \in Runs : ResumeRefused(q))
            \/ (\E q \in Runs : Sweep(q)) \/ Skip \/ LoopEnds \/ BeginAgentPhase \/ Invoke
            \/ AgentEnds \/ Passes \/ Stops \/ Fails \/ Correct \/ WriteLedger
  <2>1. UNCHANGED <<history, dirty, artifact>>
    BY <1>2 DEF Begins, Starts, Locals, Concludes, Finishes, Ends, ResumeRefused, Sweep, Skip,
        LoopEnds, BeginAgentPhase, Invoke, AgentEnds, Passes, Stops, Fails, Correct, WriteLedger,
        worktree, books, phase, ghosts
  <2>2. QED
    BY <1>1, <2>1 DEF WorktreeTyped, Tip
<1>3. ASSUME NEW r \in Runs, NEW c \in Checkpoints, Approve(r, c) PROVE WorktreeTyped'
  <2>1. /\ Tip \in Nat /\ history' = Append(history, 0) /\ dirty' = dirty
        /\ artifact' = [artifact EXCEPT ![c] =
               [run |-> r, candidate |-> Tip, since |-> IF @.since = 0 THEN Tip + 1 ELSE @.since]]
    BY <1>1, <1>3 DEF Approve, WorktreeTyped, Tip
  <2>2. history' \in Seq(0..MaxPhase) /\ Tip' = Tip + 1
    BY <1>1, <2>1, EngineFacts DEF WorktreeTyped, Tip
  <2>3. r \in 0..MaxRuns
    BY EngineFacts DEF Runs
  <2> DEFINE new == [run |-> r, candidate |-> Tip,
                     since |-> IF artifact[c].since = 0 THEN Tip + 1 ELSE artifact[c].since]
  <2>4. new \in [run : 0..MaxRuns, candidate : Nat, since : Nat] /\ new.since <= Tip + 1
    BY <1>1, <2>1, <2>3 DEF WorktreeTyped
  <2>5. artifact' = [artifact EXCEPT ![c] = new]
    BY <2>1
  <2> HIDE DEF new
  <2>6. artifact' \in [Checkpoints -> [run : 0..MaxRuns, candidate : Nat, since : Nat]]
    BY <1>1, <2>4, <2>5 DEF WorktreeTyped
  <2>7. \A d \in Checkpoints : artifact'[d].since <= Tip + 1
    BY <1>1, <2>1, <2>4, <2>5 DEF WorktreeTyped
  <2>8. Tip' >= 1
    BY <2>1, <2>2
  <2>9. QED
    BY <1>1, <2>1, <2>2, <2>6, <2>7, <2>8 DEF WorktreeTyped
<1>4. CASE AgentWorks
  <2>1. artifact' = artifact /\ idx \in 0..MaxPhase /\ Tip \in Nat
    BY <1>1, <1>4, EngineFacts DEF AgentWorks, BooksTyped, WorktreeTyped, Running, Phases, Tip
  <2>2. /\ history' = history \/ history' = Append(history, idx)
        /\ dirty' \in BOOLEAN
    BY <1>4 DEF AgentWorks
  <2>3. history' \in Seq(0..MaxPhase) /\ Tip' \in {Tip, Tip + 1}
    <3>1. CASE history' = history
      BY <1>1, <3>1 DEF WorktreeTyped, Tip
    <3>2. CASE history' = Append(history, idx)
      <4>1. history' \in Seq(0..MaxPhase) /\ Len(history') = Len(history) + 1
        BY <1>1, <2>1, <3>2 DEF WorktreeTyped
      <4>2. QED
        BY <4>1 DEF Tip
    <3>3. QED
      BY <2>2, <3>1, <3>2
  <2>4. Tip' >= 1 /\ \A c \in Checkpoints : artifact[c].since <= Tip'
    BY <1>1, <2>1, <2>3 DEF WorktreeTyped
  <2>5. QED
    BY <1>1, <2>1, <2>2, <2>3, <2>4 DEF WorktreeTyped
<1>5. CASE Gates
  <2>1. artifact' = artifact /\ idx \in 0..MaxPhase /\ Tip \in Nat
    BY <1>1, <1>5, EngineFacts DEF Gates, BooksTyped, WorktreeTyped, Running, Phases, Tip
  <2>2. /\ history' = history \/ history' = Append(history, idx)
        /\ dirty' \in BOOLEAN
    BY <1>1, <1>5 DEF Gates, worktree, WorktreeTyped
  <2>3. history' \in Seq(0..MaxPhase) /\ Tip' \in {Tip, Tip + 1}
    <3>1. CASE history' = history
      BY <1>1, <3>1 DEF WorktreeTyped, Tip
    <3>2. CASE history' = Append(history, idx)
      <4>1. history' \in Seq(0..MaxPhase) /\ Len(history') = Len(history) + 1
        BY <1>1, <2>1, <3>2 DEF WorktreeTyped
      <4>2. QED
        BY <4>1 DEF Tip
    <3>3. QED
      BY <2>2, <3>1, <3>2
  <2>4. Tip' >= 1 /\ \A c \in Checkpoints : artifact[c].since <= Tip'
    BY <1>1, <2>1, <2>3 DEF WorktreeTyped
  <2>5. QED
    BY <1>1, <2>1, <2>2, <2>3, <2>4 DEF WorktreeTyped
<1>6. QED
  BY <1>1, <1>2, <1>3, <1>4, <1>5, Kinds DEF EngineInv

\* A row that is cancelled.
LEMMA StateChanged ==
    ASSUME NEW f \in [Runs -> LedgerState], NEW q
    PROVE  /\ [f EXCEPT ![q].state = "cancelled"] \in [Runs -> LedgerState]
           /\ \A r \in Runs : r # q => [f EXCEPT ![q].state = "cancelled"][r] = f[r]
<1> DEFINE new == [f[q] EXCEPT !.state = "cancelled"]
<1>1. q \in Runs => new \in LedgerState
  BY DEF LedgerState
<1> HIDE DEF new
<1>2. [f EXCEPT ![q].state = "cancelled"] = [f EXCEPT ![q] = new]
  BY DEF new
<1>3. QED
  BY <1>1, <1>2

\* The runs and their ledgers.
LEMMA RunsStep ==
    ASSUME EngineInv, Next
    PROVE  RunsTyped'
<1>1. WorktreeTyped /\ RunsTyped /\ BooksTyped
  BY DEF EngineInv
<1>2. CASE \/ Concludes \/ Skip \/ BeginAgentPhase \/ Invoke \/ AgentWorks \/ AgentEnds
            \/ Gates \/ Passes \/ Correct
  <2>1. UNCHANGED <<ledgers, run, parent, kills>> /\ at \in Running /\ at' \in Running
    BY <1>2 DEF Concludes, Skip, BeginAgentPhase, Invoke, AgentWorks, AgentEnds, Gates, Passes,
        Correct, worktree, books, phase, ghosts, Running
  <2>2. QED
    BY <1>1, <2>1 DEF RunsTyped, Running
<1>3. CASE \/ LoopEnds \/ Stops \/ Fails
            \/ (\E r \in Runs, c \in Checkpoints : Approve(r, c))
  <2>1. UNCHANGED <<ledgers, run, parent, kills>> /\ at' \notin Running /\ (at = "idle" => at' = "idle")
    BY <1>3 DEF LoopEnds, Stops, Fails, Approve, worktree, books, phase, ghosts, Running
  <2>2. QED
    BY <1>1, <2>1 DEF RunsTyped, Running
<1>4. CASE Begins
  <2>1. PICK q \in 0..run, skipped \in SUBSET Phases, waiting \in SUBSET Checkpoints, linked \in BOOLEAN :
            Starts(q, skipped, waiting, linked)
    BY <1>4, Zenon DEF Begins
  <2>2. /\ run < MaxRuns /\ run' = run + 1 /\ parent' = q /\ kills' = kills
        /\ ledgers' \in [Runs -> LedgerState] /\ \A r \in Runs \ {run + 1} : ledgers'[r] = ledgers[r]
        /\ ~ledgers'[run + 1].written
    BY <2>1 DEF Starts
  <2>3. run \in 0..MaxRuns /\ \A r \in Runs : r > run => ledgers[r] = NoLedger
    BY <1>1 DEF RunsTyped
  <2>4. run' \in 0..MaxRuns /\ parent' \in 0..run' /\ run' # 0
    BY <2>2, <2>3, EngineFacts
  <2>5. \A r \in Runs : r > run' => ledgers'[r] = NoLedger
    BY <2>2, <2>3, EngineFacts DEF Runs
  <2>6. QED
    BY <1>1, <2>2, <2>4, <2>5 DEF RunsTyped
<1>5. CASE Finishes
  <2>1. run' = run /\ parent' = 0 /\ kills' \in 0..MaxKills /\ at' = "idle"
    BY <1>5 DEF Finishes, Ends
  <2>2. ledgers' \in [Runs -> LedgerState] /\ \A r \in Runs : r # run => ledgers'[r] = ledgers[r]
    <3>1. CASE UNCHANGED ledgers
      BY <1>1, <3>1 DEF RunsTyped
    <3>2. CASE ledgers' = [ledgers EXCEPT ![run].state = Outcome, ![run].candidate = Tip]
      <4>1. Outcome \in {"failed", "awaiting", "succeeded"} /\ Tip \in Nat
        BY <1>1 DEF Outcome, Tip, WorktreeTyped
      <4> DEFINE new == [ledgers[run] EXCEPT !.state = Outcome, !.candidate = Tip]
      <4>2. run \in Runs
        BY <1>1, <1>5, EngineFacts DEF RunsTyped, Finishes, Runs
      <4>3. ledgers' = [ledgers EXCEPT ![run] = new]
        BY <1>1, <3>2, <4>2 DEF RunsTyped
      <4>4. new \in LedgerState
        <5> DEFINE o == Outcome
                   t == Tip
        <5>1. o \in {"failed", "awaiting", "succeeded"} /\ t \in Nat
          BY <4>1
        <5> HIDE DEF o, t
        <5>2. [ledgers[run] EXCEPT !.state = o, !.candidate = t] \in LedgerState
          BY <1>1, <4>2, <5>1 DEF RunsTyped, LedgerState
        <5>3. QED
          BY <5>2 DEF o, t
      <4> HIDE DEF new
      <4>5. QED
        BY <1>1, <4>3, <4>4 DEF RunsTyped
    <3>3. QED
      BY <1>5, <3>1, <3>2 DEF Finishes
  <2>3. run \in 0..MaxRuns /\ 0 \in 0..run
    BY <1>1, EngineFacts DEF RunsTyped
  <2>4. QED
    BY <1>1, <2>1, <2>2, <2>3, EngineFacts DEF RunsTyped, Running, Runs
<1>6. ASSUME NEW q \in Runs, ResumeRefused(q) PROVE RunsTyped'
  <2>1. /\ run' = run + 1 /\ run < MaxRuns /\ at = "idle"
        /\ ledgers' = [ledgers EXCEPT ![run + 1].state = "cancelled"]
        /\ UNCHANGED <<at, parent, kills>>
    BY <1>6 DEF ResumeRefused
  <2>2. run \in 0..MaxRuns /\ parent \in 0..run
    BY <1>1 DEF RunsTyped
  <2>3. run' \in 0..MaxRuns /\ parent' \in 0..run'
    BY <2>1, <2>2, EngineFacts
  <2>4. ledgers' \in [Runs -> LedgerState] /\ \A r \in Runs : r # run + 1 => ledgers'[r] = ledgers[r]
    BY <1>1, <2>1, StateChanged DEF RunsTyped
  <2>5. \A r \in Runs : r > run' => ledgers'[r] = NoLedger
    BY <1>1, <2>1, <2>2, <2>4, EngineFacts DEF RunsTyped, Runs
  <2>6. QED
    BY <1>1, <2>1, <2>3, <2>4, <2>5 DEF RunsTyped, Running
<1>7. ASSUME NEW q \in Runs, Sweep(q) PROVE RunsTyped'
  <2>1. /\ ledgers' = [ledgers EXCEPT ![q].state = "cancelled"] /\ ledgers[q].state = "running"
        /\ at = "idle" /\ UNCHANGED <<run, at, parent, kills>>
    BY <1>7 DEF Sweep
  <2>2. ledgers' \in [Runs -> LedgerState] /\ \A r \in Runs : r # q => ledgers'[r] = ledgers[r]
    BY <1>1, <2>1, StateChanged DEF RunsTyped
  <2>3. NoLedger.state = "none"
    BY DEF NoLedger
  <2>4. \A r \in Runs : r > run => r # q
    BY <1>1, <2>1, <2>3 DEF RunsTyped
  <2>5. QED
    BY <1>1, <2>1, <2>2, <2>4 DEF RunsTyped, Running
<1>8. CASE WriteLedger
  <2> DEFINE ok == {records[i].phase : i \in {j \in DOMAIN records : records[j].status = "ok"}}
             waits == {records[i].phase : i \in {j \in DOMAIN records : records[j].status = "awaiting"}}
  <2>1. /\ at = "ledger" /\ UNCHANGED <<run, at, parent, kills>>
        /\ ledgers' = [ledgers EXCEPT ![run].written = TRUE, ![run].ok = ok,
                                      ![run].reached = @ \cup waits, ![run].inherited = inherited]
    BY <1>8 DEF WriteLedger
  <2>2. ok \subseteq Phases /\ waits \subseteq Phases
    <3>1. \A i \in DOMAIN records : records[i].phase \in Phases
      BY <1>1, RecordsTyped
    <3>2. QED
      BY <3>1
  <2> HIDE DEF ok, waits
  <2>3. run \in Runs
    BY <1>1, <2>1, EngineFacts DEF RunsTyped, Runs
  <2>4. inherited \in [Phases -> 0..MaxRuns]
    BY <1>1 DEF BooksTyped
  <2>5. ledgers' \in [Runs -> LedgerState] /\ \A r \in Runs : r # run => ledgers'[r] = ledgers[r]
    <3> DEFINE new == [ledgers[run] EXCEPT !.written = TRUE, !.ok = ok,
                                           !.reached = @ \cup waits, !.inherited = inherited]
    <3>1. ledgers' = [ledgers EXCEPT ![run] = new]
      BY <1>1, <2>1, <2>3 DEF RunsTyped
    <3>2. new \in LedgerState
      BY <1>1, <2>2, <2>3, <2>4 DEF RunsTyped, LedgerState
    <3> HIDE DEF new
    <3>3. QED
      BY <1>1, <3>1, <3>2 DEF RunsTyped
  <2>6. \A r \in Runs : r > run => r # run
    BY <1>1 DEF RunsTyped, Runs
  <2>7. QED
    BY <1>1, <2>1, <2>5, <2>6 DEF RunsTyped, Running
<1>9. QED
  BY <1>1, <1>2, <1>3, <1>4, <1>5, <1>6, <1>7, <1>8, Kinds DEF EngineInv

\* The record of a phase's conclusion.
NewRecord(verdict) == [phase |-> idx, status |-> verdict, rows |-> Rows]

LEMMA VerdictRecorded ==
    ASSUME BooksTyped, at = "conclude", NEW verdict \in {"ok", "awaiting", "failed"}
    PROVE  /\ NewRecord(verdict) \in RecordState /\ Result(verdict) \in Seq(RecordState)
           /\ Result(verdict) = Append(records, NewRecord(verdict))
           /\ NewRecord(verdict).phase = idx /\ NewRecord(verdict).status = verdict
           /\ NewRecord(verdict).rows = Rows /\ Rows \in RowsState
           /\ idx \in Agents => Rows.n = attemptRows.n /\ Rows.cost = attemptRows.cost
           /\ DOMAIN Result(verdict) = DOMAIN records \cup {Len(records) + 1}
           /\ Len(records) + 1 \notin DOMAIN records
           /\ Result(verdict)[Len(records) + 1] = NewRecord(verdict)
           /\ \A i \in DOMAIN records : Result(verdict)[i] = records[i]
<1>1. records \in Seq(RecordState) /\ idx \in Phases
  BY DEF BooksTyped, Running
<1>2. attemptRows.n \in Nat /\ attemptRows.cost \in Nat
  BY DEF BooksTyped, RowsState, Unbound
<1>3. Rows \in RowsState /\ (idx \in Agents => Rows.n = attemptRows.n /\ Rows.cost = attemptRows.cost)
  BY <1>2 DEF Rows, RowsState, NoRows, Agents
<1> DEFINE new == NewRecord(verdict)
<1>4. new \in RecordState /\ new.phase = idx /\ new.status = verdict /\ new.rows = Rows
  BY <1>1, <1>3 DEF RecordState, NewRecord
<1>5. Result(verdict) = Append(records, new)
  BY DEF Result, NewRecord
<1> HIDE DEF new
<1>6. /\ Append(records, new) \in Seq(RecordState)
      /\ Append(records, new)[Len(records) + 1] = new
      /\ \A i \in 1..Len(records) : Append(records, new)[i] = records[i]
      /\ DOMAIN Append(records, new) = 1..Len(records) + 1 /\ DOMAIN records = 1..Len(records)
      /\ Len(records) \in Nat
  BY <1>1, <1>4
<1>7. 1..Len(records) + 1 = 1..Len(records) \cup {Len(records) + 1} /\ Len(records) + 1 \notin 1..Len(records)
  BY <1>6
<1>8. QED
  BY <1>3, <1>4, <1>5, <1>6, <1>7 DEF new

\* A correction: the records before the producer stay, and what it retains of
\* the two executions counts as many invocations, and costs as much, as their records do.
LEMMA Correction ==
    ASSUME BooksTyped, RecordsInOrder, Correct
    PROVE  /\ idx \in Phases \ completed /\ Target \in Agents /\ Target <= idx
           /\ Target # idx => idx \in TestPhases
           /\ idx \in Agents => status = "gate"
           /\ records' = Without(records, Target)
           /\ priorInvocations' \in [Phases -> RowsState]
           /\ \A p \in Phases \ {idx, Target} : priorInvocations'[p] = priorInvocations[p]
           /\ idx \in Agents => /\ priorInvocations'[idx].n >= attemptRows.n
                               /\ priorInvocations'[idx].cost = attemptRows.cost
           /\ Target # idx => \A i \in DOMAIN records : records[i].phase = Target =>
                                  /\ priorInvocations'[Target].n >= records[i].rows.n
                                  /\ priorInvocations'[Target].cost = records[i].rows.cost
           /\ Target # idx /\ (\A i \in DOMAIN records : records[i].phase # Target) =>
                                  priorInvocations'[Target] = priorInvocations[Target]
<1>1. at = "conclude" /\ status # "ok" /\ CanCorrect
  BY DEF Correct
<1>2. idx \in Phases \ completed /\ idx \in Nat
  BY <1>1, EngineFacts DEF BooksTyped, Running
<1>3. /\ Target \in Agents /\ Target <= idx /\ (Target # idx => idx \in TestPhases)
      /\ idx \in Agents => Target = idx /\ status = "gate"
  BY <1>1, <1>2 DEF CanCorrect, VerificationFailure, Target, Agents
<1>4. Target \in Phases /\ idx \in Phases
  BY <1>2, <1>3, EngineFacts
<1> DEFINE result == Result("failed")
           new == NewRecord("failed")
<1>5. /\ new \in RecordState /\ result \in Seq(RecordState) /\ result = Append(records, new)
      /\ new.phase = idx /\ new.rows = Rows /\ Rows \in RowsState
      /\ idx \in Agents => Rows.n = attemptRows.n /\ Rows.cost = attemptRows.cost
      /\ DOMAIN records = 1..Len(records)
      /\ result[Len(records) + 1] = new /\ \A i \in DOMAIN records : result[i] = records[i]
  BY <1>1, VerdictRecorded, RecordsTyped
<1>6. /\ records' = Without(Without(result, idx), Target)
      /\ priorInvocations' = [priorInvocations EXCEPT ![idx] = Retained(result, idx),
                                                      ![Target] = Retained(result, Target)]
  BY DEF Correct
<1> HIDE DEF result, new
<1>7. records \in Seq(RecordState) /\ \A i \in DOMAIN records : records[i].phase # new.phase
  BY <1>1, <1>2, <1>5, RecordsTyped, EngineFacts DEF BooksTyped, RecordsInOrder, Running
<1>8. /\ RecordOf(result, idx) = Len(records) + 1 /\ Without(result, idx) = records
      /\ \A p \in Phases \ {idx} : RecordOf(result, p) = RecordOf(records, p)
  BY <1>5, <1>7, LastRecordDropped
<1>9. records' = Without(records, Target)
  BY <1>6, <1>8
<1>10. /\ Retained(result, idx) \in RowsState
       /\ Retained(result, idx).n >= Rows.n /\ Retained(result, idx).cost = Rows.cost
  <2>1. Len(records) + 1 # 0
    BY <1>7
  <2>2. result[RecordOf(result, idx)].rows = Rows
    BY <1>5, <1>8
  <2>3. Retained(result, idx) = [n |-> IF Rows.n > 1 THEN Rows.n ELSE 1, cost |-> Rows.cost]
    BY <1>8, <2>1, <2>2 DEF Retained
  <2>4. QED
    BY <1>5, <2>3 DEF RowsState
<1>11. ASSUME Target # idx
       PROVE  /\ Retained(result, Target) \in RowsState
              /\ \A i \in DOMAIN records : records[i].phase = Target =>
                     /\ Retained(result, Target).n >= records[i].rows.n
                     /\ Retained(result, Target).cost = records[i].rows.cost
              /\ (\A i \in DOMAIN records : records[i].phase # Target) =>
                     Retained(result, Target) = priorInvocations[Target]
  <2>1. RecordOf(result, Target) = RecordOf(records, Target)
    BY <1>4, <1>8, <1>11
  <2>2. CASE \A i \in DOMAIN records : records[i].phase # Target
    <3>1. RecordOf(records, Target) = 0
      BY <1>5, <1>7, <2>2, NoRecordFound
    <3>2. Retained(result, Target) = priorInvocations[Target]
      BY <2>1, <3>1 DEF Retained
    <3>3. QED
      BY <1>4, <2>2, <3>2 DEF BooksTyped
  <2>3. ASSUME NEW k \in DOMAIN records, records[k].phase = Target
        PROVE  /\ Retained(result, Target) \in RowsState
               /\ Retained(result, Target).n >= records[k].rows.n
               /\ Retained(result, Target).cost = records[k].rows.cost
               /\ \A i \in DOMAIN records : records[i].phase = Target => i = k
    <3>1. OnePerPhase(records)
      BY DEF RecordsInOrder, OnePerPhase
    <3>2. RecordOf(result, Target) = k /\ k # 0
      BY <1>5, <1>7, <2>1, <2>3, <3>1, RecordFound
    <3>3. result[RecordOf(result, Target)].rows = records[k].rows /\ records[k].rows \in RowsState
      BY <1>5, <2>3, <3>2, RecordsTyped DEF RecordState
    <3>4. Retained(result, Target)
            = [n |-> IF records[k].rows.n > 1 THEN records[k].rows.n ELSE 1, cost |-> records[k].rows.cost]
      BY <3>2, <3>3 DEF Retained
    <3>5. QED
      BY <2>3, <3>1, <3>3, <3>4 DEF RowsState, OnePerPhase
  <2>4. QED
    BY <2>2, <2>3
<1>12. priorInvocations \in [Phases -> RowsState]
  BY DEF BooksTyped
<1>13. CASE Target = idx
  <2>1. priorInvocations' = [priorInvocations EXCEPT ![idx] = Retained(result, idx)]
    BY <1>6, <1>12, <1>13
  <2>2. /\ priorInvocations' \in [Phases -> RowsState]
        /\ priorInvocations'[idx].n >= Rows.n /\ priorInvocations'[idx].cost = Rows.cost
        /\ \A p \in Phases \ {idx, Target} : priorInvocations'[p] = priorInvocations[p]
    BY <1>4, <1>10, <1>12, <2>1
  <2>3. QED
    BY <1>2, <1>3, <1>5, <1>9, <1>13, <2>2
<1>14. CASE Target # idx
  <2> DEFINE a == Retained(result, idx)
             b == Retained(result, Target)
  <2> HIDE DEF a, b
  <2>1. a \in RowsState /\ b \in RowsState
    BY <1>10, <1>11, <1>14 DEF a, b
  <2>2. priorInvocations' = [priorInvocations EXCEPT ![idx] = a, ![Target] = b]
    BY <1>6 DEF a, b
  <2>3. /\ priorInvocations' \in [Phases -> RowsState] /\ priorInvocations'[Target] = b
        /\ \A p \in Phases \ {idx, Target} : priorInvocations'[p] = priorInvocations[p]
    BY <1>4, <1>12, <1>14, <2>1, <2>2
  <2>4. /\ \A i \in DOMAIN records : records[i].phase = Target =>
               b.n >= records[i].rows.n /\ b.cost = records[i].rows.cost
        /\ (\A i \in DOMAIN records : records[i].phase # Target) => b = priorInvocations[Target]
    BY <1>11, <1>14 DEF b
  <2>5. QED
    BY <1>2, <1>3, <1>9, <1>14, <2>3, <2>4
<1>15. QED
  BY <1>13, <1>14

\* The books.
LEMMA BooksStep ==
    ASSUME EngineInv, Next
    PROVE  BooksTyped'
<1>1. RunsTyped /\ BooksTyped /\ RecordsInOrder
  BY DEF EngineInv
<1>2. CASE \/ (\E q \in Runs : ResumeRefused(q)) \/ (\E q \in Runs : Sweep(q))
            \/ (\E r \in Runs, c \in Checkpoints : Approve(r, c)) \/ WriteLedger
  <2>1. UNCHANGED <<at, idx, completed, inherited, records, priorInvocations, correctionBudget, awaiting, fresh, issued, attempt, attemptRows, status>>
    BY <1>2 DEF ResumeRefused, Sweep, Approve, WriteLedger, worktree, books, phase, ghosts
  <2>2. QED
    BY <1>1, <2>1 DEF BooksTyped
<1>3. CASE Begins
  <2>1. PICK q \in 0..run, skipped \in SUBSET Phases, waiting \in SUBSET Checkpoints, linked \in BOOLEAN :
            Starts(q, skipped, waiting, linked)
    BY <1>3, Zenon DEF Begins
  <2>2. /\ idx' = 1 /\ completed' = skipped /\ records' = <<>> /\ attempt' = 1 /\ attemptRows' = Unbound
        /\ status' = "ok" /\ priorInvocations' = [p \in Phases |-> NoRows]
        /\ correctionBudget' = [p \in Phases |-> 0] /\ issued' = [p \in Phases |-> <<>>]
    BY <2>1 DEF Starts, Locals
  <2>3. fresh' = fresh /\ at' \in {"loop", "ledger"} /\ awaiting' \in Checkpoints \cup {0}
    BY <2>1 DEF Starts
  <2>4. inherited' \in [Phases -> 0..MaxRuns]
    <3>1. CASE inherited' = [p \in Phases |-> 0]
      BY <3>1, EngineFacts
    <3>2. CASE inherited' = [p \in Phases |-> IF q # 0 /\ p \in skipped THEN Origin(q, p) ELSE 0]
      <4>1. 0 \in 0..MaxRuns /\ q \in 0..MaxRuns /\ (q # 0 => q \in Runs)
        BY <1>1, EngineFacts DEF RunsTyped, Runs
      <4>2. ASSUME NEW p \in Phases, q # 0 PROVE Origin(q, p) \in 0..MaxRuns
        BY <1>1, <4>1, <4>2 DEF RunsTyped, LedgerState, Origin
      <4>3. QED
        BY <3>2, <4>1, <4>2
    <3>3. QED
      BY <2>1, <3>1, <3>2 DEF Starts
  <2>5. /\ priorInvocations' \in [Phases -> RowsState] /\ correctionBudget' \in [Phases -> Nat]
        /\ \A p \in Phases : correctionBudget'[p] <= GateRetry[p]
        /\ issued' \in [Phases -> Seq(Nat)] /\ records' \in Seq(RecordState)
        /\ idx' \in 1..MaxPhase + 1 /\ attempt' \in 1..MaxAttempts
    BY <2>2, EngineFacts, EngineAssumption DEF NoRows, RowsState
  <2>6. QED
    BY <1>1, <2>2, <2>3, <2>4, <2>5 DEF BooksTyped, Running, Points, Statuses
<1>4. CASE Concludes
  <2>1. /\ UNCHANGED <<idx, completed, inherited, records, priorInvocations, correctionBudget, awaiting, fresh, issued, attempt, attemptRows>>
        /\ at' = "conclude" /\ status' \in Statuses /\ idx \in Phases \ completed
    BY <1>1, <1>4 DEF Concludes, books, ghosts
  <2>2. QED
    BY <1>1, <2>1 DEF BooksTyped, Running, Points, Statuses
<1>5. CASE Finishes
  <2>1. /\ idx' = 1 /\ completed' = {} /\ records' = <<>> /\ attempt' = 1 /\ attemptRows' = Unbound
        /\ status' = "ok" /\ priorInvocations' = [p \in Phases |-> NoRows]
        /\ correctionBudget' = [p \in Phases |-> 0] /\ issued' = [p \in Phases |-> <<>>]
        /\ fresh' = fresh /\ at' = "idle" /\ awaiting' = awaiting /\ inherited' = [p \in Phases |-> 0]
    BY <1>5 DEF Finishes, Ends, Locals
  <2>2. /\ priorInvocations' \in [Phases -> RowsState] /\ correctionBudget' \in [Phases -> Nat]
        /\ \A p \in Phases : correctionBudget'[p] <= GateRetry[p]
        /\ issued' \in [Phases -> Seq(Nat)] /\ records' \in Seq(RecordState)
        /\ idx' \in 1..MaxPhase + 1 /\ attempt' \in 1..MaxAttempts
    BY <2>1, EngineFacts, EngineAssumption DEF NoRows, RowsState
  <2>3. inherited' \in [Phases -> 0..MaxRuns]
    BY <2>1, EngineFacts
  <2>4. QED
    BY <1>1, <2>1, <2>2, <2>3 DEF BooksTyped, Running, Points, Statuses
<1>6. CASE Skip
  <2>1. /\ UNCHANGED <<completed, records, priorInvocations, correctionBudget, attempt, attemptRows, status,
                       awaiting, fresh, issued>>
        /\ at = "loop" /\ at' = "loop" /\ idx' = idx + 1 /\ idx \in Phases
        /\ inherited' = IF parent = 0 THEN inherited ELSE [inherited EXCEPT ![idx] = Origin(parent, idx)]
    BY <1>1, <1>6 DEF Skip, phase, ghosts, BooksTyped
  <2>2. idx' \in 1..MaxPhase + 1
    BY <2>1, EngineFacts DEF Phases
  <2>3. parent # 0 => Origin(parent, idx) \in 0..MaxRuns
    <3>1. parent # 0 => parent \in Runs /\ parent \in 0..MaxRuns
      BY <1>1, EngineFacts DEF RunsTyped, Runs
    <3>2. QED
      BY <1>1, <2>1, <3>1 DEF RunsTyped, LedgerState, Origin
  <2>4. inherited' \in [Phases -> 0..MaxRuns]
    BY <1>1, <2>1, <2>3 DEF BooksTyped
  <2>5. QED
    BY <1>1, <2>1, <2>2, <2>4 DEF BooksTyped, Running, Points
<1>7. CASE LoopEnds
  <2>1. /\ UNCHANGED <<idx, completed, inherited, records, priorInvocations, correctionBudget, awaiting, fresh, issued, attempt, attemptRows, status>>
        /\ at' = "ledger"
    BY <1>1, <1>7 DEF LoopEnds, books, phase, ghosts
  <2>2. QED
    BY <1>1, <2>1 DEF BooksTyped, Running, Points, Statuses
<1>8. CASE BeginAgentPhase
  <2>1. /\ UNCHANGED <<idx, completed, inherited, records, priorInvocations, correctionBudget, awaiting, fresh, issued>>
        /\ at' = "invoke" /\ idx \in Agents /\ idx \in Phases \ completed
        /\ attemptRows' = priorInvocations[idx] /\ attempt' \in 1..MaxAttempts /\ status' = "ok"
    BY <1>1, <1>8, EngineFacts DEF BeginAgentPhase, books, ghosts
  <2>2. QED
    BY <1>1, <2>1 DEF BooksTyped, Running, Points, Statuses
<1>9. CASE Invoke
  <2>1. /\ UNCHANGED <<idx, completed, inherited, records, priorInvocations, correctionBudget, awaiting, attempt, attemptRows>>
        /\ at = "invoke" /\ at' = "agent" /\ status' = "ok" /\ fresh' \subseteq fresh
        /\ issued' = [issued EXCEPT ![idx] = Append(@, Ordinal(idx))]
    BY <1>9 DEF Invoke, books
  <2>2. Ordinal(idx) \in Nat
    BY <1>1, <2>1, EngineFacts DEF BooksTyped, Ordinal, RowsState, Running
  <2>3. issued' \in [Phases -> Seq(Nat)]
    <3> DEFINE o == Ordinal(idx)
    <3> HIDE DEF o
    <3>1. issued' = [issued EXCEPT ![idx] = Append(issued[idx], o)] /\ o \in Nat /\ idx \in Phases
      BY <1>1, <2>1, <2>2 DEF o, BooksTyped, Running
    <3>2. Append(issued[idx], o) \in Seq(Nat)
      BY <1>1, <3>1 DEF BooksTyped
    <3>3. QED
      BY <1>1, <3>1, <3>2 DEF BooksTyped
  <2>4. QED
    BY <1>1, <2>1, <2>3 DEF BooksTyped, Running, Points, Statuses
<1>10. CASE AgentWorks
  <2>1. /\ UNCHANGED <<idx, completed, inherited, records, priorInvocations, correctionBudget, awaiting, fresh, issued, attempt, attemptRows, status>>
        /\ at = "agent" /\ at' = "worked"
    BY <1>1, <1>10 DEF AgentWorks, books, phase, ghosts
  <2>2. QED
    BY <1>1, <2>1 DEF BooksTyped, Running, Points, Statuses
<1>11. CASE AgentEnds
  <2>1. UNCHANGED <<idx, completed, inherited, records, priorInvocations, correctionBudget, awaiting, fresh, issued>> /\ at \in {"agent", "worked"}
    BY <1>11 DEF AgentEnds, books
  <2>2. PICK outcome \in {"ok", "failed"}, cost \in {0, 1} :
            /\ attemptRows' = [n |-> attemptRows.n + 1, cost |-> attemptRows.cost + cost]
            /\ \/ attempt < MaxAttempts /\ attempt' = attempt + 1 /\ at' = "invoke"
               \/ attempt' = attempt /\ at' = "gates"
            /\ status' = outcome
    BY <1>11 DEF AgentEnds
  <2>3. attemptRows.n \in Nat /\ attemptRows.cost \in Nat
    BY <1>1 DEF BooksTyped, RowsState, Unbound
  <2>4. attemptRows' \in RowsState
    BY <2>2, <2>3 DEF RowsState
  <2>5. attempt' \in 1..MaxAttempts /\ at' \in {"invoke", "gates"} /\ status' \in Statuses
    BY <1>1, <2>2, EngineFacts DEF BooksTyped, Statuses
  <2>6. QED
    BY <1>1, <2>1, <2>4, <2>5 DEF BooksTyped, Running, Points
<1>12. CASE Gates
  <2>1. UNCHANGED <<idx, completed, inherited, records, priorInvocations, correctionBudget, awaiting, fresh, issued, attempt, attemptRows>> /\ at = "gates" /\ at' = "conclude"
    BY <1>12 DEF Gates, books, ghosts
  <2>2. status' \in Statuses
    BY <1>1, <1>12 DEF Gates, BooksTyped, Statuses
  <2>3. QED
    BY <1>1, <2>1, <2>2 DEF BooksTyped, Running, Points
<1>13. CASE Passes
  <2>1. /\ UNCHANGED <<completed, inherited, priorInvocations, correctionBudget, attempt, attemptRows,
                       status, issued>>
        /\ at = "conclude" /\ records' = Result("ok") /\ idx \in Phases
        /\ at' = "loop" /\ idx' = idx + 1 /\ fresh' = fresh \cup {idx} /\ awaiting' = awaiting
    BY <1>1, <1>13 DEF Passes, phase, BooksTyped, Running
  <2>2. records' \in Seq(RecordState)
    BY <1>1, <2>1, VerdictRecorded
  <2>3. idx' \in 1..MaxPhase + 1
    BY <1>1, <2>1, EngineFacts DEF BooksTyped, Phases
  <2>4. QED
    BY <1>1, <2>1, <2>2, <2>3 DEF BooksTyped, Running, Points
<1>14. CASE Stops
  <2>1. /\ UNCHANGED <<completed, inherited, priorInvocations, correctionBudget, attempt, attemptRows,
                       status, issued>>
        /\ at = "conclude" /\ records' = Result("awaiting") /\ idx \in Phases
        /\ at' = "ledger" /\ idx' = idx /\ fresh' = fresh \cup {idx} /\ awaiting' \in Checkpoints
    BY <1>1, <1>14 DEF Stops, phase, BooksTyped, Running
  <2>2. records' \in Seq(RecordState)
    BY <1>1, <2>1, VerdictRecorded
  <2>3. idx' \in 1..MaxPhase + 1
    BY <1>1, <2>1, EngineFacts DEF BooksTyped, Phases
  <2>4. QED
    BY <1>1, <2>1, <2>2, <2>3 DEF BooksTyped, Running, Points
<1>15. CASE Fails
  <2>1. /\ UNCHANGED <<completed, inherited, priorInvocations, correctionBudget, attempt, attemptRows,
                       status, issued>>
        /\ at = "conclude" /\ records' = Result("failed") /\ idx \in Phases
        /\ at' = "ledger" /\ idx' = idx /\ fresh' = fresh \ {idx} /\ awaiting' = awaiting
    BY <1>1, <1>15 DEF Fails, phase, BooksTyped, Running
  <2>2. records' \in Seq(RecordState)
    BY <1>1, <2>1, VerdictRecorded
  <2>3. idx' \in 1..MaxPhase + 1
    BY <1>1, <2>1, EngineFacts DEF BooksTyped, Phases
  <2>4. QED
    BY <1>1, <2>1, <2>2, <2>3 DEF BooksTyped, Running, Points
<1>16. CASE Correct
  <2>1. /\ UNCHANGED <<attempt, attemptRows, status, awaiting, issued>>
        /\ at' = "loop" /\ idx' = Target /\ completed' \subseteq completed /\ fresh' \subseteq fresh
        /\ inherited' = StillInherited
        /\ correctionBudget' = [correctionBudget EXCEPT ![idx] = @ + 1]
        /\ correctionBudget[idx] < GateRetry[idx]
    BY <1>16 DEF Correct, CanCorrect, phase
  <2>2. /\ idx \in Phases /\ Target \in Phases /\ records' = Without(records, Target)
        /\ priorInvocations' \in [Phases -> RowsState]
    BY <1>1, <1>16, Correction, EngineFacts
  <2>3. records' \in Seq(RecordState)
    <3>1. records \in Seq(RecordState) /\ OnePerPhase(records)
      BY <1>1 DEF BooksTyped, RecordsInOrder, OnePerPhase
    <3>2. QED
      BY <2>2, <3>1, RecordDropped
  <2>4. inherited' \in [Phases -> 0..MaxRuns]
    BY <1>1, <2>1, EngineFacts DEF BooksTyped, StillInherited
  <2>5. correctionBudget' \in [Phases -> Nat] /\ \A p \in Phases : correctionBudget'[p] <= GateRetry[p]
    <3>1. GateRetry \in [Phases -> Nat]
      BY EngineAssumption
    <3>2. correctionBudget \in [Phases -> Nat] /\ \A p \in Phases : correctionBudget[p] <= GateRetry[p]
      BY <1>1 DEF BooksTyped
    <3>3. correctionBudget[idx] + 1 \in Nat /\ correctionBudget[idx] + 1 <= GateRetry[idx]
      BY <2>1, <2>2, <3>1, <3>2
    <3>4. QED
      BY <2>1, <2>2, <3>2, <3>3
  <2>6. idx' \in 1..MaxPhase + 1
    BY <2>1, <2>2, EngineFacts DEF Phases
  <2>7. QED
    BY <1>1, <2>1, <2>2, <2>3, <2>4, <2>5, <2>6 DEF BooksTyped, Running, Points
<1>17. QED
  BY <1>1, <1>2, <1>3, <1>4, <1>5, <1>6, <1>7, <1>8, <1>9, <1>10, <1>11, <1>12, <1>13, <1>14, <1>15,
     <1>16, Kinds DEF EngineInv

LEMMA Numbers ==
    ASSUME BooksTyped
    PROVE  idx \in Nat /\ \A i \in DOMAIN records : records[i].phase \in Nat
<1>1. idx \in 1..MaxPhase + 1
  BY DEF BooksTyped
<1>2. idx \in Nat
  BY <1>1, EngineFacts
<1>3. \A p \in Phases : p \in Nat
  BY EngineFacts
<1>4. QED
  BY <1>2, <1>3, RecordsTyped

LEMMA CommitKept ==
    ASSUME NEW p, history' = history
    PROVE  CommitOf(p)' = CommitOf(p)
BY DEF CommitOf, SelectLastInSeq

\* The records, one per phase and in order.
LEMMA RecordsStep ==
    ASSUME EngineInv, Next
    PROVE  RecordsInOrder'
<1>1. BooksTyped /\ RecordsInOrder
  BY DEF EngineInv
<1>2. CASE \/ Begins \/ Finishes
  <2>1. records' = <<>>
    BY <1>2 DEF Begins, Starts, Locals, Finishes, Ends, worktree, books, phase, ghosts
  <2>2. QED
    BY <2>1 DEF RecordsInOrder
<1>3. CASE \/ BeginAgentPhase \/ Concludes \/ AgentWorks \/ AgentEnds \/ Gates \/ Invoke
            \/ (\E q \in Runs : ResumeRefused(q)) \/ (\E q \in Runs : Sweep(q))
            \/ (\E r \in Runs, c \in Checkpoints : Approve(r, c)) \/ WriteLedger \/ LoopEnds
  <2>1. UNCHANGED <<records, idx>> /\ (at' \in Running => at \in Running)
    BY <1>3 DEF BeginAgentPhase, Concludes, AgentWorks, AgentEnds, Gates, Invoke, ResumeRefused,
        Sweep, Approve, WriteLedger, LoopEnds, worktree, books, phase, ghosts, Running
  <2>2. QED
    BY <1>1, <2>1 DEF RecordsInOrder
<1>4. CASE Skip
  <2>1. at = "loop" /\ records' = records /\ idx' = idx + 1
    BY <1>4 DEF Skip
  <2>2. idx \in Nat /\ \A i \in DOMAIN records : records[i].phase \in Nat
    BY <1>1, Numbers
  <2>3. \A i \in DOMAIN records : records[i].phase < idx + 1
    BY <1>1, <2>1, <2>2 DEF RecordsInOrder, Running
  <2>4. QED
    BY <1>1, <2>1, <2>3 DEF RecordsInOrder, Running
<1>5. CASE Passes
  <2>1. at = "conclude" /\ at' = "loop" /\ records' = Result("ok") /\ idx' = idx + 1
    BY <1>5 DEF Passes
  <2>2. /\ DOMAIN records' = DOMAIN records \cup {Len(records) + 1} /\ Len(records) + 1 \notin DOMAIN records
        /\ records'[Len(records) + 1].phase = idx /\ records'[Len(records) + 1].status = "ok"
        /\ \A i \in DOMAIN records : records'[i] = records[i]
    BY <1>1, <2>1, VerdictRecorded
  <2>3. \A i \in DOMAIN records : records[i].phase < idx /\ records[i].phase # idx /\ records[i].status = "ok"
    BY <1>1, <2>1, RecordsTyped, EngineFacts DEF RecordsInOrder, BooksTyped, Running
  <2>4. \A i, j \in DOMAIN records' : records'[i].phase = records'[j].phase => i = j
    BY <1>1, <2>2, <2>3 DEF RecordsInOrder
  <2>5. idx \in Nat /\ \A i \in DOMAIN records : records[i].phase \in Nat
    BY <1>1, Numbers
  <2>6. ASSUME NEW i \in DOMAIN records' PROVE records'[i].phase < idx' /\ records'[i].status = "ok"
    <3>1. CASE i = Len(records) + 1
      BY <2>1, <2>2, <2>5, <3>1
    <3>2. CASE i \in DOMAIN records
      BY <2>1, <2>2, <2>3, <2>5, <3>2
    <3>3. QED
      BY <2>2, <3>1, <3>2
  <2>7. QED
    BY <2>4, <2>6 DEF RecordsInOrder
<1>6. CASE Stops
  <2>1. at = "conclude" /\ at' = "ledger" /\ records' = Result("awaiting")
    BY <1>6 DEF Stops
  <2>2. /\ DOMAIN records' = DOMAIN records \cup {Len(records) + 1} /\ Len(records) + 1 \notin DOMAIN records
        /\ records'[Len(records) + 1].phase = idx /\ records'[Len(records) + 1].status = "awaiting"
        /\ \A i \in DOMAIN records : records'[i] = records[i]
    BY <1>1, <2>1, VerdictRecorded
  <2>3. \A i \in DOMAIN records : records[i].phase < idx /\ records[i].phase # idx /\ records[i].status = "ok"
    BY <1>1, <2>1, RecordsTyped, EngineFacts DEF RecordsInOrder, BooksTyped, Running
  <2>4. \A i, j \in DOMAIN records' : records'[i].phase = records'[j].phase => i = j
    BY <1>1, <2>2, <2>3 DEF RecordsInOrder
  <2>5. QED
    BY <2>1, <2>4 DEF RecordsInOrder, Running
<1>7. CASE Fails
  <2>1. at = "conclude" /\ at' = "ledger" /\ records' = Result("failed")
    BY <1>7 DEF Fails
  <2>2. /\ DOMAIN records' = DOMAIN records \cup {Len(records) + 1} /\ Len(records) + 1 \notin DOMAIN records
        /\ records'[Len(records) + 1].phase = idx /\ records'[Len(records) + 1].status = "failed"
        /\ \A i \in DOMAIN records : records'[i] = records[i]
    BY <1>1, <2>1, VerdictRecorded
  <2>3. \A i \in DOMAIN records : records[i].phase < idx /\ records[i].phase # idx /\ records[i].status = "ok"
    BY <1>1, <2>1, RecordsTyped, EngineFacts DEF RecordsInOrder, BooksTyped, Running
  <2>4. \A i, j \in DOMAIN records' : records'[i].phase = records'[j].phase => i = j
    BY <1>1, <2>2, <2>3 DEF RecordsInOrder
  <2>5. QED
    BY <2>1, <2>4 DEF RecordsInOrder, Running
<1>8. CASE Correct
  <2>1. at = "conclude" /\ at' = "loop" /\ idx' = Target
    BY <1>8 DEF Correct
  <2>2. idx \in Phases /\ Target \in Agents /\ Target <= idx /\ records' = Without(records, Target)
        /\ (Target # idx => idx \in TestPhases)
    BY <1>1, <1>8, Correction
  <2>3. records \in Seq(RecordState) /\ OnePerPhase(records)
    BY <1>1 DEF BooksTyped, RecordsInOrder, OnePerPhase
  <2>4. /\ OnePerPhase(records')
        /\ \A i \in DOMAIN records' : \E j \in DOMAIN records : records'[i] = records[j] /\ records[j].phase # Target
    BY <2>2, <2>3, RecordDropped
  <2>5. Target = idx \/ Target = idx - 1
    BY <2>2 DEF Target
  <2>6. \A j \in DOMAIN records : records[j].phase # Target => records[j].phase < Target /\ records[j].status = "ok"
    <3>1. \A j \in DOMAIN records : records[j].phase \in Nat /\ records[j].phase < idx /\ records[j].status = "ok"
      BY <1>1, <2>1, RecordsTyped, EngineFacts DEF RecordsInOrder, Running
    <3>2. idx \in Nat
      BY <2>2, EngineFacts
    <3>3. QED
      BY <2>5, <3>1, <3>2
  <2>7. QED
    BY <2>1, <2>4, <2>6 DEF RecordsInOrder, OnePerPhase
<1>9. QED
  BY <1>1, <1>2, <1>3, <1>4, <1>5, <1>6, <1>7, <1>8, Kinds DEF EngineInv

\* The signatures: a run commits only for phases it has not yet passed.
LEMMA SignedStep ==
    ASSUME EngineInv, Next
    PROVE  SignedAhead'
<1>1. WorktreeTyped /\ BooksTyped /\ RecordsInOrder /\ SignedAhead
  BY DEF EngineInv
<1>2. CASE \/ Concludes \/ BeginAgentPhase \/ AgentEnds \/ Invoke
  <2>1. UNCHANGED <<history, artifact, completed, idx>> /\ at \in Running
    BY <1>2 DEF Concludes, BeginAgentPhase, AgentEnds, Invoke, worktree, books, phase, ghosts,
        Running
  <2>2. QED
    BY <1>1, <2>1, CommitKept DEF SignedAhead
<1>3. CASE \/ Finishes \/ (\E q \in Runs : ResumeRefused(q)) \/ (\E q \in Runs : Sweep(q))
            \/ (\E r \in Runs, c \in Checkpoints : Approve(r, c)) \/ WriteLedger \/ LoopEnds
            \/ Stops \/ Fails
  <2>1. at' \notin Running
    BY <1>3 DEF Finishes, Ends, Locals, ResumeRefused, Sweep, Approve, WriteLedger, LoopEnds, Stops,
        Fails, worktree, books, phase, ghosts, Running
  <2>2. QED
    BY <2>1 DEF SignedAhead
<1>4. CASE Begins
  <2>1. PICK q \in 0..run, skipped \in SUBSET Phases, waiting \in SUBSET Checkpoints, linked \in BOOLEAN :
            Starts(q, skipped, waiting, linked)
    BY <1>4, Zenon DEF Begins
  <2>2. UNCHANGED <<history, artifact>> /\ idx' = 1 /\ completed' = skipped
    BY <2>1 DEF Starts, Locals, worktree
  <2>3. CASE at' = "loop"
    <3>1. \A c \in Checkpoints : c \in skipped =>
              artifact[c].candidate = CommitOf(c) /\ artifact[c].since > CommitOf(c)
      BY <2>1, <2>3 DEF Starts
    <3>2. \A c \in Checkpoints : ~(c < 1)
      BY EngineFacts
    <3>3. \A c \in Checkpoints : CommitOf(c)' = CommitOf(c)
      BY <2>2, CommitKept
    <3>4. artifact' = artifact /\ \A c \in Checkpoints : c < idx' \/ c \in completed' => c \in skipped
      BY <2>2, <3>2
    <3>5. ASSUME NEW c \in Checkpoints, c < idx' \/ c \in completed'
          PROVE  artifact'[c].candidate = CommitOf(c)' /\ artifact'[c].since > CommitOf(c)'
      <4>1. c \in skipped /\ CommitOf(c)' = CommitOf(c)
        BY <3>3, <3>4, <3>5
      <4>2. QED
        BY <3>1, <3>4, <4>1
    <3>6. QED
      BY <3>5 DEF SignedAhead
  <2>4. CASE at' = "ledger"
    BY <2>4 DEF SignedAhead, Running
  <2>5. QED
    BY <2>1, <2>3, <2>4 DEF Starts
<1>5. CASE Skip
  <2>1. at = "loop" /\ UNCHANGED <<history, artifact, completed>> /\ idx' = idx + 1 /\ idx \in completed
    BY <1>5 DEF Skip, worktree
  <2>2. \A c \in Checkpoints : c < idx + 1 => c < idx \/ c \in completed
    <3>1. idx \in Nat /\ \A c \in Checkpoints : c \in Nat
      BY <1>1, Numbers, EngineFacts
    <3>2. QED
      BY <2>1, <3>1
  <2>3. \A c \in Checkpoints : CommitOf(c)' = CommitOf(c)
    BY <2>1, CommitKept
  <2>4. QED
    BY <1>1, <2>1, <2>2, <2>3 DEF SignedAhead, Running
<1>6. CASE AgentWorks
  <2>1. /\ at \in {"agent", "gates"} /\ UNCHANGED <<artifact, completed, idx>>
        /\ history' = history \/ history' = Append(history, idx)
    BY <1>6 DEF AgentWorks, books, worktree
  <2>2. idx \in Phases \ completed /\ idx \in 0..MaxPhase /\ history \in Seq(0..MaxPhase)
    BY <1>1, <2>1, EngineFacts DEF BooksTyped, WorktreeTyped, Running, Phases
  <2>3. ASSUME NEW c \in Checkpoints, c < idx \/ c \in completed
        PROVE  CommitOf(c)' = CommitOf(c)
    <3>1. c # idx
      BY <2>2, <2>3, EngineFacts
    <3>2. CASE history' = history
      BY <3>2, CommitKept
    <3>3. CASE history' = Append(history, idx)
      BY <2>2, <3>1, <3>3, CommitStays
    <3>4. QED
      BY <2>1, <3>2, <3>3
  <2>4. QED
    BY <1>1, <2>1, <2>3 DEF SignedAhead, Running
<1>7. CASE Gates
  <2>1. /\ at \in {"agent", "gates"} /\ UNCHANGED <<artifact, completed, idx>>
        /\ history' = history \/ history' = Append(history, idx)
    BY <1>7 DEF Gates, books, worktree
  <2>2. idx \in Phases \ completed /\ idx \in 0..MaxPhase /\ history \in Seq(0..MaxPhase)
    BY <1>1, <2>1, EngineFacts DEF BooksTyped, WorktreeTyped, Running, Phases
  <2>3. ASSUME NEW c \in Checkpoints, c < idx \/ c \in completed
        PROVE  CommitOf(c)' = CommitOf(c)
    <3>1. c # idx
      BY <2>2, <2>3, EngineFacts
    <3>2. CASE history' = history
      BY <3>2, CommitKept
    <3>3. CASE history' = Append(history, idx)
      BY <2>2, <3>1, <3>3, CommitStays
    <3>4. QED
      BY <2>1, <3>2, <3>3
  <2>4. QED
    BY <1>1, <2>1, <2>3 DEF SignedAhead, Running
<1>8. CASE Passes
  <2>1. at = "conclude" /\ UNCHANGED <<history, artifact, completed>> /\ idx' = idx + 1 /\ idx \notin Checkpoints
    BY <1>8 DEF Passes, worktree
  <2>2. \A c \in Checkpoints : c < idx + 1 => c < idx
    <3>1. idx \in Nat /\ \A c \in Checkpoints : c \in Nat
      BY <1>1, Numbers, EngineFacts
    <3>2. QED
      BY <2>1, <3>1
  <2>3. \A c \in Checkpoints : CommitOf(c)' = CommitOf(c)
    BY <2>1, CommitKept
  <2>4. QED
    BY <1>1, <2>1, <2>2, <2>3 DEF SignedAhead, Running
<1>9. CASE Correct
  <2>1. /\ at = "conclude" /\ UNCHANGED <<history, artifact>> /\ idx' = Target
        /\ completed' \subseteq completed
    BY <1>9 DEF Correct, worktree
  <2>2. idx \in Nat /\ Target \in Nat /\ Target <= idx
    BY <1>1, <1>9, Correction, EngineFacts
  <2>3. \A c \in Checkpoints : c < Target => c < idx
    BY <2>2, EngineFacts
  <2>4. \A c \in Checkpoints : CommitOf(c)' = CommitOf(c)
    BY <2>1, CommitKept
  <2>5. QED
    BY <1>1, <2>1, <2>3, <2>4 DEF SignedAhead, Running
<1>10. QED
  BY <1>1, <1>2, <1>3, <1>4, <1>5, <1>6, <1>7, <1>8, <1>9, Kinds DEF EngineInv

LEMMA IssuedGrows ==
    ASSUME BooksTyped, NEW p \in Phases, NEW m \in Nat, NEW n \in Nat, Issued(p, m), n >= m
    PROVE  Issued(p, n)
<1>1. issued[p] \in Seq(Nat)
  BY DEF BooksTyped
<1>2. \A i \in DOMAIN issued[p] : issued[p][i] \in Nat
  BY <1>1
<1>3. QED
  BY <1>2 DEF Issued

\* The ordinal of a new invocation is above all those before it.
LEMMA InvokedOrdinal ==
    ASSUME BooksTyped, OrdinalsCounted, Invoke
    PROVE  /\ idx \in Phases
           /\ \A i \in DOMAIN issued'[idx] : issued'[idx][i] <= Ordinal(idx)
           /\ \A p \in Phases : p # idx => issued'[p] = issued[p]
           /\ DOMAIN issued'[idx] = DOMAIN issued[idx] \cup {Len(issued[idx]) + 1}
           /\ issued'[idx][Len(issued[idx]) + 1] = Ordinal(idx)
           /\ \A i \in DOMAIN issued[idx] : issued'[idx][i] = issued[idx][i] /\ issued[idx][i] < Ordinal(idx)
<1> DEFINE o == Ordinal(idx)
           s == issued[idx]
<1>1. at = "invoke" /\ issued' = [issued EXCEPT ![idx] = Append(s, o)]
  BY DEF Invoke
<1>2. idx \in Phases /\ issued \in [Phases -> Seq(Nat)]
  BY <1>1, EngineFacts DEF BooksTyped, Running
<1>3. attemptRows.n \in Nat
  BY DEF BooksTyped, RowsState, Unbound
<1>4. o = attemptRows.n + 1 /\ \A i \in DOMAIN s : s[i] <= attemptRows.n
  BY <1>1 DEF OrdinalsCounted, CountedByAttempts, Issued
<1> HIDE DEF o, s
<1>5. s \in Seq(Nat) /\ o \in Nat
  BY <1>2, <1>3, <1>4 DEF s
<1>6. \A i \in DOMAIN s : s[i] \in Nat /\ s[i] < o
  <2>1. \A i \in DOMAIN s : s[i] \in Nat
    BY <1>5
  <2>2. QED
    BY <1>3, <1>4, <2>1
<1>7. /\ issued'[idx] = Append(s, o)
      /\ \A p \in Phases : p # idx => issued'[p] = issued[p]
  BY <1>1, <1>2
<1>8. /\ DOMAIN Append(s, o) = 1..Len(s) + 1 /\ DOMAIN s = 1..Len(s) /\ Len(s) \in Nat
      /\ Append(s, o)[Len(s) + 1] = o /\ \A i \in 1..Len(s) : Append(s, o)[i] = s[i]
  BY <1>5
<1>9. 1..Len(s) + 1 = 1..Len(s) \cup {Len(s) + 1}
  BY <1>8
<1>10. \A i \in DOMAIN Append(s, o) : Append(s, o)[i] <= o
  BY <1>5, <1>6, <1>8, <1>9
<1>11. QED
  BY <1>2, <1>6, <1>7, <1>8, <1>9, <1>10 DEF o, s

\* The ordinals, counted by the rows of the records and by what is retained.
LEMMA OrdinalsStep ==
    ASSUME EngineInv, Next
    PROVE  OrdinalsCounted'
<1>1. BooksTyped /\ RecordsInOrder /\ OrdinalsCounted
  BY DEF EngineInv
<1>2. CASE \/ Begins \/ Finishes
  <2>1. issued' = [p \in Phases |-> <<>>] /\ at' \in {"loop", "ledger", "idle"}
    BY <1>2 DEF Begins, Starts, Locals, Finishes, Ends, worktree, books, phase, ghosts
  <2>2. QED
    BY <2>1, EngineFacts DEF OrdinalsCounted, CountedByBooks, CountedByAttempts, Issued
<1>3. CASE \/ (\E q \in Runs : ResumeRefused(q)) \/ (\E q \in Runs : Sweep(q))
            \/ (\E r \in Runs, c \in Checkpoints : Approve(r, c)) \/ WriteLedger \/ LoopEnds
            \/ Stops \/ Fails
  <2>1. issued' = issued /\ at' \notin Running
    BY <1>3 DEF ResumeRefused, Sweep, Approve, WriteLedger, LoopEnds, Stops, Fails, worktree, books,
        phase, ghosts, Running
  <2>2. QED
    BY <1>1, <2>1 DEF OrdinalsCounted, CountedByAttempts, Running
<1>4. CASE Concludes
  <2>1. /\ UNCHANGED <<issued, records, priorInvocations, idx>>
        /\ at \in Running /\ at' = "conclude" /\ (idx \in Agents => status' \notin {"ok", "gate"})
    BY <1>4 DEF Concludes, books, ghosts
  <2>2. \A p \in Phases : CountedByBooks(p)'
    BY <1>1, <2>1 DEF OrdinalsCounted, CountedByBooks, Issued
  <2>3. CountedByAttempts'
    BY <2>1 DEF CountedByAttempts
  <2>4. QED
    BY <1>1, <2>1, <2>2, <2>3 DEF OrdinalsCounted
<1>5. CASE Skip
  <2>1. UNCHANGED <<issued, records, priorInvocations, at>> /\ at = "loop"
    BY <1>5 DEF Skip, ghosts
  <2>2. \A p \in Phases : CountedByBooks(p)'
    BY <1>1, <2>1 DEF OrdinalsCounted, CountedByBooks, Issued, Running
  <2>3. CountedByAttempts'
    BY <2>1 DEF CountedByAttempts
  <2>4. QED
    BY <1>1, <2>1, <2>2, <2>3 DEF OrdinalsCounted
<1>6. CASE BeginAgentPhase
  <2>1. /\ UNCHANGED <<issued, records, priorInvocations, idx>> /\ at = "loop" /\ at' = "invoke"
        /\ idx \in Phases /\ attemptRows' = priorInvocations[idx] /\ attempt' = 1
    BY <1>6, EngineFacts DEF BeginAgentPhase, books, ghosts
  <2>2. \A p \in Phases : CountedByBooks(p)'
    BY <1>1, <2>1 DEF OrdinalsCounted, CountedByBooks, Issued, Running
  <2>3. CountedByAttempts'
    <3>1. \A i \in DOMAIN records : records[i].phase # idx
      BY <1>1, <2>1, Numbers DEF RecordsInOrder, Running
    <3>2. Issued(idx, priorInvocations[idx].n)
      BY <1>1, <2>1, <3>1 DEF OrdinalsCounted, CountedByBooks, Running
    <3>3. QED
      BY <2>1, <3>2 DEF CountedByAttempts, Issued, Ordinal
  <2>4. QED
    BY <1>1, <2>1, <2>2, <2>3 DEF OrdinalsCounted
<1>7. CASE Invoke
  <2>1. /\ UNCHANGED <<records, priorInvocations, idx, attempt, attemptRows>>
        /\ at = "invoke" /\ at' = "agent" /\ idx \in Agents /\ idx \in Phases
        /\ issued' = [issued EXCEPT ![idx] = Append(@, Ordinal(idx))]
    BY <1>1, <1>7, EngineFacts DEF Invoke, books, BooksTyped
  <2>2. \A p \in Phases : p # idx => issued'[p] = issued[p]
    BY <1>1, <2>1 DEF BooksTyped
  <2>3. \A p \in TestPhases : issued'[p] = <<>>
    BY <1>1, <2>1, <2>2, EngineFacts DEF OrdinalsCounted, Agents
  <2>4. ASSUME NEW p \in Phases PROVE CountedByBooks(p)'
    <3>1. CASE p = idx
      <4>1. \A i \in DOMAIN records : records[i].phase # idx
        BY <1>1, <2>1, Numbers DEF RecordsInOrder, Running
      <4>2. QED
        BY <2>1, <3>1, <4>1 DEF CountedByBooks
    <3>2. CASE p # idx
      BY <1>1, <2>1, <2>2, <3>2 DEF OrdinalsCounted, CountedByBooks, Issued, Running
    <3>3. QED
      BY <3>1, <3>2
  <2>5. CountedByAttempts'
    <3>1. Ordinal(idx)' = Ordinal(idx)
      BY <2>1 DEF Ordinal
    <3>2. attemptRows.n + 1 = Ordinal(idx) /\ Issued(idx, attemptRows.n)
      BY <1>1, <2>1 DEF OrdinalsCounted, CountedByAttempts
    <3>3. \A i \in DOMAIN issued'[idx] : issued'[idx][i] <= Ordinal(idx)
      BY <1>1, <1>7, InvokedOrdinal
    <3>4. QED
      BY <2>1, <3>1, <3>2, <3>3 DEF CountedByAttempts, Issued
  <2>6. QED
    BY <2>1, <2>3, <2>4, <2>5 DEF OrdinalsCounted
<1>8. CASE AgentWorks
  <2>1. UNCHANGED <<issued, records, priorInvocations, idx, attempt, attemptRows>> /\ at = "agent" /\ at' = "worked"
    BY <1>8 DEF AgentWorks, books, phase, ghosts
  <2>2. \A p \in Phases : CountedByBooks(p)'
    BY <1>1, <2>1 DEF OrdinalsCounted, CountedByBooks, Issued, Running
  <2>3. CountedByAttempts'
    BY <1>1, <2>1 DEF OrdinalsCounted, CountedByAttempts, Issued, Ordinal
  <2>4. QED
    BY <1>1, <2>1, <2>2, <2>3 DEF OrdinalsCounted
<1>9. CASE AgentEnds
  <2>1. UNCHANGED <<issued, records, priorInvocations, idx>> /\ at \in {"agent", "worked"}
    BY <1>9 DEF AgentEnds, books
  <2>2. /\ attemptRows'.n = attemptRows.n + 1
        /\ \/ attempt' = attempt + 1 /\ at' = "invoke"
           \/ attempt' = attempt /\ at' = "gates"
    BY <1>9 DEF AgentEnds
  <2>3. \A p \in Phases : CountedByBooks(p)'
    BY <1>1, <2>1, <2>2 DEF OrdinalsCounted, CountedByBooks, Issued, Running
  <2>4. CountedByAttempts'
    <3>1. attemptRows.n + 1 = priorInvocations[idx].n + attempt
          /\ \A i \in DOMAIN issued[idx] : issued[idx][i] <= priorInvocations[idx].n + attempt
      BY <1>1, <2>1 DEF OrdinalsCounted, CountedByAttempts, Ordinal, Issued
    <3>2. attempt \in Nat /\ priorInvocations[idx].n \in Nat
      <4>1. idx \in Phases /\ attempt \in 1..MaxAttempts /\ priorInvocations \in [Phases -> RowsState]
        BY <1>1, <2>1 DEF BooksTyped, Running
      <4>2. QED
        BY <4>1, EngineFacts DEF RowsState
    <3>3. \A i \in DOMAIN issued'[idx] : issued'[idx][i] <= attemptRows'.n
      BY <2>1, <2>2, <3>1
    <3>4. CASE attempt' = attempt + 1 /\ at' = "invoke"
      <4>1. attemptRows'.n + 1 = Ordinal(idx)'
        BY <2>1, <2>2, <3>1, <3>2, <3>4 DEF Ordinal
      <4>2. QED
        BY <2>1, <3>3, <3>4, <4>1 DEF CountedByAttempts, Issued
    <3>5. CASE attempt' = attempt /\ at' = "gates"
      <4>1. attemptRows'.n = Ordinal(idx)'
        BY <2>1, <2>2, <3>1, <3>5 DEF Ordinal
      <4>2. QED
        BY <2>1, <3>3, <3>5, <4>1 DEF CountedByAttempts, Issued
    <3>6. QED
      BY <2>2, <3>4, <3>5
  <2>5. QED
    BY <1>1, <2>1, <2>3, <2>4 DEF OrdinalsCounted
<1>10. CASE Gates
  <2>1. UNCHANGED <<issued, records, priorInvocations, idx, attemptRows>> /\ at = "gates" /\ at' = "conclude"
    BY <1>10 DEF Gates, books, ghosts
  <2>2. \A p \in Phases : CountedByBooks(p)'
    BY <1>1, <2>1 DEF OrdinalsCounted, CountedByBooks, Issued, Running
  <2>3. CountedByAttempts'
    <3>1. Issued(idx, attemptRows.n)
      BY <1>1, <2>1 DEF OrdinalsCounted, CountedByAttempts
    <3>2. QED
      BY <2>1, <3>1 DEF CountedByAttempts, Issued
  <2>4. QED
    BY <1>1, <2>1, <2>2, <2>3 DEF OrdinalsCounted
<1>11. CASE Passes
  <2>1. /\ UNCHANGED <<issued, priorInvocations>> /\ at = "conclude" /\ at' = "loop"
        /\ status = "ok" /\ records' = Result("ok") /\ idx \in Phases
    BY <1>1, <1>11 DEF Passes, BooksTyped, Running
  <2>2. /\ DOMAIN records' = DOMAIN records \cup {Len(records) + 1}
        /\ records'[Len(records) + 1].phase = idx /\ records'[Len(records) + 1].rows = Rows
        /\ \A i \in DOMAIN records : records'[i] = records[i]
        /\ idx \in Agents => Rows.n = attemptRows.n
    BY <1>1, <2>1, VerdictRecorded
  <2>3. Issued(idx, Rows.n)
    <3>1. CASE idx \in Agents
      BY <1>1, <2>1, <2>2, <3>1 DEF OrdinalsCounted, CountedByAttempts
    <3>2. CASE idx \in TestPhases
      BY <1>1, <3>2 DEF OrdinalsCounted, Issued
    <3>3. QED
      BY <2>1, <3>1, <3>2 DEF Agents
  <2>4. ASSUME NEW p \in Phases PROVE CountedByBooks(p)'
    <3>1. CountedByBooks(p)
      BY <1>1, <2>1 DEF OrdinalsCounted, Running
    <3>2. ASSUME NEW i \in DOMAIN records', records'[i].phase = p PROVE Issued(p, records'[i].rows.n)
      <4>1. CASE i = Len(records) + 1
        BY <2>2, <2>3, <3>2, <4>1
      <4>2. CASE i \in DOMAIN records
        BY <2>2, <3>1, <3>2, <4>2 DEF CountedByBooks
      <4>3. QED
        BY <2>2, <4>1, <4>2
    <3>3. (\A i \in DOMAIN records' : records'[i].phase # p) => Issued(p, priorInvocations[p].n)
      BY <2>2, <3>1 DEF CountedByBooks
    <3>4. QED
      BY <2>1, <3>2, <3>3 DEF CountedByBooks, Issued
  <2>5. CountedByAttempts'
    BY <2>1 DEF CountedByAttempts
  <2>6. QED
    BY <1>1, <2>1, <2>4, <2>5 DEF OrdinalsCounted
<1>12. CASE Correct
  <2>1. issued' = issued /\ at = "conclude" /\ at' = "loop"
    BY <1>12 DEF Correct
  <2>2. /\ idx \in Phases /\ Target \in Phases /\ records' = Without(records, Target)
        /\ Target # idx => idx \in TestPhases
        /\ idx \in Agents => status = "gate"
        /\ priorInvocations' \in [Phases -> RowsState]
        /\ \A p \in Phases \ {idx, Target} : priorInvocations'[p] = priorInvocations[p]
        /\ idx \in Agents => priorInvocations'[idx].n >= attemptRows.n
        /\ Target # idx => \A i \in DOMAIN records : records[i].phase = Target =>
                               priorInvocations'[Target].n >= records[i].rows.n
        /\ Target # idx /\ (\A i \in DOMAIN records : records[i].phase # Target) =>
                               priorInvocations'[Target] = priorInvocations[Target]
    BY <1>1, <1>12, Correction, EngineFacts
  <2>3. /\ \A i \in DOMAIN records' : \E j \in DOMAIN records : records'[i] = records[j] /\ records[j].phase # Target
        /\ \A j \in DOMAIN records : records[j].phase # Target => \E i \in DOMAIN records' : records'[i] = records[j]
    <3>1. records \in Seq(RecordState) /\ OnePerPhase(records)
      BY <1>1 DEF BooksTyped, RecordsInOrder, OnePerPhase
    <3>2. QED
      BY <2>2, <3>1, RecordDropped
  <2>4. \A p \in TestPhases : \A n : Issued(p, n)
    BY <1>1 DEF OrdinalsCounted, Issued
  <2>5. \A p \in Phases : priorInvocations'[p].n \in Nat
    BY <2>2 DEF RowsState
  <2>6. ASSUME NEW p \in Phases PROVE CountedByBooks(p)'
    <3>1. CountedByBooks(p)
      BY <1>1, <2>1 DEF OrdinalsCounted, Running
    <3>2. ASSUME NEW i \in DOMAIN records', records'[i].phase = p PROVE Issued(p, records'[i].rows.n)
      BY <2>3, <3>1, <3>2 DEF CountedByBooks
    <3>3. ASSUME \A i \in DOMAIN records' : records'[i].phase # p
          PROVE  Issued(p, priorInvocations'[p].n)
      <4>1. CASE p \in TestPhases
        BY <2>4, <4>1
      <4>2. CASE p \in Agents /\ p = idx
        <5>1. Issued(p, attemptRows.n) /\ priorInvocations'[p].n >= attemptRows.n
          BY <1>1, <2>1, <2>2, <4>2 DEF OrdinalsCounted, CountedByAttempts
        <5>2. attemptRows.n \in Nat
          BY <1>1 DEF BooksTyped, RowsState, Unbound
        <5>3. QED
          BY <1>1, <2>5, <5>1, <5>2, IssuedGrows
      <4>3. CASE p # idx /\ p = Target
        <5>1. CASE \A i \in DOMAIN records : records[i].phase # Target
          <6>1. Issued(p, priorInvocations[p].n) /\ priorInvocations'[p] = priorInvocations[p]
            BY <2>2, <3>1, <4>3, <5>1 DEF CountedByBooks
          <6>2. QED
            BY <6>1
        <5>2. ASSUME NEW k \in DOMAIN records, records[k].phase = Target PROVE Issued(p, priorInvocations'[p].n)
          <6>1. Issued(p, records[k].rows.n) /\ priorInvocations'[p].n >= records[k].rows.n
            BY <2>2, <3>1, <4>3, <5>2 DEF CountedByBooks
          <6>2. records[k].rows.n \in Nat
            BY <1>1, RecordsTyped
          <6>3. QED
            BY <1>1, <2>5, <6>1, <6>2, IssuedGrows
        <5>3. QED
          BY <5>1, <5>2
      <4>4. CASE p # idx /\ p # Target
        <5>1. \A j \in DOMAIN records : records[j].phase # p
          BY <2>3, <3>3, <4>4
        <5>2. Issued(p, priorInvocations[p].n) /\ priorInvocations'[p] = priorInvocations[p]
          BY <2>2, <3>1, <4>4, <5>1 DEF CountedByBooks
        <5>3. QED
          BY <5>2
      <4>5. QED
        BY <4>1, <4>2, <4>3, <4>4 DEF Agents
    <3>4. QED
      BY <2>1, <3>2, <3>3 DEF CountedByBooks, Issued
  <2>7. CountedByAttempts'
    BY <2>1 DEF CountedByAttempts
  <2>8. QED
    BY <1>1, <2>1, <2>6, <2>7 DEF OrdinalsCounted
<1>13. QED
  BY <1>1, <1>2, <1>3, <1>4, <1>5, <1>6, <1>7, <1>8, <1>9, <1>10, <1>11, <1>12, Kinds DEF EngineInv

\* No ordinal is given twice.
LEMMA UniqueStep ==
    ASSUME EngineInv, Next
    PROVE  AttemptOrdinalsUnique'
<1>1. BooksTyped /\ OrdinalsCounted /\ AttemptOrdinalsUnique
  BY DEF EngineInv
<1>2. CASE \/ Begins \/ Finishes
  <2>1. issued' = [p \in Phases |-> <<>>]
    BY <1>2 DEF Begins, Starts, Locals, Finishes, Ends, worktree, books, phase, ghosts
  <2>2. QED
    BY <2>1 DEF AttemptOrdinalsUnique
<1>3. CASE \/ Concludes \/ (\E q \in Runs : ResumeRefused(q)) \/ (\E q \in Runs : Sweep(q))
            \/ (\E r \in Runs, c \in Checkpoints : Approve(r, c)) \/ Skip \/ LoopEnds
            \/ BeginAgentPhase \/ AgentWorks \/ AgentEnds \/ Gates \/ Passes \/ Stops
            \/ Fails \/ Correct \/ WriteLedger
  <2>1. issued' = issued
    BY <1>3 DEF Concludes, ResumeRefused, Sweep, Approve, Skip, LoopEnds, BeginAgentPhase,
        AgentWorks, AgentEnds, Gates, Passes, Stops, Fails, Correct, WriteLedger, worktree, books,
        phase, ghosts
  <2>2. QED
    BY <1>1, <2>1 DEF AttemptOrdinalsUnique
<1>4. CASE Invoke
  <2>1. /\ idx \in Phases /\ \A p \in Phases : p # idx => issued'[p] = issued[p]
        /\ DOMAIN issued'[idx] = DOMAIN issued[idx] \cup {Len(issued[idx]) + 1}
        /\ issued'[idx][Len(issued[idx]) + 1] = Ordinal(idx)
        /\ \A i \in DOMAIN issued[idx] : issued'[idx][i] = issued[idx][i] /\ issued[idx][i] < Ordinal(idx)
    BY <1>1, <1>4, InvokedOrdinal
  <2>2. \A i \in DOMAIN issued[idx] : issued[idx][i] # Ordinal(idx)
    <3>1. Ordinal(idx) \in Nat
      BY <1>1, <1>4, EngineFacts DEF BooksTyped, Ordinal, RowsState, Running, Invoke
    <3>2. issued[idx] \in Seq(Nat)
      BY <1>1, <2>1 DEF BooksTyped
    <3>3. \A i \in DOMAIN issued[idx] : issued[idx][i] \in Nat
      BY <3>2
    <3>4. QED
      BY <2>1, <3>1, <3>3
  <2>3. QED
    BY <1>1, <2>1, <2>2 DEF AttemptOrdinalsUnique
<1>5. QED
  BY <1>1, <1>2, <1>3, <1>4, Kinds DEF EngineInv

\* What a run that was fresh so far has in its books: the phases before this one.
LEMMA DoneSoFar ==
    ASSUME BooksTyped, RecordsInOrder, FreshSoFar, at \in Running
    PROVE  Done = 1..idx - 1 /\ Reached = {}
<1>1. \A i \in DOMAIN records : records[i].phase \in Phases /\ records[i].phase < idx /\ records[i].status = "ok"
  BY RecordsTyped DEF RecordsInOrder
<1>2. \A p \in Done : p \in Phases /\ p < idx
  BY <1>1 DEF Done, Recorded, Inherited, FreshSoFar
<1>3. \A p \in Phases : p < idx => p \in 1..idx - 1
  BY Numbers, EngineFacts
<1>4. Recorded("awaiting") = {}
  BY <1>1 DEF Recorded
<1>5. QED
  BY <1>2, <1>3, <1>4 DEF FreshSoFar, Reached

LEMMA NextPhase ==
    ASSUME BooksTyped
    PROVE  1..(idx + 1) - 1 = 1..idx - 1 \cup {idx} /\ \A p \in Nat : p < idx \/ p = idx => p < idx + 1
<1>1. idx \in Nat /\ idx >= 1
  BY Numbers DEF BooksTyped
<1>2. QED
  BY <1>1

LEMMA NewlyRecorded ==
    ASSUME BooksTyped, at = "conclude", NEW verdict \in {"ok", "awaiting", "failed"}, records' = Result(verdict)
    PROVE  /\ Recorded(verdict)' = Recorded(verdict) \cup {idx}
           /\ \A other : other # verdict => Recorded(other)' = Recorded(other)
           /\ \E i \in DOMAIN records' : records'[i].status = verdict
<1>1. /\ DOMAIN records' = DOMAIN records \cup {Len(records) + 1}
      /\ Len(records) + 1 \notin DOMAIN records
      /\ records'[Len(records) + 1].phase = idx /\ records'[Len(records) + 1].status = verdict
      /\ \A i \in DOMAIN records : records'[i] = records[i]
  BY VerdictRecorded
<1>2. QED
  BY <1>1 DEF Recorded

\* What the linked runs have in their books and ledgers.
LEMMA LinkedStep ==
    ASSUME EngineInv, Next
    PROVE  LinkedIsFresh'
<1>1. RunsTyped /\ BooksTyped /\ RecordsInOrder /\ LinkedIsFresh
  BY DEF EngineInv
<1>2. CASE \/ Concludes \/ BeginAgentPhase \/ AgentWorks \/ AgentEnds \/ Gates
  <2>1. /\ UNCHANGED <<ledgers, run, parent, idx, completed, inherited, records, fresh>>
        /\ at \in Running /\ at' \in Running
    BY <1>2 DEF Concludes, BeginAgentPhase, AgentWorks, AgentEnds, Gates, worktree, books, phase,
        ghosts, Running
  <2>2. QED
    BY <1>1, <2>1 DEF LinkedIsFresh, FreshSoFar, Closed, Done, Recorded, Inherited, Running
<1>3. CASE \/ (\E r \in Runs, c \in Checkpoints : Approve(r, c))
  <2>1. UNCHANGED <<ledgers, run, at, fresh>> /\ at = "idle"
    BY <1>3 DEF Approve, worktree, books, phase, ghosts
  <2>2. QED
    BY <1>1, <2>1 DEF LinkedIsFresh, UpToDate, Closed, LedgerDone, Running
<1>4. CASE Begins
  <2>1. SUFFICES ASSUME (run # 0 /\ ledgers[run].linked)'
                 PROVE  LinkedIsFresh'
    BY DEF LinkedIsFresh
  <2>2. PICK q \in 0..run, skipped \in SUBSET Phases, waiting \in SUBSET Checkpoints, linked \in BOOLEAN :
            /\ Starts(q, skipped, waiting, linked)
            /\ linked => \/ q = 0 /\ skipped = {} /\ waiting = {}
                         \/ /\ q = run /\ run # 0 /\ ledgers[run].linked /\ ledgers[run].written
                            /\ LedgerDone(run) \subseteq skipped
                            /\ skipped \cup waiting \subseteq LedgerDone(run) \cup ledgers[run].reached
    BY <1>4, Zenon DEF Begins
  <2>3. /\ at = "idle" /\ run' = run + 1 /\ parent' = q /\ fresh' = fresh
        /\ ledgers'[run'].linked = linked /\ ledgers'[run'].reached = waiting /\ ~ledgers'[run'].written
        /\ idx' = 1 /\ completed' = skipped /\ records' = <<>>
    BY <2>2 DEF Starts, Locals
  <2>4. \/ q = 0 /\ skipped = {} /\ waiting = {}
        \/ /\ q = run /\ run # 0 /\ ledgers[run].linked /\ ledgers[run].written
           /\ LedgerDone(run) \subseteq skipped
           /\ skipped \cup waiting \subseteq LedgerDone(run) \cup ledgers[run].reached
    BY <2>1, <2>2, <2>3
  <2>5. /\ skipped \subseteq fresh /\ Closed(skipped) /\ (q = 0 => skipped = {})
        /\ waiting \subseteq fresh /\ \A p \in waiting, r \in Phases : r < p => r \in skipped
    <3>1. CASE q = 0 /\ skipped = {} /\ waiting = {}
      BY <3>1 DEF Closed
    <3>2. CASE /\ q = run /\ run # 0 /\ ledgers[run].linked /\ ledgers[run].written
               /\ LedgerDone(run) \subseteq skipped
               /\ skipped \cup waiting \subseteq LedgerDone(run) \cup ledgers[run].reached
      <4>1. UpToDate(LedgerDone(run), ledgers[run].reached)
        BY <1>1, <2>3, <3>2 DEF LinkedIsFresh
      <4>2. \A p \in LedgerDone(run) \cup ledgers[run].reached, r \in Phases : r < p => r \in LedgerDone(run)
        BY <4>1 DEF UpToDate, Closed
      <4>3. QED
        BY <3>2, <4>1, <4>2 DEF UpToDate, Closed
    <3>3. QED
      BY <2>4, <3>1, <3>2
  <2>6. CASE waiting = {} /\ at' = "loop" /\ inherited' = [p \in Phases |-> 0]
    <3>1. Inherited' = {} /\ 1..idx' - 1 = {}
      BY <2>3, <2>6 DEF Inherited
    <3>2. FreshSoFar'
      BY <2>3, <2>5, <2>6, <3>1 DEF FreshSoFar, Closed
    <3>3. QED
      BY <2>6, <3>2 DEF LinkedIsFresh
  <2>7. CASE /\ waiting # {} /\ at' = "ledger" /\ awaiting' \in waiting
             /\ inherited' = [p \in Phases |-> IF q # 0 /\ p \in skipped THEN Origin(q, p) ELSE 0]
    <3>1. Inherited' = skipped
      <4>1. q # 0 => \A p \in Phases : Origin(q, p) # 0
        BY DEF Origin
      <4>2. QED
        BY <2>5, <2>7, <4>1 DEF Inherited
    <3>2. Recorded("ok")' = {} /\ Recorded("awaiting")' = {}
      BY <2>3 DEF Recorded
    <3>3. Done' = skipped /\ Reached' = waiting
      BY <2>3, <3>1, <3>2 DEF Done, Reached
    <3>4. UpToDate(Done, Reached)'
      BY <2>3, <2>5, <3>3 DEF UpToDate, Closed
    <3>5. awaiting' # 0
      BY <2>7, EngineFacts
    <3>6. QED
      BY <2>3, <2>7, <3>4, <3>5 DEF LinkedIsFresh, Running
  <2>8. QED
    BY <2>2, <2>6, <2>7 DEF Starts
<1>5. CASE Finishes
  <2>1. SUFFICES ASSUME (run # 0 /\ ledgers[run].linked)'
                 PROVE  LinkedIsFresh'
    BY DEF LinkedIsFresh
  <2>2. at # "idle" /\ at' = "idle" /\ fresh' = fresh /\ run' = run
    BY <1>5 DEF Finishes, Ends
  <2>3. run # 0 => run \in Runs
    BY <1>1, EngineFacts DEF RunsTyped, Runs
  <2>4. /\ ledgers'[run].linked = ledgers[run].linked /\ ledgers'[run].written = ledgers[run].written
        /\ ledgers'[run].ok = ledgers[run].ok /\ ledgers'[run].reached = ledgers[run].reached
        /\ ledgers'[run].inherited = ledgers[run].inherited
    <3>1. run \in Runs /\ ledgers \in [Runs -> LedgerState]
      BY <1>1, <2>1, <2>2, <2>3 DEF RunsTyped
    <3>2. CASE ledgers' = ledgers
      BY <3>2
    <3>3. CASE ledgers' = [ledgers EXCEPT ![run].state = Outcome, ![run].candidate = Tip]
      <4> DEFINE o == Outcome
                 t == Tip
      <4>1. ledgers' = [ledgers EXCEPT ![run].state = o, ![run].candidate = t]
        BY <3>3
      <4> HIDE DEF o, t
      <4>2. QED
        BY <3>1, <4>1 DEF LedgerState
    <3>4. QED
      BY <1>5, <3>2, <3>3 DEF Finishes
  <2>5. ledgers[run].written => at = "ledger"
    BY <1>1, <2>2 DEF RunsTyped, BooksTyped, Points, Running
  <2>6. ledgers[run].written => UpToDate(LedgerDone(run), ledgers[run].reached)
    BY <1>1, <2>1, <2>2, <2>4, <2>5 DEF LinkedIsFresh
  <2>7. LedgerDone(run)' = LedgerDone(run)
    BY <2>2, <2>4 DEF LedgerDone
  <2>8. ledgers'[run'].written => UpToDate(LedgerDone(run), ledgers[run].reached)'
    BY <2>2, <2>4, <2>6, <2>7 DEF UpToDate, Closed
  <2>9. QED
    BY <2>2, <2>8 DEF LinkedIsFresh, Running
<1>6. ASSUME NEW q \in Runs, ResumeRefused(q) PROVE LinkedIsFresh'
  <2>1. SUFFICES ASSUME (run # 0 /\ ledgers[run].linked)'
                 PROVE  LinkedIsFresh'
    BY DEF LinkedIsFresh
  <2>2. run' = run + 1 /\ run < MaxRuns /\ ledgers' = [ledgers EXCEPT ![run + 1].state = "cancelled"]
    BY <1>6 DEF ResumeRefused
  <2>3. run + 1 \in Runs /\ ledgers[run + 1] = NoLedger
    BY <1>1, <2>2, EngineFacts DEF RunsTyped, Runs
  <2>4. ~ledgers'[run'].linked
    BY <1>1, <2>2, <2>3, EmptyLedger DEF RunsTyped, LedgerState
  <2>5. QED
    BY <2>1, <2>4
<1>7. ASSUME NEW q \in Runs, Sweep(q) PROVE LinkedIsFresh'
  <2>1. SUFFICES ASSUME (run # 0 /\ ledgers[run].linked)'
                 PROVE  LinkedIsFresh'
    BY DEF LinkedIsFresh
  <2>2. /\ at = "idle" /\ UNCHANGED <<at, run, fresh>>
        /\ ledgers' = [ledgers EXCEPT ![q].state = "cancelled"]
    BY <1>7 DEF Sweep, ghosts
  <2>3. run \in Runs
    BY <1>1, <2>1, <2>2, EngineFacts DEF RunsTyped, Runs
  <2>4. /\ ledgers'[run].linked = ledgers[run].linked /\ ledgers'[run].written = ledgers[run].written
        /\ ledgers'[run].ok = ledgers[run].ok /\ ledgers'[run].reached = ledgers[run].reached
        /\ ledgers'[run].inherited = ledgers[run].inherited
    BY <1>1, <2>2, <2>3 DEF RunsTyped, LedgerState
  <2>5. ledgers[run].written => UpToDate(LedgerDone(run), ledgers[run].reached)
    BY <1>1, <2>1, <2>2, <2>4 DEF LinkedIsFresh
  <2>6. LedgerDone(run)' = LedgerDone(run)
    BY <2>2, <2>4 DEF LedgerDone
  <2>7. ledgers'[run'].written => UpToDate(LedgerDone(run), ledgers[run].reached)'
    BY <2>2, <2>4, <2>5, <2>6 DEF UpToDate, Closed
  <2>8. QED
    BY <2>2, <2>7 DEF LinkedIsFresh, Running
<1>8. CASE Skip
  <2>1. SUFFICES ASSUME (run # 0 /\ ledgers[run].linked)'
                 PROVE  LinkedIsFresh'
    BY DEF LinkedIsFresh
  <2>2. /\ UNCHANGED <<ledgers, run, at, parent, completed, records, fresh>>
        /\ at = "loop" /\ idx \in completed /\ idx' = idx + 1
        /\ inherited' = IF parent = 0 THEN inherited ELSE [inherited EXCEPT ![idx] = Origin(parent, idx)]
    BY <1>8 DEF Skip, ghosts
  <2>3. FreshSoFar
    BY <1>1, <2>1, <2>2 DEF LinkedIsFresh, Running
  <2>4. parent # 0
    BY <2>2, <2>3 DEF FreshSoFar
  <2>5. Inherited' = Inherited \cup {idx}
    <3>1. Origin(parent, idx) # 0
      BY <2>4 DEF Origin
    <3>2. idx \in Phases /\ inherited \in [Phases -> 0..MaxRuns]
      BY <1>1, <2>2 DEF BooksTyped
    <3>3. inherited' = [inherited EXCEPT ![idx] = Origin(parent, idx)]
      BY <2>2, <2>4
    <3>4. QED
      BY <3>1, <3>2, <3>3 DEF Inherited
  <2>6. Done' = Done \cup {idx}
    BY <2>2, <2>5 DEF Done, Recorded
  <2>7. 1..idx' - 1 = 1..idx - 1 \cup {idx} /\ \A p \in Inherited' : p < idx'
    BY <1>1, <2>2, <2>3, <2>5, NextPhase, EngineFacts DEF FreshSoFar, Inherited
  <2>8. FreshSoFar'
    BY <2>2, <2>3, <2>4, <2>6, <2>7 DEF FreshSoFar, Closed
  <2>9. QED
    BY <2>2, <2>8 DEF LinkedIsFresh
<1>9. CASE LoopEnds
  <2>1. SUFFICES ASSUME (run # 0 /\ ledgers[run].linked)'
                 PROVE  LinkedIsFresh'
    BY DEF LinkedIsFresh
  <2>2. /\ UNCHANGED <<ledgers, run, inherited, records, fresh>>
        /\ at = "loop" /\ at' = "ledger" /\ idx > MaxPhase
    BY <1>9 DEF LoopEnds, books, ghosts
  <2>3. FreshSoFar
    BY <1>1, <2>1, <2>2 DEF LinkedIsFresh, Running
  <2>4. Done = 1..idx - 1 /\ Reached = {}
    BY <1>1, <2>2, <2>3, DoneSoFar DEF Running
  <2>5. 1..idx - 1 = Phases
    BY <1>1, <2>2, Numbers, EngineFacts DEF BooksTyped, Phases
  <2>6. fresh = Phases
    BY <1>1, <2>3, <2>5 DEF FreshSoFar, BooksTyped
  <2>7. Done' = Phases /\ Reached' = {}
    <3>1. Done' = Done /\ Reached' = Reached
      BY <2>2 DEF Done, Reached, Recorded, Inherited
    <3>2. QED
      BY <2>4, <2>5, <3>1
  <2>8. UpToDate(Done, Reached)'
    BY <2>2, <2>6, <2>7 DEF UpToDate, Closed
  <2>9. ~ledgers'[run'].written
    BY <1>1, <2>2 DEF RunsTyped, Running
  <2>10. QED
    BY <2>2, <2>6, <2>8, <2>9 DEF LinkedIsFresh, Running
<1>10. CASE Invoke
  <2>1. SUFFICES ASSUME (run # 0 /\ ledgers[run].linked)'
                 PROVE  LinkedIsFresh'
    BY DEF LinkedIsFresh
  <2>2. /\ UNCHANGED <<ledgers, run, parent, idx, completed, inherited, records>>
        /\ at = "invoke" /\ at' = "agent" /\ fresh' = {p \in fresh : p < idx}
    BY <1>10 DEF Invoke, books
  <2>3. FreshSoFar
    BY <1>1, <2>1, <2>2 DEF LinkedIsFresh, Running
  <2>4. 1..idx - 1 \subseteq fresh'
    BY <1>1, <2>2, <2>3, Numbers DEF FreshSoFar
  <2>5. completed \subseteq fresh'
    <3>1. idx \in Phases \ completed /\ completed \subseteq Phases
      BY <1>1, <2>2 DEF BooksTyped, Running
    <3>2. \A p \in completed : ~(idx < p) /\ p # idx
      BY <2>3, <3>1 DEF FreshSoFar, Closed
    <3>3. \A p \in completed : p < idx
      BY <3>1, <3>2, EngineFacts
    <3>4. QED
      BY <2>2, <2>3, <3>3 DEF FreshSoFar
  <2>6. Done' = Done /\ Inherited' = Inherited
    BY <2>2 DEF Done, Recorded, Inherited
  <2>7. FreshSoFar'
    BY <2>2, <2>3, <2>4, <2>5, <2>6 DEF FreshSoFar, Closed
  <2>8. QED
    BY <2>2, <2>7 DEF LinkedIsFresh
<1>11. CASE Passes
  <2>1. SUFFICES ASSUME (run # 0 /\ ledgers[run].linked)'
                 PROVE  LinkedIsFresh'
    BY DEF LinkedIsFresh
  <2>2. /\ UNCHANGED <<ledgers, run, parent, completed, inherited>> /\ records' = Result("ok")
        /\ at = "conclude" /\ at' = "loop" /\ idx' = idx + 1 /\ fresh' = fresh \cup {idx}
    BY <1>11 DEF Passes
  <2>3. FreshSoFar
    BY <1>1, <2>1, <2>2 DEF LinkedIsFresh, Running
  <2>4. Recorded("ok")' = Recorded("ok") \cup {idx}
    BY <1>1, <2>2, NewlyRecorded
  <2>5. Inherited' = Inherited /\ Done' = Done \cup {idx}
    BY <2>2, <2>4 DEF Done, Inherited
  <2>6. 1..idx' - 1 = 1..idx - 1 \cup {idx} /\ \A p \in Inherited' : p < idx'
    BY <1>1, <2>2, <2>3, <2>5, NextPhase, EngineFacts DEF FreshSoFar, Inherited
  <2>7. FreshSoFar'
    BY <2>2, <2>3, <2>5, <2>6 DEF FreshSoFar, Closed
  <2>8. QED
    BY <2>2, <2>7 DEF LinkedIsFresh
<1>12. CASE Stops
  <2>1. SUFFICES ASSUME (run # 0 /\ ledgers[run].linked)'
                 PROVE  LinkedIsFresh'
    BY DEF LinkedIsFresh
  <2>2. /\ UNCHANGED <<ledgers, run, inherited>> /\ records' = Result("awaiting")
        /\ at = "conclude" /\ at' = "ledger" /\ fresh' = fresh \cup {idx}
        /\ idx \in Checkpoints /\ awaiting' = idx
    BY <1>12 DEF Stops
  <2>3. FreshSoFar
    BY <1>1, <2>1, <2>2 DEF LinkedIsFresh, Running
  <2>4. Done = 1..idx - 1 /\ Reached = {}
    BY <1>1, <2>2, <2>3, DoneSoFar DEF Running
  <2>5. Recorded("ok")' = Recorded("ok") /\ Recorded("awaiting")' = Recorded("awaiting") \cup {idx}
    BY <1>1, <2>2, NewlyRecorded
  <2>6. Done' = 1..idx - 1 /\ Reached' = {idx}
    BY <2>2, <2>4, <2>5 DEF Done, Reached, Inherited
  <2>7. UpToDate(Done, Reached)'
    <3>1. idx \in Nat /\ \A p \in Phases : p \in Nat \ {0}
      BY <1>1, Numbers, EngineFacts
    <3>2. Closed(1..idx - 1) /\ \A q \in Phases : q < idx => q \in 1..idx - 1
      BY <3>1 DEF Closed
    <3>3. QED
      BY <2>2, <2>3, <2>6, <3>2 DEF UpToDate, FreshSoFar, Closed
  <2>8. ~ledgers'[run'].written /\ awaiting' # 0
    BY <1>1, <2>2, EngineFacts DEF RunsTyped, Running
  <2>9. QED
    BY <2>2, <2>7, <2>8 DEF LinkedIsFresh, Running
<1>13. CASE Fails
  <2>1. SUFFICES ASSUME (run # 0 /\ ledgers[run].linked)'
                 PROVE  LinkedIsFresh'
    BY DEF LinkedIsFresh
  <2>2. /\ UNCHANGED <<ledgers, run, inherited>> /\ records' = Result("failed")
        /\ at = "conclude" /\ at' = "ledger" /\ fresh' = fresh \ {idx}
    BY <1>13 DEF Fails
  <2>3. FreshSoFar
    BY <1>1, <2>1, <2>2 DEF LinkedIsFresh, Running
  <2>4. Done = 1..idx - 1 /\ Reached = {}
    BY <1>1, <2>2, <2>3, DoneSoFar DEF Running
  <2>5. /\ Recorded("ok")' = Recorded("ok") /\ Recorded("awaiting")' = Recorded("awaiting")
        /\ \E i \in DOMAIN records' : records'[i].status # "ok"
    BY <1>1, <2>2, NewlyRecorded
  <2>6. Done' = 1..idx - 1 /\ Reached' = {}
    BY <2>2, <2>4, <2>5 DEF Done, Reached, Inherited
  <2>7. UpToDate(Done, Reached)'
    <3>1. idx \in Nat /\ \A p \in Phases : p \in Nat \ {0}
      BY <1>1, Numbers, EngineFacts
    <3>2. Closed(1..idx - 1) /\ idx \notin 1..idx - 1
      BY <3>1 DEF Closed
    <3>3. QED
      BY <2>2, <2>3, <2>6, <3>2 DEF UpToDate, FreshSoFar, Closed
  <2>8. ~ledgers'[run'].written
    BY <1>1, <2>2 DEF RunsTyped, Running
  <2>9. QED
    BY <2>2, <2>5, <2>7, <2>8 DEF LinkedIsFresh, Running
<1>14. CASE Correct
  <2>1. SUFFICES ASSUME (run # 0 /\ ledgers[run].linked)'
                 PROVE  LinkedIsFresh'
    BY DEF LinkedIsFresh
  <2>2. /\ UNCHANGED <<ledgers, run, parent>> /\ at = "conclude" /\ at' = "loop" /\ idx' = Target
        /\ completed' = completed \ Outdated /\ inherited' = StillInherited /\ fresh' = fresh \ {idx}
    BY <1>14 DEF Correct
  <2>3. FreshSoFar
    BY <1>1, <2>1, <2>2 DEF LinkedIsFresh, Running
  <2>4. idx \in Phases /\ Target \in Phases /\ Target <= idx /\ records' = Without(records, Target)
    BY <1>1, <1>14, Correction, EngineFacts
  <2>5. idx \in Nat /\ Target \in Nat /\ \A p \in Phases : p \in Nat
    BY <2>4, EngineFacts
  <2>6. Inherited' = {p \in Inherited : p < Target}
    BY <2>2, <2>5 DEF StillInherited, Outdated, Inherited
  <2>7. \A p \in Recorded("ok") : p # Target => p \in Recorded("ok")'
    <3>1. records \in Seq(RecordState) /\ OnePerPhase(records)
      BY <1>1 DEF BooksTyped, RecordsInOrder, OnePerPhase
    <3>2. \A j \in DOMAIN records : records[j].phase # Target => \E i \in DOMAIN records' : records'[i] = records[j]
      BY <2>4, <3>1, RecordDropped
    <3>3. QED
      BY <3>2 DEF Recorded
  <2>8. 1..idx' - 1 \subseteq 1..idx - 1 /\ \A p \in 1..idx' - 1 : p < Target /\ p # Target /\ p # idx
    BY <2>2, <2>4, <2>5
  <2>9. 1..idx' - 1 \subseteq fresh' /\ 1..idx' - 1 \subseteq Done'
    <3>1. 1..idx' - 1 \subseteq fresh'
      BY <2>2, <2>3, <2>8 DEF FreshSoFar
    <3>2. ASSUME NEW p \in 1..idx' - 1 PROVE p \in Done'
      BY <2>3, <2>6, <2>7, <2>8 DEF FreshSoFar, Done
    <3>3. QED
      BY <3>1, <3>2
  <2>10. completed' \subseteq fresh' /\ Closed(completed')
    <3>1. \A p \in completed : p \in Phases
      BY <1>1 DEF BooksTyped
    <3>2. completed' = {p \in completed : p < Target}
      BY <2>2, <2>5, <3>1 DEF Outdated
    <3>3. \A p, q \in Phases : q < p /\ p < Target => q < Target
      BY <2>5
    <3>4. idx \notin completed'
      BY <2>4, <2>5, <3>2
    <3>5. QED
      BY <2>2, <2>3, <3>1, <3>2, <3>3, <3>4 DEF FreshSoFar, Closed
  <2>11. FreshSoFar'
    BY <2>2, <2>3, <2>6, <2>9, <2>10 DEF FreshSoFar, Closed
  <2>12. QED
    BY <2>2, <2>11 DEF LinkedIsFresh
<1>15. CASE WriteLedger
  <2>1. SUFFICES ASSUME (run # 0 /\ ledgers[run].linked)'
                 PROVE  LinkedIsFresh'
    BY DEF LinkedIsFresh
  <2>2. /\ at = "ledger" /\ ~ledgers[run].written /\ UNCHANGED <<at, run, records, awaiting, fresh>>
        /\ ledgers' = [ledgers EXCEPT ![run].written = TRUE, ![run].ok = Recorded("ok"),
                                      ![run].reached = @ \cup Recorded("awaiting"), ![run].inherited = inherited]
    BY <1>15 DEF WriteLedger, Recorded, books, ghosts
  <2>3. run \in Runs
    BY <1>1, <2>1, <2>2, EngineFacts DEF RunsTyped, Runs
  <2>4. /\ ledgers'[run].linked = ledgers[run].linked /\ ledgers'[run].written
        /\ ledgers'[run].ok = Recorded("ok") /\ ledgers'[run].reached = ledgers[run].reached \cup Recorded("awaiting")
        /\ ledgers'[run].inherited = inherited
    BY <1>1, <2>2, <2>3 DEF RunsTyped, LedgerState
  <2>5. UpToDate(Done, Reached) /\ (awaiting = 0 => fresh = Phases \/ \E i \in DOMAIN records : records[i].status # "ok")
    BY <1>1, <2>1, <2>2, <2>3, <2>4, EngineFacts DEF LinkedIsFresh, Runs
  <2>6. LedgerDone(run)' = Done /\ ledgers'[run'].reached = Reached
    BY <2>2, <2>4 DEF LedgerDone, Done, Reached, Inherited
  <2>7. UpToDate(LedgerDone(run), ledgers[run].reached)'
    BY <2>2, <2>5, <2>6 DEF UpToDate, Closed
  <2>8. QED
    BY <2>2, <2>4, <2>5, <2>7 DEF LinkedIsFresh, Running
<1>16. QED
  BY <1>1, <1>2, <1>3, <1>4, <1>5, <1>6, <1>7, <1>8, <1>9, <1>10, <1>11, <1>12, <1>13, <1>14, <1>15,
     Kinds DEF EngineInv

-----------------------------------------------------------------------------
(* The theorems.                                                           *)

LEMMA EngineStarts == Init => EngineInv
<1> SUFFICES ASSUME Init PROVE EngineInv
  OBVIOUS
<1>1. /\ history = <<0>> /\ dirty = FALSE /\ artifact = [c \in Checkpoints |-> Unsigned]
      /\ ledgers = [r \in Runs |-> NoLedger] /\ run = 0 /\ at = "idle" /\ parent = 0 /\ idx = 1
      /\ completed = {} /\ inherited = [p \in Phases |-> 0] /\ records = <<>>
      /\ priorInvocations = [p \in Phases |-> NoRows] /\ correctionBudget = [p \in Phases |-> 0]
      /\ attempt = 1 /\ attemptRows = Unbound /\ status = "ok" /\ awaiting = 0 /\ kills = 0
      /\ fresh = {} /\ issued = [p \in Phases |-> <<>>]
  BY DEF Init
<1>2. WorktreeTyped
  <2>1. history \in Seq(0..MaxPhase) /\ Tip = 1
    BY <1>1, EngineFacts DEF Tip
  <2>2. Unsigned \in [run : 0..MaxRuns, candidate : Nat, since : Nat] /\ Unsigned.since = 0
    BY EngineFacts DEF Unsigned
  <2>3. /\ artifact \in [Checkpoints -> [run : 0..MaxRuns, candidate : Nat, since : Nat]]
        /\ \A c \in Checkpoints : artifact[c].since <= 1
    <3> DEFINE none == Unsigned
    <3>1. artifact = [c \in Checkpoints |-> none]
      BY <1>1
    <3>2. none \in [run : 0..MaxRuns, candidate : Nat, since : Nat] /\ none.since = 0
      BY <2>2
    <3> HIDE DEF none
    <3>3. QED
      BY <3>1, <3>2
  <2>4. dirty \in BOOLEAN
    BY <1>1, Zenon
  <2>5. Tip >= 1 /\ \A c \in Checkpoints : artifact[c].since <= Tip
    BY <2>1, <2>3
  <2>6. QED
    BY <2>1, <2>3, <2>4, <2>5 DEF WorktreeTyped
<1>3. RunsTyped
  BY <1>1, EngineFacts, EmptyLedger DEF RunsTyped, Running
<1>4. BooksTyped
  <2>1. NoRows \in RowsState
    BY DEF NoRows, RowsState
  <2>2. \A p \in Phases : 0 <= GateRetry[p]
    BY EngineAssumption
  <2>3. QED
    BY <1>1, <2>1, <2>2, EngineFacts DEF BooksTyped, Points, Running, Statuses
<1>5. RecordsInOrder /\ SignedAhead /\ AttemptOrdinalsUnique /\ LinkedIsFresh
  BY <1>1 DEF RecordsInOrder, SignedAhead, AttemptOrdinalsUnique, LinkedIsFresh, Running
<1>6. OrdinalsCounted
  BY <1>1, EngineFacts DEF OrdinalsCounted, CountedByAttempts, Running
<1>7. QED
  BY <1>2, <1>3, <1>4, <1>5, <1>6 DEF EngineInv

LEMMA EngineContinues == EngineInv /\ [Next]_vars => EngineInv'
<1>1. ASSUME EngineInv, Next PROVE EngineInv'
  BY <1>1, WorktreeStep, RunsStep, BooksStep, RecordsStep, SignedStep, OrdinalsStep, UniqueStep,
     LinkedStep DEF EngineInv
<1>2. ASSUME EngineInv, UNCHANGED vars PROVE EngineInv'
  <2>1. /\ UNCHANGED <<history, dirty, artifact, ledgers, run, at, parent, idx, kills, fresh, issued>>
        /\ UNCHANGED <<completed, inherited, records, priorInvocations, correctionBudget>>
        /\ UNCHANGED <<attempt, attemptRows, status, awaiting>>
    BY <1>2 DEF vars, worktree, books, phase, ghosts
  <2>2. /\ WorktreeTyped /\ RunsTyped /\ BooksTyped
        /\ RecordsInOrder /\ SignedAhead /\ OrdinalsCounted /\ AttemptOrdinalsUnique /\ LinkedIsFresh
    BY <1>2 DEF EngineInv
  <2>3. WorktreeTyped' /\ RunsTyped' /\ BooksTyped' /\ RecordsInOrder' /\ AttemptOrdinalsUnique'
    BY <2>1, <2>2 DEF WorktreeTyped, Tip, RunsTyped, BooksTyped, RecordsInOrder, AttemptOrdinalsUnique
  <2>4. SignedAhead'
    BY <2>1, <2>2, CommitKept DEF SignedAhead
  <2>5. OrdinalsCounted'
    BY <2>1, <2>2 DEF OrdinalsCounted, CountedByBooks, CountedByAttempts, Issued, Ordinal
  <2>6. LinkedIsFresh'
    <3>1. Done' = Done /\ Reached' = Reached /\ LedgerDone(run)' = LedgerDone(run) /\ Inherited' = Inherited
      BY <2>1 DEF Done, Reached, LedgerDone, Recorded, Inherited
    <3>2. QED
      BY <2>1, <2>2, <3>1 DEF LinkedIsFresh, FreshSoFar, UpToDate, Closed
  <2>7. QED
    BY <2>3, <2>4, <2>5, <2>6 DEF EngineInv
<1>3. QED
  BY <1>1, <1>2

LEMMA EngineHolds == Spec => []EngineInv
BY EngineStarts, EngineContinues, PTL DEF Spec

\* Every variable of a run, of its books and of the worktree has its type, in
\* every state of every run, resume and correction (run_workflow).
THEOREM TypeCorrect == Spec => []TypeOK
<1>1. EngineInv => TypeOK
  <2>1. SUFFICES ASSUME EngineInv PROVE TypeOK
    OBVIOUS
  <2>2. WorktreeTyped /\ RunsTyped /\ BooksTyped
    BY <2>1 DEF EngineInv
  <2>3. history \in Seq(0..MaxPhase) /\ Tip >= 1 /\ dirty \in BOOLEAN /\ Tip \in Nat
    BY <2>2 DEF WorktreeTyped, Tip
  <2>4. \A c \in Checkpoints : artifact[c].run \in 0..MaxRuns /\ artifact[c].since \in 0..Tip
    BY <2>2, <2>3 DEF WorktreeTyped
  <2>5. DOMAIN ledgers = Runs /\ run \in 0..MaxRuns /\ parent \in 0..run /\ kills \in 0..MaxKills
    BY <2>2 DEF RunsTyped
  <2>6. at \notin {"idle", "ledger"} /\ awaiting = 0 => at = "loop" \/ idx \in Phases
    BY <2>2 DEF BooksTyped, Points, Running
  <2>7. \A i \in DOMAIN records : records[i].phase \in Phases
    BY <2>2, RecordsTyped
  <2>8. /\ at \in Points /\ idx \in 1..MaxPhase + 1 /\ completed \subseteq Phases
        /\ inherited \in [Phases -> 0..MaxRuns]
        /\ \A p \in Phases : correctionBudget[p] <= GateRetry[p]
        /\ attempt \in 1..MaxAttempts /\ status \in Statuses
        /\ awaiting \in Checkpoints \cup {0} /\ fresh \subseteq Phases
    BY <2>2 DEF BooksTyped
  <2>9. QED
    BY <2>3, <2>4, <2>5, <2>6, <2>7, <2>8 DEF TypeOK
<1>2. QED
  BY <1>1, EngineHolds, PTL

\* No agent works beyond a checkpoint whose latest commit nobody signed
\* (_checkpoint_approval_valid, and what a run skips and commits after it).
THEOREM WorkIsBehindSignatures == Spec => []CheckpointsAreSigned
<1>1. EngineInv => CheckpointsAreSigned
  BY DEF EngineInv, SignedAhead, CheckpointsAreSigned, Running
<1>2. QED
  BY <1>1, EngineHolds, PTL

\* No two invocations of a phase in one run get the same attempt ordinal, over
\* escalations and corrections (execution_count, _retain_and_remove_phase_record).
THEOREM OrdinalsNeverRepeat == Spec => []AttemptOrdinalsUnique
<1>1. EngineInv => AttemptOrdinalsUnique
  BY DEF EngineInv
<1>2. QED
  BY <1>1, EngineHolds, PTL

\* A run that started fresh, or continues the run just before it, succeeds only
\* with every phase passed after the last execution of those before it (what a
\* correction removes from the books, and what a resume takes from a ledger).
THEOREM SuccessIsComplete == Spec => []LinkedSuccessIsComplete
<1>1. EngineInv => LinkedSuccessIsComplete
  <2>1. SUFFICES ASSUME EngineInv, at = "ledger", Outcome = "succeeded", ledgers[run].linked
                 PROVE  fresh = Phases
    BY DEF LinkedSuccessIsComplete
  <2>2. awaiting = 0 /\ \A i \in DOMAIN records : records[i].status = "ok"
    BY <2>1 DEF Outcome
  <2>3. run # 0
    BY <2>1 DEF EngineInv, RunsTyped
  <2>4. fresh = Phases \/ \E i \in DOMAIN records : records[i].status # "ok"
    BY <2>1, <2>2, <2>3 DEF EngineInv, LinkedIsFresh
  <2>5. QED
    BY <2>2, <2>4
<1>2. QED
  BY <1>1, EngineHolds, PTL

-----------------------------------------------------------------------------
(* What the run has paid is on record, or in hand.                         *)

HasRecord(p) == \E i \in DOMAIN records : records[i].phase = p
\* The cost of the phase under way that no record has yet.
InHand ==
    IF idx \notin Agents \/ at \in {"idle", "ledger"} THEN 0
    ELSE IF at = "loop" THEN priorInvocations[idx].cost ELSE attemptRows.cost
Known == CostsOnRecord \cup ({idx} \X (1..InHand))

\* Nothing is retained of a phase before it is corrected, or that is skipped.
NothingElsewhere ==
    at \in Running =>
        /\ \A p \in Agents : p # idx /\ ~HasRecord(p) => priorInvocations[p].cost = 0
        /\ \A p \in completed : priorInvocations[p].cost = 0

\* The rows of the last attempt, which the record of an exception takes over,
\* hold what is retained of the phase the loop is at, and what its record says
\* of the phase a test follows.
LastRows ==
    /\ at = "loop" /\ idx \in Agents => priorInvocations[idx].cost <= attemptRows.cost
    /\ at \in {"loop", "conclude"} /\ idx \in TestPhases /\ idx - 1 \in Agents =>
           \A i \in DOMAIN records : records[i].phase = idx - 1 => records[i].rows.cost <= attemptRows.cost

PaidInv ==
    /\ paid \in Nat /\ IsFiniteSet(CostsOnRecord)
    /\ at # "idle" => paid <= Cardinality(Known)
    /\ NothingElsewhere /\ LastRows

LEMMA CostsTyped ==
    ASSUME BooksTyped
    PROVE  /\ attemptRows.cost \in Nat /\ InHand \in Nat
           /\ \A p \in Phases : priorInvocations[p].cost \in Nat
           /\ \A i \in DOMAIN records : records[i].rows.cost \in Nat
<1>1. attemptRows.cost \in Nat
  BY DEF BooksTyped, RowsState, Unbound
<1>2. \A p \in Phases : priorInvocations[p].cost \in Nat
  <2>1. priorInvocations \in [Phases -> RowsState]
    BY DEF BooksTyped
  <2>2. QED
    BY <2>1 DEF RowsState
<1>3. \A i \in DOMAIN records : records[i].rows.cost \in Nat
  <2>1. \A i \in DOMAIN records : records[i] \in RecordState
    BY RecordsTyped
  <2>2. \A x \in RecordState : x.rows.cost \in Nat
    BY DEF RecordState, RowsState
  <2>3. QED
    BY <2>1, <2>2
<1>4. InHand \in Nat
  BY <1>1, <1>2, EngineFacts DEF InHand
<1>5. QED
  BY <1>1, <1>2, <1>3, <1>4

LEMMA OnRecord ==
    \A x : x \in CostsOnRecord <=> \E i \in DOMAIN records : x \in {records[i].phase} \X (1..records[i].rows.cost)
<1> DEFINE C(i) == {records[i].phase} \X (1..records[i].rows.cost)
<1>1. CostsOnRecord = UNION {C(i) : i \in DOMAIN records}
  BY DEF CostsOnRecord
<1> HIDE DEF C
<1>2. \A x : x \in CostsOnRecord <=> \E i \in DOMAIN records : x \in C(i)
  BY <1>1
<1>3. QED
  BY <1>2 DEF C

\* What the books know of is finite.
LEMMA CostsFinite ==
    ASSUME NEW S, IsFiniteSet(S), NEW p, NEW n \in Nat
    PROVE  IsFiniteSet(S \cup ({p} \X (1..n)))
<1>1. IsFiniteSet({p})
  BY FS_Singleton, Zenon
<1>2. IsFiniteSet(1..n)
  BY FS_Interval
<1>3. IsFiniteSet({p} \X (1..n))
  BY <1>1, <1>2, FS_Product
<1>4. QED
  BY <1>3, FS_Union

\* The costs a phase concludes with go on record.
LEMMA CostsRecorded ==
    ASSUME BooksTyped, at = "conclude", NEW verdict \in {"ok", "awaiting", "failed"}, records' = Result(verdict)
    PROVE  /\ CostsOnRecord' = CostsOnRecord \cup ({idx} \X (1..Rows.cost))
           /\ Known \subseteq CostsOnRecord'
           /\ IsFiniteSet(CostsOnRecord) => IsFiniteSet(CostsOnRecord')
<1>1. /\ DOMAIN records' = DOMAIN records \cup {Len(records) + 1}
      /\ records'[Len(records) + 1].phase = idx /\ records'[Len(records) + 1].rows = Rows
      /\ \A i \in DOMAIN records : records'[i] = records[i]
      /\ Rows \in RowsState /\ (idx \in Agents => Rows.cost = attemptRows.cost)
  BY VerdictRecorded
<1>2. CostsOnRecord' = CostsOnRecord \cup ({idx} \X (1..Rows.cost))
  <2> DEFINE C(r) == {r.phase} \X (1..r.rows.cost)
  <2>1. \A x : x \in CostsOnRecord <=> \E i \in DOMAIN records : x \in C(records[i])
    BY OnRecord
  <2>2. \A x : x \in CostsOnRecord' <=> \E i \in DOMAIN records' : x \in C(records'[i])
    <3> DEFINE E(i) == C(records'[i])
    <3>1. CostsOnRecord' = UNION {E(i) : i \in DOMAIN records'}
      BY DEF CostsOnRecord
    <3> HIDE DEF E
    <3>2. \A x : x \in CostsOnRecord' <=> \E i \in DOMAIN records' : x \in E(i)
      BY <3>1
    <3>3. QED
      BY <3>2 DEF E
  <2>3. C(records'[Len(records) + 1]) = {idx} \X (1..Rows.cost)
    BY <1>1
  <2>4. \A i \in DOMAIN records : C(records'[i]) = C(records[i])
    BY <1>1
  <2> HIDE DEF C
  <2>5. \A x : x \in CostsOnRecord' <=> x \in CostsOnRecord \/ x \in {idx} \X (1..Rows.cost)
    BY <1>1, <2>1, <2>2, <2>3, <2>4
  <2>6. QED
    BY <2>5
<1>3. Known \subseteq CostsOnRecord'
  <2>1. CASE idx \in Agents
    BY <1>1, <1>2, <2>1 DEF Known, InHand
  <2>2. CASE idx \notin Agents
    <3>1. 1..InHand = {}
      BY <2>2 DEF InHand
    <3>2. QED
      BY <1>2, <3>1 DEF Known
  <2>3. QED
    BY <2>1, <2>2
<1>4. Rows.cost \in Nat
  BY <1>1 DEF RowsState
<1>5. QED
  BY <1>2, <1>3, <1>4, CostsFinite

\* To know more is to have paid no more than is known.
LEMMA KnowsMore ==
    ASSUME NEW S, NEW T, S \subseteq T, IsFiniteSet(T), NEW n \in Nat, n <= Cardinality(S)
    PROVE  n <= Cardinality(T)
<1>1. IsFiniteSet(S) /\ Cardinality(S) <= Cardinality(T)
  BY FS_Subset
<1>2. Cardinality(S) \in Nat /\ Cardinality(T) \in Nat
  BY <1>1, FS_CardinalityType
<1>3. QED
  BY <1>1, <1>2

LEMMA CostsTypedNext ==
    ASSUME BooksTyped'
    PROVE  attemptRows'.cost \in Nat /\ InHand' \in Nat
<1>1. attemptRows'.cost \in Nat
  BY DEF BooksTyped, RowsState, Unbound
<1>2. \A p \in Phases : priorInvocations'[p].cost \in Nat
  <2>1. priorInvocations' \in [Phases -> RowsState]
    BY DEF BooksTyped
  <2>2. QED
    BY <2>1 DEF RowsState
<1>3. InHand' \in Nat
  BY <1>1, <1>2, EngineFacts DEF InHand
<1>4. QED
  BY <1>1, <1>3

LEMMA StillPaid ==
    ASSUME BooksTyped', PaidInv, at # "idle", paid' = paid,
           IsFiniteSet(CostsOnRecord)', Known \subseteq Known'
    PROVE  paid' \in Nat /\ paid' <= Cardinality(Known)'
<1>1. IsFiniteSet(Known')
  BY CostsTypedNext, CostsFinite DEF Known
<1>2. paid \in Nat /\ paid <= Cardinality(Known)
  BY DEF PaidInv
<1>3. QED
  BY <1>1, <1>2, KnowsMore

LEMMA PaidStep ==
    ASSUME EngineInv, PaidInv, Next
    PROVE  PaidInv'
<1>1. BooksTyped /\ RecordsInOrder /\ RunsTyped /\ BooksTyped'
  BY BooksStep DEF EngineInv
<1>2. CASE Begins \/ Finishes
  <2>1. /\ records' = <<>> /\ paid' = 0 /\ attemptRows' = Unbound
        /\ priorInvocations' = [p \in Phases |-> NoRows]
    BY <1>2 DEF Begins, Starts, Locals, Finishes, Ends
  <2>2. DOMAIN records' = {} /\ \A p \in Phases : priorInvocations'[p].cost = 0
    BY <2>1 DEF NoRows
  <2>3. IsFiniteSet(CostsOnRecord)' /\ IsFiniteSet(Known)'
    <3>1. CostsOnRecord' = {}
      BY <2>2 DEF CostsOnRecord
    <3>2. IsFiniteSet({})
      BY FS_EmptySet
    <3>3. IsFiniteSet(CostsOnRecord')
      BY <3>1, <3>2
    <3>4. QED
      BY <1>1, <3>3, CostsTypedNext, CostsFinite DEF Known
  <2>4. paid' \in Nat /\ paid' <= Cardinality(Known)'
    <3>1. Cardinality(Known') \in Nat
      BY <2>3, FS_CardinalityType
    <3>2. QED
      BY <2>1, <3>1
  <2>5. NothingElsewhere'
    BY <1>1, <2>2, EngineFacts DEF NothingElsewhere, BooksTyped
  <2>6. LastRows'
    <3>1. attemptRows'.cost = 0
      BY <2>1 DEF Unbound
    <3>2. \A p \in Agents : priorInvocations'[p].cost = 0
      BY <2>2, EngineFacts
    <3>3. idx' \in Agents => priorInvocations'[idx'].cost <= attemptRows'.cost
      BY <3>1, <3>2
    <3>4. QED
      BY <2>2, <3>3 DEF LastRows
  <2>7. QED
    BY <2>3, <2>4, <2>5, <2>6 DEF PaidInv
<1>3. CASE \/ (\E q \in Runs : ResumeRefused(q)) \/ (\E q \in Runs : Sweep(q))
            \/ (\E r \in Runs, c \in Checkpoints : Approve(r, c)) \/ WriteLedger
  <2>1. UNCHANGED <<at, idx, records, priorInvocations, completed, attemptRows, paid>>
    BY <1>3 DEF ResumeRefused, Sweep, Approve, WriteLedger, books, phase, ghosts
  <2>2. UNCHANGED <<CostsOnRecord, Known>>
    BY <2>1 DEF CostsOnRecord, Known, InHand
  <2>3. NothingElsewhere' /\ LastRows'
    BY <2>1 DEF PaidInv, NothingElsewhere, LastRows, HasRecord
  <2>4. QED
    BY <2>1, <2>2, <2>3 DEF PaidInv
<1>4. CASE Concludes \/ LoopEnds \/ BeginAgentPhase \/ Invoke \/ AgentWorks \/ Gates
  <2>1. /\ UNCHANGED <<idx, records, priorInvocations, completed, paid>>
        /\ at \in Running /\ at' # "loop" /\ at' \in Running \cup {"ledger"}
        /\ at' = "conclude" /\ idx \in TestPhases => at = "loop" /\ attemptRows' = attemptRows
    BY <1>1, <1>4, EngineFacts DEF Concludes, LoopEnds, BeginAgentPhase, Invoke, AgentWorks, Gates,
        Running, BooksTyped, books, phase, ghosts, Agents
  <2>2. CostsOnRecord' = CostsOnRecord
    BY <2>1 DEF CostsOnRecord
  <2>3. InHand <= InHand'
    <3>1. InHand \in Nat /\ \A p \in Agents : p \in Phases
      BY <1>1, CostsTyped, EngineFacts
    <3>2. CASE Concludes
      <4>1. attemptRows' = attemptRows /\ at \in Running /\ at' = "conclude" /\ idx' = idx
        BY <3>2 DEF Concludes, books
      <4>2. at = "loop" /\ idx \in Agents => priorInvocations[idx].cost <= attemptRows.cost
        BY DEF PaidInv, LastRows
      <4>3. attemptRows.cost \in Nat
        BY <1>1, CostsTyped
      <4>4. QED
        BY <4>1, <4>2, <4>3 DEF InHand, Running
    <3>3. CASE LoopEnds
      <4>1. idx > MaxPhase /\ idx' = idx
        BY <3>3 DEF LoopEnds
      <4>2. idx \notin Agents /\ idx' \notin Agents
        BY <4>1, EngineFacts DEF Agents, Phases
      <4>3. QED
        BY <4>2 DEF InHand
    <3>4. CASE BeginAgentPhase
      <4>1. idx' = idx /\ at = "loop" /\ at' = "invoke" /\ attemptRows' = priorInvocations[idx]
        BY <3>4 DEF BeginAgentPhase
      <4>2. InHand' = InHand
        BY <4>1 DEF InHand
      <4>3. QED
        BY <3>1, <4>2
    <3>5. CASE Invoke \/ AgentWorks \/ Gates
      <4>1. /\ idx' = idx /\ attemptRows' = attemptRows
            /\ at \notin {"idle", "ledger", "loop"} /\ at' \notin {"idle", "ledger", "loop"}
        BY <3>5 DEF Invoke, AgentWorks, Gates, phase
      <4>2. InHand' = InHand
        BY <4>1 DEF InHand
      <4>3. QED
        BY <3>1, <4>2
    <3>6. QED
      BY <1>4, <3>2, <3>3, <3>4, <3>5
  <2>4. Known \subseteq Known'
    <3>1. 1..InHand \subseteq 1..InHand'
      BY <1>1, <2>3, CostsTyped, CostsTypedNext
    <3>2. QED
      BY <2>1, <2>2, <3>1 DEF Known
  <2>5. paid' \in Nat /\ paid' <= Cardinality(Known)' /\ IsFiniteSet(CostsOnRecord)'
    BY <1>1, <2>1, <2>2, <2>4, StillPaid DEF PaidInv, Running
  <2>6. NothingElsewhere'
    BY <2>1 DEF PaidInv, NothingElsewhere, HasRecord
  <2>7. LastRows'
    BY <2>1 DEF PaidInv, LastRows
  <2>8. QED
    BY <2>5, <2>6, <2>7 DEF PaidInv
<1>5. CASE Skip
  <2>1. /\ UNCHANGED <<records, priorInvocations, completed, attemptRows, paid, at>>
        /\ at = "loop" /\ idx \in completed /\ idx' = idx + 1
    BY <1>5 DEF Skip, phase, ghosts
  <2>2. idx \in Phases /\ idx \in Nat /\ \A p \in Phases : p \in Nat
    BY <1>1, <2>1, EngineFacts DEF BooksTyped
  <2>3. \A i \in DOMAIN records : records[i].phase # idx /\ records[i].phase # idx'
    <3>1. \A i \in DOMAIN records : records[i].phase < idx /\ records[i].phase \in Nat
      BY <1>1, <2>1, Numbers DEF RecordsInOrder, Running
    <3>2. QED
      BY <2>1, <2>2, <3>1
  <2>4. /\ \A p \in Agents : p # idx /\ ~HasRecord(p) => priorInvocations[p].cost = 0
        /\ priorInvocations[idx].cost = 0
    BY <2>1 DEF PaidInv, NothingElsewhere, Running
  <2>5. CostsOnRecord' = CostsOnRecord /\ Known \subseteq Known'
    <3>1. 1..InHand = {}
      BY <2>1, <2>4 DEF InHand
    <3>2. CostsOnRecord' = CostsOnRecord
      BY <2>1 DEF CostsOnRecord
    <3>3. QED
      BY <3>1, <3>2 DEF Known
  <2>6. paid' \in Nat /\ paid' <= Cardinality(Known)' /\ IsFiniteSet(CostsOnRecord)'
    BY <1>1, <2>1, <2>5, StillPaid DEF PaidInv
  <2>7. NothingElsewhere'
    <3>1. \A p \in Agents : ~HasRecord(p) => priorInvocations[p].cost = 0
      BY <2>4
    <3>2. \A p \in completed : priorInvocations[p].cost = 0
      BY <2>1 DEF PaidInv, NothingElsewhere, Running
    <3>3. QED
      BY <2>1, <3>1, <3>2 DEF NothingElsewhere, HasRecord
  <2>8. LastRows'
    <3>1. idx' \in Agents => priorInvocations'[idx'].cost <= attemptRows'.cost
      <4>1. idx' # idx
        BY <2>1, <2>2
      <4>2. idx' \in Agents => priorInvocations[idx'].cost = 0
        BY <2>3, <2>4, <4>1 DEF HasRecord
      <4>3. attemptRows.cost \in Nat
        BY <1>1, CostsTyped
      <4>4. QED
        BY <2>1, <4>2, <4>3
    <3>2. idx' - 1 = idx
      BY <2>1, <2>2
    <3>3. QED
      BY <2>1, <2>3, <3>1, <3>2 DEF LastRows
  <2>9. QED
    BY <2>6, <2>7, <2>8 DEF PaidInv

<1>6. CASE AgentEnds
  <2>1. /\ UNCHANGED <<idx, records, priorInvocations, completed>>
        /\ at \in {"agent", "worked"} /\ at' \in {"invoke", "gates"}
    BY <1>6 DEF AgentEnds, books
  <2>2. PICK cost \in {0, 1} : attemptRows'.cost = attemptRows.cost + cost /\ paid' = paid + cost
    <3>1. PICK outcome \in {"ok", "failed"}, cost \in {0, 1} :
              /\ attemptRows' = [n |-> attemptRows.n + 1, cost |-> attemptRows.cost + cost]
              /\ paid' = paid + cost
      BY <1>6 DEF AgentEnds
    <3>2. attemptRows'.cost = attemptRows.cost + cost
      BY <3>1
    <3>3. QED
      BY <3>1, <3>2
  <2>3. CostsOnRecord' = CostsOnRecord /\ idx \in Agents /\ idx \in Phases
    BY <1>1, <2>1, EngineFacts DEF CostsOnRecord, BooksTyped
  <2>4. /\ InHand = attemptRows.cost /\ InHand' = attemptRows.cost + cost
        /\ attemptRows.cost \in Nat
    BY <1>1, <2>1, <2>2, <2>3, CostsTyped DEF InHand
  <2>5. /\ paid \in Nat /\ IsFiniteSet(CostsOnRecord) /\ paid <= Cardinality(Known)
        /\ IsFiniteSet(Known)
    BY <1>1, <2>1, CostsTyped, CostsFinite DEF PaidInv, Known
  <2>6. \A i \in DOMAIN records : records[i].phase # idx
    BY <1>1, <2>1, Numbers DEF RecordsInOrder, Running
  <2>7. paid' \in Nat /\ paid' <= Cardinality(Known)'
    <3>1. CASE cost = 0
      <4>1. InHand' = InHand /\ paid' = paid
        BY <2>2, <2>4, <2>5, <3>1
      <4>2. Known' = Known
        BY <2>1, <2>3, <4>1 DEF Known
      <4>3. QED
        BY <2>5, <4>1, <4>2
    <3>2. CASE cost = 1
      <4> DEFINE new == <<idx, InHand + 1>>
      <4>1. 1..InHand' = 1..InHand \cup {InHand + 1} /\ InHand + 1 \notin 1..InHand
        BY <2>4, <3>2
      <4>2. Known' = Known \cup {new}
        BY <2>1, <2>3, <4>1 DEF Known
      <4>3. new \notin Known
        <5>1. new \notin CostsOnRecord
          <6>1. \A i \in DOMAIN records : new \notin {records[i].phase} \X (1..records[i].rows.cost)
            BY <2>6
          <6>2. QED
            BY <6>1, OnRecord
        <5>2. new \notin {idx} \X (1..InHand)
          BY <4>1
        <5>3. QED
          BY <5>1, <5>2 DEF Known
      <4> HIDE DEF new
      <4>4. Cardinality(Known') = Cardinality(Known) + 1
        BY <2>5, <4>2, <4>3, FS_AddElement
      <4>5. Cardinality(Known) \in Nat
        BY <2>5, FS_CardinalityType
      <4>6. QED
        BY <2>2, <2>5, <3>2, <4>4, <4>5
    <3>3. QED
      BY <3>1, <3>2
  <2>8. NothingElsewhere' /\ LastRows'
    BY <2>1 DEF PaidInv, NothingElsewhere, LastRows, HasRecord, Running
  <2>9. QED
    BY <2>3, <2>5, <2>7, <2>8 DEF PaidInv
<1>7. CASE Passes
  <2>1. /\ UNCHANGED <<priorInvocations, completed, attemptRows, paid>>
        /\ at = "conclude" /\ at' = "loop" /\ records' = Result("ok") /\ idx' = idx + 1
        /\ idx \in Phases /\ idx \in Nat
    BY <1>1, <1>7, EngineFacts DEF Passes, phase, BooksTyped, Running
  <2>2. /\ DOMAIN records' = DOMAIN records \cup {Len(records) + 1}
        /\ records'[Len(records) + 1].phase = idx /\ records'[Len(records) + 1].rows = Rows
        /\ \A i \in DOMAIN records : records'[i] = records[i]
        /\ idx \in Agents => Rows.cost = attemptRows.cost
    BY <1>1, <2>1, VerdictRecorded
  <2>3. IsFiniteSet(CostsOnRecord)' /\ Known \subseteq Known'
    BY <1>1, <2>1, CostsRecorded DEF PaidInv, Known
  <2>4. paid' \in Nat /\ paid' <= Cardinality(Known)'
    BY <1>1, <2>1, <2>3, StillPaid
  <2>5. \A i \in DOMAIN records : records[i].phase < idx /\ records[i].phase \in Nat
    BY <1>1, <2>1, Numbers DEF RecordsInOrder, Running
  <2>6. /\ \A p \in Agents : p # idx /\ ~HasRecord(p) => priorInvocations[p].cost = 0
        /\ \A p \in completed : priorInvocations[p].cost = 0
    BY <2>1 DEF PaidInv, NothingElsewhere, Running
  <2>7. NothingElsewhere'
    <3>1. ASSUME NEW p \in Agents, ~HasRecord(p)' PROVE priorInvocations[p].cost = 0
      <4>1. p # idx /\ ~HasRecord(p)
        BY <2>2, <3>1 DEF HasRecord
      <4>2. QED
        BY <2>6, <4>1
    <3>2. QED
      BY <2>1, <2>6, <3>1 DEF NothingElsewhere
  <2>8. LastRows'
    <3>1. idx' \in Agents => priorInvocations'[idx'].cost <= attemptRows'.cost
      <4>1. idx' # idx /\ ~HasRecord(idx')
        BY <2>1, <2>5 DEF HasRecord
      <4>2. idx' \in Agents => priorInvocations[idx'].cost = 0
        BY <2>6, <4>1
      <4>3. attemptRows.cost \in Nat
        BY <1>1, CostsTyped
      <4>4. QED
        BY <2>1, <4>2, <4>3
    <3>2. ASSUME idx' - 1 \in Agents, NEW i \in DOMAIN records', records'[i].phase = idx' - 1
          PROVE  records'[i].rows.cost <= attemptRows'.cost
      <4>1. idx' - 1 = idx /\ idx \in Agents
        BY <2>1, <3>2
      <4>2. i = Len(records) + 1
        BY <2>2, <2>5, <3>2, <4>1
      <4>3. attemptRows.cost \in Nat
        BY <1>1, CostsTyped
      <4>4. QED
        BY <2>1, <2>2, <4>1, <4>2, <4>3
    <3>3. QED
      BY <3>1, <3>2 DEF LastRows
  <2>9. QED
    BY <2>3, <2>4, <2>7, <2>8 DEF PaidInv
<1>8. CASE Stops \/ Fails
  <2>1. PICK verdict \in {"awaiting", "failed"} :
            /\ at = "conclude" /\ at' = "ledger" /\ records' = Result(verdict) /\ paid' = paid
    BY <1>8 DEF Stops, Fails
  <2>2. IsFiniteSet(CostsOnRecord)' /\ Known \subseteq Known'
    BY <1>1, <2>1, CostsRecorded DEF PaidInv, Known
  <2>3. paid' \in Nat /\ paid' <= Cardinality(Known)'
    BY <1>1, <2>1, <2>2, StillPaid
  <2>4. NothingElsewhere' /\ LastRows'
    BY <2>1 DEF NothingElsewhere, LastRows, Running
  <2>5. QED
    BY <2>2, <2>3, <2>4 DEF PaidInv
<1>9. CASE Correct
  <2>1. /\ at = "conclude" /\ at' = "loop" /\ idx' = Target /\ completed' = completed \ Outdated
        /\ attemptRows' = attemptRows /\ paid' = paid
    BY <1>9 DEF Correct, phase
  <2>2. /\ idx \in Phases /\ Target \in Agents /\ Target \in Phases /\ Target <= idx
        /\ Target # idx => idx \in TestPhases
        /\ records' = Without(records, Target)
        /\ \A p \in Phases \ {idx, Target} : priorInvocations'[p] = priorInvocations[p]
        /\ idx \in Agents => priorInvocations'[idx].cost = attemptRows.cost
        /\ Target # idx => \A i \in DOMAIN records : records[i].phase = Target =>
                               priorInvocations'[Target].cost = records[i].rows.cost
        /\ Target # idx /\ (\A i \in DOMAIN records : records[i].phase # Target) =>
                               priorInvocations'[Target] = priorInvocations[Target]
    BY <1>1, <1>9, Correction, EngineFacts
  <2>3. /\ \A i \in DOMAIN records' : \E j \in DOMAIN records : records'[i] = records[j] /\ records[j].phase # Target
        /\ \A j \in DOMAIN records : records[j].phase # Target => \E i \in DOMAIN records' : records'[i] = records[j]
    <3>1. records \in Seq(RecordState) /\ OnePerPhase(records)
      BY <1>1 DEF BooksTyped, RecordsInOrder, OnePerPhase
    <3>2. QED
      BY <2>2, <3>1, RecordDropped
  <2>4. /\ \A p \in Agents : p # idx /\ ~HasRecord(p) => priorInvocations[p].cost = 0
        /\ \A p \in completed : priorInvocations[p].cost = 0
    BY <2>1 DEF PaidInv, NothingElsewhere, Running
  <2>5. InHand' = priorInvocations'[Target].cost /\ attemptRows.cost \in Nat
    BY <1>1, <2>1, <2>2, CostsTyped DEF InHand
  <2> DEFINE C(r) == {r.phase} \X (1..r.rows.cost)
  <2>6. /\ \A x : x \in CostsOnRecord <=> \E i \in DOMAIN records : x \in C(records[i])
        /\ \A x : x \in CostsOnRecord' <=> \E i \in DOMAIN records' : x \in C(records'[i])
    <3>1. \A x : x \in CostsOnRecord <=> \E i \in DOMAIN records : x \in C(records[i])
      BY OnRecord
    <3>2. \A x : x \in CostsOnRecord' <=> \E i \in DOMAIN records' : x \in C(records'[i])
      <4> DEFINE E(i) == C(records'[i])
      <4>1. CostsOnRecord' = UNION {E(i) : i \in DOMAIN records'}
        BY DEF CostsOnRecord
      <4> HIDE DEF E
      <4>2. \A x : x \in CostsOnRecord' <=> \E i \in DOMAIN records' : x \in E(i)
        BY <4>1
      <4>3. QED
        BY <4>2 DEF E
    <3>3. QED
      BY <3>1, <3>2
  <2>7. CostsOnRecord' \subseteq CostsOnRecord
    <3> HIDE DEF C
    <3>1. QED
      BY <2>3, <2>6
  <2>8. IsFiniteSet(CostsOnRecord)'
    BY <2>7, FS_Subset DEF PaidInv
  <2>9. Known \subseteq Known'
    <3>1. ASSUME NEW j \in DOMAIN records PROVE C(records[j]) \subseteq Known'
      <4>1. CASE records[j].phase = Target
        <5>1. Target # idx
          BY <1>1, <2>1, <2>2, <4>1, Numbers DEF RecordsInOrder, Running
        <5>2. InHand' = records[j].rows.cost
          BY <2>2, <2>5, <4>1, <5>1
        <5>3. QED
          BY <2>1, <4>1, <5>2 DEF Known
      <4>2. CASE records[j].phase # Target
        <5> HIDE DEF C
        <5>1. PICK i \in DOMAIN records' : records'[i] = records[j]
          BY <2>3, <4>2
        <5>2. QED
          BY <2>6, <5>1 DEF Known
      <4>3. QED
        BY <4>1, <4>2
    <3>2. {idx} \X (1..InHand) \subseteq Known'
      <4>1. CASE idx \in Agents
        <5>1. Target = idx /\ InHand = attemptRows.cost
          BY <2>1, <2>2, <4>1 DEF InHand, Agents
        <5>2. InHand' = InHand
          BY <2>2, <2>5, <4>1, <5>1
        <5>3. QED
          BY <2>1, <5>1, <5>2 DEF Known
      <4>2. CASE idx \notin Agents
        <5>1. 1..InHand = {}
          BY <4>2 DEF InHand
        <5>2. QED
          BY <5>1
      <4>3. QED
        BY <4>1, <4>2
    <3> HIDE DEF C
    <3>3. CostsOnRecord \subseteq Known'
      BY <2>6, <3>1
    <3>4. QED
      BY <3>2, <3>3 DEF Known
  <2>10. paid' \in Nat /\ paid' <= Cardinality(Known)'
    BY <1>1, <2>1, <2>8, <2>9, StillPaid
  <2>11. NothingElsewhere'
    <3>1. ASSUME NEW p \in Agents, p # Target, ~HasRecord(p)' PROVE priorInvocations'[p].cost = 0
      <4>1. p # idx /\ p \in Phases
        BY <2>2, <3>1, EngineFacts DEF Agents
      <4>2. ~HasRecord(p)
        BY <2>3, <3>1 DEF HasRecord
      <4>3. QED
        BY <2>2, <2>4, <3>1, <4>1, <4>2
    <3>2. ASSUME NEW p \in completed' PROVE priorInvocations'[p].cost = 0
      <4>1. p \in completed /\ p \in Phases /\ ~(p >= Target)
        BY <1>1, <2>1 DEF Outdated, BooksTyped
      <4>2. p # Target /\ p # idx
        BY <2>2, <4>1, EngineFacts
      <4>3. QED
        BY <2>2, <2>4, <4>1, <4>2
    <3>3. QED
      BY <2>1, <3>1, <3>2 DEF NothingElsewhere
  <2>12. LastRows'
    <3>1. priorInvocations'[Target].cost <= attemptRows.cost
      <4>1. CASE Target = idx
        BY <2>2, <2>5, <4>1
      <4>2. CASE Target # idx
        <5>1. Target = idx - 1 /\ idx \in TestPhases
          BY <2>2, <4>2 DEF Target
        <5>2. CASE HasRecord(Target)
          <6>1. PICK i \in DOMAIN records : records[i].phase = Target
            BY <5>2 DEF HasRecord
          <6>2. records[i].rows.cost <= attemptRows.cost
            BY <2>1, <2>2, <5>1, <6>1 DEF PaidInv, LastRows
          <6>3. QED
            BY <2>2, <4>2, <6>1, <6>2
        <5>3. CASE ~HasRecord(Target)
          <6>1. priorInvocations'[Target] = priorInvocations[Target]
            BY <2>2, <4>2, <5>3 DEF HasRecord
          <6>2. priorInvocations[Target].cost = 0
            BY <2>2, <2>4, <4>2, <5>3
          <6>3. QED
            BY <2>5, <6>1, <6>2
        <5>4. QED
          BY <5>2, <5>3
      <4>3. QED
        BY <4>1, <4>2
    <3>2. Target \notin TestPhases
      BY <2>2 DEF Agents
    <3>3. QED
      BY <2>1, <3>1, <3>2 DEF LastRows
  <2>13. QED
    BY <2>8, <2>10, <2>11, <2>12 DEF PaidInv
<1>10. QED
  BY <1>1, <1>2, <1>3, <1>4, <1>5, <1>6, <1>7, <1>8, <1>9, Kinds

\* What a run has paid for, executions that were corrected and attempts that
\* were escalated included, is in the one record its ledger has of each phase
\* (_retain_and_remove_phase_record, prior_invocations).
THEOREM CostsStayOnRecord == Spec => []NothingPaidIsForgotten
<1>1. Init => PaidInv
  <2>1. SUFFICES ASSUME Init PROVE PaidInv
    OBVIOUS
  <2>2. records = <<>> /\ paid = 0 /\ at = "idle"
    BY <2>1 DEF Init
  <2>3. IsFiniteSet(CostsOnRecord)
    <3>1. CostsOnRecord = {}
      BY <2>2 DEF CostsOnRecord
    <3>2. QED
      BY <3>1, FS_EmptySet
  <2>4. NothingElsewhere /\ LastRows
    BY <2>2 DEF NothingElsewhere, LastRows, Running
  <2>5. QED
    BY <2>2, <2>3, <2>4 DEF PaidInv
<1>2. EngineInv /\ PaidInv /\ [Next]_vars => PaidInv'
  <2>1. ASSUME EngineInv, PaidInv, UNCHANGED vars PROVE PaidInv'
    <3>1. UNCHANGED <<at, idx, records, priorInvocations, completed, attemptRows, paid>>
      BY <2>1 DEF vars, books, phase, ghosts
    <3>2. UNCHANGED <<CostsOnRecord, Known>>
      BY <3>1 DEF CostsOnRecord, Known, InHand
    <3>3. NothingElsewhere' /\ LastRows'
      BY <2>1, <3>1 DEF PaidInv, NothingElsewhere, LastRows, HasRecord
    <3>4. QED
      BY <2>1, <3>1, <3>2, <3>3 DEF PaidInv
  <2>2. QED
    BY <2>1, PaidStep
<1>3. EngineInv /\ PaidInv => NothingPaidIsForgotten
  <2>1. SUFFICES ASSUME EngineInv, PaidInv, at = "ledger" PROVE
            /\ \A i, j \in DOMAIN records : records[i].phase = records[j].phase => i = j
            /\ Cardinality(CostsOnRecord) >= paid
    BY DEF NothingPaidIsForgotten
  <2>2. Known = CostsOnRecord
    <3>1. 1..InHand = {}
      BY <2>1 DEF InHand
    <3>2. QED
      BY <3>1 DEF Known
  <2>3. paid \in Nat /\ paid <= Cardinality(CostsOnRecord) /\ Cardinality(CostsOnRecord) \in Nat
    BY <2>1, <2>2, FS_CardinalityType DEF PaidInv
  <2>4. QED
    BY <2>1, <2>3 DEF EngineInv, RecordsInOrder
<1>4. QED
  BY <1>1, <1>2, <1>3, EngineHolds, PTL DEF Spec

=============================================================================

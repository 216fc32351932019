------------------------- MODULE RunLifecycleProofs -------------------------
(***************************************************************************)
(* Theorems about RunLifecycle, for any number of promote and abandon      *)
(* commands, journal rows and failures.                                    *)
(***************************************************************************)
EXTENDS RunLifecycle, TLAPS

PromoterState == [at : Steps, key : Keys,
                  receipt : {"none", "completed", "failed", "refused"}]

\* States a row can be in before a promoter has claimed it.
Unclaimed == {"queued", "running", "awaiting_approval", "verifying", "promotable"}

\* A receipt to record is an outcome, and an attempt is inserted behind those on
\* record: what keeps the journal without gaps.
JournalOrder ==
    \A p \in Promoters :
        /\ promoter[p].at \in {"receipt", "record"} => promoter[p].receipt # "none"
        /\ promoter[p].at = "insert" =>
               \A j \in 1..promoter[p].key : j # promoter[p].key => journal[j] # "none"
        /\ promoter[p].at \notin {"idle", "insert"} => journal[promoter[p].key] # "none"

\* While a promoter pushes, the row has left the unclaimed states for good.
PushIsClaimed == \A p \in Promoters : promoter[p].at = "push" => run \notin Unclaimed

\* A promoter that will close the row, or report the push as completed, has
\* seen it land.
CompletedIsOnMain ==
    \A p \in Promoters :
        promoter[p].receipt = "completed" \/ promoter[p].at \in {"close", "closing"} => onMain

\* A row becomes promotable with its events queued.
EventsFirst == run \in {"promotable", "promoting", "merged"} => queued

Inv == /\ TypeOK /\ JournalOrder
       /\ PushIsClaimed /\ CompletedIsOnMain /\ EventsFirst /\ MergedIsOnMain

-----------------------------------------------------------------------------
\* What the transition graph lets a move do.
LEMMA MoveFacts ==
    ASSUME run \in RunStates, NEW s, Move(s)
    PROVE  /\ run' = s
           /\ run \notin Terminal
           /\ s = "promoting" => run = "promotable"
           /\ s = "merged" => run = "promoting"
           /\ s = "promotable" => run \in {"running", "verifying"}
           /\ s = "cancelled" => run \in PreMerge
           /\ s \in Unclaimed => run \in Unclaimed
BY DEF Move, Allowed, Forward, RunStates, Terminal, PreMerge, Unclaimed

\* The states, spelt out; a ledger's outcome is one of them.
LEMMA StatesFacts ==
    /\ RunStates = {"queued", "running", "awaiting_approval", "verifying", "promotable",
                    "promoting", "merged", "projecting", "published", "failed",
                    "cancelled", "quarantined"}
    /\ Outcomes \subseteq RunStates
BY DEF RunStates, Forward, Terminal, Outcomes

\* The first row: the run has been created, nobody else has begun.
LEMMA InitInv == Init => Inv
<1> SUFFICES ASSUME Init PROVE Inv
  OBVIOUS
<1> USE DEF Init
<1>1. TypeOK
  <2>1. 1 \in Keys /\ IdlePromoter \in PromoterState
    BY LifecycleAssumption DEF Keys, Steps, IdlePromoter, PromoterState
  <2>2. promoter \in [Promoters -> PromoterState]
    BY <2>1
  <2>3. journal \in [Keys -> CommandStates]
    BY DEF CommandStates
  <2>4. \A k \in Keys : journal[k] # "none" => \A j \in 1..k : journal[j] # "none"
    OBVIOUS
  <2>5. faults \in 0..MaxFaults
    BY LifecycleAssumption
  <2>6. abandoner \in [Abandoners -> {"idle", "selected"}]
    OBVIOUS
  <2>7. QED
    BY <2>2, <2>3, <2>4, <2>5, <2>6, StatesFacts DEF TypeOK, PromoterState
<1>2. JournalOrder /\ PushIsClaimed /\ CompletedIsOnMain /\ EventsFirst /\ MergedIsOnMain
  BY DEF JournalOrder, PushIsClaimed, CompletedIsOnMain, EventsFirst, MergedIsOnMain, IdlePromoter
<1>3. QED
  BY <1>1, <1>2 DEF Inv

-----------------------------------------------------------------------------
(* Type correctness.                                                       *)

\* A promoter keeps its type through each way its record is assigned.
LEMMA PromoterMoves ==
    ASSUME promoter \in [Promoters -> PromoterState], NEW p \in Promoters
    PROVE  /\ \A s \in Steps : Go(p, s) => promoter' \in [Promoters -> PromoterState]
           /\ Done(p) => promoter' \in [Promoters -> PromoterState]
           /\ \A r \in {"completed", "failed", "refused"} :
                 Receipt(p, r) => promoter' \in [Promoters -> PromoterState]
           /\ AfterReceipt(p) => promoter' \in [Promoters -> PromoterState]
<1>1. \A s \in Steps : Go(p, s) => promoter' \in [Promoters -> PromoterState]
  BY DEF Go, PromoterState
<1>2. IdlePromoter \in PromoterState
  BY LifecycleAssumption DEF IdlePromoter, PromoterState, Steps, Keys
<1>3. Done(p) => promoter' \in [Promoters -> PromoterState]
  BY <1>2 DEF Done
<1>4. \A r \in {"completed", "failed", "refused"} :
        Receipt(p, r) => promoter' \in [Promoters -> PromoterState]
  BY DEF Receipt, PromoterState, Steps
<1>5. AfterReceipt(p) => promoter' \in [Promoters -> PromoterState]
  BY <1>1, <1>3 DEF AfterReceipt, Steps
<1>6. QED
  BY <1>1, <1>3, <1>4, <1>5

\* Moves of the row stay among the run states.
LEMMA MoveType ==
    ASSUME run \in RunStates, NEW s \in RunStates, Move(s) \/ MoveRefused(s)
    PROVE  run' \in RunStates
BY DEF Move, MoveRefused

\* The bound on failures.
LEMMA FaultType ==
    ASSUME faults \in 0..MaxFaults, Fault \/ NoFault
    PROVE  faults' \in 0..MaxFaults
BY LifecycleAssumption DEF Fault, NoFault

\* The orchestrator's and the sweep's steps keep the types.
LEMMA OrchestratorType ==
    ASSUME TypeOK,
           \/ Start \/ ResumeRefused \/ EngineEnds \/ TerminalWrite
           \/ Beat \/ BeatExpires \/ Killed \/ SweepList \/ SweepJudge \/ SweepCancel
           \/ \E a \in Abandoners : Abandon(a)
    PROVE  TypeOK'
<1> USE DEF TypeOK, ledger, sweep, act
<1>1. CASE Start
  BY <1>1, FaultType DEF Start, RecordRunHeartbeat
<1>2. CASE ResumeRefused
  BY <1>2, MoveType, StatesFacts DEF ResumeRefused
<1>3. CASE EngineEnds
  BY <1>3 DEF EngineEnds
<1>4. CASE TerminalWrite
  <2>1. outcome \in RunStates \/ ~Move(outcome)
    BY StatesFacts DEF Move, Allowed, Forward, Terminal, PreMerge
  <2>2. run' \in RunStates
    BY <1>4, <2>1, MoveType DEF TerminalWrite, MoveRefused
  <2>3. queued' \in BOOLEAN
    BY <1>4 DEF TerminalWrite
  <2>4. QED
    BY <1>4, <2>2, <2>3 DEF TerminalWrite
<1>5. CASE Beat
  BY <1>5 DEF Beat, RecordRunHeartbeat
<1>6. CASE BeatExpires
  BY <1>6, FaultType DEF BeatExpires
<1>7. CASE Killed
  BY <1>7, FaultType DEF Killed
<1>8. CASE SweepList
  BY <1>8 DEF SweepList
<1>9. CASE SweepJudge
  BY <1>9 DEF SweepJudge
<1>10. CASE SweepCancel
  BY <1>10, MoveType, StatesFacts DEF SweepCancel
<1>11. CASE \E a \in Abandoners : Abandon(a)
  <2> PICK a \in Abandoners : Abandon(a)
    BY <1>11
  <2>1. CASE AbandonSelect(a)
    BY <2>1 DEF AbandonSelect
  <2>2. CASE AbandonCancel(a)
    BY <2>2, MoveType, StatesFacts DEF AbandonCancel
  <2>3. QED
    BY <2>1, <2>2 DEF Abandon
<1>12. QED
  BY <1>1, <1>2, <1>3, <1>4, <1>5, <1>6, <1>7, <1>8, <1>9, <1>10, <1>11

\* The promoters' steps keep the types; the journal has no gaps because the
\* attempt to insert follows the last one on record.
LEMMA PromoteType ==
    ASSUME TypeOK, JournalOrder, NEW p \in Promoters, Promote(p) \/ PromoterKilled(p)
    PROVE  TypeOK'
<1> DEFINE NoGaps == \A k \in Keys : journal[k] # "none" => \A j \in 1..k : journal[j] # "none"
<1>0. promoter \in [Promoters -> PromoterState]
  BY DEF TypeOK, PromoterState
<1> USE DEF ledger, sweep, act
<1>1. CASE BeginCommand(p)
  <2>1. PICK k \in Keys : promoter' = [promoter EXCEPT ![p] =
                 [at |-> IF journal[k] = "none" THEN "insert" ELSE "claim",
                  key |-> k, receipt |-> "none"]]
    BY <1>1 DEF BeginCommand
  <2>2. promoter' \in [Promoters -> PromoterState]
    BY <1>0, <2>1 DEF PromoterState, Steps
  <2>3. QED
    BY <1>1, <2>2 DEF BeginCommand, TypeOK, PromoterState
<1>2. CASE InsertIntent(p)
  <2>1. promoter' \in [Promoters -> PromoterState]
    BY <1>0, <1>2, PromoterMoves DEF InsertIntent, Steps
  <2>2. promoter[p].key \in Keys
    BY <1>0 DEF PromoterState
  <2>3. journal' \in [Keys -> CommandStates]
    BY <1>2, <2>2 DEF InsertIntent, TypeOK, CommandStates
  <2>4. NoGaps'
    <3>1. CASE journal' = journal
      BY <3>1 DEF TypeOK
    <3>2. CASE journal' = [journal EXCEPT ![promoter[p].key] = "intent"]
      <4>1. \A j \in 1..promoter[p].key : j # promoter[p].key => journal[j] # "none"
        BY <1>2 DEF InsertIntent, JournalOrder
      <4>2. \A j \in Keys : j # promoter[p].key => journal'[j] = journal[j]
        BY <3>2 DEF TypeOK
      <4>3. journal'[promoter[p].key] = "intent"
        BY <2>2, <3>2 DEF TypeOK
      <4>4. SUFFICES ASSUME NEW k \in Keys, journal'[k] # "none", NEW j \in 1..k
                     PROVE  journal'[j] # "none"
        OBVIOUS
      <4>5. j \in Keys
        BY LifecycleAssumption DEF Keys
      <4>6. CASE j = promoter[p].key
        BY <4>3, <4>6
      <4>7. CASE j # promoter[p].key /\ k = promoter[p].key
        BY <4>1, <4>2, <4>5, <4>7
      <4>8. CASE j # promoter[p].key /\ k # promoter[p].key
        BY <4>2, <4>4, <4>5, <4>8 DEF TypeOK
      <4>9. QED
        BY <4>6, <4>7, <4>8
    <3>3. QED
      BY <1>2, <3>1, <3>2 DEF InsertIntent
  <2>5. QED
    BY <1>2, <2>1, <2>3, <2>4 DEF InsertIntent, TypeOK, PromoterState
<1>3. CASE Claim(p)
  <2>1. run' \in RunStates
    BY <1>3, MoveType, StatesFacts DEF Claim, TypeOK
  <2>2. promoter' \in [Promoters -> PromoterState]
    BY <1>0, <1>3, PromoterMoves DEF Claim, Steps
  <2>3. faults' \in 0..MaxFaults
    BY <1>3, FaultType DEF Claim, TypeOK
  <2>4. QED
    BY <1>3, <2>1, <2>2, <2>3 DEF Claim, TypeOK, PromoterState
<1>4. CASE Push(p)
  <2>1. promoter' \in [Promoters -> PromoterState]
    BY <1>0, <1>4, PromoterMoves DEF Push
  <2>2. faults' \in 0..MaxFaults
    BY <1>4, FaultType DEF Push, TypeOK
  <2>3. onMain' \in BOOLEAN
    BY <1>4 DEF Push, TypeOK
  <2>4. QED
    BY <1>4, <2>1, <2>2, <2>3 DEF Push, TypeOK, PromoterState
<1>5. CASE ReceiptRead(p)
  <2>1. promoter' \in [Promoters -> PromoterState]
    BY <1>0, <1>5, PromoterMoves DEF ReceiptRead, Steps
  <2>2. faults' \in 0..MaxFaults
    BY <1>5, FaultType DEF ReceiptRead, TypeOK
  <2>3. QED
    BY <1>5, <2>1, <2>2 DEF ReceiptRead, TypeOK, PromoterState
<1>6. CASE ReceiptWrite(p)
  <2>1. promoter' \in [Promoters -> PromoterState]
    BY <1>0, <1>6, PromoterMoves DEF ReceiptWrite
  <2>2. promoter[p].key \in Keys /\ promoter[p].receipt \in {"completed", "failed", "refused"}
    BY <1>0, <1>6 DEF PromoterState, JournalOrder, ReceiptWrite
  <2>3. journal' \in [Keys -> CommandStates]
    BY <1>6, <2>2 DEF ReceiptWrite, TypeOK, CommandStates
  <2>4. \A j \in Keys : journal[j] # "none" => journal'[j] # "none"
    BY <1>6, <2>2 DEF ReceiptWrite, TypeOK
  <2>5. NoGaps'
    <3>1. SUFFICES ASSUME NEW k \in Keys, journal'[k] # "none", NEW j \in 1..k
                   PROVE  journal'[j] # "none"
      OBVIOUS
    <3>2. j \in Keys
      BY LifecycleAssumption DEF Keys
    <3>3. CASE k = promoter[p].key
      <4>1. journal[k] # "none" => journal[j] # "none"
        BY DEF TypeOK
      <4>2. journal[k] # "none"
        BY <1>6, <3>3 DEF ReceiptWrite, JournalOrder
      <4>3. QED
        BY <2>4, <3>2, <4>1, <4>2
    <3>4. CASE k # promoter[p].key
      BY <1>6, <2>4, <3>1, <3>2, <3>4 DEF ReceiptWrite, TypeOK
    <3>5. QED
      BY <3>3, <3>4
  <2>6. QED
    BY <1>6, <2>1, <2>3, <2>5 DEF ReceiptWrite, TypeOK, PromoterState
<1>7. CASE CloseRead(p)
  <2>1. promoter' \in [Promoters -> PromoterState]
    BY <1>0, <1>7, PromoterMoves DEF CloseRead, Steps
  <2>2. faults' \in 0..MaxFaults
    BY <1>7, FaultType DEF CloseRead, TypeOK
  <2>3. QED
    BY <1>7, <2>1, <2>2 DEF CloseRead, TypeOK, PromoterState
<1>8. CASE CloseWrite(p)
  <2>1. run' \in RunStates
    BY <1>8, MoveType, StatesFacts DEF CloseWrite, TypeOK
  <2>2. promoter' \in [Promoters -> PromoterState]
    BY <1>0, <1>8, PromoterMoves DEF CloseWrite
  <2>3. QED
    BY <1>8, <2>1, <2>2 DEF CloseWrite, TypeOK, PromoterState
<1>9. CASE PromoterKilled(p)
  <2>1. promoter' \in [Promoters -> PromoterState]
    BY <1>0, <1>9, PromoterMoves DEF PromoterKilled
  <2>2. faults' \in 0..MaxFaults
    BY <1>9, FaultType DEF PromoterKilled, TypeOK
  <2>3. QED
    BY <1>9, <2>1, <2>2 DEF PromoterKilled, TypeOK, PromoterState
<1>10. QED
  BY <1>1, <1>2, <1>3, <1>4, <1>5, <1>6, <1>7, <1>8, <1>9 DEF Promote

-----------------------------------------------------------------------------
(* The rest of the invariant.                                              *)

\* What a promoter's own assignment does to it, and that the others keep theirs.
LEMMA PromoterEffects ==
    ASSUME promoter \in [Promoters -> PromoterState], NEW p \in Promoters
    PROVE  /\ \A s : Go(p, s) => promoter'[p] = [promoter[p] EXCEPT !.at = s]
           /\ Done(p) => promoter'[p] = IdlePromoter
           /\ \A r : Receipt(p, r) => promoter'[p] =
                  [at |-> "receipt", key |-> promoter[p].key, receipt |-> r]
           /\ AfterReceipt(p) =>
                  \/ promoter'[p] = IdlePromoter
                  \/ /\ promoter[p].receipt = "completed"
                     /\ promoter'[p] = [promoter[p] EXCEPT !.at = "close"]
           /\ \A q \in Promoters : q # p =>
                  /\ \A s : Go(p, s) => promoter'[q] = promoter[q]
                  /\ Done(p) => promoter'[q] = promoter[q]
                  /\ \A r : Receipt(p, r) => promoter'[q] = promoter[q]
                  /\ AfterReceipt(p) => promoter'[q] = promoter[q]
BY DEF Go, Done, Receipt, AfterReceipt, PromoterState

\* A step of one promoter, as far as the others' facts are concerned.
LEMMA PromoteFrame ==
    ASSUME TypeOK, NEW p \in Promoters, Promote(p) \/ PromoterKilled(p)
    PROVE  \A q \in Promoters : q # p => promoter'[q] = promoter[q]
<1>1. promoter \in [Promoters -> PromoterState]
  BY DEF TypeOK, PromoterState
<1>2. QED
  BY <1>1, PromoterEffects
     DEF Promote, PromoterKilled, BeginCommand, InsertIntent, Claim, Push, ReceiptRead,
         ReceiptWrite, CloseRead, CloseWrite

\* Rows of the journal are never taken back.
LEMMA JournalGrows ==
    ASSUME TypeOK, JournalOrder, NEW p \in Promoters, Promote(p) \/ PromoterKilled(p)
    PROVE  \A k \in Keys : journal[k] # "none" => journal'[k] # "none"
<1>1. CASE ReceiptWrite(p)
  BY <1>1 DEF ReceiptWrite, JournalOrder, TypeOK
<1>2. CASE InsertIntent(p)
  BY <1>2 DEF InsertIntent, TypeOK
<1>3. CASE journal' = journal
  BY <1>3
<1>4. QED
  BY <1>1, <1>2, <1>3
     DEF Promote, PromoterKilled, BeginCommand, Claim, Push, ReceiptRead, CloseRead, CloseWrite

\* A promoter's step keeps its place in the journal.
LEMMA PromoteJournalOrder ==
    ASSUME TypeOK, JournalOrder, NEW p \in Promoters, Promote(p) \/ PromoterKilled(p)
    PROVE  JournalOrder'
<1> DEFINE Ordered(q) ==
        /\ promoter[q].at \in {"receipt", "record"} => promoter[q].receipt # "none"
        /\ promoter[q].at = "insert" =>
               \A j \in 1..promoter[q].key : j # promoter[q].key => journal[j] # "none"
        /\ promoter[q].at \notin {"idle", "insert"} => journal[promoter[q].key] # "none"
<1>0. promoter \in [Promoters -> PromoterState]
  BY DEF TypeOK, PromoterState
<1>1. \A q \in Promoters : promoter[q].key \in Keys
  BY <1>0 DEF PromoterState
<1>2. \A q \in Promoters : \A j \in 1..promoter[q].key : j \in Keys
  BY <1>1, LifecycleAssumption DEF Keys
<1>3. \A q \in Promoters : Ordered(q)
  BY DEF JournalOrder
<1>4. \A k \in Keys : journal[k] # "none" => journal'[k] # "none"
  BY JournalGrows
<1>5. \A q \in Promoters : q # p => Ordered(q)'
  BY <1>1, <1>2, <1>3, <1>4, PromoteFrame
<1>6. Ordered(p)'
  <2>1. CASE BeginCommand(p)
    <3>1. PICK k \in Keys :
            /\ FirstOpen(k)
            /\ promoter' = [promoter EXCEPT ![p] =
                 [at |-> IF journal[k] = "none" THEN "insert" ELSE "claim",
                  key |-> k, receipt |-> "none"]]
      BY <2>1 DEF BeginCommand
    <3>2. promoter'[p] = [at |-> IF journal[k] = "none" THEN "insert" ELSE "claim",
                          key |-> k, receipt |-> "none"]
      BY <1>0, <3>1
    <3>3. \A j \in 1..k : j # k => journal[j] # "none"
      BY <3>1, LifecycleAssumption DEF FirstOpen, OpenKeys, Keys
    <3>4. journal' = journal
      BY <2>1 DEF BeginCommand
    <3>5. QED
      BY <3>2, <3>3, <3>4
  <2>2. CASE InsertIntent(p)
    <3>1. \/ promoter'[p] = IdlePromoter
          \/ promoter'[p] = [promoter[p] EXCEPT !.at = "claim"]
      BY <1>0, <2>2, PromoterEffects DEF InsertIntent
    <3>2. journal'[promoter[p].key] # "none"
      BY <1>1, <2>2 DEF InsertIntent, TypeOK
    <3>3. QED
      BY <1>0, <3>1, <3>2 DEF IdlePromoter, PromoterState
  <2>3. CASE Claim(p)
    <3>1. \/ promoter'[p] = [promoter[p] EXCEPT !.at = "push"]
          \/ promoter'[p] = [at |-> "receipt", key |-> promoter[p].key, receipt |-> "refused"]
      BY <1>0, <2>3, PromoterEffects DEF Claim
    <3>2. promoter[p].at = "claim" /\ journal' = journal
      BY <2>3 DEF Claim
    <3>3. QED
      BY <1>0, <1>3, <3>1, <3>2 DEF PromoterState
  <2>4. CASE Push(p)
    <3>1. \/ promoter'[p] = [at |-> "receipt", key |-> promoter[p].key, receipt |-> "completed"]
          \/ promoter'[p] = [at |-> "receipt", key |-> promoter[p].key, receipt |-> "failed"]
      BY <1>0, <2>4, PromoterEffects DEF Push
    <3>2. promoter[p].at = "push" /\ journal' = journal
      BY <2>4 DEF Push
    <3>3. QED
      BY <1>3, <3>1, <3>2
  <2>5. CASE ReceiptRead(p) \/ ReceiptWrite(p)
    <3>1. \/ promoter'[p] = IdlePromoter
          \/ promoter'[p] = [promoter[p] EXCEPT !.at = "close"]
          \/ promoter'[p] = [promoter[p] EXCEPT !.at = "record"]
      BY <1>0, <2>5, PromoterEffects DEF ReceiptRead, ReceiptWrite
    <3>2. promoter[p].at \in {"receipt", "record"}
      BY <2>5 DEF ReceiptRead, ReceiptWrite
    <3>3. QED
      BY <1>0, <1>1, <1>3, <1>4, <3>1, <3>2 DEF PromoterState, IdlePromoter
  <2>6. CASE CloseRead(p) \/ CloseWrite(p) \/ PromoterKilled(p)
    <3>1. \/ promoter'[p] = IdlePromoter
          \/ promoter[p].at = "close" /\ promoter'[p] = [promoter[p] EXCEPT !.at = "closing"]
      BY <1>0, <2>6, PromoterEffects DEF CloseRead, CloseWrite, PromoterKilled
    <3>2. QED
      BY <1>0, <1>1, <1>3, <1>4, <3>1 DEF PromoterState, IdlePromoter
  <2>7. QED
    BY <2>1, <2>2, <2>3, <2>4, <2>5, <2>6 DEF Promote
<1>7. QED
  BY <1>5, <1>6 DEF JournalOrder

\* A promoter gets to its push by a claim, and no other way.
LEMMA PushComesFromClaim ==
    ASSUME promoter \in [Promoters -> PromoterState], NEW p \in Promoters,
           Promote(p) \/ PromoterKilled(p), promoter'[p].at = "push"
    PROVE  Claim(p)
<1> SUFFICES ASSUME ~Claim(p) PROVE promoter'[p].at # "push"
  OBVIOUS
<1>1. CASE BeginCommand(p)
  <2>1. PICK k \in Keys : promoter' = [promoter EXCEPT ![p] =
            [at |-> IF journal[k] = "none" THEN "insert" ELSE "claim",
             key |-> k, receipt |-> "none"]]
    BY <1>1 DEF BeginCommand
  <2>2. promoter'[p] = [at |-> IF journal[k] = "none" THEN "insert" ELSE "claim",
                        key |-> k, receipt |-> "none"]
    BY <2>1
  <2>3. QED
    BY <2>2
<1>2. CASE InsertIntent(p)
  <2>1. \/ promoter'[p] = IdlePromoter
        \/ promoter'[p] = [promoter[p] EXCEPT !.at = "claim"]
    BY <1>2, PromoterEffects DEF InsertIntent
  <2>2. QED
    BY <2>1 DEF PromoterState, IdlePromoter
<1>3. CASE Push(p)
  <2>1. \E r : promoter'[p] = [at |-> "receipt", key |-> promoter[p].key, receipt |-> r]
    BY <1>3, PromoterEffects DEF Push
  <2>2. QED
    BY <2>1
<1>4. CASE \/ ReceiptRead(p) \/ ReceiptWrite(p) \/ CloseRead(p) \/ CloseWrite(p)
           \/ PromoterKilled(p)
  <2>1. \/ promoter'[p] = IdlePromoter
        \/ promoter'[p] = [promoter[p] EXCEPT !.at = "close"]
        \/ promoter'[p] = [promoter[p] EXCEPT !.at = "record"]
        \/ promoter'[p] = [promoter[p] EXCEPT !.at = "closing"]
    BY <1>4, PromoterEffects
       DEF ReceiptRead, ReceiptWrite, CloseRead, CloseWrite, PromoterKilled
  <2>2. QED
    BY <2>1 DEF PromoterState, IdlePromoter
<1>5. QED
  BY <1>1, <1>2, <1>3, <1>4 DEF Promote

\* What a promoter does to the row: claim it, or close it after its push.
LEMMA PromoteMoves ==
    ASSUME run \in RunStates, NEW p \in Promoters, Promote(p) \/ PromoterKilled(p)
    PROVE  \/ run' = run
           \/ run = "promotable" /\ run' = "promoting"
           \/ run = "promoting" /\ run' = "merged" /\ promoter[p].at = "closing"
BY MoveFacts
   DEF Promote, PromoterKilled, BeginCommand, InsertIntent, Claim, Push, ReceiptRead,
       ReceiptWrite, CloseRead, CloseWrite, MoveRefused

\* A promoter's step keeps the facts about the row, the claim and main.
LEMMA PromoteRow ==
    ASSUME Inv, NEW p \in Promoters, Promote(p) \/ PromoterKilled(p)
    PROVE  (PushIsClaimed /\ CompletedIsOnMain /\ EventsFirst /\ MergedIsOnMain)'
<1>0. promoter \in [Promoters -> PromoterState] /\ run \in RunStates
  BY DEF Inv, TypeOK, PromoterState
<1>1. \A q \in Promoters : q # p => promoter'[q] = promoter[q]
  BY PromoteFrame DEF Inv
<1>2. onMain => onMain'
  BY DEF Promote, PromoterKilled, BeginCommand, InsertIntent, Claim, Push, ReceiptRead,
         ReceiptWrite, CloseRead, CloseWrite, Inv, TypeOK
<1>3. queued' = queued
  BY DEF Promote, PromoterKilled, BeginCommand, InsertIntent, Claim, Push, ReceiptRead,
         ReceiptWrite, CloseRead, CloseWrite, ledger
<1>4. \/ run' = run
      \/ run = "promotable" /\ run' = "promoting"
      \/ run = "promoting" /\ run' = "merged" /\ promoter[p].at = "closing"
  BY <1>0, PromoteMoves
<1>5. EventsFirst'
  BY <1>3, <1>4 DEF Inv, EventsFirst
<1>6. MergedIsOnMain'
  BY <1>2, <1>3, <1>4 DEF Inv, EventsFirst, MergedIsOnMain, CompletedIsOnMain
<1>7. CompletedIsOnMain'
  <2>1. ASSUME promoter'[p].receipt = "completed" \/ promoter'[p].at \in {"close", "closing"}
        PROVE  onMain'
    <3>1. CASE Push(p)
      <4>1. \/ onMain'
            \/ promoter'[p] = [at |-> "receipt", key |-> promoter[p].key, receipt |-> "failed"]
        BY <1>0, <3>1, PromoterEffects DEF Push
      <4>2. QED
        BY <2>1, <4>1
    <3>2. CASE ~Push(p)
      <4>1. \/ promoter'[p] = IdlePromoter
            \/ promoter'[p].receipt \in {"none", "refused"}
               /\ promoter'[p].at \in {"insert", "claim", "receipt"}
            \/ promoter'[p].receipt = promoter[p].receipt
               /\ promoter'[p].at \notin {"close", "closing"}
            \/ promoter[p].receipt = "completed" \/ promoter[p].at \in {"close", "closing"}
        <5>1. CASE BeginCommand(p)
          <6>1. PICK k \in Keys : promoter' = [promoter EXCEPT ![p] =
                    [at |-> IF journal[k] = "none" THEN "insert" ELSE "claim",
                     key |-> k, receipt |-> "none"]]
            BY <5>1 DEF BeginCommand
          <6>2. promoter'[p] = [at |-> IF journal[k] = "none" THEN "insert" ELSE "claim",
                                key |-> k, receipt |-> "none"]
            BY <1>0, <6>1
          <6>3. QED
            BY <6>2
        <5>2. CASE InsertIntent(p)
          <6>1. \/ promoter'[p] = IdlePromoter
                \/ promoter'[p] = [promoter[p] EXCEPT !.at = "claim"]
            BY <1>0, <5>2, PromoterEffects DEF InsertIntent
          <6>2. QED
            BY <1>0, <6>1 DEF PromoterState
        <5>3. CASE Claim(p)
          <6>1. \/ promoter'[p] = [promoter[p] EXCEPT !.at = "push"]
                \/ promoter'[p] = [at |-> "receipt", key |-> promoter[p].key,
                                   receipt |-> "refused"]
            BY <1>0, <5>3, PromoterEffects DEF Claim
          <6>2. QED
            BY <1>0, <6>1 DEF PromoterState
        <5>4. CASE ReceiptRead(p) \/ ReceiptWrite(p)
          <6>1. \/ promoter'[p] = IdlePromoter
                \/ promoter[p].receipt = "completed"
                \/ promoter'[p] = [promoter[p] EXCEPT !.at = "record"]
            BY <1>0, <5>4, PromoterEffects DEF ReceiptRead, ReceiptWrite
          <6>2. QED
            BY <1>0, <6>1 DEF PromoterState
        <5>5. CASE CloseRead(p) \/ CloseWrite(p)
          BY <5>5 DEF CloseRead, CloseWrite
        <5>6. CASE PromoterKilled(p)
          BY <1>0, <5>6, PromoterEffects DEF PromoterKilled
        <5>7. QED
          BY <3>2, <5>1, <5>2, <5>3, <5>4, <5>5, <5>6 DEF Promote
      <4>2. QED
        BY <1>2, <2>1, <4>1 DEF Inv, CompletedIsOnMain, IdlePromoter
    <3>3. QED
      BY <3>1, <3>2
  <2>2. QED
    BY <1>1, <1>2, <2>1 DEF Inv, CompletedIsOnMain
<1>8. PushIsClaimed'
  <2>1. promoter'[p].at = "push" => run' \notin Unclaimed
    <3>1. CASE Claim(p)
      <4>1. \/ run' = "promoting"
            \/ promoter'[p] = [at |-> "receipt", key |-> promoter[p].key, receipt |-> "refused"]
        BY <1>0, <3>1, PromoterEffects DEF Claim, Move
      <4>2. QED
        BY <4>1 DEF Unclaimed
    <3>2. CASE ~Claim(p)
      BY <1>0, <3>2, PushComesFromClaim
    <3>3. QED
      BY <3>1, <3>2
  <2>2. QED
    BY <1>1, <1>4, <2>1 DEF Inv, PushIsClaimed, Unclaimed
<1>9. QED
  BY <1>5, <1>6, <1>7, <1>8

\* Nobody but a promoter touches the promoters, the journal or main, and nobody
\* but the orchestrator the events it owes.
LEMMA OthersFrame ==
    ASSUME \/ Orchestrate \/ Beat \/ BeatExpires \/ Killed \/ Sweep
           \/ \E a \in Abandoners : Abandon(a)
    PROVE  promoter' = promoter /\ journal' = journal /\ onMain' = onMain
BY DEF Orchestrate, Start, ResumeRefused, EngineEnds, TerminalWrite, Beat, BeatExpires, Killed,
       Sweep, SweepList, SweepJudge, SweepCancel, Abandon, AbandonSelect, AbandonCancel, act

\* What the others do to the row: cancel it, or record the run's outcome together
\* with its events.
LEMMA OthersRow ==
    ASSUME Inv,
           \/ Orchestrate \/ Beat \/ BeatExpires \/ Killed \/ Sweep
           \/ \E a \in Abandoners : Abandon(a)
    PROVE  \/ run' = run /\ (queued => queued')
           \/ run' = "cancelled" /\ run \in PreMerge
           \/ queued' /\ Move(outcome) /\ outcome \in Outcomes
<1>1. run \in RunStates
  BY DEF Inv, TypeOK
<1>2. CASE Start \/ EngineEnds \/ Beat \/ BeatExpires \/ Killed \/ SweepList \/ SweepJudge
  BY <1>2 DEF Start, EngineEnds, Beat, BeatExpires, Killed, SweepList, SweepJudge, ledger
<1>3. CASE ResumeRefused \/ SweepCancel
  BY <1>1, <1>3, MoveFacts DEF ResumeRefused, SweepCancel, MoveRefused, ledger
<1>4. CASE TerminalWrite
  <2>1. CASE Move(outcome) /\ queued'
    <3>1. outcome # "none"
      BY <1>1, <2>1 DEF Move, Allowed, Forward, RunStates, Terminal, PreMerge
    <3>2. QED
      BY <2>1, <3>1 DEF Inv, TypeOK
  <2>2. CASE MoveRefused(outcome) /\ queued' = queued
    BY <2>2 DEF MoveRefused
  <2>3. QED
    BY <1>4, <2>1, <2>2 DEF TerminalWrite
<1>5. CASE \E a \in Abandoners : Abandon(a)
  BY <1>1, <1>5, MoveFacts DEF Abandon, AbandonSelect, AbandonCancel, MoveRefused, ledger
<1>6. QED
  BY <1>2, <1>3, <1>4, <1>5 DEF Orchestrate, Sweep

\* The steps of the others keep the rest of the invariant.
LEMMA OthersInv ==
    ASSUME Inv,
           \/ Orchestrate \/ Beat \/ BeatExpires \/ Killed \/ Sweep
           \/ \E a \in Abandoners : Abandon(a)
    PROVE  Inv'
<1>1. TypeOK'
  BY OrchestratorType DEF Inv, Orchestrate, Sweep
<1>2. promoter' = promoter /\ journal' = journal /\ onMain' = onMain
  BY OthersFrame
<1>3. JournalOrder' /\ CompletedIsOnMain'
  BY <1>2 DEF Inv, JournalOrder, CompletedIsOnMain
<1>4. PushIsClaimed' /\ EventsFirst' /\ MergedIsOnMain'
  <2>1. CASE run' = run /\ (queued => queued')
    BY <1>2, <2>1 DEF Inv, PushIsClaimed, EventsFirst, MergedIsOnMain
  <2>2. CASE run' = "cancelled"
    BY <2>2 DEF PushIsClaimed, EventsFirst, MergedIsOnMain, Unclaimed
  <2>3. CASE queued' /\ Move(outcome) /\ outcome \in Outcomes
    <3>1. run' \in Outcomes /\ (run' \in Unclaimed => run \in Unclaimed)
      BY <2>3, MoveFacts DEF Inv, TypeOK
    <3>2. QED
      BY <1>2, <2>3, <3>1 DEF Inv, PushIsClaimed, EventsFirst, MergedIsOnMain, Outcomes
  <2>4. QED
    BY <2>1, <2>2, <2>3, OthersRow
<1>5. QED
  BY <1>1, <1>3, <1>4 DEF Inv

\* Inv is inductive.
LEMMA StepInv == Inv /\ [Next]_vars => Inv'
<1> SUFFICES ASSUME Inv, [Next]_vars PROVE Inv'
  OBVIOUS
<1>1. CASE \/ Orchestrate \/ Beat \/ BeatExpires \/ Killed \/ Sweep
           \/ \E a \in Abandoners : Abandon(a)
  BY <1>1, OthersInv
<1>2. ASSUME NEW p \in Promoters, Promote(p) \/ PromoterKilled(p)
      PROVE  Inv'
  BY <1>2, PromoteType, PromoteJournalOrder, PromoteRow DEF Inv
<1>3. CASE UNCHANGED vars
  BY <1>3 DEF vars, ledger, sweep, act, Inv, TypeOK, JournalOrder, PushIsClaimed,
              CompletedIsOnMain, EventsFirst, MergedIsOnMain
<1>4. QED
  BY <1>1, <1>2, <1>3 DEF Next

\* Every reachable state satisfies Inv.
LEMMA Invariance == Spec => []Inv
BY InitInv, StepInv, PTL DEF Spec

-----------------------------------------------------------------------------
(* The theorems.                                                           *)

\* Every variable keeps its type, and the journal's attempts (promote:<sha>,
\* promote:<sha>#2, ...) are recorded without a gap.
THEOREM TypeCorrect == Spec => []TypeOK
<1>1. Inv => TypeOK
  BY DEF Inv
<1>2. QED
  BY Invariance, <1>1, PTL

\* _default_close_row: a row reads merged only with the commit on main and the
\* run's events queued, however many promoters race, fail or are killed.
THEOREM MergedRowsAreOnMain == Spec => []MergedIsOnMain
<1>1. Inv => MergedIsOnMain
  BY DEF Inv
<1>2. QED
  BY Invariance, <1>1, PTL

\* _default_claim_run excludes a second push until a failed one is on record: a
\* promoter that pushes has moved the row past promotable, and only the retry
\* branch claims a promoting row.
THEOREM OnePushAtATime == Spec => ClaimIsExclusive
<1> DEFINE Exclusive ==
        \A p, q \in Promoters :
           p # q /\ promoter[q].at = "push" /\ promoter[p].at # "push" /\ promoter'[p].at = "push"
               => FailureRecorded
<1>1. Inv /\ [Next]_vars => [Exclusive]_vars
  <2> SUFFICES ASSUME Inv, Next, NEW p \in Promoters, NEW q \in Promoters, p # q,
                      promoter[q].at = "push", promoter[p].at # "push", promoter'[p].at = "push"
               PROVE  FailureRecorded
    OBVIOUS
  <2>1. promoter \in [Promoters -> PromoterState] /\ run \in RunStates
    BY DEF Inv, TypeOK, PromoterState
  <2>2. run # "promotable"
    BY DEF Inv, PushIsClaimed, Unclaimed
  <2>3. Promote(p) \/ PromoterKilled(p)
    <3>1. promoter'[p] # promoter[p]
      OBVIOUS
    <3>2. \E r \in Promoters : Promote(r) \/ PromoterKilled(r)
      BY <3>1, OthersFrame DEF Next
    <3>3. QED
      BY <3>1, <3>2, PromoteFrame DEF Inv
  <2>4. Claim(p)
    BY <2>1, <2>3, PushComesFromClaim
  <2>5. ~Move("promoting")
    BY <2>1, <2>2, MoveFacts
  <2>6. CASE promoter'[p] = [at |-> "receipt", key |-> promoter[p].key, receipt |-> "refused"]
    BY <2>6
  <2>7. QED
    BY <2>1, <2>4, <2>5, <2>6, PromoterEffects DEF Claim
<1>2. QED
  BY Invariance, <1>1, PTL DEF Spec, ClaimIsExclusive

\* runs_terminal_immutable and the transition graph: no process, whatever stale
\* read it acts on, takes a row out of a terminal state or cancels a merged one.
THEOREM TerminalRowsStay == Spec => EndedRowsStay
<1> DEFINE Stays == /\ run \in Terminal => run' = run
                    /\ run \in {"merged", "projecting"} => run' # "cancelled"
<1>1. Inv /\ [Next]_vars => [Stays]_vars
  <2> SUFFICES ASSUME Inv, Next PROVE Stays
    OBVIOUS
  <2>1. run \in RunStates
    BY DEF Inv, TypeOK
  <2>2. CASE \/ Orchestrate \/ Beat \/ BeatExpires \/ Killed \/ Sweep
             \/ \E a \in Abandoners : Abandon(a)
    BY <2>1, <2>2, OthersRow, MoveFacts DEF PreMerge, Terminal
  <2>3. ASSUME NEW p \in Promoters, Promote(p) \/ PromoterKilled(p)
        PROVE  Stays
    BY <2>1, <2>3, PromoteMoves DEF Terminal
  <2>4. QED
    BY <2>2, <2>3 DEF Next
<1>2. QED
  BY Invariance, <1>1, PTL DEF Spec, EndedRowsStay

-----------------------------------------------------------------------------
(* The zombie sweep.                                                       *)

\* A live process has a stale heartbeat, or is taken for a zombie, only after a
\* failure: a heartbeat row is dated stale by its window, and a window without a
\* beat is a failure of a process that lives.
LateBeatsAreFaults ==
    /\ faults \in Nat
    /\ Alive /\ (beat = "stale" \/ sweeper = "zombie") => faults > 0

LEMMA LateBeatsInit == Init => LateBeatsAreFaults
BY DEF Init, LateBeatsAreFaults

LEMMA LateBeatsStep == LateBeatsAreFaults /\ [Next]_vars => LateBeatsAreFaults'
<1> SUFFICES ASSUME LateBeatsAreFaults, [Next]_vars PROVE LateBeatsAreFaults'
  OBVIOUS
<1> USE DEF LateBeatsAreFaults, Alive, ledger, sweep, act, Fault, NoFault
\* The failures are counted up, and a process that has gone does not return.
<1>1. faults' \in Nat /\ faults' >= faults
  BY DEF Next, Orchestrate, Start, ResumeRefused, EngineEnds, TerminalWrite, Beat, BeatExpires, Killed,
         Sweep, SweepList, SweepJudge, SweepCancel, Abandon, AbandonSelect, AbandonCancel, Promote,
         BeginCommand, InsertIntent, Claim, Push, ReceiptRead, ReceiptWrite, CloseRead, CloseWrite,
         PromoterKilled, vars
<1>2. Alive' => Alive
  BY DEF Next, Orchestrate, Start, ResumeRefused, EngineEnds, TerminalWrite, Beat, BeatExpires, Killed,
         Sweep, SweepList, SweepJudge, SweepCancel, Abandon, AbandonSelect, AbandonCancel, Promote,
         BeginCommand, InsertIntent, Claim, Push, ReceiptRead, ReceiptWrite, CloseRead, CloseWrite,
         PromoterKilled, vars
<1>3. CASE BeatExpires
  BY <1>1, <1>3 DEF BeatExpires
<1>4. CASE SweepJudge
  BY <1>1, <1>2, <1>4 DEF SweepJudge, IsZombie
<1>5. CASE (beat' = "stale" => beat = "stale") /\ (sweeper' = "zombie" => sweeper = "zombie")
  BY <1>1, <1>2, <1>5
<1>6. \/ BeatExpires \/ SweepJudge
      \/ (beat' = "stale" => beat = "stale") /\ (sweeper' = "zombie" => sweeper = "zombie")
  BY DEF Next, Orchestrate, Start, ResumeRefused, EngineEnds, TerminalWrite, Beat, RecordRunHeartbeat, Killed,
         Sweep, SweepList, SweepCancel, Abandon, AbandonSelect, AbandonCancel, Promote,
         BeginCommand, InsertIntent, Claim, Push, ReceiptRead, ReceiptWrite, CloseRead, CloseWrite,
         PromoterKilled, vars
<1> QED BY <1>3, <1>4, <1>5, <1>6

\* classify_running_run: the sweep cancels the run of a process that is alive
\* only after a window without a beat, never because there is no heartbeat row
\* yet, whatever else moves the row meanwhile.
THEOREM SweepSparesTheLiving == Spec => LiveRunsAreSpared
<1>1. LateBeatsAreFaults =>
        [Alive /\ sweeper = "zombie" /\ sweeper' = "idle" /\ run' # run => faults > 0]_vars
  BY DEF LateBeatsAreFaults
<1> QED BY <1>1, LateBeatsInit, LateBeatsStep, PTL DEF Spec, LiveRunsAreSpared
=============================================================================

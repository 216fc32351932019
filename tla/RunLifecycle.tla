---------------------------- MODULE RunLifecycle ----------------------------
(***************************************************************************)
(* One run of the control database and everybody who moves its row: the    *)
(* orchestrator that executes it (scripts/run_workflow.py), the zombie     *)
(* sweep (control/run_lifecycle.py), the operator's abandon command        *)
(* (scripts/abandon_run.py) and the promoters that put its candidate on    *)
(* main (scripts/promote.py) under the command journal                     *)
(* (scripts/_command_journal.py).                                          *)
(*                                                                         *)
(* Every write of the row is one BEGIN IMMEDIATE transaction that checks   *)
(* the transition graph (ControlDB.transition_run); what a process decided *)
(* on a read before that transaction may be out of date.                   *)
(***************************************************************************)
EXTENDS Naturals

CONSTANTS
    Promoters,     \* promote commands that may be under way together
    Abandoners,    \* abandon commands
    MaxKeys,       \* journal rows one act may have (99 in the code)
    MaxFaults      \* bound: failures and crashes in a behaviour

ASSUME LifecycleAssumption == MaxKeys \in Nat \ {0} /\ MaxFaults \in Nat

VARIABLES
    run,           \* the state column of the run's row
    orchestrator,  \* the process that executes the run
    outcome,       \* what its ledger says, "none" before it is written
    queued,        \* its knowledge events are in the outbox
    beat,          \* its heartbeat row
    sweeper,       \* the zombie sweep's pass over this run
    abandoner,     \* abandon command -> where it is
    promoter,      \* promote command -> where it is
    journal,       \* attempt of the act -> state of its command row
    onMain,        \* the squash commit is on the remote's base branch
    faults         \* failures so far

ledger == <<orchestrator, outcome, queued>>
sweep  == <<beat, sweeper>>
act    == <<promoter, journal, onMain>>
vars   == <<run, ledger, sweep, abandoner, act, faults>>

Terminal == {"published", "failed", "cancelled", "quarantined"}
Forward == [queued            |-> {"running"},
            running           |-> {"awaiting_approval", "verifying", "promotable"},
            awaiting_approval |-> {"running", "verifying"},
            verifying         |-> {"running", "awaiting_approval", "promotable"},
            promotable        |-> {"promoting"},
            promoting         |-> {"merged"},
            merged            |-> {"projecting"},
            projecting        |-> {"published"}]
RunStates == DOMAIN Forward \cup Terminal
PreMerge == {"queued", "running", "awaiting_approval", "verifying", "promotable", "promoting"}

\* ALLOWED_TRANSITIONS.
Allowed(s) ==
    IF s \in Terminal THEN {}
    ELSE Forward[s] \cup {"failed", "quarantined"}
                    \cup (IF s \in PreMerge THEN {"cancelled"} ELSE {})

\* run_state_from_ledger_state.
Outcomes == {"promotable", "awaiting_approval", "failed", "cancelled"}

Keys == 1..MaxKeys
CommandStates == {"none", "intent", "completed", "failed", "refused"}
Steps == {"idle", "insert", "claim", "push", "receipt", "record", "close", "closing"}
IdlePromoter == [at |-> "idle", key |-> 1, receipt |-> "none"]

TypeOK ==
    /\ run \in RunStates
    /\ orchestrator \in {"starting", "engine", "ended", "gone", "killed"}
    /\ outcome \in Outcomes \cup {"none"}
    /\ queued \in BOOLEAN
    /\ beat \in {"none", "fresh", "stale"}
    /\ sweeper \in {"idle", "listed", "zombie"}
    /\ abandoner \in [Abandoners -> {"idle", "selected"}]
    /\ promoter \in [Promoters -> [at : Steps, key : Keys,
                                   receipt : {"none", "completed", "failed", "refused"}]]
    /\ journal \in [Keys -> CommandStates]
    /\ \A k \in Keys : journal[k] # "none" => \A j \in 1..k : journal[j] # "none"
    /\ onMain \in BOOLEAN
    /\ faults \in 0..MaxFaults

\* The run just created its row (_control_open_run).
Init ==
    /\ run = "running"
    /\ orchestrator = "starting" /\ outcome = "none" /\ queued = FALSE
    /\ beat = "none" /\ sweeper = "idle"
    /\ abandoner = [a \in Abandoners |-> "idle"]
    /\ promoter = [p \in Promoters |-> IdlePromoter]
    /\ journal = [k \in Keys |-> "none"]
    /\ onMain = FALSE
    /\ faults = 0

Fault == faults < MaxFaults /\ faults' = faults + 1
NoFault == UNCHANGED faults

-----------------------------------------------------------------------------
(* transition_run.                                                         *)

\* Mutant: the graph is consulted for the target alone.
MoveUnchecked(s) == run' = s

Move(s) == s \in Allowed(run) /\ run' = s
MoveRefused(s) == s \notin Allowed(run) /\ UNCHANGED run

-----------------------------------------------------------------------------
(* The orchestrator.                                                       *)

Alive == orchestrator \in {"starting", "engine", "ended"}

\* record_run_heartbeat: the row is inserted, or dated anew.
RecordRunHeartbeat == beat' = "fresh"

\* The synchronous seed beat, then the heartbeat thread; a seed that fails is
\* left to the thread.
Start ==
    /\ orchestrator = "starting"
    /\ orchestrator' = "engine"
    /\ \/ RecordRunHeartbeat /\ NoFault
       \/ UNCHANGED beat /\ Fault
    /\ UNCHANGED <<run, outcome, queued, sweeper, abandoner, act>>

\* A resume whose parent cannot be established is refused before it starts.
ResumeRefused ==
    /\ orchestrator = "starting"
    /\ orchestrator' = "gone"
    /\ Move("cancelled") \/ MoveRefused("cancelled")
    /\ UNCHANGED <<outcome, queued, sweep, abandoner, act, faults>>

Beat ==
    /\ orchestrator = "engine" /\ beat # "fresh"
    /\ RecordRunHeartbeat
    /\ UNCHANGED <<run, ledger, sweeper, abandoner, act, faults>>

\* The staleness window passes without a beat: always, once the process is
\* gone; as a failure (a busy database, a stuck host) while it is alive.
BeatExpires ==
    /\ beat = "fresh"
    /\ beat' = "stale"
    /\ IF Alive THEN Fault ELSE NoFault
    /\ UNCHANGED <<run, ledger, sweeper, abandoner, act>>

\* run_workflow returns, the heartbeat thread is stopped, the ledger written.
EngineEnds ==
    /\ orchestrator = "engine"
    /\ orchestrator' = "ended"
    /\ outcome' \in Outcomes
    /\ UNCHANGED <<run, queued, sweep, abandoner, act, faults>>

\* record_terminal_run; a refused transition rolls the queued events back and
\* is only reported.
TerminalWrite ==
    /\ orchestrator = "ended"
    /\ orchestrator' = "gone"
    /\ \/ Move(outcome) /\ queued' = TRUE
       \/ MoveRefused(outcome) /\ UNCHANGED queued
    /\ UNCHANGED <<outcome, sweep, abandoner, act, faults>>

Killed ==
    /\ Alive
    /\ Fault
    /\ orchestrator' = "killed"
    /\ UNCHANGED <<run, outcome, queued, sweep, abandoner, act>>

-----------------------------------------------------------------------------
(* sweep_zombie_runs.                                                      *)

SweepList ==
    /\ sweeper = "idle" /\ run = "running"
    /\ sweeper' = "listed"
    /\ UNCHANGED <<run, ledger, beat, abandoner, act, faults>>

\* Mutant: a run without a heartbeat row counts as dead.
IsZombieIfUnknown(b) == b # "fresh"

\* Mutant: an expired heartbeat is taken for a fresh one.
IsNeverZombie(b) == b = "expired"

\* classify_running_run.
IsZombie(b) == b = "stale"

SweepJudge ==
    /\ sweeper = "listed"
    /\ sweeper' = IF IsZombie(beat) THEN "zombie" ELSE "idle"
    /\ UNCHANGED <<run, ledger, beat, abandoner, act, faults>>

SweepCancel ==
    /\ sweeper = "zombie"
    /\ sweeper' = "idle"
    /\ Move("cancelled") \/ MoveRefused("cancelled")
    /\ UNCHANGED <<ledger, beat, abandoner, act, faults>>

-----------------------------------------------------------------------------
(* abandon_run.                                                            *)

AbandonSelect(a) ==
    /\ abandoner[a] = "idle" /\ run = "promotable"
    /\ abandoner' = [abandoner EXCEPT ![a] = "selected"]
    /\ UNCHANGED <<run, ledger, sweep, act, faults>>

AbandonCancel(a) ==
    /\ abandoner[a] = "selected"
    /\ abandoner' = [abandoner EXCEPT ![a] = "idle"]
    /\ Move("cancelled") \/ MoveRefused("cancelled")
    /\ UNCHANGED <<ledger, sweep, act, faults>>

-----------------------------------------------------------------------------
(* promote: the journal.                                                   *)

Go(p, step) == promoter' = [promoter EXCEPT ![p].at = step]
Done(p) == promoter' = [promoter EXCEPT ![p] = IdlePromoter]
Receipt(p, r) == promoter' = [promoter EXCEPT ![p] =
                     [at |-> "receipt", key |-> @.key, receipt |-> r]]

\* The ledger says every phase is ok: the candidate is verified.
Verified == outcome = "promotable"

\* begin_command looks for the first attempt that is not failed or refused.
OpenKeys == {k \in Keys : journal[k] \notin {"failed", "refused"}}

FirstOpen(k) == k \in OpenKeys /\ \A j \in OpenKeys : k <= j

BeginCommand(p) ==
    /\ promoter[p].at = "idle" /\ Verified
    /\ \E k \in Keys :
          /\ FirstOpen(k)
          /\ journal[k] # "completed"
          /\ promoter' = [promoter EXCEPT ![p] =
                 [at |-> IF journal[k] = "none" THEN "insert" ELSE "claim",
                  key |-> k, receipt |-> "none"]]
    /\ UNCHANGED <<run, ledger, sweep, abandoner, journal, onMain, faults>>

\* record_command_intent: somebody may have taken the key since.  Its second
\* look returns that row, whatever its state; without it the unique index
\* refuses the insert and the command.
InsertIntent(p) ==
    LET k == promoter[p].key
    IN  /\ promoter[p].at = "insert"
        /\ \/ /\ journal[k] = "none"
              /\ journal' = [journal EXCEPT ![k] = "intent"]
              /\ Go(p, "claim")
           \/ /\ journal[k] \notin {"none", "completed"}
              /\ Go(p, "claim")
              /\ UNCHANGED journal
           \/ /\ journal[k] # "none"
              /\ Done(p)
              /\ UNCHANGED journal
        /\ UNCHANGED <<run, ledger, sweep, abandoner, onMain, faults>>

-----------------------------------------------------------------------------
(* promote: the claim, the push, the receipt and the close.                *)

FailureRecorded == \E k \in Keys : journal[k] = "failed"

\* Mutant: a promoting row is claimed again without a recorded failure.
ClaimAnyway(p) ==
    /\ promoter[p].at = "claim" /\ NoFault
    /\ \/ Move("promoting") /\ Go(p, "push")
       \/ run = "promoting" /\ UNCHANGED run /\ Go(p, "push")
       \/ run \notin {"promotable", "promoting"} /\ UNCHANGED run /\ Receipt(p, "refused")
    /\ UNCHANGED <<ledger, sweep, abandoner, journal, onMain>>

\* _default_claim_run, one transaction; a database failure refuses too.
Claim(p) ==
    /\ promoter[p].at = "claim"
    /\ \/ Move("promoting") /\ Go(p, "push") /\ NoFault
       \/ run = "promoting" /\ FailureRecorded /\ UNCHANGED run /\ Go(p, "push") /\ NoFault
       \/ /\ ~(run = "promotable" \/ (run = "promoting" /\ FailureRecorded))
          /\ UNCHANGED run /\ Receipt(p, "refused") /\ NoFault
       \/ Fault /\ UNCHANGED run /\ Receipt(p, "refused")
    /\ UNCHANGED <<ledger, sweep, abandoner, journal, onMain>>

\* git: the squash or the push may be refused, and is once the commit is on
\* main; the reply of a push that landed may be lost.
Push(p) ==
    /\ promoter[p].at = "push"
    /\ \/ ~onMain /\ onMain' = TRUE /\ Receipt(p, "completed") /\ NoFault
       \/ ~onMain /\ onMain' = TRUE /\ Receipt(p, "failed") /\ Fault
       \/ UNCHANGED onMain /\ Receipt(p, "failed") /\ NoFault
    /\ UNCHANGED <<run, ledger, sweep, abandoner, journal>>

\* Mutant: the row is closed whatever the push did.
AfterReceiptAlways(p) == Go(p, "close")

\* What _run_promotion does once the receipt is, or could not be, recorded.
AfterReceipt(p) ==
    IF promoter[p].receipt = "completed" THEN Go(p, "close") ELSE Done(p)

\* finish_command reads the row outside of the transaction that writes it.
\* A row that is not an intent any more, or a failure, only costs a warning.
ReceiptRead(p) ==
    /\ promoter[p].at = "receipt"
    /\ \/ journal[promoter[p].key] = "intent" /\ Go(p, "record") /\ NoFault
       \/ journal[promoter[p].key] # "intent" /\ AfterReceipt(p) /\ NoFault
       \/ Fault /\ AfterReceipt(p)
    /\ UNCHANGED <<run, ledger, sweep, abandoner, journal, onMain>>

ReceiptWrite(p) ==
    /\ promoter[p].at = "record"
    /\ journal' = [journal EXCEPT ![promoter[p].key] = promoter[p].receipt]
    /\ AfterReceipt(p)
    /\ UNCHANGED <<run, ledger, sweep, abandoner, onMain, faults>>

\* _default_close_row: best effort, the push stands.
CloseRead(p) ==
    /\ promoter[p].at = "close"
    /\ \/ run = "promoting" /\ Go(p, "closing") /\ NoFault
       \/ run # "promoting" /\ Done(p) /\ NoFault
       \/ Fault /\ Done(p)
    /\ UNCHANGED <<run, ledger, sweep, abandoner, journal, onMain>>

CloseWrite(p) ==
    /\ promoter[p].at = "closing"
    /\ Move("merged") \/ MoveRefused("merged")
    /\ Done(p)
    /\ UNCHANGED <<ledger, sweep, abandoner, journal, onMain, faults>>

PromoterKilled(p) ==
    /\ promoter[p].at # "idle"
    /\ Fault
    /\ Done(p)
    /\ UNCHANGED <<run, ledger, sweep, abandoner, journal, onMain>>

-----------------------------------------------------------------------------
Orchestrate == Start \/ ResumeRefused \/ EngineEnds \/ TerminalWrite
Sweep == SweepList \/ SweepJudge \/ SweepCancel
Abandon(a) == AbandonSelect(a) \/ AbandonCancel(a)
Promote(p) ==
    \/ BeginCommand(p) \/ InsertIntent(p) \/ Claim(p) \/ Push(p)
    \/ ReceiptRead(p) \/ ReceiptWrite(p) \/ CloseRead(p) \/ CloseWrite(p)

Next ==
    \/ Orchestrate \/ Beat \/ BeatExpires \/ Killed
    \/ Sweep
    \/ \E a \in Abandoners : Abandon(a)
    \/ \E p \in Promoters : Promote(p) \/ PromoterKilled(p)

\* Time passes.
Fairness == WF_vars(BeatExpires)

Spec == Init /\ [][Next]_vars /\ Fairness

-----------------------------------------------------------------------------
\* _default_close_row: a row reads merged only when the squash commit is on
\* main, and its events were queued before that.
MergedIsOnMain == run = "merged" => onMain /\ queued

\* _default_claim_run, "the claim is the mutual-exclusion primitive": nobody
\* begins to push while another promoter is between its claim and the end of its
\* push, unless a failed push of the act is on record.
ClaimIsExclusive ==
    [][\A p, q \in Promoters :
         p # q /\ promoter[q].at = "push" /\ promoter[p].at # "push" /\ promoter'[p].at = "push"
             => FailureRecorded]_vars

\* The sweep cancels a run whose process is still alive only after a whole
\* staleness window without a beat, never for want of a heartbeat row.
LiveRunsAreSpared ==
    [][Alive /\ sweeper = "zombie" /\ sweeper' = "idle" /\ run' # run => faults > 0]_vars

\* runs_terminal_immutable: whoever writes last, a terminal row stays as it is,
\* and a row whose work is on main by the books is never cancelled.
EndedRowsStay ==
    [][/\ run \in Terminal => run' = run
       /\ run \in {"merged", "projecting"} => run' # "cancelled"]_vars

\* The operator's part: the zombie sweep is run again and again, to its end.
SweepsGoOn == WF_vars(Sweep)

\* The row of a killed run does not dangle: if it has a heartbeat row, sweeps
\* take it out of running.
KilledRunsAreClosed ==
    SweepsGoOn => (orchestrator = "killed" /\ run = "running" /\ beat # "none") ~> run # "running"
=============================================================================

--------------------------- MODULE WorkflowEngine ---------------------------
(***************************************************************************)
(* runtime/workflow_runner.py: run_workflow with its gates, corrections,   *)
(* checkpoints and resumes; the part of scripts/run_workflow.py that finds *)
(* out what a resume continues; scripts/approve_workflow.py.               *)
(*                                                                         *)
(* One workflow in one worktree, run and resumed any number of times.      *)
(* Phases are numbered by their position.  A commit is the number of the   *)
(* phase in its subject, 0 for the initial and the approval commits.       *)
(***************************************************************************)
EXTENDS Naturals, Sequences, FiniteSets, SequencesExt

CONSTANTS
    MaxPhase,     \* the number of phases
    TestPhases,   \* phases of kind "test"; the others invoke an agent
    Gated,        \* agent phases with test_gate
    Checkpoints,  \* agent phases with checkpoint: true
    Requiring,    \* agent phases that require artifacts
    GateRetry,    \* phase -> its gate_retry
    MaxAttempts,  \* attempts the escalation plan allows in one execution
    MaxRuns,      \* bound: runs of the workflow
    MaxKills      \* bound: kills of a run

Phases == 1..MaxPhase
Agents == Phases \ TestPhases
Runs   == 1..MaxRuns

ASSUME EngineAssumption ==
    /\ MaxPhase \in Nat \ {0} /\ MaxAttempts \in Nat \ {0} /\ MaxRuns \in Nat /\ MaxKills \in Nat
    /\ TestPhases \subseteq Phases
    /\ Gated \subseteq Agents /\ Checkpoints \subseteq Agents /\ Requiring \subseteq Agents
    /\ GateRetry \in [Phases -> Nat]

VARIABLES
    history,    \* the subjects of the commits, oldest first
    dirty,      \* the worktree holds uncommitted work
    artifact,   \* checkpoint -> its approval artifact
    ledgers,    \* run -> its row and its ledger
    run,        \* the run that is, or was last, under way
    at,         \* where it is
    parent,     \* the run whose ledger it continues, 0 for none
    idx,        \* the phase the loop is at
    completed, inherited, records, priorInvocations, correctionBudget, \* its books
    attempt, attemptRows, status,  \* of the phase under way
    awaiting,   \* the checkpoint the run stops at, 0 for none
    kills,
    fresh,      \* phases whose last execution passed, with no earlier phase executed since
    paid,       \* invocations of this run whose cost came back
    issued      \* phase -> the attempt ordinals given to its invocations in this run

worktree == <<history, dirty>>
books    == <<completed, inherited, records, priorInvocations, correctionBudget>>
phase    == <<attempt, attemptRows, status>>
ghosts   == <<fresh, paid, issued>>
vars     == <<worktree, artifact, ledgers, run, at, parent, idx, books, phase, awaiting, kills, ghosts>>

Points   == {"idle", "loop", "invoke", "agent", "worked", "gates", "conclude", "ledger"}
Statuses == {"ok", "failed", "gate", "refused", "raised"}
\* attempt_rows: how many, and what they cost.  Unbound: the local has no value yet.
NoRows   == [n |-> 0, cost |-> 0]
Unbound  == [n |-> 0, cost |-> 0, unbound |-> TRUE]
NoLedger == [state |-> "none", written |-> FALSE, ok |-> {}, reached |-> {},
             inherited |-> [p \in Phases |-> 0], candidate |-> 0, linked |-> FALSE]
Unsigned == [run |-> 0, candidate |-> 0, since |-> 0]

Tip == Len(history)
\* _phase_commit_sha: the latest commit with the phase's subject.
CommitOf(p) == SelectLastInSeq(history, LAMBDA subject : subject = p)

TypeOK ==
    /\ history \in Seq(0..MaxPhase) /\ Tip >= 1 /\ dirty \in BOOLEAN
    /\ \A c \in Checkpoints : artifact[c].run \in 0..MaxRuns /\ artifact[c].since \in 0..Tip
    /\ DOMAIN ledgers = Runs
    /\ run \in 0..MaxRuns /\ parent \in 0..run /\ at \in Points /\ idx \in 1..MaxPhase + 1
    /\ at \notin {"idle", "ledger"} /\ awaiting = 0 => at = "loop" \/ idx \in Phases
    /\ completed \subseteq Phases /\ inherited \in [Phases -> 0..MaxRuns]
    /\ \A i \in DOMAIN records : records[i].phase \in Phases
    /\ \A p \in Phases : correctionBudget[p] <= GateRetry[p]
    /\ attempt \in 1..MaxAttempts /\ status \in Statuses
    /\ awaiting \in Checkpoints \cup {0} /\ kills \in 0..MaxKills
    /\ fresh \subseteq Phases

Init ==
    /\ history = <<0>> /\ dirty = FALSE
    /\ artifact = [c \in Checkpoints |-> Unsigned]
    /\ ledgers = [r \in Runs |-> NoLedger]
    /\ run = 0 /\ at = "idle" /\ parent = 0 /\ idx = 1
    /\ completed = {} /\ inherited = [p \in Phases |-> 0] /\ records = <<>>
    /\ priorInvocations = [p \in Phases |-> NoRows]
    /\ correctionBudget = [p \in Phases |-> 0]
    /\ attempt = 1 /\ attemptRows = Unbound /\ status = "ok"
    /\ awaiting = 0 /\ kills = 0
    /\ fresh = {} /\ paid = 0 /\ issued = [p \in Phases |-> <<>>]

-----------------------------------------------------------------------------
(* Starting and resuming a run.                                            *)

\* The local variables of run_workflow, as it starts and after it ended.
Locals(done) ==
    /\ idx' = 1
    /\ completed' = done
    /\ records' = <<>>
    /\ priorInvocations' = [p \in Phases |-> NoRows]
    /\ correctionBudget' = [p \in Phases |-> 0]
    /\ attempt' = 1 /\ attemptRows' = Unbound /\ status' = "ok"
    /\ paid' = 0 /\ issued' = [p \in Phases |-> <<>>]

\* The process is gone.
Ends == at' = "idle" /\ parent' = 0 /\ inherited' = [p \in Phases |-> 0] /\ Locals({})

\* Mutant: any signature on the checkpoint's artifact counts.
SignedOnce(c, expected) == artifact[c].since > 0

\* _checkpoint_approval_valid: the artifact is committed, was absent at the
\* checkpoint's commit and names this commit and, where it is known, the run.
Signed(c, expected) ==
    /\ CommitOf(c) # 0
    /\ artifact[c].since > CommitOf(c)
    /\ artifact[c].candidate = CommitOf(c)
    /\ expected \in {0, artifact[c].run}

\* _inherited_entry: the run that a phase completed in the lineage of q comes from.
Origin(q, p) == IF ledgers[q].inherited[p] # 0 THEN ledgers[q].inherited[p] ELSE q

\* The state run_workflow starts with, after the approval contract of every
\* checkpoint that is done or was reached: an unsatisfied one ends the run.
Begin(q, done, reached, linked) ==
    LET Expected(c) == IF q = 0 THEN 0 ELSE Origin(q, c)
        tracked     == Checkpoints \cap (done \cup reached)
        valid       == {c \in tracked : Signed(c, Expected(c))}
        skipped     == done \cup valid
        first       == CHOOSE c \in tracked \ valid : \A d \in tracked \ valid : c <= d
    IN  /\ run' = run + 1 /\ parent' = q
        /\ Locals(skipped)
        /\ \/ /\ valid = tracked
              /\ awaiting' = 0 /\ at' = "loop"
              /\ inherited' = [p \in Phases |-> 0]
              /\ ledgers' = [ledgers EXCEPT ![run + 1].state = "running", ![run + 1].linked = linked]
           \/ /\ valid # tracked
              /\ awaiting' = first /\ at' = "ledger"
              /\ inherited' = [p \in Phases |-> IF q # 0 /\ p \in skipped THEN Origin(q, p) ELSE 0]
              /\ ledgers' = [ledgers EXCEPT ![run + 1].state = "running", ![run + 1].linked = linked,
                                            ![run + 1].reached = tracked \ valid]
        /\ UNCHANGED <<worktree, artifact, kills, fresh>>

StartRun ==
    /\ at = "idle" /\ run = 0 /\ MaxRuns > 0
    /\ Begin(0, {}, {}, TRUE)

\* _CONTINUABLE_RUN_STATES.
Continuable == {r \in 1..run : ledgers[r].state \in {"failed", "cancelled", "awaiting"}}

\* --resume with a parent, named or the only one there is: _load_resume_state.
ResumeLinked(q) ==
    /\ at = "idle" /\ run < MaxRuns
    /\ q \in Continuable /\ ledgers[q].written
    /\ Begin(q, ledgers[q].ok \cup {p \in Phases : ledgers[q].inherited[p] # 0},
             ledgers[q].reached, q = run /\ ledgers[q].linked)

\* The parent left no ledger: the new row is cancelled.
ResumeRefused(q) ==
    /\ at = "idle" /\ run < MaxRuns
    /\ q \in Continuable /\ ~ledgers[q].written
    /\ run' = run + 1
    /\ ledgers' = [ledgers EXCEPT ![run + 1].state = "cancelled"]
    /\ UNCHANGED <<worktree, artifact, at, parent, idx, books, phase, awaiting, kills, ghosts>>

\* _completed_phases; when it finds nothing, _completed_phases_from_index.
Inferred ==
    LET subjects == {p \in Phases : CommitOf(p) # 0}
        written  == {r \in 1..run : ledgers[r].written}
        latest   == CHOOSE r \in written : \A s \in written : s <= r
    IN  IF subjects # {} \/ written = {} THEN subjects ELSE ledgers[latest].ok

\* --resume with no parent linked: none or several runs could be meant.
ResumeInferred ==
    /\ at = "idle" /\ run \in 1..MaxRuns - 1
    /\ Cardinality(Continuable) # 1
    /\ Begin(0, Inferred, {}, FALSE)

\* approve_workflow.py: the artifact, committed on top of the run's candidate.
Approve(r, c) ==
    /\ at = "idle" /\ ledgers[r].state \in {"awaiting", "failed"}
    /\ ledgers[r].candidate = Tip
    /\ artifact' = [artifact EXCEPT ![c] =
                       [run |-> r, candidate |-> Tip, since |-> IF @.since = 0 THEN Tip + 1 ELSE @.since]]
    /\ history' = Append(history, 0)
    /\ UNCHANGED <<dirty, ledgers, run, at, parent, idx, books, phase, awaiting, kills, ghosts>>

-----------------------------------------------------------------------------
(* The phase loop.                                                         *)

\* Mutant: the loop goes on with the same phase.
SkipInPlace == at = "loop" /\ idx \in completed /\ UNCHANGED vars

Skip ==
    /\ at = "loop" /\ idx \in completed
    /\ inherited' = IF parent = 0 THEN inherited
                    ELSE [inherited EXCEPT ![idx] = Origin(parent, idx)]
    /\ idx' = idx + 1
    /\ UNCHANGED <<worktree, artifact, ledgers, run, at, parent, completed, records, priorInvocations,
                   correctionBudget, phase, awaiting, kills, ghosts>>

LoopEnds ==
    /\ at = "loop" /\ idx > MaxPhase
    /\ at' = "ledger"
    /\ UNCHANGED <<worktree, artifact, ledgers, run, parent, idx, books, phase, awaiting, kills, ghosts>>

BeginAgentPhase ==
    /\ at = "loop" /\ idx \in Agents \ completed
    /\ at' = "invoke"
    /\ attemptRows' = priorInvocations[idx] /\ attempt' = 1 /\ status' = "ok"
    /\ UNCHANGED <<worktree, artifact, ledgers, run, parent, idx, books, awaiting, kills, ghosts>>

\* An exception leaves run_workflow: no ledger, and the row stays "running".
Escapes == Ends /\ UNCHANGED <<worktree, artifact, ledgers, run, awaiting, kills, fresh>>

\* The handler of an exception adds up attempt_rows, whatever they are by then;
\* with no value yet, its own exception escapes.
Raise ==
    \/ /\ attemptRows # Unbound
       /\ at' = "conclude" /\ status' = "raised"
       /\ UNCHANGED <<worktree, artifact, ledgers, run, parent, idx, books, attempt, attemptRows, awaiting, kills, ghosts>>
    \/ attemptRows = Unbound /\ Escapes

\* ARTIFACT_MISSING and ARTIFACT_SHAPE are raised before attempt_rows is set.
ArtifactMissing == at = "loop" /\ idx \in Requiring \ completed /\ Raise

TestPhase ==
    /\ at = "loop" /\ idx \in TestPhases \ completed
    /\ status' \in {"ok", "gate", "refused"} /\ at' = "conclude"
    /\ UNCHANGED <<worktree, artifact, ledgers, run, parent, idx, books, attempt, attemptRows, awaiting, kills, ghosts>>

TestPhaseRaises == at = "loop" /\ idx \in TestPhases \ completed /\ Raise

\* phase_admission_scope, of the first and of every escalated attempt.
AdmissionRefused ==
    /\ at = "invoke"
    /\ status' = "refused" /\ at' = "conclude"
    /\ UNCHANGED <<worktree, artifact, ledgers, run, parent, idx, books, attempt, attemptRows, awaiting, kills, ghosts>>

\* Mutant: the ordinal advances by one for every correction.
OrdinalByExecution(p) == correctionBudget[p] + attempt

Ordinal(p) == priorInvocations[p].n + attempt

Invoke ==
    /\ at = "invoke"
    /\ at' = "agent"
    /\ status' = "ok"
    /\ issued' = [issued EXCEPT ![idx] = Append(@, Ordinal(idx))]
    /\ fresh' = {p \in fresh : p < idx}
    /\ UNCHANGED <<worktree, artifact, ledgers, run, parent, idx, books, attempt, attemptRows, awaiting, kills, paid>>

\* The agent works, and may commit; the commit-msg hook sees to the subject.
AgentWorks ==
    /\ at = "agent" /\ at' = "worked"
    /\ \/ dirty' = TRUE /\ UNCHANGED history
       \/ history' = Append(history, idx) /\ dirty' = FALSE
    /\ UNCHANGED <<artifact, ledgers, run, parent, idx, books, phase, awaiting, kills, ghosts>>

\* It returns, or the watchdog finds it stalled (nothing is known of its cost).
\* A failed attempt is tried again as far as the escalation plan goes.
AgentEnds ==
    /\ at \in {"agent", "worked"}
    /\ \E outcome \in {"ok", "failed"}, cost \in {0, 1} :
        /\ outcome = "ok" => cost = 1
        /\ attemptRows' = [n |-> attemptRows.n + 1, cost |-> attemptRows.cost + cost]
        /\ paid' = paid + cost
        /\ \/ /\ outcome = "failed" /\ attempt < MaxAttempts
              /\ attempt' = attempt + 1 /\ at' = "invoke"
           \/ /\ outcome = "ok" \/ attempt = MaxAttempts
              /\ attempt' = attempt /\ at' = "gates"
        /\ status' = outcome
    /\ UNCHANGED <<worktree, artifact, ledgers, run, parent, idx, books, awaiting, kills, fresh, issued>>

\* The call of the agent raises.
AgentRaises == at \in {"agent", "worked"} /\ Raise

\* The gates of an agent phase that has passed so far: the verifier, the deploy,
\* prefix and document gates, the commit of what is left, the timeout of a phase
\* that committed nothing, and the gate against discarded trees.
Gates ==
    /\ at = "gates" /\ at' = "conclude"
    /\ \/ status # "ok" /\ UNCHANGED <<status, worktree>>
       \/ /\ status = "ok" /\ UNCHANGED worktree
          /\ \/ idx \in Gated /\ status' \in {"gate", "refused"}
             \/ status' = "failed"
             \/ ~dirty /\ status' = "ok"
       \/ /\ status = "ok" /\ dirty
          /\ history' = Append(history, idx) /\ dirty' = FALSE
          /\ status' \in {"ok", "failed"}
    /\ UNCHANGED <<artifact, ledgers, run, parent, idx, books, attempt, attemptRows, awaiting, kills, ghosts>>

\* The suite of a gate is run outside the handler.
GateRaises == at = "gates" /\ status = "ok" /\ idx \in Gated /\ Escapes

\* What the phase's record says of its attempts: nothing for a verdict.
Rows == IF idx \in TestPhases /\ status # "raised" THEN NoRows ELSE [n |-> attemptRows.n, cost |-> attemptRows.cost]
Result(verdict) == Append(records, [phase |-> idx, status |-> verdict, rows |-> Rows])

Passes ==
    /\ at = "conclude" /\ status = "ok" /\ idx \notin Checkpoints
    /\ records' = Result("ok")
    /\ fresh' = fresh \cup {idx}
    /\ idx' = idx + 1 /\ at' = "loop"
    /\ UNCHANGED <<worktree, artifact, ledgers, run, parent, completed, inherited, priorInvocations,
                   correctionBudget, phase, awaiting, kills, paid, issued>>

Stops ==
    /\ at = "conclude" /\ status = "ok" /\ idx \in Checkpoints
    /\ records' = Result("awaiting")
    /\ fresh' = fresh \cup {idx}
    /\ awaiting' = idx /\ at' = "ledger"
    /\ UNCHANGED <<worktree, artifact, ledgers, run, parent, idx, completed, inherited, priorInvocations,
                   correctionBudget, phase, kills, paid, issued>>

\* _verification_failure.
VerificationFailure == IF idx \in TestPhases THEN status \in {"gate", "raised"} ELSE status = "gate"
\* The producer a correction re-runs.
Target == IF idx \in TestPhases THEN idx - 1 ELSE idx

CanCorrect ==
    /\ GateRetry[idx] > 0 /\ VerificationFailure
    /\ correctionBudget[idx] < GateRetry[idx]
    /\ Target \in Agents

Fails ==
    /\ at = "conclude" /\ status # "ok" /\ ~CanCorrect
    /\ records' = Result("failed")
    /\ fresh' = fresh \ {idx}
    /\ at' = "ledger"
    /\ UNCHANGED <<worktree, artifact, ledgers, run, parent, idx, completed, inherited, priorInvocations,
                   correctionBudget, phase, awaiting, kills, paid, issued>>

\* _retain_and_remove_phase_record: the last record of the phase, 0 for none, goes.
RecordOf(result, p) == SelectLastInSeq(result, LAMBDA record : record.phase = p)
Without(result, p) == IF RecordOf(result, p) = 0 THEN result ELSE RemoveAt(result, RecordOf(result, p))

\* Mutant: the execution is one more invocation, whatever its rows say.
RetainedAsOne(result, p) == [n |-> priorInvocations[p].n + 1, cost |-> priorInvocations[p].cost]

Retained(result, p) ==
    LET rows == result[RecordOf(result, p)].rows
    IN  IF RecordOf(result, p) = 0 THEN priorInvocations[p]
        ELSE [n |-> IF rows.n > 1 THEN rows.n ELSE 1, cost |-> rows.cost]

\* A correction makes the producer and all that follows it run again.
Outdated == {p \in Phases : p >= Target}

\* Mutant: the ledger goes on naming them as inherited.
AllInherited == inherited

StillInherited == [p \in Phases |-> IF p \in Outdated THEN 0 ELSE inherited[p]]

Correct ==
    /\ at = "conclude" /\ status # "ok" /\ CanCorrect
    /\ LET result == Result("failed")
       IN  /\ records' = Without(Without(result, idx), Target)
           /\ priorInvocations' = [priorInvocations EXCEPT ![idx] = Retained(result, idx),
                                                           ![Target] = Retained(result, Target)]
    /\ correctionBudget' = [correctionBudget EXCEPT ![idx] = @ + 1]
    /\ completed' = completed \ Outdated
    /\ inherited' = StillInherited
    /\ fresh' = fresh \ {idx}
    /\ idx' = Target /\ at' = "loop"
    /\ UNCHANGED <<worktree, artifact, ledgers, run, parent, phase, awaiting, kills, paid, issued>>

\* WorkflowRunResult.state.
Outcome ==
    CASE awaiting # 0                                                  -> "awaiting"
      [] awaiting = 0 /\ \A i \in DOMAIN records : records[i].status = "ok" -> "succeeded"
      [] OTHER                                                         -> "failed"

\* The ledger, and then the terminal row.
WriteLedger ==
    /\ at = "ledger" /\ ~ledgers[run].written
    /\ ledgers' = [ledgers EXCEPT
           ![run].written = TRUE,
           ![run].ok = {records[i].phase : i \in {j \in DOMAIN records : records[j].status = "ok"}},
           ![run].reached = @ \cup {records[i].phase : i \in {j \in DOMAIN records : records[j].status = "awaiting"}},
           ![run].inherited = inherited]
    /\ UNCHANGED <<worktree, artifact, run, at, parent, idx, books, phase, awaiting, kills, ghosts>>

WriteRow ==
    /\ at = "ledger" /\ ledgers[run].written
    /\ ledgers' = [ledgers EXCEPT ![run].state = Outcome, ![run].candidate = Tip]
    /\ Ends
    /\ UNCHANGED <<worktree, artifact, run, awaiting, kills, fresh>>

Kill ==
    /\ at # "idle" /\ kills < MaxKills
    /\ kills' = kills + 1
    /\ Ends
    /\ UNCHANGED <<worktree, artifact, ledgers, run, awaiting, fresh>>

\* The sweep of the dead runs, see RunLifecycle.
Sweep(r) ==
    /\ at = "idle" /\ ledgers[r].state = "running"
    /\ ledgers' = [ledgers EXCEPT ![r].state = "cancelled"]
    /\ UNCHANGED <<worktree, artifact, run, at, parent, idx, books, phase, awaiting, kills, ghosts>>

-----------------------------------------------------------------------------
Engine ==
    \/ Skip \/ LoopEnds \/ BeginAgentPhase \/ ArtifactMissing \/ TestPhase \/ TestPhaseRaises
    \/ AdmissionRefused \/ Invoke \/ AgentWorks \/ AgentEnds \/ AgentRaises \/ Gates \/ GateRaises
    \/ Passes \/ Stops \/ Fails \/ Correct \/ WriteLedger \/ WriteRow

Next ==
    \/ StartRun \/ ResumeInferred
    \/ \E q \in Runs : ResumeLinked(q) \/ ResumeRefused(q) \/ Sweep(q)
    \/ \E r \in Runs, c \in Checkpoints : Approve(r, c)
    \/ Engine \/ Kill

\* A run goes on, and agents end or are found stalled.
Spec == Init /\ [][Next]_vars /\ WF_vars(Engine)

-----------------------------------------------------------------------------
(* Properties.                                                             *)

\* No agent works on a phase that follows a checkpoint unless an operator has
\* signed what that checkpoint's latest commit holds (the approval contract a
\* resume checks before it skips anything).
CheckpointsAreSigned ==
    at \in {"agent", "worked"} =>
        \A c \in Checkpoints : c < idx =>
            artifact[c].candidate = CommitOf(c) /\ artifact[c].since > CommitOf(c)

\* A run that starts fresh, or continues the ledger of the run just before it,
\* and succeeds, leaves no phase whose last execution failed or is older than
\* the last execution of a phase before it: what a correction re-runs is not
\* inherited any more.
LinkedSuccessIsComplete ==
    at = "ledger" /\ Outcome = "succeeded" /\ ledgers[run].linked => fresh = Phases

\* Across escalations and corrections no two invocations of a phase get the
\* same attempt ordinal (execution_count moves past every retained row).
AttemptOrdinalsUnique ==
    \A p \in Phases : \A i, j \in DOMAIN issued[p] : issued[p][i] = issued[p][j] => i = j

\* The ledger of a run has one record per executed phase, and together they
\* carry everything the run has paid, corrected executions included.  What is on
\* record is counted as pairs of a phase and one of its units of cost.
CostsOnRecord == UNION {{records[i].phase} \X (1..records[i].rows.cost) : i \in DOMAIN records}
NothingPaidIsForgotten ==
    at = "ledger" =>
        /\ \A i, j \in DOMAIN records : records[i].phase = records[j].phase => i = j
        /\ Cardinality(CostsOnRecord) >= paid

\* Every run comes to an end: corrections and escalations are bounded.
RunsEnd == at # "idle" ~> at = "idle"

\* "one bad phase must not crash the runner" (workflow_runner.py).
NoPhaseCrashesTheRunner ==
    kills = 0 /\ at = "idle" => \A r \in Runs : ledgers[r].state # "running"
=============================================================================

# Agentic dynamics: a TLA+ development of the control plane

This directory holds TLA+ models of the control plane of agentic-dynamics, TLC
configurations that check them on small instances, and TLAPS proofs of the
properties that matter most. The models are translated from the code; `PROJECT.json`
names, for every definition, the lines it stands for.

## The system and its parts

A *workflow run* executes phases with an agent backend, on money and on slots that are
leased to it. What it produced is put on main by a separate, verified command, and the
website is published from there. Most parts are short-lived processes that share two
stores: Redis (leases, queues, the knowledge stream) and an SQLite *control database*.

| Part | Code | State | Operations | What is hard about it |
|---|---|---|---|---|
| Lease registry | `control/lease_registry.py` | a hash per scope, an index hash, caps, key TTLs | reserve, release, expire, set cap | optimistic transactions of many processes, retries, lost replies, expiry |
| Admission gate | `control/admission.py`, `core/admission_context.py` | leases of an admission, the context a run carries | admit, unwind, require, verify, release | several reservations of which one may fail; a context nobody re-checks |
| Lease watchdog | `control/lease_watchdog.py` | flags file, quarantine ledger | sweep, flag, quarantine | sweeps remove before they report |
| Quarantine ledger | `control/quarantine.py` | append-only file, Redis mirror | quarantine, lift | read, then append |
| Control database | `control/control_db.py` | runs, transitions, heartbeats, commands, outbox, receipts, watermarks | transition, journal, mark, record | decisions on reads made before the transaction |
| Outbox | `control/outbox.py` | rows with status, attempts, next retry | queue, drain, deliver, give up | two drains on a row; crash between publish and mark |
| Run lifecycle | `control/run_lifecycle.py` | heartbeat rows | beat, sweep zombies | a slow run looks like a dead one |
| Workflow engine | `runtime/workflow_runner.py` | phases, attempts, verdicts of one run; its worktree | execute, escalate, gate, correct, checkpoint | three ways back, inherited verdicts, exceptions in between |
| Workflow command | `scripts/run_workflow.py`, `scripts/approve_workflow.py` | the run's row and ledger, approvals | open, beat, resume, terminal write, approve | may be killed anywhere; a resume trusts what it finds |
| Promotion | `scripts/promote.py`, `scripts/_command_journal.py` | the run's row, command rows, git main | journal, claim, push, receipt, close | two promoters; a push whose reply is lost |
| Abandonment | `scripts/abandon_run.py` | the run's row | select, cancel | acts on a listing |
| Publication | `scripts/publish_release.py`, `control/publication.py` | two hosts, command rows, receipts, deployment rows | gate, build, check, deploy, record, look | two hosts in turn, overlapping publications, records after the fact |
| Knowledge stream | `knowledge/knowledge_stream.py`, `scripts/kb_worker.py` | Redis stream, pending entries, dead letters, graph | publish, read, claim, handle, acknowledge | redelivery, poisoned entries, slow workers |
| Projection watermarks | `control/projection_watermarks.py` | a row for each projection | read position, record | three reads of a moving stream in one row |
| Story queue | `scripts/worker.py`, `scripts/enqueue.py`, `control/queue_reinterleave.py`, `scripts/fleet/dlq.py` | two lanes, dead letters, slots | fill, pop, execute, requeue, reorder, return | a popped job has one copy; read-then-rewrite |
| Fleet queue | `scripts/fleet/fleet_manager.py`, `scripts/fleet/spawn_wrapper.py` | command and processing lists, job board, request keys | submit, claim, dispatch, recover, sweep | crash with a command in hand; retried submits |

They meet as follows. The fleet manager queues a submit, the wrapper claims it and starts
a container with `run_workflow.py`, which opens a row in the control database, beats while
the engine works, and asks the admission gate for leases for every phase. Backends call
`require_admission`. The watchdog reclaims what expired. When the engine is through, one
transaction moves the row and queues the run's knowledge events; the same process, and
an operator's command, drain the outbox to the knowledge stream. Consumer groups project
the stream into stores and record how far they are, which the publication command takes
as its gate. `promote.py` claims the row, pushes, and closes it. The zombie sweep and
`abandon_run.py` cancel rows meanwhile. Experiments take a second way: cells are filled
into the story queue and executed by workers that reserve slots in the same registry.

What makes each part correct: the registry never grants past a cap and never loses a
lease; a context in force is backed by it; whatever a run leaves behind is reclaimed;
an event marked delivered is on the stream, and every queued one is settled; an
acknowledged entry is projected, dead-lettered or a fact; a watermark never promises more than
was acknowledged; a row is merged only with its commit on main, by one promoter at a
time, and an ended row stays; a request starts one container and is never lost; nothing
runs past an unsigned checkpoint, and a run that succeeds has all of its phases; hosts
that differ are reported.
`PROJECT.json` lists under `hazards` what can go wrong, line by line.

## The modules

| Module | Models | EXTENDS / INSTANCE |
|---|---|---|
| `LeaseBook` | leases, expiry, totals | |
| `AtomicLeases` | the promise: a registry whose calls are single steps | `LeaseBook` |
| `LeaseRegistry` | the registry on Redis | `LeaseBook`, instance of `AtomicLeases` |
| `AdmissionGate` | admission, context, watchdog | `LeaseBook`, instance of `AtomicLeases` |
| `EventDelivery` | the promise: a table of events on which each decision is one step | |
| `Outbox` | the transactional outbox | instance of `EventDelivery` |
| `RunLifecycle` | one run's row and all who move it | |
| `WorkflowEngine` | the phase loop of successive runs in a worktree, their ledgers, resumes and approvals | |
| `KnowledgeStream` | the stream, one consumer group and its workers | |
| `ProjectionWatermarks` | the recorded positions of that group | `KnowledgeStream` |
| `RequestDesk` | the promise: a desk that takes a request once and answers it | |
| `FleetQueue` | manager, wrapper, board and lanes of the fleet | instance of `RequestDesk` |
| `WorkQueue` | lanes, fills, workers, reordering and dead letters of the story queue | |
| `Publication` | overlapping publications to two hosts | |
| `LeaseRegistryProofs`, `AdmissionGateProofs`, `RunLifecycleProofs`, `OutboxProofs`, `FleetQueueProofs`, `WorkflowEngineProofs`, `WorkQueueProofs` | theorems | the module of that name, `TLAPS` |
| `DownstreamProofs` | theorems about the stream, its watermarks and the publication they gate | `ProjectionWatermarks`, `Publication`, `TLAPS` |
| `MC...` | TLC instances (`RunLifecycle` needs none) | the module of that name |

Operators called `...Anyway`, `...Always` and the like, each below a comment that begins
with `Mutant:`, are faulty variants of the definition that follows them. They are used
by no specification; each property is checked to fail when one of them takes the place
of the original.

**LeaseRegistry.** `hash`, `index`, `cap` and `keyExpiry` are the Redis keys and their
TTLs; `call[c]` holds the locals of the operation client `c` is in. Each operation is
the code's WATCH / read / MULTI / EXEC loop: `...Read` takes the snapshot, `...Commit`
is the EXEC and possible only while no watched key has been written (`dirty`),
`ExecRefused` is the `WatchError` branch. `reply = FALSE` is an EXEC whose reply is
lost. Redis removes empty hashes and expired keys (`Tick`). Payloads are never changed
once granted and are kept in `leaseOf`.

**AdmissionGate** uses the atomic registry, which the refinement justifies. A run goes
through `phase`: reservations one by one in the code's order, unwind on refusal, the
body of `with admitted(...)`, and the release loop. `_release_all` goes on after an
error, `release` does not: `UnwindFails` and `ReleaseFails`. `context` is the
`LeaseContext` made at the end of `admit`. It is carried by the body it is bound for and,
where a process was started inside of the block (`Spawn`) or a fill put it into a queued
job (`HandOver`), by an heir (`inherited`), which no release ends: `ContextIsLive`, that
is `require_admission`, asks only whether somebody carries it and whether it has expired;
`Verifies` is `verify`, which asks the registry. The gate is armed. The watchdog's pass is
its own process: one transaction for each scope, then flag and quarantine one lease at a
time. Prices and policies are one nondeterministic refusal.

**Outbox.** `pass[d].rows` is the snapshot `pending_outbox_events` returned, with the
attempts of that moment; nothing locks a row, so passes overlap. The points of a pass
are the calls of `_attempt`, between which a process may fail or die. Writing the
artifact is two steps, because `write_bytes` empties the file before it writes: on a
redelivery the artifact is gone in between, and stays gone (`torn`) when the pass is
stopped there, until some pass writes it again. `wait` counts the
ticks to `next_retry_at`. Payloads are told apart by whether they can be read, rebuilt,
and ask for a checkpoint. `EventDelivery` is what it promises: it has no passes and no
snapshots, only the state of an event, the attempts charged to it and the stream.

**RunLifecycle.** `run` is the state column, moved by `Move`/`MoveRefused`
(`transition_run`). A decision taken on an earlier read is a step of its own: the
sweep's list, judgement and cancellation, the abandon command's selection and
cancellation, the receipt's check and its UPDATE, the close's read and write. The claim
is one transaction in the code and one step here. A push may be refused by git, and may
land while its reply is lost. The checks that precede the journal only refuse; a
promoter that does not begin stands for them. The local base branch is not moved by a
push, so the stale-candidate guard does not exclude a second attempt.

**KnowledgeStream.** Entries are numbered as they are added; `delivered` is the group's
position, `pending` its unacknowledged entries with their delivery counts (`times`) and
idle time. A worker is at one call of `process_batch` and `process_entry`: claim, read,
handle, acknowledge, dead-letter; `batch` is what it has in hand, handled in the order of
the ids. A claim takes what has been idle for the lease,
whoever holds it. `DeliveryCount` sees the first `ClaimBatch` pending entries only, as
`delivery_count` does. `Poisoned` entries fail in the handler, `Garbled` ones in
`decode_event`, which raises for the whole batch. For `Facts` the handler of the graph
returns at once: they are acknowledged and never projected. The graph keeps versions and their
lifecycle.

**ProjectionWatermarks** extends the stream with reporters, the workers themselves and
pollers. `read_position` is three steps, `record_position` and `record_error` are the
writes of the row; nothing is locked in between.

**FleetQueue.** Commands are numbered as they are submitted; the lanes hold numbers.
`wrapper` is the main thread in its loop or its recovery, `thread[c]` the dispatch of a
claim by the pool. Every Redis call of the wrapper may raise, and the two places where
nothing catches it end the loop or leave a claim (`LoopRaises`, `DispatchRaises`). The
move to the processing lane may happen without its reply. `RequestDesk` is what it
promises the caller of a submit with a key: `StageOf`, `ContainersOf` and `AnswerOf` say
what lanes, threads, recoveries and rows amount to for one key. Submits without a key
are not part of the promise; the observations below say why.

**WorkflowEngine.** One worktree, runs one after the other. A phase goes through
`Points`; `attemptRows` is the local of that name, unbound included; `execution_count`,
correction budget, inherited phases and the records of the ledger are kept as counts and
sets. `Gates` stands for the verification, contract and commit gates of an agent phase
by their verdict. A resume finds a linked parent with a ledger, is refused, or infers
completed phases from commits. Costs are counted in attempts; what the records of a run
hold of them is the cardinality of a set of (phase, unit) pairs (`CostsOnRecord`), as
there is one record for a phase.

**WorkQueue.** Lanes are sequences in the order of the pops. `worker[w]` is a turn of the
loop: pop, slots one by one, execution, filing, release. A refused or unanswered
reservation is a denial and puts the cell back (`Denied`, `Requeue`); a registry that
cannot be reached at all raises before the attempts that are turned into denials, and the
cell is filed (`NoRegistry`). `stray` counts slots nobody will release before they
expire. `owed` and `overwritten` are history: the cells the queue is answerable for, from
a push until they are done or the operator clears them, and those a rewrite of the lane
has left out. `ReinterleaveCells` and `InterleaveCells` are the reorderings themselves.

**Publication.** `pub[p]` is one run of the command with its `options`, `host` what each
site serves, `journal` the command rows of each commit, `released` history. A data.js is
the version of the corpus it was built from, and its digest is that version.
A publication with `--no-post-deploy-check` ends as `unchecked`: the command prints
`published` and exits with 0 for it too, but says on the way that nobody looked, and
`DriftIsReported` takes the word of those that did. Hosts are compared by their data.js.

## What TLC checks

Passing runs:

| Run | Instance | Properties |
|---|---|---|
| `lease_safety` | 2 clients, 3 leases, 1 scope, caps to 2, TTL 2, 2 attempts | `NoOversubscription`, `AuditReplay`, `EveryLeaseIndexed`, `HeldUntilExpiry`, `CollectedOnce` |
| `lease_refinement` | 2 clients, 2 leases, 2 scopes | `ImplementsAtomicLeases` |
| `admission` | 2 runs (one a queued job without slots), shared budget, a slot, 3 leases, children and jobs that carry the context, 1 failure | `ContextIsBacked`, `FleetWithinCap`, `OnlyOverdueQuarantined`, `EndedRunsAreReclaimed` |
| `outbox` | 2 runs with an event each (one that cannot be rebuilt), 2 drains, 3 attempts, 3 failures | `DeliveredIsPublished`, `ArtifactFirst`, `ChargedOnlyForFailures`, `ImplementsEventDelivery`, `EveryRowSettles` |
| `run_lifecycle` | 2 promoters, 1 abandon command, 2 journal rows, 2 failures | `MergedIsOnMain`, `ClaimIsExclusive`, `LiveRunsAreSpared`, `EndedRowsStay`, `KilledRunsAreClosed` |
| `knowledge_stream` | 2 workers, 4 entries (a fact, a deletion, a poisoned one, one that cannot be decoded), 2 retries, 1 failure | `AckedIsAccountedFor`, `EveryEntrySettles` |
| `watermarks` | 1 worker, 1 poller, 3 entries (1 poisoned, a chain of versions), 1 failure | `ZeroLagIsConfirmed`, `FrontierIsAcked` |
| `fleet` | 4 commands: two submits with one key, an invalid bare submit, a control action; pool of 1; 1 kill, 2 failed calls, 1 sweep | `RunsAtMostOnce`, `NothingIsLost`, `ImplementsRequestDesk`, `EveryCommandSettles` |
| `workflow_engine` | 3 runs of 3 phases (checkpoint, test phase, gated phase with required artifact), 2 attempts, 1 gate retry, 1 kill | `CheckpointsAreSigned`, `LinkedSuccessIsComplete`, `AttemptOrdinalsUnique`, `NothingPaidIsForgotten`, `RunsEnd` |
| `work_queue` | 2 workers, 3 cells (one denied every time, one flaky, one of the batch lane), 1 command, 2 failures, 1 denial in a row; reordering of every lane of up to 5 cells | `OneCellPerFailure`, `WidthWithinCaps`, `ReinterleaveSpreads`, `EveryCellIsTaken` |
| `publication` | 2 publications, 2 commits, 2 versions of the corpus, 2 failures | `DriftIsReported`, `JournalIsTruthful` |

No run checks a type invariant: they document the state and say at which points which
locals are set, and all of them are proved for every instance. Bounds: two clients,
workers, drains, promoters or publications are what a race on one key, row or entry
needs; a second journal row is what a retry after a recorded failure needs; the clock
outlasts one lease and the reservation that follows it; the failure budget can use up
the attempts a row has, allows a crash after a lost reply, or lets a call and the
handler of its failure fail. In `knowledge_stream` one entry more than a batch puts a
delivery count behind the window `delivery_count` looks at. In `work_queue` a worker
leaves after one denial (ten in the code) and is started again, so that two failures fit
the run: the two attempts to file a cell may both fail, or a lost pop and a death each
cost a cell. The proof is for any number of both. `MaxClock`, `MaxFaults`,
`MaxErrors`, `MaxCrashes`, `MaxKills`, `MaxMishaps`, `MaxSweeps`, `MaxRuns`,
`MaxCommands`, `MaxCorpus`, `MaxLane`, `MaxKeys` (99 in the code) and the finite sets of
leases and entries are the only bounds. Deadlock is not checked where the bounds let the
system stop: out of leases, clock, runs or commands.

One run ends in a violation. `crashed_runner`: a phase that raises before the first agent
attempt of its invocation (a missing artifact, a test command that cannot be run), or a
test gate that raises, leaves `run_workflow` by an exception, because the handler uses
`attempt_rows`, which only an attempt sets. The comment on the handler says "one bad
phase must not crash the runner"; `PROJECT.json` has the lines under `findings`.

### Observations

What the models show of the code besides. Each is a behaviour of the model that can be
reached with two actors and at most one failure; where a docstring says otherwise it is
quoted. No property claims the contrary; where a property would otherwise run into one of
them, its statement names the exception (contexts after a release, artifacts whose rewrite
was cut off, undecodable entries, rewrites of the lane).

- A context outlives its leases: a child of an admitted block, or a queued job, passes
  `require_admission` until the context expires, also after the release, and works beyond
  the cap meanwhile. `admission.py:645-647` names the case and `verify`, which would find
  it, is not called on that path. `FleetWithinCap` counts what was not given back.
- The worker releases the slots of a queued cell and never its budget lease
  (`worker.py:281-290`), so the lease runs out, and the watchdog quarantines the output of a
  cell that was done in time.
- A redelivery empties the artifact of a published event before it writes it again
  (`outbox.py:671`): killed or failing there, it leaves a truncated file, and the content
  hash of the event no longer verifies. `outbox.py:664` says that "re-writing it on a
  redelivery is a no-op in content terms".
- An expired lease is pruned by the next reservation on its scope (`lease_registry.py:1067`)
  and never flagged; `lease_watchdog.py:58` says "an expired lease produces a flag within the
  watchdog window". The quarantine record of a budget lease always says that its run "was
  still live", also when only its release had failed.
- Two drains with one snapshot of a row leave it pending with its budget used up
  (`outbox.py:548`; line 26: "after max_attempts, becomes dead"), and the drain that loses a
  delivered row is left by an exception (`outbox.py:556`; line 542: "a delivery failure is
  data, not a crash").
- An abandon command that selected a row before it was claimed cancels it under the push
  (`abandon_run.py:106`; `promote.py:819`: "the push never runs on a run the control plane
  has ended"); the zombie sweep cancels the promotable row of a run that has just ended
  (`run_lifecycle.py:237`).
- A second promoter's refusal is recorded on the intent row it shares with the first
  (`_command_journal.py:109`), whose failure then finds no row: the run stays in `promoting`.
- `complete_command` checks a row before the transaction that writes it, so of two receipts
  the later replaces the earlier.
- An entry that cannot be decoded is never acknowledged nor dead-lettered and makes every
  claim of its batch raise; its neighbours wait. `knowledge_stream.py:20` says of all failed
  messages that they are retried and then dead-lettered. `EveryEntrySettles` holds up to
  this case, and the run has such an entry.
- An older version retried after its successor is projected is shown as current again.
- A submit without a key can be started before its `launching` row is written, taken for
  never started by a recovery, and started again. Recovered commands go behind younger ones
  (`spawn_wrapper.py:2345`: "FIFO preserved"). A dispatch that raises and cannot write its
  row either is released with a row that says `queued` or `running` (`dropped`).
- A resume without a linked parent takes the commit of a killed or failed phase for its
  completion. A checkpoint that a correction re-runs cannot be approved a second time. After
  an exception the rows of an earlier phase may be charged to the one that raised.
- Reordering the story lane, and an interleaving fill, put back what they read: cells popped
  meanwhile are executed twice, cells pushed meanwhile are gone, also when the lane was read
  empty (`reinterleave_queue.py:40` deletes it all the same); a fill that dies while it
  weaves takes what it has not pushed yet along. `OneCellPerFailure` sets these apart.
- When the lease registry cannot be reached the cell is dead-lettered, not requeued
  (`worker.py:256`, `585-593`; the docstring of `cell_admission` speaks of refusals only), and
  the worker goes on popping the next one.

**Fairness.** `LeaseRegistry` has no liveness property: that its loops end is a matter of
`max_retries`, and in an instance with finitely many leases they would end without.
`AdmissionGate`: the clock and the watchdog go on, which `scripts/lease_watchdog.py`
loops for; runs owe nothing. `Outbox`: a begun pass goes on, time passes. Nothing in the
code starts the next drain, so that drains are started (`DrainsGoOn`) is an antecedent
of `EveryRowSettles` and not part of the specification. `RunLifecycle`: time passes;
`SweepsGoOn` is an antecedent in the same way. `KnowledgeStream`: workers go on, because
`_poll_loop` catches what a batch raises and polls again, and time passes.
`FleetQueue`: the wrapper's service is restarted, its loop and threads go on, containers
end. `WorkflowEngine`: the engine goes on; agents end, because the runner has a timeout
and a stall watchdog for them. `WorkQueue`: a worker at work goes on (`run_story.py` has
a timeout); that there are workers is the antecedent `WorkersGoOn`. `Publication` has no
liveness property. Failures are bounded, so liveness is claimed for behaviours whose
failures end.

## What is proved

For all values of the constants, by TLAPS. Each section says what had to be added to the
properties to make them inductive.

`LeaseRegistryProofs`: `TypeCorrect`, `CapIsNeverExceeded` (`NoOversubscription`),
`GrantsReplay` (`AuditReplay`), `SweepIsTotal` (`EveryLeaseIndexed`),
`RegistryImplementsAtomicLeases`, `HeldLeasesStay` (`HeldUntilExpiry`) and
`SweepsShareNothing` (`CollectedOnce`). The invariant adds that the index and the hashes
agree and key TTLs outlast the leases (`Books`), what the locals of a call may be at
each point (`CallArguments`), and `ReadsFresh`: while the watched keys are untouched,
what a call has read still describes the store. `ReadsFresh` is what WATCH is for; the
rest of the argument is that a commit on a fresh read is an atomic grant, withdrawal or
reclaim. For what clients hold it also adds `OneHolder`: no lease is in two hands, or
held and being released at once, so that what one client deletes is not another's. For
what sweeps return, `Collections`: whatever was collected had been granted, and ids are
not drawn twice; two sweeps that read the same lease cannot both commit, because the
first makes the read of the other stale. A total is the number of units leased, the
cardinality of a set of (lease, unit) pairs, so that the theorems on finite sets apply
to it. Assumptions: the lease ids are finite, `KeyTTL >= TTL` (the comment on
`KEY_TTL_SECONDS`), at least one attempt.

`AdmissionGateProofs`: `TypeCorrect`, `AdmissionNeedsNoRegistryRead` (`ContextIsBacked`),
`FleetStaysWithinCap` (`FleetWithinCap`), `QuarantineIsDeserved`
(`OnlyOverdueQuarantined`). The invariant adds that the leases a run has taken or still
has to release were granted to it (`LeasesOwned`, `Hands`), that until it gives them up
its unexpired leases are in the registry (`Backed`), that a context names granted leases,
those of the run while it is in force (`Contexts`), that an unexpired lease nobody has
given up is in the registry whatever became of its run (`Standing`), which is what an heir
lives on, that the live claims on a counter
fit its cap (`WithinCap`), and that the watchdog's list holds expired leases which nobody
had given up in time (`Reports`). `FleetWithinCap` follows because what live contexts name
and was not given back is among the live claims. `GateIsBuiltOnAtomicLeases` says that every
step of runs and watchdog is, for the registry, one step of `AtomicLeases`. With
`RegistryImplementsAtomicLeases` the two meet in the middle: the gate uses no more than
the registry was shown to provide.

`RunLifecycleProofs`: `TypeCorrect`, `MergedRowsAreOnMain` (`MergedIsOnMain`),
`OnePushAtATime` (`ClaimIsExclusive`), `TerminalRowsStay` (`EndedRowsStay`),
`SweepSparesTheLiving` (`LiveRunsAreSpared`). The
invariant adds that a pushing promoter's row has left the unclaimed states
(`PushIsClaimed`: they have no way back in the graph), that who reports a completed push
or closes the row has seen it land (`CompletedIsOnMain`), that a promotable row has its
events queued (`EventsFirst`), and the order of the journal (`JournalOrder`); and, for
the sweep, that a live process whose heartbeat is stale, or whom the sweep has judged a
zombie, has missed a window, which is a failure (`LateBeatsAreFaults`). One lemma
for the promoters' steps, one for everybody else's.

`OutboxProofs`: `DeliveredRowsArePublished` (`DeliveredIsPublished`),
`ArtifactsComeFirst` (`ArtifactFirst`), `RetriesAreEarned` (`ChargedOnlyForFailures`).
The invariant adds what a pass has done to its current row when it reaches a call
(`StepsInOrder`): rows change under a pass, but the stream only grows, so what it has
published stays published. Artifacts do not only grow: another pass may empty the file
between the write and the publish of the first. What stays true is that the artifact is
whole, or being written, or cut off (`Covered`), of every event on the stream and of the
one a pass is about to publish. For the charges it adds who still owes one (`Owing`): a
pass that has seen a failure of a row nobody has delivered meanwhile. The attempts
charged, as pairs of a row and an ordinal, and those owed are together never more than
the failures and the deliveries. A pass that charges a row another pass has charged
already overwrites the same ordinal, which only helps. `OutboxKeepsItsPromise` is the
refinement of `EventDelivery`. It needs to know what of a pass's snapshot is still true
when the pass acts on it: the row stays queued, it is charged no less than when it was
read, and beyond the first call the event either can be built or is on the stream. So
what a late pass does to a row that others have moved on is still a decision the promise
allows, with one attempt more. `TypeCorrect` adds that a delay, which is defined by
recursion over the failures, is never over the ceiling.

`FleetQueueProofs`: `TypeCorrect`, `OneContainerPerRequest` (`RunsAtMostOnce`),
`AcceptedStaysQueued` (`NothingIsLost`). The first lemmas say what pushes, moves and
removals do to a lane without repetitions, so that the rest argues about sets. The
invariant adds that a command is in one place of one lane (`OnePlace`) and in at most one
hand (`InHand`, `Recovery`), that of the submits with one key only the one the request
row names was ever pushed (`OnePushed`), that once a container was started nothing is
under way that could start another (`StartedIsOver`), and that whoever is about to remove
a claim has written its row (`RowFirst`).
`FleetKeepsItsPromise` is the refinement of `RequestDesk`. It adds that what was dropped
without an answer had been pushed (`DroppedWasPushed`). Every step is a submit, a start,
a step that moves a command between or out of the lanes, or one that writes a row. A
command that leaves the lanes has its row written or is dropped (`RowFirst`), one that
has left is in no hand that could push it back, and a late sweep writes a final answer,
which replaces at most another one.

`WorkflowEngineProofs`: `TypeCorrect`, `WorkIsBehindSignatures` (`CheckpointsAreSigned`),
`OrdinalsNeverRepeat` (`AttemptOrdinalsUnique`), `SuccessIsComplete`
(`LinkedSuccessIsComplete`), `CostsStayOnRecord` (`NothingPaidIsForgotten`). `Kinds` sorts
the steps by what they do to the run, so that the
ways to raise, to end and to start are argued once. The invariant adds that phases are
recorded in order and once (`RecordsInOrder`); that every checkpoint behind the loop, or
which it will skip, is signed for its latest commit (`SignedAhead`); that the ordinals
given to a phase are at most what its record, what was retained of it, or the attempts
under way count (`OrdinalsCounted`); and what the books of a run that continues the run
before it say about the last executions, through loop, ledger and resume (`LinkedIsFresh`).
`PaidInv` is for the costs: what was paid is on record or in hand, nothing is retained of
a phase that was not corrected, and the last rows, which the record of an exception
takes over, hold at least what is retained of the phase the loop is at (`LastRows`).

`WorkQueueProofs`: `TypeCorrect`, `EachFailureCostsOneCell` (`OneCellPerFailure`),
`WidthStaysWithinCaps` (`WidthWithinCaps`), `ReinterleaveKeepsItsPromise` and
`LanesAreSpread` (`ReinterleaveSpreads`). The first half is about the two reorderings, for
lanes of any length. Induction is done without the library's rules: the stages at which a
claim fails are a set of numbers, which if it is not empty has a least member, and the
recursive functions of the model are unfolded after showing that a function with their
equation exists. `reinterleave_cells` is a greedy draw. Its invariant is that no provider
has more than half of the cells left, rounded up, and the last one drawn at most half
rounded down; so a cell of another provider can always be drawn, and the defensive branch
of the code, which its comment calls unreachable, is not needed. It refuses only lanes
that no order could spread, because cells of one provider that are never neighbours fill
at most every second place (`NoNeighbours`). What is drawn is a rearrangement, so no cell
is lost or doubled. The second half is the queue. Its invariant says what a worker, a
fill, a rewrite and a return hold at each point (`WorkersSound`, `FillTyped`), that the
slots held and the stray ones together fit each cap (`SlotsFit`). The missing cells are
those owed that are in no lane, not among the dead letters, in no fill that has deleted
the lane and in nobody's hands, and were not overwritten. One lemma for each step says
that it makes no cell missing, because it puts what it takes from one of these places into
another, or that it is a failure and makes one cell missing; so there are at most as many
as failures (`Accounted`).

`DownstreamProofs`, on the stream: `TypeCorrect`, `AcknowledgementsAreEarned`
(`AckedIsAccountedFor`), and of the watermarks `ZeroLagIsTrue` (`ZeroLagIsConfirmed`)
and `FrontierWasAcked` (`FrontierIsAcked`). The invariant adds that a worker about to
acknowledge has projected the entry, verified that it is a fact, or filed it
(`AckIsEarned`), which other workers
that have taken the entry over cannot undo, and two facts for the watermarks: what was
handed out is pending until acknowledged (`NothingSkipped`), and the acknowledgement a
worker reports was made (`LastIsAcked`). Lemmas say what the first entries of an
interval are and that a set of ids that is not empty has a least member. Assumption: a
batch holds at least one entry. For the watermarks it adds `ReadsArePast`: head,
position and pending list are read in this order, each only grows or was empty then, so
the three together describe a state the group has been through. `StreamGrows` is the
lemma about the group. `PositionsAreWithinStream` is the type of the watermarks, whose
ranges move with the stream.

`DownstreamProofs`, on the publication: `DriftIsAlwaysReported` (`DriftIsReported`),
`JournalTellsTheTruth` (`JournalIsTruthful`). The invariant adds what a publication has
done by the time it reaches a point (`StepsInOrder`), that a host serves the data of a
publication whose intent is on record (`ServedIsRecorded`), and `DriftIsUnseen`: when
the hosts differ, the two publications they serve have not both seen their own data on
the other host. A deployment makes it true, because whoever deploys has not looked yet;
a look keeps it, because it fails while the other host serves something else.
`SuccessIsEarned` adds how a publication ends (`EndsInOrder`): one whose deployment
raised goes no further than its receipt, and only one that released to both hosts looks
at them.

Assumptions on the constants, besides those named: the workers of the story queue are
finitely many, every provider is named once in its priority, and a plan is either a batch
or not; the events of different runs are different, because each row draws an id of its
own; the runs' slots and budgets are different counters. The bounds are natural numbers.
All hold in the code; the modules state them where the constants are declared.

Only model-checked: the liveness properties (`EndedRunsAreReclaimed`, `EveryRowSettles`,
`KilledRunsAreClosed`, `EveryEntrySettles`, `EveryCommandSettles`, `RunsEnd`,
`EveryCellIsTaken`), because fairness and ENABLED are beyond the provers, and the violation
`crashed_runner` finds, which a counterexample settles.

## Not modelled

- Of the admission gate: the disarmed mode, which is the default
  (`admission_context.py:437-444`, `474`): nothing is reserved and everything passes, so none
  of the properties of `AdmissionGate` is about it. The match of the model name. The context
  a worker makes for a queued cell (`worker.py:281`), which names new slots and keeps the
  expiry of the queued one; the slots themselves are in `WorkQueue`.
- Of the lease registry: that a call which loses every race ends in a refusal after
  `max_retries`; a lease longer than the TTL of its key, which the code does not refuse.
- Of the workflow engine: the expansion of plans, `stop_on_error=False`, prompts,
  retrieval, telemetry and evidence, what each gate looks at (its verdict is a choice),
  several runs in one worktree, run clones. Approvals are given while no run is under way.
- Of the fleet: mounts, images, credentials and the validation of requests, which only
  refuse; the launch broker, which answers; heartbeats; the pruning of run directories.
- Of the story queue: the status hash and timing rows, which nothing decides on, the
  analysis trigger, the budgets a fill reserves.
- Of the control database: schema, epochs, step attempts, gate results, approvals table.
- Settlement, quarantine lifts, the orphan sweep.
- Facts, rules, reducers, routing, status views, ingestion, knowledge graph and
  retrieval, measurement, experiments, reporting, backends, control room and website:
  conversions, numerical analysis, text generation, I/O and user interfaces. They are by
  far the greatest part of the repository's lines (165 000 in all) and have no state that
  several processes share, apart from what is modelled; a TLA+ module would
  repeat their functions and say nothing about them.
- In `RunLifecycle` there is one run, and a resume or approval is not continued in the
  same row; `projecting` and `published` are in the graph but nobody goes there.

## Plan

1. Done: the modules, runs and theorems above.
2. The way of an event from end to end: `Outbox` composed with `KnowledgeStream`, against
   a promise that joins `EventDelivery` and the acknowledgement of the stream.
3. Quarantine lifts, settlement of leases, a second run in `RunLifecycle` for the
   sweep's error handling.

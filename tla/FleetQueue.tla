----------------------------- MODULE FleetQueue -----------------------------
(***************************************************************************)
(* scripts/fleet: fleet_manager.py submits commands, spawn_wrapper.py      *)
(* claims and dispatches them, dlq.py keeps what failed.                   *)
(*                                                                         *)
(* A command moves from fleet:commands into the claim lane and leaves it   *)
(* when its dispatch is over; after a restart the job board decides what   *)
(* becomes of the claims found there.  The wrapper is one process with a   *)
(* pool of dispatch threads.  Commands are numbered in the order in which  *)
(* they are submitted.                                                     *)
(***************************************************************************)
EXTENDS Naturals, Sequences, FiniteSets, SequencesExt

CONSTANTS
    MaxCommands,  \* bound: commands submitted in a behaviour
    Keyed,        \* submits with a request key
    KeyOf,        \* keyed submit -> its request key
    Bare,         \* submits without one
    Controls,     \* scale, drain and restart
    Invalid,      \* submits that validate_fleet_command refuses
    PoolSize,     \* FINOPS_FLEET_DISPATCH_WORKERS
    MaxCrashes,   \* bound: kills of the wrapper in a behaviour
    MaxErrors,    \* bound: Redis calls of the wrapper that raise
    MaxSweeps     \* bound: rows swept in a behaviour

Commands == 1..MaxCommands
Jobs == Keyed \cup Bare
Keys == {KeyOf[j] : j \in Keyed}

ASSUME FleetAssumption ==
    /\ MaxCommands \in Nat /\ PoolSize \in Nat \ {0}
    /\ MaxCrashes \in Nat /\ MaxErrors \in Nat /\ MaxSweeps \in Nat
    /\ Keyed \cup Bare \cup Controls = Commands
    /\ Keyed \cap Bare = {} /\ Jobs \cap Controls = {}
    /\ KeyOf \in [Keyed -> Keys] /\ Invalid \subseteq Jobs

VARIABLES
    sent,         \* commands submitted so far
    commands,     \* fleet:commands, pushed left and claimed right
    processing,   \* fleet:commands:processing, appended right
    board,        \* fleet:jobs: job -> the status of its row
    requests,     \* fleet:requests: key -> its job, 0 for none
    unrecorded,   \* bare submits whose "launching" row is not written yet
    deadLetters,  \* fleet_jobs:dead_letter
    started,      \* command -> containers started, or actions performed, for it
    wrapper,      \* the wrapper's main thread
    thread,       \* command -> where its _dispatch_claimed is
    swept,        \* the row sweep_stale_jobs has judged stale, 0 for none
    crashes, errors, sweeps,
    dropped       \* jobs whose dispatch raised, and whose "failed" row could not be written either

lanes  == <<commands, processing>>
faults == <<crashes, errors, sweeps, dropped>>
vars   == <<sent, lanes, board, requests, unrecorded, deadLetters, started, wrapper, thread, swept, faults>>

Statuses == {"none", "launching", "queued", "running", "completed", "failed"}
Terminal == {"completed", "failed"}
MainPoints == {"down", "recover", "recFile", "recRemove", "loop", "claimed", "refused", "inline", "draining"}
Points == {"none", "pooled", "launch", "await", "succeeded", "broken", "file", "raised", "fileRaised", "release"}

\* entries: the claims a recovery has still to resolve; command: the claim in hand.
Main(point) == [at |-> point, command |-> 0, entries |-> <<>>]

\* Threads of the pool that are at work.
Busy == {c \in Jobs : thread[c] \notin {"none", "pooled"}}

TypeOK ==
    /\ sent \in 0..MaxCommands
    /\ commands \in Seq(1..sent) /\ processing \in Seq(1..sent)
    /\ board \in [Jobs -> Statuses]
    /\ requests \in [Keys -> Keyed \cup {0}]
    /\ unrecorded \subseteq Bare /\ deadLetters \subseteq Jobs
    /\ started \in [Commands -> Nat]
    /\ wrapper.at \in MainPoints /\ wrapper.command \in 0..sent /\ wrapper.entries \in Seq(1..sent)
    /\ wrapper.at \in {"recover", "recFile", "recRemove"} => wrapper.entries # <<>>
    /\ thread \in [Commands -> Points]
    /\ Cardinality(Busy) <= PoolSize
    /\ swept \in Jobs \cup {0}
    /\ crashes \in 0..MaxCrashes /\ errors \in 0..MaxErrors /\ sweeps \in 0..MaxSweeps
    /\ dropped \subseteq Jobs

Init ==
    /\ sent = 0 /\ commands = <<>> /\ processing = <<>>
    /\ board = [j \in Jobs |-> "none"]
    /\ requests = [k \in Keys |-> 0]
    /\ unrecorded = {} /\ deadLetters = {}
    /\ started = [c \in Commands |-> 0]
    /\ wrapper = Main("down")
    /\ thread = [c \in Commands |-> "none"]
    /\ swept = 0 /\ crashes = 0 /\ errors = 0 /\ sweeps = 0 /\ dropped = {}

\* A Redis call raises.
Raise  == errors < MaxErrors /\ errors' = errors + 1 /\ UNCHANGED <<crashes, sweeps>>
Raises == Raise /\ UNCHANGED dropped

Push(c) == commands' = <<c>> \o commands
Without(lane, c) == RemoveFirst(lane, c)
Record(j, status) == board' = [board EXCEPT ![j] = status]

-----------------------------------------------------------------------------
(* fleet_manager.py.                                                       *)

\* Mutant: a retry is taken for a new request once the job before it has ended.
SubmitKeyedAnew ==
    /\ sent < MaxCommands /\ sent + 1 \in Keyed
    /\ sent' = sent + 1
    /\ LET named == requests[KeyOf[sent + 1]] IN
       \/ /\ named # 0 => board[named] \in Terminal
          /\ requests' = [requests EXCEPT ![KeyOf[sent + 1]] = sent + 1]
          /\ Push(sent + 1)
          /\ Record(sent + 1, "launching")
       \/ /\ named # 0 /\ board[named] \notin Terminal
          /\ UNCHANGED <<requests, commands, board>>
    /\ UNCHANGED <<processing, unrecorded, deadLetters, started, wrapper, thread, swept, faults>>

\* _send_submit_command with a key: one script, which leaves everything alone
\* when the key names a job already.  A retry after a lost reply is the next
\* submit with the same key.
SubmitKeyed ==
    /\ sent < MaxCommands /\ sent + 1 \in Keyed
    /\ sent' = sent + 1
    /\ \/ /\ requests[KeyOf[sent + 1]] = 0
          /\ requests' = [requests EXCEPT ![KeyOf[sent + 1]] = sent + 1]
          /\ Push(sent + 1)
          /\ Record(sent + 1, "launching")
       \/ /\ requests[KeyOf[sent + 1]] # 0
          /\ UNCHANGED <<requests, commands, board>>
    /\ UNCHANGED <<processing, unrecorded, deadLetters, started, wrapper, thread, swept, faults>>

\* _send_submit_command without a key: the push, and the row after it.
SubmitBare ==
    /\ sent < MaxCommands /\ sent + 1 \in Bare
    /\ sent' = sent + 1
    /\ Push(sent + 1)
    /\ unrecorded' = unrecorded \cup {sent + 1}
    /\ UNCHANGED <<processing, board, requests, deadLetters, started, wrapper, thread, swept, faults>>

RecordJobLaunch(j) ==
    /\ j \in unrecorded
    /\ unrecorded' = unrecorded \ {j}
    /\ Record(j, "launching")
    /\ UNCHANGED <<sent, lanes, requests, deadLetters, started, wrapper, thread, swept, faults>>

SendCommand ==
    /\ sent < MaxCommands /\ sent + 1 \in Controls
    /\ sent' = sent + 1
    /\ Push(sent + 1)
    /\ UNCHANGED <<processing, board, requests, unrecorded, deadLetters, started, wrapper, thread, swept, faults>>

\* sweep_stale_jobs reads the rows first and writes them one by one.  Any row
\* that is not terminal may have got old.
SweepReads(j) ==
    /\ swept = 0 /\ sweeps < MaxSweeps
    /\ board[j] \in {"launching", "queued", "running"}
    /\ swept' = j /\ sweeps' = sweeps + 1
    /\ UNCHANGED <<sent, lanes, board, requests, unrecorded, deadLetters, started, wrapper, thread, crashes, errors, dropped>>

\* "completed" when a ledger says so.
SweepWrites ==
    /\ swept # 0
    /\ \E verdict \in Terminal : Record(swept, verdict)
    /\ swept' = 0
    /\ UNCHANGED <<sent, lanes, requests, unrecorded, deadLetters, started, wrapper, thread, faults>>

-----------------------------------------------------------------------------
(* consume_fleet_commands.                                                 *)

\* An exception leaves the loop: the interpreter waits for the pool, which works
\* off what it was given.  redis-py's exceptions are not the built-in
\* TimeoutError and ConnectionError the loop catches; an OSError is.
LoopEnds == wrapper' = Main("draining")

\* Mutant: a command is popped, as BRPOP would.
ClaimPops ==
    /\ wrapper.at = "loop" /\ commands # <<>>
    /\ commands' = Front(commands)
    /\ wrapper' = [Main("claimed") EXCEPT !.command = Last(commands)]
    /\ UNCHANGED <<sent, processing, board, requests, unrecorded, deadLetters, started, thread, swept, faults>>

ClaimCommand ==
    /\ wrapper.at = "loop" /\ commands # <<>>
    /\ commands' = Front(commands)
    /\ processing' = Append(processing, Last(commands))
    /\ wrapper' = [Main("claimed") EXCEPT !.command = Last(commands)]
    /\ UNCHANGED <<sent, board, requests, unrecorded, deadLetters, started, thread, swept, faults>>

\* The move may have happened although its reply never comes.
ClaimRaises ==
    /\ wrapper.at = "loop"
    /\ Raises
    /\ \/ UNCHANGED lanes
       \/ commands # <<>> /\ commands' = Front(commands) /\ processing' = Append(processing, Last(commands))
    /\ LoopEnds \/ UNCHANGED wrapper
    /\ UNCHANGED <<sent, board, requests, unrecorded, deadLetters, started, thread, swept>>

Claim == wrapper.command
Settle(lane) == processing' = lane /\ wrapper' = Main("loop")

\* A refused submit: its row, its dead letter and the release, in this order.
Refuse ==
    /\ wrapper.at = "claimed" /\ Claim \in Invalid
    /\ Record(Claim, "failed")
    /\ wrapper' = [wrapper EXCEPT !.at = "refused"]
    /\ UNCHANGED <<sent, lanes, requests, unrecorded, deadLetters, started, thread, swept, faults>>

FileRefusal ==
    /\ wrapper.at = "refused"
    /\ deadLetters' = deadLetters \cup {Claim}
    /\ \/ Settle(Without(processing, Claim)) /\ UNCHANGED faults
       \/ Raises /\ Settle(processing)
    /\ UNCHANGED <<sent, commands, board, requests, unrecorded, started, thread, swept>>

\* An accepted submit goes to the pool.
Accept ==
    /\ wrapper.at = "claimed" /\ Claim \in Jobs \ Invalid
    /\ Record(Claim, "queued")
    /\ thread' = [thread EXCEPT ![Claim] = "pooled"]
    /\ wrapper' = Main("loop")
    /\ UNCHANGED <<sent, lanes, requests, unrecorded, deadLetters, started, swept, faults>>

\* A control action is dispatched by the loop itself.
Inline ==
    /\ wrapper.at = "claimed" /\ Claim \in Controls
    /\ thread' = [thread EXCEPT ![Claim] = "launch"]
    /\ wrapper' = [wrapper EXCEPT !.at = "inline"]
    /\ UNCHANGED <<sent, lanes, board, requests, unrecorded, deadLetters, started, swept, faults>>

InlineEnds ==
    /\ wrapper.at = "inline" /\ thread[Claim] = "none"
    /\ wrapper' = Main("loop")
    /\ UNCHANGED <<sent, lanes, board, requests, unrecorded, deadLetters, started, thread, swept, faults>>

\* Nothing catches what record_job_status or record_dead raise here.
LoopRaises ==
    /\ \/ wrapper.at = "claimed" /\ Claim \in Jobs
       \/ wrapper.at = "refused"
    /\ Raises
    /\ LoopEnds
    /\ UNCHANGED <<sent, lanes, board, requests, unrecorded, deadLetters, started, thread, swept>>

Exit ==
    /\ wrapper.at = "draining" /\ \A c \in Commands : thread[c] = "none"
    /\ wrapper' = Main("down")
    /\ UNCHANGED <<sent, lanes, board, requests, unrecorded, deadLetters, started, thread, swept, faults>>

\* The wrapper is killed; containers it has started go on without it.
Crash ==
    /\ wrapper.at # "down" /\ crashes < MaxCrashes
    /\ crashes' = crashes + 1
    /\ wrapper' = Main("down")
    /\ thread' = [c \in Commands |-> "none"]
    /\ UNCHANGED <<sent, lanes, board, requests, unrecorded, deadLetters, started, swept, errors, sweeps, dropped>>

-----------------------------------------------------------------------------
(* _dispatch_claimed, _dispatch_command: one thread for each claim.        *)

Goto(c, point) == thread' = [thread EXCEPT ![c] = point]

DispatchBegins(c) ==
    /\ thread[c] = "pooled" /\ Cardinality(Busy) < PoolSize
    /\ Record(c, "running")
    /\ Goto(c, "launch")
    /\ UNCHANGED <<sent, lanes, requests, unrecorded, deadLetters, started, wrapper, swept, faults>>

\* The broker starts a container, or performs a control action.
BrokerStarts(c) ==
    /\ thread[c] = "launch"
    /\ started' = [started EXCEPT ![c] = @ + 1]
    /\ Goto(c, IF c \in Jobs THEN "await" ELSE "release")
    /\ UNCHANGED <<sent, lanes, board, requests, unrecorded, deadLetters, wrapper, swept, faults>>

\* The broker refuses, cannot be reached, or has no docker.
BrokerDeclines(c) ==
    /\ thread[c] = "launch"
    /\ Goto(c, IF c \in Jobs THEN "broken" ELSE "release")
    /\ UNCHANGED <<sent, lanes, board, requests, unrecorded, deadLetters, started, wrapper, swept, faults>>

BrokerReturns(c) ==
    /\ thread[c] = "await"
    /\ Goto(c, "succeeded") \/ Goto(c, "broken")
    /\ UNCHANGED <<sent, lanes, board, requests, unrecorded, deadLetters, started, wrapper, swept, faults>>

RecordOutcome(c) ==
    /\ \/ thread[c] = "succeeded" /\ Record(c, "completed") /\ Goto(c, "release")
       \/ thread[c] = "broken" /\ Record(c, "failed") /\ Goto(c, "file")
       \/ thread[c] = "raised" /\ Record(c, "failed") /\ Goto(c, "fileRaised")
    /\ UNCHANGED <<sent, lanes, requests, unrecorded, deadLetters, started, wrapper, swept, faults>>

RecordDead(c) ==
    /\ thread[c] \in {"file", "fileRaised"}
    /\ deadLetters' = deadLetters \cup {c}
    /\ Goto(c, "release")
    /\ UNCHANGED <<sent, lanes, board, requests, unrecorded, started, wrapper, swept, faults>>

\* The first exception is answered with "failed" and a dead letter; one that the
\* answer itself raises only reaches the finally clause.
DispatchRaises(c) ==
    /\ \/ thread[c] = "pooled" /\ Cardinality(Busy) < PoolSize /\ Goto(c, "raised")
       \/ thread[c] \in {"succeeded", "broken", "file"} /\ Goto(c, "raised")
       \/ thread[c] \in {"raised", "fileRaised"} /\ Goto(c, "release")
    /\ Raise
    /\ dropped' = IF thread[c] = "raised" THEN dropped \cup {c} ELSE dropped
    /\ UNCHANGED <<sent, lanes, board, requests, unrecorded, deadLetters, started, wrapper, swept>>

\* _release_command; a claim that cannot be removed stays.
Release(c) ==
    /\ thread[c] = "release"
    /\ \/ processing' = Without(processing, c) /\ UNCHANGED faults
       \/ Raises /\ UNCHANGED processing
    /\ Goto(c, "none")
    /\ UNCHANGED <<sent, commands, board, requests, unrecorded, deadLetters, started, wrapper, swept>>

-----------------------------------------------------------------------------
(* _recover_processing.                                                    *)

\* Mutant: the wrapper starts to consume at once.
RestartWithoutRecovery ==
    /\ wrapper.at = "down"
    /\ wrapper' = Main("loop")
    /\ UNCHANGED <<sent, lanes, board, requests, unrecorded, deadLetters, started, thread, swept, faults>>

Restart ==
    /\ wrapper.at = "down"
    /\ wrapper' = [Main(IF processing = <<>> THEN "loop" ELSE "recover")
                       EXCEPT !.entries = Reverse(processing)]
    /\ UNCHANGED <<sent, lanes, board, requests, unrecorded, deadLetters, started, thread, swept, faults>>

Entry == Head(wrapper.entries)

NextEntry ==
    wrapper' = IF Tail(wrapper.entries) = <<>> THEN Main("loop")
               ELSE [Main("recover") EXCEPT !.entries = Tail(wrapper.entries)]

\* Mutant: only a row that says how the job ended counts as started.
NeverStartedUnlessEnded(j) == board[j] \notin Terminal

\* What recovery takes a submit's row to mean.
NeverStarted(j) == board[j] \notin {"running", "completed", "failed"}

\* _requeue_claimed: one script.
Requeue ==
    /\ wrapper.at = "recover" /\ Entry \in Controls \cup {j \in Jobs : NeverStarted(j)}
    /\ processing' = Without(processing, Entry)
    /\ Push(Entry)
    /\ NextEntry
    /\ UNCHANGED <<sent, board, requests, unrecorded, deadLetters, started, thread, swept, faults>>

ReleaseEnded ==
    /\ wrapper.at = "recover" /\ Entry \in Jobs /\ board[Entry] \in Terminal
    /\ processing' = Without(processing, Entry)
    /\ NextEntry
    /\ UNCHANGED <<sent, commands, board, requests, unrecorded, deadLetters, started, thread, swept, faults>>

\* A job that died in mid-dispatch: row, dead letter, removal.
FailRunning ==
    /\ wrapper.at = "recover" /\ Entry \in Jobs /\ ~NeverStarted(Entry) /\ board[Entry] = "running"
    /\ Record(Entry, "failed")
    /\ wrapper' = [wrapper EXCEPT !.at = "recFile"]
    /\ UNCHANGED <<sent, lanes, requests, unrecorded, deadLetters, started, thread, swept, faults>>

FileRunning ==
    /\ wrapper.at = "recFile"
    /\ deadLetters' = deadLetters \cup {Entry}
    /\ wrapper' = [wrapper EXCEPT !.at = "recRemove"]
    /\ UNCHANGED <<sent, lanes, board, requests, unrecorded, started, thread, swept, faults>>

RemoveRunning ==
    /\ wrapper.at = "recRemove"
    /\ processing' = Without(processing, Entry)
    /\ NextEntry
    /\ UNCHANGED <<sent, commands, board, requests, unrecorded, deadLetters, started, thread, swept, faults>>

RecoveryRaises ==
    /\ wrapper.at \in {"recover", "recFile", "recRemove"}
    /\ Raises
    /\ wrapper' = Main("down")
    /\ UNCHANGED <<sent, lanes, board, requests, unrecorded, deadLetters, started, thread, swept>>

-----------------------------------------------------------------------------
Consume ==
    \/ Restart \/ Requeue \/ ReleaseEnded \/ FailRunning \/ FileRunning \/ RemoveRunning
    \/ ClaimCommand \/ Refuse \/ FileRefusal \/ Accept \/ Inline \/ InlineEnds \/ Exit

Dispatch(c) ==
    \/ DispatchBegins(c) \/ BrokerStarts(c) \/ BrokerDeclines(c) \/ BrokerReturns(c)
    \/ RecordOutcome(c) \/ RecordDead(c) \/ Release(c)

Next ==
    \/ SubmitKeyed \/ SubmitBare \/ SendCommand
    \/ \E j \in Jobs : RecordJobLaunch(j) \/ SweepReads(j)
    \/ SweepWrites
    \/ Consume \/ Crash \/ ClaimRaises \/ LoopRaises \/ RecoveryRaises
    \/ \E c \in Commands : Dispatch(c) \/ DispatchRaises(c)

\* The wrapper's service is restarted on failure, its loop and its threads go on,
\* and containers end.  No failure has to happen.
Fairness ==
    /\ WF_vars(Consume)
    /\ \A c \in Commands : WF_vars(Dispatch(c))

Spec == Init /\ [][Next]_vars /\ Fairness

-----------------------------------------------------------------------------
InLane(c) == c \in Range(commands) \/ c \in Range(processing)

\* _recover_processing and the request key: however often a submit is retried
\* and the wrapper restarted, a request starts at most one container.
RunsAtMostOnce ==
    \A i, j \in Keyed :
        /\ started[j] <= 1
        /\ i # j /\ KeyOf[i] = KeyOf[j] => started[i] = 0 \/ started[j] = 0

\* spawn_wrapper.py:453, "An entry leaves only when its dispatch reaches a
\* terminal resolution": an accepted request whose job is not over is in one of
\* the lanes, also between any two steps of a claim, a release or a recovery.
\* The one exception is a dispatch that raised and whose handler could not
\* write the row: the finally clause releases the claim all the same.
NothingIsLost ==
    \A k \in Keys : requests[k] # 0 =>
        InLane(requests[k]) \/ board[requests[k]] \in Terminal \/ requests[k] \in dropped

\* A claim nobody works on and no restart is looking at: the reply of its move
\* was lost, or its removal failed.
LeftInLane(c) ==
    /\ errors > 0
    /\ c \in Range(processing) /\ thread[c] = "none" /\ wrapper.at = "loop"

\* spawn_wrapper.py:2447, "a restart requeues it; never dropped": through kills and restarts
\* every command that reaches the queue is resolved; only a failed Redis call
\* keeps one in the claim lane, where it is left for the next restart.
EveryCommandSettles ==
    \A c \in Commands : InLane(c) ~> (~InLane(c) \/ LeftInLane(c))

-----------------------------------------------------------------------------
(* What those who submit under a key see of it all.                        *)

StageOf(k) ==
    CASE requests[k] = 0 -> "new"
      [] requests[k] # 0 /\ ~InLane(requests[k]) -> "settled"
      [] OTHER -> IF started[requests[k]] = 0 THEN "waiting" ELSE "running"

\* The containers of any submit with the key, numbered for each submit.
ContainersOf(k) == UNION {{j} \X (1..started[j]) : j \in {i \in Keyed : KeyOf[i] = k}}

AnswerOf(k) ==
    CASE requests[k] = 0 -> "open"
      [] requests[k] # 0 /\ board[requests[k]] \in Terminal -> board[requests[k]]
      [] OTHER -> IF requests[k] \in dropped THEN "lost" ELSE "open"

Desk == INSTANCE RequestDesk WITH
            Requests <- Keys, Containers <- Keyed \X {1},
            stage <- [k \in Keys |-> StageOf(k)],
            containers <- [k \in Keys |-> ContainersOf(k)],
            answer <- [k \in Keys |-> AnswerOf(k)]

\* RequestDesk is what the fleet queue looks like from outside: retried submits
\* add nothing, a request that left the queue is answered and stays out, and
\* kills, restarts and sweeps never start a second container.
ImplementsRequestDesk == Desk!Spec
=============================================================================

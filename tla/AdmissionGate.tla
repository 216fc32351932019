---------------------------- MODULE AdmissionGate ---------------------------
(***************************************************************************)
(* control/admission.py, core/admission_context.py and                     *)
(* control/lease_watchdog.py on top of the atomic lease registry.          *)
(*                                                                         *)
(* A run reserves its budget and then its slots, one registry call each;   *)
(* any refusal unwinds what was taken.  An admitted run works under a      *)
(* context that expires with its first lease and is checked without        *)
(* reading the registry.  The context travels: a child process inherits it *)
(* through the environment, a queued job carries it in its fields, and     *)
(* either may outlive the run and the leases.  The watchdog sweeps expired *)
(* leases, flags them and quarantines what outlived its budget.            *)
(*                                                                         *)
(* The gate is armed (FINOPS_ADMISSION_REQUIRED): disarmed, which is the   *)
(* default, nothing is reserved and require_admission lets all pass.       *)
(***************************************************************************)
EXTENDS LeaseBook, Sequences

CONSTANTS
    Runs,          \* admission requests, each made by a process of its own
    BudgetScope,   \* run -> the counter its budget lease is taken on
    SlotScopes,    \* run -> the counters its concurrency leases are taken on
    Cap,           \* counter -> the cap installed on it
    MaxFaults      \* bound: registry, disk and process failures in a behaviour

\* A counter is of one kind: LeaseKind is part of the scope key.
ASSUME GateAssumption ==
    /\ BudgetScope \in [Runs -> Scopes]
    /\ SlotScopes \in [Runs -> Seq(Scopes)]
    /\ Cap \in [Scopes -> Caps]
    /\ \A r, q \in Runs : \A i \in DOMAIN SlotScopes[q] :
           SlotScopes[q][i] # BudgetScope[r]
    /\ MaxFaults \in Nat

VARIABLES
    claims,        \* what the registry stores
    owner,         \* lease id -> run_id of its payload
    phase,         \* where each run is between its request and its end
    taken,         \* run -> the leases admit() has collected, in order
    toRelease,     \* run -> the leases its release loop still has to visit
    context,       \* run -> the leases its LeaseContext names
    working,       \* run -> a backend invocation of its body is under way
    inherited,     \* run -> a child or a queued job carries its context
    dog,           \* the watchdog's pass
    flags,         \* leases with a record in the durable flags file
    ledger,        \* <<surface, run>> marks of the quarantine ledger
    settled,       \* leases given up before they expired (history)
    faults         \* failures so far

registry == <<claims, leaseOf, clock, owner>>
watchdog == <<dog, flags, ledger>>
runs == <<phase, taken, toRelease, context, working, inherited>>
vars == <<registry, runs, watchdog, settled, faults>>

Registry == INSTANCE AtomicLeases

Phases == {"new", "reserving", "unwinding", "admitted", "releasing", "ended"}
Surfaces == {"worktree", "result_namespace"}
NoRun == "no run"

IdleDog == [at |-> "idle", todo |-> {}, list |-> {}]
DogState == [at : {"idle", "sweep", "flag", "worktree", "result_namespace"},
             todo : SUBSET Scopes, list : SUBSET LeaseIds]

Wanted(r) == <<BudgetScope[r]>> \o SlotScopes[r]
Kept(r)   == {taken[r][i] : i \in DOMAIN taken[r]}
IsBudget(l) == \E r \in Runs : leaseOf[l].scope = BudgetScope[r]

TypeOK ==
    /\ claims \subseteq Granted
    /\ leaseOf \in [LeaseIds -> Lease \cup {NoLease}]
    /\ clock \in 0..MaxClock
    /\ owner \in [LeaseIds -> Runs \cup {NoRun}]
    /\ phase \in [Runs -> Phases]
    /\ \A r \in Runs :
           /\ taken[r] \in Seq(LeaseIds) /\ Len(taken[r]) <= Len(Wanted(r))
           /\ toRelease[r] \in Seq(LeaseIds) /\ Len(toRelease[r]) <= Len(taken[r])
    /\ context \in [Runs -> SUBSET LeaseIds]
    /\ working \in [Runs -> BOOLEAN]
    /\ inherited \in [Runs -> BOOLEAN]
    /\ dog \in DogState
    /\ flags \subseteq Granted
    /\ ledger \subseteq Surfaces \X Runs
    /\ settled \subseteq Granted
    /\ faults \in 0..MaxFaults

Init ==
    /\ Registry!Init
    /\ owner = [l \in LeaseIds |-> NoRun]
    /\ phase = [r \in Runs |-> "new"]
    /\ taken = [r \in Runs |-> <<>>]
    /\ toRelease = [r \in Runs |-> <<>>]
    /\ context = [r \in Runs |-> {}]
    /\ working = [r \in Runs |-> FALSE]
    /\ inherited = [r \in Runs |-> FALSE]
    /\ dog = IdleDog
    /\ flags = {}
    /\ ledger = {}
    /\ settled = {}
    /\ faults = 0

-----------------------------------------------------------------------------
(* Failures and refusals.                                                  *)

Fault == faults < MaxFaults /\ faults' = faults + 1
NoFault == UNCHANGED faults

\* The end of a refused admit(): release what was taken, if anything was.
Refuse(r) ==
    /\ phase' = [phase EXCEPT ![r] = IF taken[r] = <<>> THEN "ended" ELSE "unwinding"]
    /\ toRelease' = [toRelease EXCEPT ![r] = taken[r]]
    /\ UNCHANGED <<taken, context, working, inherited, watchdog, settled>>

-----------------------------------------------------------------------------
(* admit.                                                                  *)

\* _id_fn: ids are random and nothing compares them, so any unused one will do.
FreshId == CHOOSE l \in LeaseIds : l \notin Granted

(* One reservation decided at instant g, in the order budget, slots.  Its  *)
(* few optimistic attempts are over long before the lease would expire.    *)
(* Bounds: ids are left, and time for the lease to expire.                 *)
Reserves(r, g) ==
    /\ phase[r] \in {"new", "reserving"}
    /\ Len(taken[r]) < Len(Wanted(r))
    /\ Granted # LeaseIds
    /\ clock < g + TTL /\ g + TTL <= MaxClock
    /\ LET s == Wanted(r)[Len(taken[r]) + 1] IN Registry!Grant(FreshId, s, 1, Cap[s], g)
    /\ owner' = [owner EXCEPT ![FreshId] = r]

Reserve(r, g) ==
    /\ Reserves(r, g)
    /\ phase' = [phase EXCEPT ![r] = "reserving"]
    /\ taken' = [taken EXCEPT ![r] = Append(@, FreshId)]
    /\ UNCHANGED <<toRelease, context, working, inherited, watchdog, settled>> /\ NoFault

\* The reply of the EXEC is lost: stored, but the caller sees a failure.
ReserveLost(r, g) ==
    /\ Reserves(r, g)
    /\ Refuse(r)
    /\ Fault

(* Policy, an unpriced per-token model, a cap that is reached or missing,  *)
(* or an unreachable registry: AdmissionDenied.                            *)
ReserveRefused(r) ==
    /\ phase[r] \in {"new", "reserving"}
    /\ Len(taken[r]) < Len(Wanted(r))
    /\ Refuse(r)
    /\ UNCHANGED registry /\ NoFault

\* The record of the finished reservation fails its validation.
RecordInvalid(r) ==
    /\ phase[r] = "reserving"
    /\ Len(taken[r]) = Len(Wanted(r))
    /\ Refuse(r)
    /\ UNCHANGED registry /\ NoFault

\* The record is valid; Admission.context() names the leases that were taken.
Admit(r) ==
    /\ phase[r] = "reserving"
    /\ Len(taken[r]) = Len(Wanted(r))
    /\ phase' = [phase EXCEPT ![r] = "admitted"]
    /\ context' = [context EXCEPT ![r] = Kept(r)]
    /\ UNCHANGED <<registry, taken, toRelease, working, inherited, watchdog, settled>>
    /\ NoFault

\* Mutant: the admission expires with its last lease.
ExpiresWithTheLast(r) ==
    CHOOSE t \in 0..MaxClock :
        /\ \A l \in context[r] : t >= leaseOf[l].expiresAt
        /\ \E l \in context[r] : t = leaseOf[l].expiresAt

\* Admission.expires_at, which the context repeats: the first lease to expire.
ExpiresAt(r) ==
    CHOOSE t \in 0..MaxClock :
        /\ \A l \in context[r] : t <= leaseOf[l].expiresAt
        /\ \E l \in context[r] : t = leaseOf[l].expiresAt

\* Somebody has the context: the body it is bound for, or what inherited it.
IsCarried(r) == phase[r] = "admitted" \/ inherited[r]

\* Mutant: the expiry of the context is not looked at.
ContextIsPresent(r) == IsCarried(r)

\* require_admission: the carried context alone, no registry read.
ContextIsLive(r) == IsCarried(r) /\ clock < ExpiresAt(r)

\* verify: the same question put to the registry.
Verifies(r) == context[r] \subseteq LiveIn(claims, clock)

-----------------------------------------------------------------------------
(* The body of `with admitted(...)`, and who inherits its context.         *)

\* run_agentic; the body may call it any number of times.
Invoke(r) ==
    /\ phase[r] = "admitted" /\ ContextIsLive(r) /\ ~ working[r]
    /\ working' = [working EXCEPT ![r] = TRUE]
    /\ UNCHANGED <<registry, phase, taken, toRelease, context, inherited, watchdog, settled>>
    /\ NoFault

InvokeReturns(r) ==
    /\ working[r]
    /\ working' = [working EXCEPT ![r] = FALSE]
    /\ UNCHANGED <<registry, phase, taken, toRelease, context, inherited, watchdog, settled>>
    /\ NoFault

\* bind_context also stamps the environment: a process started inside the
\* block inherits it.  Its calls of run_agentic pass by ContextIsLive alone.
Spawn(r) ==
    /\ phase[r] = "admitted" /\ ~ inherited[r]
    /\ inherited' = [inherited EXCEPT ![r] = TRUE]
    /\ UNCHANGED <<registry, phase, taken, toRelease, context, working, watchdog, settled>>
    /\ NoFault

\* admit_cells: the context goes into the queued job, nothing is released.
HandOver(r) ==
    /\ phase[r] = "admitted" /\ ~ working[r]
    /\ inherited' = [inherited EXCEPT ![r] = TRUE]
    /\ phase' = [phase EXCEPT ![r] = "ended"]
    /\ taken' = [taken EXCEPT ![r] = <<>>]
    /\ UNCHANGED <<registry, toRelease, context, working, watchdog, settled>> /\ NoFault

\* The last child exits, or the job is dropped: the admission is not theirs to release.
HeirEnds(r) ==
    /\ inherited[r]
    /\ inherited' = [inherited EXCEPT ![r] = FALSE]
    /\ UNCHANGED <<registry, phase, taken, toRelease, context, working, watchdog, settled>>
    /\ NoFault

\* The body returns or raises; `finally` begins to release.
BodyEnds(r) ==
    /\ phase[r] = "admitted" /\ ~ working[r]
    /\ phase' = [phase EXCEPT ![r] = "releasing"]
    /\ toRelease' = [toRelease EXCEPT ![r] = taken[r]]
    /\ UNCHANGED <<registry, taken, context, working, inherited, watchdog, settled>> /\ NoFault

-----------------------------------------------------------------------------
(* The two release loops.                                                  *)

\* The loop leaves the leases `left` to visit.
LoopOn(r, left) ==
    /\ toRelease' = [toRelease EXCEPT ![r] = left]
    /\ phase' = [phase EXCEPT ![r] = IF left = <<>> THEN "ended" ELSE @]
    /\ taken' = [taken EXCEPT ![r] = IF left = <<>> THEN <<>> ELSE @]
    /\ UNCHANGED <<context, working, inherited, watchdog>>

\* registry.release: idempotent, an absent lease is no error.
ReleaseNext(r) ==
    /\ phase[r] \in {"unwinding", "releasing"}
    /\ LET l == Head(toRelease[r]) IN
       /\ IF l \in claims THEN Registry!Withdraw(l)
                          ELSE UNCHANGED <<claims, leaseOf, clock>>
       /\ settled' = IF IsExpired(l, clock) THEN settled ELSE settled \cup {l}
    /\ LoopOn(r, Tail(toRelease[r]))
    /\ UNCHANGED owner /\ NoFault

\* release() raises: _release_all notes it and goes on to the next lease ...
UnwindFails(r) ==
    /\ phase[r] = "unwinding"
    /\ LoopOn(r, Tail(toRelease[r]))
    /\ UNCHANGED <<registry, settled>> /\ Fault

\* ... while AdmissionController.release is left by the exception at once.
ReleaseFails(r) ==
    /\ phase[r] = "releasing"
    /\ LoopOn(r, <<>>)
    /\ UNCHANGED <<registry, settled>> /\ Fault

\* The process dies; a child of it may live on.
Crash(r) ==
    /\ phase[r] \notin {"new", "ended"}
    /\ phase' = [phase EXCEPT ![r] = "ended"]
    /\ taken' = [taken EXCEPT ![r] = <<>>]
    /\ toRelease' = [toRelease EXCEPT ![r] = <<>>]
    /\ working' = [working EXCEPT ![r] = FALSE]
    /\ UNCHANGED <<registry, context, inherited, watchdog, settled>> /\ Fault

-----------------------------------------------------------------------------
(* sweep_once.                                                             *)

DogOnly(b) ==
    /\ dog' = b
    /\ UNCHANGED <<leaseOf, clock, owner, runs, settled>>

\* Mutant: the sweep visits the budgets only.
DogBeginOnBudgets ==
    /\ dog.at = "idle"
    /\ claims # {}
    /\ DogOnly([dog EXCEPT !.at = "sweep",
                           !.todo = {leaseOf[l].scope : l \in {m \in claims : IsBudget(m)}}])
    /\ UNCHANGED <<claims, flags, ledger>> /\ NoFault

\* Every scope the index names; with an empty index there is nothing to do.
DogBegin ==
    /\ dog.at = "idle"
    /\ claims # {}
    /\ DogOnly([dog EXCEPT !.at = "sweep", !.todo = {leaseOf[l].scope : l \in claims}])
    /\ UNCHANGED <<claims, flags, ledger>> /\ NoFault

\* _expire_scope: one transaction for each scope.
DogExpire(s) ==
    /\ dog.at = "sweep" /\ s \in dog.todo
    /\ LET gone == ExpiredIn(OfScope(claims, s), clock) IN
       /\ claims' = claims \ gone
       /\ DogOnly([dog EXCEPT !.todo = @ \ {s}, !.list = @ \cup gone])
    /\ UNCHANGED <<flags, ledger>> /\ NoFault

DogSwept ==
    /\ dog.at = "sweep" /\ dog.todo = {}
    /\ DogOnly(IF dog.list = {} THEN IdleDog ELSE [dog EXCEPT !.at = "flag"])
    /\ UNCHANGED <<claims, flags, ledger>> /\ NoFault

\* The list is worked off by expiry: the lease at its head.
NextReported ==
    CHOOSE l \in dog.list : \A m \in dog.list : leaseOf[l].expiresAt <= leaseOf[m].expiresAt

\* The pass is through with the lease at the head of the list.
Reported ==
    LET left == dog.list \ {NextReported} IN
    IF left = {} THEN IdleDog ELSE [dog EXCEPT !.at = "flag", !.list = left]

\* Mutant: a slot that expires quarantines like a budget that expires.
AfterFlagAlike == [dog EXCEPT !.at = "worktree"]

\* Concurrency expiry: flag only.  Budget expiry: quarantine both surfaces.
AfterFlag == IF IsBudget(NextReported) THEN [dog EXCEPT !.at = "worktree"] ELSE Reported

\* emit_flag; a failed write is noted and the pass goes on.
DogFlag(written) ==
    /\ dog.at = "flag"
    /\ flags' = IF written THEN flags \cup {NextReported} ELSE flags
    /\ DogOnly(AfterFlag)
    /\ UNCHANGED <<claims, ledger>>
    /\ IF written THEN NoFault ELSE Fault

\* QuarantineRegistry.quarantine: a surface that is marked already stays as it is.
Quarantine(surface, r) == ledger' = ledger \cup {<<surface, r>>}

\* _quarantine_observation, one surface after the other, each on its own: the
\* lease may carry no handle for it, or the mark cannot be written.
DogQuarantine ==
    /\ dog.at \in Surfaces
    /\ Quarantine(dog.at, owner[NextReported]) \/ UNCHANGED ledger
    /\ DogOnly(IF dog.at = "worktree" THEN [dog EXCEPT !.at = "result_namespace"]
                                      ELSE Reported)
    /\ UNCHANGED <<claims, flags>> /\ NoFault

\* expire_leases raises, or the watchdog dies: what it has collected is lost.
DogFails ==
    /\ dog.at # "idle"
    /\ DogOnly(IdleDog)
    /\ UNCHANGED <<claims, flags, ledger>> /\ Fault

-----------------------------------------------------------------------------
(* Time.  The registry's key TTL (a week, against leases of an hour) lies  *)
(* beyond the horizon of this module.                                      *)
Tick ==
    /\ clock < MaxClock
    /\ clock' = clock + 1
    /\ UNCHANGED <<claims, leaseOf, owner, runs, watchdog, settled>>
    /\ NoFault

RunStep(r) ==
    \/ \E g \in 0..MaxClock : Reserve(r, g) \/ ReserveLost(r, g)
    \/ ReserveRefused(r) \/ RecordInvalid(r) \/ Admit(r)
    \/ Invoke(r) \/ InvokeReturns(r) \/ BodyEnds(r)
    \/ Spawn(r) \/ HandOver(r) \/ HeirEnds(r)
    \/ ReleaseNext(r) \/ UnwindFails(r) \/ ReleaseFails(r)
    \/ Crash(r)

DogStep ==
    \/ DogBegin
    \/ \E s \in Scopes : DogExpire(s)
    \/ DogSwept
    \/ \E written \in BOOLEAN : DogFlag(written)
    \/ DogQuarantine
    \/ DogFails

Next == Tick \/ DogStep \/ \E r \in Runs : RunStep(r)

\* The clock does not stop, and the watchdog loop runs as a service.
Fairness == WF_vars(Tick) /\ WF_vars(DogStep)

Spec == Init /\ [][Next]_vars /\ Fairness

-----------------------------------------------------------------------------
(* Properties.                                                             *)

(* What passes require_admission, which reads nothing but the context, is  *)
(* outstanding in the registry as long as the admission itself is in       *)
(* force.  A child or a job that carries the context further may be stale  *)
(* ("a child that inherited an admission whose parent has since released   *)
(* it"), but only by what that release gave back: no sweep, no prune by    *)
(* another run and no unwind takes a lease from under a carried context.   *)
ContextIsBacked ==
    \A r \in Runs : ContextIsLive(r) =>
        /\ phase[r] = "admitted" => Verifies(r)
        /\ context[r] \ settled \subseteq LiveIn(claims, clock)

(* Whoever may still invoke a backend, in the body of an admission or with *)
(* a context inherited from it, holds of each counter no more than its cap *)
(* in leases that were not given back, whatever was refused, unwound, lost *)
(* or swept before.  Only an heir that outlived a release comes on top.    *)
FleetWithinCap ==
    \A s \in Scopes :
        Total({l \in OfScope(Granted \ settled, s) :
                 \E r \in Runs : ContextIsLive(r) /\ l \in context[r]}) <= Cap[s]

(* "A quarantine that fires on healthy work is one operators learn to      *)
(* ignore": a run that gave its budget lease up in time is not             *)
(* quarantined, even when one of its slots expired.                        *)
OnlyOverdueQuarantined ==
    \A m \in ledger :
        \E l \in Granted : owner[l] = m[2] /\ IsBudget(l) /\ l \notin settled
                           /\ IsExpired(l, clock)

(* "Release is the fast path, expiry is the guarantee": whatever way a run *)
(* ended (refused, unwound with errors, lost reply, failed release, crash) *)
(* the registry is free of its leases in the end.                          *)
EndedRunsAreReclaimed ==
    \A r \in Runs :
        phase[r] = "ended" ~> \A l \in LeaseIds : owner[l] = r => l \notin claims
=============================================================================

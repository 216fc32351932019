---------------------------- MODULE LeaseRegistry ---------------------------
(***************************************************************************)
(* control/lease_registry.py: budget and concurrency leases in Redis.      *)
(*                                                                         *)
(* Redis holds one hash per scope (lease id -> payload), one index hash    *)
(* (lease id -> scope key), one cap per scope and a TTL on every hash.     *)
(* Each operation is a WATCH / read / MULTI / EXEC loop.  The read (WATCH  *)
(* and HGETALL) and the EXEC are separate steps, and the EXEC is refused   *)
(* when a watched key was written in between.  A write between WATCH and   *)
(* HGETALL only adds a refusal that a write just after HGETALL gives too,  *)
(* so those two are one step.                                              *)
(***************************************************************************)
EXTENDS LeaseBook

CONSTANTS
    Clients,      \* processes with a LeaseRegistry: launchers, workers, watchdogs
    ExplicitCaps, \* hard_cap arguments callers pass instead of the installed cap
    KeyTTL,       \* KEY_TTL_SECONDS
    MaxRetries    \* max_retries

ASSUME RegistryAssumption ==
    /\ ExplicitCaps \subseteq Caps
    /\ KeyTTL \in Nat /\ KeyTTL >= TTL
    /\ MaxRetries \in Nat \ {0}

VARIABLES
    hash,         \* scope -> ids in the scope's hash
    index,        \* lease id -> scope, NoScope when the index has no such field
    cap,          \* scope -> installed cap, 0 when none is installed
    keyExpiry,    \* Redis key -> the instant its TTL runs out
    call,         \* the operation each client is in
    dirty,        \* a key the client watches was written since its WATCH
    held,         \* leases returned to the client that it has not given up
    returned,     \* leases expire_leases() calls have handed to their callers
    ceiling       \* the largest cap a call has used on the scope (history)

keys == <<hash, index, leaseOf, keyExpiry>>
vars == <<hash, index, leaseOf, cap, keyExpiry, clock, call, dirty, held,
          returned, ceiling>>

\* _index_key; a scope's own key is the scope.
IndexKey == "index"
RedisKeys == Scopes \cup {IndexKey}
ASSUME IndexKeyIsNoScope == IndexKey \notin Scopes

Points == {"idle", "reserve_read", "reserve_exec", "release_read",
           "release_exec", "sweep_read", "sweep_exec"}

(* The locals of one call: the counter, the amount and the cap it was      *)
(* resolved to; the instant of the read; the ids the EXEC deletes; the     *)
(* retries used; for a sweep the scopes to go and the leases collected.    *)
CallState == [at : Points, scope : Scopes \cup {NoScope}, amount : 0..MaxAmount,
              cap : 0..MaxCap, now : Nat, drop : SUBSET LeaseIds,
              attempts : 0..MaxRetries, todo : SUBSET Scopes,
              swept : SUBSET LeaseIds]

Idle == [at |-> "idle", scope |-> NoScope, amount |-> 0, cap |-> 0, now |-> 0,
         drop |-> {}, attempts |-> 0, todo |-> {}, swept |-> {}]

Atomic == INSTANCE AtomicLeases WITH claims <- UNION {hash[s] : s \in Scopes}

TypeOK ==
    /\ hash \in [Scopes -> SUBSET LeaseIds]
    /\ index \in [LeaseIds -> Scopes \cup {NoScope}]
    /\ leaseOf \in [LeaseIds -> Lease \cup {NoLease}]
    /\ cap \in [Scopes -> 0..MaxCap]
    /\ keyExpiry \in [RedisKeys -> Nat]
    /\ clock \in 0..MaxClock
    /\ call \in [Clients -> CallState]
    /\ dirty \in [Clients -> BOOLEAN]
    /\ held \in [Clients -> SUBSET LeaseIds]
    /\ returned \subseteq LeaseIds
    /\ ceiling \in [Scopes -> 0..MaxCap]

Init ==
    /\ hash = [s \in Scopes |-> {}]
    /\ index = [l \in LeaseIds |-> NoScope]
    /\ leaseOf = [l \in LeaseIds |-> NoLease]
    /\ cap = [s \in Scopes |-> 0]
    /\ keyExpiry = [k \in RedisKeys |-> 0]
    /\ clock = 0
    /\ call = [c \in Clients |-> Idle]
    /\ dirty = [c \in Clients |-> FALSE]
    /\ held = [c \in Clients |-> {}]
    /\ returned = {}
    /\ ceiling = [s \in Scopes |-> 0]

-----------------------------------------------------------------------------
(* Redis.                                                                  *)

\* Mutant: _reserve forgets its WATCH.
WatchedButReserve(c) ==
    IF call[c].at \in {"release_exec", "sweep_exec"}
    THEN {call[c].scope, IndexKey}
    ELSE {}

\* Mutant: _expire_scope forgets its WATCH.
WatchedButSweep(c) ==
    IF call[c].at \in {"reserve_exec", "release_exec"}
    THEN {call[c].scope, IndexKey}
    ELSE {}

\* The keys client c has under WATCH.
Watched(c) ==
    IF call[c].at \in {"reserve_exec", "release_exec", "sweep_exec"}
    THEN {call[c].scope, IndexKey}
    ELSE {}

\* Writing the keys K marks every other client that watches one of them.
Touch(c, K) ==
    dirty' = [d \in Clients |->
                 IF d = c THEN FALSE ELSE dirty[d] \/ Watched(d) \cap K # {}]

\* Mutant: the HDEL on the scope's hash is missing.
DeleteFromIndex(s, ids) ==
    /\ index' = [l \in LeaseIds |-> IF l \in ids THEN NoScope ELSE index[l]]
    /\ UNCHANGED hash

\* Mutant: DEL of the scope's key where HDEL of the fields is meant.
DeleteKey(s, ids) ==
    /\ hash' = [hash EXCEPT ![s] = {}]
    /\ index' = [l \in LeaseIds |-> IF l \in hash[s] THEN NoScope ELSE index[l]]

\* The two HDELs of an EXEC.
Delete(s, ids) ==
    /\ hash' = [hash EXCEPT ![s] = @ \ ids]
    /\ index' = [l \in LeaseIds |-> IF l \in ids THEN NoScope ELSE index[l]]

\* Redis keeps no empty hash.
KeyExists(k) ==
    IF k = IndexKey THEN \E l \in LeaseIds : index[l] # NoScope ELSE hash[k] # {}

\* Time passes; a hash whose TTL has run out is gone, for its watchers too.
Tick ==
    /\ clock < MaxClock
    /\ clock' = clock + 1
    /\ LET gone == {k \in RedisKeys : clock' >= keyExpiry[k]} IN
       /\ hash' = [s \in Scopes |-> IF s \in gone THEN {} ELSE hash[s]]
       /\ index' = [l \in LeaseIds |-> IF IndexKey \in gone THEN NoScope ELSE index[l]]
       /\ dirty' = [d \in Clients |->
              dirty[d] \/ \E k \in gone \cap Watched(d) : KeyExists(k)]
    /\ UNCHANGED <<leaseOf, cap, keyExpiry, call, held, returned, ceiling>>

-----------------------------------------------------------------------------
(* Caps.                                                                   *)

SetCap(s, k) ==
    /\ cap' = [cap EXCEPT ![s] = k]
    /\ UNCHANGED <<keys, clock, call, dirty, held, returned, ceiling>>

\* _resolve_cap: the explicit cap, else the installed one, else no call at all.
ResolvedCaps(s) == ExplicitCaps \cup ({cap[s]} \ {0})

-----------------------------------------------------------------------------
(* reserve_budget / reserve_concurrency and the shared _reserve.           *)

\* Bound: a reservation starts only while an unused id is left for it.
FreshIdLeft ==
    Cardinality({c \in Clients : call[c].at \in {"reserve_read", "reserve_exec"}})
        < Cardinality({l \in LeaseIds : leaseOf[l] = NoLease})

\* The cap is read here, before any WATCH, and kept for the whole call.
ReserveBegin(c, s, a, k) ==
    /\ call[c].at = "idle"
    /\ FreshIdLeft
    /\ k \in ResolvedCaps(s)
    /\ call' = [call EXCEPT ![c] =
           [Idle EXCEPT !.at = "reserve_read", !.scope = s, !.amount = a, !.cap = k]]
    /\ ceiling' = [ceiling EXCEPT ![s] = IF k > @ THEN k ELSE @]
    /\ UNCHANGED <<keys, cap, clock, dirty, held, returned>>

\* Mutant: the requested amount is left out of the comparison.
FitsAlready(c) == Total(LiveIn(hash[call[c].scope], clock)) <= call[c].cap

Fits(c) ==
    Total(LiveIn(hash[call[c].scope], clock)) + call[c].amount <= call[c].cap

\* WATCH, HGETALL, _partition, and the claim fits.
ReserveRead(c) ==
    /\ call[c].at = "reserve_read"
    /\ Fits(c)
    /\ call' = [call EXCEPT ![c] =
           [@ EXCEPT !.at = "reserve_exec", !.now = clock,
                     !.drop = ExpiredIn(hash[call[c].scope], clock)]]
    /\ UNCHANGED <<keys, cap, clock, dirty, held, returned, ceiling>>

\* LeaseDeniedError: nothing was written, expired leases stay where they are.
ReserveDenied(c) ==
    /\ call[c].at = "reserve_read"
    /\ ~ Fits(c)
    /\ call' = [call EXCEPT ![c] = Idle]
    /\ UNCHANGED <<keys, cap, clock, dirty, held, returned, ceiling>>

(* EXEC: prune what was expired at the read, store the lease in the scope  *)
(* and the index, refresh both TTLs.  When the reply is lost the lease is  *)
(* stored but the caller gets LeaseUnavailableError and never knows it.    *)
ReserveCommit(c, l, reply) ==
    /\ call[c].at = "reserve_exec"
    /\ ~ dirty[c]
    /\ leaseOf[l] = NoLease
    /\ LET s == call[c].scope  gone == call[c].drop  now == call[c].now IN
       /\ hash' = [hash EXCEPT ![s] = (@ \ gone) \cup {l}]
       /\ index' = [m \in LeaseIds |->
              IF m = l THEN s ELSE IF m \in gone THEN NoScope ELSE index[m]]
       /\ leaseOf' = [leaseOf EXCEPT ![l] =
              [scope |-> s, amount |-> call[c].amount, hardCap |-> call[c].cap,
               grantedAt |-> now, expiresAt |-> now + TTL]]
       /\ keyExpiry' = [keyExpiry EXCEPT ![s] = clock + KeyTTL,
                                         ![IndexKey] = clock + KeyTTL]
       /\ Touch(c, {s, IndexKey})
    /\ held' = IF reply THEN [held EXCEPT ![c] = @ \cup {l}] ELSE held
    /\ call' = [call EXCEPT ![c] = Idle]
    /\ UNCHANGED <<cap, clock, returned, ceiling>>

-----------------------------------------------------------------------------
(* release.                                                                *)

\* The holder gives the lease up; no caller of release() ever tries again.
ReleaseBegin(c, l) ==
    /\ call[c].at = "idle"
    /\ l \in held[c]
    /\ call' = [call EXCEPT ![c] = [Idle EXCEPT !.at = "release_read", !.drop = {l}]]
    /\ held' = [held EXCEPT ![c] = @ \ {l}]
    /\ UNCHANGED <<keys, cap, clock, dirty, returned, ceiling>>

ReleaseRead(c) ==
    /\ call[c].at = "release_read"
    /\ \E s \in Scopes :
           /\ \A l \in call[c].drop : index[l] = s
           /\ call' = [call EXCEPT ![c] = [@ EXCEPT !.at = "release_exec", !.scope = s]]
    /\ UNCHANGED <<keys, cap, clock, dirty, held, returned, ceiling>>

\* The index has no such lease: an idempotent no-op that returns None.
ReleaseAbsent(c) ==
    /\ call[c].at = "release_read"
    /\ \A l \in call[c].drop : index[l] = NoScope
    /\ call' = [call EXCEPT ![c] = Idle]
    /\ UNCHANGED <<keys, cap, clock, dirty, held, returned, ceiling>>

ReleaseCommit(c) ==
    /\ call[c].at = "release_exec"
    /\ ~ dirty[c]
    /\ Delete(call[c].scope, call[c].drop)
    /\ Touch(c, {call[c].scope, IndexKey})
    /\ call' = [call EXCEPT ![c] = Idle]
    /\ UNCHANGED <<leaseOf, cap, keyExpiry, clock, held, returned, ceiling>>

-----------------------------------------------------------------------------
(* expire_leases and _expire_scope.                                        *)

\* One read of the index names the scopes to visit.
SweepBegin(c) ==
    /\ call[c].at = "idle"
    /\ call' = [call EXCEPT ![c] =
           [Idle EXCEPT !.at = "sweep_read",
                        !.todo = {s \in Scopes : \E l \in LeaseIds : index[l] = s}]]
    /\ UNCHANGED <<keys, cap, clock, dirty, held, returned, ceiling>>

\* The scope being retried, or else any scope still to visit.
NextScopes(c) ==
    IF call[c].scope = NoScope THEN call[c].todo ELSE {call[c].scope}

SweepRead(c, s) ==
    /\ call[c].at = "sweep_read"
    /\ s \in NextScopes(c)
    /\ ExpiredIn(hash[s], clock) # {}
    /\ call' = [call EXCEPT ![c] =
           [@ EXCEPT !.at = "sweep_exec", !.scope = s, !.now = clock,
                     !.drop = ExpiredIn(hash[s], clock)]]
    /\ UNCHANGED <<keys, cap, clock, dirty, held, returned, ceiling>>

\* The scope is done: its locals go back to their initial values.
ScopeDone(c, s, got) ==
    call' = [call EXCEPT ![c] =
        [Idle EXCEPT !.at = "sweep_read", !.todo = call[c].todo \ {s},
                     !.swept = call[c].swept \cup got]]

SweepNothing(c, s) ==
    /\ call[c].at = "sweep_read"
    /\ s \in NextScopes(c)
    /\ ExpiredIn(hash[s], clock) = {}
    /\ ScopeDone(c, s, {})
    /\ UNCHANGED <<keys, cap, clock, dirty, held, returned, ceiling>>

\* EXEC; when its reply is lost the call raises and its list is gone with it.
SweepCommit(c, reply) ==
    /\ call[c].at = "sweep_exec"
    /\ ~ dirty[c]
    /\ Delete(call[c].scope, call[c].drop)
    /\ Touch(c, {call[c].scope, IndexKey})
    /\ IF reply THEN ScopeDone(c, call[c].scope, call[c].drop)
                ELSE call' = [call EXCEPT ![c] = Idle]
    /\ UNCHANGED <<leaseOf, cap, keyExpiry, clock, held, returned, ceiling>>

SweepReturn(c) ==
    /\ call[c].at = "sweep_read"
    /\ NextScopes(c) = {}
    /\ returned' = returned \cup call[c].swept
    /\ call' = [call EXCEPT ![c] = Idle]
    /\ UNCHANGED <<keys, cap, clock, dirty, held, ceiling>>

-----------------------------------------------------------------------------
(* What every loop does on a WatchError, and what may end a call early.    *)

ReadPoint(at) ==
    CASE at = "reserve_exec" -> "reserve_read"
      [] at = "release_exec" -> "release_read"
      [] at = "sweep_exec"   -> "sweep_read"

ReadAgain(c) ==
    [call[c] EXCEPT !.at = ReadPoint(call[c].at), !.attempts = @ + 1]

\* EXEC refused: read again while attempts are left, else LeaseDeniedError.
ExecRefused(c) ==
    /\ call[c].at \in {"reserve_exec", "release_exec", "sweep_exec"}
    /\ dirty[c]
    /\ call' = [call EXCEPT ![c] =
           IF call[c].attempts + 1 < MaxRetries THEN ReadAgain(c) ELSE Idle]
    /\ dirty' = [dirty EXCEPT ![c] = FALSE]
    /\ UNCHANGED <<keys, cap, clock, held, returned, ceiling>>

\* A Redis error before the EXEC: LeaseUnavailableError, nothing written.
CallFails(c) ==
    /\ call[c].at # "idle"
    /\ call' = [call EXCEPT ![c] = Idle]
    /\ dirty' = [dirty EXCEPT ![c] = FALSE]
    /\ UNCHANGED <<keys, cap, clock, held, returned, ceiling>>

\* The process dies; what it holds is reclaimed by expiry alone.
Crash(c) ==
    /\ call' = [call EXCEPT ![c] = Idle]
    /\ dirty' = [dirty EXCEPT ![c] = FALSE]
    /\ held' = [held EXCEPT ![c] = {}]
    /\ UNCHANGED <<keys, cap, clock, returned, ceiling>>

-----------------------------------------------------------------------------
Begin(c) ==
    \/ \E s \in Scopes, a \in Amounts, k \in Caps : ReserveBegin(c, s, a, k)
    \/ \E l \in LeaseIds : ReleaseBegin(c, l)
    \/ SweepBegin(c)

Step(c) ==
    \/ ReserveRead(c) \/ ReserveDenied(c)
    \/ \E l \in LeaseIds, reply \in BOOLEAN : ReserveCommit(c, l, reply)
    \/ ReleaseRead(c) \/ ReleaseAbsent(c) \/ ReleaseCommit(c)
    \/ \E s \in Scopes : SweepRead(c, s) \/ SweepNothing(c, s)
    \/ \E reply \in BOOLEAN : SweepCommit(c, reply)
    \/ SweepReturn(c)
    \/ ExecRefused(c)

Next ==
    \/ Tick
    \/ \E s \in Scopes, k \in Caps : SetCap(s, k)
    \/ \E c \in Clients : Begin(c) \/ Step(c) \/ CallFails(c) \/ Crash(c)

Spec == Init /\ [][Next]_vars

-----------------------------------------------------------------------------
(* Properties.                                                             *)

Stored == UNION {hash[s] : s \in Scopes}

\* Granted before l, and live at the instant l was granted.
LiveBefore(l, S) ==
    {m \in S : /\ leaseOf[m].grantedAt < leaseOf[l].grantedAt
               /\ leaseOf[m].expiresAt > leaseOf[l].grantedAt}

(* No interleaving of reservations, retries, releases and sweeps makes the *)
(* live claims of a scope add up to more than the largest cap any of the   *)
(* calls was made under: two calls never both commit on the same read.     *)
NoOversubscription ==
    \A s \in Scopes : Total(LiveIn(hash[s], clock)) <= ceiling[s]

(* "Cap in force when this lease was granted, recorded so an audit can     *)
(* replay the decision": from the stored payloads alone, what was granted  *)
(* before a lease and still live when it was granted fits under its cap    *)
(* together with it, whatever caps, retries and clock steps came between.  *)
AuditReplay ==
    \A s \in Scopes : \A l \in hash[s] :
        Total(LiveBefore(l, hash[s])) + leaseOf[l].amount <= leaseOf[l].hardCap

(* The index leads to every stored lease, which is what makes the sweep of *)
(* "every scope reachable from the registry index" total; key TTLs, lost   *)
(* replies and interrupted sweeps included.                                *)
EveryLeaseIndexed ==
    \A s \in Scopes : \A l \in hash[s] : index[l] = s /\ leaseOf[l].scope = s

(* A lease its holder was given and has not given up is stored until it    *)
(* expires: no prune, no sweep of another process, and no Redis key TTL    *)
(* ("a scope key must never expire out from under a live lease") takes it. *)
HeldUntilExpiry ==
    \A c \in Clients : \A l \in held[c] : ~ IsExpired(l, clock) => l \in Stored

(* Of several concurrent sweeps one collects an expired lease: the lists   *)
(* of sweeps under way and of sweeps that returned are disjoint, and what  *)
(* is on a list has left the registry.                                     *)
CollectedOnce ==
    /\ \A c, d \in Clients : c # d => call[c].swept \cap call[d].swept = {}
    /\ \A c \in Clients : call[c].swept \cap (returned \cup Stored) = {}
    /\ returned \cap Stored = {}

(* The optimistic transactions implement the atomic registry.              *)
ImplementsAtomicLeases == Atomic!Spec
=============================================================================

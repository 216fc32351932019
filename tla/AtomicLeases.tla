---------------------------- MODULE AtomicLeases ----------------------------
(***************************************************************************)
(* What the lease registry promises its callers, as one atomic step per    *)
(* operation: a claim is granted only when it fits under the cap the call  *)
(* used, a live claim disappears only by being released, an expired one    *)
(* may be dropped by anybody at any time.                                  *)
(*                                                                         *)
(* The registry itself (LeaseRegistry) implements this with optimistic     *)
(* Redis transactions; the admission gate and the watchdog (AdmissionGate) *)
(* are built on these atomic operations.                                   *)
(***************************************************************************)
EXTENDS LeaseBook

VARIABLE claims      \* ids of the leases the registry still stores

avars == <<claims, leaseOf, clock>>

Outstanding(s) == Total(LiveIn(OfScope(claims, s), clock))

-----------------------------------------------------------------------------
Init ==
    /\ claims = {}
    /\ leaseOf = [l \in LeaseIds |-> NoLease]
    /\ clock = 0

(* A grant decided at instant g (not after now): what was live in the      *)
(* scope at g, plus the new amount, fits under the cap the call used.      *)
(* Nobody was granted anything in the scope after g, so replaying the      *)
(* grants in the order of grantedAt meets the same totals.                 *)
Grant(l, s, a, k, g) ==
    /\ l \in LeaseIds \ Granted
    /\ g <= clock
    /\ \A m \in OfScope(claims, s) : leaseOf[m].grantedAt <= g
    /\ Total(LiveIn(OfScope(claims, s), g)) + a <= k
    /\ claims' = (claims \ ExpiredIn(OfScope(claims, s), g)) \cup {l}
    /\ leaseOf' = [leaseOf EXCEPT ![l] =
           [scope |-> s, amount |-> a, hardCap |-> k,
            grantedAt |-> g, expiresAt |-> g + TTL]]
    /\ UNCHANGED clock

\* release(): the only way a live claim goes away.
Withdraw(l) ==
    /\ l \in claims
    /\ claims' = claims \ {l}
    /\ UNCHANGED <<leaseOf, clock>>

\* A sweep: expired claims of one scope go.
Reclaim(s) ==
    /\ \E gone \in SUBSET ExpiredIn(OfScope(claims, s), clock) :
           /\ gone # {}
           /\ claims' = claims \ gone
    /\ UNCHANGED <<leaseOf, clock>>

\* Time passes; Redis may drop whole keys, whose claims are all expired by then.
Tick ==
    /\ clock < MaxClock
    /\ clock' = clock + 1
    /\ \E gone \in SUBSET ExpiredIn(claims, clock + 1) : claims' = claims \ gone
    /\ UNCHANGED leaseOf

Next ==
    \/ \E l \in LeaseIds, s \in Scopes, a \in Amounts, k \in Caps :
           \E g \in 0..MaxClock : Grant(l, s, a, k, g)
    \/ \E l \in LeaseIds : Withdraw(l)
    \/ \E s \in Scopes : Reclaim(s)
    \/ Tick

Spec == Init /\ [][Next]_avars
=============================================================================

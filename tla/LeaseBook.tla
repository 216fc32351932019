----------------------------- MODULE LeaseBook ------------------------------
(***************************************************************************)
(* The vocabulary the lease modules share: what a lease records, when it   *)
(* is expired and how much a set of leases claims                          *)
(* (control/lease_registry.py, the value objects and _partition).          *)
(***************************************************************************)
EXTENDS Integers, FiniteSets

CONSTANTS
    LeaseIds,    \* the ids _id_fn can draw (16 hex digits: finite)
    Scopes,      \* counters: a (LeaseKind, LeaseScope) pair each
    MaxAmount,   \* bound: the largest amount one lease claims, in whole units
    MaxCap,      \* bound: the largest cap in force
    TTL,         \* ttl_seconds of every lease
    MaxClock     \* bound: the last instant modelled

ASSUME LeaseIdsFinite == IsFiniteSet(LeaseIds)
ASSUME BoundsAreNaturals ==
    /\ MaxAmount \in Nat \ {0}
    /\ MaxCap \in Nat \ {0}
    /\ TTL \in Nat \ {0}
    /\ MaxClock \in Nat

\* The absence of a scope: an index field that is not there.
NoScope == "none"
ASSUME NoScopeIsNoScope == NoScope \notin Scopes

VARIABLES
    leaseOf,     \* the payload each id was granted with (immutable)
    clock        \* now_fn(): one clock, shared by every process of the host

Amounts == 1..MaxAmount
Caps    == 1..MaxCap

\* The fields of Lease the decisions read.
Lease == [scope : Scopes, amount : Amounts, hardCap : Caps,
          grantedAt : Nat, expiresAt : Nat]

NoLease == [scope |-> NoScope]

Granted == {l \in LeaseIds : leaseOf[l] # NoLease}

-----------------------------------------------------------------------------
(* Lease.is_expired: expiry is >=, so a lease lives strictly before it.    *)
IsExpired(l, now) == now >= leaseOf[l].expiresAt

\* _partition, the two halves: what a hash holds that is live, and what is not.
LiveIn(S, now)    == {l \in S : ~ IsExpired(l, now)}
ExpiredIn(S, now) == {l \in S : IsExpired(l, now)}

OfScope(S, s) == {l \in S : leaseOf[l].scope = s}

(* sum(lease.amount for lease in S), counted in whole units: one pair for  *)
(* every unit a lease claims, so that the sum is a cardinality.            *)
UnitsOf(payload, S) == {p \in S \X Amounts : p[2] <= payload[p[1]].amount}
Total(S) == Cardinality(UnitsOf(leaseOf, S))
=============================================================================

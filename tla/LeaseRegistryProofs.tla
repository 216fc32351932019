------------------------ MODULE LeaseRegistryProofs -------------------------
(***************************************************************************)
(* The registry's safety for every set of clients, scopes and lease ids    *)
(* and every cap, amount and TTL.                                          *)
(***************************************************************************)
EXTENDS LeaseRegistry, FiniteSetTheorems, TLAPS

LEMMA AmountsFinite == IsFiniteSet(Amounts) /\ Amounts \subseteq Nat
BY BoundsAreNaturals, FS_Interval DEF Amounts

\* The units of finitely many leases are finitely many, so a total is a natural.
LEMMA UnitsFinite ==
    ASSUME NEW f, NEW S \in SUBSET LeaseIds
    PROVE  IsFiniteSet(UnitsOf(f, S)) /\ Cardinality(UnitsOf(f, S)) \in Nat
<1>1. IsFiniteSet(S)
  BY LeaseIdsFinite, FS_Subset
<1>2. IsFiniteSet(S \X Amounts)
  BY <1>1, AmountsFinite, FS_Product
<1>3. UnitsOf(f, S) \subseteq S \X Amounts
  BY DEF UnitsOf
<1> QED
  BY <1>2, <1>3, FS_Subset, FS_CardinalityType

\* Fewer leases claim no more.
LEMMA UnitsMonotone ==
    ASSUME NEW f, NEW S \in SUBSET LeaseIds, NEW T \in SUBSET S
    PROVE  Cardinality(UnitsOf(f, T)) <= Cardinality(UnitsOf(f, S))
<1>1. UnitsOf(f, T) \subseteq UnitsOf(f, S)
  BY DEF UnitsOf
<1> QED
  BY <1>1, UnitsFinite, FS_Subset

\* A total depends on the payloads of its own leases only.
LEMMA UnitsAgree ==
    ASSUME NEW f, NEW g, NEW S \in SUBSET LeaseIds, \A l \in S : f[l] = g[l]
    PROVE  UnitsOf(f, S) = UnitsOf(g, S)
BY DEF UnitsOf

LEMMA CardinalityOfUnion ==
    ASSUME NEW S, NEW T, IsFiniteSet(S), IsFiniteSet(T)
    PROVE  IsFiniteSet(S \cup T) /\ Cardinality(S \cup T) <= Cardinality(S) + Cardinality(T)
<1>1. IsFiniteSet(S \cap T)
  BY FS_Subset
<1>2. Cardinality(S \cap T) \in Nat /\ Cardinality(S) \in Nat /\ Cardinality(T) \in Nat
  BY <1>1, FS_CardinalityType
<1>3. /\ IsFiniteSet(S \cup T)
      /\ Cardinality(S \cup T) = Cardinality(S) + Cardinality(T) - Cardinality(S \cap T)
  BY FS_Union
<1> QED
  BY <1>2, <1>3

LEMMA UnitsOfOne ==
    ASSUME NEW l, NEW n \in Nat
    PROVE  IsFiniteSet({l} \X (1..n)) /\ Cardinality({l} \X (1..n)) = n
<1>1. IsFiniteSet(1..n) /\ Cardinality(1..n) = n
  BY FS_Interval
<1>2. IsFiniteSet({l}) /\ Cardinality({l}) = 1
  BY FS_Singleton
<1>3. /\ IsFiniteSet({l} \X (1..n))
      /\ Cardinality({l} \X (1..n)) = Cardinality({l}) * Cardinality(1..n)
  BY <1>1, <1>2, FS_Product
<1>4. 1 * n = n
  OBVIOUS
<1> QED
  BY <1>1, <1>2, <1>3, <1>4

\* One more lease adds at most its own amount.
LEMMA UnitsAdd ==
    ASSUME NEW f, NEW S \in SUBSET LeaseIds, NEW l \in LeaseIds,
           NEW n \in Amounts, f[l].amount = n
    PROVE  Cardinality(UnitsOf(f, S \cup {l})) <= Cardinality(UnitsOf(f, S)) + n
<1>1. n \in Nat
  BY AmountsFinite
<1>2. IsFiniteSet({l} \X (1..n)) /\ Cardinality({l} \X (1..n)) = n
  BY <1>1, UnitsOfOne
<1>3. IsFiniteSet(UnitsOf(f, S))
  BY UnitsFinite
<1>4. UnitsOf(f, S \cup {l}) \subseteq UnitsOf(f, S) \cup ({l} \X (1..n))
  BY <1>1 DEF UnitsOf, Amounts
<1>5. /\ IsFiniteSet(UnitsOf(f, S) \cup ({l} \X (1..n)))
      /\ Cardinality(UnitsOf(f, S) \cup ({l} \X (1..n)))
            <= Cardinality(UnitsOf(f, S)) + Cardinality({l} \X (1..n))
  BY <1>2, <1>3, CardinalityOfUnion
<1>6. Cardinality(UnitsOf(f, S \cup {l}))
        <= Cardinality(UnitsOf(f, S) \cup ({l} \X (1..n)))
  BY <1>4, <1>5, FS_Subset
<1>7. /\ Cardinality(UnitsOf(f, S \cup {l})) \in Nat
      /\ Cardinality(UnitsOf(f, S)) \in Nat
      /\ Cardinality(UnitsOf(f, S) \cup ({l} \X (1..n))) \in Nat
  BY UnitsFinite, <1>5, FS_CardinalityType
<1> QED
  BY <1>1, <1>2, <1>5, <1>6, <1>7

-----------------------------------------------------------------------------
(* Type correctness.                                                       *)

LEMMA IdleIsCall == Idle \in CallState
BY BoundsAreNaturals, RegistryAssumption DEF Idle, CallState, Points

(* The arguments a call was made with survive its retries.  TypeOK alone   *)
(* is not inductive: the scope an EXEC writes must be a scope.             *)
CallArguments ==
    \A c \in Clients :
        /\ call[c].at \in {"reserve_read", "reserve_exec"} =>
               /\ call[c].scope \in Scopes
               /\ call[c].amount \in Amounts
               /\ call[c].cap \in Caps
               /\ call[c].cap <= ceiling[call[c].scope]
        /\ call[c].at \in {"release_exec", "sweep_exec"} => call[c].scope \in Scopes

WellTyped == TypeOK /\ CallArguments

LEMMA InitWellTyped == Init => WellTyped
<1> SUFFICES ASSUME Init PROVE WellTyped
  OBVIOUS
<1>1. TypeOK
  BY IdleIsCall, BoundsAreNaturals DEF Init, TypeOK, RedisKeys
<1>2. CallArguments
  BY DEF Init, CallArguments, Idle
<1> QED
  BY <1>1, <1>2 DEF WellTyped

\* The local states the calls go through.
LEMMA CallUpdates ==
    ASSUME NEW x \in CallState, NEW s \in Scopes, NEW n \in Nat,
           NEW D \in SUBSET LeaseIds, NEW E \in SUBSET LeaseIds
    PROVE  /\ \A a \in Amounts, k \in Caps :
                 [Idle EXCEPT !.at = "reserve_read", !.scope = s,
                              !.amount = a, !.cap = k] \in CallState
           /\ [x EXCEPT !.at = "reserve_exec", !.now = n, !.drop = D] \in CallState
           /\ [x EXCEPT !.at = "release_exec", !.scope = s] \in CallState
           /\ [x EXCEPT !.at = "sweep_exec", !.scope = s, !.now = n, !.drop = D] \in CallState
           /\ [Idle EXCEPT !.at = "sweep_read", !.todo = x.todo \ {s},
                           !.swept = x.swept \cup E] \in CallState
<1>1. \A a \in Amounts : a \in 0..MaxAmount
  BY BoundsAreNaturals DEF Amounts
<1>2. \A k \in Caps : k \in 0..MaxCap
  BY BoundsAreNaturals DEF Caps
<1>3. {"reserve_read", "reserve_exec", "release_exec", "sweep_read", "sweep_exec"} \subseteq Points
  BY DEF Points
<1>4. x.todo \ {s} \in SUBSET Scopes /\ x.swept \cup E \in SUBSET LeaseIds
  BY DEF CallState
<1>5. [x EXCEPT !.at = "reserve_exec", !.now = n, !.drop = D] \in CallState
  BY <1>3 DEF CallState
<1>6. [x EXCEPT !.at = "release_exec", !.scope = s] \in CallState
  BY <1>3 DEF CallState
<1>7. [x EXCEPT !.at = "sweep_exec", !.scope = s, !.now = n, !.drop = D] \in CallState
  BY <1>3 DEF CallState
<1>8. \A a \in Amounts, k \in Caps :
          [Idle EXCEPT !.at = "reserve_read", !.scope = s,
                       !.amount = a, !.cap = k] \in CallState
  BY <1>1, <1>2, <1>3, IdleIsCall DEF CallState
<1>9. \A T \in SUBSET Scopes, F \in SUBSET LeaseIds :
          [Idle EXCEPT !.at = "sweep_read", !.todo = T, !.swept = F] \in CallState
  BY <1>3, IdleIsCall DEF CallState
<1> QED
  BY <1>4, <1>5, <1>6, <1>7, <1>8, <1>9

LEMMA ReserveWellTyped ==
    ASSUME WellTyped, NEW c \in Clients
    PROVE  /\ \A s \in Scopes, a \in Amounts, k \in Caps :
                 ReserveBegin(c, s, a, k) => WellTyped'
           /\ ReserveRead(c) => WellTyped'
           /\ ReserveDenied(c) => WellTyped'
           /\ \A l \in LeaseIds, reply \in BOOLEAN : ReserveCommit(c, l, reply) => WellTyped'
<1> USE DEF WellTyped, TypeOK, keys
<1>0. call[c] \in CallState /\ clock \in Nat
  BY BoundsAreNaturals
<1>1. ASSUME NEW s \in Scopes, NEW a \in Amounts, NEW k \in Caps, ReserveBegin(c, s, a, k)
      PROVE  WellTyped'
  <2>1. /\ ceiling' \in [Scopes -> 0..MaxCap]
        /\ k <= ceiling'[s]
        /\ \A t \in Scopes : ceiling[t] <= ceiling'[t]
    BY <1>1, BoundsAreNaturals DEF ReserveBegin, Caps
  <2>2. call' \in [Clients -> CallState]
    BY <1>0, <1>1, CallUpdates DEF ReserveBegin
  <2>3. TypeOK'
    BY <1>1, <2>1, <2>2 DEF ReserveBegin
  <2>4. /\ call'[c].at = "reserve_read" /\ call'[c].scope = s
        /\ call'[c].amount = a /\ call'[c].cap = k
    BY <1>1 DEF ReserveBegin, Idle
  <2>5. \A d \in Clients \ {c} : call'[d] = call[d]
    BY <1>1 DEF ReserveBegin
  <2>6. ASSUME NEW d \in Clients, call[d].scope \in Scopes,
               call[d].cap \in Caps, call[d].cap <= ceiling[call[d].scope]
        PROVE  call[d].cap <= ceiling'[call[d].scope]
    BY <2>1, <2>6, BoundsAreNaturals DEF Caps
  <2>7. CallArguments'
    BY <2>1, <2>4, <2>5, <2>6 DEF CallArguments
  <2> QED
    BY <2>3, <2>7
<1>2. ASSUME ReserveRead(c)
      PROVE  WellTyped'
  <2>1. ExpiredIn(hash[call[c].scope], clock) \in SUBSET LeaseIds
    BY <1>2 DEF ExpiredIn, ReserveRead, CallArguments
  <2>2. call' \in [Clients -> CallState]
    BY <1>0, <1>2, <2>1, CallUpdates DEF ReserveRead, CallArguments
  <2>3. TypeOK'
    BY <1>2, <2>2 DEF ReserveRead
  <2>4. CallArguments'
    BY <1>2, <1>0 DEF ReserveRead, CallArguments, CallState
  <2> QED
    BY <2>3, <2>4
<1>3. ASSUME ReserveDenied(c)
      PROVE  WellTyped'
  <2>1. TypeOK'
    BY <1>3, IdleIsCall DEF ReserveDenied
  <2>2. CallArguments'
    BY <1>3 DEF ReserveDenied, CallArguments, Idle
  <2> QED
    BY <2>1, <2>2
<1>4. ASSUME NEW l \in LeaseIds, NEW reply \in BOOLEAN, ReserveCommit(c, l, reply)
      PROVE  WellTyped'
  <2>1. call[c].scope \in Scopes /\ call[c].amount \in Amounts /\ call[c].cap \in Caps
        /\ call[c].now \in Nat /\ call[c].now + TTL \in Nat
    BY <1>0, <1>4, BoundsAreNaturals DEF ReserveCommit, CallArguments, CallState
  <2>2. [scope |-> call[c].scope, amount |-> call[c].amount, hardCap |-> call[c].cap,
         grantedAt |-> call[c].now, expiresAt |-> call[c].now + TTL] \in Lease
    BY <2>1 DEF Lease
  <2>3. leaseOf' \in [LeaseIds -> Lease \cup {NoLease}]
    BY <1>4, <2>2 DEF ReserveCommit
  <2>4. hash' \in [Scopes -> SUBSET LeaseIds] /\ index' \in [LeaseIds -> Scopes \cup {NoScope}]
    BY <1>4, <2>1 DEF ReserveCommit
  <2>5. keyExpiry' \in [RedisKeys -> Nat]
    BY <1>0, <1>4, RegistryAssumption DEF ReserveCommit, RedisKeys
  <2>6. dirty' \in [Clients -> BOOLEAN] /\ held' \in [Clients -> SUBSET LeaseIds]
        /\ call' \in [Clients -> CallState]
    BY <1>4, IdleIsCall DEF ReserveCommit, Touch
  <2>7. TypeOK'
    BY <1>4, <2>3, <2>4, <2>5, <2>6 DEF ReserveCommit
  <2>8. CallArguments'
    BY <1>4 DEF ReserveCommit, CallArguments, Idle
  <2> QED
    BY <2>7, <2>8
<1> QED
  BY <1>1, <1>2, <1>3, <1>4

LEMMA DeleteTypes ==
    ASSUME TypeOK, NEW s \in Scopes, NEW D \in SUBSET LeaseIds, Delete(s, D)
    PROVE  /\ hash' \in [Scopes -> SUBSET LeaseIds]
           /\ index' \in [LeaseIds -> Scopes \cup {NoScope}]
BY DEF TypeOK, Delete

LEMMA ReleaseWellTyped ==
    ASSUME WellTyped, NEW c \in Clients
    PROVE  /\ \A l \in LeaseIds : ReleaseBegin(c, l) => WellTyped'
           /\ ReleaseRead(c) => WellTyped'
           /\ ReleaseAbsent(c) => WellTyped'
           /\ ReleaseCommit(c) => WellTyped'
<1> USE DEF WellTyped, TypeOK, keys
<1>0. call[c] \in CallState
  OBVIOUS
<1>1. ASSUME NEW l \in LeaseIds, ReleaseBegin(c, l)
      PROVE  WellTyped'
  <2>1. [Idle EXCEPT !.at = "release_read", !.drop = {l}] \in CallState
    <3>1. "release_read" \in Points
      BY DEF Points
    <3> QED
      BY <3>1, IdleIsCall DEF CallState
  <2>2. TypeOK'
    BY <1>1, <2>1 DEF ReleaseBegin
  <2>3. CallArguments'
    BY <1>1 DEF ReleaseBegin, CallArguments, Idle
  <2> QED
    BY <2>2, <2>3
<1>2. ASSUME ReleaseRead(c)
      PROVE  WellTyped'
  <2>1. PICK s \in Scopes : call' = [call EXCEPT ![c] = [@ EXCEPT !.at = "release_exec", !.scope = s]]
    BY <1>2 DEF ReleaseRead
  <2>2. [call[c] EXCEPT !.at = "release_exec", !.scope = s] \in CallState
    <3>1. "release_exec" \in Points
      BY DEF Points
    <3> QED
      BY <1>0, <3>1 DEF CallState
  <2>3. TypeOK'
    BY <1>2, <2>1, <2>2 DEF ReleaseRead
  <2>4. CallArguments'
    BY <1>0, <1>2, <2>1 DEF ReleaseRead, CallArguments, CallState
  <2> QED
    BY <2>3, <2>4
<1>3. ASSUME ReleaseAbsent(c)
      PROVE  WellTyped'
  <2>1. TypeOK'
    BY <1>3, IdleIsCall DEF ReleaseAbsent
  <2>2. CallArguments'
    BY <1>3 DEF ReleaseAbsent, CallArguments, Idle
  <2> QED
    BY <2>1, <2>2
<1>4. ASSUME ReleaseCommit(c)
      PROVE  WellTyped'
  <2>1. call[c].scope \in Scopes /\ call[c].drop \in SUBSET LeaseIds
    BY <1>0, <1>4 DEF ReleaseCommit, CallArguments, CallState
  <2>2. hash' \in [Scopes -> SUBSET LeaseIds] /\ index' \in [LeaseIds -> Scopes \cup {NoScope}]
    BY <1>4, <2>1, DeleteTypes DEF ReleaseCommit
  <2>3. TypeOK'
    BY <1>4, <2>2, IdleIsCall DEF ReleaseCommit, Touch
  <2>4. CallArguments'
    BY <1>4 DEF ReleaseCommit, CallArguments, Idle
  <2> QED
    BY <2>3, <2>4
<1> QED
  BY <1>1, <1>2, <1>3, <1>4

LEMMA SweepWellTyped ==
    ASSUME WellTyped, NEW c \in Clients
    PROVE  /\ SweepBegin(c) => WellTyped'
           /\ \A s \in Scopes : SweepRead(c, s) \/ SweepNothing(c, s) => WellTyped'
           /\ \A reply \in BOOLEAN : SweepCommit(c, reply) => WellTyped'
           /\ SweepReturn(c) => WellTyped'
<1> USE DEF WellTyped, TypeOK, keys
<1>0. call[c] \in CallState /\ clock \in Nat
  BY BoundsAreNaturals
<1>1. ASSUME SweepBegin(c)
      PROVE  WellTyped'
  <2>1. \A T \in SUBSET Scopes : [Idle EXCEPT !.at = "sweep_read", !.todo = T] \in CallState
    <3>1. "sweep_read" \in Points
      BY DEF Points
    <3> QED
      BY <3>1, IdleIsCall DEF CallState
  <2>2. TypeOK'
    BY <1>1, <2>1 DEF SweepBegin
  <2>3. CallArguments'
    BY <1>1 DEF SweepBegin, CallArguments, Idle
  <2> QED
    BY <2>2, <2>3
<1>2. ASSUME NEW s \in Scopes, SweepRead(c, s)
      PROVE  WellTyped'
  <2>1. ExpiredIn(hash[s], clock) \in SUBSET LeaseIds
    BY DEF ExpiredIn
  <2>2. call' \in [Clients -> CallState]
    BY <1>0, <1>2, <2>1, CallUpdates DEF SweepRead
  <2>3. TypeOK'
    BY <1>2, <2>2 DEF SweepRead
  <2>4. CallArguments'
    BY <1>0, <1>2 DEF SweepRead, CallArguments, CallState
  <2> QED
    BY <2>3, <2>4
<1>3. ASSUME NEW t \in Scopes, NEW E \in SUBSET LeaseIds, ScopeDone(c, t, E)
      PROVE  call' \in [Clients -> CallState] /\ (UNCHANGED ceiling => CallArguments')
  <2>1. call' \in [Clients -> CallState]
    BY <1>0, <1>3, CallUpdates DEF ScopeDone
  <2>2. call'[c].at = "sweep_read" /\ \A d \in Clients \ {c} : call'[d] = call[d]
    BY <1>3 DEF ScopeDone, Idle
  <2> QED
    BY <2>1, <2>2 DEF CallArguments
<1>4. ASSUME NEW s \in Scopes, SweepNothing(c, s)
      PROVE  WellTyped'
  BY <1>3, <1>4 DEF SweepNothing
<1>5. ASSUME NEW reply \in BOOLEAN, SweepCommit(c, reply)
      PROVE  WellTyped'
  <2>1. call[c].scope \in Scopes /\ call[c].drop \in SUBSET LeaseIds
    BY <1>0, <1>5 DEF SweepCommit, CallArguments, CallState
  <2>2. hash' \in [Scopes -> SUBSET LeaseIds] /\ index' \in [LeaseIds -> Scopes \cup {NoScope}]
    BY <1>5, <2>1, DeleteTypes DEF SweepCommit
  <2>3. call' = [call EXCEPT ![c] = Idle] =>
            call' \in [Clients -> CallState] /\ (UNCHANGED ceiling => CallArguments')
    BY IdleIsCall DEF CallArguments, Idle
  <2>4. call' \in [Clients -> CallState] /\ CallArguments'
    BY <1>3, <1>5, <2>1, <2>3 DEF SweepCommit
  <2> QED
    BY <1>5, <2>2, <2>4 DEF SweepCommit, Touch
<1>6. ASSUME SweepReturn(c)
      PROVE  WellTyped'
  <2>1. TypeOK'
    BY <1>0, <1>6, IdleIsCall DEF SweepReturn, CallState
  <2>2. CallArguments'
    BY <1>6 DEF SweepReturn, CallArguments, Idle
  <2> QED
    BY <2>1, <2>2
<1> QED
  BY <1>1, <1>2, <1>4, <1>5, <1>6

LEMMA InterruptionWellTyped ==
    ASSUME WellTyped, NEW c \in Clients
    PROVE  /\ ExecRefused(c) => WellTyped'
           /\ CallFails(c) => WellTyped'
           /\ Crash(c) => WellTyped'
<1> USE DEF WellTyped, TypeOK, keys
<1>0. call[c] \in CallState
  OBVIOUS
<1>1. ASSUME ExecRefused(c)
      PROVE  WellTyped'
  <2>1. call' = [call EXCEPT ![c] = IF call[c].attempts + 1 < MaxRetries THEN ReadAgain(c) ELSE Idle]
    BY <1>1 DEF ExecRefused
  <2>2. ReadPoint(call[c].at) \in Points
    BY <1>1 DEF ExecRefused, ReadPoint, Points
  <2>3. call[c].attempts + 1 < MaxRetries => call[c].attempts + 1 \in 0..MaxRetries
    BY <1>0, RegistryAssumption DEF CallState
  <2>4. call[c].attempts + 1 < MaxRetries => ReadAgain(c) \in CallState
    BY <1>0, <2>2, <2>3 DEF CallState, ReadAgain
  <2>5. call' \in [Clients -> CallState]
    BY <2>1, <2>4, IdleIsCall
  <2>6. /\ ReadAgain(c).at = ReadPoint(call[c].at)
        /\ ReadAgain(c).scope = call[c].scope /\ ReadAgain(c).amount = call[c].amount
        /\ ReadAgain(c).cap = call[c].cap
    BY <1>0 DEF CallState, ReadAgain
  <2>7. ReadPoint(call[c].at) = "reserve_read" => call[c].at = "reserve_exec"
    BY <1>1 DEF ExecRefused, ReadPoint
  <2>8. ReadPoint(call[c].at) \in {"reserve_read", "release_read", "sweep_read"}
    BY <1>1 DEF ExecRefused, ReadPoint
  <2>9. CallArguments'
    <3> SUFFICES ASSUME NEW d \in Clients
                 PROVE  (/\ call[d].at \in {"reserve_read", "reserve_exec"} =>
                             /\ call[d].scope \in Scopes
                             /\ call[d].amount \in Amounts
                             /\ call[d].cap \in Caps
                             /\ call[d].cap <= ceiling[call[d].scope]
                         /\ call[d].at \in {"release_exec", "sweep_exec"} =>
                             call[d].scope \in Scopes)'
      BY DEF CallArguments
    <3>1. CASE d # c
      <4>1. call'[d] = call[d] /\ ceiling' = ceiling
        BY <1>1, <2>1, <3>1 DEF ExecRefused
      <4> QED
        BY <4>1 DEF CallArguments
    <3>2. CASE d = c /\ call[c].attempts + 1 < MaxRetries
      <4>1. call'[d] = ReadAgain(c) /\ ceiling' = ceiling
        BY <1>1, <2>1, <3>2 DEF ExecRefused
      <4> QED
        BY <3>2, <4>1, <2>6, <2>7, <2>8 DEF CallArguments
    <3>3. CASE d = c /\ ~ (call[c].attempts + 1 < MaxRetries)
      <4>1. call'[d].at = "idle"
        BY <2>1, <3>3 DEF Idle
      <4> QED
        BY <4>1
    <3> QED
      BY <3>1, <3>2, <3>3
  <2> QED
    BY <1>1, <2>5, <2>9 DEF ExecRefused
<1>2. ASSUME CallFails(c) \/ Crash(c)
      PROVE  WellTyped'
  <2>1. TypeOK'
    BY <1>2, IdleIsCall DEF CallFails, Crash
  <2>2. CallArguments'
    BY <1>2 DEF CallFails, Crash, CallArguments, Idle
  <2> QED
    BY <2>1, <2>2
<1> QED
  BY <1>1, <1>2

LEMMA NextWellTyped == WellTyped /\ [Next]_vars => WellTyped'
<1> SUFFICES ASSUME WellTyped, [Next]_vars PROVE WellTyped'
  OBVIOUS
<1>1. CASE Tick
  <2>1. clock' \in 0..MaxClock
    BY <1>1, BoundsAreNaturals DEF Tick, WellTyped, TypeOK
  <2> QED
    BY <1>1, <2>1 DEF Tick, WellTyped, TypeOK, CallArguments
<1>2. ASSUME NEW s \in Scopes, NEW k \in Caps, SetCap(s, k)
      PROVE  WellTyped'
  <2>1. k \in 0..MaxCap
    BY BoundsAreNaturals DEF Caps
  <2> QED
    BY <1>2, <2>1 DEF SetCap, WellTyped, TypeOK, CallArguments, keys
<1>3. ASSUME NEW c \in Clients, Begin(c)
      PROVE  WellTyped'
  BY <1>3, ReserveWellTyped, ReleaseWellTyped, SweepWellTyped DEF Begin
<1>4. ASSUME NEW c \in Clients, Step(c)
      PROVE  WellTyped'
  <2>1. CASE ReserveRead(c) \/ ReserveDenied(c)
    BY <2>1, ReserveWellTyped
  <2>2. CASE \E l \in LeaseIds, reply \in BOOLEAN : ReserveCommit(c, l, reply)
    BY <2>2, ReserveWellTyped
  <2>3. CASE ReleaseRead(c) \/ ReleaseAbsent(c) \/ ReleaseCommit(c)
    BY <2>3, ReleaseWellTyped
  <2>4. CASE \E s \in Scopes : SweepRead(c, s) \/ SweepNothing(c, s)
    BY <2>4, SweepWellTyped
  <2>5. CASE (\E reply \in BOOLEAN : SweepCommit(c, reply)) \/ SweepReturn(c)
    BY <2>5, SweepWellTyped
  <2>6. CASE ExecRefused(c)
    BY <2>6, InterruptionWellTyped
  <2> QED
    BY <1>4, <2>1, <2>2, <2>3, <2>4, <2>5, <2>6 DEF Step
<1>5. ASSUME NEW c \in Clients, CallFails(c) \/ Crash(c)
      PROVE  WellTyped'
  BY <1>5, InterruptionWellTyped
<1>6. CASE UNCHANGED vars
  BY <1>6 DEF vars, WellTyped, TypeOK, CallArguments
<1> QED
  BY <1>1, <1>2, <1>3, <1>4, <1>5, <1>6 DEF Next

(* Whatever the clients, scopes, caps and retries, the registry's state    *)
(* keeps its types: retries stay within max_retries, an index field names  *)
(* a scope, a stored payload is a complete lease.                          *)
THEOREM TypeCorrect == Spec => []TypeOK
<1>1. WellTyped => TypeOK
  BY DEF WellTyped
<1> QED
  BY <1>1, InitWellTyped, NextWellTyped, PTL DEF Spec

-----------------------------------------------------------------------------
(* The books: what is stored is complete, indexed, and outlived by the     *)
(* keys that store it.                                                     *)

Books ==
    /\ \A s \in Scopes : \A l \in hash[s] :
           /\ leaseOf[l] \in Lease
           /\ leaseOf[l].scope = s
           /\ index[l] = s
           /\ leaseOf[l].grantedAt <= clock
           /\ leaseOf[l].expiresAt <= keyExpiry[s]
           /\ keyExpiry[s] <= keyExpiry[IndexKey]
    /\ \A k \in RedisKeys : keyExpiry[k] <= clock + KeyTTL

(* A transaction that has not been refused still sees what it read.        *)
ReadFresh(c) ==
    /\ call[c].at \in {"reserve_exec", "sweep_exec"} => call[c].now <= clock
    /\ ~ dirty[c] =>
        /\ call[c].at \in {"reserve_exec", "sweep_exec"} =>
               call[c].drop = ExpiredIn(hash[call[c].scope], call[c].now)
        /\ call[c].at = "reserve_exec" =>
               /\ Total(LiveIn(hash[call[c].scope], call[c].now)) + call[c].amount <= call[c].cap
               /\ \A m \in hash[call[c].scope] : leaseOf[m].grantedAt <= call[c].now
        /\ call[c].at = "release_exec" =>
               \A m \in call[c].drop : index[m] = call[c].scope

ReadsFresh == \A c \in Clients : ReadFresh(c)

LEMMA KeepsRead ==
    ASSUME WellTyped, Books, NEW d \in Clients, ReadFresh(d),
           call'[d] = call[d], clock' \in Nat, clock <= clock',
           call[d].at \in {"reserve_exec", "release_exec", "sweep_exec"} /\ ~ dirty'[d] =>
               /\ ~ dirty[d]
               /\ hash'[call[d].scope] = hash[call[d].scope]
               /\ \A m \in call[d].drop : index'[m] = index[m]
               /\ \A m \in hash[call[d].scope] : leaseOf'[m] = leaseOf[m]
    PROVE  ReadFresh(d)'
<1>1. call[d] \in CallState /\ clock \in Nat
  BY BoundsAreNaturals DEF WellTyped, TypeOK
<1>2. call[d].at \in {"reserve_exec", "sweep_exec"} => call[d].now <= clock'
  BY <1>1 DEF ReadFresh, CallState
<1>3. ASSUME ~ dirty'[d], call[d].at \in {"reserve_exec", "sweep_exec"}
      PROVE  /\ ExpiredIn(hash[call[d].scope], call[d].now)'
                    = ExpiredIn(hash[call[d].scope], call[d].now)
             /\ LiveIn(hash[call[d].scope], call[d].now)'
                    = LiveIn(hash[call[d].scope], call[d].now)
  BY <1>3 DEF ExpiredIn, LiveIn, IsExpired
<1>4. ASSUME ~ dirty'[d], call[d].at = "reserve_exec"
      PROVE  Total(LiveIn(hash[call[d].scope], call[d].now))'
                = Total(LiveIn(hash[call[d].scope], call[d].now))
  <2>1. LiveIn(hash[call[d].scope], call[d].now) \in SUBSET LeaseIds
    BY <1>4 DEF LiveIn, WellTyped, TypeOK, CallArguments
  <2>2. \A m \in LiveIn(hash[call[d].scope], call[d].now) : leaseOf'[m] = leaseOf[m]
    BY <1>4 DEF LiveIn
  <2>3. UnitsOf(leaseOf', LiveIn(hash[call[d].scope], call[d].now))
          = UnitsOf(leaseOf, LiveIn(hash[call[d].scope], call[d].now))
    BY <2>1, <2>2, UnitsAgree
  <2> QED
    BY <1>3, <1>4, <2>3 DEF Total
<1> QED
  BY <1>2, <1>3, <1>4 DEF ReadFresh

(* Seen from the stored leases a step is one of five: nothing is written,  *)
(* time passes, a lease is granted, released, or swept.                    *)
NothingWritten ==
    /\ UNCHANGED <<hash, index, leaseOf, keyExpiry, clock>>
    /\ \A s \in Scopes : ceiling[s] <= ceiling'[s]

Deletes(c) ==
    /\ call[c].at \in {"release_exec", "sweep_exec"}
    /\ ~ dirty[c]
    /\ Delete(call[c].scope, call[c].drop)
    /\ Touch(c, {call[c].scope, IndexKey})
    /\ UNCHANGED <<leaseOf, keyExpiry, clock, ceiling>>

LEMMA StepKinds ==
    ASSUME WellTyped, [Next]_vars
    PROVE  \/ NothingWritten
           \/ Tick
           \/ \E c \in Clients, l \in LeaseIds, reply \in BOOLEAN : ReserveCommit(c, l, reply)
           \/ \E c \in Clients : Deletes(c)
<1>0. \A s \in Scopes : ceiling[s] \in Nat
  BY BoundsAreNaturals DEF WellTyped, TypeOK
<1>1. UNCHANGED <<hash, index, leaseOf, keyExpiry, clock, ceiling>> => NothingWritten
  BY <1>0 DEF NothingWritten
<1>2. ASSUME NEW s \in Scopes, NEW k \in Caps, SetCap(s, k) PROVE NothingWritten
  BY <1>1, <1>2 DEF SetCap, keys
<1>3. ASSUME NEW c \in Clients, Begin(c) PROVE NothingWritten
  <2>1. ASSUME NEW s \in Scopes, NEW a \in Amounts, NEW k \in Caps, ReserveBegin(c, s, a, k)
        PROVE  NothingWritten
    BY <1>0, <2>1, BoundsAreNaturals DEF ReserveBegin, NothingWritten, keys, Caps, WellTyped, TypeOK
  <2>2. ASSUME NEW l \in LeaseIds, ReleaseBegin(c, l) PROVE NothingWritten
    BY <1>1, <2>2 DEF ReleaseBegin, keys
  <2>3. ASSUME SweepBegin(c) PROVE NothingWritten
    BY <1>1, <2>3 DEF SweepBegin, keys
  <2> QED
    BY <1>3, <2>1, <2>2, <2>3 DEF Begin
<1>4. ASSUME NEW c \in Clients, ReserveRead(c) \/ ReserveDenied(c) PROVE NothingWritten
  BY <1>1, <1>4 DEF ReserveRead, ReserveDenied, keys
<1>5. ASSUME NEW c \in Clients, ReleaseRead(c) \/ ReleaseAbsent(c) PROVE NothingWritten
  BY <1>1, <1>5 DEF ReleaseRead, ReleaseAbsent, keys
<1>6. ASSUME NEW c \in Clients, NEW s \in Scopes, SweepRead(c, s) \/ SweepNothing(c, s)
      PROVE  NothingWritten
  BY <1>1, <1>6 DEF SweepRead, SweepNothing, keys
<1>7. ASSUME NEW c \in Clients, SweepReturn(c) \/ ExecRefused(c) \/ CallFails(c) \/ Crash(c)
      PROVE  NothingWritten
  BY <1>1, <1>7 DEF SweepReturn, ExecRefused, CallFails, Crash, keys
<1>8. ASSUME NEW c \in Clients, ReleaseCommit(c) PROVE Deletes(c)
  BY <1>8 DEF ReleaseCommit, Deletes
<1>9. ASSUME NEW c \in Clients, NEW reply \in BOOLEAN, SweepCommit(c, reply) PROVE Deletes(c)
  BY <1>9 DEF SweepCommit, Deletes
<1>10. CASE UNCHANGED vars
  BY <1>1, <1>10 DEF vars
<1> QED
  BY <1>2, <1>3, <1>4, <1>5, <1>6, <1>7, <1>8, <1>9, <1>10 DEF Next, Step

\* The lease an EXEC stores, and what stays next to it.
LEMMA CommitFacts ==
    ASSUME WellTyped, Books, ReadsFresh, NEW c \in Clients, NEW l \in LeaseIds,
           NEW reply \in BOOLEAN, ReserveCommit(c, l, reply)
    PROVE  LET s == call[c].scope IN
           /\ s \in Scopes /\ call[c].now \in Nat /\ call[c].now <= clock
           /\ call[c].amount \in Amounts /\ call[c].cap \in Caps
           /\ call[c].cap <= ceiling[s]
           /\ hash' = [hash EXCEPT ![s] = LiveIn(hash[s], call[c].now) \cup {l}]
           /\ \A t \in Scopes : l \notin hash[t]
           /\ \A m \in LeaseIds \ {l} : leaseOf'[m] = leaseOf[m]
           /\ leaseOf'[l] \in Lease
           /\ leaseOf'[l].scope = s /\ leaseOf'[l].amount = call[c].amount
           /\ leaseOf'[l].hardCap = call[c].cap /\ leaseOf'[l].grantedAt = call[c].now
           /\ leaseOf'[l].expiresAt = call[c].now + TTL
           /\ Total(LiveIn(hash[s], call[c].now)) + call[c].amount <= call[c].cap
           /\ \A m \in hash[s] : leaseOf[m].grantedAt <= call[c].now
<1> DEFINE s == call[c].scope
<1>1. call[c] \in CallState /\ leaseOf \in [LeaseIds -> Lease \cup {NoLease}]
      /\ hash \in [Scopes -> SUBSET LeaseIds]
  BY DEF WellTyped, TypeOK
<1>2. /\ s \in Scopes /\ call[c].amount \in Amounts
      /\ call[c].cap \in Caps /\ call[c].cap <= ceiling[s]
  BY DEF WellTyped, CallArguments, ReserveCommit
<1>3. /\ call[c].now \in Nat /\ call[c].now <= clock
      /\ call[c].drop = ExpiredIn(hash[s], call[c].now)
      /\ Total(LiveIn(hash[s], call[c].now)) + call[c].amount <= call[c].cap
      /\ \A m \in hash[s] : leaseOf[m].grantedAt <= call[c].now
  BY <1>1 DEF ReserveCommit, ReadsFresh, ReadFresh, CallState
<1>4. hash[s] \ call[c].drop = LiveIn(hash[s], call[c].now)
  BY <1>3 DEF ExpiredIn, LiveIn
<1>5. hash' = [hash EXCEPT ![s] = LiveIn(hash[s], call[c].now) \cup {l}]
  BY <1>2, <1>4 DEF ReserveCommit
<1>6. NoLease \notin Lease
  BY NoScopeIsNoScope DEF NoLease, Lease
<1>7. \A t \in Scopes : l \notin hash[t]
  BY <1>6 DEF Books, ReserveCommit
<1>8. leaseOf' = [leaseOf EXCEPT ![l] =
         [scope |-> s, amount |-> call[c].amount, hardCap |-> call[c].cap,
          grantedAt |-> call[c].now, expiresAt |-> call[c].now + TTL]]
  BY DEF ReserveCommit
<1>9. call[c].now + TTL \in Nat
  BY <1>3, BoundsAreNaturals
<1>10. /\ leaseOf'[l] \in Lease
       /\ leaseOf'[l].scope = s /\ leaseOf'[l].amount = call[c].amount
       /\ leaseOf'[l].hardCap = call[c].cap /\ leaseOf'[l].grantedAt = call[c].now
       /\ leaseOf'[l].expiresAt = call[c].now + TTL
  BY <1>1, <1>2, <1>3, <1>8, <1>9 DEF Lease
<1>11. \A m \in LeaseIds \ {l} : leaseOf'[m] = leaseOf[m]
  BY <1>1, <1>8
<1> QED
  BY <1>2, <1>3, <1>5, <1>7, <1>10, <1>11

LEMMA BooksStep ==
    ASSUME WellTyped, WellTyped', Books, ReadsFresh, [Next]_vars
    PROVE  Books'
<1>0. clock \in Nat /\ clock' \in Nat /\ \A k \in RedisKeys : keyExpiry[k] \in Nat
  BY BoundsAreNaturals DEF WellTyped, TypeOK
<1>1. CASE NothingWritten
  BY <1>1 DEF NothingWritten, Books
<1>2. CASE Tick
  <2>1. clock' = clock + 1 /\ UNCHANGED <<leaseOf, keyExpiry>>
    BY <1>2 DEF Tick
  <2>2. \A s \in Scopes : hash'[s] = IF clock' >= keyExpiry[s] THEN {} ELSE hash[s]
    BY <1>2 DEF Tick, RedisKeys
  <2>3. \A l \in LeaseIds : index'[l] = IF clock' >= keyExpiry[IndexKey] THEN NoScope ELSE index[l]
    BY <1>2 DEF Tick, RedisKeys
  <2>4. ASSUME NEW s \in Scopes, NEW l \in hash'[s]
        PROVE  /\ leaseOf[l] \in Lease
               /\ leaseOf[l].scope = s /\ index'[l] = s
               /\ leaseOf[l].grantedAt <= clock'
               /\ leaseOf[l].expiresAt <= keyExpiry[s]
               /\ keyExpiry[s] <= keyExpiry[IndexKey]
    <3>1. l \in hash[s] /\ ~ (clock' >= keyExpiry[s]) /\ l \in LeaseIds
      BY <2>2, <2>4 DEF WellTyped, TypeOK
    <3>2. leaseOf[l] \in Lease /\ leaseOf[l].grantedAt \in Nat
      BY <3>1 DEF Books, Lease
    <3>3. ~ (clock' >= keyExpiry[IndexKey])
      BY <1>0, <3>1 DEF Books, RedisKeys
    <3> QED
      BY <1>0, <2>1, <2>3, <3>1, <3>2, <3>3 DEF Books
  <2>5. \A k \in RedisKeys : keyExpiry[k] <= clock' + KeyTTL
    BY <1>0, <2>1, RegistryAssumption DEF Books
  <2> QED
    BY <2>1, <2>4, <2>5 DEF Books
<1>3. ASSUME NEW c \in Clients, NEW l \in LeaseIds, NEW reply \in BOOLEAN,
             ReserveCommit(c, l, reply)
      PROVE  Books'
  <2> DEFINE s == call[c].scope
  <2>1. /\ s \in Scopes /\ call[c].now \in Nat /\ call[c].now <= clock
        /\ hash' = [hash EXCEPT ![s] = LiveIn(hash[s], call[c].now) \cup {l}]
        /\ \A m \in LeaseIds \ {l} : leaseOf'[m] = leaseOf[m]
        /\ leaseOf'[l] \in Lease /\ leaseOf'[l].scope = s
        /\ leaseOf'[l].grantedAt = call[c].now
        /\ leaseOf'[l].expiresAt = call[c].now + TTL
        /\ \A t \in Scopes : l \notin hash[t]
    BY <1>3, CommitFacts
  <2>2. /\ keyExpiry'[s] = clock + KeyTTL /\ keyExpiry'[IndexKey] = clock + KeyTTL
        /\ \A t \in Scopes \ {s} : keyExpiry'[t] = keyExpiry[t]
        /\ clock' = clock
    BY <1>3, <2>1, IndexKeyIsNoScope DEF ReserveCommit, RedisKeys, WellTyped, TypeOK
  <2>3. call[c].drop = ExpiredIn(hash[s], call[c].now)
    BY <1>3 DEF ReserveCommit, ReadsFresh, ReadFresh
  <2>4. \A m \in LeaseIds : index'[m] =
            IF m = l THEN s ELSE IF m \in call[c].drop THEN NoScope ELSE index[m]
    BY <1>3 DEF ReserveCommit
  <2>5. ASSUME NEW t \in Scopes, NEW m \in hash'[t], m # l
        PROVE  m \in hash[t] /\ m \in LeaseIds /\ m \notin call[c].drop
    <3>1. m \in hash[t] /\ m \in LeaseIds
      BY <2>1, <2>5 DEF LiveIn, WellTyped, TypeOK
    <3>2. index[m] = t
      BY <3>1 DEF Books
    <3>3. m \in call[c].drop => m \in hash[s] /\ IsExpired(m, call[c].now)
      BY <2>3 DEF ExpiredIn
    <3>4. m \in hash[s] => t = s
      BY <2>1, <3>2 DEF Books
    <3>5. t = s => ~ IsExpired(m, call[c].now)
      BY <2>1, <2>5 DEF LiveIn, WellTyped, TypeOK
    <3> QED
      BY <3>1, <3>3, <3>4, <3>5
  <2>6. \A k \in RedisKeys : keyExpiry[k] <= clock + KeyTTL
    BY DEF Books
  <2>7. ASSUME NEW t \in Scopes, NEW m \in hash'[t]
        PROVE  /\ leaseOf'[m] \in Lease
               /\ leaseOf'[m].scope = t /\ index'[m] = t
               /\ leaseOf'[m].grantedAt <= clock'
               /\ leaseOf'[m].expiresAt <= keyExpiry'[t]
               /\ keyExpiry'[t] <= keyExpiry'[IndexKey]
    <3>1. CASE m = l
      <4>1. t = s
        BY <2>1, <2>7, <3>1 DEF WellTyped, TypeOK
      <4>2. call[c].now + TTL <= clock + KeyTTL
        BY <1>0, <2>1, BoundsAreNaturals, RegistryAssumption
      <4> QED
        BY <1>0, <2>1, <2>2, <2>4, <3>1, <4>1, <4>2, RegistryAssumption
    <3>2. CASE m # l
      <4>1. m \in hash[t] /\ m \in LeaseIds /\ m \notin call[c].drop
        BY <2>5, <3>2
      <4>2. leaseOf'[m] = leaseOf[m] /\ index'[m] = index[m]
        BY <2>1, <2>4, <3>2, <4>1
      <4>3. leaseOf[m] \in Lease /\ leaseOf[m].expiresAt \in Nat
        BY <4>1 DEF Books, Lease
      <4>4. keyExpiry[t] <= keyExpiry'[t] /\ keyExpiry'[t] <= clock + KeyTTL
            /\ keyExpiry[t] \in Nat /\ keyExpiry'[t] \in Nat
        BY <1>0, <2>2, <2>6, RegistryAssumption DEF RedisKeys
      <4>5. leaseOf[m].expiresAt <= keyExpiry'[t]
        BY <4>1, <4>3, <4>4 DEF Books
      <4> QED
        BY <2>2, <4>1, <4>2, <4>3, <4>4, <4>5 DEF Books
    <3> QED
      BY <3>1, <3>2
  <2>8. \A k \in RedisKeys : keyExpiry'[k] <= clock' + KeyTTL
    BY <1>0, <2>2, <2>6, RegistryAssumption DEF RedisKeys
  <2> QED
    BY <2>7, <2>8 DEF Books
<1>4. ASSUME NEW c \in Clients, Deletes(c)
      PROVE  Books'
  <2> DEFINE s == call[c].scope
  <2>1. s \in Scopes
    BY <1>4 DEF Deletes, WellTyped, CallArguments
  <2>2. \A m \in call[c].drop \cap LeaseIds : index[m] = s
    BY <1>4, <2>1 DEF Deletes, ReadsFresh, ReadFresh, ExpiredIn, Books
  <2>3. \A t \in Scopes : hash'[t] = IF t = s THEN hash[s] \ call[c].drop ELSE hash[t]
    BY <1>4, <2>1 DEF Deletes, Delete, WellTyped, TypeOK
  <2>4. \A m \in LeaseIds : index'[m] = IF m \in call[c].drop THEN NoScope ELSE index[m]
    BY <1>4 DEF Deletes, Delete
  <2>5. UNCHANGED <<leaseOf, keyExpiry, clock>>
    BY <1>4 DEF Deletes
  <2>6. ASSUME NEW t \in Scopes, NEW m \in hash'[t]
        PROVE  m \in hash[t] /\ index'[m] = index[m]
    <3>1. m \in hash[t] /\ m \in LeaseIds /\ index[m] = t
      BY <2>3, <2>6 DEF WellTyped, TypeOK, Books
    <3>2. m \notin call[c].drop
      BY <2>2, <2>3, <2>6, <3>1
    <3> QED
      BY <2>4, <3>1, <3>2
  <2> QED
    BY <2>5, <2>6 DEF Books
<1> QED
  BY <1>1, <1>2, <1>3, <1>4, StepKinds

\* A step that leaves Redis and the clock alone keeps the reads of the others.
LEMMA OthersKeepReads ==
    ASSUME WellTyped, Books, ReadsFresh, NEW c \in Clients,
           UNCHANGED <<hash, index, leaseOf, clock>>,
           \A d \in Clients \ {c} : call'[d] = call[d] /\ dirty'[d] = dirty[d],
           ReadFresh(c)'
    PROVE  ReadsFresh'
<1>1. clock' \in Nat /\ clock <= clock'
  BY BoundsAreNaturals DEF WellTyped, TypeOK
<1>2. ASSUME NEW d \in Clients \ {c} PROVE ReadFresh(d)'
  BY <1>1, <1>2, KeepsRead DEF ReadsFresh
<1> QED
  BY <1>2 DEF ReadsFresh

\* An EXEC refuses every other transaction under way.
LEMMA ExecRefusesOthers ==
    ASSUME WellTyped, Books, ReadsFresh, NEW c \in Clients, NEW s,
           Touch(c, {s, IndexKey}), UNCHANGED clock,
           \A d \in Clients \ {c} : call'[d] = call[d],
           call'[c].at \in {"idle", "sweep_read"}
    PROVE  ReadsFresh'
<1>1. clock' \in Nat /\ clock <= clock'
  BY BoundsAreNaturals DEF WellTyped, TypeOK
<1>2. ASSUME NEW d \in Clients \ {c} PROVE ReadFresh(d)'
  <2>1. call[d].at \in {"reserve_exec", "release_exec", "sweep_exec"} => dirty'[d]
    BY <1>2 DEF Touch, Watched
  <2> QED
    BY <1>1, <1>2, <2>1, KeepsRead DEF ReadsFresh
<1>3. ReadFresh(c)'
  BY DEF ReadFresh
<1> QED
  BY <1>2, <1>3 DEF ReadsFresh

LEMMA ReadsFreshStep ==
    ASSUME WellTyped, Books, ReadsFresh, [Next]_vars
    PROVE  ReadsFresh'
<1>0. /\ clock \in Nat /\ call \in [Clients -> CallState]
      /\ dirty \in [Clients -> BOOLEAN] /\ hash \in [Scopes -> SUBSET LeaseIds]
  BY BoundsAreNaturals DEF WellTyped, TypeOK
<1>1. ASSUME Tick PROVE ReadsFresh'
  <2>1. clock' \in Nat /\ clock <= clock' /\ UNCHANGED <<call, leaseOf>>
    BY <1>0, <1>1 DEF Tick
  <2>2. ASSUME NEW d \in Clients, ~ dirty'[d],
               call[d].at \in {"reserve_exec", "release_exec", "sweep_exec"}
        PROVE  /\ ~ dirty[d]
               /\ hash'[call[d].scope] = hash[call[d].scope]
               /\ \A m \in call[d].drop : index'[m] = index[m]
    <3> DEFINE gone == {k \in RedisKeys : clock' >= keyExpiry[k]}
    <3>1. /\ hash' = [s \in Scopes |-> IF s \in gone THEN {} ELSE hash[s]]
          /\ index' = [l \in LeaseIds |-> IF IndexKey \in gone THEN NoScope ELSE index[l]]
          /\ dirty' = [e \in Clients |->
                 dirty[e] \/ \E k \in gone \cap Watched(e) : KeyExists(k)]
      BY <1>1 DEF Tick
    <3> HIDE DEF gone
    <3>2. ~ dirty[d] /\ \A k \in gone \cap Watched(d) : ~ KeyExists(k)
      BY <2>2, <3>1
    <3>3. call[d].scope \in Scopes /\ Watched(d) = {call[d].scope, IndexKey}
      BY <2>2 DEF Watched, WellTyped, CallArguments
    <3>4. call[d].scope \in gone => hash[call[d].scope] = {}
      BY <3>2, <3>3, IndexKeyIsNoScope DEF KeyExists
    <3>5. IndexKey \in gone => \A l \in LeaseIds : index[l] = NoScope
      BY <3>2, <3>3 DEF KeyExists
    <3>6. call[d].drop \subseteq LeaseIds
      BY <1>0 DEF CallState
    <3> QED
      BY <3>1, <3>2, <3>3, <3>4, <3>5, <3>6
  <2>3. ASSUME NEW d \in Clients PROVE ReadFresh(d)'
    BY <2>1, <2>2, KeepsRead DEF ReadsFresh
  <2> QED
    BY <2>3 DEF ReadsFresh
<1>2. ASSUME NEW s \in Scopes, NEW k \in Caps, SetCap(s, k) PROVE ReadsFresh'
  BY <1>2 DEF SetCap, keys, ReadsFresh, ReadFresh, Total, LiveIn, ExpiredIn, IsExpired
<1>3. ASSUME NEW c \in Clients, Begin(c) PROVE ReadsFresh'
  <2>1. /\ UNCHANGED <<hash, index, leaseOf, clock, dirty>>
        /\ \A d \in Clients \ {c} : call'[d] = call[d]
        /\ call'[c].at \in {"reserve_read", "release_read", "sweep_read"}
    <3>1. CASE \E s \in Scopes, a \in Amounts, k \in Caps : ReserveBegin(c, s, a, k)
      BY <1>0, <3>1 DEF ReserveBegin, keys, Idle
    <3>2. CASE \E l \in LeaseIds : ReleaseBegin(c, l)
      BY <1>0, <3>2 DEF ReleaseBegin, keys, Idle
    <3>3. CASE SweepBegin(c)
      BY <1>0, <3>3 DEF SweepBegin, keys, Idle
    <3> QED
      BY <1>3, <3>1, <3>2, <3>3 DEF Begin
  <2>3. ReadFresh(c)'
    BY <2>1 DEF ReadFresh
  <2> QED
    BY <2>1, <2>3, OthersKeepReads
<1>4. ASSUME NEW c \in Clients, ReserveRead(c) PROVE ReadsFresh'
  <2>1. /\ UNCHANGED <<hash, index, leaseOf, clock, dirty>>
        /\ \A d \in Clients \ {c} : call'[d] = call[d]
    BY <1>4 DEF ReserveRead, keys
  <2>2. /\ call'[c].at = "reserve_exec" /\ call'[c].now = clock
        /\ call'[c].drop = ExpiredIn(hash[call[c].scope], clock)
        /\ call'[c].scope = call[c].scope /\ call'[c].amount = call[c].amount
        /\ call'[c].cap = call[c].cap
    BY <1>0, <1>4 DEF ReserveRead, CallState
  <2>3. call[c].scope \in Scopes
    BY <1>4 DEF ReserveRead, WellTyped, CallArguments
  <2>4. \A m \in hash[call[c].scope] : leaseOf[m].grantedAt <= clock
    BY <2>3 DEF Books
  <2>5. Total(LiveIn(hash[call[c].scope], clock)) + call[c].amount <= call[c].cap
    BY <1>4 DEF ReserveRead, Fits
  <2>6. ReadFresh(c)'
    BY <1>0, <2>1, <2>2, <2>4, <2>5 DEF ReadFresh, Total, LiveIn, ExpiredIn, IsExpired
  <2> QED
    BY <2>1, <2>6, OthersKeepReads
<1>5. ASSUME NEW c \in Clients, ReserveDenied(c) \/ ReleaseAbsent(c) \/ SweepReturn(c)
      PROVE  ReadsFresh'
  <2>1. /\ UNCHANGED <<hash, index, leaseOf, clock, dirty>>
        /\ \A d \in Clients \ {c} : call'[d] = call[d]
        /\ call'[c].at = "idle"
    BY <1>0, <1>5 DEF ReserveDenied, ReleaseAbsent, SweepReturn, keys, Idle
  <2>2. ReadFresh(c)'
    BY <2>1 DEF ReadFresh
  <2> QED
    BY <2>1, <2>2, OthersKeepReads
<1>6. ASSUME NEW c \in Clients, ExecRefused(c) \/ CallFails(c) \/ Crash(c)
      PROVE  ReadsFresh'
  <2>1. /\ UNCHANGED <<hash, index, leaseOf, clock>>
        /\ \A d \in Clients \ {c} : call'[d] = call[d] /\ dirty'[d] = dirty[d]
    BY <1>0, <1>6 DEF ExecRefused, CallFails, Crash, keys
  <2>2. call'[c].at \in {"idle", "reserve_read", "release_read", "sweep_read"}
    <3>1. CASE ExecRefused(c)
      <4>1. ReadAgain(c).at = ReadPoint(call[c].at)
        BY <1>0 DEF ReadAgain, CallState
      <4>2. ReadPoint(call[c].at) \in {"reserve_read", "release_read", "sweep_read"}
        BY <3>1 DEF ExecRefused, ReadPoint
      <4>3. call'[c] = ReadAgain(c) \/ call'[c] = Idle
        BY <1>0, <3>1 DEF ExecRefused
      <4> QED
        BY <4>1, <4>2, <4>3 DEF Idle
    <3>2. CASE CallFails(c) \/ Crash(c)
      BY <1>0, <3>2 DEF CallFails, Crash, Idle
    <3> QED
      BY <1>6, <3>1, <3>2
  <2>3. ReadFresh(c)'
    BY <2>2 DEF ReadFresh
  <2> QED
    BY <2>1, <2>3, OthersKeepReads
<1>7. ASSUME NEW c \in Clients, ReleaseRead(c) PROVE ReadsFresh'
  <2>1. /\ UNCHANGED <<hash, index, leaseOf, clock, dirty>>
        /\ \A d \in Clients \ {c} : call'[d] = call[d]
    BY <1>7 DEF ReleaseRead, keys
  <2>2. PICK s \in Scopes :
            /\ \A l \in call[c].drop : index[l] = s
            /\ call' = [call EXCEPT ![c] = [@ EXCEPT !.at = "release_exec", !.scope = s]]
    BY <1>7 DEF ReleaseRead
  <2>3. call'[c].at = "release_exec" /\ call'[c].scope = s /\ call'[c].drop = call[c].drop
    BY <1>0, <2>2 DEF CallState
  <2>4. ReadFresh(c)'
    BY <2>1, <2>2, <2>3 DEF ReadFresh
  <2> QED
    BY <2>1, <2>4, OthersKeepReads
<1>8. ASSUME NEW c \in Clients, NEW s \in Scopes, SweepRead(c, s) PROVE ReadsFresh'
  <2>1. /\ UNCHANGED <<hash, index, leaseOf, clock, dirty>>
        /\ \A d \in Clients \ {c} : call'[d] = call[d]
    BY <1>8 DEF SweepRead, keys
  <2>2. /\ call'[c].at = "sweep_exec" /\ call'[c].now = clock /\ call'[c].scope = s
        /\ call'[c].drop = ExpiredIn(hash[s], clock)
    BY <1>0, <1>8 DEF SweepRead, CallState
  <2>3. ReadFresh(c)'
    BY <1>0, <2>1, <2>2 DEF ReadFresh, ExpiredIn, IsExpired
  <2> QED
    BY <2>1, <2>3, OthersKeepReads
<1>9. ASSUME NEW c \in Clients, NEW s \in Scopes, SweepNothing(c, s) PROVE ReadsFresh'
  <2>1. /\ UNCHANGED <<hash, index, leaseOf, clock, dirty>>
        /\ \A d \in Clients \ {c} : call'[d] = call[d]
        /\ call'[c].at = "sweep_read"
    BY <1>0, <1>9 DEF SweepNothing, ScopeDone, keys, Idle
  <2>2. ReadFresh(c)'
    BY <2>1 DEF ReadFresh
  <2> QED
    BY <2>1, <2>2, OthersKeepReads
<1>10. ASSUME NEW c \in Clients, NEW l \in LeaseIds, NEW reply \in BOOLEAN,
              ReserveCommit(c, l, reply)
       PROVE  ReadsFresh'
  <2>1. /\ Touch(c, {call[c].scope, IndexKey}) /\ UNCHANGED clock
        /\ \A d \in Clients \ {c} : call'[d] = call[d]
        /\ call'[c].at = "idle"
    BY <1>0, <1>10 DEF ReserveCommit, Idle
  <2> QED
    BY <2>1, ExecRefusesOthers
<1>11. ASSUME NEW c \in Clients, NEW reply \in BOOLEAN, ReleaseCommit(c) \/ SweepCommit(c, reply)
       PROVE  ReadsFresh'
  <2>1. /\ Touch(c, {call[c].scope, IndexKey}) /\ UNCHANGED clock
        /\ \A d \in Clients \ {c} : call'[d] = call[d]
        /\ call'[c].at \in {"idle", "sweep_read"}
    <3>1. CASE ReleaseCommit(c)
      BY <1>0, <3>1 DEF ReleaseCommit, Idle
    <3>2. CASE SweepCommit(c, reply) /\ reply
      BY <1>0, <3>2 DEF SweepCommit, ScopeDone, Idle
    <3>3. CASE SweepCommit(c, reply) /\ ~ reply
      BY <1>0, <3>3 DEF SweepCommit, Idle
    <3> QED
      BY <1>11, <3>1, <3>2, <3>3
  <2> QED
    BY <2>1, ExecRefusesOthers
<1>12. CASE UNCHANGED vars
  BY <1>12 DEF vars, ReadsFresh, ReadFresh, Total, LiveIn, ExpiredIn, IsExpired
<1>13. ASSUME NEW c \in Clients, Step(c) PROVE ReadsFresh'
  BY <1>4, <1>5, <1>6, <1>7, <1>8, <1>9, <1>10, <1>11, <1>13 DEF Step
<1> QED
  BY <1>1, <1>2, <1>3, <1>6, <1>12, <1>13 DEF Next

-----------------------------------------------------------------------------
(* The cap and its audit trail.                                            *)

LEMMA NoOversubscriptionStep ==
    ASSUME WellTyped, WellTyped', Books, ReadsFresh, NoOversubscription, [Next]_vars
    PROVE  NoOversubscription'
<1>0. /\ hash \in [Scopes -> SUBSET LeaseIds] /\ hash' \in [Scopes -> SUBSET LeaseIds]
      /\ clock \in Nat /\ clock' \in Nat
      /\ \A s \in Scopes : ceiling[s] \in Nat /\ ceiling'[s] \in Nat
      /\ \A s \in Scopes : \A l \in hash[s] : leaseOf[l].expiresAt \in Nat
  BY BoundsAreNaturals DEF WellTyped, TypeOK, Books, Lease
<1>1. ASSUME NEW s \in Scopes, hash'[s] \subseteq hash[s], clock <= clock',
             \A m \in hash[s] : leaseOf'[m] = leaseOf[m], ceiling[s] <= ceiling'[s]
      PROVE  Total(LiveIn(hash[s], clock))' <= ceiling'[s]
  <2> DEFINE now == LiveIn(hash[s], clock)
             then == LiveIn(hash[s], clock)'
  <2>1. now \in SUBSET LeaseIds /\ then \in SUBSET LeaseIds
    BY <1>0 DEF LiveIn
  <2>2. then \subseteq now
    BY <1>0, <1>1 DEF LiveIn, IsExpired
  <2>3. UnitsOf(leaseOf', then) = UnitsOf(leaseOf, then)
    <3>1. \A m \in then : leaseOf'[m] = leaseOf[m]
      BY <1>1, <2>2 DEF LiveIn
    <3> HIDE DEF then
    <3> QED
      BY <2>1, <3>1, UnitsAgree
  <2>4. Cardinality(UnitsOf(leaseOf, then)) <= Cardinality(UnitsOf(leaseOf, now))
    <3> HIDE DEF then, now
    <3> QED
      BY <2>1, <2>2, UnitsMonotone
  <2>5. Cardinality(UnitsOf(leaseOf, then)) \in Nat /\ Cardinality(UnitsOf(leaseOf, now)) \in Nat
    <3> HIDE DEF then, now
    <3> QED
      BY <2>1, UnitsFinite
  <2>6. Cardinality(UnitsOf(leaseOf, now)) <= ceiling[s]
    BY DEF NoOversubscription, Total
  <2>7. Total(LiveIn(hash[s], clock))' = Cardinality(UnitsOf(leaseOf', then))
    BY DEF Total
  <2> HIDE DEF then, now
  <2> QED
    BY <1>0, <1>1, <2>3, <2>4, <2>5, <2>6, <2>7
<1>2. CASE NothingWritten
  BY <1>0, <1>1, <1>2 DEF NothingWritten, NoOversubscription
<1>3. CASE Tick
  <2>1. \A s \in Scopes : hash'[s] \subseteq hash[s]
    BY <1>0, <1>3 DEF Tick
  <2>2. clock <= clock' /\ UNCHANGED <<leaseOf, ceiling>>
    BY <1>0, <1>3 DEF Tick
  <2> QED
    BY <1>0, <1>1, <2>1, <2>2 DEF NoOversubscription
<1>4. ASSUME NEW c \in Clients, Deletes(c)
      PROVE  NoOversubscription'
  <2>1. \A s \in Scopes : hash'[s] \subseteq hash[s]
    BY <1>0, <1>4 DEF Deletes, Delete
  <2>2. clock <= clock' /\ UNCHANGED <<leaseOf, ceiling>>
    BY <1>0, <1>4 DEF Deletes
  <2> QED
    BY <1>0, <1>1, <2>1, <2>2 DEF NoOversubscription
<1>5. ASSUME NEW c \in Clients, NEW l \in LeaseIds, NEW reply \in BOOLEAN,
             ReserveCommit(c, l, reply)
      PROVE  NoOversubscription'
  <2>0. PICK t \in Scopes : t = call[c].scope
    BY <1>5, CommitFacts
  <2> DEFINE kept == LiveIn(hash[t], call[c].now)
  <2>1. /\ call[c].amount \in Amounts /\ call[c].cap \in Caps
        /\ call[c].cap <= ceiling[t]
        /\ hash' = [hash EXCEPT ![t] = kept \cup {l}]
        /\ \A s \in Scopes : l \notin hash[s]
        /\ \A m \in LeaseIds \ {l} : leaseOf'[m] = leaseOf[m]
        /\ leaseOf'[l].amount = call[c].amount
        /\ Total(kept) + call[c].amount <= call[c].cap
    BY <1>5, <2>0, CommitFacts
  <2>2. ceiling' = ceiling /\ clock' = clock
    BY <1>5 DEF ReserveCommit
  <2>3. ASSUME NEW s \in Scopes, s # t
        PROVE  Total(LiveIn(hash[s], clock))' <= ceiling'[s]
    <3>1. hash'[s] = hash[s] /\ \A m \in hash[s] : leaseOf'[m] = leaseOf[m]
      BY <1>0, <2>1, <2>3
    <3> QED
      BY <1>0, <1>1, <2>2, <3>1
  <2>4. Total(LiveIn(hash[t], clock))' <= ceiling'[t]
    <3> DEFINE then == LiveIn(hash[t], clock)'
    <3>1. kept \in SUBSET LeaseIds /\ then \in SUBSET LeaseIds /\ l \notin kept
      BY <1>0, <2>1 DEF LiveIn
    <3>2. then \subseteq kept \cup {l}
      BY <1>0, <2>1 DEF LiveIn
    <3>3. \A m \in kept : leaseOf'[m] = leaseOf[m]
      BY <2>1, <3>1
    <3>4. Total(LiveIn(hash[t], clock))' = Cardinality(UnitsOf(leaseOf', then))
      BY DEF Total
    <3>5. Total(kept) = Cardinality(UnitsOf(leaseOf, kept))
      BY DEF Total
    <3> HIDE DEF then, kept
    <3>6. UnitsOf(leaseOf', kept) = UnitsOf(leaseOf, kept)
      BY <3>1, <3>3, UnitsAgree
    <3>7. Cardinality(UnitsOf(leaseOf', then)) <= Cardinality(UnitsOf(leaseOf', kept \cup {l}))
      <4>1. kept \cup {l} \in SUBSET LeaseIds
        BY <3>1
      <4> QED
        BY <3>2, <4>1, UnitsMonotone
    <3>8. Cardinality(UnitsOf(leaseOf', kept \cup {l}))
            <= Cardinality(UnitsOf(leaseOf', kept)) + call[c].amount
      BY <2>1, <3>1, UnitsAdd
    <3>9. /\ Cardinality(UnitsOf(leaseOf', then)) \in Nat
          /\ Cardinality(UnitsOf(leaseOf', kept \cup {l})) \in Nat
          /\ Cardinality(UnitsOf(leaseOf, kept)) \in Nat
          /\ call[c].amount \in Nat /\ call[c].cap \in Nat
      <4>1. kept \cup {l} \in SUBSET LeaseIds
        BY <3>1
      <4> QED
        BY <2>1, <3>1, <4>1, UnitsFinite, BoundsAreNaturals DEF Amounts, Caps
    <3> QED
      BY <1>0, <2>1, <2>2, <3>4, <3>5, <3>6, <3>7, <3>8, <3>9
  <2> QED
    BY <2>3, <2>4 DEF NoOversubscription
<1> QED
  BY <1>2, <1>3, <1>4, <1>5, StepKinds

LEMMA AuditReplayStep ==
    ASSUME WellTyped, WellTyped', Books, ReadsFresh, AuditReplay, [Next]_vars
    PROVE  AuditReplay'
<1>0. /\ hash \in [Scopes -> SUBSET LeaseIds] /\ hash' \in [Scopes -> SUBSET LeaseIds]
      /\ \A s \in Scopes : \A l \in hash[s] :
             /\ leaseOf[l].grantedAt \in Nat /\ leaseOf[l].expiresAt \in Nat
             /\ leaseOf[l].amount \in Nat /\ leaseOf[l].hardCap \in Nat
  BY BoundsAreNaturals DEF WellTyped, TypeOK, Books, Lease, Amounts, Caps
<1>1. ASSUME NEW s \in Scopes, NEW l \in hash[s],
             NEW E \in SUBSET LiveBefore(l, hash[s]),
             \A m \in hash[s] : leaseOf'[m] = leaseOf[m]
      PROVE  Cardinality(UnitsOf(leaseOf', E)) + leaseOf'[l].amount <= leaseOf'[l].hardCap
  <2>1. LiveBefore(l, hash[s]) \in SUBSET LeaseIds /\ E \in SUBSET LeaseIds
    BY <1>0 DEF LiveBefore
  <2>2. \A m \in E : leaseOf'[m] = leaseOf[m]
    BY <1>1 DEF LiveBefore
  <2>3. UnitsOf(leaseOf', E) = UnitsOf(leaseOf, E)
    BY <2>1, <2>2, UnitsAgree
  <2>4. Cardinality(UnitsOf(leaseOf, E)) <= Cardinality(UnitsOf(leaseOf, LiveBefore(l, hash[s])))
    BY <2>1, UnitsMonotone
  <2>5. /\ Cardinality(UnitsOf(leaseOf, E)) \in Nat
        /\ Cardinality(UnitsOf(leaseOf, LiveBefore(l, hash[s]))) \in Nat
    BY <2>1, UnitsFinite
  <2>6. Cardinality(UnitsOf(leaseOf, LiveBefore(l, hash[s]))) + leaseOf[l].amount <= leaseOf[l].hardCap
    BY DEF AuditReplay, Total
  <2>7. leaseOf'[l] = leaseOf[l]
    BY <1>1
  <2> QED
    BY <1>0, <2>3, <2>4, <2>5, <2>6, <2>7
<1>2. ASSUME \A s \in Scopes : hash'[s] \subseteq hash[s], leaseOf' = leaseOf
      PROVE  AuditReplay'
  <2>1. ASSUME NEW s \in Scopes, NEW l \in hash'[s]
        PROVE  Total(LiveBefore(l, hash[s]))' + leaseOf'[l].amount <= leaseOf'[l].hardCap
    <3>1. l \in hash[s]
      BY <1>2
    <3>2. LiveBefore(l, hash[s])' \subseteq LiveBefore(l, hash[s])
      BY <1>2 DEF LiveBefore
    <3>3. Cardinality(UnitsOf(leaseOf', LiveBefore(l, hash[s])')) + leaseOf'[l].amount
            <= leaseOf'[l].hardCap
      BY <1>1, <1>2, <3>1, <3>2
    <3> QED
      BY <3>3 DEF Total
  <2> QED
    BY <2>1 DEF AuditReplay
<1>3. CASE NothingWritten
  BY <1>2, <1>3 DEF NothingWritten
<1>4. CASE Tick
  <2>1. \A s \in Scopes : hash'[s] \subseteq hash[s]
    BY <1>0, <1>4 DEF Tick
  <2>2. leaseOf' = leaseOf
    BY <1>4 DEF Tick
  <2> QED
    BY <1>2, <2>1, <2>2
<1>5. ASSUME NEW c \in Clients, Deletes(c)
      PROVE  AuditReplay'
  <2>1. \A s \in Scopes : hash'[s] \subseteq hash[s]
    BY <1>0, <1>5 DEF Deletes, Delete
  <2>2. leaseOf' = leaseOf
    BY <1>5 DEF Deletes
  <2> QED
    BY <1>2, <2>1, <2>2
<1>6. ASSUME NEW c \in Clients, NEW l \in LeaseIds, NEW reply \in BOOLEAN,
             ReserveCommit(c, l, reply)
      PROVE  AuditReplay'
  <2>0. PICK t \in Scopes : t = call[c].scope
    BY <1>6, CommitFacts
  <2> DEFINE kept == LiveIn(hash[t], call[c].now)
  <2>1. /\ call[c].amount \in Amounts /\ call[c].cap \in Caps /\ call[c].now \in Nat
        /\ hash' = [hash EXCEPT ![t] = kept \cup {l}]
        /\ \A s \in Scopes : l \notin hash[s]
        /\ \A m \in LeaseIds \ {l} : leaseOf'[m] = leaseOf[m]
        /\ leaseOf'[l].amount = call[c].amount
        /\ leaseOf'[l].hardCap = call[c].cap
        /\ leaseOf'[l].grantedAt = call[c].now
        /\ Total(kept) + call[c].amount <= call[c].cap
        /\ \A m \in hash[t] : leaseOf[m].grantedAt <= call[c].now
    BY <1>6, <2>0, CommitFacts
  <2>2. \A s \in Scopes : \A m \in hash[s] : leaseOf'[m] = leaseOf[m]
    BY <1>0, <2>1
  <2>3. kept \subseteq hash[t]
    BY DEF LiveIn
  <2>4. \A s \in Scopes : hash'[s] = IF s = t THEN kept \cup {l} ELSE hash[s]
    BY <1>0, <2>1
  <2>5. ASSUME NEW s \in Scopes, NEW m \in hash'[s], m # l
        PROVE  Total(LiveBefore(m, hash[s]))' + leaseOf'[m].amount <= leaseOf'[m].hardCap
    <3>1. m \in hash[s]
      BY <2>3, <2>4, <2>5
    <3>2. s = t => ~ (leaseOf'[l].grantedAt < leaseOf'[m].grantedAt)
      BY <1>0, <2>1, <2>2, <3>1
    <3>3. LiveBefore(m, hash[s])' \subseteq LiveBefore(m, hash[s])
      <4> SUFFICES ASSUME NEW x \in LiveBefore(m, hash[s])'
                   PROVE  x \in LiveBefore(m, hash[s])
        OBVIOUS
      <4>1. /\ x \in hash'[s] /\ leaseOf'[x].grantedAt < leaseOf'[m].grantedAt
            /\ leaseOf'[x].expiresAt > leaseOf'[m].grantedAt
        BY DEF LiveBefore
      <4>2. x \in hash[s]
        BY <2>3, <2>4, <3>2, <4>1
      <4> QED
        BY <2>2, <3>1, <4>1, <4>2 DEF LiveBefore
    <3>4. Cardinality(UnitsOf(leaseOf', LiveBefore(m, hash[s])')) + leaseOf'[m].amount
            <= leaseOf'[m].hardCap
      BY <1>1, <2>2, <3>1, <3>3
    <3> QED
      BY <3>4 DEF Total
  <2>6. ASSUME NEW s \in Scopes, l \in hash'[s]
        PROVE  Total(LiveBefore(l, hash[s]))' + leaseOf'[l].amount <= leaseOf'[l].hardCap
    <3> DEFINE E == LiveBefore(l, hash[s])'
    <3>1. s = t
      BY <2>1, <2>4, <2>6
    <3>2. E \subseteq kept
      BY <2>1, <2>4, <3>1 DEF LiveBefore
    <3>3. kept \in SUBSET LeaseIds /\ \A m \in kept : leaseOf'[m] = leaseOf[m]
      BY <1>0, <2>2, <2>3
    <3>4. Total(LiveBefore(l, hash[s]))' = Cardinality(UnitsOf(leaseOf', E))
      BY DEF Total
    <3>5. Total(kept) = Cardinality(UnitsOf(leaseOf, kept))
      BY DEF Total
    <3> HIDE DEF E, kept
    <3>6. UnitsOf(leaseOf', kept) = UnitsOf(leaseOf, kept)
      BY <3>3, UnitsAgree
    <3>7. Cardinality(UnitsOf(leaseOf', E)) <= Cardinality(UnitsOf(leaseOf', kept))
      BY <3>2, <3>3, UnitsMonotone
    <3>8. /\ Cardinality(UnitsOf(leaseOf', E)) \in Nat
          /\ Cardinality(UnitsOf(leaseOf, kept)) \in Nat
          /\ call[c].amount \in Nat /\ call[c].cap \in Nat
      <4>1. E \in SUBSET LeaseIds
        BY <3>2, <3>3
      <4> QED
        BY <2>1, <3>3, <4>1, UnitsFinite, BoundsAreNaturals DEF Amounts, Caps
    <3> QED
      BY <2>1, <3>4, <3>5, <3>6, <3>7, <3>8
  <2> QED
    BY <2>5, <2>6 DEF AuditReplay
<1> QED
  BY <1>3, <1>4, <1>5, <1>6, StepKinds

(* The inductive invariant of the registry.                                *)
SafeInv == WellTyped /\ Books /\ ReadsFresh /\ NoOversubscription /\ AuditReplay

LEMMA InitSafe == Init => SafeInv
<1> SUFFICES ASSUME Init PROVE SafeInv
  OBVIOUS
<1>1. Books
  BY RegistryAssumption DEF Init, Books
<1>2. ReadsFresh
  BY DEF Init, ReadsFresh, ReadFresh, Idle
<1>3. NoOversubscription
  <2>1. \A s \in Scopes : LiveIn(hash[s], clock) = {}
    BY DEF Init, LiveIn
  <2>2. UnitsOf(leaseOf, {}) = {}
    BY DEF UnitsOf
  <2>3. Cardinality({}) = 0
    BY FS_EmptySet
  <2>4. \A s \in Scopes : Total(LiveIn(hash[s], clock)) = 0 /\ ceiling[s] = 0
    BY <2>1, <2>2, <2>3 DEF Init, Total
  <2> QED
    BY <2>4 DEF NoOversubscription
<1>4. AuditReplay
  BY DEF Init, AuditReplay
<1> QED
  BY <1>1, <1>2, <1>3, <1>4, InitWellTyped DEF SafeInv

LEMMA NextSafe == SafeInv /\ [Next]_vars => SafeInv'
<1> SUFFICES ASSUME SafeInv, [Next]_vars PROVE SafeInv'
  OBVIOUS
<1>1. WellTyped /\ Books /\ ReadsFresh /\ NoOversubscription /\ AuditReplay
  BY DEF SafeInv
<1>2. WellTyped'
  BY <1>1, NextWellTyped
<1>3. Books'
  BY <1>1, <1>2, BooksStep
<1>4. ReadsFresh'
  BY <1>1, ReadsFreshStep
<1>5. NoOversubscription'
  BY <1>1, <1>2, NoOversubscriptionStep
<1>6. AuditReplay'
  BY <1>1, <1>2, AuditReplayStep
<1> QED
  BY <1>2, <1>3, <1>4, <1>5, <1>6 DEF SafeInv

LEMMA SpecSafe == Spec => []SafeInv
BY InitSafe, NextSafe, PTL DEF Spec

(* However many clients race, the live claims of a scope never exceed the  *)
(* largest cap a reservation on it was made under.                         *)
THEOREM CapIsNeverExceeded == Spec => []NoOversubscription
<1>1. SafeInv => NoOversubscription
  BY DEF SafeInv
<1> QED
  BY <1>1, SpecSafe, PTL

(* The stored payloads justify every grant: an audit that replays them by  *)
(* grantedAt never finds a lease that did not fit under its own hardCap.   *)
THEOREM GrantsReplay == Spec => []AuditReplay
<1>1. SafeInv => AuditReplay
  BY DEF SafeInv
<1> QED
  BY <1>1, SpecSafe, PTL

(* A sweep that visits the scopes of the index misses no stored lease.     *)
THEOREM SweepIsTotal == Spec => []EveryLeaseIndexed
<1>1. SafeInv => EveryLeaseIndexed
  BY DEF SafeInv, Books, EveryLeaseIndexed
<1> QED
  BY <1>1, SpecSafe, PTL

-----------------------------------------------------------------------------
(* A release names one lease, through all its retries.                     *)
ReleasesOne ==
    \A c \in Clients :
        call[c].at \in {"release_read", "release_exec"} =>
            \E l \in LeaseIds : call[c].drop = {l}

LEMMA ReleasesOneStep == WellTyped /\ ReleasesOne /\ [Next]_vars => ReleasesOne'
<1> SUFFICES ASSUME WellTyped, ReleasesOne, [Next]_vars,
                    NEW d \in Clients,
                    call'[d].at \in {"release_read", "release_exec"}
             PROVE  \E l \in LeaseIds : call'[d].drop = {l}
  BY DEF ReleasesOne
<1>0. call \in [Clients -> CallState]
  BY DEF WellTyped, TypeOK
<1>1. CASE call'[d] = call[d]
  BY <1>1 DEF ReleasesOne
<1>2. ASSUME NEW l \in LeaseIds, ReleaseBegin(d, l)
      PROVE  call'[d].drop = {l}
  BY <1>0, <1>2 DEF ReleaseBegin, Idle
<1>3. CASE ReleaseRead(d)
  <2>1. call'[d].drop = call[d].drop /\ call[d].at = "release_read"
    BY <1>0, <1>3 DEF ReleaseRead, CallState
  <2> QED
    BY <2>1 DEF ReleasesOne
<1>4. CASE ExecRefused(d)
  <2>1. call'[d] = ReadAgain(d)
    BY <1>0, <1>4 DEF ExecRefused, Idle
  <2>2. call'[d].at = ReadPoint(call[d].at) /\ call'[d].drop = call[d].drop
    BY <1>0, <2>1 DEF ReadAgain, CallState
  <2>3. call[d].at = "release_exec"
    BY <1>4, <2>2 DEF ExecRefused, ReadPoint
  <2> QED
    BY <2>2, <2>3 DEF ReleasesOne
<1>5. ASSUME NEW c \in Clients, Begin(c) \/ Step(c) \/ CallFails(c) \/ Crash(c), c # d
      PROVE  call'[d] = call[d]
  BY <1>0, <1>5 DEF Begin, Step, CallFails, Crash, ReserveBegin, ReserveRead, ReserveDenied,
       ReserveCommit, ReleaseBegin, ReleaseRead, ReleaseAbsent, ReleaseCommit, SweepBegin,
       SweepRead, SweepNothing, SweepCommit, SweepReturn, ScopeDone, ExecRefused
<1>6. CASE Begin(d)
  <2>1. ASSUME NEW s \in Scopes, NEW a \in Amounts, NEW k \in Caps,
               ReserveBegin(d, s, a, k)
        PROVE  FALSE
    <3>1. call'[d].at = "reserve_read"
      BY <1>0, <2>1 DEF ReserveBegin, Idle
    <3> QED
      BY <3>1
  <2>2. ~ SweepBegin(d)
    BY <1>0 DEF SweepBegin, Idle
  <2> QED
    BY <1>2, <1>6, <2>1, <2>2 DEF Begin
<1>7. CASE Step(d)
  <2>1. ~ ReserveRead(d)
    BY <1>0 DEF ReserveRead, CallState
  <2>2. ~ ReserveDenied(d) /\ ~ ReleaseAbsent(d) /\ ~ ReleaseCommit(d) /\ ~ SweepReturn(d)
    BY <1>0 DEF ReserveDenied, ReleaseAbsent, ReleaseCommit, SweepReturn, Idle
  <2>3. \A l \in LeaseIds, reply \in BOOLEAN : ~ ReserveCommit(d, l, reply)
    BY <1>0 DEF ReserveCommit, Idle
  <2>4. \A s \in Scopes : ~ SweepRead(d, s) /\ ~ SweepNothing(d, s)
    BY <1>0, Zenon DEF SweepRead, SweepNothing, ScopeDone, Idle, CallState
  <2>5. ASSUME NEW reply \in BOOLEAN, SweepCommit(d, reply)
        PROVE  FALSE
    <3>1. CASE ScopeDone(d, call[d].scope, call[d].drop)
      BY <1>0, <3>1 DEF ScopeDone, Idle
    <3>2. CASE call' = [call EXCEPT ![d] = Idle]
      BY <1>0, <3>2 DEF Idle
    <3> QED
      BY <2>5, <3>1, <3>2 DEF SweepCommit
  <2> QED
    BY <1>3, <1>4, <1>7, <2>1, <2>2, <2>3, <2>4, <2>5 DEF Step
<1>8. ~ CallFails(d) /\ ~ Crash(d)
  BY <1>0 DEF CallFails, Crash, Idle
<1>9. Tick \/ (\E s \in Scopes, k \in Caps : SetCap(s, k)) \/ UNCHANGED vars
        => call'[d] = call[d]
  BY DEF Tick, SetCap, vars
<1> QED
  BY <1>1, <1>5, <1>6, <1>7, <1>8, <1>9 DEF Next

-----------------------------------------------------------------------------
(* Refinement: every step of the optimistic registry is a step of the      *)
(* atomic one, or none.                                                    *)

\* The atomic registry's operators, applied to the stored leases, are ours.
LEMMA AtomicOperators ==
    ASSUME NEW S, NEW now
    PROVE  /\ Atomic!LiveIn(S, now) = LiveIn(S, now)
           /\ Atomic!ExpiredIn(S, now) = ExpiredIn(S, now)
           /\ Atomic!Total(S) = Total(S)
<1>1. Atomic!LiveIn(S, now) = LiveIn(S, now)
  BY DEF Atomic!LiveIn, Atomic!IsExpired, LiveIn, IsExpired
<1>2. Atomic!ExpiredIn(S, now) = ExpiredIn(S, now)
  BY DEF Atomic!ExpiredIn, Atomic!IsExpired, ExpiredIn, IsExpired
<1>3. Atomic!UnitsOf(leaseOf, S) = UnitsOf(leaseOf, S)
  BY DEF Atomic!UnitsOf, Atomic!Amounts, UnitsOf, Amounts
<1>4. \A T : Atomic!Cardinality(T) = Cardinality(T)
  BY DEF Atomic!Cardinality, Cardinality, Atomic!IsFiniteSet, IsFiniteSet
<1> QED
  BY <1>1, <1>2, <1>3, <1>4 DEF Atomic!Total, Total

LEMMA StoredByScope ==
    ASSUME WellTyped, Books, NEW s \in Scopes
    PROVE  Atomic!OfScope(Stored, s) = hash[s]
BY DEF Atomic!OfScope, Stored, Books

LEMMA InitIsAtomic == Init => Atomic!Init
BY DEF Init, Atomic!Init, Atomic!NoLease, NoLease, Atomic!NoScope, NoScope

LEMMA StepIsAtomic ==
    SafeInv /\ ReleasesOne /\ SafeInv' /\ [Next]_vars => [Atomic!Next]_(Atomic!avars)
<1> SUFFICES ASSUME SafeInv, ReleasesOne, SafeInv', [Next]_vars
             PROVE  [Atomic!Next]_(Atomic!avars)
  OBVIOUS
<1>0. /\ WellTyped /\ WellTyped' /\ Books /\ Books' /\ ReadsFresh
      /\ hash \in [Scopes -> SUBSET LeaseIds] /\ hash' \in [Scopes -> SUBSET LeaseIds]
      /\ clock \in Nat
  BY BoundsAreNaturals DEF SafeInv, WellTyped, TypeOK
<1>1. CASE NothingWritten
  BY <1>1 DEF NothingWritten, Atomic!avars
<1>2. CASE Tick
  <2>1. Stored' \subseteq Stored
    BY <1>0, <1>2 DEF Tick, Stored
  <2>2. \A l \in Stored \ Stored' : IsExpired(l, clock + 1)
    <3> SUFFICES ASSUME NEW l \in Stored \ Stored' PROVE IsExpired(l, clock + 1)
      OBVIOUS
    <3>1. PICK s \in Scopes : l \in hash[s] /\ l \notin hash'[s]
      BY <1>0 DEF Stored
    <3>2. clock + 1 >= keyExpiry[s]
      BY <1>0, <1>2, <3>1 DEF Tick, RedisKeys
    <3>3. leaseOf[l].expiresAt <= keyExpiry[s] /\ leaseOf[l].expiresAt \in Nat
          /\ keyExpiry[s] \in Nat
      BY <1>0, <3>1 DEF Books, Lease, WellTyped, TypeOK, RedisKeys
    <3> QED
      BY <1>0, <3>2, <3>3 DEF IsExpired
  <2>3. Stored \ Stored' \in SUBSET Atomic!ExpiredIn(Stored, clock + 1)
    BY <2>2, AtomicOperators DEF ExpiredIn
  <2>4. Stored' = Stored \ (Stored \ Stored')
    BY <2>1
  <2>5. clock < MaxClock /\ clock' = clock + 1 /\ leaseOf' = leaseOf
    BY <1>2 DEF Tick
  <2>6. Atomic!Tick
    BY <2>3, <2>4, <2>5 DEF Atomic!Tick, Stored
  <2> QED
    BY <2>6 DEF Atomic!Next
<1>3. ASSUME NEW c \in Clients, NEW l \in LeaseIds, NEW reply \in BOOLEAN,
             ReserveCommit(c, l, reply)
      PROVE  Atomic!Next
  <2>0. PICK s \in Scopes, a \in Amounts, k \in Caps, g \in Nat :
            s = call[c].scope /\ a = call[c].amount /\ k = call[c].cap /\ g = call[c].now
    BY <1>0, <1>3, CommitFacts
  <2>1. /\ g <= clock
        /\ hash' = [hash EXCEPT ![s] = LiveIn(hash[s], g) \cup {l}]
        /\ Total(LiveIn(hash[s], g)) + a <= k
        /\ \A m \in hash[s] : leaseOf[m].grantedAt <= g
    BY <1>0, <1>3, <2>0, CommitFacts
  <2>2. /\ leaseOf[l] = NoLease /\ clock' = clock
        /\ leaseOf' = [leaseOf EXCEPT ![l] =
               [scope |-> s, amount |-> a, hardCap |-> k,
                grantedAt |-> g, expiresAt |-> g + TTL]]
    BY <1>3, <2>0 DEF ReserveCommit
  <2>3. Atomic!OfScope(Stored, s) = hash[s]
    BY <1>0, StoredByScope
  <2>4. Stored' = (Stored \ ExpiredIn(hash[s], g)) \cup {l}
    <3>1. \A t \in Scopes : hash'[t] = IF t = s THEN LiveIn(hash[s], g) \cup {l} ELSE hash[t]
      BY <1>0, <2>1
    <3>2. \A t \in Scopes \ {s} : hash[t] \cap hash[s] = {}
      BY <1>0 DEF Books
    <3> QED
      BY <3>1, <3>2 DEF Stored, LiveIn, ExpiredIn
  <2>5. l \in LeaseIds \ Atomic!Granted
    BY <2>2 DEF Atomic!Granted, Atomic!NoLease, NoLease, Atomic!NoScope, NoScope
  <2>6. \A m \in Atomic!OfScope(Stored, s) : leaseOf[m].grantedAt <= g
    BY <2>1, <2>3
  <2>7. Atomic!Total(Atomic!LiveIn(Atomic!OfScope(Stored, s), g)) + a <= k
    BY <2>1, <2>3, AtomicOperators
  <2>8. Stored' = (Stored \ Atomic!ExpiredIn(Atomic!OfScope(Stored, s), g)) \cup {l}
    BY <2>3, <2>4, AtomicOperators
  <2>9. Atomic!Grant(l, s, a, k, g)
    BY <2>1, <2>2, <2>5, <2>6, <2>7, <2>8 DEF Atomic!Grant, Stored
  <2>10. g \in 0..MaxClock
    BY <1>0, <2>1, BoundsAreNaturals DEF WellTyped, TypeOK
  <2>11. a \in Atomic!Amounts /\ k \in Atomic!Caps
    BY DEF Amounts, Caps, Atomic!Amounts, Atomic!Caps
  <2> QED
    BY <2>9, <2>10, <2>11 DEF Atomic!Next
<1>4. ASSUME NEW c \in Clients, Deletes(c)
      PROVE  [Atomic!Next]_(Atomic!avars)
  <2>0. PICK s \in Scopes : s = call[c].scope
    BY <1>0, <1>4 DEF Deletes, WellTyped, CallArguments
  <2>1. \A t \in Scopes : hash'[t] = IF t = s THEN hash[s] \ call[c].drop ELSE hash[t]
    BY <1>0, <1>4, <2>0 DEF Deletes, Delete
  <2>2. \A t \in Scopes \ {s} : hash[t] \cap hash[s] = {}
    BY <1>0 DEF Books
  <2>3. leaseOf' = leaseOf /\ clock' = clock
    BY <1>4 DEF Deletes
  <2>4. Stored' = Stored \ (hash[s] \cap call[c].drop)
    BY <2>1, <2>2 DEF Stored
  <2>5. CASE call[c].at = "sweep_exec"
    <3>1. /\ call[c].drop = ExpiredIn(hash[s], call[c].now)
          /\ call[c].now <= clock /\ call[c].now \in Nat
      BY <1>0, <1>4, <2>0, <2>5 DEF Deletes, ReadsFresh, ReadFresh, WellTyped, TypeOK, CallState
    <3>2. hash[s] \cap call[c].drop \subseteq ExpiredIn(hash[s], clock)
      <4>1. \A m \in hash[s] : leaseOf[m].expiresAt \in Nat
        BY <1>0 DEF Books, Lease
      <4> QED
        BY <1>0, <3>1, <4>1 DEF ExpiredIn, IsExpired
    <3>3. hash[s] \cap call[c].drop \in SUBSET Atomic!ExpiredIn(Atomic!OfScope(Stored, s), clock)
      BY <1>0, <3>2, StoredByScope, AtomicOperators
    <3>4. hash[s] \cap call[c].drop = {} \/ Atomic!Reclaim(s)
      BY <2>3, <2>4, <3>3 DEF Atomic!Reclaim, Stored
    <3>5. hash[s] \cap call[c].drop = {} => UNCHANGED Atomic!avars
      BY <2>3, <2>4 DEF Atomic!avars, Stored
    <3> QED
      BY <3>4, <3>5 DEF Atomic!Next
  <2>6. CASE call[c].at = "release_exec"
    <3>1. ASSUME NEW l \in LeaseIds, call[c].drop = {l}
          PROVE  [Atomic!Next]_(Atomic!avars)
      <4>1. CASE l \in hash[s]
        <5>1. l \in Stored /\ Stored' = Stored \ {l}
          BY <2>4, <3>1, <4>1 DEF Stored
        <5>2. Atomic!Withdraw(l)
          BY <2>3, <5>1 DEF Atomic!Withdraw, Stored
        <5> QED
          BY <5>2 DEF Atomic!Next
      <4>2. CASE l \notin hash[s]
        <5>1. Stored' = Stored
          BY <2>4, <3>1, <4>2
        <5> QED
          BY <2>3, <5>1 DEF Atomic!avars, Stored
      <4> QED
        BY <4>1, <4>2
    <3> QED
      BY <2>6, <3>1 DEF ReleasesOne
  <2> QED
    BY <1>4, <2>5, <2>6 DEF Deletes
<1> QED
  BY <1>1, <1>2, <1>3, <1>4, <1>0, StepKinds

(* The registry's WATCH / MULTI / EXEC loops implement the atomic registry *)
(* for any number of clients, scopes, leases and retries.                  *)
THEOREM RegistryImplementsAtomicLeases == Spec => ImplementsAtomicLeases
<1>1. Init => SafeInv /\ ReleasesOne /\ Atomic!Init
  <2>1. Init => ReleasesOne
    BY DEF Init, ReleasesOne, Idle
  <2> QED
    BY <2>1, InitSafe, InitIsAtomic
<1>2. SafeInv /\ ReleasesOne /\ [Next]_vars => SafeInv' /\ ReleasesOne'
  <2>1. SafeInv => WellTyped
    BY DEF SafeInv
  <2> QED
    BY <2>1, NextSafe, ReleasesOneStep
<1> QED
  BY <1>1, <1>2, StepIsAtomic, PTL DEF Spec, ImplementsAtomicLeases, Atomic!Spec

-----------------------------------------------------------------------------
(* What clients hold and what sweeps collect.                              *)

\* The lease a client has given up and is releasing.
Giving(c) ==
    IF call[c].at \in {"release_read", "release_exec"} THEN call[c].drop ELSE {}

\* A step hands client d no lease it did not have, and sweeps none into its list.
GainsNothing(d) ==
    /\ held'[d] \subseteq held[d]
    /\ Giving(d)' \subseteq Giving(d) \cup (held[d] \ held'[d])
    /\ call'[d].swept \subseteq call[d].swept

LEMMA OthersGainNothing ==
    ASSUME NEW d, call'[d] = call[d], held'[d] = held[d]
    PROVE  GainsNothing(d)
BY DEF GainsNothing, Giving

LEMMA OnlyTheCallerMoves ==
    ASSUME WellTyped, NEW c \in Clients, Begin(c) \/ Step(c) \/ CallFails(c) \/ Crash(c)
    PROVE  \A d \in Clients \ {c} : call'[d] = call[d] /\ held'[d] = held[d]
<1>0. call \in [Clients -> CallState] /\ held \in [Clients -> SUBSET LeaseIds]
  BY DEF WellTyped, TypeOK
<1>1. CASE Begin(c)
  BY <1>0, <1>1 DEF Begin, ReserveBegin, ReleaseBegin, SweepBegin
<1>2. CASE Step(c)
  <2>1. CASE ReserveRead(c) \/ ReserveDenied(c) \/ ReleaseRead(c) \/ ReleaseAbsent(c) \/ ReleaseCommit(c)
    BY <1>0, <2>1 DEF ReserveRead, ReserveDenied, ReleaseRead, ReleaseAbsent, ReleaseCommit
  <2>2. CASE \E l \in LeaseIds, reply \in BOOLEAN : ReserveCommit(c, l, reply)
    BY <1>0, <2>2 DEF ReserveCommit
  <2>3. CASE \E s \in Scopes : SweepRead(c, s) \/ SweepNothing(c, s)
    BY <1>0, <2>3 DEF SweepRead, SweepNothing, ScopeDone
  <2>4. CASE (\E reply \in BOOLEAN : SweepCommit(c, reply)) \/ SweepReturn(c) \/ ExecRefused(c)
    BY <1>0, <2>4 DEF SweepCommit, ScopeDone, SweepReturn, ExecRefused
  <2> QED
    BY <1>2, <2>1, <2>2, <2>3, <2>4 DEF Step
<1>3. CASE CallFails(c) \/ Crash(c)
  BY <1>0, <1>3 DEF CallFails, Crash
<1> QED
  BY <1>1, <1>2, <1>3

\* Only a grant gives a lease, only the commit of a sweep collects one.
LEMMA CallerGains ==
    ASSUME WellTyped, NEW c \in Clients, Begin(c) \/ Step(c) \/ CallFails(c) \/ Crash(c)
    PROVE  \/ GainsNothing(c)
           \/ \E l \in LeaseIds, reply \in BOOLEAN : ReserveCommit(c, l, reply)
           \/ SweepCommit(c, TRUE)
<1>0. call \in [Clients -> CallState] /\ held \in [Clients -> SUBSET LeaseIds]
  BY DEF WellTyped, TypeOK
<1> USE DEF Giving, GainsNothing
<1>1. ASSUME call'[c] = Idle, held'[c] \subseteq held[c] PROVE GainsNothing(c)
  BY <1>1 DEF Idle
<1>2. ASSUME NEW s \in Scopes, NEW a \in Amounts, NEW k \in Caps, ReserveBegin(c, s, a, k)
      PROVE  GainsNothing(c)
  <2>1. call'[c].at = "reserve_read" /\ call'[c].swept = {} /\ held' = held
    BY <1>0, <1>2 DEF ReserveBegin, Idle
  <2> QED
    BY <2>1
<1>3. ASSUME NEW l \in LeaseIds, ReleaseBegin(c, l) PROVE GainsNothing(c)
  <2>1. /\ call'[c].swept = {} /\ call'[c].drop = {l}
        /\ l \in held[c] /\ held'[c] = held[c] \ {l}
    BY <1>0, <1>3 DEF ReleaseBegin, Idle
  <2> QED
    BY <2>1
<1>4. CASE SweepBegin(c)
  <2>1. call'[c].at = "sweep_read" /\ call'[c].swept = {} /\ held' = held
    BY <1>0, <1>4 DEF SweepBegin, Idle
  <2> QED
    BY <2>1
<1>5. CASE ReserveRead(c)
  <2>1. call'[c].at = "reserve_exec" /\ call'[c].swept = call[c].swept /\ held' = held
    BY <1>0, <1>5 DEF ReserveRead, CallState
  <2> QED
    BY <2>1
<1>6. CASE ReserveDenied(c) \/ ReleaseAbsent(c) \/ ReleaseCommit(c) \/ SweepReturn(c)
  BY <1>0, <1>1, <1>6 DEF ReserveDenied, ReleaseAbsent, ReleaseCommit, SweepReturn
<1>7. CASE ReleaseRead(c)
  <2>1. /\ call'[c].swept = call[c].swept /\ call'[c].drop = call[c].drop
        /\ call[c].at = "release_read" /\ held' = held
    BY <1>0, <1>7 DEF ReleaseRead, CallState
  <2> QED
    BY <2>1
<1>8. ASSUME NEW s \in Scopes, SweepRead(c, s) PROVE GainsNothing(c)
  <2>1. call'[c].at = "sweep_exec" /\ call'[c].swept = call[c].swept /\ held' = held
    BY <1>0, <1>8 DEF SweepRead, CallState
  <2> QED
    BY <2>1
<1>9. ASSUME NEW s \in Scopes, SweepNothing(c, s) PROVE GainsNothing(c)
  <2>1. call'[c].at = "sweep_read" /\ call'[c].swept = call[c].swept /\ held' = held
    BY <1>0, <1>9 DEF SweepNothing, ScopeDone, Idle
  <2> QED
    BY <2>1
<1>10. ASSUME SweepCommit(c, FALSE) PROVE GainsNothing(c)
  BY <1>0, <1>1, <1>10 DEF SweepCommit
<1>11. CASE ExecRefused(c)
  <2>1. call'[c] = ReadAgain(c) \/ call'[c] = Idle
    BY <1>0, <1>11 DEF ExecRefused
  <2>2. held' = held
    BY <1>11 DEF ExecRefused
  <2>3. /\ ReadAgain(c).at = ReadPoint(call[c].at) /\ ReadAgain(c).drop = call[c].drop
        /\ ReadAgain(c).swept = call[c].swept
    BY <1>0 DEF ReadAgain, CallState
  <2>4. ReadPoint(call[c].at) \in {"release_read", "release_exec"} => call[c].at = "release_exec"
    BY <1>11 DEF ExecRefused, ReadPoint
  <2>5. CASE call'[c] = ReadAgain(c)
    BY <2>2, <2>3, <2>4, <2>5
  <2> QED
    BY <1>1, <2>1, <2>2, <2>5
<1>12. CASE CallFails(c) \/ Crash(c)
  BY <1>0, <1>1, <1>12 DEF CallFails, Crash
<1>13. CASE Step(c)
  BY <1>5, <1>6, <1>7, <1>8, <1>9, <1>10, <1>11, <1>13 DEF Step
<1> QED
  BY <1>2, <1>3, <1>4, <1>12, <1>13 DEF Begin

\* The steps, seen from what the clients hold and have collected.
LEMMA HandoverKinds ==
    ASSUME WellTyped, [Next]_vars
    PROVE  \/ \A d \in Clients : GainsNothing(d)
           \/ \E c \in Clients :
                /\ \A d \in Clients \ {c} : GainsNothing(d)
                /\ \/ \E l \in LeaseIds, reply \in BOOLEAN : ReserveCommit(c, l, reply)
                   \/ SweepCommit(c, TRUE)
<1>1. ASSUME NEW c \in Clients, Begin(c) \/ Step(c) \/ CallFails(c) \/ Crash(c)
      PROVE  /\ \A d \in Clients \ {c} : GainsNothing(d)
             /\ \/ GainsNothing(c)
                \/ \E l \in LeaseIds, reply \in BOOLEAN : ReserveCommit(c, l, reply)
                \/ SweepCommit(c, TRUE)
  BY <1>1, OnlyTheCallerMoves, OthersGainNothing, CallerGains
<1>2. CASE Tick \/ (\E s \in Scopes, k \in Caps : SetCap(s, k)) \/ UNCHANGED vars
  <2>1. call' = call /\ held' = held
    BY <1>2 DEF Tick, SetCap, vars
  <2> QED
    BY <2>1, OthersGainNothing
<1>3. CASE \E c \in Clients : Begin(c) \/ Step(c) \/ CallFails(c) \/ Crash(c)
  <2>1. PICK c \in Clients : Begin(c) \/ Step(c) \/ CallFails(c) \/ Crash(c)
    BY <1>3
  <2> QED
    BY <1>1, <2>1
<1> QED
  BY <1>2, <1>3 DEF Next

\* No lease is in two hands, nor held while it is being released.
OneHolder ==
    /\ \A c \in Clients :
          /\ held[c] \cup Giving(c) \subseteq Granted
          /\ held[c] \cap Giving(c) = {}
    /\ \A c, d \in Clients :
          c # d => (held[c] \cup Giving(c)) \cap (held[d] \cup Giving(d)) = {}

\* What has been granted stays granted: an id is never drawn twice.
LEMMA GrantedStays == ASSUME WellTyped, WellTyped', [Next]_vars PROVE Granted \subseteq Granted'
<1>1. CASE NothingWritten \/ Tick \/ \E c \in Clients : Deletes(c)
  BY <1>1 DEF NothingWritten, Tick, Deletes, Granted
<1>2. ASSUME NEW c \in Clients, NEW l \in LeaseIds, NEW reply \in BOOLEAN,
             ReserveCommit(c, l, reply)
      PROVE  Granted \subseteq Granted'
  <2>1. leaseOf[l] = NoLease /\ \A m \in LeaseIds \ {l} : leaseOf'[m] = leaseOf[m]
    BY <1>2 DEF ReserveCommit, WellTyped, TypeOK
  <2> QED
    BY <2>1 DEF Granted
<1> QED
  BY <1>1, <1>2, StepKinds

\* A grant puts a lease in the hands of its caller alone, if it got the reply.
LEMMA GrantFacts ==
    ASSUME WellTyped, NEW c \in Clients, NEW l \in LeaseIds, NEW reply \in BOOLEAN,
           ReserveCommit(c, l, reply)
    PROVE  /\ l \notin Granted /\ l \in Granted'
           /\ held'[c] \subseteq held[c] \cup {l} /\ Giving(c)' = {}
           /\ call'[c].swept = {} /\ returned' = returned
<1>1. held'[c] \subseteq held[c] \cup {l} /\ call'[c] = Idle
  BY DEF ReserveCommit, WellTyped, TypeOK
<1>2. leaseOf[l] = NoLease /\ leaseOf'[l] # NoLease
  <2>1. call[c].scope \in Scopes
    BY DEF ReserveCommit, WellTyped, CallArguments
  <2>2. leaseOf'[l].scope = call[c].scope
    BY DEF ReserveCommit, WellTyped, TypeOK
  <2> QED
    BY <2>1, <2>2, NoScopeIsNoScope DEF ReserveCommit, NoLease
<1>3. l \notin Granted /\ l \in Granted'
  BY <1>2 DEF Granted
<1>4. Giving(c)' = {} /\ call'[c].swept = {} /\ returned' = returned
  BY <1>1 DEF Giving, Idle, ReserveCommit
<1> QED
  BY <1>1, <1>3, <1>4

LEMMA OneHolderStep ==
    ASSUME WellTyped, WellTyped', OneHolder, [Next]_vars
    PROVE  OneHolder'
<1> DEFINE Hand(d) == held[d] \cup Giving(d)
<1>0. Granted \subseteq Granted'
  BY GrantedStays
<1>1. ASSUME NEW d \in Clients, GainsNothing(d)
      PROVE  /\ Hand(d)' \subseteq Hand(d) /\ Hand(d)' \subseteq Granted'
             /\ (held[d] \cap Giving(d) = {})'
  BY <1>0, <1>1 DEF GainsNothing, OneHolder
<1>2. CASE \A d \in Clients : GainsNothing(d)
  BY <1>1, <1>2 DEF OneHolder
<1>3. ASSUME NEW c \in Clients, \A d \in Clients \ {c} : GainsNothing(d),
             NEW l \in LeaseIds, NEW reply \in BOOLEAN, ReserveCommit(c, l, reply)
      PROVE  OneHolder'
  <2>1. /\ Hand(c)' \subseteq Hand(c) \cup {l} /\ Giving(c)' = {}
        /\ l \notin Granted /\ l \in Granted'
    BY <1>3, GrantFacts
  <2>2. Hand(c)' \subseteq Granted' /\ (held[c] \cap Giving(c) = {})'
    BY <1>0, <2>1 DEF OneHolder
  <2>3. \A d \in Clients \ {c} : l \notin Hand(d)'
    BY <1>1, <1>3, <2>1 DEF OneHolder
  <2> QED
    BY <1>1, <1>3, <2>1, <2>2, <2>3 DEF OneHolder
<1>4. ASSUME NEW c \in Clients, \A d \in Clients \ {c} : GainsNothing(d), SweepCommit(c, TRUE)
      PROVE  OneHolder'
  <2>1. held' = held /\ Giving(c)' = {}
    BY <1>4 DEF SweepCommit, ScopeDone, Giving, Idle, WellTyped, TypeOK
  <2>2. Hand(c)' \subseteq Hand(c) /\ Hand(c)' \subseteq Granted' /\ (held[c] \cap Giving(c) = {})'
    BY <1>0, <2>1 DEF OneHolder
  <2> QED
    BY <1>1, <1>4, <2>2 DEF OneHolder
<1> QED
  BY <1>2, <1>3, <1>4, HandoverKinds

LEMMA HeldUntilExpiryStep ==
    ASSUME SafeInv, SafeInv', OneHolder, HeldUntilExpiry, [Next]_vars
    PROVE  HeldUntilExpiry'
<1>0. /\ WellTyped /\ WellTyped' /\ Books /\ ReadsFresh
      /\ hash \in [Scopes -> SUBSET LeaseIds] /\ clock \in Nat /\ clock' \in Nat
      /\ leaseOf \in [LeaseIds -> Lease \cup {NoLease}]
      /\ held \in [Clients -> SUBSET LeaseIds]
  BY BoundsAreNaturals DEF SafeInv, WellTyped, TypeOK
<1>1. \A l \in Granted : leaseOf[l].expiresAt \in Nat
  BY <1>0 DEF Granted, Lease
\* A lease its holder keeps over the step has stayed, or is expired.
<1>2. ASSUME NEW d \in Clients, NEW l \in held[d],
             leaseOf'[l] = leaseOf[l], clock <= clock',
             l \in Stored => l \in Stored' \/ IsExpired(l, clock)'
      PROVE  ~ IsExpired(l, clock)' => l \in Stored'
  <2>1. l \in Granted
    BY DEF OneHolder
  <2>2. leaseOf[l].expiresAt \in Nat
    BY <1>1, <2>1
  <2>3. IsExpired(l, clock) => IsExpired(l, clock)'
    BY <1>0, <1>2, <2>2 DEF IsExpired
  <2> QED
    BY <1>2, <2>3 DEF HeldUntilExpiry
<1>3. ASSUME Tick \/ NothingWritten \/ \E c \in Clients : Deletes(c)
      PROVE  \A d \in Clients : held'[d] \subseteq held[d]
  <2>1. ASSUME NEW c \in Clients, NEW l \in LeaseIds, NEW reply \in BOOLEAN,
               ReserveCommit(c, l, reply)
        PROVE  FALSE
    <3>1. leaseOf' # leaseOf
      BY <1>0, <2>1, GrantFacts DEF Granted
    <3> QED
      BY <1>3, <3>1 DEF Tick, NothingWritten, Deletes
  <2>2. ASSUME NEW c \in Clients, SweepCommit(c, TRUE)
        PROVE  held' = held
    BY <2>2 DEF SweepCommit
  <2>3. CASE \A d \in Clients : GainsNothing(d)
    BY <2>3 DEF GainsNothing
  <2> QED
    BY <1>0, <2>1, <2>2, <2>3, HandoverKinds
<1>4. CASE NothingWritten
  BY <1>0, <1>2, <1>3, <1>4 DEF NothingWritten, HeldUntilExpiry, Stored
<1>5. CASE Tick
  <2>1. clock <= clock' /\ leaseOf' = leaseOf
    BY <1>0, <1>5 DEF Tick
  <2>2. ASSUME NEW l \in Stored, l \notin Stored'
        PROVE  IsExpired(l, clock)'
    <3>1. PICK s \in Scopes : l \in hash[s] /\ l \notin hash'[s]
      BY <2>2 DEF Stored
    <3>2. clock' >= keyExpiry[s]
      BY <1>0, <1>5, <3>1 DEF Tick, RedisKeys
    <3>3. leaseOf[l].expiresAt <= keyExpiry[s] /\ leaseOf[l].expiresAt \in Nat
          /\ keyExpiry[s] \in Nat
      BY <1>0, <3>1 DEF Books, Lease, WellTyped, TypeOK, RedisKeys
    <3> QED
      BY <1>0, <2>1, <3>2, <3>3 DEF IsExpired
  <2> QED
    BY <1>2, <1>3, <1>5, <2>1, <2>2 DEF HeldUntilExpiry
<1>6. ASSUME NEW c \in Clients, NEW m \in LeaseIds, NEW reply \in BOOLEAN,
             ReserveCommit(c, m, reply), NEW d \in Clients, NEW l \in held'[d]
      PROVE  ~ IsExpired(l, clock)' => l \in Stored'
  <2>0. PICK s \in Scopes : s = call[c].scope
    BY <1>0, <1>6, CommitFacts
  <2>1. /\ call[c].now \in Nat /\ call[c].now <= clock
        /\ hash' = [hash EXCEPT ![s] = LiveIn(hash[s], call[c].now) \cup {m}]
        /\ \A x \in LeaseIds \ {m} : leaseOf'[x] = leaseOf[x]
    BY <1>0, <1>6, <2>0, CommitFacts
  <2>2. clock' = clock /\ \A t \in Scopes :
            hash'[t] = IF t = s THEN LiveIn(hash[s], call[c].now) \cup {m} ELSE hash[t]
    BY <1>0, <1>6, <2>1 DEF ReserveCommit
  <2>3. CASE l = m
    BY <2>2, <2>3 DEF Stored
  <2>4. CASE l # m
    <3>1. l \in held[d] /\ l \in LeaseIds
      BY <1>0, <1>6, <2>4 DEF ReserveCommit
    <3>2. leaseOf'[l] = leaseOf[l] /\ leaseOf[l].expiresAt \in Nat
      BY <1>1, <2>1, <2>4, <3>1 DEF OneHolder
    <3>3. l \in Stored => l \in Stored' \/ IsExpired(l, call[c].now)
      BY <2>2 DEF Stored, LiveIn
    <3>4. IsExpired(l, call[c].now) => IsExpired(l, clock)'
      BY <1>0, <2>1, <2>2, <3>2 DEF IsExpired
    <3> QED
      BY <1>0, <1>2, <2>2, <3>1, <3>2, <3>3, <3>4
  <2> QED
    BY <2>3, <2>4
<1>7. ASSUME NEW c \in Clients, Deletes(c), NEW d \in Clients, NEW l \in held'[d]
      PROVE  ~ IsExpired(l, clock)' => l \in Stored'
  <2>0. PICK s \in Scopes : s = call[c].scope
    BY <1>0, <1>7 DEF Deletes, WellTyped, CallArguments
  <2>1. \A t \in Scopes : hash'[t] = IF t = s THEN hash[s] \ call[c].drop ELSE hash[t]
    BY <1>0, <1>7, <2>0 DEF Deletes, Delete
  <2>2. leaseOf' = leaseOf /\ clock' = clock
    BY <1>7 DEF Deletes
  <2>3. l \in held[d] /\ leaseOf[l].expiresAt \in Nat
    BY <1>1, <1>3, <1>7 DEF OneHolder
  <2>4. l \in Stored => l \in Stored' \/ l \in call[c].drop
    BY <2>1 DEF Stored
  <2>5. CASE call[c].at = "sweep_exec"
    <3>1. /\ call[c].drop = ExpiredIn(hash[s], call[c].now)
          /\ call[c].now <= clock /\ call[c].now \in Nat
      BY <1>0, <1>7, <2>0, <2>5 DEF Deletes, ReadsFresh, ReadFresh, WellTyped, TypeOK, CallState
    <3>2. l \in call[c].drop => IsExpired(l, clock)'
      BY <1>0, <2>2, <2>3, <3>1 DEF ExpiredIn, IsExpired
    <3> QED
      BY <1>0, <1>2, <2>2, <2>3, <2>4, <3>2
  <2>6. CASE call[c].at = "release_exec"
    <3>1. call[c].drop = Giving(c)
      BY <2>6 DEF Giving
    <3>2. l \notin call[c].drop
      BY <2>3, <3>1 DEF OneHolder
    <3> QED
      BY <1>0, <1>2, <2>2, <2>3, <2>4, <3>2
  <2> QED
    BY <1>7, <2>5, <2>6 DEF Deletes
<1> QED
  BY <1>0, <1>4, <1>5, <1>6, <1>7, StepKinds DEF HeldUntilExpiry

-----------------------------------------------------------------------------
\* Whatever a sweep has collected was granted, so its id is not drawn again.
Collections ==
    /\ \A c \in Clients : call[c].swept \subseteq Granted
    /\ returned \subseteq Granted
    /\ CollectedOnce

\* Every step but the return of a sweep leaves the returned lists alone.
LEMMA ReturnedLists ==
    ASSUME WellTyped, [Next]_vars
    PROVE  \/ returned' = returned
           \/ \E c \in Clients : SweepReturn(c)
BY DEF Next, Begin, Step, CallFails, Crash, Tick, SetCap, ReserveBegin, ReserveRead,
       ReserveDenied, ReserveCommit, ReleaseBegin, ReleaseRead, ReleaseAbsent, ReleaseCommit,
       SweepBegin, SweepRead, SweepNothing, SweepCommit, ExecRefused, vars

LEMMA CollectionsStep ==
    ASSUME SafeInv, SafeInv', Collections, [Next]_vars
    PROVE  Collections'
<1>0. /\ WellTyped /\ WellTyped' /\ Books /\ ReadsFresh
      /\ hash \in [Scopes -> SUBSET LeaseIds] /\ call \in [Clients -> CallState]
      /\ Granted \subseteq Granted'
  BY GrantedStays DEF SafeInv, WellTyped, TypeOK
<1>1. Stored \subseteq Granted
  BY <1>0, NoScopeIsNoScope DEF Stored, Granted, Books, Lease, NoLease
<1>2. ASSUME NEW c \in Clients, SweepReturn(c)
      PROVE  Collections'
  <2>1. /\ returned' = returned \cup call[c].swept /\ call'[c].swept = {}
        /\ \A d \in Clients \ {c} : call'[d] = call[d]
        /\ Stored' = Stored
    BY <1>0, <1>2 DEF SweepReturn, keys, Idle, Stored
  <2> QED
    BY <1>0, <2>1 DEF Collections, CollectedOnce
<1>3. ASSUME returned' = returned, NEW c \in Clients, SweepCommit(c, TRUE),
             \A d \in Clients \ {c} : GainsNothing(d)
      PROVE  Collections'
  <2>0. PICK s \in Scopes : s = call[c].scope
    BY <1>0, <1>3 DEF SweepCommit, WellTyped, CallArguments
  <2>1. call[c].drop \subseteq hash[s]
    BY <1>0, <1>3, <2>0 DEF SweepCommit, ReadsFresh, ReadFresh, ExpiredIn
  <2>2. \A t \in Scopes : hash'[t] = IF t = s THEN hash[s] \ call[c].drop ELSE hash[t]
    BY <1>0, <1>3, <2>0 DEF SweepCommit, Delete
  <2>3. \A t \in Scopes \ {s} : hash[t] \cap hash[s] = {}
    BY <1>0 DEF Books
  <2>4. Stored' = Stored \ call[c].drop /\ call[c].drop \subseteq Stored
    BY <2>1, <2>2, <2>3 DEF Stored
  <2>5. call'[c].swept = call[c].swept \cup call[c].drop
    BY <1>0, <1>3 DEF SweepCommit, ScopeDone, Idle
  <2>6. \A d \in Clients \ {c} : call'[d].swept \subseteq call[d].swept
    BY <1>3 DEF GainsNothing
  <2> QED
    BY <1>0, <1>1, <1>3, <2>4, <2>5, <2>6 DEF Collections, CollectedOnce
<1>4. ASSUME returned' = returned, \A d \in Clients : call'[d].swept \subseteq call[d].swept
      PROVE  Collections'
  <2>1. CASE NothingWritten \/ Tick \/ \E c \in Clients : Deletes(c)
    <3>1. Stored' \subseteq Stored
      <4>1. CASE NothingWritten
        BY <4>1 DEF NothingWritten, Stored
      <4>2. CASE Tick
        BY <1>0, <4>2 DEF Tick, Stored
      <4>3. CASE \E c \in Clients : Deletes(c)
        BY <1>0, <4>3 DEF Deletes, Delete, Stored
      <4> QED
        BY <2>1, <4>1, <4>2, <4>3
    <3> QED
      BY <1>0, <1>4, <3>1 DEF Collections, CollectedOnce
  <2>2. ASSUME NEW c \in Clients, NEW l \in LeaseIds, NEW reply \in BOOLEAN,
               ReserveCommit(c, l, reply)
        PROVE  Collections'
    <3>1. l \notin Granted
      BY <1>0, <2>2, GrantFacts
    <3>2. Stored' \subseteq Stored \cup {l}
      BY <1>0, <2>2 DEF ReserveCommit, Stored
    <3> QED
      BY <1>0, <1>4, <3>1, <3>2 DEF Collections, CollectedOnce
  <2> QED
    BY <1>0, <2>1, <2>2, StepKinds
<1>5. CASE returned' = returned
  <2>1. CASE \A d \in Clients : GainsNothing(d)
    BY <1>4, <1>5, <2>1 DEF GainsNothing
  <2>2. ASSUME NEW c \in Clients, \A d \in Clients \ {c} : GainsNothing(d),
               NEW l \in LeaseIds, NEW reply \in BOOLEAN, ReserveCommit(c, l, reply)
        PROVE  Collections'
    <3>1. call'[c].swept = {}
      BY <1>0, <2>2, GrantFacts
    <3>2. \A d \in Clients : call'[d].swept \subseteq call[d].swept
      BY <2>2, <3>1 DEF GainsNothing
    <3> QED
      BY <1>4, <1>5, <3>2
  <2> QED
    BY <1>0, <1>3, <1>5, <2>1, <2>2, HandoverKinds
<1> QED
  BY <1>0, <1>2, <1>5, ReturnedLists

(* The inductive invariant of the leases in hands and on lists.            *)
HandsInv == SafeInv /\ OneHolder /\ HeldUntilExpiry /\ Collections

LEMMA SpecHands == Spec => []HandsInv
<1>1. Init => HandsInv
  <2> SUFFICES ASSUME Init PROVE HandsInv
    OBVIOUS
  <2>1. OneHolder /\ HeldUntilExpiry
    BY DEF Init, OneHolder, HeldUntilExpiry, Giving, Idle
  <2>2. Collections
    BY DEF Init, Collections, CollectedOnce, Idle, Stored
  <2> QED
    BY <2>1, <2>2, InitSafe DEF HandsInv
<1>2. HandsInv /\ [Next]_vars => HandsInv'
  <2> SUFFICES ASSUME HandsInv, [Next]_vars PROVE HandsInv'
    OBVIOUS
  <2>1. SafeInv /\ SafeInv' /\ WellTyped /\ WellTyped'
    BY NextSafe DEF HandsInv, SafeInv
  <2>2. OneHolder'
    BY <2>1, OneHolderStep DEF HandsInv
  <2>3. HeldUntilExpiry'
    BY <2>1, HeldUntilExpiryStep DEF HandsInv
  <2>4. Collections'
    BY <2>1, CollectionsStep DEF HandsInv
  <2> QED
    BY <2>1, <2>2, <2>3, <2>4 DEF HandsInv
<1> QED
  BY <1>1, <1>2, PTL DEF Spec

(* Nobody takes a lease from its holder before it expires: no prune, sweep *)
(* or key TTL, however many processes and retries interleave.              *)
THEOREM HeldLeasesStay == Spec => []HeldUntilExpiry
<1>1. HandsInv => HeldUntilExpiry
  BY DEF HandsInv
<1> QED
  BY <1>1, SpecHands, PTL

(* However many sweeps race, an expired lease is on the list of one.       *)
THEOREM SweepsShareNothing == Spec => []CollectedOnce
<1>1. HandsInv => CollectedOnce
  BY DEF HandsInv, Collections
<1> QED
  BY <1>1, SpecHands, PTL

=============================================================================

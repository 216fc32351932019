------------------------ MODULE AdmissionGateProofs -------------------------
(***************************************************************************)
(* The admission gate's safety for every set of runs, counters, caps and   *)
(* leases, and any number of failures.                                     *)
(***************************************************************************)
EXTENDS AdmissionGate, FiniteSetTheorems, WellFoundedInduction, SequenceTheorems, TLAPS

-----------------------------------------------------------------------------
(* Minima and totals.                                                      *)

\* Of some naturals one is the smallest.
LEMMA LeastNatural ==
    ASSUME NEW S \in SUBSET Nat, S # {}
    PROVE  \E x \in S : \A y \in S : x <= y
<1> DEFINE R == OpToRel(<, Nat)
<1>1. PICK x \in S : \A y \in S : ~(<<y, x>> \in R)
  <2>1. IsWellFoundedOn(R, Nat)
    BY NatLessThanWellFounded
  <2> HIDE DEF R
  <2> QED
    BY <2>1, WFMin, Zenon
<1>2. \A y \in S : ~(y < x)
  BY <1>1 DEF OpToRel
<1> QED
  BY <1>2

LEMMA AmountsFinite == IsFiniteSet(Amounts) /\ 1 \in Amounts /\ Amounts \subseteq Nat
BY BoundsAreNaturals, FS_Interval DEF Amounts

LEMMA UnitsFinite ==
    ASSUME NEW f, NEW S \in SUBSET LeaseIds
    PROVE  IsFiniteSet(UnitsOf(f, S)) /\ Cardinality(UnitsOf(f, S)) \in Nat
<1>1. IsFiniteSet(S \X Amounts)
  BY LeaseIdsFinite, AmountsFinite, FS_Subset, FS_Product
<1>2. UnitsOf(f, S) \subseteq S \X Amounts
  BY DEF UnitsOf
<1> QED
  BY <1>1, <1>2, FS_Subset, FS_CardinalityType

LEMMA UnitsMonotone ==
    ASSUME NEW f, NEW S \in SUBSET LeaseIds, NEW T \in SUBSET S
    PROVE  Cardinality(UnitsOf(f, T)) <= Cardinality(UnitsOf(f, S))
<1>1. UnitsOf(f, T) \subseteq UnitsOf(f, S)
  BY DEF UnitsOf
<1> QED
  BY <1>1, UnitsFinite, FS_Subset

LEMMA UnitsAgree ==
    ASSUME NEW f, NEW g, NEW S \in SUBSET LeaseIds, \A l \in S : f[l] = g[l]
    PROVE  UnitsOf(f, S) = UnitsOf(g, S)
BY DEF UnitsOf

\* The gate claims one unit of a counter at a time.
LEMMA OneUnitMore ==
    ASSUME NEW f, NEW S \in SUBSET LeaseIds, NEW l \in LeaseIds \ S, f[l].amount = 1
    PROVE  Cardinality(UnitsOf(f, S \cup {l})) = Cardinality(UnitsOf(f, S)) + 1
<1>1. UnitsOf(f, S \cup {l}) = UnitsOf(f, S) \cup {<<l, 1>>}
  BY AmountsFinite DEF UnitsOf, Amounts
<1>2. <<l, 1>> \notin UnitsOf(f, S)
  BY DEF UnitsOf
<1> QED
  BY <1>1, <1>2, UnitsFinite, FS_AddElement

\* The head of the watchdog's list depends on what is on the list only.
LEMMA SameHead ==
    ASSUME NEW S, NEW f, NEW g, \A l \in S : f[l] = g[l]
    PROVE  (CHOOSE l \in S : \A m \in S : f[l].expiresAt <= f[m].expiresAt)
             = (CHOOSE l \in S : \A m \in S : g[l].expiresAt <= g[m].expiresAt)
<1>1. \A l : (l \in S /\ \A m \in S : f[l].expiresAt <= f[m].expiresAt)
               <=> (l \in S /\ \A m \in S : g[l].expiresAt <= g[m].expiresAt)
  OBVIOUS
<1> QED
  BY <1>1, Zenon

\* The registry's operators are the gate's.
LEMMA RegistryOperators ==
    ASSUME NEW S, NEW now, NEW s
    PROVE  /\ Registry!LiveIn(S, now) = LiveIn(S, now)
           /\ Registry!ExpiredIn(S, now) = ExpiredIn(S, now)
           /\ Registry!OfScope(S, s) = OfScope(S, s)
           /\ Registry!Total(S) = Total(S)
           /\ Registry!Granted = Granted
<1>1. Registry!LiveIn(S, now) = LiveIn(S, now)
  BY DEF Registry!LiveIn, Registry!IsExpired, LiveIn, IsExpired
<1>2. Registry!ExpiredIn(S, now) = ExpiredIn(S, now)
  BY DEF Registry!ExpiredIn, Registry!IsExpired, ExpiredIn, IsExpired
<1>3. Registry!UnitsOf(leaseOf, S) = UnitsOf(leaseOf, S)
  BY DEF Registry!UnitsOf, Registry!Amounts, UnitsOf, Amounts
<1>4. \A T : Registry!Cardinality(T) = Cardinality(T)
  BY DEF Registry!Cardinality, Cardinality, Registry!IsFiniteSet, IsFiniteSet
<1>5. Registry!OfScope(S, s) = OfScope(S, s)
  BY DEF Registry!OfScope, OfScope
<1>6. Registry!Granted = Granted
  BY DEF Registry!Granted, Granted, Registry!NoLease, NoLease, Registry!NoScope, NoScope
<1> QED
  BY <1>1, <1>2, <1>3, <1>4, <1>5, <1>6 DEF Registry!Total, Total

-----------------------------------------------------------------------------
(* The inductive invariant.                                                *)

\* TypeOK, with the two sequences of a run as functions of the runs.
WellTyped ==
    /\ TypeOK
    /\ taken \in [Runs -> Seq(LeaseIds)]
    /\ toRelease \in [Runs -> Seq(LeaseIds)]

\* Every lease was granted to a run and expires within the horizon.
LeasesOwned == \A l \in Granted : owner[l] \in Runs /\ leaseOf[l].expiresAt <= MaxClock

\* What a run has in hand is its own, and a release loop visits nothing else.
InHand(r) ==
    /\ \A l \in Kept(r) : l \in Granted /\ owner[l] = r
    /\ \A i \in DOMAIN toRelease[r] : toRelease[r][i] \in Kept(r)
    /\ phase[r] \in {"new", "ended"} => taken[r] = <<>>
    /\ phase[r] = "admitted" => taken[r] # <<>>
    /\ phase[r] \in {"unwinding", "releasing"} <=> toRelease[r] # <<>>

Hands == \A r \in Runs : InHand(r)

\* Until it gives them up a run's unexpired leases are in the registry.
Backed ==
    \A r \in Runs : phase[r] \in {"reserving", "admitted"} =>
        \A l \in Kept(r) : ~ IsExpired(l, clock) => l \in claims

\* What a context names was granted; whoever carries one carries a claim.
ContextInv(r) ==
    /\ context[r] \subseteq Granted
    /\ IsCarried(r) => context[r] # {}
    /\ phase[r] = "admitted" => context[r] = Kept(r)

Contexts == \A r \in Runs : ContextInv(r)

\* A lease that nobody gave up and that has not expired is in the registry,
\* whatever became of the run it was granted to.
Standing == \A l \in Granted : l \notin settled /\ ~ IsExpired(l, clock) => l \in claims

\* The watchdog works on expired leases nobody gave up in time.
Reports ==
    /\ \A l \in dog.list : l \in Granted /\ IsExpired(l, clock) /\ l \notin settled
    /\ settled \cap claims = {}
    /\ dog.at \in {"flag", "worktree", "result_namespace"} => dog.list # {}
    /\ dog.at \in Surfaces => IsBudget(NextReported)

WithinCap == \A s \in Scopes : Total(LiveIn(OfScope(claims, s), clock)) <= Cap[s]

GateInv ==
    /\ WellTyped /\ LeasesOwned /\ Hands /\ Backed /\ Contexts /\ Standing
    /\ Reports /\ WithinCap /\ OnlyOverdueQuarantined

-----------------------------------------------------------------------------
LEMMA TypeFacts ==
    ASSUME WellTyped
    PROVE  /\ clock \in Nat /\ Granted \subseteq LeaseIds /\ claims \subseteq LeaseIds
           /\ \A l \in Granted : leaseOf[l] \in Lease /\ leaseOf[l].expiresAt \in Nat
                                 /\ leaseOf[l].scope \in Scopes
           /\ \A s \in Scopes : Cap[s] \in Nat
<1>1. clock \in Nat
  BY BoundsAreNaturals DEF WellTyped, TypeOK
<1>2. Granted \subseteq LeaseIds /\ claims \subseteq LeaseIds
  BY DEF WellTyped, TypeOK, Granted
<1>3. \A l \in Granted : leaseOf[l] \in Lease
  BY DEF WellTyped, TypeOK, Granted
<1>4. \A s \in Scopes : Cap[s] \in Nat
  BY GateAssumption, BoundsAreNaturals DEF Caps
<1> QED
  BY <1>1, <1>2, <1>3, <1>4 DEF Lease

LEMMA WantedFacts ==
    ASSUME NEW r \in Runs
    PROVE  /\ Wanted(r) \in Seq(Scopes) /\ Len(Wanted(r)) \in Nat \ {0}
           /\ \A n \in Nat : n < Len(Wanted(r)) => Wanted(r)[n + 1] \in Scopes
<1>1. BudgetScope[r] \in Scopes /\ SlotScopes[r] \in Seq(Scopes)
  BY GateAssumption
<1>2. <<BudgetScope[r]>> \in Seq(Scopes) /\ Len(<<BudgetScope[r]>>) = 1
  BY <1>1
<1>3. /\ Wanted(r) \in Seq(Scopes)
      /\ Len(Wanted(r)) = Len(<<BudgetScope[r]>>) + Len(SlotScopes[r])
  BY <1>1, <1>2, ConcatProperties DEF Wanted
<1>4. Len(SlotScopes[r]) \in Nat
  BY <1>1, LenProperties
<1>5. Len(Wanted(r)) \in Nat \ {0}
  BY <1>2, <1>3, <1>4
<1>6. ASSUME NEW n \in Nat, n < Len(Wanted(r)) PROVE Wanted(r)[n + 1] \in Scopes
  <2>1. n + 1 \in 1..Len(Wanted(r))
    BY <1>5, <1>6
  <2> QED
    BY <1>3, <2>1
<1> QED
  BY <1>3, <1>5, <1>6

\* What a successful registry call of admit() does.
LEMMA GrantFacts ==
    ASSUME WellTyped, NEW r \in Runs, NEW g \in 0..MaxClock, Reserves(r, g)
    PROVE  \E l \in LeaseIds, s \in Scopes :
             /\ l = FreshId /\ l \notin Granted
             /\ Granted' = Granted \cup {l}
             /\ g \in Nat /\ g <= clock /\ clock' = clock
             /\ Total(LiveIn(OfScope(claims, s), g)) + 1 <= Cap[s]
             /\ claims' = (claims \ ExpiredIn(OfScope(claims, s), g)) \cup {l}
             /\ leaseOf' \in [LeaseIds -> Lease \cup {NoLease}]
             /\ \A m \in LeaseIds \ {l} : leaseOf'[m] = leaseOf[m] /\ owner'[m] = owner[m]
             /\ leaseOf'[l].scope = s /\ leaseOf'[l].amount = 1
             /\ leaseOf'[l].expiresAt = g + TTL
             /\ clock < g + TTL /\ g + TTL <= MaxClock
             /\ owner' \in [LeaseIds -> Runs \cup {NoRun}] /\ owner'[l] = r
<1> DEFINE l == FreshId
           s == Wanted(r)[Len(taken[r]) + 1]
<1>1. Len(taken[r]) \in Nat /\ Len(taken[r]) < Len(Wanted(r))
  BY LenProperties DEF WellTyped, Reserves
<1>2. s \in Scopes
  BY <1>1, WantedFacts
<1>3. Registry!Grant(l, s, 1, Cap[s], g)
  BY DEF Reserves
<1>4. g \in Nat /\ g + TTL \in Nat /\ clock < g + TTL /\ g + TTL <= MaxClock
  BY BoundsAreNaturals DEF Reserves
<1> HIDE DEF l, s
<1>5. l \in LeaseIds /\ l \notin Granted
  BY <1>3, RegistryOperators DEF Registry!Grant
<1>6. /\ g <= clock /\ clock' = clock
      /\ Total(LiveIn(OfScope(claims, s), g)) + 1 <= Cap[s]
      /\ claims' = (claims \ ExpiredIn(OfScope(claims, s), g)) \cup {l}
      /\ leaseOf' = [leaseOf EXCEPT ![l] =
             [scope |-> s, amount |-> 1, hardCap |-> Cap[s],
              grantedAt |-> g, expiresAt |-> g + TTL]]
  BY <1>3, RegistryOperators DEF Registry!Grant
<1>7. [scope |-> s, amount |-> 1, hardCap |-> Cap[s],
       grantedAt |-> g, expiresAt |-> g + TTL] \in Lease
  BY <1>2, <1>4, AmountsFinite, GateAssumption DEF Lease
<1>8. /\ leaseOf' \in [LeaseIds -> Lease \cup {NoLease}]
      /\ \A m \in LeaseIds \ {l} : leaseOf'[m] = leaseOf[m]
      /\ leaseOf'[l].scope = s /\ leaseOf'[l].amount = 1 /\ leaseOf'[l].expiresAt = g + TTL
  BY <1>5, <1>6, <1>7 DEF WellTyped, TypeOK
<1>9. leaseOf'[l] # NoLease
  BY <1>2, <1>8, NoScopeIsNoScope DEF NoLease
<1>10. Granted' = Granted \cup {l}
  BY <1>5, <1>8, <1>9 DEF Granted
<1>11. /\ owner' \in [LeaseIds -> Runs \cup {NoRun}] /\ owner'[l] = r
       /\ \A m \in LeaseIds \ {l} : owner'[m] = owner[m]
  BY <1>5 DEF Reserves, WellTyped, TypeOK, l
<1>12. l = FreshId
  BY DEF l
<1> QED
  BY <1>2, <1>4, <1>5, <1>6, <1>8, <1>10, <1>11, <1>12

-----------------------------------------------------------------------------
(* The steps, seen from one run ...                                        *)

Stays(r) ==
    phase'[r] = phase[r] /\ taken'[r] = taken[r] /\ toRelease'[r] = toRelease[r]

Takes(r) ==
    /\ phase[r] \in {"new", "reserving"} /\ phase'[r] = "reserving"
    /\ Len(taken[r]) < Len(Wanted(r))
    /\ taken'[r] = Append(taken[r], FreshId) /\ toRelease'[r] = toRelease[r]
    /\ \E g \in 0..MaxClock : Reserves(r, g)

IsAdmitted(r) ==
    /\ phase[r] = "reserving" /\ phase'[r] = "admitted" /\ taken[r] # <<>>
    /\ taken'[r] = taken[r] /\ toRelease'[r] = toRelease[r]

GivesUp(r) ==
    /\ phase'[r] \in {"unwinding", "releasing"} /\ taken[r] # <<>>
    /\ taken'[r] = taken[r] /\ toRelease'[r] = taken[r]

LoopsOn(r) ==
    /\ phase[r] \in {"unwinding", "releasing"} /\ phase'[r] = phase[r]
    /\ taken'[r] = taken[r]
    /\ toRelease'[r] = Tail(toRelease[r]) /\ toRelease'[r] # <<>>

Ends(r) == phase'[r] = "ended" /\ taken'[r] = <<>> /\ toRelease'[r] = <<>>

Moves(r) ==
    Stays(r) \/ Takes(r) \/ IsAdmitted(r) \/ GivesUp(r) \/ LoopsOn(r) \/ Ends(r)

\* ... of all the runs one moves at most.
OneMoves ==
    /\ phase' = [r \in Runs |-> phase'[r]]
    /\ taken' = [r \in Runs |-> taken'[r]]
    /\ toRelease' = [r \in Runs |-> toRelease'[r]]
    /\ \A r \in Runs : Moves(r)

LEMMA MovesAlone ==
    ASSUME WellTyped, NEW r \in Runs, NEW p, NEW T, NEW R,
           phase' = [phase EXCEPT ![r] = p] \/ (phase' = phase /\ p = phase[r]),
           taken' = [taken EXCEPT ![r] = T] \/ (taken' = taken /\ T = taken[r]),
           toRelease' = [toRelease EXCEPT ![r] = R] \/ (toRelease' = toRelease /\ R = toRelease[r]),
           phase'[r] = p /\ taken'[r] = T /\ toRelease'[r] = R => Moves(r)
    PROVE  OneMoves
<1>0. /\ phase \in [Runs -> Phases] /\ taken \in [Runs -> Seq(LeaseIds)]
      /\ toRelease \in [Runs -> Seq(LeaseIds)]
  BY DEF WellTyped, TypeOK
<1>1. phase' = [q \in Runs |-> phase'[q]] /\ phase'[r] = p
      /\ \A q \in Runs \ {r} : phase'[q] = phase[q]
  BY <1>0
<1>2. taken' = [q \in Runs |-> taken'[q]] /\ taken'[r] = T
      /\ \A q \in Runs \ {r} : taken'[q] = taken[q]
  BY <1>0
<1>3. toRelease' = [q \in Runs |-> toRelease'[q]] /\ toRelease'[r] = R
      /\ \A q \in Runs \ {r} : toRelease'[q] = toRelease[q]
  BY <1>0
<1>4. \A q \in Runs \ {r} : Stays(q)
  BY <1>1, <1>2, <1>3 DEF Stays
<1> QED
  BY <1>1, <1>2, <1>3, <1>4 DEF OneMoves, Moves

LEMMA NobodyMoves ==
    ASSUME WellTyped, UNCHANGED <<phase, taken, toRelease>>
    PROVE  OneMoves
BY DEF WellTyped, TypeOK, OneMoves, Moves, Stays

LEMMA RefuseMoves == ASSUME WellTyped, NEW r \in Runs, Refuse(r) PROVE OneMoves
<1> DEFINE p == IF taken[r] = <<>> THEN "ended" ELSE "unwinding"
<1>1. /\ phase' = [phase EXCEPT ![r] = p] /\ taken' = taken
      /\ toRelease' = [toRelease EXCEPT ![r] = taken[r]]
  BY DEF Refuse
<1>2. phase'[r] = p /\ taken'[r] = taken[r] /\ toRelease'[r] = taken[r] => Moves(r)
  BY DEF Moves, GivesUp, Ends
<1> HIDE DEF p
<1> QED
  BY <1>1, <1>2, MovesAlone

LEMMA LoopMoves ==
    ASSUME WellTyped, Hands, NEW r \in Runs, phase[r] \in {"unwinding", "releasing"},
           NEW left \in {<<>>, Tail(toRelease[r])}, LoopOn(r, left)
    PROVE  OneMoves
<1>1. CASE left = <<>>
  <2>1. /\ phase' = [phase EXCEPT ![r] = "ended"] /\ taken' = [taken EXCEPT ![r] = <<>>]
        /\ toRelease' = [toRelease EXCEPT ![r] = <<>>]
    BY <1>1 DEF LoopOn
  <2>2. phase'[r] = "ended" /\ taken'[r] = <<>> /\ toRelease'[r] = <<>> => Moves(r)
    BY DEF Moves, Ends
  <2> QED
    BY <2>1, <2>2, MovesAlone
<1>2. CASE left # <<>>
  <2>1. /\ phase' = [phase EXCEPT ![r] = phase[r]] /\ taken' = [taken EXCEPT ![r] = taken[r]]
        /\ toRelease' = [toRelease EXCEPT ![r] = left]
    BY <1>2 DEF LoopOn
  <2>2. phase'[r] = phase[r] /\ taken'[r] = taken[r] /\ toRelease'[r] = left => Moves(r)
    BY <1>2 DEF Moves, LoopsOn
  <2> QED
    BY <2>1, <2>2, MovesAlone
<1> QED
  BY <1>1, <1>2

LEMMA RunMoves ==
    ASSUME WellTyped, Hands, NEW r \in Runs, RunStep(r)
    PROVE  OneMoves
<1>0. taken[r] \in Seq(LeaseIds)
  BY DEF WellTyped
<1>1. ASSUME NEW g \in 0..MaxClock, Reserve(r, g) PROVE OneMoves
  <2>1. /\ phase' = [phase EXCEPT ![r] = "reserving"]
        /\ taken' = [taken EXCEPT ![r] = Append(taken[r], FreshId)]
        /\ toRelease' = toRelease
    BY <1>1 DEF Reserve
  <2>2. phase'[r] = "reserving" /\ taken'[r] = Append(taken[r], FreshId)
          /\ toRelease'[r] = toRelease[r] => Moves(r)
    BY <1>1 DEF Reserve, Reserves, Moves, Takes
  <2> QED
    BY <2>1, <2>2, MovesAlone
<1>2. CASE (\E g \in 0..MaxClock : ReserveLost(r, g)) \/ ReserveRefused(r) \/ RecordInvalid(r)
  BY <1>2, RefuseMoves DEF ReserveLost, ReserveRefused, RecordInvalid
<1>3. ASSUME Len(taken[r]) = Len(Wanted(r)) PROVE taken[r] # <<>>
  BY <1>3, WantedFacts
<1>4. CASE Admit(r)
  <2>1. phase' = [phase EXCEPT ![r] = "admitted"] /\ taken' = taken /\ toRelease' = toRelease
    BY <1>4 DEF Admit
  <2>2. phase'[r] = "admitted" /\ taken'[r] = taken[r] /\ toRelease'[r] = toRelease[r] => Moves(r)
    BY <1>3, <1>4 DEF Admit, Moves, IsAdmitted
  <2> QED
    BY <2>1, <2>2, MovesAlone
<1>5. CASE Invoke(r) \/ InvokeReturns(r) \/ Spawn(r) \/ HeirEnds(r)
  BY <1>5, NobodyMoves DEF Invoke, InvokeReturns, Spawn, HeirEnds
<1>6. CASE BodyEnds(r)
  <2>1. /\ phase' = [phase EXCEPT ![r] = "releasing"] /\ taken' = taken
        /\ toRelease' = [toRelease EXCEPT ![r] = taken[r]]
    BY <1>6 DEF BodyEnds
  <2>2. taken[r] # <<>>
    BY <1>6 DEF BodyEnds, Hands, InHand
  <2>3. phase'[r] = "releasing" /\ taken'[r] = taken[r] /\ toRelease'[r] = taken[r] => Moves(r)
    BY <2>2 DEF Moves, GivesUp
  <2> QED
    BY <2>1, <2>3, MovesAlone
<1>7. CASE ReleaseNext(r) \/ UnwindFails(r) \/ ReleaseFails(r)
  BY <1>7, LoopMoves DEF ReleaseNext, UnwindFails, ReleaseFails
<1>8. CASE Crash(r)
  <2>1. /\ phase' = [phase EXCEPT ![r] = "ended"] /\ taken' = [taken EXCEPT ![r] = <<>>]
        /\ toRelease' = [toRelease EXCEPT ![r] = <<>>]
    BY <1>8 DEF Crash
  <2>2. phase'[r] = "ended" /\ taken'[r] = <<>> /\ toRelease'[r] = <<>> => Moves(r)
    BY DEF Moves, Ends
  <2> QED
    BY <2>1, <2>2, MovesAlone
<1>9. CASE HandOver(r)
  <2>1. /\ phase' = [phase EXCEPT ![r] = "ended"] /\ taken' = [taken EXCEPT ![r] = <<>>]
        /\ toRelease' = toRelease
    BY <1>9 DEF HandOver
  <2>2. toRelease[r] = <<>>
    BY <1>9 DEF HandOver, Hands, InHand
  <2>3. phase'[r] = "ended" /\ taken'[r] = <<>> /\ toRelease'[r] = toRelease[r] => Moves(r)
    BY <2>2 DEF Moves, Ends
  <2> QED
    BY <2>1, <2>3, MovesAlone
<1> QED
  BY <1>1, <1>2, <1>4, <1>5, <1>6, <1>7, <1>8, <1>9 DEF RunStep

LEMMA StepMoves == ASSUME WellTyped, Hands, [Next]_vars PROVE OneMoves
<1>1. CASE Tick \/ DogStep \/ UNCHANGED vars
  <2>1. UNCHANGED <<phase, taken, toRelease>>
    BY <1>1 DEF Tick, DogStep, DogBegin, DogExpire, DogSwept, DogFlag, DogQuarantine, DogFails,
         DogOnly, runs, vars
  <2> QED
    BY <2>1, NobodyMoves
<1> QED
  BY <1>1, RunMoves DEF Next

-----------------------------------------------------------------------------
(* ... and seen from the registry: a lease is granted, one is released by  *)
(* its owner, or nothing but expired ones go.                              *)

Granting ==
    /\ \E r \in Runs, g \in 0..MaxClock : Reserves(r, g)
    /\ UNCHANGED <<watchdog, settled>>

Releasing(l) ==
    /\ l \in Granted /\ phase[owner[l]] \in {"unwinding", "releasing"}
    /\ claims' = claims \ {l}
    /\ settled' = IF IsExpired(l, clock) THEN settled ELSE settled \cup {l}
    /\ UNCHANGED <<leaseOf, owner, clock, watchdog>>

Passing ==
    /\ claims' \subseteq claims
    /\ \A l \in claims \ claims' : IsExpired(l, clock)
    /\ clock' \in 0..MaxClock /\ clock <= clock'
    /\ UNCHANGED <<leaseOf, owner, settled>>
    /\ (DogStep /\ clock' = clock) \/ UNCHANGED watchdog

LEMMA NextInLoop ==
    ASSUME WellTyped, Hands, NEW r \in Runs, phase[r] \in {"unwinding", "releasing"}
    PROVE  /\ toRelease[r] # <<>> /\ Head(toRelease[r]) \in Kept(r)
           /\ Head(toRelease[r]) \in Granted /\ owner[Head(toRelease[r])] = r
<1>1. toRelease[r] # <<>> /\ toRelease[r] \in Seq(LeaseIds)
  BY DEF Hands, InHand, WellTyped
<1>2. Head(toRelease[r]) = toRelease[r][1] /\ 1 \in DOMAIN toRelease[r]
  <2>1. Len(toRelease[r]) \in Nat /\ Len(toRelease[r]) # 0 /\ DOMAIN toRelease[r] = 1..Len(toRelease[r])
    BY <1>1, LenProperties, EmptySeq
  <2> QED
    BY <1>1, <2>1, HeadTailProperties
<1> QED
  BY <1>1, <1>2 DEF Hands, InHand

LEMMA RegistryKinds ==
    ASSUME WellTyped, Hands, [Next]_vars
    PROVE  Granting \/ (\E l \in LeaseIds : Releasing(l)) \/ Passing
<1>0. clock \in 0..MaxClock /\ clock <= clock /\ clock \in Nat
  BY BoundsAreNaturals DEF WellTyped, TypeOK
<1>1. ASSUME UNCHANGED <<registry, settled, watchdog>> PROVE Passing
  BY <1>0, <1>1 DEF registry, Passing
<1>2. ASSUME NEW r \in Runs, RunStep(r)
      PROVE  Granting \/ (\E l \in LeaseIds : Releasing(l)) \/ Passing
  <2>1. ASSUME NEW g \in 0..MaxClock, Reserve(r, g) \/ ReserveLost(r, g) PROVE Granting
    BY <2>1 DEF Reserve, ReserveLost, Refuse, Granting
  <2>2. CASE ReserveRefused(r) \/ RecordInvalid(r) \/ Admit(r) \/ Invoke(r) \/ InvokeReturns(r)
             \/ Spawn(r) \/ HandOver(r) \/ HeirEnds(r)
             \/ BodyEnds(r) \/ UnwindFails(r) \/ ReleaseFails(r) \/ Crash(r)
    BY <1>1, <2>2 DEF ReserveRefused, RecordInvalid, Refuse, Admit, Invoke, InvokeReturns, Spawn,
         HandOver, HeirEnds, BodyEnds, UnwindFails, ReleaseFails, LoopOn, Crash
  <2>3. CASE ReleaseNext(r)
    <3> DEFINE l == Head(toRelease[r])
    <3>1. /\ l \in claims => Registry!Withdraw(l)
          /\ l \notin claims => UNCHANGED <<claims, leaseOf, clock>>
          /\ settled' = IF IsExpired(l, clock) THEN settled ELSE settled \cup {l}
          /\ UNCHANGED <<owner, watchdog>>
      BY <2>3 DEF ReleaseNext, LoopOn
    <3>2. phase[r] \in {"unwinding", "releasing"}
      BY <2>3 DEF ReleaseNext
    <3>3. l \in Granted /\ owner[l] = r /\ l \in LeaseIds
      BY <3>2, NextInLoop DEF Granted
    <3> HIDE DEF l
    <3>4. claims' = claims \ {l} /\ UNCHANGED <<leaseOf, clock>>
      BY <3>1 DEF Registry!Withdraw
    <3> QED
      BY <3>1, <3>2, <3>3, <3>4 DEF Releasing
  <2> QED
    BY <1>2, <2>1, <2>2, <2>3 DEF RunStep
<1>3. CASE Tick
  <2>1. clock' \in 0..MaxClock /\ clock <= clock'
    BY <1>0, <1>3, BoundsAreNaturals DEF Tick
  <2> QED
    BY <1>3, <2>1 DEF Tick, Passing
<1>4. CASE DogStep
  <2>1. UNCHANGED <<leaseOf, owner, settled, clock>>
    BY <1>4 DEF DogStep, DogBegin, DogExpire, DogSwept, DogFlag, DogQuarantine, DogFails, DogOnly
  <2>2. claims' \subseteq claims /\ \A l \in claims \ claims' : IsExpired(l, clock)
    BY <1>4 DEF DogStep, DogBegin, DogExpire, DogSwept, DogFlag, DogQuarantine, DogFails, DogOnly,
         ExpiredIn
  <2> QED
    BY <1>0, <1>4, <2>1, <2>2 DEF Passing
<1>5. CASE UNCHANGED vars
  BY <1>1, <1>5 DEF vars
<1> QED
  BY <1>2, <1>3, <1>4, <1>5 DEF Next

\* Granted leases keep payload and owner; what is expired stays so.
LEMMA LeasesKept ==
    ASSUME WellTyped, Hands, [Next]_vars
    PROVE  /\ Granted \subseteq Granted'
           /\ \A l \in Granted : leaseOf'[l] = leaseOf[l] /\ owner'[l] = owner[l]
           /\ clock' \in 0..MaxClock /\ clock <= clock' /\ clock' \in Nat
           /\ \A l \in Granted : IsExpired(l, clock) => IsExpired(l, clock)'
<1>0. clock \in Nat /\ clock \in 0..MaxClock /\ \A l \in Granted : leaseOf[l].expiresAt \in Nat
  BY TypeFacts DEF WellTyped, TypeOK
<1>1. /\ Granted \subseteq Granted'
      /\ \A l \in Granted : leaseOf'[l] = leaseOf[l] /\ owner'[l] = owner[l]
      /\ clock' \in 0..MaxClock /\ clock <= clock'
  <2>1. CASE Granting
    <3>1. PICK r \in Runs, g \in 0..MaxClock : Reserves(r, g)
      BY <2>1 DEF Granting
    <3> QED
      BY <1>0, <3>1, GrantFacts DEF Granted
  <2>2. CASE (\E l \in LeaseIds : Releasing(l)) \/ Passing
    BY <1>0, <2>2 DEF Releasing, Passing, Granted
  <2> QED
    BY <2>1, <2>2, RegistryKinds
<1>2. clock' \in Nat
  BY <1>1, BoundsAreNaturals
<1> QED
  BY <1>0, <1>1, <1>2 DEF IsExpired

-----------------------------------------------------------------------------
(* Types.                                                                  *)

LEMMA HeadOfList ==
    ASSUME WellTyped, Reports, dog.list # {}
    PROVE  NextReported \in dog.list /\ NextReported \in Granted
<1> DEFINE S == {leaseOf[l].expiresAt : l \in dog.list}
<1>1. dog.list \subseteq Granted
  BY DEF Reports
<1>2. S \in SUBSET Nat /\ S # {}
  BY <1>1, TypeFacts
<1>3. PICK x \in S : \A y \in S : x <= y
  <2> HIDE DEF S
  <2> QED
    BY <1>2, LeastNatural
<1>4. PICK l \in dog.list : leaseOf[l].expiresAt = x
  OBVIOUS
<1>5. \A m \in dog.list : leaseOf[l].expiresAt <= leaseOf[m].expiresAt
  BY <1>3, <1>4
<1>6. NextReported \in dog.list
  BY <1>5 DEF NextReported
<1> QED
  BY <1>1, <1>6

LEMMA DogTypes ==
    ASSUME WellTyped, LeasesOwned, Reports, DogStep
    PROVE  dog' \in DogState /\ flags' \subseteq Granted /\ ledger' \subseteq Surfaces \X Runs
<1>0. /\ dog \in DogState /\ flags \subseteq Granted /\ ledger \subseteq Surfaces \X Runs
      /\ claims \subseteq Granted /\ Granted \subseteq LeaseIds
      /\ \A l \in claims : leaseOf[l].scope \in Scopes
  BY TypeFacts DEF WellTyped, TypeOK
<1>1. IdleDog \in DogState
  BY DEF IdleDog, DogState
<1>2. \A T \in SUBSET Scopes : [dog EXCEPT !.at = "sweep", !.todo = T] \in DogState
  BY <1>0 DEF DogState
<1>3. \A T \in SUBSET Scopes, D \in SUBSET LeaseIds :
          [dog EXCEPT !.todo = T, !.list = D] \in DogState
  BY <1>0 DEF DogState
<1>4. \A p \in {"flag", "worktree", "result_namespace"} : [dog EXCEPT !.at = p] \in DogState
  BY <1>0 DEF DogState
<1>5. \A D \in SUBSET LeaseIds : [dog EXCEPT !.at = "flag", !.list = D] \in DogState
  BY <1>0 DEF DogState
<1>6. dog.todo \in SUBSET Scopes /\ dog.list \in SUBSET LeaseIds
  BY <1>0 DEF DogState
<1>7. Reported \in DogState
  BY <1>1, <1>5, <1>6 DEF Reported
<1>8. CASE DogBegin
  <2>1. {leaseOf[l].scope : l \in claims} \in SUBSET Scopes
    BY <1>0
  <2> QED
    BY <1>0, <1>2, <1>8, <2>1 DEF DogBegin, DogOnly
<1>9. ASSUME NEW s \in Scopes, DogExpire(s)
      PROVE  dog' \in DogState /\ UNCHANGED <<flags, ledger>>
  <2> DEFINE gone == ExpiredIn(OfScope(claims, s), clock)
  <2>1. gone \in SUBSET LeaseIds
    BY <1>0 DEF ExpiredIn, OfScope
  <2>2. dog' = [dog EXCEPT !.todo = @ \ {s}, !.list = @ \cup gone] /\ UNCHANGED <<flags, ledger>>
    BY <1>9 DEF DogExpire, DogOnly
  <2> HIDE DEF gone
  <2>3. dog.todo \ {s} \in SUBSET Scopes /\ dog.list \cup gone \in SUBSET LeaseIds
    BY <1>6, <2>1
  <2> QED
    BY <1>3, <2>2, <2>3
<1>10. CASE DogSwept
  BY <1>0, <1>1, <1>4, <1>10 DEF DogSwept, DogOnly
<1>11. ASSUME dog.at \in {"flag", "worktree", "result_namespace"}
       PROVE  NextReported \in Granted /\ owner[NextReported] \in Runs
  BY <1>11, HeadOfList DEF Reports, LeasesOwned
<1>12. ASSUME NEW written \in BOOLEAN, DogFlag(written)
       PROVE  dog' \in DogState /\ flags' \subseteq Granted /\ UNCHANGED ledger
  <2>1. NextReported \in Granted
    BY <1>11, <1>12 DEF DogFlag
  <2>2. AfterFlag \in DogState
    BY <1>4, <1>7 DEF AfterFlag
  <2> QED
    BY <1>0, <1>12, <2>1, <2>2 DEF DogFlag, DogOnly
<1>13. CASE DogQuarantine
  <2>1. dog.at \in Surfaces /\ owner[NextReported] \in Runs
    BY <1>11, <1>13 DEF DogQuarantine, Surfaces
  <2>2. ledger' \subseteq Surfaces \X Runs
    BY <1>0, <1>13, <2>1 DEF DogQuarantine, Quarantine
  <2>3. dog' \in DogState
    BY <1>4, <1>7, <1>13 DEF DogQuarantine, DogOnly
  <2>4. flags' = flags
    BY <1>13 DEF DogQuarantine
  <2> QED
    BY <1>0, <2>2, <2>3, <2>4
<1>14. CASE DogFails
  BY <1>0, <1>1, <1>14 DEF DogFails, DogOnly
<1> QED
  BY <1>0, <1>8, <1>9, <1>10, <1>12, <1>13, <1>14 DEF DogStep

LEMMA RunTypes ==
    ASSUME WellTyped, Hands, OneMoves, NEW r \in Runs
    PROVE  /\ phase'[r] \in Phases
           /\ taken'[r] \in Seq(LeaseIds) /\ Len(taken'[r]) <= Len(Wanted(r))
           /\ toRelease'[r] \in Seq(LeaseIds) /\ Len(toRelease'[r]) <= Len(taken'[r])
<1>0. /\ taken[r] \in Seq(LeaseIds) /\ toRelease[r] \in Seq(LeaseIds) /\ phase[r] \in Phases
      /\ Len(taken[r]) \in Nat /\ Len(toRelease[r]) \in Nat /\ Len(Wanted(r)) \in Nat
      /\ Len(taken[r]) <= Len(Wanted(r)) /\ Len(toRelease[r]) <= Len(taken[r])
  BY LenProperties, WantedFacts DEF WellTyped, TypeOK
<1>1. CASE Stays(r)
  BY <1>0, <1>1 DEF Stays
<1>2. CASE Takes(r)
  <2>1. FreshId \in LeaseIds
    BY <1>2, GrantFacts DEF Takes
  <2>2. Append(taken[r], FreshId) \in Seq(LeaseIds)
        /\ Len(Append(taken[r], FreshId)) = Len(taken[r]) + 1
    BY <1>0, <2>1, AppendProperties
  <2> QED
    BY <1>0, <1>2, <2>2 DEF Takes, Phases
<1>3. CASE IsAdmitted(r)
  BY <1>0, <1>3 DEF IsAdmitted, Phases
<1>4. CASE GivesUp(r)
  BY <1>0, <1>4 DEF GivesUp, Phases
<1>5. CASE LoopsOn(r)
  <2>1. toRelease[r] # <<>>
    BY <1>5 DEF LoopsOn, Hands, InHand
  <2>2. Tail(toRelease[r]) \in Seq(LeaseIds) /\ Len(Tail(toRelease[r])) = Len(toRelease[r]) - 1
    BY <1>0, <2>1, HeadTailProperties
  <2> QED
    BY <1>0, <1>5, <2>2 DEF LoopsOn
<1>6. CASE Ends(r)
  <2>1. <<>> \in Seq(LeaseIds) /\ Len(<<>>) = 0
    OBVIOUS
  <2> QED
    BY <1>0, <1>6, <2>1 DEF Ends, Phases
<1> QED
  BY <1>1, <1>2, <1>3, <1>4, <1>5, <1>6 DEF OneMoves, Moves

\* Only Admit writes a context, and only an admitted run passes its own on.
LEMMA ContextSteps ==
    ASSUME WellTyped, Hands, [Next]_vars
    PROVE  /\ context' \in [Runs -> SUBSET LeaseIds] /\ inherited' \in [Runs -> BOOLEAN]
           /\ \A q \in Runs :
                \/ /\ context'[q] = context[q]
                   /\ phase'[q] = "admitted" => phase[q] = "admitted" /\ taken'[q] = taken[q]
                   /\ inherited'[q] => inherited[q] \/ phase[q] = "admitted"
                \/ /\ context'[q] = Kept(q) /\ taken[q] # <<>>
                   /\ taken'[q] = taken[q] /\ inherited'[q] = inherited[q]
<1>0. /\ context \in [Runs -> SUBSET LeaseIds] /\ inherited \in [Runs -> BOOLEAN]
      /\ phase \in [Runs -> Phases]
  BY DEF WellTyped, TypeOK
<1>1. ASSUME UNCHANGED <<context, inherited>>, OneMoves,
             \A q \in Runs : ~ IsAdmitted(q)
      PROVE  \A q \in Runs :
                /\ context'[q] = context[q]
                /\ phase'[q] = "admitted" => phase[q] = "admitted" /\ taken'[q] = taken[q]
                /\ inherited'[q] => inherited[q] \/ phase[q] = "admitted"
  BY <1>1 DEF OneMoves, Moves, Stays, Takes, GivesUp, LoopsOn, Ends
<1>2. OneMoves
  BY StepMoves
<1>3. CASE \E r \in Runs : Admit(r)
  <2>1. PICK r \in Runs : Admit(r)
    BY <1>3
  <2>2. /\ phase' = [phase EXCEPT ![r] = "admitted"] /\ taken' = taken
        /\ context' = [context EXCEPT ![r] = Kept(r)] /\ inherited' = inherited
        /\ Len(taken[r]) = Len(Wanted(r))
    BY <2>1 DEF Admit
  <2>3. Kept(r) \in SUBSET LeaseIds
    <3>1. taken[r] \in Seq(LeaseIds)
      BY DEF WellTyped
    <3> QED
      BY <3>1, ElementOfSeq, LenProperties DEF Kept
  <2>4. taken[r] # <<>>
    BY <2>2, WantedFacts
  <2> QED
    BY <1>0, <2>2, <2>3, <2>4
<1>4. CASE \E r \in Runs : Spawn(r) \/ HandOver(r) \/ HeirEnds(r)
  <2>1. PICK r \in Runs : Spawn(r) \/ HandOver(r) \/ HeirEnds(r)
    BY <1>4
  <2>2. /\ context' = context
        /\ \E b \in BOOLEAN : /\ inherited' = [inherited EXCEPT ![r] = b]
                              /\ b => phase[r] = "admitted"
        /\ \/ phase' = phase /\ taken' = taken
           \/ phase' = [phase EXCEPT ![r] = "ended"] /\ taken' = [taken EXCEPT ![r] = <<>>]
    BY <2>1, Zenon DEF Spawn, HandOver, HeirEnds
  <2>3. \A q \in Runs : phase'[q] = "admitted" => phase[q] = "admitted" /\ taken'[q] = taken[q]
    BY <1>0, <2>2 DEF WellTyped
  <2>4. /\ inherited' \in [Runs -> BOOLEAN]
        /\ \A q \in Runs : inherited'[q] => inherited[q] \/ phase[q] = "admitted"
    BY <1>0, <2>2
  <2> QED
    BY <1>0, <2>2, <2>3, <2>4
<1>5. CASE ~ (\E r \in Runs : Admit(r)) /\ ~ (\E r \in Runs : Spawn(r) \/ HandOver(r) \/ HeirEnds(r))
  <2>1. UNCHANGED <<context, inherited>>
    BY <1>5 DEF Next, Tick, DogStep, DogBegin, DogExpire, DogSwept, DogFlag, DogQuarantine,
       DogFails, DogOnly, RunStep, Reserve, ReserveLost, ReserveRefused, RecordInvalid, Refuse,
       Invoke, InvokeReturns, BodyEnds, ReleaseNext, UnwindFails, ReleaseFails, LoopOn, Crash,
       runs, vars
  <2>2. \A q \in Runs : phase'[q] = "admitted" => phase[q] = "admitted"
    BY <1>0, <1>5 DEF Next, Tick, DogStep, DogBegin, DogExpire, DogSwept, DogFlag, DogQuarantine,
       DogFails, DogOnly, RunStep, Reserve, ReserveLost, ReserveRefused, RecordInvalid, Refuse,
       Invoke, InvokeReturns, BodyEnds, ReleaseNext, UnwindFails, ReleaseFails, LoopOn, Crash,
       runs, vars
  <2> QED
    BY <1>0, <1>1, <1>2, <2>1, <2>2 DEF IsAdmitted
<1> QED
  BY <1>3, <1>4, <1>5

LEMMA WellTypedStep ==
    ASSUME WellTyped, LeasesOwned, Hands, Reports, [Next]_vars
    PROVE  WellTyped'
<1>1. OneMoves
  BY StepMoves
<1>2. /\ phase' \in [Runs -> Phases]
      /\ taken' \in [Runs -> Seq(LeaseIds)] /\ toRelease' \in [Runs -> Seq(LeaseIds)]
      /\ \A r \in Runs : /\ Len(taken'[r]) <= Len(Wanted(r))
                         /\ Len(toRelease'[r]) <= Len(taken'[r])
  <2>1. \A r \in Runs : /\ phase'[r] \in Phases
                        /\ taken'[r] \in Seq(LeaseIds) /\ toRelease'[r] \in Seq(LeaseIds)
                        /\ Len(taken'[r]) <= Len(Wanted(r))
                        /\ Len(toRelease'[r]) <= Len(taken'[r])
    BY <1>1, RunTypes
  <2> QED
    BY <1>1, <2>1 DEF OneMoves
<1>3. Granted \subseteq Granted' /\ clock' \in 0..MaxClock
  BY LeasesKept
<1>4. /\ leaseOf' \in [LeaseIds -> Lease \cup {NoLease}]
      /\ owner' \in [LeaseIds -> Runs \cup {NoRun}]
      /\ claims' \subseteq Granted' /\ settled' \subseteq Granted'
  <2>1. CASE Granting
    <3>1. PICK r \in Runs, g \in 0..MaxClock : Reserves(r, g)
      BY <2>1 DEF Granting
    <3>2. PICK l \in LeaseIds, s \in Scopes :
            /\ Granted' = Granted \cup {l}
            /\ claims' = (claims \ ExpiredIn(OfScope(claims, s), g)) \cup {l}
            /\ leaseOf' \in [LeaseIds -> Lease \cup {NoLease}]
            /\ owner' \in [LeaseIds -> Runs \cup {NoRun}]
      BY <3>1, GrantFacts
    <3> QED
      BY <2>1, <3>2 DEF Granting, WellTyped, TypeOK
  <2>2. CASE \E l \in LeaseIds : Releasing(l)
    BY <1>3, <2>2 DEF Releasing, WellTyped, TypeOK
  <2>3. CASE Passing
    BY <1>3, <2>3 DEF Passing, WellTyped, TypeOK
  <2> QED
    BY <2>1, <2>2, <2>3, RegistryKinds
<1>5. dog' \in DogState /\ flags' \subseteq Granted' /\ ledger' \subseteq Surfaces \X Runs
  <2>1. DogStep \/ UNCHANGED watchdog
    BY RegistryKinds DEF Granting, Releasing, Passing
  <2> QED
    BY <1>3, <2>1, DogTypes DEF watchdog, WellTyped, TypeOK
<1>6. /\ working' \in [Runs -> BOOLEAN]
      /\ context' \in [Runs -> SUBSET LeaseIds] /\ inherited' \in [Runs -> BOOLEAN]
  <2>1. working' \in [Runs -> BOOLEAN]
    BY DEF WellTyped, TypeOK, Next, Tick, DogStep, DogBegin, DogExpire, DogSwept, DogFlag,
       DogQuarantine, DogFails, DogOnly, RunStep, Reserve, ReserveLost, ReserveRefused,
       RecordInvalid, Refuse, Admit, Invoke, InvokeReturns, Spawn, HandOver, HeirEnds, BodyEnds,
       ReleaseNext, UnwindFails, ReleaseFails, LoopOn, Crash, runs, vars
  <2> QED
    BY <2>1, ContextSteps
<1>7. faults' \in 0..MaxFaults
  <2>1. faults' = faults \/ Fault
    BY DEF NoFault, Next, Tick, DogStep, DogBegin, DogExpire, DogSwept, DogFlag,
       DogQuarantine, DogFails, RunStep, Reserve, ReserveLost, ReserveRefused, RecordInvalid,
       Admit, Invoke, InvokeReturns, Spawn, HandOver, HeirEnds, BodyEnds, ReleaseNext,
       UnwindFails, ReleaseFails, Crash, vars
  <2> QED
    BY <2>1, GateAssumption DEF Fault, WellTyped, TypeOK
<1> QED
  BY <1>2, <1>3, <1>4, <1>5, <1>6, <1>7 DEF WellTyped, TypeOK, Wanted

-----------------------------------------------------------------------------
(* What runs have in hand.                                                 *)

LEMMA LeasesOwnedStep ==
    ASSUME WellTyped, Hands, LeasesOwned, [Next]_vars
    PROVE  LeasesOwned'
<1>1. CASE Granting
  <2>1. PICK r \in Runs, g \in 0..MaxClock : Reserves(r, g)
    BY <1>1 DEF Granting
  <2>2. PICK l \in LeaseIds, s \in Scopes :
          /\ Granted' = Granted \cup {l} /\ owner'[l] = r
          /\ leaseOf'[l].expiresAt = g + TTL /\ g + TTL <= MaxClock
          /\ \A m \in LeaseIds \ {l} : leaseOf'[m] = leaseOf[m] /\ owner'[m] = owner[m]
    BY <2>1, GrantFacts
  <2> QED
    BY <2>2, TypeFacts DEF LeasesOwned
<1>2. CASE (\E l \in LeaseIds : Releasing(l)) \/ Passing
  BY <1>2 DEF Releasing, Passing, LeasesOwned, Granted
<1> QED
  BY <1>1, <1>2, RegistryKinds

LEMMA KeptAfterTaking ==
    ASSUME WellTyped, NEW r \in Runs, Takes(r)
    PROVE  /\ Kept(r)' = Kept(r) \cup {FreshId}
           /\ taken'[r] # <<>>
<1>0. taken[r] \in Seq(LeaseIds) /\ Len(taken[r]) \in Nat /\ FreshId \in LeaseIds
  BY LenProperties, GrantFacts DEF WellTyped, Takes
<1>1. /\ Append(taken[r], FreshId) \in Seq(LeaseIds)
      /\ Len(Append(taken[r], FreshId)) = Len(taken[r]) + 1
      /\ \A i \in 1..Len(taken[r]) : Append(taken[r], FreshId)[i] = taken[r][i]
      /\ Append(taken[r], FreshId)[Len(taken[r]) + 1] = FreshId
  BY <1>0, AppendProperties
<1>2. taken'[r] = Append(taken[r], FreshId)
  BY DEF Takes
<1>3. DOMAIN taken[r] = 1..Len(taken[r]) /\ DOMAIN taken'[r] = 1..(Len(taken[r]) + 1)
  BY <1>0, <1>1, <1>2, LenProperties
<1>4. 1..(Len(taken[r]) + 1) = (1..Len(taken[r])) \cup {Len(taken[r]) + 1}
  BY <1>0
<1>5. Kept(r)' = Kept(r) \cup {FreshId}
  BY <1>1, <1>2, <1>3, <1>4 DEF Kept
<1>6. taken'[r] # <<>>
  BY <1>0, <1>1, <1>2
<1> QED
  BY <1>5, <1>6

LEMMA HandsStep ==
    ASSUME WellTyped, Hands, [Next]_vars
    PROVE  Hands'
<1> SUFFICES ASSUME NEW r \in Runs PROVE InHand(r)'
  BY DEF Hands
<1>0. InHand(r) /\ taken[r] \in Seq(LeaseIds) /\ toRelease[r] \in Seq(LeaseIds)
  BY DEF Hands, WellTyped
<1>1. \A l \in Granted : l \in Granted' /\ owner'[l] = owner[l]
  BY LeasesKept
<1>2. ASSUME taken'[r] = taken[r]
      PROVE  Kept(r)' = Kept(r) /\ \A l \in Kept(r)' : l \in Granted' /\ owner'[l] = r
  BY <1>0, <1>1, <1>2 DEF Kept, InHand
<1>3. CASE Stays(r)
  BY <1>0, <1>2, <1>3 DEF Stays, InHand
<1>4. CASE Takes(r)
  <2>1. Kept(r)' = Kept(r) \cup {FreshId} /\ taken'[r] # <<>>
    BY <1>4, KeptAfterTaking
  <2>2. FreshId \in Granted' /\ owner'[FreshId] = r
    BY <1>4, GrantFacts DEF Takes
  <2> QED
    BY <1>0, <1>1, <1>4, <2>1, <2>2 DEF Takes, InHand
<1>5. CASE IsAdmitted(r)
  BY <1>0, <1>2, <1>5 DEF IsAdmitted, InHand
<1>6. CASE GivesUp(r)
  <2>1. \A i \in DOMAIN taken[r] : taken[r][i] \in Kept(r)
    BY DEF Kept
  <2> QED
    BY <1>2, <1>6, <2>1 DEF GivesUp, InHand
<1>7. CASE LoopsOn(r)
  <2>1. toRelease[r] # <<>>
    BY <1>0, <1>7 DEF LoopsOn, InHand
  <2>2. /\ Tail(toRelease[r]) \in Seq(LeaseIds)
        /\ Len(Tail(toRelease[r])) = Len(toRelease[r]) - 1
        /\ \A i \in 1..Len(Tail(toRelease[r])) : Tail(toRelease[r])[i] = toRelease[r][i + 1]
    BY <1>0, <2>1, HeadTailProperties
  <2>3. Len(toRelease[r]) \in Nat /\ DOMAIN toRelease[r] = 1..Len(toRelease[r])
        /\ DOMAIN Tail(toRelease[r]) = 1..Len(Tail(toRelease[r]))
    BY <1>0, <2>2, LenProperties
  <2>4. \A i \in DOMAIN Tail(toRelease[r]) : i + 1 \in DOMAIN toRelease[r]
    BY <2>2, <2>3
  <2>5. \A i \in DOMAIN toRelease'[r] : toRelease'[r][i] \in Kept(r)
    BY <1>0, <1>7, <2>2, <2>3, <2>4 DEF LoopsOn, InHand
  <2> QED
    BY <1>0, <1>2, <1>7, <2>5 DEF LoopsOn, InHand
<1>8. CASE Ends(r)
  <2>1. DOMAIN taken'[r] = {} /\ DOMAIN toRelease'[r] = {}
    BY <1>8 DEF Ends
  <2>2. Kept(r)' = {}
    BY <2>1 DEF Kept
  <2> QED
    BY <1>8, <2>1, <2>2 DEF Ends, InHand
<1> QED
  BY <1>3, <1>4, <1>5, <1>6, <1>7, <1>8, StepMoves DEF OneMoves, Moves

\* No prune, sweep or release of another run takes a lease from under a run.
LEMMA BackedStep ==
    ASSUME WellTyped, Hands, Backed, [Next]_vars
    PROVE  Backed'
<1> SUFFICES ASSUME NEW r \in Runs, phase'[r] \in {"reserving", "admitted"},
                    NEW l \in Kept(r)', ~ IsExpired(l, clock)'
             PROVE  l \in claims'
  BY DEF Backed
<1>1. CASE Takes(r) /\ l = FreshId
  BY <1>1, GrantFacts DEF Takes
<1>2. CASE l \in Kept(r) /\ phase[r] \in {"reserving", "admitted"}
  <2>1. l \in Granted /\ owner[l] = r
    BY <1>2 DEF Hands, InHand
  <2>2. ~ IsExpired(l, clock)
    BY <2>1, LeasesKept
  <2>3. l \in claims
    BY <1>2, <2>2 DEF Backed
  <2>4. CASE Granting
    <3>1. PICK q \in Runs, g \in 0..MaxClock : Reserves(q, g)
      BY <2>4 DEF Granting
    <3>2. PICK s \in Scopes :
            /\ g \in Nat /\ g <= clock
            /\ claims \ ExpiredIn(OfScope(claims, s), g) \subseteq claims'
      BY <3>1, GrantFacts
    <3>3. IsExpired(l, g) => IsExpired(l, clock)
      BY <2>1, <3>2, TypeFacts DEF IsExpired
    <3> QED
      BY <2>2, <2>3, <3>2, <3>3 DEF ExpiredIn
  <2>5. ASSUME NEW m \in LeaseIds, Releasing(m) PROVE l \in claims'
    BY <1>2, <2>1, <2>3, <2>5 DEF Releasing
  <2>6. CASE Passing
    BY <2>2, <2>3, <2>6 DEF Passing
  <2> QED
    BY <2>4, <2>5, <2>6, RegistryKinds
<1>3. Moves(r)
  BY StepMoves DEF OneMoves
<1>4. CASE Stays(r) \/ IsAdmitted(r)
  <2>1. Kept(r)' = Kept(r) /\ phase[r] \in {"reserving", "admitted"}
    BY <1>4 DEF Stays, IsAdmitted, Kept
  <2> QED
    BY <1>2, <2>1
<1>5. CASE Takes(r)
  <2>1. Kept(r)' = Kept(r) \cup {FreshId}
    BY <1>5, KeptAfterTaking
  <2>2. phase[r] = "new" => Kept(r) = {}
    BY DEF Hands, InHand, Kept
  <2> QED
    BY <1>1, <1>2, <1>5, <2>1, <2>2 DEF Takes
<1>6. ~ GivesUp(r) /\ ~ LoopsOn(r) /\ ~ Ends(r)
  BY DEF GivesUp, LoopsOn, Ends
<1> QED
  BY <1>3, <1>4, <1>5, <1>6 DEF Moves

LEMMA ContextsStep ==
    ASSUME WellTyped, Hands, Contexts, [Next]_vars
    PROVE  Contexts'
<1> SUFFICES ASSUME NEW q \in Runs PROVE ContextInv(q)'
  BY DEF Contexts
<1>0. ContextInv(q) /\ Granted \subseteq Granted' /\ \A l \in Kept(q) : l \in Granted
  BY LeasesKept DEF Contexts, Hands, InHand
<1>1. ASSUME taken'[q] = taken[q] PROVE Kept(q)' = Kept(q)
  BY <1>1 DEF Kept
<1>2. CASE /\ context'[q] = context[q]
           /\ phase'[q] = "admitted" => phase[q] = "admitted" /\ taken'[q] = taken[q]
           /\ inherited'[q] => inherited[q] \/ phase[q] = "admitted"
  BY <1>0, <1>1, <1>2 DEF ContextInv, IsCarried
<1>3. CASE /\ context'[q] = Kept(q) /\ taken[q] # <<>>
           /\ taken'[q] = taken[q] /\ inherited'[q] = inherited[q]
  <2>1. Kept(q) # {}
    <3>1. taken[q] \in Seq(LeaseIds)
      BY DEF WellTyped
    <3>2. Len(taken[q]) \in Nat \ {0} /\ DOMAIN taken[q] = 1..Len(taken[q])
      BY <1>3, <3>1, LenProperties, EmptySeq
    <3>3. 1 \in DOMAIN taken[q]
      BY <3>2
    <3> QED
      BY <3>3 DEF Kept
  <2> QED
    BY <1>0, <1>1, <1>3, <2>1 DEF ContextInv
<1> QED
  BY <1>2, <1>3, ContextSteps

\* A lease leaves the registry by its owner's release or because it expired.
LEMMA StandingStep ==
    ASSUME WellTyped, Hands, Standing, [Next]_vars
    PROVE  Standing'
<1> SUFFICES ASSUME NEW l \in Granted', l \notin settled', ~ IsExpired(l, clock)'
             PROVE  l \in claims'
  BY DEF Standing
<1>1. l \in Granted => ~ IsExpired(l, clock)
  BY LeasesKept
<1>2. CASE Granting
  <2>1. PICK q \in Runs, g \in 0..MaxClock : Reserves(q, g)
    BY <1>2 DEF Granting
  <2>2. PICK k \in LeaseIds, s \in Scopes :
          /\ g \in Nat /\ g <= clock /\ Granted' = Granted \cup {k}
          /\ claims' = (claims \ ExpiredIn(OfScope(claims, s), g)) \cup {k}
    BY <2>1, GrantFacts
  <2>3. CASE l = k
    BY <2>2, <2>3
  <2>4. CASE l # k
    <3>1. l \in Granted /\ l \in claims
      BY <1>1, <1>2, <2>2, <2>4 DEF Granting, Standing
    <3>2. IsExpired(l, g) => IsExpired(l, clock)
      BY <2>2, <3>1, TypeFacts DEF IsExpired
    <3> QED
      BY <1>1, <2>2, <3>1, <3>2 DEF ExpiredIn
  <2> QED
    BY <2>3, <2>4
<1>3. ASSUME NEW m \in LeaseIds, Releasing(m) PROVE l \in claims'
  <2>1. l \in Granted /\ l \notin settled
    BY <1>3 DEF Releasing, Granted
  <2>2. l # m
    BY <1>1, <1>3, <2>1 DEF Releasing
  <2> QED
    BY <1>1, <1>3, <2>1, <2>2 DEF Releasing, Standing
<1>4. CASE Passing
  <2>1. l \in Granted /\ l \notin settled
    BY <1>4 DEF Passing, Granted
  <2> QED
    BY <1>1, <1>4, <2>1 DEF Passing, Standing
<1> QED
  BY <1>2, <1>3, <1>4, RegistryKinds

-----------------------------------------------------------------------------
(* The cap.                                                                *)

LEMMA WithinCapStep ==
    ASSUME WellTyped, WellTyped', Hands, WithinCap, [Next]_vars
    PROVE  WithinCap'
<1> SUFFICES ASSUME NEW s \in Scopes
             PROVE  Total(LiveIn(OfScope(claims, s), clock))' <= Cap[s]
  BY DEF WithinCap
<1> DEFINE now == LiveIn(OfScope(claims, s), clock)
           then == LiveIn(OfScope(claims, s), clock)'
<1>0. /\ clock \in Nat /\ claims \subseteq Granted /\ Granted \subseteq LeaseIds
      /\ Cap[s] \in Nat /\ \A l \in Granted : leaseOf[l].expiresAt \in Nat
      /\ claims' \subseteq LeaseIds
  BY TypeFacts DEF WellTyped, TypeOK, Granted
<1>1. now \in SUBSET LeaseIds /\ then \in SUBSET LeaseIds /\ now \subseteq Granted
  BY <1>0 DEF LiveIn, OfScope
<1>2. Total(LiveIn(OfScope(claims, s), clock))' = Cardinality(UnitsOf(leaseOf', then))
  BY DEF Total
<1>3. Cardinality(UnitsOf(leaseOf, now)) <= Cap[s]
  BY DEF WithinCap, Total
<1>4. /\ clock \in Nat /\ clock' \in Nat /\ clock <= clock'
      /\ \A l \in Granted : leaseOf'[l] = leaseOf[l]
      /\ \A l \in Granted : IsExpired(l, clock) => IsExpired(l, clock)'
  BY <1>0, LeasesKept
\* Nothing of the counter is new: then its live claims are no more than before.
<1>5. ASSUME OfScope(claims, s)' \subseteq OfScope(claims, s)
      PROVE  Cardinality(UnitsOf(leaseOf', then)) <= Cap[s]
  <2>1. then \subseteq now
    BY <1>0, <1>4, <1>5 DEF LiveIn, OfScope
  <2> HIDE DEF now, then
  <2>2. UnitsOf(leaseOf', then) = UnitsOf(leaseOf, then)
    BY <1>1, <1>4, <2>1, UnitsAgree
  <2>3. Cardinality(UnitsOf(leaseOf, then)) <= Cardinality(UnitsOf(leaseOf, now))
    BY <1>1, <2>1, UnitsMonotone
  <2>4. Cardinality(UnitsOf(leaseOf, then)) \in Nat /\ Cardinality(UnitsOf(leaseOf, now)) \in Nat
    BY <1>1, UnitsFinite
  <2> QED
    BY <1>0, <1>3, <2>2, <2>3, <2>4
<1>6. CASE Granting
  <2>1. PICK r \in Runs, g \in 0..MaxClock : Reserves(r, g)
    BY <1>6 DEF Granting
  <2>2. PICK l \in LeaseIds, t \in Scopes :
          /\ l \notin Granted /\ g \in Nat /\ g <= clock /\ clock' = clock
          /\ Total(LiveIn(OfScope(claims, t), g)) + 1 <= Cap[t]
          /\ claims' = (claims \ ExpiredIn(OfScope(claims, t), g)) \cup {l}
          /\ leaseOf'[l].scope = t /\ leaseOf'[l].amount = 1
    BY <2>1, GrantFacts
  <2>3. CASE s # t
    <3>1. OfScope(claims, s)' \subseteq OfScope(claims, s)
      BY <1>0, <1>4, <2>2, <2>3 DEF OfScope
    <3> QED
      BY <1>2, <1>5, <3>1
  <2>4. CASE s = t
    <3> DEFINE kept == LiveIn(OfScope(claims, s), g)
    <3>1. kept \in SUBSET LeaseIds /\ kept \subseteq Granted /\ l \notin kept
      BY <1>0, <2>2 DEF LiveIn, OfScope
    <3>2. then \subseteq kept \cup {l}
      BY <1>0, <1>4, <2>2, <2>4 DEF LiveIn, OfScope, ExpiredIn
    <3>3. Cardinality(UnitsOf(leaseOf, kept)) + 1 <= Cap[s]
      BY <2>2, <2>4 DEF Total
    <3> HIDE DEF kept, then
    <3>4. UnitsOf(leaseOf', kept) = UnitsOf(leaseOf, kept)
      BY <1>4, <3>1, UnitsAgree
    <3>5. Cardinality(UnitsOf(leaseOf', kept \cup {l})) = Cardinality(UnitsOf(leaseOf', kept)) + 1
      BY <2>2, <3>1, OneUnitMore
    <3>6. kept \cup {l} \in SUBSET LeaseIds
      BY <3>1
    <3>7. Cardinality(UnitsOf(leaseOf', then)) <= Cardinality(UnitsOf(leaseOf', kept \cup {l}))
      BY <3>2, <3>6, UnitsMonotone
    <3>8. /\ Cardinality(UnitsOf(leaseOf', then)) \in Nat
          /\ Cardinality(UnitsOf(leaseOf', kept \cup {l})) \in Nat
          /\ Cardinality(UnitsOf(leaseOf, kept)) \in Nat
      BY <1>1, <3>1, <3>6, UnitsFinite
    <3> QED
      BY <1>0, <1>2, <3>3, <3>4, <3>5, <3>7, <3>8
  <2> QED
    BY <2>3, <2>4
<1>7. CASE (\E l \in LeaseIds : Releasing(l)) \/ Passing
  <2>1. OfScope(claims, s)' \subseteq OfScope(claims, s)
    BY <1>7 DEF Releasing, Passing, OfScope
  <2> QED
    BY <1>2, <1>5, <2>1
<1> QED
  BY <1>6, <1>7, RegistryKinds

-----------------------------------------------------------------------------
(* The watchdog.                                                           *)

LEMMA ReportsStep ==
    ASSUME WellTyped, WellTyped', LeasesOwned, Hands, Reports, [Next]_vars
    PROVE  Reports'
<1>0. /\ Granted \subseteq Granted' /\ claims \subseteq Granted
      /\ \A l \in Granted : leaseOf'[l] = leaseOf[l]
      /\ \A l \in Granted : IsExpired(l, clock) => IsExpired(l, clock)'
      /\ settled \subseteq Granted /\ dog \in DogState
  BY LeasesKept DEF WellTyped, TypeOK
<1>1. \A l \in dog.list : l \in Granted /\ IsExpired(l, clock) /\ l \notin settled
  BY DEF Reports
\* The list and its head survive whatever leaves the watchdog alone.
<1>2. ASSUME dog' = dog, \A l \in dog.list : l \notin settled', (settled \cap claims = {})'
      PROVE  Reports'
  <2>1. NextReported' = NextReported
    <3>1. \A l \in dog.list : leaseOf[l] = leaseOf'[l]
      BY <1>0, <1>1
    <3> QED
      BY <1>2, <3>1, SameHead DEF NextReported
  <2>2. dog.at \in Surfaces => NextReported \in Granted
    BY HeadOfList DEF Reports, Surfaces
  <2>3. dog.at \in Surfaces => IsBudget(NextReported)'
    BY <1>0, <2>1, <2>2 DEF Reports, IsBudget
  <2> QED
    BY <1>0, <1>1, <1>2, <2>3 DEF Reports
<1>3. CASE Granting
  <2>1. PICK r \in Runs, g \in 0..MaxClock : Reserves(r, g)
    BY <1>3 DEF Granting
  <2>2. PICK l \in LeaseIds : l \notin Granted /\ claims' \subseteq claims \cup {l}
    BY <2>1, GrantFacts
  <2>3. (settled \cap claims = {})'
    BY <1>0, <1>3, <2>2 DEF Granting, Reports
  <2> QED
    BY <1>1, <1>2, <1>3, <2>3 DEF Granting, watchdog
<1>4. ASSUME NEW l \in LeaseIds, Releasing(l) PROVE Reports'
  <2>1. (settled \cap claims = {})'
    BY <1>4 DEF Releasing, Reports
  <2>2. \A m \in dog.list : m \notin settled'
    BY <1>1, <1>4 DEF Releasing
  <2> QED
    BY <1>2, <1>4, <2>1, <2>2 DEF Releasing, watchdog
<1>5. CASE Passing
  <2>1. settled' = settled /\ leaseOf' = leaseOf /\ (settled \cap claims = {})'
    BY <1>5 DEF Passing, Reports
  <2>2. CASE UNCHANGED watchdog
    BY <1>1, <1>2, <2>1, <2>2 DEF watchdog
  <2>3. CASE DogStep /\ clock' = clock
    <3>1. Granted' = Granted /\ \A l \in Granted : IsExpired(l, clock)' <=> IsExpired(l, clock)
      BY <2>1, <2>3 DEF Granted, IsExpired
    <3>2. ASSUME dog' = IdleDog PROVE Reports'
      BY <2>1, <3>2 DEF Reports, IdleDog, Surfaces
    <3>3. ASSUME NEW T, dog' = [dog EXCEPT !.at = "sweep", !.todo = T] PROVE Reports'
      <4>1. dog'.at = "sweep" /\ dog'.list = dog.list
        BY <1>0, <3>3 DEF DogState
      <4> QED
        BY <1>1, <2>1, <3>1, <4>1 DEF Reports, Surfaces
    <3>4. ASSUME NEW s \in Scopes, DogExpire(s) PROVE Reports'
      <4> DEFINE gone == ExpiredIn(OfScope(claims, s), clock)
      <4>1. gone \subseteq claims /\ \A l \in gone : IsExpired(l, clock)
        BY DEF ExpiredIn, OfScope
      <4>2. dog' = [dog EXCEPT !.todo = @ \ {s}, !.list = @ \cup gone] /\ dog.at = "sweep"
        BY <3>4 DEF DogExpire, DogOnly
      <4> HIDE DEF gone
      <4>3. dog'.at = "sweep" /\ dog'.list = dog.list \cup gone
        BY <1>0, <4>2 DEF DogState
      <4>4. \A l \in gone : l \in Granted /\ l \notin settled
        BY <1>0, <4>1 DEF Reports
      <4> QED
        BY <1>1, <2>1, <3>1, <4>1, <4>3, <4>4 DEF Reports, Surfaces
    <3>5. ASSUME dog.list # {}, dog' = [dog EXCEPT !.at = "flag"] PROVE Reports'
      <4>1. dog'.at = "flag" /\ dog'.list = dog.list
        BY <1>0, <3>5 DEF DogState
      <4> QED
        BY <1>1, <2>1, <3>1, <3>5, <4>1 DEF Reports, Surfaces
    <3>6. ASSUME dog' = Reported PROVE Reports'
      <4>1. CASE dog.list \ {NextReported} = {}
        BY <3>2, <3>6, <4>1 DEF Reported
      <4>2. CASE dog.list \ {NextReported} # {}
        <5>1. dog' = [dog EXCEPT !.at = "flag", !.list = dog.list \ {NextReported}]
          BY <3>6, <4>2 DEF Reported
        <5>2. dog'.at = "flag" /\ dog'.list = dog.list \ {NextReported}
          BY <1>0, <5>1 DEF DogState
        <5> QED
          BY <1>1, <2>1, <3>1, <4>2, <5>2 DEF Reports, Surfaces
      <4> QED
        BY <4>1, <4>2
    <3>7. ASSUME NEW p \in Surfaces, dog' = [dog EXCEPT !.at = p],
                 dog.list # {}, IsBudget(NextReported)
          PROVE  Reports'
      <4>1. dog'.at = p /\ dog'.list = dog.list
        BY <1>0, <3>7 DEF DogState
      <4>2. NextReported' = NextReported
        BY <2>1, <4>1 DEF NextReported
      <4> QED
        BY <1>1, <2>1, <3>1, <3>7, <4>1, <4>2 DEF Reports, IsBudget
    <3>8. CASE DogBegin
      BY <3>3, <3>8 DEF DogBegin, DogOnly
    <3>9. CASE DogSwept
      BY <3>2, <3>5, <3>9 DEF DogSwept, DogOnly
    <3>10. ASSUME NEW written \in BOOLEAN, DogFlag(written) PROVE Reports'
      <4>1. dog.list # {} /\ dog' = AfterFlag
        BY <3>10 DEF DogFlag, DogOnly, Reports
      <4> QED
        BY <3>6, <3>7, <4>1 DEF AfterFlag, Surfaces
    <3>11. CASE DogQuarantine
      <4>1. dog.list # {} /\ IsBudget(NextReported)
        BY <3>11 DEF DogQuarantine, Reports, Surfaces
      <4>2. dog' = [dog EXCEPT !.at = "result_namespace"] \/ dog' = Reported
        BY <3>11 DEF DogQuarantine, DogOnly
      <4> QED
        BY <3>6, <3>7, <4>1, <4>2 DEF Surfaces
    <3>12. CASE DogFails
      BY <3>2, <3>12 DEF DogFails, DogOnly
    <3> QED
      BY <2>3, <3>4, <3>8, <3>9, <3>10, <3>11, <3>12 DEF DogStep
  <2> QED
    BY <1>5, <2>2, <2>3 DEF Passing
<1> QED
  BY <1>3, <1>4, <1>5, RegistryKinds

LEMMA OnlyOverdueStep ==
    ASSUME WellTyped, Hands, Reports, OnlyOverdueQuarantined, [Next]_vars
    PROVE  OnlyOverdueQuarantined'
<1>0. /\ Granted \subseteq Granted'
      /\ \A l \in Granted : leaseOf'[l] = leaseOf[l] /\ owner'[l] = owner[l]
      /\ \A l \in Granted : IsExpired(l, clock) => IsExpired(l, clock)'
  BY LeasesKept
<1>1. \A l \in Granted : IsExpired(l, clock) /\ l \notin settled => l \notin settled'
  BY RegistryKinds DEF Granting, Releasing, Passing
<1>2. ASSUME NEW m, NEW l \in Granted,
             owner[l] = m[2] /\ IsBudget(l) /\ l \notin settled /\ IsExpired(l, clock)
      PROVE  \E k \in Granted' : owner'[k] = m[2] /\ IsBudget(k)' /\ k \notin settled'
                                 /\ IsExpired(k, clock)'
  BY <1>0, <1>1, <1>2 DEF IsBudget
<1>3. \A m \in ledger : \E k \in Granted' :
          owner'[k] = m[2] /\ IsBudget(k)' /\ k \notin settled' /\ IsExpired(k, clock)'
  BY <1>2 DEF OnlyOverdueQuarantined
<1>4. CASE ledger' = ledger
  BY <1>3, <1>4 DEF OnlyOverdueQuarantined
<1>5. CASE DogQuarantine /\ ledger' # ledger
  <2>1. dog.at \in Surfaces /\ ledger' = ledger \cup {<<dog.at, owner[NextReported]>>}
    BY <1>5 DEF DogQuarantine, Quarantine
  <2>2. NextReported \in dog.list /\ NextReported \in Granted /\ IsBudget(NextReported)
    BY <2>1, HeadOfList DEF Reports, Surfaces
  <2>3. NextReported \notin settled /\ IsExpired(NextReported, clock)
    BY <2>2 DEF Reports
  <2>4. <<dog.at, owner[NextReported]>>[2] = owner[NextReported]
    OBVIOUS
  <2>5. \E k \in Granted' :
          /\ owner'[k] = <<dog.at, owner[NextReported]>>[2] /\ IsBudget(k)'
          /\ k \notin settled' /\ IsExpired(k, clock)'
    BY <1>2, <2>2, <2>3, <2>4
  <2> QED
    BY <1>3, <2>1, <2>5 DEF OnlyOverdueQuarantined
<1>6. ledger' = ledger \/ DogQuarantine
  <2>1. DogStep => ledger' = ledger \/ DogQuarantine
    BY DEF DogStep, DogBegin, DogExpire, DogSwept, DogFlag, DogFails
  <2> QED
    BY <2>1, RegistryKinds DEF Granting, Releasing, Passing, watchdog
<1> QED
  BY <1>4, <1>5, <1>6

-----------------------------------------------------------------------------
LEMMA InitGate == Init => GateInv
<1> SUFFICES ASSUME Init PROVE GateInv
  OBVIOUS
<1>0. claims = {} /\ leaseOf = [l \in LeaseIds |-> NoLease] /\ clock = 0
  BY DEF Init, Registry!Init, Registry!NoLease, NoLease, Registry!NoScope, NoScope
<1>1. Granted = {}
  BY <1>0 DEF Granted
<1>2. /\ taken \in [Runs -> Seq(LeaseIds)] /\ toRelease \in [Runs -> Seq(LeaseIds)]
      /\ \A r \in Runs : taken[r] = <<>> /\ toRelease[r] = <<>> /\ phase[r] = "new"
  BY DEF Init
<1>3. \A r \in Runs : Len(taken[r]) = 0 /\ Len(toRelease[r]) = 0 /\ Kept(r) = {}
  BY <1>2 DEF Kept
<1>4. dog \in DogState /\ dog.list = {} /\ dog.at = "idle"
  BY DEF Init, IdleDog, DogState
<1>5. WellTyped
  <2>1. \A r \in Runs : Len(taken[r]) <= Len(Wanted(r)) /\ Len(toRelease[r]) <= Len(taken[r])
    BY <1>3, WantedFacts
  <2>2. phase \in [Runs -> Phases]
    BY DEF Init, Phases
  <2>3. clock \in 0..MaxClock /\ faults \in 0..MaxFaults
    BY <1>0, BoundsAreNaturals, GateAssumption DEF Init
  <2> QED
    BY <1>0, <1>1, <1>2, <1>4, <2>1, <2>2, <2>3 DEF Init, WellTyped, TypeOK
<1>6. LeasesOwned /\ OnlyOverdueQuarantined
  BY <1>1 DEF Init, LeasesOwned, OnlyOverdueQuarantined
<1>7. Hands
  BY <1>2, <1>3 DEF Hands, InHand
<1>8. Backed /\ Standing /\ Contexts
  BY <1>1, <1>2 DEF Init, Backed, Standing, Contexts, ContextInv, IsCarried
<1>9. Reports
  BY <1>0, <1>4 DEF Reports, Surfaces
<1>10. WithinCap
  <2>1. \A s \in Scopes : LiveIn(OfScope(claims, s), clock) = {}
    BY <1>0 DEF LiveIn, OfScope
  <2>2. UnitsOf(leaseOf, {}) = {} /\ Cardinality({}) = 0
    BY FS_EmptySet DEF UnitsOf
  <2>3. \A s \in Scopes : Cap[s] \in Nat
    BY <1>5, TypeFacts
  <2> QED
    BY <2>1, <2>2, <2>3 DEF WithinCap, Total
<1> QED
  BY <1>5, <1>6, <1>7, <1>8, <1>9, <1>10 DEF GateInv

LEMMA NextGate == GateInv /\ [Next]_vars => GateInv'
<1> SUFFICES ASSUME GateInv, [Next]_vars PROVE GateInv'
  OBVIOUS
<1>1. /\ WellTyped /\ LeasesOwned /\ Hands /\ Backed /\ Contexts /\ Standing
      /\ Reports /\ WithinCap /\ OnlyOverdueQuarantined
  BY DEF GateInv
<1>2. WellTyped'
  BY <1>1, WellTypedStep
<1>3. LeasesOwned' /\ Hands' /\ Backed' /\ Contexts' /\ Standing'
  BY <1>1, LeasesOwnedStep, HandsStep, BackedStep, ContextsStep, StandingStep
<1>4. Reports' /\ WithinCap' /\ OnlyOverdueQuarantined'
  BY <1>1, <1>2, ReportsStep, WithinCapStep, OnlyOverdueStep
<1> QED
  BY <1>2, <1>3, <1>4 DEF GateInv

LEMMA SpecGate == Spec => []GateInv
BY InitGate, NextGate, PTL DEF Spec

\* A live context expires no later than any lease it names.
LEMMA LiveContext ==
    ASSUME GateInv, NEW r \in Runs, ContextIsLive(r), NEW l \in context[r]
    PROVE  l \in Granted /\ ~ IsExpired(l, clock)
<1>0. /\ WellTyped /\ LeasesOwned /\ ContextInv(r) /\ context[r] # {}
      /\ clock < ExpiresAt(r) /\ clock \in Nat
  BY TypeFacts DEF GateInv, ContextIsLive, Contexts, ContextInv
<1>1. \A m \in context[r] : m \in Granted /\ leaseOf[m].expiresAt \in 0..MaxClock
  BY <1>0, TypeFacts, BoundsAreNaturals DEF ContextInv, LeasesOwned
<1> DEFINE S == {leaseOf[m].expiresAt : m \in context[r]}
<1>2. S \in SUBSET Nat /\ S # {}
  BY <1>0, <1>1
<1>3. PICK x \in S : \A y \in S : x <= y
  <2> HIDE DEF S
  <2> QED
    BY <1>2, LeastNatural
<1>4. /\ x \in 0..MaxClock
      /\ \A m \in context[r] : x <= leaseOf[m].expiresAt
      /\ \E m \in context[r] : x = leaseOf[m].expiresAt
  BY <1>1, <1>3
<1>5. /\ ExpiresAt(r) \in 0..MaxClock
      /\ \A m \in context[r] : ExpiresAt(r) <= leaseOf[m].expiresAt
  BY <1>4 DEF ExpiresAt
<1>6. ~ IsExpired(l, clock)
  <2>1. ExpiresAt(r) <= leaseOf[l].expiresAt /\ leaseOf[l].expiresAt \in Nat
        /\ ExpiresAt(r) \in Nat
    BY <1>1, <1>5, BoundsAreNaturals
  <2> QED
    BY <1>0, <2>1 DEF IsExpired
<1> QED
  BY <1>1, <1>6

LEMMA GateIsBacked == GateInv => ContextIsBacked
<1> SUFFICES ASSUME GateInv, NEW r \in Runs, ContextIsLive(r)
             PROVE  /\ phase[r] = "admitted" => Verifies(r)
                    /\ context[r] \ settled \subseteq LiveIn(claims, clock)
  BY DEF ContextIsBacked
<1>1. context[r] \ settled \subseteq LiveIn(claims, clock)
  BY LiveContext DEF GateInv, Standing, LiveIn
<1>2. ASSUME phase[r] = "admitted" PROVE Verifies(r)
  <2>1. context[r] = Kept(r)
    BY <1>2 DEF GateInv, Contexts, ContextInv
  <2> QED
    BY <1>2, <2>1, LiveContext DEF GateInv, Backed, Verifies, LiveIn
<1> QED
  BY <1>1, <1>2

LEMMA GateIsWithinCap == GateInv => FleetWithinCap
<1> SUFFICES ASSUME GateInv, NEW s \in Scopes
             PROVE  Total({l \in OfScope(Granted \ settled, s) :
                              \E r \in Runs : ContextIsLive(r) /\ l \in context[r]}) <= Cap[s]
  BY DEF FleetWithinCap
<1> DEFINE inUse == {l \in OfScope(Granted \ settled, s) :
                        \E r \in Runs : ContextIsLive(r) /\ l \in context[r]}
           live == LiveIn(OfScope(claims, s), clock)
<1>1. live \in SUBSET LeaseIds
  BY TypeFacts DEF GateInv, LiveIn, OfScope
<1>2. inUse \in SUBSET live
  BY LiveContext DEF GateInv, Standing, LiveIn, OfScope
<1>3. Total(live) <= Cap[s] /\ Cap[s] \in Nat
  BY TypeFacts DEF GateInv, WithinCap
<1> HIDE DEF inUse, live
<1>4. Cardinality(UnitsOf(leaseOf, inUse)) <= Cardinality(UnitsOf(leaseOf, live))
  BY <1>1, <1>2, UnitsMonotone
<1>5. Cardinality(UnitsOf(leaseOf, inUse)) \in Nat /\ Cardinality(UnitsOf(leaseOf, live)) \in Nat
  BY <1>1, <1>2, UnitsFinite
<1>6. Total(inUse) <= Cap[s]
  BY <1>3, <1>4, <1>5 DEF Total
<1> QED
  BY <1>6 DEF inUse

(* The gate's state keeps its types for any runs, counters and failures:   *)
(* no run has more leases in hand than it asked for, or releases others.   *)
THEOREM TypeCorrect == Spec => []TypeOK
<1>1. GateInv => TypeOK
  BY DEF GateInv, WellTyped
<1> QED
  BY <1>1, SpecGate, PTL

(* require_admission, which looks at the carried context alone, never lets *)
(* the body of an admission pass that verify would refuse; and a child or  *)
(* job that inherited the context misses in the registry no lease but the  *)
(* ones its own admission released.                                        *)
THEOREM AdmissionNeedsNoRegistryRead == Spec => []ContextIsBacked
BY GateIsBacked, SpecGate, PTL

(* However many runs are refused, unwound, lost or swept, all who may      *)
(* invoke a backend, heirs of a context included, share each counter       *)
(* within its cap in the leases that were not given back.                  *)
THEOREM FleetStaysWithinCap == Spec => []FleetWithinCap
BY GateIsWithinCap, SpecGate, PTL

(* The watchdog marks a run only for a budget lease that ran out unpaid.   *)
THEOREM QuarantineIsDeserved == Spec => []OnlyOverdueQuarantined
<1>1. GateInv => OnlyOverdueQuarantined
  BY DEF GateInv
<1> QED
  BY <1>1, SpecGate, PTL

-----------------------------------------------------------------------------
(* The gate and the registry.                                              *)

\* A transition of the registry, or none.
RegistryStep == Registry!Next \/ UNCHANGED <<claims, leaseOf, clock>>

LEMMA ReservationIsAGrant ==
    ASSUME WellTyped, NEW r \in Runs, NEW g \in 0..MaxClock, Reserves(r, g)
    PROVE  Registry!Next
<1> DEFINE s == Wanted(r)[Len(taken[r]) + 1]
<1>1. Registry!Grant(FreshId, s, 1, Cap[s], g)
  BY DEF Reserves
<1>2. FreshId \in LeaseIds
  BY DEF Reserves, FreshId, Granted
<1>3. Len(taken[r]) \in Nat /\ Len(taken[r]) < Len(Wanted(r))
  BY LenProperties DEF WellTyped, Reserves
<1>4. s \in Scopes
  BY <1>3, WantedFacts
<1>5. Cap[s] \in Registry!Caps /\ 1 \in Registry!Amounts
  BY <1>4, GateAssumption, BoundsAreNaturals DEF Registry!Caps, Registry!Amounts, Caps
<1> HIDE DEF s
<1> QED BY <1>1, <1>2, <1>4, <1>5 DEF Registry!Next

LEMMA RunStepIsTheRegistrys ==
    ASSUME WellTyped, Hands, NEW r \in Runs, RunStep(r)
    PROVE  RegistryStep
<1>1. CASE \E g \in 0..MaxClock : Reserve(r, g) \/ ReserveLost(r, g)
  BY <1>1, ReservationIsAGrant DEF Reserve, ReserveLost, RegistryStep
<1>2. CASE ReleaseNext(r)
  <2> DEFINE l == Head(toRelease[r])
  <2>1. l \in LeaseIds
    BY <1>2, NextInLoop DEF ReleaseNext, Granted
  <2>2. IF l \in claims THEN Registry!Withdraw(l) ELSE UNCHANGED <<claims, leaseOf, clock>>
    BY <1>2 DEF ReleaseNext
  <2> HIDE DEF l
  <2> QED BY <2>1, <2>2 DEF RegistryStep, Registry!Next
<1>3. CASE ReserveRefused(r) \/ RecordInvalid(r) \/ Admit(r) \/ Invoke(r) \/ InvokeReturns(r)
           \/ Spawn(r) \/ HandOver(r) \/ HeirEnds(r)
           \/ BodyEnds(r) \/ UnwindFails(r) \/ ReleaseFails(r) \/ Crash(r)
  <2>1. UNCHANGED registry
    BY <1>3 DEF ReserveRefused, RecordInvalid, Admit, Invoke, InvokeReturns, Spawn, HandOver,
         HeirEnds, BodyEnds, UnwindFails, ReleaseFails, Crash
  <2> QED BY <2>1 DEF registry, RegistryStep
<1> QED BY <1>1, <1>2, <1>3 DEF RunStep

\* The watchdog's transaction on one scope is a sweep of the registry, unless
\* there is nothing to collect.
LEMMA DogStepIsTheRegistrys ==
    ASSUME WellTyped, DogStep
    PROVE  RegistryStep
<1>1. CASE \E s \in Scopes : DogExpire(s)
  <2>1. PICK s \in Scopes : DogExpire(s)
    BY <1>1
  <2> DEFINE gone == ExpiredIn(OfScope(claims, s), clock)
  <2>2. claims' = claims \ gone /\ UNCHANGED <<leaseOf, clock>>
    BY <2>1 DEF DogExpire, DogOnly
  <2>3. gone = Registry!ExpiredIn(Registry!OfScope(claims, s), clock)
    BY RegistryOperators
  <2> HIDE DEF gone
  <2>4. CASE gone = {}
    BY <2>2, <2>4 DEF RegistryStep
  <2>5. CASE gone # {}
    <3>1. Registry!Reclaim(s)
      BY <2>2, <2>3, <2>5 DEF Registry!Reclaim
    <3> QED BY <3>1 DEF RegistryStep, Registry!Next
  <2> QED BY <2>4, <2>5
<1>2. CASE ~ \E s \in Scopes : DogExpire(s)
  BY <1>2 DEF DogStep, DogBegin, DogSwept, DogFlag, DogQuarantine, DogFails, DogOnly, RegistryStep
<1> QED BY <1>1, <1>2

(* Whatever runs, unwinds, crashes and the watchdog do, all that the lease *)
(* registry sees of them are grants, withdrawals and sweeps it promises to *)
(* take as one step each: what LeaseRegistry is shown to implement is what *)
(* the gate is built on.                                                   *)
THEOREM GateIsBuiltOnAtomicLeases == Spec => Registry!Spec
<1>1. Init => Registry!Init
  BY DEF Init
<1>2. ASSUME GateInv, [Next]_vars PROVE [Registry!Next]_(Registry!avars)
  <2>1. WellTyped /\ Hands
    BY <1>2 DEF GateInv
  <2>2. ASSUME Tick PROVE Registry!Tick
    <3>1. claims' = claims \ {} /\ {} \in SUBSET Registry!ExpiredIn(claims, clock + 1)
      BY <2>2 DEF Tick
    <3> QED BY <2>2, <3>1, Zenon DEF Tick, Registry!Tick
  <2>3. CASE UNCHANGED vars
    BY <2>3 DEF vars, registry, Registry!avars
  <2>4. CASE Next
    <3>1. RegistryStep
      BY <2>1, <2>2, <2>4, RunStepIsTheRegistrys, DogStepIsTheRegistrys DEF Next, RegistryStep, Registry!Next
    <3> QED BY <3>1 DEF RegistryStep, Registry!avars
  <2> QED BY <1>2, <2>3, <2>4
<1> QED BY <1>1, <1>2, SpecGate, PTL DEF Spec, Registry!Spec

=============================================================================

--------------------------- MODULE WorkQueueProofs ---------------------------
(***************************************************************************)
(* Theorems about WorkQueue, for any cells, fills, workers, caps and       *)
(* failures, and for lanes of any length.                                  *)
(***************************************************************************)
EXTENDS WorkQueue, FiniteSetTheorems, SequenceTheorems, WellFoundedInduction, TLAPS

-----------------------------------------------------------------------------
(* Induction on numbers, for sets of numbers.                              *)

\* A set of natural numbers that is not empty has a least member.
LEMMA LeastNatural ==
    ASSUME NEW S \in SUBSET Nat, S # {}
    PROVE  Min(S) \in S /\ \A y \in S : Min(S) <= y
<1> DEFINE R == OpToRel(<, Nat)
<1>1. PICK x \in S : \A y \in S : ~(<<y, x>> \in R)
  <2>1. IsWellFoundedOn(R, Nat)
    BY NatLessThanWellFounded
  <2> HIDE DEF R
  <2> QED BY <2>1, WFMin, Zenon
<1>2. \A y \in S : ~(y < x)
  BY <1>1 DEF OpToRel
<1>3. \A y \in S : x <= y
  BY <1>2
<1> QED BY <1>3 DEF Min

\* What holds at 0 and goes from n to n + 1 holds up to m.
LEMMA UpTo ==
    ASSUME NEW S, NEW m \in Nat, 0 \in S,
           \A n \in 0..m : n \in S /\ n < m => n + 1 \in S
    PROVE  0..m \subseteq S
<1> DEFINE Missing == {n \in 0..m : n \notin S}
<1> SUFFICES ASSUME Missing # {} PROVE FALSE
  OBVIOUS
<1>1. PICK n \in Missing : \A y \in Missing : n <= y
  <2>1. Missing \in SUBSET Nat
    OBVIOUS
  <2> HIDE DEF Missing
  <2> QED BY <2>1, LeastNatural
<1>2. n \in Nat /\ n # 0 /\ n - 1 \in 0..m /\ n - 1 < m /\ n - 1 + 1 = n
  OBVIOUS
<1>3. n - 1 \in S
  BY <1>1, <1>2
<1> QED BY <1>2, <1>3

-----------------------------------------------------------------------------
(* Sequences.                                                              *)

LEMMA RangeOfConcat ==
    ASSUME NEW C, NEW s \in Seq(C), NEW t \in Seq(C)
    PROVE  s \o t \in Seq(C) /\ Range(s \o t) = Range(s) \cup Range(t)
<1>1. /\ s \o t \in Seq(C) /\ Len(s \o t) = Len(s) + Len(t)
      /\ \A i \in 1..Len(s) + Len(t) : (s \o t)[i] = IF i <= Len(s) THEN s[i] ELSE t[i - Len(s)]
  BY ConcatProperties
<1>2. ASSUME NEW i \in DOMAIN s PROVE i \in DOMAIN (s \o t) /\ (s \o t)[i] = s[i]
  BY <1>1
<1>3. ASSUME NEW i \in DOMAIN t PROVE i + Len(s) \in DOMAIN (s \o t) /\ (s \o t)[i + Len(s)] = t[i]
  BY <1>1
<1>4. ASSUME NEW i \in DOMAIN (s \o t) PROVE (s \o t)[i] \in Range(s) \cup Range(t)
  BY <1>1 DEF Range
<1>5. Range(s \o t) \subseteq Range(s) \cup Range(t)
  BY <1>4 DEF Range
<1>6. Range(s) \subseteq Range(s \o t) /\ Range(t) \subseteq Range(s \o t)
  BY <1>2, <1>3, Zenon DEF Range
<1> QED BY <1>1, <1>5, <1>6

LEMMA RangeOfAppend ==
    ASSUME NEW C, NEW s \in Seq(C), NEW c \in C
    PROVE  Append(s, c) \in Seq(C) /\ Range(Append(s, c)) = Range(s) \cup {c}
<1>1. /\ Append(s, c) \in Seq(C) /\ DOMAIN Append(s, c) = 1..Len(s) + 1
      /\ \A i \in 1..Len(s) : Append(s, c)[i] = s[i]
      /\ Append(s, c)[Len(s) + 1] = c
  BY AppendProperties
<1>2. DOMAIN s = 1..Len(s) /\ Len(s) \in Nat
  OBVIOUS
<1>3. Len(s) + 1 \in DOMAIN Append(s, c)
  BY <1>1, <1>2
<1>4. ASSUME NEW i \in DOMAIN s PROVE i \in DOMAIN Append(s, c) /\ Append(s, c)[i] = s[i]
  BY <1>1, <1>2
<1>5. ASSUME NEW i \in DOMAIN Append(s, c) PROVE Append(s, c)[i] \in Range(s) \cup {c}
  BY <1>1, <1>2 DEF Range
<1> QED BY <1>1, <1>3, <1>4, <1>5 DEF Range

LEMMA RangeOfTail ==
    ASSUME NEW C, NEW s \in Seq(C), s # <<>>
    PROVE  /\ Head(s) \in C /\ Tail(s) \in Seq(C)
           /\ Range(s) = {Head(s)} \cup Range(Tail(s))
<1>1. /\ Head(s) = s[1] /\ Head(s) \in C /\ Tail(s) \in Seq(C)
      /\ Len(s) \in Nat \ {0} /\ Len(Tail(s)) = Len(s) - 1
      /\ \A i \in 1..Len(Tail(s)) : Tail(s)[i] = s[i + 1]
  BY HeadTailProperties, EmptySeq
<1>2. ASSUME NEW i \in DOMAIN s PROVE s[i] \in {Head(s)} \cup Range(Tail(s))
  <2>1. CASE i = 1
    BY <1>1, <2>1
  <2>2. CASE i # 1
    <3>1. i - 1 \in 1..Len(Tail(s)) /\ i - 1 + 1 = i
      BY <1>1, <2>2
    <3>2. i - 1 \in DOMAIN Tail(s) /\ Tail(s)[i - 1] = s[i]
      BY <1>1, <3>1
    <3> QED BY <3>2 DEF Range
  <2> QED BY <2>1, <2>2
<1>3. ASSUME NEW i \in DOMAIN Tail(s) PROVE Tail(s)[i] \in Range(s)
  <2>1. i + 1 \in DOMAIN s /\ Tail(s)[i] = s[i + 1]
    BY <1>1
  <2> QED BY <2>1 DEF Range
<1>4. Head(s) \in Range(s)
  BY <1>1 DEF Range
<1> QED BY <1>1, <1>2, <1>3, <1>4 DEF Range

LEMMA RangeTyped ==
    ASSUME NEW C, NEW s \in Seq(C)
    PROVE  Range(s) \subseteq C /\ Range(<<>>) = {}
BY DEF Range

\* FlattenSeq is defined by recursion on how many of the sequences are joined:
\* for any number of them there is such a function.
LEMMA FlattenUnfolds ==
    ASSUME NEW C, NEW seqs \in Seq(Seq(C)), Len(seqs) # 0
    PROVE  \E join \in [1..Len(seqs) -> Seq(C)] :
              /\ FlattenSeq(seqs) = join[Len(seqs)]
              /\ \A i \in 1..Len(seqs) :
                    join[i] = IF i = 1 THEN seqs[i] ELSE join[i - 1] \o seqs[i]
<1> DEFINE Joins(f, n) == f \in [1..n -> Seq(C)] /\ f = [i \in 1..n |-> IF i = 1 THEN seqs[i] ELSE f[i - 1] \o seqs[i]]
           Joinable == {n \in 0..Len(seqs) : n = 0 \/ \E f : Joins(f, n)}
<1>0. Len(seqs) \in Nat /\ \A i \in 1..Len(seqs) : seqs[i] \in Seq(C)
  OBVIOUS
<1>1. ASSUME NEW n \in 0..Len(seqs), n \in Joinable, n < Len(seqs)
      PROVE  n + 1 \in Joinable
  <2>1. CASE n = 0
    <3> DEFINE g == [i \in 1..1 |-> seqs[1]]
    <3>1. g \in [1..1 -> Seq(C)]
      BY <1>0, <1>1
    <3>2. g = [i \in 1..1 |-> IF i = 1 THEN seqs[i] ELSE g[i - 1] \o seqs[i]]
      OBVIOUS
    <3>3. Joins(g, 1)
      BY <3>1, <3>2
    <3> HIDE DEF g, Joins
    <3>4. 0 + 1 = 1 /\ 1 \in 0..Len(seqs)
      BY <1>0, <1>1, <2>1
    <3> QED BY <2>1, <3>3, <3>4
  <2>2. CASE n # 0
    <3>1. PICK f : Joins(f, n)
      BY <1>1, <2>2
    <3> DEFINE g == [i \in 1..n + 1 |-> IF i <= n THEN f[i] ELSE f[n] \o seqs[n + 1]]
    <3>2. f \in [1..n -> Seq(C)] /\ n \in 1..n /\ n + 1 \in 1..Len(seqs) /\ n \in Nat
      BY <1>0, <1>1, <2>2, <3>1
    <3>a. \A i \in 1..n : f[i] = IF i = 1 THEN seqs[i] ELSE f[i - 1] \o seqs[i]
      BY <3>1, Zenon
    <3>3. f[n] \o seqs[n + 1] \in Seq(C)
      <4>1. f[n] \in Seq(C) /\ seqs[n + 1] \in Seq(C)
        BY <1>0, <3>2
      <4> QED BY <4>1, ConcatProperties
    <3>4. g \in [1..n + 1 -> Seq(C)]
      BY <3>2, <3>3
    <3>5. ASSUME NEW i \in 1..n + 1
          PROVE  g[i] = IF i = 1 THEN seqs[i] ELSE g[i - 1] \o seqs[i]
      <4>1. CASE i <= n
        <5>1. i \in 1..n /\ (i # 1 => i - 1 \in 1..n /\ i - 1 \in 1..n + 1)
          BY <3>2, <4>1
        <5>2. g[i] = f[i] /\ (i # 1 => g[i - 1] = f[i - 1])
          BY <4>1, <5>1
        <5> QED BY <3>a, <5>1, <5>2
      <4>2. CASE i = n + 1
        <5>1. i # 1 /\ i - 1 = n /\ n \in 1..n + 1 /\ ~(i <= n)
          BY <3>2, <4>2
        <5>2. g[i] = f[n] \o seqs[n + 1]
          BY <5>1
        <5>3. g[n] = f[n]
          BY <5>1, <3>2
        <5> QED BY <4>2, <5>1, <5>2, <5>3
      <4> QED BY <3>2, <4>1, <4>2
    <3> HIDE DEF g
    <3>6. g = [i \in 1..n + 1 |-> g[i]]
      BY <3>4
    <3>7. g = [i \in 1..n + 1 |-> IF i = 1 THEN seqs[i] ELSE g[i - 1] \o seqs[i]]
      BY <3>5, <3>6
    <3>8. Joins(g, n + 1)
      BY <3>4, <3>7
    <3> HIDE DEF Joins
    <3> QED BY <3>2, <3>8
  <2> QED BY <2>1, <2>2
<1>2. 0 \in Joinable
  BY <1>0
<1>3. \A n \in 0..Len(seqs) : n \in Joinable /\ n < Len(seqs) => n + 1 \in Joinable
  BY <1>1
<1> HIDE DEF Joinable
<1>4. Len(seqs) \in Joinable
  <2>1. 0..Len(seqs) \subseteq Joinable
    BY <1>0, <1>2, <1>3, UpTo
  <2> QED BY <1>0, <2>1
<1>5. PICK f : Joins(f, Len(seqs))
  BY <1>4 DEF Joinable
<1> DEFINE join == CHOOSE h : h = [i \in 1..Len(seqs) |-> IF i = 1 THEN seqs[i] ELSE h[i - 1] \o seqs[i]]
<1>6. join = [i \in 1..Len(seqs) |-> IF i = 1 THEN seqs[i] ELSE join[i - 1] \o seqs[i]]
  <2>1. \E h : h = [i \in 1..Len(seqs) |-> IF i = 1 THEN seqs[i] ELSE h[i - 1] \o seqs[i]]
    BY <1>5
  <2> QED BY <2>1
<1>7. FlattenSeq(seqs) = join[Len(seqs)]
  BY DEF FlattenSeq
<1> HIDE DEF join
<1> DEFINE Typed == {n \in 0..Len(seqs) : n = 0 \/ join[n] \in Seq(C)}
<1>8. ASSUME NEW n \in 0..Len(seqs), n \in Typed, n < Len(seqs)
      PROVE  n + 1 \in Typed
  <2>1. PICK k \in 1..Len(seqs) : k = n + 1 /\ k \in 0..Len(seqs) /\ k - 1 = n /\ (k = 1 <=> n = 0)
    BY <1>0, <1>8
  <2>2. join[k] = IF k = 1 THEN seqs[k] ELSE join[k - 1] \o seqs[k]
    BY <1>6, Zenon
  <2>3. seqs[k] \in Seq(C)
    BY <1>0
  <2>4. CASE k = 1
    BY <2>1, <2>2, <2>3, <2>4
  <2>5. CASE k # 1
    <3>1. join[n] \in Seq(C) /\ join[k] = join[n] \o seqs[k]
      BY <1>8, <2>1, <2>2, <2>5
    <3>2. join[k] \in Seq(C)
      BY <2>3, <3>1, ConcatProperties
    <3> QED BY <2>1, <3>2
  <2> QED BY <2>4, <2>5
<1>9. 0..Len(seqs) \subseteq Typed
  <2>1. 0 \in Typed
    BY <1>0
  <2>2. \A n \in 0..Len(seqs) : n \in Typed /\ n < Len(seqs) => n + 1 \in Typed
    BY <1>8
  <2> HIDE DEF Typed
  <2> QED BY <1>0, <2>1, <2>2, UpTo
<1>10. join \in [1..Len(seqs) -> Seq(C)]
  <2>1. \A i \in 1..Len(seqs) : join[i] \in Seq(C)
    BY <1>9
  <2>2. join = [i \in 1..Len(seqs) |-> join[i]]
    BY <1>6
  <2> QED BY <2>1, <2>2
<1>11. \A i \in 1..Len(seqs) : join[i] = IF i = 1 THEN seqs[i] ELSE join[i - 1] \o seqs[i]
  BY <1>6
<1> QED BY <1>7, <1>10, <1>11

\* Joining sequences loses none of their elements and adds none.
LEMMA FlattenKeepsElements ==
    ASSUME NEW C, NEW seqs \in Seq(Seq(C))
    PROVE  /\ FlattenSeq(seqs) \in Seq(C)
           /\ \A c : c \in Range(FlattenSeq(seqs)) <=> \E i \in DOMAIN seqs : c \in Range(seqs[i])
<1>0. Len(seqs) \in Nat /\ DOMAIN seqs = 1..Len(seqs) /\ \A i \in 1..Len(seqs) : seqs[i] \in Seq(C)
  OBVIOUS
<1>1. CASE Len(seqs) = 0
  <2>1. DOMAIN seqs = {} /\ seqs = <<>>
    BY <1>0, <1>1
  <2>2. FlattenSeq(seqs) = <<>>
    BY <1>1, <2>1, Zenon DEF FlattenSeq
  <2>3. <<>> \in Seq(C) /\ Range(<<>>) = {}
    BY RangeTyped
  <2> QED BY <2>1, <2>2, <2>3
<1>2. CASE Len(seqs) # 0
  <2>1. PICK join \in [1..Len(seqs) -> Seq(C)] :
          /\ FlattenSeq(seqs) = join[Len(seqs)]
          /\ \A i \in 1..Len(seqs) :
                join[i] = IF i = 1 THEN seqs[i] ELSE join[i - 1] \o seqs[i]
    BY <1>2, FlattenUnfolds
  <2> DEFINE Good == {n \in 0..Len(seqs) : n = 0 \/
                        \A c : c \in Range(join[n]) <=> \E i \in 1..n : c \in Range(seqs[i])}
  <2>2. ASSUME NEW n \in 0..Len(seqs), n \in Good, n < Len(seqs)
        PROVE  n + 1 \in Good
    <3>1. PICK k \in 1..Len(seqs) : k = n + 1 /\ k \in 0..Len(seqs) /\ k - 1 = n /\ (k = 1 <=> n = 0)
      BY <1>0, <2>2
    <3>2. join[k] = IF k = 1 THEN seqs[k] ELSE join[k - 1] \o seqs[k]
      BY <2>1
    <3>3. CASE k = 1
      <4>1. 1..k = {k} /\ join[k] = seqs[k]
        BY <3>2, <3>3
      <4> QED BY <3>1, <3>3, <4>1
    <3>4. CASE k # 1
      <4>1. n \in 1..Len(seqs) /\ 1..k = 1..n \cup {k}
        BY <2>2, <3>1, <3>4
      <4>2. join[k] = join[n] \o seqs[k] /\ join[n] \in Seq(C) /\ seqs[k] \in Seq(C)
        BY <1>0, <2>1, <3>1, <3>2, <3>4, <4>1
      <4>3. Range(join[k]) = Range(join[n]) \cup Range(seqs[k])
        BY <4>2, RangeOfConcat
      <4>4. \A c : c \in Range(join[n]) <=> \E i \in 1..n : c \in Range(seqs[i])
        BY <2>2, <3>1, <3>4
      <4>5. \A c : c \in Range(join[k]) <=> \E i \in 1..k : c \in Range(seqs[i])
        BY <4>1, <4>3, <4>4
      <4> QED BY <3>1, <4>5
    <3> QED BY <3>3, <3>4
  <2>3. 0..Len(seqs) \subseteq Good
    <3>1. 0 \in Good
      BY <1>0
    <3>2. \A n \in 0..Len(seqs) : n \in Good /\ n < Len(seqs) => n + 1 \in Good
      BY <2>2
    <3> HIDE DEF Good
    <3> QED BY <1>0, <3>1, <3>2, UpTo
  <2>4. Len(seqs) \in 1..Len(seqs) /\ Len(seqs) \in 0..Len(seqs)
    BY <1>0, <1>2
  <2>5. \A c : c \in Range(join[Len(seqs)]) <=> \E i \in 1..Len(seqs) : c \in Range(seqs[i])
    BY <1>2, <2>3, <2>4
  <2> QED BY <1>0, <2>1, <2>4, <2>5
<1> QED BY <1>1, <1>2

\* Joining sequences of at most one element each gives at most that many.
LEMMA FlattenIsShort ==
    ASSUME NEW C, NEW seqs \in Seq(Seq(C)), \A i \in DOMAIN seqs : Len(seqs[i]) <= 1
    PROVE  Len(FlattenSeq(seqs)) <= Len(seqs)
<1>0. Len(seqs) \in Nat /\ DOMAIN seqs = 1..Len(seqs) /\ \A i \in 1..Len(seqs) : seqs[i] \in Seq(C)
  OBVIOUS
<1>a. \A i \in 1..Len(seqs) : Len(seqs[i]) <= 1
  BY <1>0
<1>1. CASE Len(seqs) = 0
  BY <1>1 DEF FlattenSeq
<1>2. CASE Len(seqs) # 0
  <2>1. PICK join \in [1..Len(seqs) -> Seq(C)] :
          /\ FlattenSeq(seqs) = join[Len(seqs)]
          /\ \A i \in 1..Len(seqs) :
                join[i] = IF i = 1 THEN seqs[i] ELSE join[i - 1] \o seqs[i]
    BY <1>2, FlattenUnfolds
  <2> DEFINE Short == {n \in 0..Len(seqs) : n = 0 \/ Len(join[n]) <= n}
  <2>2. ASSUME NEW n \in 0..Len(seqs), n \in Short, n < Len(seqs)
        PROVE  n + 1 \in Short
    <3>1. PICK k \in 1..Len(seqs) : k = n + 1 /\ k \in 0..Len(seqs) /\ k - 1 = n /\ (k = 1 <=> n = 0)
      BY <1>0, <2>2
    <3>2. join[k] = IF k = 1 THEN seqs[k] ELSE join[k - 1] \o seqs[k]
      BY <2>1
    <3>3. seqs[k] \in Seq(C) /\ Len(seqs[k]) <= 1 /\ Len(seqs[k]) \in Nat
      BY <1>0, <1>a, LenProperties
    <3>4. CASE k = 1
      BY <3>1, <3>2, <3>3, <3>4
    <3>5. CASE k # 1
      <4>0. n \in 1..Len(seqs) /\ n \in Nat /\ k = n + 1 /\ k - 1 = n /\ k # 1
        BY <2>2, <3>1, <3>5
      <4>a. join[n] \in Seq(C) /\ join[k] = join[n] \o seqs[k]
        BY <2>1, <3>2, <4>0
      <4>1. Len(join[n]) <= n
        BY <2>2, <4>0
      <4>2. Len(join[k]) = Len(join[n]) + Len(seqs[k]) /\ Len(join[n]) \in Nat
        BY <3>3, <4>a, ConcatProperties
      <4>3. Len(join[k]) <= k
        BY <3>3, <4>0, <4>1, <4>2
      <4>4. k \in 0..Len(seqs) /\ Len(join[k]) <= k
        BY <3>1, <4>3
      <4> QED BY <3>1, <4>4, Zenon
    <3> QED BY <3>4, <3>5
  <2>3. 0..Len(seqs) \subseteq Short
    <3>1. 0 \in Short
      BY <1>0
    <3>2. \A n \in 0..Len(seqs) : n \in Short /\ n < Len(seqs) => n + 1 \in Short
      BY <2>2, Zenon
    <3> HIDE DEF Short
    <3> QED BY <1>0, <3>1, <3>2, UpTo
  <2>4. Len(seqs) \in 0..Len(seqs)
    BY <1>0
  <2>5. Len(join[Len(seqs)]) <= Len(seqs)
    BY <1>2, <2>3, <2>4
  <2> QED BY <2>1, <2>5
<1> QED BY <1>1, <1>2

\* Only keeps the members of the set, and is no longer than what it selects from.
LEMMA OnlySelects ==
    ASSUME NEW C, NEW s \in Seq(C), NEW S
    PROVE  /\ Only(s, S) \in Seq(C) /\ Len(Only(s, S)) <= Len(s)
           /\ Range(Only(s, S)) = Range(s) \cap S
<1> DEFINE pieces == [i \in DOMAIN s |-> IF s[i] \in S THEN <<s[i]>> ELSE <<>>]
<1>0. Len(s) \in Nat /\ DOMAIN s = 1..Len(s) /\ \A i \in DOMAIN s : s[i] \in C
  OBVIOUS
<1>1. ASSUME NEW i \in DOMAIN s
      PROVE  pieces[i] \in Seq(C) /\ Len(pieces[i]) <= 1 /\ Range(pieces[i]) = {s[i]} \cap S
  <2>1. CASE s[i] \in S
    <3>1. pieces[i] = <<s[i]>>
      BY <2>1
    <3>2. <<s[i]>> \in Seq(C) /\ Len(<<s[i]>>) = 1 /\ DOMAIN <<s[i]>> = {1} /\ <<s[i]>>[1] = s[i]
      BY <1>0
    <3> QED BY <2>1, <3>1, <3>2 DEF Range
  <2>2. CASE s[i] \notin S
    <3>1. pieces[i] = <<>>
      BY <2>2
    <3>2. <<>> \in Seq(C) /\ Len(<<>>) = 0 /\ Range(<<>>) = {}
      BY RangeTyped
    <3> QED BY <2>2, <3>1, <3>2
  <2> QED BY <2>1, <2>2
<1>2. DOMAIN pieces = DOMAIN s /\ pieces \in Seq(Seq(C)) /\ Len(pieces) = Len(s)
  <2>1. pieces \in [1..Len(s) -> Seq(C)]
    BY <1>0, <1>1
  <2> HIDE DEF pieces
  <2> QED BY <1>0, <2>1, IsASeq
<1>3. Only(s, S) = FlattenSeq(pieces)
  BY DEF Only
<1> HIDE DEF pieces
<1>4. /\ Only(s, S) \in Seq(C)
      /\ \A c : c \in Range(Only(s, S)) <=> \E i \in DOMAIN s : c \in {s[i]} \cap S
  <2>1. /\ FlattenSeq(pieces) \in Seq(C)
        /\ \A c : c \in Range(FlattenSeq(pieces)) <=> \E i \in DOMAIN pieces : c \in Range(pieces[i])
    BY <1>2, FlattenKeepsElements
  <2> QED BY <1>1, <1>2, <1>3, <2>1
<1>5. Len(Only(s, S)) <= Len(s)
  BY <1>1, <1>2, <1>3, FlattenIsShort
<1>6. Range(Only(s, S)) = Range(s) \cap S
  BY <1>4 DEF Range
<1> QED BY <1>4, <1>5, <1>6

\* The interleaving fill pushes the cells it has read and those it brings, and
\* no others.
LEMMA InterleaveKeepsCells ==
    ASSUME NEW s \in Seq(Cells)
    PROVE  InterleaveCells(s) \in Seq(Cells) /\ Range(InterleaveCells(s)) = Range(s)
<1> DEFINE Pool(p)     == Only(s, {c \in Cells : ProviderOf[c] = p})
           Take1(k, p) == IF k <= Len(Pool(p)) THEN <<Pool(p)[k]>> ELSE <<>>
           turn(k)     == [i \in DOMAIN Priority |-> Take1(k, Priority[i])]
           Round(k)    == FlattenSeq(turn(k))
           rounds      == [k \in DOMAIN s |-> Round(k)]
<1>0. /\ Len(s) \in Nat /\ DOMAIN s = 1..Len(s)
      /\ Priority \in Seq(Providers) /\ Len(Priority) \in Nat /\ DOMAIN Priority = 1..Len(Priority)
      /\ Range(Priority) = Providers
  BY QueueAssumption
<1>1. InterleaveCells(s) = FlattenSeq(rounds)
  BY DEF InterleaveCells
<1>2. ASSUME NEW p
      PROVE  /\ Pool(p) \in Seq(Cells) /\ Len(Pool(p)) \in Nat /\ Len(Pool(p)) <= Len(s)
             /\ Range(Pool(p)) = {c \in Range(s) : ProviderOf[c] = p}
  <2>1. /\ Pool(p) \in Seq(Cells) /\ Len(Pool(p)) <= Len(s)
        /\ Range(Pool(p)) = Range(s) \cap {c \in Cells : ProviderOf[c] = p}
    BY OnlySelects
  <2>2. Range(s) \subseteq Cells
    BY RangeTyped
  <2> HIDE DEF Pool
  <2> QED BY <2>1, <2>2
<1> HIDE DEF Pool
<1>3. ASSUME NEW k \in DOMAIN s, NEW p
      PROVE  /\ Take1(k, p) \in Seq(Cells)
             /\ \A c : c \in Range(Take1(k, p)) <=> k <= Len(Pool(p)) /\ c = Pool(p)[k]
  <2>1. CASE k <= Len(Pool(p))
    <3>1. Take1(k, p) = <<Pool(p)[k]>> /\ Pool(p)[k] \in Cells
      BY <1>0, <1>2, <2>1
    <3>2. <<Pool(p)[k]>> \in Seq(Cells) /\ DOMAIN <<Pool(p)[k]>> = {1} /\ <<Pool(p)[k]>>[1] = Pool(p)[k]
      BY <3>1
    <3> QED BY <2>1, <3>1, <3>2 DEF Range
  <2>2. CASE ~(k <= Len(Pool(p)))
    <3>1. Take1(k, p) = <<>> /\ <<>> \in Seq(Cells) /\ Range(<<>>) = {}
      BY <2>2, RangeTyped
    <3> QED BY <2>2, <3>1
  <2> QED BY <2>1, <2>2
<1> HIDE DEF Take1
<1>4. ASSUME NEW k \in DOMAIN s
      PROVE  /\ Round(k) \in Seq(Cells)
             /\ \A c : c \in Range(Round(k)) <=>
                  \E i \in DOMAIN Priority : k <= Len(Pool(Priority[i])) /\ c = Pool(Priority[i])[k]
  <2>1. DOMAIN turn(k) = DOMAIN Priority /\ turn(k) \in Seq(Seq(Cells))
    <3>1. turn(k) \in [1..Len(Priority) -> Seq(Cells)]
      BY <1>0, <1>3
    <3> QED BY <1>0, <3>1, IsASeq
  <2>2. /\ Round(k) \in Seq(Cells)
        /\ \A c : c \in Range(Round(k)) <=> \E i \in DOMAIN turn(k) : c \in Range(turn(k)[i])
    BY <2>1, FlattenKeepsElements
  <2>3. \A i \in DOMAIN Priority : turn(k)[i] = Take1(k, Priority[i])
    OBVIOUS
  <2> HIDE DEF turn, Round
  <2> QED BY <1>3, <2>1, <2>2, <2>3
<1> HIDE DEF turn, Round
<1>5. DOMAIN rounds = DOMAIN s /\ rounds \in Seq(Seq(Cells)) /\ \A k \in DOMAIN s : rounds[k] = Round(k)
  <2>1. rounds \in [1..Len(s) -> Seq(Cells)]
    BY <1>0, <1>4
  <2>2. \A k \in DOMAIN s : rounds[k] = Round(k)
    OBVIOUS
  <2> HIDE DEF rounds
  <2> QED BY <1>0, <2>1, <2>2, IsASeq
<1> HIDE DEF rounds
<1>6. /\ InterleaveCells(s) \in Seq(Cells)
      /\ \A c : c \in Range(InterleaveCells(s)) <=> \E k \in DOMAIN s : c \in Range(Round(k))
  <2>1. /\ FlattenSeq(rounds) \in Seq(Cells)
        /\ \A c : c \in Range(FlattenSeq(rounds)) <=> \E k \in DOMAIN rounds : c \in Range(rounds[k])
    BY <1>5, FlattenKeepsElements
  <2> QED BY <1>1, <1>5, <2>1
<1>7. ASSUME NEW c \in Range(s)
      PROVE  \E k \in DOMAIN s : c \in Range(Round(k))
  <2>1. c \in Cells /\ ProviderOf[c] \in Providers
    BY RangeTyped DEF Providers
  <2>2. PICK i \in DOMAIN Priority : Priority[i] = ProviderOf[c]
    BY <1>0, <2>1 DEF Range
  <2>3. c \in Range(Pool(Priority[i]))
    BY <1>2, <2>2
  <2>4. PICK k \in 1..Len(Pool(Priority[i])) : c = Pool(Priority[i])[k]
    BY <1>2, <2>3 DEF Range
  <2>5. k \in DOMAIN s /\ k <= Len(Pool(Priority[i]))
    BY <1>0, <1>2, <2>4
  <2> QED BY <1>4, <2>4, <2>5
<1>8. ASSUME NEW k \in DOMAIN s, NEW c \in Range(Round(k))
      PROVE  c \in Range(s)
  <2>1. PICK i \in DOMAIN Priority : k <= Len(Pool(Priority[i])) /\ c = Pool(Priority[i])[k]
    BY <1>4
  <2>2. k \in DOMAIN Pool(Priority[i])
    BY <1>0, <1>2, <2>1
  <2>3. c \in Range(Pool(Priority[i]))
    BY <2>1, <2>2 DEF Range
  <2> QED BY <1>2, <2>3
<1> QED BY <1>6, <1>7, <1>8

-----------------------------------------------------------------------------
(* How many cells of a kind a sequence has.                                *)

Places(s, S) == {i \in DOMAIN s : s[i] \in S}
Hits(s, S)   == Cardinality(Places(s, S))

LEMMA HitsType ==
    ASSUME NEW C, NEW s \in Seq(C), NEW S
    PROVE  IsFiniteSet(Places(s, S)) /\ Hits(s, S) \in Nat /\ Hits(s, S) <= Len(s)
<1>1. Len(s) \in Nat /\ DOMAIN s = 1..Len(s)
  OBVIOUS
<1>2. IsFiniteSet(1..Len(s)) /\ Cardinality(1..Len(s)) = Len(s)
  BY <1>1, FS_Interval
<1>3. Places(s, S) \in SUBSET (1..Len(s))
  BY <1>1 DEF Places
<1> QED BY <1>2, <1>3, FS_Subset, FS_CardinalityType DEF Hits

LEMMA HitsOfAppend ==
    ASSUME NEW C, NEW s \in Seq(C), NEW c \in C, NEW S
    PROVE  Hits(Append(s, c), S) = Hits(s, S) + (IF c \in S THEN 1 ELSE 0)
<1>1. /\ DOMAIN Append(s, c) = 1..Len(s) + 1 /\ DOMAIN s = 1..Len(s) /\ Len(s) \in Nat
      /\ \A i \in 1..Len(s) : Append(s, c)[i] = s[i]
      /\ Append(s, c)[Len(s) + 1] = c
  BY AppendProperties
<1>2. Len(s) + 1 \notin 1..Len(s) /\ 1..Len(s) + 1 = 1..Len(s) \cup {Len(s) + 1}
  BY <1>1
<1>3. IsFiniteSet(Places(s, S)) /\ Len(s) + 1 \notin Places(s, S) /\ Hits(s, S) \in Nat
  BY <1>1, <1>2, HitsType DEF Places
<1>4. CASE c \in S
  <2>1. Places(Append(s, c), S) = Places(s, S) \cup {Len(s) + 1}
    BY <1>1, <1>2, <1>4 DEF Places
  <2>2. Cardinality(Places(s, S) \cup {Len(s) + 1}) = Cardinality(Places(s, S)) + 1
    BY <1>3, FS_AddElement
  <2> QED BY <1>4, <2>1, <2>2 DEF Hits
<1>5. CASE c \notin S
  <2>1. Places(Append(s, c), S) = Places(s, S)
    BY <1>1, <1>2, <1>5 DEF Places
  <2> QED BY <1>3, <1>5, <2>1 DEF Hits
<1> QED BY <1>4, <1>5

\* What is left without the k-th element.
LEMMA RemoveAtShape ==
    ASSUME NEW C, NEW s \in Seq(C), NEW k \in 1..Len(s)
    PROVE  /\ RemoveAt(s, k) \in Seq(C) /\ Len(RemoveAt(s, k)) = Len(s) - 1
           /\ \A i \in 1..Len(s) - 1 : RemoveAt(s, k)[i] = IF i < k THEN s[i] ELSE s[i + 1]
<1> DEFINE a == SubSeq(s, 1, k - 1)
           b == SubSeq(s, k + 1, Len(s))
<1>1. Len(s) \in Nat /\ k \in Nat /\ 1 <= k /\ k <= Len(s) /\ \A i \in 1..Len(s) : s[i] \in C
  OBVIOUS
<1>2. a \in Seq(C) /\ Len(a) = k - 1 /\ \A i \in 1..k - 1 : a[i] = s[i]
  <2>1. 1 \in Int /\ k - 1 \in Int /\ \A i \in 1..k - 1 : s[i] \in C
    BY <1>1
  <2>2. /\ SubSeq(s, 1, k - 1) \in Seq(C)
        /\ Len(SubSeq(s, 1, k - 1)) = IF 1 <= k - 1 THEN k - 1 - 1 + 1 ELSE 0
        /\ \A i \in 1..k - 1 - 1 + 1 : SubSeq(s, 1, k - 1)[i] = s[1 + i - 1]
    BY <2>1, SubSeqProperties
  <2>3. \A i \in 1..k - 1 : a[i] = s[i]
    <3> TAKE i \in 1..k - 1
    <3>1. i \in 1..k - 1 - 1 + 1 /\ 1 + i - 1 = i
      BY <1>1
    <3> QED BY <2>2, <3>1
  <2> QED BY <1>1, <2>2, <2>3
<1>3. b \in Seq(C) /\ Len(b) = Len(s) - k /\ \A i \in 1..Len(s) - k : b[i] = s[k + i]
  <2>1. k + 1 \in Int /\ Len(s) \in Int /\ \A i \in k + 1..Len(s) : s[i] \in C
    BY <1>1
  <2>2. /\ SubSeq(s, k + 1, Len(s)) \in Seq(C)
        /\ Len(SubSeq(s, k + 1, Len(s))) = IF k + 1 <= Len(s) THEN Len(s) - (k + 1) + 1 ELSE 0
        /\ \A i \in 1..Len(s) - (k + 1) + 1 : SubSeq(s, k + 1, Len(s))[i] = s[k + 1 + i - 1]
    BY <2>1, SubSeqProperties
  <2>3. \A i \in 1..Len(s) - k : b[i] = s[k + i]
    <3> TAKE i \in 1..Len(s) - k
    <3>1. i \in 1..Len(s) - (k + 1) + 1 /\ k + 1 + i - 1 = k + i
      BY <1>1
    <3> QED BY <2>2, <3>1
  <2> QED BY <1>1, <2>2, <2>3
<1> HIDE DEF a, b
<1>4. RemoveAt(s, k) = a \o b
  BY DEF RemoveAt, a, b
<1>5. /\ a \o b \in Seq(C) /\ Len(a \o b) = Len(a) + Len(b)
      /\ \A i \in 1..Len(a) + Len(b) : (a \o b)[i] = IF i <= Len(a) THEN a[i] ELSE b[i - Len(a)]
  BY <1>2, <1>3, ConcatProperties
<1>6. ASSUME NEW i \in 1..Len(s) - 1
      PROVE  (a \o b)[i] = IF i < k THEN s[i] ELSE s[i + 1]
  <2>1. (a \o b)[i] = IF i <= k - 1 THEN a[i] ELSE b[i - (k - 1)]
    BY <1>1, <1>2, <1>3, <1>5
  <2>2. CASE i < k
    BY <1>1, <1>2, <2>1, <2>2
  <2>3. CASE ~(i < k)
    <3>1. i - (k - 1) \in 1..Len(s) - k /\ k + (i - (k - 1)) = i + 1
      BY <1>1, <2>3
    <3> QED BY <1>1, <1>3, <2>1, <2>3, <3>1
  <2> QED BY <2>2, <2>3
<1> QED BY <1>1, <1>2, <1>3, <1>4, <1>5, <1>6

LEMMA HitsOfRemoveAt ==
    ASSUME NEW C, NEW s \in Seq(C), NEW k \in 1..Len(s), NEW S
    PROVE  Hits(s, S) = Hits(RemoveAt(s, k), S) + (IF s[k] \in S THEN 1 ELSE 0)
<1> DEFINE r    == RemoveAt(s, k)
           from == Places(r, S)
           to   == Places(s, S) \ {k}
           f    == [i \in from |-> IF i < k THEN i ELSE i + 1]
<1>1. /\ Len(s) \in Nat /\ k \in Nat /\ 1 <= k /\ k <= Len(s) /\ DOMAIN s = 1..Len(s)
      /\ r \in Seq(C) /\ Len(r) = Len(s) - 1
      /\ \A i \in 1..Len(s) - 1 : r[i] = IF i < k THEN s[i] ELSE s[i + 1]
  <2>1. Len(s) \in Nat /\ k \in Nat /\ 1 <= k /\ k <= Len(s) /\ DOMAIN s = 1..Len(s)
    OBVIOUS
  <2>2. /\ r \in Seq(C) /\ Len(r) = Len(s) - 1
        /\ \A i \in 1..Len(s) - 1 : r[i] = IF i < k THEN s[i] ELSE s[i + 1]
    BY RemoveAtShape
  <2> QED BY <2>1, <2>2
<1>2. DOMAIN r = 1..Len(s) - 1
  BY <1>1
<1> HIDE DEF r
<1>3. IsFiniteSet(from) /\ IsFiniteSet(Places(s, S)) /\ Hits(s, S) \in Nat /\ Hits(r, S) \in Nat
  BY <1>1, HitsType
<1>4. f \in [from -> to] /\ \A i \in from : f[i] = IF i < k THEN i ELSE i + 1
  <2>1. ASSUME NEW i \in from PROVE (IF i < k THEN i ELSE i + 1) \in to
    <3>1. i \in 1..Len(s) - 1 /\ r[i] \in S
      BY <1>2 DEF Places
    <3>2. PICK j \in 1..Len(s) : j = (IF i < k THEN i ELSE i + 1) /\ j # k
      BY <1>1, <3>1
    <3>3. r[i] = s[j]
      BY <1>1, <3>1, <3>2
    <3>4. j \in to
      BY <1>1, <3>1, <3>2, <3>3 DEF Places
    <3> QED BY <3>2, <3>4, Zenon
  <2> QED BY <2>1
<1>5. \A i, j \in from : f[i] = f[j] => i = j
  BY <1>1, <1>2, <1>4 DEF Places
<1>6. ASSUME NEW j \in to PROVE \E i \in from : f[i] = j
  <2>1. j \in 1..Len(s) /\ s[j] \in S /\ j # k
    BY <1>1 DEF Places
  <2>2. CASE j < k
    <3>1. j \in from
      BY <1>1, <1>2, <2>1, <2>2 DEF Places
    <3> QED BY <1>4, <2>2, <3>1
  <2>3. CASE ~(j < k)
    <3>1. j - 1 \in 1..Len(s) - 1 /\ ~(j - 1 < k) /\ j - 1 + 1 = j
      BY <1>1, <2>1, <2>3
    <3>2. j - 1 \in from
      BY <1>1, <1>2, <2>1, <3>1 DEF Places
    <3> QED BY <1>4, <3>1, <3>2
  <2> QED BY <2>2, <2>3
<1> HIDE DEF f, from, to
<1>7. f \in Bijection(from, to)
  <2>1. IsInjective(f)
    BY <1>4, <1>5 DEF IsInjective
  <2> QED BY <1>4, <1>6, <2>1 DEF Bijection, Injection, Surjection
<1>8. Cardinality(to) = Cardinality(from)
  BY <1>3, <1>7, FS_Bijection DEF ExistsBijection
<1>9. Cardinality(Places(s, S) \ {k}) = IF k \in Places(s, S) THEN Cardinality(Places(s, S)) - 1 ELSE Cardinality(Places(s, S))
  BY <1>3, FS_RemoveElement
<1>10. k \in Places(s, S) <=> s[k] \in S
  BY <1>1 DEF Places
<1> QED BY <1>3, <1>8, <1>9, <1>10 DEF Hits, from, to, r

-----------------------------------------------------------------------------
(* reinterleave_cells.                                                     *)

OfProvider(p) == {c \in Cells : ProviderOf[c] = p}

LEMMA CountIsHits ==
    ASSUME NEW s \in Seq(Cells), NEW p
    PROVE  Count(s, p) = Hits(s, OfProvider(p)) /\ Count(s, p) \in Nat /\ Count(s, p) <= Len(s)
<1>1. \A i \in DOMAIN s : s[i] \in Cells
  OBVIOUS
<1>2. Places(s, OfProvider(p)) = {i \in DOMAIN s : ProviderOf[s[i]] = p}
  BY <1>1 DEF Places, OfProvider
<1> QED BY <1>2, HitsType DEF Hits, Count

\* The cells of two providers are no more than the sequence has.
LEMMA TwoCounts ==
    ASSUME NEW s \in Seq(Cells), NEW p, NEW q, p # q
    PROVE  Count(s, p) + Count(s, q) <= Len(s)
<1> DEFINE P == {i \in DOMAIN s : ProviderOf[s[i]] = p}
           Q == {i \in DOMAIN s : ProviderOf[s[i]] = q}
<1>1. Len(s) \in Nat /\ DOMAIN s = 1..Len(s)
  OBVIOUS
<1>2. IsFiniteSet(1..Len(s)) /\ Cardinality(1..Len(s)) = Len(s)
  BY <1>1, FS_Interval
<1>3. P \in SUBSET (1..Len(s)) /\ Q \in SUBSET (1..Len(s)) /\ P \cap Q = {} /\ P \cup Q \in SUBSET (1..Len(s))
  BY <1>1
<1>4. IsFiniteSet(P) /\ IsFiniteSet(Q) /\ Cardinality(P \cup Q) <= Len(s)
  BY <1>2, <1>3, FS_Subset
<1>5. Cardinality(P \cup Q) = Cardinality(P) + Cardinality(Q)
  <2> HIDE DEF P, Q
  <2>1. Cardinality(P \cup Q) = Cardinality(P) + Cardinality(Q) - Cardinality(P \cap Q)
    BY <1>4, FS_Union
  <2>2. Cardinality(P \cap Q) = 0
    BY <1>3, FS_EmptySet
  <2>3. Cardinality(P) \in Nat /\ Cardinality(Q) \in Nat
    BY <1>4, FS_CardinalityType
  <2> QED BY <2>1, <2>2, <2>3
<1> QED BY <1>4, <1>5 DEF Count

LEMMA FirstCellIsOfProvider ==
    ASSUME NEW s \in Seq(Cells), NEW p
    PROVE  /\ FirstCell(s, p) \in Nat
           /\ (\E c \in Range(s) : ProviderOf[c] = p) =>
                  FirstCell(s, p) \in 1..Len(s) /\ ProviderOf[s[FirstCell(s, p)]] = p
<1> DEFINE I == {i \in 1..Len(s) : ProviderOf[s[i]] = p}
<1>0. Len(s) \in Nat /\ DOMAIN s = 1..Len(s)
  OBVIOUS
<1>1. FirstCell(s, p) = IF I # {} THEN Min(I) ELSE 0
  BY DEF FirstCell, SelectInSeq
<1>2. I # {} => Min(I) \in I
  <2>1. I \in SUBSET Nat
    OBVIOUS
  <2> HIDE DEF I
  <2> QED BY <2>1, LeastNatural
<1>3. (\E c \in Range(s) : ProviderOf[c] = p) => I # {}
  BY <1>0 DEF Range
<1> QED BY <1>0, <1>1, <1>2, <1>3

\* Of the providers that may follow, the one picked has most cells left.
LEMMA PickHasMost ==
    ASSUME NEW s \in Seq(Cells), NEW rest \in Seq(Cells), NEW candidates, candidates # {}
    PROVE  /\ Pick(s, rest, candidates) \in candidates
           /\ \A q \in candidates : Count(rest, q) <= Count(rest, Pick(s, rest, candidates))
<1> DEFINE Most  == {p \in candidates : \A q \in candidates : Count(rest, q) <= Count(rest, p)}
           fewer == {Len(rest) - Count(rest, p) : p \in candidates}
           first == {FirstCell(s, p) : p \in Most}
<1>0. Len(rest) \in Nat /\ \A p : Count(rest, p) \in Nat /\ Count(rest, p) <= Len(rest)
  BY CountIsHits
<1>1. Most # {}
  <2>1. fewer \in SUBSET Nat /\ fewer # {}
    BY <1>0
  <2>2. PICK n \in fewer : \A y \in fewer : n <= y
    <3> HIDE DEF fewer
    <3> QED BY <2>1, LeastNatural
  <2>3. PICK p \in candidates : n = Len(rest) - Count(rest, p)
    BY <2>2
  <2>4. \A q \in candidates : Len(rest) - Count(rest, p) <= Len(rest) - Count(rest, q)
    BY <2>2, <2>3
  <2>5. p \in Most
    BY <1>0, <2>4
  <2> QED BY <2>5
<1>2. \E p \in Most : \A q \in Most : FirstCell(s, p) <= FirstCell(s, q)
  <2>1. first \in SUBSET Nat /\ first # {}
    <3> HIDE DEF Most
    <3> QED BY <1>1, FirstCellIsOfProvider
  <2>2. PICK n \in first : \A y \in first : n <= y
    <3> HIDE DEF first
    <3> QED BY <2>1, LeastNatural
  <2> HIDE DEF Most
  <2> QED BY <2>2
<1>3. Pick(s, rest, candidates) = CHOOSE p \in Most : \A q \in Most : FirstCell(s, p) <= FirstCell(s, q)
  BY DEF Pick, FirstToAppear
<1>4. Pick(s, rest, candidates) \in Most
  <2> HIDE DEF Most
  <2> QED BY <1>2, <1>3
<1> QED BY <1>4

LeftIn(s)        == {ProviderOf[c] : c \in Range(s)}
LastOf(out)      == IF out = <<>> THEN {} ELSE {ProviderOf[Last(out)]}
MayFollow(acc)   == IF LeftIn(acc.rest) \ LastOf(acc.out) # {} THEN LeftIn(acc.rest) \ LastOf(acc.out) ELSE LeftIn(acc.rest)

\* A turn draws a cell of one of the providers with most left that may follow.
LEMMA TurnDraws ==
    ASSUME NEW s \in Seq(Cells), NEW acc, acc.rest \in Seq(Cells), acc.rest # <<>>
    PROVE  \E k \in 1..Len(acc.rest) :
              /\ Turn(s, acc) = [out |-> Append(acc.out, acc.rest[k]), rest |-> RemoveAt(acc.rest, k)]
              /\ ProviderOf[acc.rest[k]] \in MayFollow(acc)
              /\ \A q \in MayFollow(acc) : Count(acc.rest, q) <= Count(acc.rest, ProviderOf[acc.rest[k]])
<1> DEFINE pick == Pick(s, acc.rest, MayFollow(acc))
           k    == FirstCell(acc.rest, pick)
<1>1. LeftIn(acc.rest) # {} /\ MayFollow(acc) # {} /\ MayFollow(acc) \subseteq LeftIn(acc.rest)
  <2>1. 1 \in DOMAIN acc.rest
    BY EmptySeq
  <2> QED BY <2>1 DEF Range, LeftIn, MayFollow
<1>2. /\ pick \in MayFollow(acc)
      /\ \A q \in MayFollow(acc) : Count(acc.rest, q) <= Count(acc.rest, pick)
  BY <1>1, PickHasMost
<1>3. k \in 1..Len(acc.rest) /\ ProviderOf[acc.rest[k]] = pick
  <2>1. \E c \in Range(acc.rest) : ProviderOf[c] = pick
    BY <1>1, <1>2 DEF LeftIn
  <2> HIDE DEF pick
  <2> QED BY <2>1, FirstCellIsOfProvider
<1>4. Turn(s, acc) = [out |-> Append(acc.out, acc.rest[k]), rest |-> RemoveAt(acc.rest, k)]
  BY DEF Turn, MayFollow, LeftIn, LastOf
<1> HIDE DEF k, pick
<1> QED BY <1>2, <1>3, <1>4

\* What was put out and what is left are together the cells of s.
Drawn(s, acc) ==
    /\ acc.out \in Seq(Cells) /\ acc.rest \in Seq(Cells)
    /\ \A S : Hits(acc.out, S) + Hits(acc.rest, S) = Hits(s, S)

\* No two neighbours of one provider were put out, and none has so many cells
\* left that they could not be kept apart, from each other and from the last.
Spread(acc) ==
    /\ Apart(acc.out)
    /\ \A p : 2 * Count(acc.rest, p) <= Len(acc.rest) + 1
    /\ acc.out # <<>> => 2 * Count(acc.rest, ProviderOf[Last(acc.out)]) <= Len(acc.rest)

LEMMA TurnKeepsCells ==
    ASSUME NEW s \in Seq(Cells), NEW acc, Drawn(s, acc), acc.rest # <<>>
    PROVE  Drawn(s, Turn(s, acc)) /\ Len(Turn(s, acc).rest) = Len(acc.rest) - 1
<1>0. acc.out \in Seq(Cells) /\ acc.rest \in Seq(Cells)
  BY DEF Drawn
<1>1. PICK k \in 1..Len(acc.rest) :
        Turn(s, acc) = [out |-> Append(acc.out, acc.rest[k]), rest |-> RemoveAt(acc.rest, k)]
  BY <1>0, TurnDraws
<1>2. acc.rest[k] \in Cells
  BY <1>0
<1>3. Append(acc.out, acc.rest[k]) \in Seq(Cells)
  BY <1>0, <1>2, AppendProperties
<1>4. RemoveAt(acc.rest, k) \in Seq(Cells) /\ Len(RemoveAt(acc.rest, k)) = Len(acc.rest) - 1
  BY <1>0, RemoveAtShape
<1>5. ASSUME NEW S
      PROVE  Hits(Append(acc.out, acc.rest[k]), S) + Hits(RemoveAt(acc.rest, k), S) = Hits(s, S)
  <2>1. Hits(Append(acc.out, acc.rest[k]), S) = Hits(acc.out, S) + (IF acc.rest[k] \in S THEN 1 ELSE 0)
    BY <1>0, <1>2, HitsOfAppend
  <2>2. Hits(acc.rest, S) = Hits(RemoveAt(acc.rest, k), S) + (IF acc.rest[k] \in S THEN 1 ELSE 0)
    BY <1>0, HitsOfRemoveAt
  <2>3. Hits(acc.out, S) + Hits(acc.rest, S) = Hits(s, S)
    BY DEF Drawn
  <2>4. Hits(acc.out, S) \in Nat /\ Hits(RemoveAt(acc.rest, k), S) \in Nat
    BY <1>0, <1>4, HitsType
  <2> QED BY <2>1, <2>2, <2>3, <2>4
<1> QED BY <1>1, <1>3, <1>4, <1>5 DEF Drawn

LEMMA TurnKeepsApart ==
    ASSUME NEW s \in Seq(Cells), NEW acc, Drawn(s, acc), acc.rest # <<>>, Spread(acc)
    PROVE  Spread(Turn(s, acc))
<1>0. /\ acc.out \in Seq(Cells) /\ acc.rest \in Seq(Cells)
      /\ Len(acc.rest) \in Nat \ {0} /\ Len(acc.out) \in Nat
  BY EmptySeq DEF Drawn
<1>1. PICK k \in 1..Len(acc.rest) :
        /\ Turn(s, acc) = [out |-> Append(acc.out, acc.rest[k]), rest |-> RemoveAt(acc.rest, k)]
        /\ ProviderOf[acc.rest[k]] \in MayFollow(acc)
        /\ \A q \in MayFollow(acc) : Count(acc.rest, q) <= Count(acc.rest, ProviderOf[acc.rest[k]])
  BY <1>0, TurnDraws
<1> DEFINE c    == acc.rest[k]
           pick == ProviderOf[c]
           out  == Append(acc.out, c)
           rest == RemoveAt(acc.rest, k)
<1>2. c \in Cells
  BY <1>0
<1>3. /\ out \in Seq(Cells) /\ Len(out) = Len(acc.out) + 1 /\ out[Len(acc.out) + 1] = c
      /\ \A i \in 1..Len(acc.out) : out[i] = acc.out[i]
  BY <1>0, <1>2, AppendProperties
<1>4. rest \in Seq(Cells) /\ Len(rest) = Len(acc.rest) - 1
  BY <1>0, RemoveAtShape
<1>5. ASSUME NEW p
      PROVE  /\ Count(acc.rest, p) = Count(rest, p) + (IF p = pick THEN 1 ELSE 0)
             /\ Count(acc.rest, p) \in Nat /\ Count(rest, p) \in Nat
  <2>1. Hits(acc.rest, OfProvider(p)) = Hits(rest, OfProvider(p)) + (IF c \in OfProvider(p) THEN 1 ELSE 0)
    BY <1>0, HitsOfRemoveAt
  <2>2. c \in OfProvider(p) <=> p = pick
    BY <1>2 DEF OfProvider
  <2>3. Count(acc.rest, p) = Hits(acc.rest, OfProvider(p)) /\ Count(acc.rest, p) \in Nat
    BY <1>0, CountIsHits
  <2>4. Count(rest, p) = Hits(rest, OfProvider(p)) /\ Count(rest, p) \in Nat
    BY <1>4, CountIsHits
  <2> QED BY <2>1, <2>2, <2>3, <2>4
<1> HIDE DEF out, rest
<1>6. /\ \A p : 2 * Count(acc.rest, p) <= Len(acc.rest) + 1
      /\ acc.out # <<>> => 2 * Count(acc.rest, ProviderOf[Last(acc.out)]) <= Len(acc.rest)
      /\ Apart(acc.out)
  BY DEF Spread
\* A provider with cells left may follow, unless it is the last.
<1>7. ASSUME NEW p, Count(acc.rest, p) # 0
      PROVE  p \in LeftIn(acc.rest)
  <2>1. PICK i \in DOMAIN acc.rest : ProviderOf[acc.rest[i]] = p
    <3>1. {i \in DOMAIN acc.rest : ProviderOf[acc.rest[i]] = p} # {}
      BY <1>7, FS_EmptySet DEF Count
    <3> QED BY <3>1
  <2> QED BY <2>1 DEF LeftIn, Range
\* "unreachable here": the last provider is never the only one that has cells left.
<1>8. acc.out # <<>> => pick # ProviderOf[Last(acc.out)]
  <2> SUFFICES ASSUME acc.out # <<>>, pick = ProviderOf[Last(acc.out)] PROVE FALSE
    OBVIOUS
  <2>1. LastOf(acc.out) = {pick}
    BY DEF LastOf
  <2>2. MayFollow(acc) = LeftIn(acc.rest) /\ LeftIn(acc.rest) \subseteq {pick}
    BY <1>1, <2>1 DEF MayFollow
  <2>3. \A i \in DOMAIN acc.rest : ProviderOf[acc.rest[i]] = pick
    BY <2>2 DEF LeftIn, Range
  <2>4. Count(acc.rest, pick) = Len(acc.rest)
    <3>1. {i \in DOMAIN acc.rest : ProviderOf[acc.rest[i]] = pick} = 1..Len(acc.rest)
      BY <1>0, <2>3
    <3>2. Cardinality(1..Len(acc.rest)) = Len(acc.rest)
      <4>1. ASSUME NEW n \in Nat PROVE Cardinality(1..n) = n
        BY FS_Interval
      <4> QED BY <1>0, <4>1
    <3> QED BY <3>1, <3>2 DEF Count
  <2>5. 2 * Count(acc.rest, pick) <= Len(acc.rest)
    BY <1>6
  <2> QED BY <1>0, <2>4, <2>5
<1>9. Apart(out)
  <2> SUFFICES ASSUME NEW i \in 1..Len(out) - 1 PROVE ProviderOf[out[i]] # ProviderOf[out[i + 1]]
    BY DEF Apart
  <2>1. CASE i < Len(acc.out)
    <3>1. i \in 1..Len(acc.out) - 1 /\ i \in 1..Len(acc.out) /\ i + 1 \in 1..Len(acc.out)
      BY <1>0, <1>3, <2>1
    <3>2. ProviderOf[acc.out[i]] # ProviderOf[acc.out[i + 1]]
      BY <1>6, <3>1 DEF Apart
    <3> QED BY <1>3, <3>1, <3>2
  <2>2. CASE i = Len(acc.out)
    <3>0. i \in Nat /\ 1 <= i
      BY <1>0, <1>3
    <3>1. acc.out # <<>> /\ i \in 1..Len(acc.out) /\ Last(acc.out) = acc.out[i]
      BY <1>0, <2>2, <3>0 DEF Last
    <3>2. out[i] = Last(acc.out) /\ out[i + 1] = c
      BY <1>3, <2>2, <3>1
    <3> QED BY <1>8, <3>1, <3>2
  <2> QED BY <1>0, <1>3, <2>1, <2>2
<1>10. Last(out) = c /\ out # <<>>
  BY <1>0, <1>3 DEF Last
<1>11. ASSUME NEW p
       PROVE  2 * Count(rest, p) <= Len(rest) + 1
  <2>1. CASE p = pick
    BY <1>0, <1>4, <1>5, <1>6, <2>1
  <2>2. CASE p # pick /\ acc.out # <<>> /\ p = ProviderOf[Last(acc.out)]
    BY <1>0, <1>4, <1>5, <1>6, <2>2
  <2>3. CASE p # pick /\ (acc.out = <<>> \/ p # ProviderOf[Last(acc.out)])
    <3>1. CASE Count(acc.rest, p) = 0
      BY <1>0, <1>4, <1>5, <2>3, <3>1
    <3>2. CASE Count(acc.rest, p) # 0
      <4>1. p \in MayFollow(acc)
        BY <1>7, <2>3, <3>2 DEF MayFollow, LastOf
      <4>2. Count(acc.rest, p) <= Count(acc.rest, pick)
        BY <1>1, <4>1
      <4>3. Count(acc.rest, p) + Count(acc.rest, pick) <= Len(acc.rest)
        BY <1>0, <2>3, TwoCounts
      <4>4. Count(acc.rest, p) = Count(rest, p) /\ Count(rest, p) \in Nat /\ Count(acc.rest, pick) \in Nat
        BY <1>5, <2>3
      <4> HIDE DEF pick, c
      <4> QED BY <1>0, <1>4, <4>2, <4>3, <4>4
    <3> QED BY <3>1, <3>2
  <2> QED BY <2>1, <2>2, <2>3
<1>12. 2 * Count(rest, ProviderOf[Last(out)]) <= Len(rest)
  <2>1. Count(acc.rest, pick) = Count(rest, pick) + 1 /\ Count(rest, pick) \in Nat
    BY <1>5
  <2>2. 2 * Count(acc.rest, pick) <= Len(acc.rest) + 1
    BY <1>6
  <2>3. 2 * Count(rest, pick) <= Len(rest)
    BY <1>0, <1>4, <2>1, <2>2
  <2> QED BY <1>10, <2>3
<1> QED BY <1>1, <1>9, <1>11, <1>12 DEF Spread, out, rest

\* The turns are taken one after the other.
LEMMA ReinterleaveUnfolds ==
    ASSUME NEW s \in Seq(Cells)
    PROVE  \E turns :
              /\ ReinterleaveCells(s) = turns[Len(s)].out
              /\ turns[0] = [out |-> <<>>, rest |-> s]
              /\ \A n \in 1..Len(s) : turns[n] = Turn(s, turns[n - 1])
<1> DEFINE start == [out |-> <<>>, rest |-> s]
           Takes(f, m) == f = [n \in 0..m |-> IF n = 0 THEN start ELSE Turn(s, f[n - 1])]
           Takable == {m \in 0..Len(s) : \E f : Takes(f, m)}
<1>0. Len(s) \in Nat
  OBVIOUS
<1>1. 0 \in Takable
  <2> DEFINE g == [n \in 0..0 |-> start]
  <2>1. g = [n \in 0..0 |-> IF n = 0 THEN start ELSE Turn(s, g[n - 1])]
    <3> HIDE DEF start
    <3> QED OBVIOUS
  <2> HIDE DEF g
  <2> QED BY <1>0, <2>1
<1>2. ASSUME NEW m \in 0..Len(s), m \in Takable, m < Len(s)
      PROVE  m + 1 \in Takable
  <2>1. PICK f : Takes(f, m)
    BY <1>2
  <2> HIDE DEF start
  <2> DEFINE g == [n \in 0..m + 1 |-> IF n <= m THEN f[n] ELSE Turn(s, f[m])]
  <2>2. \A n \in 0..m : f[n] = IF n = 0 THEN start ELSE Turn(s, f[n - 1])
    BY <2>1, Zenon
  <2>3. ASSUME NEW n \in 0..m + 1
        PROVE  g[n] = IF n = 0 THEN start ELSE Turn(s, g[n - 1])
    <3>1. CASE n <= m
      <4>1. n \in 0..m /\ (n # 0 => n - 1 \in 0..m + 1 /\ n - 1 <= m)
        BY <1>0, <3>1
      <4>2. g[n] = f[n] /\ (n # 0 => g[n - 1] = f[n - 1])
        BY <3>1, <4>1
      <4> HIDE DEF g
      <4> QED BY <2>2, <4>1, <4>2
    <3>2. CASE n = m + 1
      <4>1. n # 0 /\ n - 1 = m /\ m \in 0..m + 1 /\ ~(n <= m) /\ m <= m
        BY <1>0, <3>2
      <4>2. g[n] = Turn(s, f[m]) /\ g[m] = f[m]
        BY <4>1
      <4> HIDE DEF g
      <4> QED BY <4>1, <4>2
    <3> QED BY <1>0, <3>1, <3>2
  <2>4. g = [n \in 0..m + 1 |-> g[n]]
    OBVIOUS
  <2> HIDE DEF g
  <2>5. g = [n \in 0..m + 1 |-> IF n = 0 THEN start ELSE Turn(s, g[n - 1])]
    BY <2>3, <2>4
  <2>6. m + 1 \in 0..Len(s)
    BY <1>0, <1>2
  <2> QED BY <2>5, <2>6
<1>3. Len(s) \in Takable
  <2>1. \A m \in 0..Len(s) : m \in Takable /\ m < Len(s) => m + 1 \in Takable
    BY <1>2
  <2> HIDE DEF Takable
  <2>2. 0..Len(s) \subseteq Takable
    BY <1>0, <1>1, <2>1, UpTo
  <2> QED BY <1>0, <2>2
<1> DEFINE turns == CHOOSE h : h = [n \in 0..Len(s) |-> IF n = 0 THEN [out |-> <<>>, rest |-> s] ELSE Turn(s, h[n - 1])]
<1>4. turns = [n \in 0..Len(s) |-> IF n = 0 THEN start ELSE Turn(s, turns[n - 1])]
  <2>1. \E h : h = [n \in 0..Len(s) |-> IF n = 0 THEN [out |-> <<>>, rest |-> s] ELSE Turn(s, h[n - 1])]
    BY <1>3
  <2> QED BY <2>1
<1>5. ReinterleaveCells(s) = turns[Len(s)].out
  BY DEF ReinterleaveCells
<1> HIDE DEF turns, start
<1>6. turns[0] = start
  BY <1>0, <1>4
<1>7. ASSUME NEW n \in 1..Len(s) PROVE turns[n] = Turn(s, turns[n - 1])
  <2>1. n \in 0..Len(s) /\ n # 0
    BY <1>0
  <2>2. \A m \in 0..Len(s) : turns[m] = IF m = 0 THEN start ELSE Turn(s, turns[m - 1])
    BY <1>4, Zenon
  <2> QED BY <2>1, <2>2
<1> QED BY <1>5, <1>6, <1>7 DEF start

\* "every input cell appears exactly once in the output", and "consecutive
\* cells always differ in provider" if the counts allow it.
LEMMA ReinterleaveDraws ==
    ASSUME NEW s \in Seq(Cells)
    PROVE  /\ ReinterleaveCells(s) \in Seq(Cells)
           /\ \A S : Hits(ReinterleaveCells(s), S) = Hits(s, S)
           /\ Feasible(s) => Apart(ReinterleaveCells(s))
<1>0. Len(s) \in Nat
  OBVIOUS
<1>1. PICK turns :
        /\ ReinterleaveCells(s) = turns[Len(s)].out
        /\ turns[0] = [out |-> <<>>, rest |-> s]
        /\ \A n \in 1..Len(s) : turns[n] = Turn(s, turns[n - 1])
  BY ReinterleaveUnfolds
<1> DEFINE Fine(acc, n) ==
             Drawn(s, acc) /\ Len(acc.rest) = Len(s) - n /\ (Feasible(s) => Spread(acc))
           Good == {n \in 0..Len(s) : Fine(turns[n], n)}
<1>a. <<>> \in Seq(Cells) /\ \A S : Hits(<<>>, S) = 0
  <2>1. \A S : Places(<<>>, S) = {}
    BY DEF Places
  <2>2. Cardinality({}) = 0
    BY FS_EmptySet
  <2>3. \A S : Hits(<<>>, S) = 0
    BY <2>1, <2>2, Zenon DEF Hits
  <2> QED BY <2>3
<1>2. Fine(turns[0], 0)
  <2>1. Drawn(s, [out |-> <<>>, rest |-> s])
    <3>1. \A S : Hits(s, S) \in Nat
      BY HitsType
    <3> QED BY <1>a, <3>1 DEF Drawn
  <2>2. ASSUME Feasible(s) PROVE Spread([out |-> <<>>, rest |-> s])
    <3>1. Apart(<<>>)
      BY DEF Apart
    <3>2. ASSUME NEW p PROVE 2 * Count(s, p) <= Len(s) + 1
      <4>1. CASE p \in Providers
        BY <2>2, <4>1 DEF Feasible
      <4>2. CASE p \notin Providers
        <5>1. \A i \in DOMAIN s : s[i] \in Cells
          OBVIOUS
        <5>2. {i \in DOMAIN s : ProviderOf[s[i]] = p} = {}
          BY <4>2, <5>1 DEF Providers
        <5>3. Count(s, p) = 0
          BY <5>2, FS_EmptySet DEF Count
        <5> QED BY <1>0, <5>3
      <4> QED BY <4>1, <4>2
    <3> QED BY <3>1, <3>2 DEF Spread
  <2> QED BY <1>0, <1>1, <2>1, <2>2
<1>3. ASSUME NEW n \in 0..Len(s), n \in Good, n < Len(s)
      PROVE  n + 1 \in Good
  <2>1. n \in Nat /\ n + 1 \in 1..Len(s) /\ n + 1 \in 0..Len(s) /\ n + 1 - 1 = n
    BY <1>0, <1>3
  <2>2. turns[n + 1] = Turn(s, turns[n])
    <3>1. PICK k \in 1..Len(s) : k = n + 1 /\ k - 1 = n
      BY <2>1
    <3>2. turns[k] = Turn(s, turns[k - 1])
      BY <1>1
    <3> QED BY <3>1, <3>2
  <2>3. Fine(turns[n], n)
    BY <1>3
  <2> DEFINE acc == turns[n]
  <2>4. acc.rest # <<>>
    BY <1>0, <1>3, <2>3, EmptySeq
  <2> HIDE DEF acc
  <2>5. Drawn(s, Turn(s, acc)) /\ Len(Turn(s, acc).rest) = Len(acc.rest) - 1
    BY <2>3, <2>4, TurnKeepsCells DEF acc
  <2>6. Feasible(s) => Spread(Turn(s, acc))
    BY <2>3, <2>4, TurnKeepsApart DEF acc
  <2>7. Len(acc.rest) - 1 = Len(s) - (n + 1)
    BY <1>0, <2>1, <2>3 DEF acc
  <2>8. Fine(Turn(s, acc), n + 1)
    BY <2>5, <2>6, <2>7
  <2> HIDE DEF Fine
  <2> QED BY <2>1, <2>2, <2>8 DEF acc
<1>4. Fine(turns[Len(s)], Len(s))
  <2>1. 0 \in Good
    BY <1>0, <1>2
  <2>2. \A n \in 0..Len(s) : n \in Good /\ n < Len(s) => n + 1 \in Good
    BY <1>3
  <2>3. Len(s) \in Good
    <3> HIDE DEF Good
    <3>1. 0..Len(s) \subseteq Good
      BY <1>0, <2>1, <2>2, UpTo
    <3> QED BY <1>0, <3>1
  <2> QED BY <2>3
<1> DEFINE acc == turns[Len(s)]
<1>5. acc.out \in Seq(Cells) /\ acc.rest = <<>>
  BY <1>0, <1>4, EmptySeq DEF Drawn
<1>6. ASSUME NEW S PROVE Hits(acc.out, S) = Hits(s, S)
  <2>1. Hits(acc.out, S) + Hits(acc.rest, S) = Hits(s, S)
    BY <1>4 DEF Drawn
  <2>2. Hits(acc.rest, S) = 0 /\ Hits(acc.out, S) \in Nat
    BY <1>a, <1>5, HitsType
  <2> QED BY <2>1, <2>2
<1>7. Feasible(s) => Apart(acc.out)
  BY <1>4 DEF Spread
<1> QED BY <1>1, <1>5, <1>6, <1>7

LEMMA RangeIsHit ==
    ASSUME NEW s \in Seq(Cells), NEW c
    PROVE  c \in Range(s) <=> Hits(s, {c}) # 0
<1>1. IsFiniteSet(Places(s, {c}))
  BY HitsType
<1>2. Places(s, {c}) = {} <=> Hits(s, {c}) = 0
  BY <1>1, FS_EmptySet DEF Hits
<1> QED BY <1>2 DEF Places, Range

LEMMA ReinterleaveKeepsCells ==
    ASSUME NEW s \in Seq(Cells)
    PROVE  /\ ReinterleaveCells(s) \in Seq(Cells) /\ Range(ReinterleaveCells(s)) = Range(s)
           /\ ToBag(ReinterleaveCells(s)) = ToBag(s)
<1> DEFINE t == ReinterleaveCells(s)
<1>1. t \in Seq(Cells) /\ \A S : Hits(t, S) = Hits(s, S)
  BY ReinterleaveDraws
<1> HIDE DEF t
<1>2. Range(t) = Range(s)
  <2>1. \A c : c \in Range(t) <=> c \in Range(s)
    BY <1>1, RangeIsHit
  <2> QED BY <2>1
<1>3. \A u : ToBag(u) = [c \in Range(u) |-> Hits(u, {c})]
  BY DEF ToBag, Hits, Places
<1>4. ToBag(t) = ToBag(s)
  BY <1>1, <1>2, <1>3
<1> QED BY <1>1, <1>2, <1>4 DEF t

\* Rearranging a sequence does not change how many cells of a provider it has.
LEMMA RearrangedCount ==
    ASSUME NEW s \in Seq(Cells), NEW f \in Bijection(DOMAIN s, DOMAIN s), NEW p
    PROVE  Cardinality({i \in 1..Len(s) : ProviderOf[s[f[i]]] = p}) = Count(s, p)
<1> DEFINE from == {i \in 1..Len(s) : ProviderOf[s[f[i]]] = p}
           to   == {i \in 1..Len(s) : ProviderOf[s[i]] = p}
           g    == [i \in from |-> f[i]]
<1>0. Len(s) \in Nat /\ DOMAIN s = 1..Len(s)
  OBVIOUS
<1>1. /\ f \in [1..Len(s) -> 1..Len(s)]
      /\ \A i, j \in 1..Len(s) : f[i] = f[j] => i = j
      /\ \A j \in 1..Len(s) : \E i \in 1..Len(s) : f[i] = j
  BY <1>0 DEF Bijection, Injection, Surjection, IsInjective
<1>2. g \in [from -> to] /\ \A i \in from : g[i] = f[i]
  BY <1>1
<1>3. \A i, j \in from : g[i] = g[j] => i = j
  BY <1>1, <1>2
<1>4. \A j \in to : \E i \in from : g[i] = j
  BY <1>1, <1>2
<1>5. IsFiniteSet(from)
  <2>1. IsFiniteSet(1..Len(s)) /\ from \in SUBSET (1..Len(s))
    BY <1>0, FS_Interval
  <2> HIDE DEF from
  <2> QED BY <2>1, FS_Subset
<1> HIDE DEF g, from, to
<1>6. g \in Bijection(from, to)
  BY <1>2, <1>3, <1>4 DEF Bijection, Injection, Surjection, IsInjective
<1>7. Cardinality(to) = Cardinality(from)
  BY <1>5, <1>6, FS_Bijection DEF ExistsBijection
<1>8. Count(s, p) = Cardinality(to)
  BY <1>0 DEF Count, to
<1> QED BY <1>7, <1>8 DEF from

LEMMA UpToNumber ==
    ASSUME NEW m \in Nat
    PROVE  IsFiniteSet(1..m) /\ Cardinality(1..m) = m
<1>1. 1 \in Int /\ m \in Int /\ (1 > m <=> m = 0) /\ m - 1 + 1 = m
  OBVIOUS
<1>2. IsFiniteSet(1..m) /\ Cardinality(1..m) = IF 1 > m THEN 0 ELSE m - 1 + 1
  BY <1>1, FS_Interval
<1> QED BY <1>1, <1>2

LEMMA Complement ==
    ASSUME NEW N, IsFiniteSet(N), NEW P \in SUBSET N
    PROVE  /\ IsFiniteSet(P) /\ Cardinality(P) \in Nat
           /\ IsFiniteSet(N \ P) /\ Cardinality(N \ P) = Cardinality(N) - Cardinality(P)
<1>1. IsFiniteSet(P)
  BY FS_Subset
<1>2. Cardinality(P) \in Nat
  BY <1>1, FS_CardinalityType
<1>3. IsFiniteSet(N \ P) /\ Cardinality(N \ P) = Cardinality(N) - Cardinality(N \cap P)
  BY FS_Difference
<1>4. N \cap P = P
  OBVIOUS
<1> QED BY <1>1, <1>2, <1>3, <1>4

\* If no two of the numbers up to n that are in P are neighbours, their
\* successors are other numbers, up to n + 1.
LEMMA NoNeighbours ==
    ASSUME NEW n \in Nat, NEW P \in SUBSET (1..n), \A i \in P : i + 1 \notin P
    PROVE  2 * Cardinality(P) <= n + 1
<1> DEFINE Free == (1..n + 1) \ P
           next == [i \in P |-> i + 1]
<1>1. IsFiniteSet(1..n) /\ IsFiniteSet(1..n + 1) /\ Cardinality(1..n + 1) = n + 1
  <2>1. \A m \in Nat : IsFiniteSet(1..m) /\ Cardinality(1..m) = m
    BY UpToNumber
  <2>2. n + 1 \in Nat
    OBVIOUS
  <2> QED BY <2>1, <2>2
<1>2. P \in SUBSET (1..n + 1)
  <2>1. 1..n \subseteq 1..n + 1
    OBVIOUS
  <2> QED BY <2>1, Zenon
<1>3. /\ Cardinality(P) \in Nat
      /\ IsFiniteSet(Free) /\ Cardinality(Free) = Cardinality(1..n + 1) - Cardinality(P)
  BY <1>1, <1>2, Complement, Zenon
<1>4. next \in [P -> Free] /\ \A i, j \in P : next[i] = next[j] => i = j
  OBVIOUS
<1> HIDE DEF next, Free
<1>5. next \in Injection(P, Free)
  BY <1>4 DEF Injection, IsInjective
<1>6. Cardinality(P) <= Cardinality(Free)
  BY <1>3, <1>5, FS_Injection
<1> QED BY <1>1, <1>3, <1>6

LEMMA ReinterleaveRefusesRightly ==
    ASSUME NEW s \in Seq(Cells), ~Feasible(s), NEW f \in Bijection(DOMAIN s, DOMAIN s)
    PROVE  ~Apart([i \in DOMAIN s |-> s[f[i]]])
<1> DEFINE t == [i \in DOMAIN s |-> s[f[i]]]
<1> SUFFICES ASSUME Apart(t) PROVE FALSE
  OBVIOUS
<1>0. Len(s) \in Nat /\ DOMAIN s = 1..Len(s)
  OBVIOUS
<1>1. Len(t) = Len(s) /\ \A i \in 1..Len(s) : t[i] = s[f[i]]
  <2>1. \A i \in DOMAIN s : f[i] \in DOMAIN s
    BY DEF Bijection, Injection
  <2>2. t \in [1..Len(s) -> Cells]
    BY <1>0, <2>1
  <2>3. Len(t) = Len(s)
    <3> HIDE DEF t
    <3> QED BY <1>0, <2>2, IsASeq
  <2> QED BY <1>0, <2>3
<1> HIDE DEF t
<1>2. PICK p \in Providers : ~(2 * Count(s, p) <= Len(s) + 1)
  BY DEF Feasible
<1> DEFINE P == {i \in 1..Len(s) : ProviderOf[s[f[i]]] = p}
<1>3. ASSUME NEW i \in P PROVE i + 1 \notin P
  <2> SUFFICES ASSUME i + 1 \in P PROVE FALSE
    OBVIOUS
  <2>1. i \in 1..Len(s) - 1 /\ i \in 1..Len(s) /\ i + 1 \in 1..Len(s)
    BY <1>0
  <2>2. ProviderOf[t[i]] # ProviderOf[t[i + 1]]
    BY <1>1, <2>1 DEF Apart
  <2> QED BY <1>1, <2>1, <2>2
<1>4. 2 * Cardinality(P) <= Len(s) + 1
  <2>1. P \in SUBSET (1..Len(s)) /\ \A i \in P : i + 1 \notin P
    BY <1>3
  <2> HIDE DEF P
  <2> QED BY <1>0, <2>1, NoNeighbours
<1>5. Cardinality(P) = Count(s, p)
  BY RearrangedCount
<1> QED BY <1>2, <1>4, <1>5

\* reinterleave_cells, "Guarantee: consecutive cells always differ in provider,
\* iff a perfect interleave is feasible", and "Job preservation", for every lane.
THEOREM ReinterleaveKeepsItsPromise ==
    \A s \in Seq(Cells) :
        IF Feasible(s)
        THEN ToBag(ReinterleaveCells(s)) = ToBag(s) /\ Apart(ReinterleaveCells(s))
        ELSE \A f \in Bijection(DOMAIN s, DOMAIN s) : ~Apart([i \in DOMAIN s |-> s[f[i]]])
<1> SUFFICES ASSUME NEW s \in Seq(Cells)
    PROVE  IF Feasible(s)
           THEN ToBag(ReinterleaveCells(s)) = ToBag(s) /\ Apart(ReinterleaveCells(s))
           ELSE \A f \in Bijection(DOMAIN s, DOMAIN s) : ~Apart([i \in DOMAIN s |-> s[f[i]]])
  OBVIOUS
<1>1. CASE Feasible(s)
  BY <1>1, ReinterleaveDraws, ReinterleaveKeepsCells
<1>2. CASE ~Feasible(s)
  BY <1>2, ReinterleaveRefusesRightly
<1> QED BY <1>1, <1>2

\* What the run asks of the lanes up to MaxLane cells.
THEOREM LanesAreSpread == Spec => []ReinterleaveSpreads
<1>1. BoundedSeq(Cells, MaxLane) \subseteq Seq(Cells)
  BY QueueAssumption DEF BoundedSeq, SeqOf
<1>2. ReinterleaveSpreads
  BY <1>1, ReinterleaveKeepsItsPromise DEF ReinterleaveSpreads
<1> QED BY <1>2, PTL

-----------------------------------------------------------------------------
(* The invariant.  Its parts: what the state is made of, what the slots of *)
(* a worker say of where it is, the slots in use, and where the cells are. *)

WorkerState == [at : Points, cell : Cells \cup {NoCell}, denials : 0..MaxDenials, slots : SUBSET Scopes]
FillState   == [at : {"off", "select", "read", "delete", "push", "weave"}, weave : BOOLEAN,
                old : Seq(Cells), new : Seq(Cells), todo : Seq(Cells)]

\* A worker that executes a cell holds a slot of both scopes of it.
Sound(r) ==
    /\ r \in WorkerState
    /\ r.cell = NoCell <=> r.at \in {"off", "idle"}
    /\ r.at \in {"off", "idle", "denied"} => r.slots = {}
    /\ r.at \in {"idle", "popped"} => r.denials < MaxDenials
    /\ r.at = "popped" => r.slots \subseteq {"fleet"}
    /\ r.at = "admitted" => r.slots = {"fleet", ProviderOf[r.cell]}
WorkersSound == worker \in [Workers -> WorkerState] /\ \A w \in Workers : Sound(worker[w])

LanesTyped ==
    /\ main \in Seq(Cells) /\ batch \in Seq(Cells) /\ dead \in Seq(Cells)
    /\ results \subseteq Cells
    /\ reorder = <<>> \/ \E s \in Seq(Cells) : reorder = <<s>>
    /\ inHand = <<>> \/ \E c \in Cells : inHand = <<c>>

FillTyped ==
    /\ fill \in FillState
    /\ fill.at \in {"push", "weave"} => fill.todo # <<>>

Holders(s) == {w \in Workers : s \in worker[w].slots}
SlotsFit ==
    /\ stray \in [Scopes -> Nat]
    /\ \A s \in Scopes : Cardinality(Holders(s)) + stray[s] <= CapOf(s)

\* The cells that are in no place and that no rewrite left out.
Missing == owed \ (Kept \cup Woven \cup Held \cup overwritten)

Inv == LanesTyped /\ WorkersSound /\ FillTyped /\ SlotsFit

\* A step of one worker.
LEMMA WorkerMoves ==
    ASSUME WorkersSound, NEW w \in Workers, NEW r, Sound(r), worker' = [worker EXCEPT ![w] = r]
    PROVE  WorkersSound'
<1>1. r \in WorkerState
  BY DEF Sound
<1>2. /\ worker' \in [Workers -> WorkerState] /\ worker'[w] = r
      /\ \A v \in Workers : v # w => worker'[v] = worker[v]
  BY <1>1 DEF WorkersSound
<1>3. ASSUME NEW v \in Workers PROVE Sound(worker'[v])
  BY <1>2 DEF WorkersSound
<1> QED BY <1>2, <1>3 DEF WorkersSound, Sound, WorkerState

\* It changes how many hold a slot of a scope by its own slots alone.
LEMMA HoldersMove ==
    ASSUME WorkersSound, NEW w \in Workers, NEW r, worker' = [worker EXCEPT ![w] = r], NEW s
    PROVE  /\ Cardinality(Holders(s)) \in Nat /\ Cardinality(Holders(s)') \in Nat
           /\ (s \in r.slots <=> s \in worker[w].slots) =>
                  Cardinality(Holders(s)') = Cardinality(Holders(s))
           /\ s \in r.slots /\ s \notin worker[w].slots =>
                  Cardinality(Holders(s)') = Cardinality(Holders(s)) + 1
           /\ s \notin r.slots /\ s \in worker[w].slots =>
                  Cardinality(Holders(s)') = Cardinality(Holders(s)) - 1
<1> DEFINE H == Holders(s)
           K == Holders(s)'
<1>1. worker'[w] = r /\ \A v \in Workers : v # w => worker'[v] = worker[v]
  BY DEF WorkersSound
<1>2. K = IF s \in r.slots THEN H \cup {w} ELSE H \ {w}
  BY <1>1 DEF Holders
<1>3. w \in H <=> s \in worker[w].slots
  BY DEF Holders
<1>4. IsFiniteSet(H)
  BY QueueAssumption, FS_Subset DEF Holders
<1> HIDE DEF H, K
<1>5. /\ IsFiniteSet(H \cup {w}) /\ Cardinality(H \cup {w}) = IF w \in H THEN Cardinality(H) ELSE Cardinality(H) + 1
      /\ IsFiniteSet(H \ {w}) /\ Cardinality(H \ {w}) = IF w \in H THEN Cardinality(H) - 1 ELSE Cardinality(H)
  BY <1>4, FS_AddElement, FS_RemoveElement
<1>6. Cardinality(H) \in Nat /\ IsFiniteSet(K)
  BY <1>2, <1>4, <1>5, FS_CardinalityType
<1>7. Cardinality(K) \in Nat
  BY <1>6, FS_CardinalityType
<1>8. /\ Cardinality(H) \in Nat /\ Cardinality(K) \in Nat
      /\ (s \in r.slots <=> s \in worker[w].slots) => Cardinality(K) = Cardinality(H)
      /\ s \in r.slots /\ s \notin worker[w].slots => Cardinality(K) = Cardinality(H) + 1
      /\ s \notin r.slots /\ s \in worker[w].slots => Cardinality(K) = Cardinality(H) - 1
  BY <1>2, <1>3, <1>5, <1>6, <1>7
<1> QED BY <1>8 DEF H, K

\* Slots that are given back, or become stray, leave the caps kept.
LEMMA SlotsReturn ==
    ASSUME WorkersSound, SlotsFit, NEW w \in Workers, NEW r, worker' = [worker EXCEPT ![w] = r],
           r.slots \subseteq worker[w].slots, stray' \in [Scopes -> Nat],
           \A s \in Scopes : \/ stray'[s] = stray[s]
                             \/ stray'[s] = stray[s] + 1 /\ s \in worker[w].slots \ r.slots
    PROVE  SlotsFit'
<1> SUFFICES ASSUME NEW s \in Scopes PROVE Cardinality(Holders(s)') + stray'[s] <= CapOf(s)
  BY DEF SlotsFit, CapOf
<1>1. /\ stray[s] \in Nat /\ stray'[s] \in Nat /\ CapOf(s) \in Nat
      /\ Cardinality(Holders(s)) + stray[s] <= CapOf(s)
  BY QueueAssumption DEF SlotsFit, CapOf
<1>2. /\ Cardinality(Holders(s)) \in Nat /\ Cardinality(Holders(s)') \in Nat
      /\ (s \in r.slots <=> s \in worker[w].slots) => Cardinality(Holders(s)') = Cardinality(Holders(s))
      /\ s \notin r.slots /\ s \in worker[w].slots => Cardinality(Holders(s)') = Cardinality(Holders(s)) - 1
  BY HoldersMove
<1> QED BY <1>1, <1>2

\* What a worker is answerable for.
LEMMA HeldMoves ==
    ASSUME WorkersSound, NEW w \in Workers, NEW r, worker' = [worker EXCEPT ![w] = r]
    PROVE  /\ Held \subseteq Held' \cup {worker[w].cell}
           /\ worker[w].at \notin Holding => Held \subseteq Held'
           /\ r.at \in Holding => r.cell \in Held'
<1>1. worker'[w] = r /\ \A v \in Workers : v # w => worker'[v] = worker[v]
  BY DEF WorkersSound
<1>2. ASSUME NEW v \in Workers, worker[v].at \in Holding, v # w PROVE worker[v].cell \in Held'
  BY <1>1, <1>2 DEF Held
<1>3. r.at \in Holding => r.cell \in Held'
  BY <1>1 DEF Held
<1> QED BY <1>2, <1>3 DEF Held

LEMMA PushKeeps ==
    ASSUME LanesTyped, NEW c \in Cells, Push(c)
    PROVE  /\ main' \in Seq(Cells) /\ batch' \in Seq(Cells)
           /\ Range(main') \cup Range(batch') = Range(main) \cup Range(batch) \cup {c}
<1>1. /\ Append(main, c) \in Seq(Cells) /\ Range(Append(main, c)) = Range(main) \cup {c}
      /\ Append(batch, c) \in Seq(Cells) /\ Range(Append(batch, c)) = Range(batch) \cup {c}
  BY RangeOfAppend DEF LanesTyped
<1> QED BY <1>1 DEF Push, LanesTyped

LEMMA TakeKeeps ==
    ASSUME LanesTyped, Take
    PROVE  /\ main' \in Seq(Cells) /\ batch' \in Seq(Cells) /\ Popped \in Cells
           /\ Range(main') \cup Range(batch') \cup {Popped} = Range(main) \cup Range(batch)
<1>1. CASE main # <<>>
  <2>1. /\ Head(main) \in Cells /\ Tail(main) \in Seq(Cells)
        /\ Range(main) = {Head(main)} \cup Range(Tail(main))
    BY <1>1, RangeOfTail DEF LanesTyped
  <2> QED BY <1>1, <2>1 DEF Take, Popped, LanesTyped
<1>2. CASE main = <<>>
  <2>1. /\ Head(batch) \in Cells /\ Tail(batch) \in Seq(Cells)
        /\ Range(batch) = {Head(batch)} \cup Range(Tail(batch))
    BY <1>2, RangeOfTail DEF LanesTyped, Take
  <2> QED BY <1>2, <2>1 DEF Take, Popped, LanesTyped
<1> QED BY <1>1, <1>2

LEMMA InHandTyped ==
    ASSUME LanesTyped
    PROVE  /\ inHand \in Seq(Cells)
           /\ inHand # <<>> => Head(inHand) \in Cells /\ Range(inHand) = {Head(inHand)}
           /\ Range(<<>>) = {}
<1>1. \A c : <<c>> # <<>> /\ Head(<<c>>) = c /\ Range(<<c>>) = {c}
  BY DEF Range
<1>2. Range(<<>>) = {}
  BY DEF Range
<1>3. CASE inHand = <<>>
  BY <1>2, <1>3
<1>4. CASE inHand # <<>>
  <2>1. PICK c \in Cells : inHand = <<c>>
    BY <1>4 DEF LanesTyped
  <2> QED BY <1>1, <1>2, <2>1
<1> QED BY <1>3, <1>4

\* A step that no worker takes and that changes no slot.
LEMMA WorkersRest ==
    ASSUME WorkersSound, SlotsFit, UNCHANGED <<worker, stray>>
    PROVE  WorkersSound' /\ SlotsFit' /\ Held' = Held
BY DEF WorkersSound, SlotsFit, Held, Holders, Sound, CapOf

-----------------------------------------------------------------------------
(* Every step of a fill keeps the invariant.                               *)

WovenBy(f) == IF f.at = "weave" THEN Range(f.todo) ELSE {}

LEMMA PushingKeeps ==
    ASSUME NEW f \in FillState
    PROVE  /\ Pushing(f) \in FillState
           /\ Pushing(f).at \in {"push", "weave"} => Pushing(f).todo # <<>>
           /\ WovenBy(Pushing(f)) = WovenBy(f)
<1>1. NoFill \in FillState /\ NoFill.at = "off"
  BY DEF NoFill, FillState
<1>2. Range(<<>>) = {}
  BY DEF Range
<1> QED BY <1>1, <1>2 DEF Pushing, WovenBy

\* The command takes a step: its state, and what it is about to weave.
LEMMA FillMoves ==
    ASSUME NEW f \in FillState, fill' = Pushing(f)
    PROVE  FillTyped' /\ Woven' = WovenBy(f)
BY PushingKeeps DEF FillTyped, Woven, WovenBy

LEMMA FillBeginKeeps ==
    ASSUME Inv, NEW plan \in Matrix, NEW missingOnly \in BOOLEAN, NEW weave \in BOOLEAN,
           FillBegin(plan, missingOnly, weave)
    PROVE  Inv' /\ Missing' \subseteq Missing
<1> DEFINE new == IF missingOnly THEN Only(plan, Cells \ results) ELSE plan
           f   == [NoFill EXCEPT !.at = IF missingOnly THEN "select" ELSE IF weave THEN "read" ELSE "push",
                                 !.weave = weave, !.new = new, !.todo = new]
<1>1. plan \in Seq(Cells)
  BY QueueAssumption
<1>2. new \in Seq(Cells)
  BY <1>1, OnlySelects
<1>3. f \in FillState /\ f.at # "weave"
  <2> HIDE DEF new
  <2>1. NoFill \in FillState
    BY DEF NoFill, FillState
  <2> DEFINE at == IF missingOnly THEN "select" ELSE IF weave THEN "read" ELSE "push"
  <2>2. at \in {"select", "read", "push"}
    OBVIOUS
  <2> HIDE DEF at
  <2>3. [NoFill EXCEPT !.at = at, !.weave = weave, !.new = new, !.todo = new] \in FillState
    BY <1>2, <2>1, <2>2 DEF FillState
  <2>4. [NoFill EXCEPT !.at = at, !.weave = weave, !.new = new, !.todo = new].at = at
    BY <2>1 DEF FillState
  <2> QED BY <2>2, <2>3, <2>4 DEF at
<1>4. fill' = Pushing(f)
  BY DEF FillBegin
<1> HIDE DEF f
<1>5. FillTyped' /\ Woven' = {}
  BY <1>3, <1>4, FillMoves DEF WovenBy
<1>6. fill.at = "off" /\ UNCHANGED <<lanes, dead, results, worker, stray, reorder, inHand, owed, overwritten>>
  BY DEF FillBegin
<1>7. LanesTyped' /\ Kept' = Kept /\ Woven = {}
  BY <1>6 DEF Inv, LanesTyped, Kept, Woven, lanes
<1>8. WorkersSound' /\ SlotsFit' /\ Held' = Held
  BY <1>6, WorkersRest DEF Inv
<1> QED BY <1>5, <1>6, <1>7, <1>8 DEF Inv, Missing

LEMMA FillSelectKeeps ==
    ASSUME Inv, FillSelect
    PROVE  Inv' /\ Missing' \subseteq Missing
<1> DEFINE new == Only(fill.new, Cells \ (Range(main) \cup Range(batch)))
           f   == [fill EXCEPT !.at = IF fill.weave THEN "read" ELSE "push", !.new = new, !.todo = new]
<1>1. fill \in FillState /\ fill.new \in Seq(Cells)
  BY DEF Inv, FillTyped, FillState
<1>2. new \in Seq(Cells)
  BY <1>1, OnlySelects
<1>3. f \in FillState /\ f.at # "weave"
  <2> HIDE DEF new
  <2> QED BY <1>1, <1>2 DEF FillState
<1>4. fill' = Pushing(f)
  BY DEF FillSelect
<1> HIDE DEF f
<1>5. FillTyped' /\ Woven' = {}
  BY <1>3, <1>4, FillMoves DEF WovenBy
<1>6. fill.at = "select" /\ UNCHANGED <<lanes, dead, results, worker, stray, reorder, inHand, owed, overwritten>>
  BY DEF FillSelect, FillOnly
<1>7. LanesTyped' /\ Kept' = Kept /\ Woven = {}
  BY <1>6 DEF Inv, LanesTyped, Kept, Woven, lanes
<1>8. WorkersSound' /\ SlotsFit' /\ Held' = Held
  BY <1>6, WorkersRest DEF Inv
<1> QED BY <1>5, <1>6, <1>7, <1>8 DEF Inv, Missing

LEMMA FillReadKeeps ==
    ASSUME Inv, FillRead
    PROVE  Inv' /\ Missing' \subseteq Missing
<1>1. /\ fill.at = "read" /\ fill' = [fill EXCEPT !.at = "delete", !.old = main]
      /\ UNCHANGED <<lanes, dead, results, worker, stray, reorder, inHand, owed, overwritten>>
  BY DEF FillRead, FillOnly
<1>2. FillTyped' /\ Woven' = {} /\ Woven = {}
  BY <1>1 DEF Inv, LanesTyped, FillTyped, FillState, Woven
<1>3. LanesTyped' /\ Kept' = Kept
  BY <1>1 DEF Inv, LanesTyped, Kept, lanes
<1>4. WorkersSound' /\ SlotsFit' /\ Held' = Held
  BY <1>1, WorkersRest DEF Inv
<1> QED BY <1>1, <1>2, <1>3, <1>4 DEF Inv, Missing

\* What the lane loses is read, and about to be pushed again, or forfeited.
LEMMA FillDeleteKeeps ==
    ASSUME Inv, FillDelete
    PROVE  Inv' /\ Missing' \subseteq Missing
<1> DEFINE todo == InterleaveCells(fill.old \o fill.new)
           f    == [fill EXCEPT !.at = "weave", !.todo = todo]
<1>1. fill \in FillState /\ fill.old \in Seq(Cells) /\ fill.new \in Seq(Cells)
  BY DEF Inv, FillTyped, FillState
<1>2. todo \in Seq(Cells) /\ Range(todo) = Range(fill.old) \cup Range(fill.new)
  <2>1. /\ fill.old \o fill.new \in Seq(Cells)
        /\ Range(fill.old \o fill.new) = Range(fill.old) \cup Range(fill.new)
    BY <1>1, RangeOfConcat
  <2> QED BY <2>1, InterleaveKeepsCells
<1> HIDE DEF todo
<1>3. f \in FillState /\ WovenBy(f) = Range(todo)
  BY <1>1, <1>2 DEF FillState, WovenBy
<1>4. fill' = Pushing(f)
  BY DEF FillDelete, todo
<1> HIDE DEF f
<1>5. FillTyped' /\ Woven' = Range(fill.old) \cup Range(fill.new)
  BY <1>2, <1>3, <1>4, FillMoves
<1>6. /\ fill.at = "delete" /\ main' = <<>> /\ owed' = owed
      /\ overwritten' = overwritten \cup (Range(main) \ Range(fill.old))
      /\ UNCHANGED <<batch, dead, results, worker, stray, reorder, inHand>>
  BY DEF FillDelete, FillOnly, Overwrite
<1>7. LanesTyped' /\ Kept \subseteq Kept' \cup Range(main) /\ Woven = {}
  BY <1>6 DEF Inv, LanesTyped, Kept, Woven
<1>8. WorkersSound' /\ SlotsFit' /\ Held' = Held
  BY <1>6, WorkersRest DEF Inv
<1> QED BY <1>5, <1>6, <1>7, <1>8 DEF Inv, Missing

LEMMA FillWeaveKeeps ==
    ASSUME Inv, FillWeave
    PROVE  Inv' /\ Missing' \subseteq Missing
<1> DEFINE c == Head(fill.todo)
           f == [fill EXCEPT !.todo = Tail(@)]
<1>1. /\ fill.at = "weave" /\ main' = Append(main, c) /\ owed' = owed \cup {c} /\ overwritten' = overwritten \ {c} /\ fill' = Pushing(f)
      /\ UNCHANGED <<batch, dead, results, worker, stray, reorder, inHand>>
  BY DEF FillWeave, FillOnly, Owe
<1>2. fill \in FillState /\ fill.todo \in Seq(Cells) /\ fill.todo # <<>>
  BY <1>1 DEF Inv, FillTyped, FillState
<1>3. c \in Cells /\ Tail(fill.todo) \in Seq(Cells) /\ Range(fill.todo) = {c} \cup Range(Tail(fill.todo))
  BY <1>2, RangeOfTail
<1> HIDE DEF c
<1>4. f \in FillState /\ WovenBy(f) = Range(Tail(fill.todo))
  BY <1>1, <1>2, <1>3 DEF FillState, WovenBy
<1> HIDE DEF f
<1>5. FillTyped' /\ Woven' = Range(Tail(fill.todo)) /\ Woven = {c} \cup Woven'
  BY <1>1, <1>3, <1>4, FillMoves DEF Woven
<1>6. main' \in Seq(Cells) /\ Range(main') = Range(main) \cup {c}
  BY <1>1, <1>3, RangeOfAppend DEF Inv, LanesTyped
<1>7. LanesTyped' /\ Kept' = Kept \cup {c}
  BY <1>1, <1>6 DEF Inv, LanesTyped, Kept
<1>8. WorkersSound' /\ SlotsFit' /\ Held' = Held
  BY <1>1, WorkersRest DEF Inv
<1> QED BY <1>1, <1>5, <1>7, <1>8 DEF Inv, Missing

LEMMA FillPushKeeps ==
    ASSUME Inv, FillPush
    PROVE  Inv' /\ Missing' \subseteq Missing
<1> DEFINE c == Head(fill.todo)
           f == [fill EXCEPT !.todo = Tail(@)]
<1>1. /\ fill.at = "push" /\ Push(c) /\ owed' = owed \cup {c} /\ overwritten' = overwritten \ {c} /\ fill' = Pushing(f)
      /\ UNCHANGED <<dead, results, worker, stray, reorder, inHand>>
  BY DEF FillPush, FillOnly, Owe
<1>2. fill \in FillState /\ fill.todo \in Seq(Cells) /\ fill.todo # <<>>
  BY <1>1 DEF Inv, FillTyped, FillState
<1>3. c \in Cells /\ Tail(fill.todo) \in Seq(Cells)
  BY <1>2, RangeOfTail
<1> HIDE DEF c
<1>4. f \in FillState /\ WovenBy(f) = {}
  BY <1>1, <1>2, <1>3 DEF FillState, WovenBy
<1> HIDE DEF f
<1>5. FillTyped' /\ Woven' = {} /\ Woven = {}
  BY <1>1, <1>4, FillMoves DEF Woven
<1>6. /\ main' \in Seq(Cells) /\ batch' \in Seq(Cells)
      /\ Range(main') \cup Range(batch') = Range(main) \cup Range(batch) \cup {c}
  BY <1>1, <1>3, PushKeeps DEF Inv
<1>7. LanesTyped' /\ Kept' = Kept \cup {c}
  BY <1>1, <1>6 DEF Inv, LanesTyped, Kept
<1>8. WorkersSound' /\ SlotsFit' /\ Held' = Held
  BY <1>1, WorkersRest DEF Inv
<1> QED BY <1>1, <1>5, <1>7, <1>8 DEF Inv, Missing

LEMMA FillDiesKeeps ==
    ASSUME Inv, FillDies
    PROVE  Inv' /\ Missing' \subseteq Missing
<1>1. /\ fill' = NoFill /\ owed' = owed /\ overwritten' = overwritten \cup Woven
      /\ UNCHANGED <<lanes, dead, results, worker, stray, reorder, inHand>>
  BY DEF FillDies, FillOnly, Overwrite, Woven
<1>2. FillTyped' /\ Woven' = {}
  BY <1>1 DEF FillTyped, FillState, NoFill, Woven
<1>3. LanesTyped' /\ Kept' = Kept
  BY <1>1 DEF Inv, LanesTyped, Kept, lanes
<1>4. WorkersSound' /\ SlotsFit' /\ Held' = Held
  BY <1>1, WorkersRest DEF Inv
<1> QED BY <1>1, <1>2, <1>3, <1>4 DEF Inv, Missing

LEMMA ClearKeeps ==
    ASSUME Inv, Clear
    PROVE  Inv' /\ Missing' \subseteq Missing
<1>1. /\ main' = <<>> /\ batch' = <<>> /\ owed' = owed \ (Range(main) \cup Range(batch))
      /\ overwritten' = overwritten
      /\ UNCHANGED <<dead, results, worker, stray, fill, reorder, inHand>>
  BY DEF Clear, Forfeit
<1>2. FillTyped' /\ Woven' = Woven
  BY <1>1 DEF Inv, FillTyped, FillState, Woven
<1>3. LanesTyped' /\ Kept \subseteq Kept' \cup Range(main) \cup Range(batch)
  BY <1>1 DEF Inv, LanesTyped, Kept
<1>4. WorkersSound' /\ SlotsFit' /\ Held' = Held
  BY <1>1, WorkersRest DEF Inv
<1> QED BY <1>1, <1>2, <1>3, <1>4 DEF Inv, Missing

-----------------------------------------------------------------------------
(* Every step of a worker keeps the invariant.                             *)

\* The records a worker's steps lead to.
LEMMA SoundRecords ==
    /\ Sound(Off)
    /\ \A r : Sound(r) /\ r.at = "idle" => \A c \in Cells :
          Sound([r EXCEPT !.at = "popped", !.cell = c])
    /\ \A r : Sound(r) /\ r.at = "popped" =>
          /\ r.slots = {} => Sound([r EXCEPT !.slots = {"fleet"}])
          /\ r.slots # {} => Sound([r EXCEPT !.slots = {"fleet", ProviderOf[r.cell]}, !.at = "admitted", !.denials = 0])
          /\ Sound([r EXCEPT !.at = "denied", !.slots = {}, !.denials = @ + 1])
    /\ \A r : Sound(r) /\ r.at \in {"denied", "ended"} /\ r.denials # MaxDenials =>
          Sound([r EXCEPT !.at = "idle", !.cell = NoCell, !.slots = {}])
    /\ \A r : Sound(r) /\ r.cell # NoCell => \A at \in {"failing", "refiling", "ended"} :
          Sound([r EXCEPT !.at = at])
<1>0. MaxDenials \in Nat \ {0} /\ NoCell \notin Cells /\ \A c \in Cells : ProviderOf[c] \in Scopes
  BY QueueAssumption DEF Scopes, Providers
<1>1. Sound(Off)
  BY <1>0 DEF Sound, Off, WorkerState, Points
<1>2. ASSUME NEW r, Sound(r), r.at = "idle", NEW c \in Cells
      PROVE  Sound([r EXCEPT !.at = "popped", !.cell = c])
  BY <1>0, <1>2 DEF Sound, WorkerState, Points
<1>3. ASSUME NEW r, Sound(r), r.at = "popped"
      PROVE  /\ r.slots = {} => Sound([r EXCEPT !.slots = {"fleet"}])
             /\ r.slots # {} => Sound([r EXCEPT !.slots = {"fleet", ProviderOf[r.cell]}, !.at = "admitted", !.denials = 0])
             /\ Sound([r EXCEPT !.at = "denied", !.slots = {}, !.denials = @ + 1])
  <2>1. r \in WorkerState /\ r.cell \in Cells /\ "fleet" \in Scopes /\ ProviderOf[r.cell] \in Scopes
    BY <1>0, <1>3 DEF Sound, WorkerState, Scopes
  <2>2. Sound([r EXCEPT !.slots = {"fleet"}])
    BY <1>3, <2>1 DEF Sound, WorkerState
  <2>3. Sound([r EXCEPT !.slots = {"fleet", ProviderOf[r.cell]}, !.at = "admitted", !.denials = 0])
    <3> DEFINE q == [r EXCEPT !.slots = {"fleet", ProviderOf[r.cell]}, !.at = "admitted", !.denials = 0]
    <3>0. 0 \in 0..MaxDenials /\ {"fleet", ProviderOf[r.cell]} \in SUBSET Scopes
      BY <1>0, <2>1
    <3>1. q \in WorkerState
      <4> DEFINE both == {"fleet", ProviderOf[r.cell]}
      <4> HIDE DEF both
      <4>1. [r EXCEPT !.slots = both, !.at = "admitted", !.denials = 0] \in WorkerState
        BY <2>1, <3>0 DEF both, WorkerState, Points
      <4> QED BY <4>1 DEF both
    <3>2. q.at = "admitted" /\ q.cell = r.cell /\ q.slots = {"fleet", ProviderOf[r.cell]}
      BY <2>1 DEF WorkerState
    <3> HIDE DEF q
    <3>3. Sound(q)
      BY <1>0, <2>1, <3>1, <3>2 DEF Sound
    <3> QED BY <3>3 DEF q
  <2>4. Sound([r EXCEPT !.at = "denied", !.slots = {}, !.denials = @ + 1])
    <3> DEFINE q == [r EXCEPT !.at = "denied", !.slots = {}, !.denials = @ + 1]
    <3>1. r.denials + 1 \in 0..MaxDenials
      BY <1>0, <1>3, <2>1 DEF Sound, WorkerState
    <3>2. q \in WorkerState
      BY <2>1, <3>1 DEF WorkerState, Points
    <3>3. q.at = "denied" /\ q.cell = r.cell /\ q.slots = {}
      BY <2>1 DEF WorkerState
    <3> HIDE DEF q
    <3>4. Sound(q)
      BY <1>0, <2>1, <3>2, <3>3 DEF Sound
    <3> QED BY <3>4 DEF q
  <2> QED BY <2>2, <2>3, <2>4
<1>4. ASSUME NEW r, Sound(r), r.at \in {"denied", "ended"}, r.denials # MaxDenials
      PROVE  Sound([r EXCEPT !.at = "idle", !.cell = NoCell, !.slots = {}])
  <2> DEFINE q == [r EXCEPT !.at = "idle", !.cell = NoCell, !.slots = {}]
  <2>1. r \in WorkerState /\ r.denials < MaxDenials
    BY <1>0, <1>4 DEF Sound, WorkerState
  <2>2. q \in WorkerState
    BY <2>1 DEF WorkerState, Points
  <2>3. q.at = "idle" /\ q.cell = NoCell /\ q.slots = {} /\ q.denials = r.denials
    BY <2>1 DEF WorkerState
  <2> HIDE DEF q
  <2>4. Sound(q)
    BY <2>1, <2>2, <2>3 DEF Sound
  <2> QED BY <2>4 DEF q
<1>5. ASSUME NEW r, Sound(r), r.cell # NoCell, NEW at \in {"failing", "refiling", "ended"}
      PROVE  Sound([r EXCEPT !.at = at])
  BY <1>5 DEF Sound, WorkerState, Points
<1> QED BY <1>1, <1>2, <1>3, <1>4, <1>5

LEMMA LanesRest ==
    ASSUME LanesTyped, UNCHANGED <<lanes, dead, results, reorder, inHand>>
    PROVE  LanesTyped' /\ Kept' = Kept
BY DEF LanesTyped, Kept, lanes

LEMMA FillRests ==
    ASSUME FillTyped, UNCHANGED fill
    PROVE  FillTyped' /\ Woven' = Woven
BY DEF FillTyped, FillState, Woven

\* A worker moves on and takes no slot.
LEMMA WorkerStep ==
    ASSUME Inv, NEW w \in Workers, NEW r, Sound(r), worker' = [worker EXCEPT ![w] = r],
           r.slots \subseteq worker[w].slots,
           UNCHANGED stray, UNCHANGED fill
    PROVE  /\ WorkersSound' /\ SlotsFit' /\ FillTyped' /\ Woven' = Woven
           /\ Held \subseteq Held' \cup {worker[w].cell}
           /\ worker[w].at \notin Holding => Held \subseteq Held'
           /\ r.at \in Holding => r.cell \in Held'
<1>1. WorkersSound /\ SlotsFit /\ FillTyped /\ stray \in [Scopes -> Nat]
  BY DEF Inv, SlotsFit
<1>2. WorkersSound'
  BY <1>1, WorkerMoves
<1>3. SlotsFit'
  <2>1. stray' \in [Scopes -> Nat] /\ \A s \in Scopes : stray'[s] = stray[s]
    BY <1>1
  <2> QED BY <1>1, <2>1, SlotsReturn
<1>4. FillTyped' /\ Woven' = Woven
  BY <1>1, FillRests
<1> QED BY <1>1, <1>2, <1>3, <1>4, HeldMoves

LEMMA StartKeeps ==
    ASSUME Inv, NEW w \in Workers, Start(w)
    PROVE  Inv' /\ Missing' \subseteq Missing
<1> DEFINE r == [Off EXCEPT !.at = "idle"]
<1>1. /\ worker[w].at = "off" /\ worker' = [worker EXCEPT ![w] = r]
      /\ UNCHANGED <<fill, reorder, inHand, lanes, dead, results, stray, owed, overwritten>>
  BY DEF Start, Elsewhere
<1>2. Sound(r) /\ r.slots = {}
  <2>1. r.at = "idle" /\ r.cell = NoCell /\ r.denials = 0 /\ r.slots = {}
    BY DEF Off
  <2>2. Off \in WorkerState
    BY SoundRecords DEF Sound
  <2>3. r \in WorkerState
    BY <2>2 DEF WorkerState, Points
  <2>4. 0 < MaxDenials
    BY QueueAssumption
  <2> HIDE DEF r
  <2> QED BY <2>1, <2>3, <2>4 DEF Sound
<1> HIDE DEF r
<1>3. /\ WorkersSound' /\ SlotsFit' /\ FillTyped' /\ Woven' = Woven /\ Held \subseteq Held'
  BY <1>1, <1>2, WorkerStep DEF Holding
<1>4. LanesTyped' /\ Kept' = Kept
  BY <1>1, LanesRest DEF Inv
<1> QED BY <1>1, <1>3, <1>4 DEF Inv, Missing

LEMMA PopKeeps ==
    ASSUME Inv, NEW w \in Workers, Pop(w)
    PROVE  Inv' /\ Missing' \subseteq Missing
<1> DEFINE r == [worker[w] EXCEPT !.at = "popped", !.cell = Popped]
<1>1. /\ worker[w].at = "idle" /\ Take
      /\ UNCHANGED <<fill, reorder, inHand, dead, results, stray, owed, overwritten>>
  BY DEF Pop, Elsewhere
<1>2. worker' = [worker EXCEPT ![w] = r]
  BY DEF Pop
<1>3. /\ main' \in Seq(Cells) /\ batch' \in Seq(Cells) /\ Popped \in Cells
      /\ Range(main') \cup Range(batch') \cup {Popped} = Range(main) \cup Range(batch)
  BY <1>1, TakeKeeps DEF Inv
<1>4. Sound(worker[w]) /\ worker[w] \in WorkerState
  BY DEF Inv, WorkersSound
<1>5. Sound(r)
  BY <1>1, <1>3, <1>4, SoundRecords
<1>6. r.at = "popped" /\ r.cell = Popped /\ r.slots = worker[w].slots
  BY <1>4 DEF WorkerState
<1> HIDE DEF r
<1>7. /\ WorkersSound' /\ SlotsFit' /\ FillTyped' /\ Woven' = Woven
      /\ Held \subseteq Held' /\ Popped \in Held'
  BY <1>1, <1>2, <1>5, <1>6, WorkerStep DEF Holding
<1>8. LanesTyped' /\ Kept \subseteq Kept' \cup {Popped}
  BY <1>1, <1>3 DEF Inv, LanesTyped, Kept
<1> QED BY <1>1, <1>7, <1>8 DEF Inv, Missing

LEMMA PopLostKeeps ==
    ASSUME Inv, NEW w \in Workers, PopLost(w)
    PROVE  Inv' /\ Missing' \subseteq Missing \cup {Popped}
<1>1. /\ Take
      /\ UNCHANGED <<fill, reorder, inHand, dead, results, worker, stray, owed, overwritten>>
  BY DEF PopLost, Elsewhere
<1>2. /\ main' \in Seq(Cells) /\ batch' \in Seq(Cells) /\ Popped \in Cells
      /\ Range(main') \cup Range(batch') \cup {Popped} = Range(main) \cup Range(batch)
  BY <1>1, TakeKeeps DEF Inv
<1>3. LanesTyped' /\ Kept \subseteq Kept' \cup {Popped}
  BY <1>1, <1>2 DEF Inv, LanesTyped, Kept
<1>4. WorkersSound' /\ SlotsFit' /\ Held' = Held
  BY <1>1, WorkersRest DEF Inv
<1>5. FillTyped' /\ Woven' = Woven
  BY <1>1, FillRests DEF Inv
<1> QED BY <1>1, <1>3, <1>4, <1>5 DEF Inv, Missing

LEMMA ExitKeeps ==
    ASSUME Inv, NEW w \in Workers, Exit(w)
    PROVE  Inv' /\ Missing' \subseteq Missing
<1>1. /\ worker[w].at = "idle" /\ worker' = [worker EXCEPT ![w] = Off]
      /\ UNCHANGED <<fill, reorder, inHand, lanes, dead, results, stray, owed, overwritten>>
  BY DEF Exit, Elsewhere
<1>2. Sound(Off) /\ Off.slots = {}
  BY SoundRecords DEF Off
<1>3. /\ WorkersSound' /\ SlotsFit' /\ FillTyped' /\ Woven' = Woven /\ Held \subseteq Held'
  BY <1>1, <1>2, WorkerStep DEF Holding
<1>4. LanesTyped' /\ Kept' = Kept
  BY <1>1, LanesRest DEF Inv
<1> QED BY <1>1, <1>3, <1>4 DEF Inv, Missing

\* The one step that takes a slot: there is room for it.
LEMMA ReserveKeeps ==
    ASSUME Inv, NEW w \in Workers, Reserve(w)
    PROVE  Inv' /\ Missing' \subseteq Missing
<1> DEFINE old == worker[w]
           new == Wanted(w)
           r   == IF old.slots = {} THEN [old EXCEPT !.slots = {"fleet"}]
                  ELSE [old EXCEPT !.slots = {"fleet", ProviderOf[old.cell]}, !.at = "admitted", !.denials = 0]
<1>1. /\ old.at = "popped" /\ Fits(new)
      /\ UNCHANGED <<fill, reorder, inHand, lanes, dead, results, stray, owed, overwritten>>
  BY DEF Reserve, Elsewhere
<1>2. Sound(old) /\ old \in WorkerState /\ worker \in [Workers -> WorkerState]
  BY DEF Inv, WorkersSound
<1>3. /\ old.slots = {} \/ old.slots = {"fleet"}
      /\ ProviderOf[old.cell] \in Providers /\ ProviderOf[old.cell] # "fleet"
  BY <1>1, <1>2, QueueAssumption DEF Sound, WorkerState, Providers
<1>4. /\ new = IF old.slots = {} THEN "fleet" ELSE ProviderOf[old.cell]
      /\ new \in Scopes /\ new \notin old.slots
  BY <1>3 DEF Wanted, Scopes
<1>5. worker' = [worker EXCEPT ![w] = [old EXCEPT !.slots = @ \cup {new},
                                                  !.at = IF new = "fleet" THEN @ ELSE "admitted",
                                                  !.denials = IF new = "fleet" THEN @ ELSE 0]]
  BY DEF Reserve
<1>6. worker' = [worker EXCEPT ![w] = r]
  <2>1. CASE old.slots = {}
    <3>1. new = "fleet" /\ old.slots \cup {new} = {"fleet"}
      BY <1>4, <2>1
    <3>2. [old EXCEPT !.slots = @ \cup {new}, !.at = IF new = "fleet" THEN @ ELSE "admitted",
                      !.denials = IF new = "fleet" THEN @ ELSE 0] = r
      BY <1>2, <2>1, <3>1 DEF WorkerState
    <3> QED BY <1>5, <3>2
  <2>2. CASE old.slots # {}
    <3>1. new # "fleet" /\ old.slots \cup {new} = {"fleet", ProviderOf[old.cell]}
      BY <1>3, <1>4, <2>2
    <3>2. [old EXCEPT !.slots = @ \cup {new}, !.at = IF new = "fleet" THEN @ ELSE "admitted",
                      !.denials = IF new = "fleet" THEN @ ELSE 0] = r
      BY <1>2, <2>2, <3>1 DEF WorkerState
    <3> QED BY <1>5, <3>2
  <2> QED BY <2>1, <2>2
<1>7. Sound(r)
  BY <1>1, <1>2, SoundRecords
<1>8. r.at \in Holding /\ r.cell = old.cell /\ r.slots = old.slots \cup {new}
  BY <1>1, <1>2, <1>3, <1>4 DEF WorkerState, Holding
<1> HIDE DEF r, new
<1>9. WorkersSound' /\ Held \subseteq Held'
  BY <1>6, <1>7, <1>8, WorkerMoves, HeldMoves DEF Inv
<1>10. SlotsFit'
  <2>1. stray' = stray /\ stray \in [Scopes -> Nat]
    BY <1>1 DEF Inv, SlotsFit
  <2>2. ASSUME NEW s \in Scopes PROVE Cardinality(Holders(s)') + stray[s] <= CapOf(s)
    <3>1. /\ stray[s] \in Nat /\ CapOf(s) \in Nat /\ Cardinality(Holders(s)) + stray[s] <= CapOf(s)
      BY QueueAssumption DEF Inv, SlotsFit, CapOf
    <3>2. /\ Cardinality(Holders(s)) \in Nat
          /\ s # new => Cardinality(Holders(s)') = Cardinality(Holders(s))
          /\ s = new => Cardinality(Holders(s)') = Cardinality(Holders(s)) + 1
      BY <1>4, <1>6, <1>8, HoldersMove DEF Inv
    <3>3. s = new => Cardinality(Holders(s)) + stray[s] + 1 <= CapOf(s)
      BY <1>1 DEF Fits, Used, Holders
    <3> QED BY <3>1, <3>2, <3>3
  <2> QED BY <2>1, <2>2 DEF SlotsFit, CapOf
<1>11. LanesTyped' /\ Kept' = Kept
  BY <1>1, LanesRest DEF Inv
<1>12. FillTyped' /\ Woven' = Woven
  BY <1>1, FillRests DEF Inv
<1> QED BY <1>1, <1>9, <1>10, <1>11, <1>12 DEF Inv, Missing

\* A denied worker has given its slots back; one that it could not give back,
\* or that was reserved without an answer, is stray.
LEMMA DeniedKeeps ==
    ASSUME Inv, NEW w \in Workers, Denied(w)
    PROVE  Inv' /\ Missing' \subseteq Missing
<1> DEFINE old == worker[w]
           r   == [old EXCEPT !.at = "denied", !.slots = {}, !.denials = @ + 1]
<1>1. /\ old.at = "popped"
      /\ UNCHANGED <<fill, reorder, inHand, lanes, dead, results, owed, overwritten>>
  BY DEF Denied, Elsewhere
<1>2. worker' = [worker EXCEPT ![w] = r]
  BY DEF Denied
<1>3. Sound(old) /\ old \in WorkerState
  BY DEF Inv, WorkersSound
<1>4. Sound(r) /\ r.at \in Holding /\ r.cell = old.cell /\ r.slots = {}
  BY <1>1, <1>3, SoundRecords DEF WorkerState, Holding
<1> HIDE DEF r
<1>5. WorkersSound' /\ Held \subseteq Held'
  BY <1>1, <1>2, <1>4, WorkerMoves, HeldMoves DEF Inv, Holding
<1>6. SlotsFit'
  <2>0. stray \in [Scopes -> Nat] /\ WorkersSound /\ SlotsFit
    BY DEF Inv, SlotsFit
  <2>1. CASE UNCHANGED stray
    <3>1. stray' \in [Scopes -> Nat] /\ \A s \in Scopes : stray'[s] = stray[s]
      BY <2>0, <2>1
    <3> QED BY <1>2, <1>4, <2>0, <3>1, SlotsReturn
  <2>2. CASE \E s \in old.slots : stray' = [stray EXCEPT ![s] = @ + 1]
    <3>1. PICK z \in old.slots : stray' = [stray EXCEPT ![z] = @ + 1]
      BY <2>2
    <3>2. z \in Scopes
      BY <1>3 DEF WorkerState
    <3>3. /\ stray' \in [Scopes -> Nat]
          /\ \A s \in Scopes : stray'[s] = stray[s] \/ (stray'[s] = stray[s] + 1 /\ s \in old.slots \ r.slots)
      BY <1>4, <2>0, <3>1, <3>2
    <3> QED BY <1>2, <1>4, <2>0, <3>3, SlotsReturn
  <2>3. CASE Fits(Wanted(w)) /\ stray' = [stray EXCEPT ![Wanted(w)] = @ + 1]
    <3> DEFINE z == Wanted(w)
    <3>1. z \in Scopes
      BY <1>1, <1>3, QueueAssumption DEF Wanted, Sound, WorkerState, Scopes, Providers
    <3>2. Cardinality(Holders(z)) + stray[z] + 1 <= CapOf(z)
      BY <2>3 DEF Fits, Used, Holders
    <3>3. stray' \in [Scopes -> Nat] /\ \A s \in Scopes : stray'[s] = IF s = z THEN stray[s] + 1 ELSE stray[s]
      BY <2>0, <2>3, <3>1
    <3> HIDE DEF z
    <3>4. ASSUME NEW s \in Scopes PROVE Cardinality(Holders(s)') + stray'[s] <= CapOf(s)
      <4>1. /\ stray[s] \in Nat /\ CapOf(s) \in Nat /\ Cardinality(Holders(s)) + stray[s] <= CapOf(s)
        BY <2>0, QueueAssumption DEF SlotsFit, CapOf
      <4>2. /\ Cardinality(Holders(s)) \in Nat /\ Cardinality(Holders(s)') \in Nat
            /\ \/ Cardinality(Holders(s)') = Cardinality(Holders(s))
               \/ Cardinality(Holders(s)') = Cardinality(Holders(s)) - 1
        <5>1. /\ Cardinality(Holders(s)) \in Nat /\ Cardinality(Holders(s)') \in Nat
              /\ (s \in r.slots <=> s \in worker[w].slots) =>
                     Cardinality(Holders(s)') = Cardinality(Holders(s))
              /\ s \notin r.slots /\ s \in worker[w].slots =>
                     Cardinality(Holders(s)') = Cardinality(Holders(s)) - 1
          BY <1>2, <2>0, HoldersMove
        <5> QED BY <1>4, <5>1
      <4> QED BY <3>2, <3>3, <4>1, <4>2
    <3> QED BY <3>3, <3>4 DEF SlotsFit, CapOf
  <2> QED BY <2>1, <2>2, <2>3 DEF Denied, Unwind
<1>7. LanesTyped' /\ Kept' = Kept
  BY <1>1, LanesRest DEF Inv
<1>8. FillTyped' /\ Woven' = Woven
  BY <1>1, FillRests DEF Inv
<1> QED BY <1>1, <1>5, <1>6, <1>7, <1>8 DEF Inv, Missing

\* The end of the loop's turn.
BackTo(r) == IF r.denials = MaxDenials THEN Off ELSE [r EXCEPT !.at = "idle", !.cell = NoCell, !.slots = {}]

LEMMA BackIsSound ==
    ASSUME NEW w \in Workers, Sound(worker[w]), worker[w].at \in {"denied", "ended"}, Back(w)
    PROVE  /\ worker' = [worker EXCEPT ![w] = BackTo(worker[w])]
           /\ Sound(BackTo(worker[w])) /\ BackTo(worker[w]).slots = {}
<1>1. worker[w] \in WorkerState
  BY DEF Sound
<1>2. worker' = [worker EXCEPT ![w] = BackTo(worker[w])]
  BY DEF Back, BackTo
<1>3. Sound(BackTo(worker[w]))
  BY SoundRecords DEF BackTo
<1>4. BackTo(worker[w]).slots = {}
  BY <1>1 DEF BackTo, Off, WorkerState
<1> QED BY <1>2, <1>3, <1>4

LEMMA RequeueKeeps ==
    ASSUME Inv, NEW w \in Workers, Requeue(w)
    PROVE  Inv' /\ Missing' \subseteq Missing
<1> DEFINE c == worker[w].cell
           r == BackTo(worker[w])
<1>1. /\ worker[w].at = "denied" /\ Push(c) /\ Back(w)
      /\ UNCHANGED <<fill, reorder, inHand, dead, results, stray, owed, overwritten>>
  BY DEF Requeue, PushBack, Elsewhere
<1>2. Sound(worker[w]) /\ c \in Cells
  BY <1>1 DEF Inv, WorkersSound, Sound, WorkerState
<1>3. worker' = [worker EXCEPT ![w] = r] /\ Sound(r) /\ r.slots = {}
  BY <1>1, <1>2, BackIsSound
<1> HIDE DEF r
<1>4. /\ WorkersSound' /\ SlotsFit' /\ FillTyped' /\ Woven' = Woven /\ Held \subseteq Held' \cup {c}
  BY <1>1, <1>3, WorkerStep
<1>5. /\ main' \in Seq(Cells) /\ batch' \in Seq(Cells)
      /\ Range(main') \cup Range(batch') = Range(main) \cup Range(batch) \cup {c}
  BY <1>1, <1>2, PushKeeps DEF Inv
<1>6. LanesTyped' /\ Kept' = Kept \cup {c}
  BY <1>1, <1>5 DEF Inv, LanesTyped, Kept
<1> QED BY <1>1, <1>4, <1>6 DEF Inv, Missing

\* The steps that only move the worker to another point, its cell in hand.
LEMMA GotoKeeps ==
    ASSUME Inv, NEW w \in Workers, NEW at \in {"failing", "refiling", "ended"},
           worker[w].at \notin {"off", "idle"}, Goto(w, at), UNCHANGED <<stray, fill>>
    PROVE  /\ WorkersSound' /\ SlotsFit' /\ FillTyped' /\ Woven' = Woven
           /\ worker[w].cell \in Cells
           /\ Held \subseteq Held' \cup {worker[w].cell}
           /\ worker[w].at \notin Holding => Held \subseteq Held'
           /\ at # "ended" => worker[w].cell \in Held'
<1> DEFINE old == worker[w]
           r   == [old EXCEPT !.at = at]
<1>1. worker' = [worker EXCEPT ![w] = r]
  BY DEF Goto
<1>2. Sound(old) /\ old \in WorkerState /\ old.cell # NoCell
  BY DEF Inv, WorkersSound, Sound
<1>3. Sound(r) /\ r.at = at /\ r.cell = old.cell /\ r.slots = old.slots /\ old.cell \in Cells
  BY <1>2, SoundRecords DEF WorkerState
<1> HIDE DEF r
<1> QED BY <1>1, <1>3, WorkerStep DEF Holding

LEMMA RequeueFailsKeeps ==
    ASSUME Inv, NEW w \in Workers, RequeueFails(w)
    PROVE  Inv' /\ Missing' \subseteq Missing
<1> DEFINE c == worker[w].cell
<1>1. /\ worker[w].at = "denied" /\ (UNCHANGED lanes \/ Push(c)) /\ Goto(w, "failing")
      /\ UNCHANGED <<fill, reorder, inHand, dead, results, stray, owed, overwritten>>
  BY DEF RequeueFails, PushBack, Elsewhere
<1>2. /\ WorkersSound' /\ SlotsFit' /\ FillTyped' /\ Woven' = Woven
      /\ c \in Cells /\ Held \subseteq Held'
  BY <1>1, GotoKeeps
<1>3. /\ main' \in Seq(Cells) /\ batch' \in Seq(Cells)
      /\ Range(main) \cup Range(batch) \subseteq Range(main') \cup Range(batch')
  <2>1. CASE UNCHANGED lanes
    BY <2>1 DEF Inv, LanesTyped, lanes
  <2>2. CASE Push(c)
    BY <1>2, <2>2, PushKeeps DEF Inv
  <2> QED BY <1>1, <2>1, <2>2
<1>4. LanesTyped' /\ Kept \subseteq Kept'
  BY <1>1, <1>3 DEF Inv, LanesTyped, Kept
<1> QED BY <1>1, <1>2, <1>4 DEF Inv, Missing

\* The registry is away: the cell is about to be filed.
LEMMA NoRegistryKeeps ==
    ASSUME Inv, NEW w \in Workers, NoRegistry(w)
    PROVE  Inv' /\ Missing' \subseteq Missing
<1>1. /\ worker[w].at = "popped" /\ Goto(w, "failing")
      /\ UNCHANGED <<fill, reorder, inHand, lanes, dead, results, stray, owed, overwritten>>
  BY DEF NoRegistry, Elsewhere
<1>2. /\ WorkersSound' /\ SlotsFit' /\ FillTyped' /\ Woven' = Woven /\ Held \subseteq Held'
  BY <1>1, GotoKeeps
<1>3. LanesTyped' /\ Kept' = Kept
  BY <1>1, LanesRest DEF Inv
<1> QED BY <1>1, <1>2, <1>3 DEF Inv, Missing

LEMMA FinishKeeps ==
    ASSUME Inv, NEW w \in Workers, Finish(w)
    PROVE  Inv' /\ Missing' \subseteq Missing
<1> DEFINE c == worker[w].cell
<1>1. PICK at \in {"failing", "ended"} :
        Goto(w, at) /\ owed' = IF at = "ended" THEN owed \ {c} ELSE owed
  <2>1. PICK done \in BOOLEAN : /\ Goto(w, IF done THEN "ended" ELSE "failing")
                                /\ owed' = IF done THEN owed \ {c} ELSE owed
    BY DEF Finish
  <2> QED BY <2>1
<1>2. /\ worker[w].at = "admitted" /\ results' \subseteq results \cup {c}
      /\ UNCHANGED <<fill, reorder, inHand, lanes, dead, stray, overwritten>>
  BY DEF Finish, Elsewhere
<1>3. /\ WorkersSound' /\ SlotsFit' /\ FillTyped' /\ Woven' = Woven
      /\ c \in Cells /\ Held \subseteq Held' \cup {c}
      /\ at # "ended" => c \in Held'
  BY <1>1, <1>2, GotoKeeps
<1>4. LanesTyped' /\ Kept' = Kept
  BY <1>2, <1>3 DEF Inv, LanesTyped, Kept, lanes
<1> QED BY <1>1, <1>2, <1>3, <1>4 DEF Inv, Missing

LEMMA FileKeeps ==
    ASSUME Inv, NEW w \in Workers, File(w)
    PROVE  Inv' /\ Missing' \subseteq Missing
<1> DEFINE c == worker[w].cell
<1>1. /\ worker[w].at \in {"failing", "refiling"} /\ dead' = Append(dead, c) /\ Goto(w, "ended")
      /\ UNCHANGED <<fill, reorder, inHand, lanes, results, stray, owed, overwritten>>
  BY DEF File, Filed, Elsewhere
<1>2. /\ WorkersSound' /\ SlotsFit' /\ FillTyped' /\ Woven' = Woven
      /\ c \in Cells /\ Held \subseteq Held' \cup {c}
  BY <1>1, GotoKeeps
<1>3. dead' \in Seq(Cells) /\ Range(dead') = Range(dead) \cup {c}
  BY <1>1, <1>2, RangeOfAppend DEF Inv, LanesTyped
<1>4. LanesTyped' /\ Kept' = Kept \cup {c}
  BY <1>1, <1>3 DEF Inv, LanesTyped, Kept, lanes
<1> QED BY <1>1, <1>2, <1>4 DEF Inv, Missing

LEMMA FileFailsKeeps ==
    ASSUME Inv, NEW w \in Workers, FileFails(w)
    PROVE  Inv' /\ Missing' \subseteq Missing \cup {worker[w].cell}
<1> DEFINE c  == worker[w].cell
           at == IF worker[w].at = "failing" THEN "refiling" ELSE "ended"
<1>1. /\ worker[w].at \in {"failing", "refiling"} /\ dead' \in {dead, Append(dead, c)} /\ Goto(w, at)
      /\ UNCHANGED <<fill, reorder, inHand, lanes, results, stray, owed, overwritten>>
  BY DEF FileFails, Elsewhere
<1>2. /\ WorkersSound' /\ SlotsFit' /\ FillTyped' /\ Woven' = Woven
      /\ c \in Cells /\ Held \subseteq Held' \cup {c}
      /\ worker[w].at = "failing" => c \in Held'
  BY <1>1, GotoKeeps
<1>3. dead' \in Seq(Cells) /\ Range(dead) \subseteq Range(dead')
  <2>1. Append(dead, c) \in Seq(Cells) /\ Range(Append(dead, c)) = Range(dead) \cup {c}
    BY <1>2, RangeOfAppend DEF Inv, LanesTyped
  <2> QED BY <1>1, <2>1 DEF Inv, LanesTyped
<1>4. LanesTyped' /\ Kept \subseteq Kept'
  BY <1>1, <1>3 DEF Inv, LanesTyped, Kept, lanes
<1> QED BY <1>1, <1>2, <1>4 DEF Inv, Missing

LEMMA ReleaseKeeps ==
    ASSUME Inv, NEW w \in Workers, Release(w)
    PROVE  Inv' /\ Missing' \subseteq Missing
<1> DEFINE old == worker[w]
           r   == BackTo(old)
<1>1. /\ old.at = "ended" /\ Back(w)
      /\ UNCHANGED <<fill, reorder, inHand, lanes, dead, results, owed, overwritten>>
  BY DEF Release, Elsewhere
<1>2. Sound(old) /\ old.slots \subseteq Scopes
  BY DEF Inv, WorkersSound, Sound, WorkerState
<1>3. worker' = [worker EXCEPT ![w] = r] /\ Sound(r) /\ r.slots = {}
  BY <1>1, <1>2, BackIsSound
<1> HIDE DEF r
<1>4. WorkersSound' /\ Held \subseteq Held'
  BY <1>1, <1>3, WorkerMoves, HeldMoves DEF Inv, Holding
<1>5. SlotsFit'
  <2>0. stray \in [Scopes -> Nat] /\ WorkersSound /\ SlotsFit
    BY DEF Inv, SlotsFit
  <2>1. CASE UNCHANGED stray
    <3>1. stray' \in [Scopes -> Nat] /\ \A s \in Scopes : stray'[s] = stray[s]
      BY <2>0, <2>1
    <3> QED BY <1>3, <2>0, <3>1, SlotsReturn
  <2>2. CASE \E s \in old.slots : stray' = [stray EXCEPT ![s] = @ + 1]
    <3>1. PICK z \in old.slots : stray' = [stray EXCEPT ![z] = @ + 1]
      BY <2>2
    <3>2. z \in Scopes
      BY <1>2
    <3>3. /\ stray' \in [Scopes -> Nat]
          /\ \A s \in Scopes : stray'[s] = stray[s] \/ (stray'[s] = stray[s] + 1 /\ s \in old.slots \ r.slots)
      BY <1>3, <2>0, <3>1, <3>2
    <3> QED BY <1>3, <2>0, <3>3, SlotsReturn
  <2> QED BY <2>1, <2>2 DEF Release, Unwind
<1>6. LanesTyped' /\ Kept' = Kept
  BY <1>1, LanesRest DEF Inv
<1>7. FillTyped' /\ Woven' = Woven
  BY <1>1, FillRests DEF Inv
<1> QED BY <1>1, <1>4, <1>5, <1>6, <1>7 DEF Inv, Missing

\* Every slot of a worker that dies is stray, and its cell is lost with it.
LEMMA CrashKeeps ==
    ASSUME Inv, NEW w \in Workers, Crash(w)
    PROVE  Inv' /\ Missing' \subseteq Missing \cup {worker[w].cell}
<1> DEFINE old == worker[w]
<1>1. /\ worker' = [worker EXCEPT ![w] = Off]
      /\ stray' = [s \in Scopes |-> IF s \in old.slots THEN stray[s] + 1 ELSE stray[s]]
      /\ UNCHANGED <<fill, reorder, inHand, lanes, dead, results, owed, overwritten>>
  BY DEF Crash, Elsewhere
<1>2. Sound(Off) /\ Off.slots = {}
  BY SoundRecords DEF Off
<1>3. /\ WorkersSound' /\ Held \subseteq Held' \cup {old.cell}
      /\ old.at \notin Holding => Held \subseteq Held'
  BY <1>1, <1>2, WorkerMoves, HeldMoves DEF Inv
<1>4. SlotsFit'
  <2>1. stray \in [Scopes -> Nat] /\ WorkersSound /\ SlotsFit
    BY DEF Inv, SlotsFit
  <2>2. stray' \in [Scopes -> Nat]
    BY <1>1, <2>1
  <2>3. \A s \in Scopes : stray'[s] = stray[s] \/ (stray'[s] = stray[s] + 1 /\ s \in old.slots \ Off.slots)
    BY <1>1, <1>2
  <2> QED BY <1>1, <1>2, <2>1, <2>2, <2>3, SlotsReturn
<1>5. LanesTyped' /\ Kept' = Kept
  BY <1>1, LanesRest DEF Inv
<1>6. FillTyped' /\ Woven' = Woven
  BY <1>1, FillRests DEF Inv
<1> QED BY <1>1, <1>3, <1>4, <1>5, <1>6 DEF Inv, Missing

LEMMA SlotExpiresKeeps ==
    ASSUME Inv, NEW z \in Scopes, SlotExpires(z)
    PROVE  Inv' /\ Missing' \subseteq Missing
<1>1. /\ stray[z] > 0 /\ stray' = [stray EXCEPT ![z] = @ - 1]
      /\ UNCHANGED <<fill, reorder, inHand, lanes, dead, results, worker, owed, overwritten>>
  BY DEF SlotExpires, Elsewhere
<1>2. WorkersSound' /\ Held' = Held
  BY <1>1 DEF Inv, WorkersSound, Sound, Held
<1>3. SlotsFit'
  <2>1. stray \in [Scopes -> Nat]
    BY DEF Inv, SlotsFit
  <2>2. stray[z] \in Nat /\ stray[z] - 1 \in Nat
    BY <1>1, <2>1
  <2>3. /\ stray' \in [Scopes -> Nat]
        /\ \A s \in Scopes : stray'[s] = IF s = z THEN stray[s] - 1 ELSE stray[s]
    BY <1>1, <2>1, <2>2
  <2>4. ASSUME NEW s \in Scopes PROVE Cardinality(Holders(s)') + stray'[s] <= CapOf(s)
    <3>1. stray[s] \in Nat /\ CapOf(s) \in Nat /\ Cardinality(Holders(s)) + stray[s] <= CapOf(s)
      BY <2>1, QueueAssumption DEF Inv, SlotsFit, CapOf
    <3>2. Holders(s)' = Holders(s) /\ Cardinality(Holders(s)) \in Nat
      <4>1. IsFiniteSet(Holders(s))
        BY QueueAssumption, FS_Subset DEF Holders
      <4>2. Holders(s)' = Holders(s)
        BY <1>1 DEF Holders
      <4> QED BY <4>1, <4>2, FS_CardinalityType
    <3> QED BY <2>3, <3>1, <3>2
  <2> QED BY <2>3, <2>4 DEF SlotsFit, CapOf
<1>4. LanesTyped' /\ Kept' = Kept
  BY <1>1, LanesRest DEF Inv
<1>5. FillTyped' /\ Woven' = Woven
  BY <1>1, FillRests DEF Inv
<1> QED BY <1>1, <1>2, <1>3, <1>4, <1>5 DEF Inv, Missing

-----------------------------------------------------------------------------
(* Every rewrite of the lane and every operation on the dead letters keeps *)
(* the invariant.                                                          *)

LEMMA ReorderReadKeeps ==
    ASSUME Inv, ReorderRead
    PROVE  Inv' /\ Missing' \subseteq Missing
<1>1. reorder' = <<main>> /\ UNCHANGED <<main, batch, results, worker, stray, fill, dead, inHand, owed, overwritten>>
  BY DEF ReorderRead, Others
<1>2. WorkersSound' /\ SlotsFit' /\ Held' = Held
  BY <1>1, WorkersRest DEF Inv
<1>3. FillTyped' /\ Woven' = Woven
  BY <1>1, FillRests DEF Inv
<1>4. LanesTyped' /\ Kept' = Kept
  BY <1>1 DEF Inv, LanesTyped, Kept
<1> QED BY <1>1, <1>2, <1>3, <1>4 DEF Inv, Missing

\* What the transaction puts in the place of the lane are the cells it read.
LEMMA ReorderWriteKeeps ==
    ASSUME Inv, ReorderWrite
    PROVE  Inv' /\ Missing' \subseteq Missing
<1>0. PICK s \in Seq(Cells) : reorder = <<s>>
  BY DEF ReorderWrite, Inv, LanesTyped
<1>1. /\ main' = ReinterleaveCells(s) /\ reorder' = <<>>
      /\ overwritten' = overwritten \cup (Range(main) \ Range(s))
      /\ UNCHANGED <<batch, results, worker, stray, fill, dead, inHand, owed>>
  BY <1>0 DEF ReorderWrite, Others, Overwrite
<1>2. main' \in Seq(Cells) /\ Range(main') = Range(s)
  BY <1>1, ReinterleaveKeepsCells
<1>3. WorkersSound' /\ SlotsFit' /\ Held' = Held
  BY <1>1, WorkersRest DEF Inv
<1>4. FillTyped' /\ Woven' = Woven
  BY <1>1, FillRests DEF Inv
<1>5. LanesTyped' /\ Kept \subseteq Kept' \cup (Range(main) \ Range(s))
  BY <1>1, <1>2 DEF Inv, LanesTyped, Kept
<1> QED BY <1>1, <1>3, <1>4, <1>5 DEF Inv, Missing

LEMMA ReturnPopKeeps ==
    ASSUME Inv, ReturnPop
    PROVE  Inv' /\ Missing' \subseteq Missing
<1>1. /\ inHand = <<>> /\ dead # <<>> /\ inHand' = <<Head(dead)>> /\ dead' = Tail(dead)
      /\ UNCHANGED <<main, batch, results, worker, stray, fill, reorder, owed, overwritten>>
  BY DEF ReturnPop, Others
<1>2. Head(dead) \in Cells /\ Tail(dead) \in Seq(Cells) /\ Range(dead) = {Head(dead)} \cup Range(Tail(dead))
  BY <1>1, RangeOfTail DEF Inv, LanesTyped
<1>3. Range(inHand) = {} /\ Range(inHand') = {Head(dead)}
  <2>1. \A c : Range(<<c>>) = {c}
    BY DEF Range
  <2> QED BY <1>1, <2>1, InHandTyped DEF Inv
<1>4. WorkersSound' /\ SlotsFit' /\ Held' = Held
  BY <1>1, WorkersRest DEF Inv
<1>5. FillTyped' /\ Woven' = Woven
  BY <1>1, FillRests DEF Inv
<1>6. LanesTyped' /\ Kept' = Kept
  BY <1>1, <1>2, <1>3 DEF Inv, LanesTyped, Kept
<1> QED BY <1>1, <1>4, <1>5, <1>6 DEF Inv, Missing

LEMMA ReturnPushKeeps ==
    ASSUME Inv, ReturnPush
    PROVE  Inv' /\ Missing' \subseteq Missing
<1> DEFINE c == Head(inHand)
<1>1. /\ inHand # <<>> /\ main' = inHand \o main /\ owed' = owed \cup {c} /\ inHand' = <<>>
      /\ overwritten' = overwritten \ {c}
      /\ UNCHANGED <<batch, results, worker, stray, fill, dead, reorder>>
  BY DEF ReturnPush, Others, Owe
<1>2. inHand \in Seq(Cells) /\ c \in Cells /\ Range(inHand) = {c} /\ Range(<<>>) = {}
  BY <1>1, InHandTyped DEF Inv
<1>3. main' \in Seq(Cells) /\ Range(main') = {c} \cup Range(main)
  BY <1>1, <1>2, RangeOfConcat DEF Inv, LanesTyped
<1>4. WorkersSound' /\ SlotsFit' /\ Held' = Held
  BY <1>1, WorkersRest DEF Inv
<1>5. FillTyped' /\ Woven' = Woven
  BY <1>1, FillRests DEF Inv
<1>6. LanesTyped' /\ Kept' = Kept /\ c \in Kept
  BY <1>1, <1>2, <1>3 DEF Inv, LanesTyped, Kept
<1> QED BY <1>1, <1>4, <1>5, <1>6 DEF Inv, Missing

LEMMA ReturnDiesKeeps ==
    ASSUME Inv, ReturnDies
    PROVE  Inv' /\ Missing' \subseteq Missing \cup {Head(inHand)}
<1>1. /\ inHand # <<>> /\ inHand' = <<>>
      /\ UNCHANGED <<main, batch, results, worker, stray, fill, dead, reorder, owed, overwritten>>
  BY DEF ReturnDies, Others
<1>2. WorkersSound' /\ SlotsFit' /\ Held' = Held
  BY <1>1, WorkersRest DEF Inv
<1>3. FillTyped' /\ Woven' = Woven
  BY <1>1, FillRests DEF Inv
<1>4. LanesTyped' /\ Kept \subseteq Kept' \cup {Head(inHand)}
  BY <1>1, InHandTyped DEF Inv, LanesTyped, Kept
<1> QED BY <1>1, <1>2, <1>3, <1>4 DEF Inv, Missing

LEMMA TriageKeeps ==
    ASSUME Inv, Triage
    PROVE  Inv' /\ Missing' \subseteq Missing
<1>1. /\ dead' = <<>> /\ owed' = owed \ Range(dead)
      /\ UNCHANGED <<main, batch, results, worker, stray, fill, inHand, reorder, overwritten>>
  BY DEF Triage, Others, Forfeit
<1>2. WorkersSound' /\ SlotsFit' /\ Held' = Held
  BY <1>1, WorkersRest DEF Inv
<1>3. FillTyped' /\ Woven' = Woven
  BY <1>1, FillRests DEF Inv
<1>4. LanesTyped' /\ Kept \subseteq Kept' \cup Range(dead)
  BY <1>1 DEF Inv, LanesTyped, Kept
<1> QED BY <1>1, <1>2, <1>3, <1>4 DEF Inv, Missing

-----------------------------------------------------------------------------
(* The theorems.                                                           *)

LEMMA InitEstablishesInv == Init => Inv
<1> SUFFICES ASSUME Init PROVE Inv
  OBVIOUS
<1>1. Earlier \in Seq(Cells)
  BY QueueAssumption
<1>2. LanesTyped
  BY <1>1 DEF Init, LanesTyped
<1>3. WorkersSound
  BY SoundRecords DEF Init, WorkersSound, Sound
<1>4. FillTyped
  BY DEF Init, FillTyped, FillState, NoFill
<1>5. SlotsFit
  <2>1. ASSUME NEW s \in Scopes PROVE Cardinality(Holders(s)) + stray[s] <= CapOf(s)
    <3>1. Holders(s) = {}
      BY DEF Init, Holders, Off
    <3>2. Cardinality(Holders(s)) = 0 /\ stray[s] = 0
      BY <3>1, FS_EmptySet DEF Init
    <3> QED BY <3>2, QueueAssumption DEF CapOf
  <2> QED BY <2>1 DEF Init, SlotsFit
<1> QED BY <1>2, <1>3, <1>4, <1>5 DEF Inv

\* The steps that may lose a cell are failures, and they lose one.
LEMMA NextKeepsInv ==
    ASSUME Inv, [Next]_vars
    PROVE  /\ Inv'
           /\ \/ Missing' \subseteq Missing
              \/ faults' = faults + 1 /\ \E c : Missing' \subseteq Missing \cup {c}
<1>1. ASSUME Fill PROVE Inv' /\ Missing' \subseteq Missing
  BY <1>1, FillBeginKeeps, FillSelectKeeps, FillReadKeeps, FillDeleteKeeps, FillWeaveKeeps, FillPushKeeps,
     FillDiesKeeps, ClearKeeps DEF Fill
<1>2. ASSUME NEW w \in Workers, Work(w), ~FileFails(w) PROVE Inv' /\ Missing' \subseteq Missing
  BY <1>2, PopKeeps, ReserveKeeps, NoRegistryKeeps, DeniedKeeps, RequeueKeeps, RequeueFailsKeeps,
     FinishKeeps, FileKeeps, ReleaseKeeps DEF Work
<1>3. ASSUME NEW w \in Workers, Start(w) \/ Exit(w) PROVE Inv' /\ Missing' \subseteq Missing
  BY <1>3, StartKeeps, ExitKeeps
<1>4. ASSUME NEW w \in Workers, FileFails(w) \/ PopLost(w) \/ Crash(w)
      PROVE  Inv' /\ faults' = faults + 1 /\ \E c : Missing' \subseteq Missing \cup {c}
  BY <1>4, FileFailsKeeps, PopLostKeeps, CrashKeeps DEF FileFails, PopLost, Crash, Fault
<1>5. ASSUME NEW s \in Scopes, SlotExpires(s) PROVE Inv' /\ Missing' \subseteq Missing
  BY <1>5, SlotExpiresKeeps
<1>6. ASSUME ReorderRead \/ ReorderWrite \/ ReturnPop \/ ReturnPush \/ Triage
      PROVE  Inv' /\ Missing' \subseteq Missing
  BY <1>6, ReorderReadKeeps, ReorderWriteKeeps, ReturnPopKeeps, ReturnPushKeeps, TriageKeeps
<1>7. ASSUME ReturnDies
      PROVE  Inv' /\ faults' = faults + 1 /\ \E c : Missing' \subseteq Missing \cup {c}
  BY <1>7, ReturnDiesKeeps DEF ReturnDies, Fault
<1>8. CASE UNCHANGED vars
  <2>1. /\ UNCHANGED <<lanes, dead, results, reorder, inHand>> /\ UNCHANGED fill
        /\ UNCHANGED <<worker, stray>> /\ UNCHANGED <<owed, overwritten>>
    BY <1>8 DEF vars
  <2> QED BY <2>1, LanesRest, FillRests, WorkersRest DEF Inv, Missing
<1>9. CASE Next
  BY <1>1, <1>2, <1>3, <1>4, <1>5, <1>6, <1>7, <1>9 DEF Next
<1> QED BY <1>8, <1>9

LEMMA InvHolds == Spec => []Inv
<1>1. Inv /\ [Next]_vars => Inv'
  BY NextKeepsInv
<1> QED BY <1>1, InitEstablishesInv, PTL DEF Spec

\* The state stays in the sets and shapes TypeOK names.
THEOREM TypeCorrect == Spec => []TypeOK
<1>1. Inv => TypeOK
  <2> SUFFICES ASSUME Inv PROVE TypeOK
    OBVIOUS
  <2>1. /\ Range(main) \cup Range(batch) \cup Range(dead) \cup results \cup Range(inHand) \subseteq Cells
        /\ reorder # <<>> => Range(reorder[1]) \subseteq Cells
    BY RangeTyped, InHandTyped DEF Inv, LanesTyped
  <2>2. Range(fill.old) \cup Range(fill.new) \cup Range(fill.todo) \subseteq Cells
    BY RangeTyped DEF Inv, FillTyped, FillState
  <2>3. stray \in [Scopes -> Nat]
    BY DEF Inv, SlotsFit
  <2>4. ASSUME NEW w \in Workers
        PROVE  /\ worker[w].at \in Points /\ worker[w].slots \subseteq Scopes
               /\ (worker[w].cell = NoCell) = (worker[w].at \in {"off", "idle"})
               /\ worker[w].denials \in 0..MaxDenials
               /\ worker[w].at \in {"off", "idle", "denied"} => worker[w].slots = {}
               /\ worker[w].at \in {"idle", "popped"} => worker[w].denials < MaxDenials
    BY DEF Inv, WorkersSound, Sound, WorkerState
  <2> QED BY <2>1, <2>2, <2>3, <2>4 DEF TypeOK
<1> QED BY <1>1, InvHolds, PTL

\* The slots that executing cells need, with those of dead workers, are never
\* more than the caps: an executing cell is one that holds a slot of the fleet
\* and one of its provider, and only a step that finds room takes one.
THEOREM WidthStaysWithinCaps == Spec => []WidthWithinCaps
<1>1. Inv => WidthWithinCaps
  <2> SUFFICES ASSUME Inv, NEW s \in Scopes
               PROVE  Cardinality({w \in Workers : worker[w].at = "admitted" /\ s \in {"fleet", ProviderOf[worker[w].cell]}})
                          + stray[s] <= CapOf(s)
    BY DEF WidthWithinCaps
  <2> DEFINE busy == {w \in Workers : worker[w].at = "admitted" /\ s \in {"fleet", ProviderOf[worker[w].cell]}}
  <2>1. busy \in SUBSET Holders(s)
    BY DEF Inv, WorkersSound, Sound, Holders
  <2>2. IsFiniteSet(Holders(s))
    BY QueueAssumption, FS_Subset DEF Holders
  <2>3. stray[s] \in Nat /\ CapOf(s) \in Nat /\ Cardinality(Holders(s)) + stray[s] <= CapOf(s)
    BY QueueAssumption DEF Inv, SlotsFit, CapOf
  <2> HIDE DEF busy
  <2>4. IsFiniteSet(busy) /\ Cardinality(busy) <= Cardinality(Holders(s))
    BY <2>1, <2>2, FS_Subset
  <2>5. Cardinality(busy) \in Nat /\ Cardinality(Holders(s)) \in Nat
    BY <2>2, <2>4, FS_CardinalityType
  <2>6. Cardinality(busy) + stray[s] <= CapOf(s)
    BY <2>3, <2>4, <2>5
  <2> QED BY <2>6 DEF busy
<1> QED BY <1>1, InvHolds, PTL

\* As many cells are missing as have been lost, one to a failure.
Accounted == faults \in Nat /\ IsFiniteSet(Missing) /\ Cardinality(Missing) <= faults

LEMMA FailuresAreCounted ==
    ASSUME [Next]_vars
    PROVE  faults' = faults \/ faults' = faults + 1
<1> USE DEF Fault, NoFault, Command, tally
<1>1. ASSUME Fill PROVE faults' = faults \/ faults' = faults + 1
  BY <1>1 DEF Fill, FillBegin, FillSelect, FillRead, FillDelete, FillWeave, FillPush, FillDies, Clear
<1>2. ASSUME NEW w \in Workers, Start(w) \/ PopLost(w) \/ Exit(w) \/ Work(w) \/ Crash(w)
      PROVE  faults' = faults \/ faults' = faults + 1
  BY <1>2 DEF Start, PopLost, Exit, Work, Crash, Pop, Reserve, NoRegistry, Denied, Requeue, RequeueFails,
     Finish, File, FileFails, Release, Unwind
<1>3. ASSUME NEW s \in Scopes, SlotExpires(s) PROVE faults' = faults
  BY <1>3 DEF SlotExpires
<1>4. ASSUME ReorderRead \/ ReorderWrite \/ ReturnPop \/ ReturnPush \/ ReturnDies \/ Triage
      PROVE  faults' = faults \/ faults' = faults + 1
  BY <1>4 DEF ReorderRead, ReorderWrite, ReturnPop, ReturnPush, ReturnDies, Triage
<1>5. CASE UNCHANGED vars
  BY <1>5 DEF vars
<1> QED BY <1>1, <1>2, <1>3, <1>4, <1>5 DEF Next

LEMMA AccountedStep ==
    ASSUME Inv, Accounted, [Next]_vars
    PROVE  Accounted'
<1> DEFINE M == Missing
           N == Missing'
<1>0. faults \in Nat /\ IsFiniteSet(M) /\ Cardinality(M) <= faults /\ Cardinality(M) \in Nat
  BY FS_CardinalityType DEF Accounted
<1>1. faults' = faults \/ faults' = faults + 1
  BY FailuresAreCounted
<1>2. N \subseteq M \/ (faults' = faults + 1 /\ \E c : N \subseteq M \cup {c})
  BY NextKeepsInv
<1> HIDE DEF M, N
<1>3. CASE N \subseteq M
  <2>1. IsFiniteSet(N) /\ Cardinality(N) <= Cardinality(M) /\ Cardinality(N) \in Nat
    BY <1>0, <1>3, FS_Subset, FS_CardinalityType
  <2>2. faults' \in Nat /\ Cardinality(N) <= faults'
    BY <1>0, <1>1, <2>1
  <2> QED BY <2>1, <2>2 DEF Accounted, N
<1>4. CASE faults' = faults + 1 /\ \E c : N \subseteq M \cup {c}
  <2>1. PICK c : N \subseteq M \cup {c}
    BY <1>4
  <2>2. IsFiniteSet(M \cup {c}) /\ Cardinality(M \cup {c}) <= Cardinality(M) + 1
    <3>1. /\ IsFiniteSet(M \cup {c})
          /\ Cardinality(M \cup {c}) = IF c \in M THEN Cardinality(M) ELSE Cardinality(M) + 1
      BY <1>0, FS_AddElement
    <3> QED BY <1>0, <3>1
  <2>3. IsFiniteSet(N) /\ Cardinality(N) <= Cardinality(M \cup {c})
    BY <2>1, <2>2, FS_Subset
  <2>4. Cardinality(N) \in Nat /\ Cardinality(M \cup {c}) \in Nat
    BY <2>2, <2>3, FS_CardinalityType
  <2>5. faults' \in Nat /\ Cardinality(N) <= faults'
    BY <1>0, <1>4, <2>2, <2>3, <2>4
  <2> QED BY <2>3, <2>5 DEF Accounted, N
<1> QED BY <1>2, <1>3, <1>4

\* A cell that is neither done nor cleared is in a lane, among the dead letters
\* or in somebody's hands, but for at most one cell to a failure and for what a
\* rewrite of the lane dropped unread or died with: every other step, a denial,
\* a failed run, an unreachable registry, puts what it takes somewhere else.
THEOREM EachFailureCostsOneCell == Spec => []OneCellPerFailure
<1>1. Init => Accounted
  <2> SUFFICES ASSUME Init PROVE Accounted
    OBVIOUS
  <2>1. Missing = {} /\ faults = 0
    BY DEF Init, Missing, Kept
  <2> QED BY <2>1, FS_EmptySet DEF Accounted
<1>2. Inv /\ Accounted /\ [Next]_vars => Inv' /\ Accounted'
  BY AccountedStep, NextKeepsInv
<1>3. Accounted => OneCellPerFailure
  BY DEF Accounted, OneCellPerFailure, Missing
<1> QED BY <1>1, <1>2, <1>3, InitEstablishesInv, PTL DEF Spec

==============================================================================

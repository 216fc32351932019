-------------------------- MODULE FleetQueueProofs --------------------------
(***************************************************************************)
(* Theorems about FleetQueue, for any number of commands, request keys,    *)
(* dispatch threads, kills, failed calls and sweeps.                       *)
(***************************************************************************)
EXTENDS FleetQueue, FiniteSetTheorems, SequenceTheorems, TLAPS

-----------------------------------------------------------------------------
(* What the lanes' operations do to a sequence without repetitions.        *)

Distinct(s) == \A m, n \in 1..Len(s) : s[m] = s[n] => m = n

\* The range of a sequence, by its positions.
LEMMA RangeOfLane ==
    ASSUME NEW S, NEW s \in Seq(S)
    PROVE  Range(s) = {s[i] : i \in 1..Len(s)} /\ Range(s) \subseteq S
BY DEF Range

\* LPUSH of a command that is not in the lane.
LEMMA LeftPush ==
    ASSUME NEW S, NEW s \in Seq(S), NEW c \in S, c \notin Range(s), Distinct(s)
    PROVE  /\ <<c>> \o s \in Seq(S)
           /\ Distinct(<<c>> \o s)
           /\ Range(<<c>> \o s) = Range(s) \cup {c}
<1> DEFINE t == <<c>> \o s
<1>1. t \in Seq(S) /\ Len(t) = Len(s) + 1 /\ t[1] = c
  OBVIOUS
<1>2. \A i \in 1..Len(s) : t[i + 1] = s[i]
  OBVIOUS
<1>3. \A i \in 1..Len(t) : i = 1 \/ (i - 1 \in 1..Len(s) /\ t[i] = s[i - 1])
  OBVIOUS
<1> HIDE DEF t
<1>4. Range(s) = {s[i] : i \in 1..Len(s)} /\ Range(t) = {t[i] : i \in 1..Len(t)}
  BY <1>1, RangeOfLane
<1>5. Range(t) = Range(s) \cup {c}
  <2>1. ASSUME NEW e \in Range(t) PROVE e \in Range(s) \cup {c}
    BY <1>1, <1>3, <1>4
  <2>2. \A i \in 1..Len(s) : i + 1 \in 1..Len(t) /\ 1 \in 1..Len(t)
    BY <1>1
  <2>3. ASSUME NEW e \in Range(s) \cup {c} PROVE e \in Range(t)
    <3>1. CASE e = c
      BY <3>1, <1>1, <1>4
    <3>2. CASE e \in Range(s)
      <4>1. PICK i \in 1..Len(s) : e = s[i]
        BY <3>2, <1>4
      <4>2. QED
        BY <4>1, <1>2, <1>4, <2>2
    <3>3. QED
      BY <3>1, <3>2
  <2>4. QED
    BY <2>1, <2>3
<1>6. Distinct(t)
  <2>1. SUFFICES ASSUME NEW m \in 1..Len(t), NEW n \in 1..Len(t), t[m] = t[n]
                 PROVE  m = n
    BY DEF Distinct
  <2>2. \A i \in 1..Len(s) : s[i] # c
    BY <1>4
  <2>3. CASE m = 1 \/ n = 1
    BY <1>1, <1>3, <2>1, <2>2, <2>3
  <2>4. CASE m # 1 /\ n # 1
    <3>1. /\ m - 1 \in 1..Len(s) /\ n - 1 \in 1..Len(s)
          /\ s[m - 1] = s[n - 1]
      BY <1>3, <2>1, <2>4
    <3>2. QED
      BY <3>1 DEF Distinct
  <2>5. QED
    BY <2>3, <2>4
<1>7. QED
  BY <1>1, <1>5, <1>6 DEF t

\* The right end of a lane, which BLMOVE takes.
LEMMA RightEnd ==
    ASSUME NEW S, NEW s \in Seq(S), s # <<>>, Distinct(s)
    PROVE  /\ Front(s) \in Seq(S) /\ Last(s) \in S
           /\ Distinct(Front(s))
           /\ Last(s) \in Range(s) /\ Range(Front(s)) = Range(s) \ {Last(s)}
<1>1. Len(s) \in Nat \ {0} /\ Len(s) \in 1..Len(s)
  OBVIOUS
<1>2. /\ Front(s) \in Seq(S) /\ Len(Front(s)) = Len(s) - 1
      /\ \A i \in 1..(Len(s) - 1) : Front(s)[i] = s[i]
  <2>1. \A i \in 1..(Len(s) - 1) : s[i] \in S
    BY <1>1
  <2>2. /\ SubSeq(s, 1, Len(s) - 1) \in Seq(S)
        /\ Len(SubSeq(s, 1, Len(s) - 1)) = IF 1 <= Len(s) - 1 THEN (Len(s) - 1) - 1 + 1 ELSE 0
        /\ \A i \in 1..((Len(s) - 1) - 1 + 1) : SubSeq(s, 1, Len(s) - 1)[i] = s[1 + i - 1]
    BY <1>1, <2>1, SubSeqProperties
  <2> DEFINE f == SubSeq(s, 1, Len(s) - 1)
  <2>3. Front(s) = f
    BY DEF Front
  <2>4. f \in Seq(S) /\ Len(f) = IF 1 <= Len(s) - 1 THEN (Len(s) - 1) - 1 + 1 ELSE 0
    BY <2>2
  <2>5. \A i \in 1..((Len(s) - 1) - 1 + 1) : f[i] = s[1 + i - 1]
    BY <2>2
  <2> DEFINE n == Len(s)
  <2> HIDE DEF f, n
  <2>6. Len(f) = Len(s) - 1
    <3>1. n \in Nat \ {0} /\ Len(f) = IF 1 <= n - 1 THEN (n - 1) - 1 + 1 ELSE 0
      BY <1>1, <2>4 DEF n
    <3>2. Len(f) = n - 1
      BY <3>1
    <3>3. QED
      BY <3>2 DEF n
  <2>7. ASSUME NEW i \in 1..(Len(s) - 1) PROVE f[i] = s[i]
    <3>1. i \in 1..((Len(s) - 1) - 1 + 1) /\ 1 + i - 1 = i
      BY <1>1
    <3>2. QED
      BY <2>5, <3>1
  <2>8. QED
    BY <2>3, <2>4, <2>6, <2>7
<1>3. Range(s) = {s[i] : i \in 1..Len(s)} /\ Range(Front(s)) = {Front(s)[i] : i \in 1..Len(Front(s))}
  BY <1>2, RangeOfLane
<1>4. Last(s) = s[Len(s)]
  BY DEF Last
<1>5. \A i \in 1..(Len(s) - 1) : s[i] # Last(s)
  <2>1. \A i \in 1..(Len(s) - 1) : i \in 1..Len(s) /\ i # Len(s)
    BY <1>1
  <2>2. QED
    BY <1>1, <1>4, <2>1 DEF Distinct
<1>6. \A i \in 1..Len(s) : i = Len(s) \/ i \in 1..(Len(s) - 1)
  BY <1>1
<1>7. Range(Front(s)) = Range(s) \ {Last(s)}
  BY <1>1, <1>2, <1>3, <1>4, <1>5, <1>6
<1>8. Distinct(Front(s))
  BY <1>1, <1>2 DEF Distinct
<1>9. Last(s) \in S /\ Last(s) \in Range(s)
  BY <1>1, <1>3, <1>4
<1>10. QED
  BY <1>2, <1>7, <1>8, <1>9

\* RPUSH of a command that is not in the lane.
LEMMA RightPush ==
    ASSUME NEW S, NEW s \in Seq(S), NEW c \in S, c \notin Range(s), Distinct(s)
    PROVE  /\ Append(s, c) \in Seq(S)
           /\ Distinct(Append(s, c))
           /\ Range(Append(s, c)) = Range(s) \cup {c}
<1> DEFINE t == Append(s, c)
<1>1. /\ t \in Seq(S) /\ Len(s) \in Nat /\ Len(t) = Len(s) + 1 /\ t[Len(s) + 1] = c
      /\ \A i \in 1..Len(s) : t[i] = s[i]
  OBVIOUS
<1> HIDE DEF t
<1>2. Range(s) = {s[i] : i \in 1..Len(s)} /\ Range(t) = {t[i] : i \in 1..Len(t)}
  BY <1>1, RangeOfLane
<1>3. /\ Len(s) + 1 \in 1..Len(t)
      /\ \A i \in 1..Len(t) : i = Len(s) + 1 \/ i \in 1..Len(s)
      /\ \A i \in 1..Len(s) : i \in 1..Len(t)
  BY <1>1
<1>4. \A i \in 1..Len(s) : s[i] # c
  BY <1>2
<1>5. Range(t) = Range(s) \cup {c}
  <2>1. Range(t) \subseteq Range(s) \cup {c}
    BY <1>1, <1>2, <1>3
  <2>2. Range(s) \subseteq Range(t)
    BY <1>1, <1>2, <1>3
  <2>3. c \in Range(t)
    BY <1>1, <1>2, <1>3
  <2>4. QED
    BY <2>1, <2>2, <2>3
<1>6. Distinct(t)
  BY <1>1, <1>3, <1>4 DEF Distinct
<1>7. QED
  BY <1>1, <1>5, <1>6 DEF t

\* LREM of a command, one occurrence.
LEMMA LaneWithout ==
    ASSUME NEW S, NEW s \in Seq(S), NEW c, Distinct(s)
    PROVE  /\ Without(s, c) \in Seq(S)
           /\ Distinct(Without(s, c))
           /\ Range(Without(s, c)) = Range(s) \ {c}
<1>1. Range(s) = {s[i] : i \in 1..Len(s)}
  BY RangeOfLane
<1>2. CASE \A i \in 1..Len(s) : s[i] # c
  BY <1>1, <1>2 DEF Without, RemoveFirst
<1>3. CASE \E i \in 1..Len(s) : s[i] = c
  <2>1. PICK p \in 1..Len(s) : s[p] = c
    BY <1>3
  <2>2. {i \in 1..Len(s) : s[i] = c} = {p}
    BY <2>1 DEF Distinct
  <2>3. SelectInSeq(s, LAMBDA v : v = c) = p
    BY <2>2 DEF SelectInSeq, Min
  <2> DEFINE t == SubSeq(s, 1, p - 1) \o SubSeq(s, p + 1, Len(s))
  <2>4. Without(s, c) = t
    BY <1>3, <2>3 DEF Without, RemoveFirst, RemoveAt
  <2>5. /\ t \in Seq(S) /\ Len(s) \in Nat /\ Len(t) = Len(s) - 1
        /\ \A i \in 1..Len(t) : t[i] = IF i < p THEN s[i] ELSE s[i + 1]
    <3>1. /\ SubSeq(s, 1, p - 1) \in Seq(S) /\ SubSeq(s, p + 1, Len(s)) \in Seq(S)
          /\ Len(SubSeq(s, 1, p - 1)) = p - 1 /\ Len(SubSeq(s, p + 1, Len(s))) = Len(s) - p
      BY <2>1, SubSeqProperties
    <3>2. /\ \A i \in 1..(p - 1) : SubSeq(s, 1, p - 1)[i] = s[i]
          /\ \A i \in 1..(Len(s) - p) : SubSeq(s, p + 1, Len(s))[i] = s[p + i]
      BY <2>1
    <3> DEFINE a == SubSeq(s, 1, p - 1)
               b == SubSeq(s, p + 1, Len(s))
    <3> HIDE DEF a, b
    <3>a. /\ a \in Seq(S) /\ Len(a) = p - 1 /\ \A i \in 1..(p - 1) : a[i] = s[i]
          /\ b \in Seq(S) /\ Len(b) = Len(s) - p /\ \A i \in 1..(Len(s) - p) : b[i] = s[p + i]
      BY <3>1, <3>2 DEF a, b
    <3>b. t = a \o b
      BY DEF a, b
    <3>3. /\ t \in Seq(S) /\ Len(t) = (p - 1) + (Len(s) - p)
          /\ \A i \in 1..((p - 1) + (Len(s) - p)) :
                 t[i] = IF i <= p - 1 THEN a[i] ELSE b[i - (p - 1)]
      <4> HIDE DEF t
      <4>1. /\ a \o b \in Seq(S)
            /\ Len(a \o b) = Len(a) + Len(b)
            /\ \A i \in 1..(Len(a) + Len(b)) : (a \o b)[i] = IF i <= Len(a) THEN a[i] ELSE b[i - Len(a)]
        BY <3>a, ConcatProperties
      <4>2. QED
        BY <4>1, <3>a, <3>b
    <3> HIDE DEF t
    <3>4. Len(s) \in Nat /\ Len(t) = Len(s) - 1
      BY <2>1, <3>3
    <3>5. ASSUME NEW i \in 1..Len(t) PROVE t[i] = IF i < p THEN s[i] ELSE s[i + 1]
      <4>1. i \in 1..((p - 1) + (Len(s) - p))
        BY <2>1, <3>4
      <4>2. CASE i < p
        BY <2>1, <3>a, <3>3, <4>1, <4>2
      <4>3. CASE ~(i < p)
        <5>1. i - (p - 1) \in 1..(Len(s) - p) /\ p + (i - (p - 1)) = i + 1
          BY <2>1, <3>4, <4>3
        <5>2. QED
          BY <2>1, <3>a, <3>3, <4>1, <4>3, <5>1
      <4>4. QED
        BY <4>2, <4>3
    <3>6. QED
      BY <3>3, <3>4, <3>5
  <2> HIDE DEF t
  <2>6. Range(t) = {t[i] : i \in 1..Len(t)}
    BY <2>5, RangeOfLane
  <2>7. \A i \in 1..Len(t) : i \in 1..Len(s) /\ i + 1 \in 1..Len(s)
    BY <2>5
  <2>8. \A i \in 1..Len(s) : i = p \/ (i < p /\ i \in 1..Len(t)) \/ (i - 1 \in 1..Len(t) /\ ~(i - 1 < p))
    BY <2>1, <2>5
  <2>9. Range(t) \subseteq Range(s) \ {c}
    <3>1. \A i \in 1..Len(t) : i < p => i # p
      OBVIOUS
    <3>2. \A i \in 1..Len(t) : ~(i < p) => i + 1 # p
      OBVIOUS
    <3>3. SUFFICES ASSUME NEW i \in 1..Len(t) PROVE t[i] \in Range(s) /\ t[i] # c
      BY <2>6
    <3>4. \A q \in 1..Len(s) : q # p => s[q] # c
      BY <2>2
    <3>5. CASE i < p
      BY <3>5, <3>4, <1>1, <2>5, <2>7
    <3>6. CASE ~(i < p)
      BY <3>6, <3>4, <1>1, <2>1, <2>5, <2>7
    <3>7. QED
      BY <3>5, <3>6
  <2>10. Range(s) \ {c} \subseteq Range(t)
    <3>1. SUFFICES ASSUME NEW i \in 1..Len(s), s[i] # c PROVE s[i] \in Range(t)
      BY <1>1
    <3>2. CASE i < p /\ i \in 1..Len(t)
      BY <3>2, <2>5, <2>6
    <3>3. CASE i - 1 \in 1..Len(t) /\ ~(i - 1 < p)
      <4>1. t[i - 1] = s[(i - 1) + 1]
        BY <3>3, <2>5
      <4>2. QED
        BY <4>1, <3>3, <2>6
    <3>4. QED
      BY <2>1, <2>8, <3>1, <3>2, <3>3
  <2>11. Distinct(t)
    BY <2>1, <2>5, <2>7 DEF Distinct
  <2>12. QED
    BY <2>4, <2>5, <2>9, <2>10, <2>11
<1>4. QED
  BY <1>2, <1>3

\* The claims a recovery reads, and the rest of them.
LEMMA ReversedLane ==
    ASSUME NEW S, NEW s \in Seq(S), Distinct(s)
    PROVE  /\ Reverse(s) \in Seq(S) /\ Distinct(Reverse(s)) /\ Range(Reverse(s)) \subseteq Range(s)
           /\ s # <<>> => Reverse(s) # <<>>
<1>1. Reverse(s) \in Seq(S) /\ Len(Reverse(s)) = Len(s) /\ Len(s) \in Nat
  BY DEF Reverse
<1>2. \A i \in 1..Len(s) : Reverse(s)[i] = s[(Len(s) - i) + 1] /\ (Len(s) - i) + 1 \in 1..Len(s)
  BY <1>1 DEF Reverse
<1>3. Range(s) = {s[i] : i \in 1..Len(s)} /\ Range(Reverse(s)) = {Reverse(s)[i] : i \in 1..Len(s)}
  BY <1>1, RangeOfLane
<1>4. Distinct(Reverse(s))
  <2>1. SUFFICES ASSUME NEW m \in 1..Len(s), NEW n \in 1..Len(s), Reverse(s)[m] = Reverse(s)[n]
                 PROVE  m = n
    BY <1>1 DEF Distinct
  <2>2. (Len(s) - m) + 1 = (Len(s) - n) + 1
    BY <1>2, <2>1 DEF Distinct
  <2>3. QED
    BY <1>1, <2>2
<1>5. Range(Reverse(s)) \subseteq Range(s)
  BY <1>2, <1>3
<1>6. s # <<>> => Reverse(s) # <<>>
  BY <1>1
<1>7. QED
  BY <1>1, <1>4, <1>5, <1>6

LEMMA RestOfEntries ==
    ASSUME NEW S, NEW s \in Seq(S), s # <<>>, Distinct(s)
    PROVE  /\ Head(s) \in S /\ Tail(s) \in Seq(S) /\ Distinct(Tail(s))
           /\ Head(s) \in Range(s) /\ Range(Tail(s)) \subseteq Range(s) \ {Head(s)}
<1> DEFINE t == Tail(s)
<1>1. /\ t \in Seq(S) /\ Len(t) = Len(s) - 1 /\ Head(s) \in S
      /\ \A i \in 1..Len(t) : t[i] = s[i + 1]
  BY HeadTailProperties
<1>2. Len(s) \in Nat \ {0} /\ Head(s) = s[1]
  OBVIOUS
<1> HIDE DEF t
<1>3. Range(s) = {s[i] : i \in 1..Len(s)}
  BY RangeOfLane
<1>4. Range(t) = {t[i] : i \in 1..Len(t)}
  BY <1>1, RangeOfLane
<1>5. 1 \in 1..Len(s) /\ \A i \in 1..Len(t) : i + 1 \in 1..Len(s) /\ i + 1 # 1
  BY <1>1, <1>2
<1>6. \A i \in 1..Len(t) : s[i + 1] # s[1]
  BY <1>5 DEF Distinct
<1>7. Range(t) \subseteq Range(s) \ {Head(s)}
  BY <1>1, <1>2, <1>3, <1>4, <1>5, <1>6
<1>8. Distinct(t)
  <2>1. SUFFICES ASSUME NEW m \in 1..Len(t), NEW n \in 1..Len(t), t[m] = t[n] PROVE m = n
    BY DEF Distinct
  <2>2. m + 1 = n + 1
    BY <1>1, <1>5, <2>1 DEF Distinct
  <2>3. QED
    BY <1>1, <1>2, <2>2
<1>9. QED
  BY <1>1, <1>2, <1>3, <1>5, <1>7, <1>8 DEF t
-----------------------------------------------------------------------------
(* The inductive invariant.                                                *)

MainState == [at : MainPoints, command : 0..sent, entries : Seq(1..sent)]

\* The types of what is neither in a lane nor in the main thread's hands.
Rows ==
    /\ sent \in 0..MaxCommands
    /\ board \in [Jobs -> Statuses]
    /\ requests \in [Keys -> Keyed \cup {0}]
    /\ unrecorded \subseteq Bare /\ deadLetters \subseteq Jobs
    /\ started \in [Commands -> Nat]
    /\ thread \in [Commands -> Points]
    /\ swept \in Jobs \cup {0}
    /\ crashes \in 0..MaxCrashes /\ errors \in 0..MaxErrors /\ sweeps \in 0..MaxSweeps
    /\ dropped \subseteq Jobs

\* A command is in one place of one lane.
OnePlace ==
    /\ Distinct(commands) /\ Distinct(processing)
    /\ Range(commands) \cap Range(processing) = {}

LanesOK == commands \in Seq(1..sent) /\ processing \in Seq(1..sent) /\ OnePlace

Recovering == {"recover", "recFile", "recRemove"}

\* What a thread or the main thread has in hand is in the claim lane, and no
\* command is in the hands of two.
InHand ==
    /\ \A c \in Commands : thread[c] # "none" => c \in Range(processing)
    /\ wrapper.at \in {"claimed", "refused"} =>
           wrapper.command \in Range(processing) /\ thread[wrapper.command] = "none"
    /\ wrapper.at = "refused" => wrapper.command \in Jobs
    /\ wrapper.at = "inline" => wrapper.command \in Controls
    /\ \A c \in Controls : thread[c] \in {"none", "launch", "release"}

\* A recovery has the wrapper to itself, and only claims in the lane before it.
Recovery ==
    /\ wrapper.at \in Recovering \cup {"down"} => \A c \in Commands : thread[c] = "none"
    /\ wrapper.at \in Recovering =>
           /\ wrapper.entries # <<>> /\ Distinct(wrapper.entries)
           /\ Range(wrapper.entries) \subseteq Range(processing)
    /\ wrapper.at \in {"recFile", "recRemove"} => Entry \in Jobs

\* Of the submits with one key only the one fleet:requests names was pushed.
OnePushed ==
    /\ \A k \in Keys : requests[k] # 0 => KeyOf[requests[k]] = k
    /\ \A j \in Keyed : requests[KeyOf[j]] # j => started[j] = 0 /\ ~InLane(j)

\* A container was started: nothing that could start another is under way.
StartedIsOver ==
    \A j \in Keyed :
        /\ started[j] <= 1
        /\ started[j] = 1 =>
               /\ j \notin Range(commands)
               /\ board[j] \in {"running", "completed", "failed"}
               /\ thread[j] \notin {"pooled", "launch"}
               /\ wrapper.at \in {"claimed", "refused"} => wrapper.command # j
        /\ thread[j] = "launch" => board[j] \in {"running", "completed", "failed"}

\* Whoever is about to remove a claim has its row written, or has dropped it.
RowFirst ==
    /\ \A j \in Keyed :
           /\ thread[j] \in {"file", "fileRaised"} => board[j] \in Terminal
           /\ thread[j] = "release" => board[j] \in Terminal \/ j \in dropped
    /\ wrapper.at = "refused" /\ wrapper.command \in Keyed => board[wrapper.command] \in Terminal
    /\ wrapper.at \in {"recFile", "recRemove"} /\ Entry \in Keyed => board[Entry] \in Terminal

FleetInv ==
    /\ Rows /\ LanesOK /\ wrapper \in MainState /\ Cardinality(Busy) <= PoolSize
    /\ InHand /\ Recovery /\ OnePushed /\ StartedIsOver /\ RowFirst
    /\ NothingIsLost

-----------------------------------------------------------------------------
(* What each step does to the lanes, seen as sets.                         *)

Pushes(c) ==
    /\ c \notin Range(commands) /\ c \notin Range(processing)
    /\ Range(commands') = Range(commands) \cup {c} /\ processing' = processing

Claims(c) ==
    /\ c \in Range(commands) /\ c \in 1..sent
    /\ Range(commands') = Range(commands) \ {c} /\ Range(processing') = Range(processing) \cup {c}

Removes(c) == commands' = commands /\ Range(processing') = Range(processing) \ {c}

Requeues(c) ==
    /\ c \in Range(processing)
    /\ Range(commands') = Range(commands) \cup {c} /\ Range(processing') = Range(processing) \ {c}

LEMMA PushMoves ==
    ASSUME LanesOK, sent \in Nat, sent' = sent + 1, Push(sent + 1), processing' = processing
    PROVE  LanesOK' /\ Pushes(sent + 1)
<1>1. /\ commands \in Seq(1..sent + 1) /\ processing \in Seq(1..sent + 1)
      /\ sent + 1 \in 1..sent + 1 /\ sent + 1 \notin 1..sent
  <2>1. 1..sent \subseteq 1..sent + 1
    OBVIOUS
  <2>2. QED
    BY <2>1, SeqMonotonic DEF LanesOK
<1>2. Range(commands) \subseteq 1..sent /\ Range(processing) \subseteq 1..sent
  BY RangeOfLane DEF LanesOK
<1>3. /\ commands' \in Seq(1..sent + 1) /\ Distinct(commands')
      /\ Range(commands') = Range(commands) \cup {sent + 1}
  BY <1>1, <1>2, LeftPush DEF LanesOK, OnePlace, Push
<1>4. QED
  BY <1>1, <1>2, <1>3 DEF LanesOK, OnePlace, Pushes

LEMMA ClaimMoves ==
    ASSUME LanesOK, sent' = sent, commands # <<>>,
           commands' = Front(commands), processing' = Append(processing, Last(commands))
    PROVE  LanesOK' /\ Claims(Last(commands))
<1>1. /\ commands' \in Seq(1..sent) /\ Last(commands) \in 1..sent /\ Distinct(commands')
      /\ Last(commands) \in Range(commands) /\ Range(commands') = Range(commands) \ {Last(commands)}
  BY RightEnd DEF LanesOK, OnePlace
<1>2. Last(commands) \notin Range(processing)
  BY <1>1 DEF LanesOK, OnePlace
<1>3. /\ processing' \in Seq(1..sent) /\ Distinct(processing')
      /\ Range(processing') = Range(processing) \cup {Last(commands)}
  <2> DEFINE c == Last(commands)
             S == 1..sent
  <2> HIDE DEF c, S
  <2>1. processing \in Seq(S) /\ Distinct(processing)
    BY DEF LanesOK, OnePlace, S
  <2>2. c \in S /\ c \notin Range(processing) /\ processing' = Append(processing, c)
    BY <1>1, <1>2 DEF c, S
  <2>3. /\ Append(processing, c) \in Seq(S) /\ Distinct(Append(processing, c))
        /\ Range(Append(processing, c)) = Range(processing) \cup {c}
    BY <2>1, <2>2, RightPush
  <2>4. QED
    BY <2>2, <2>3 DEF c, S
<1>4. QED
  BY <1>1, <1>3 DEF LanesOK, OnePlace, Claims

LEMMA RemoveMoves ==
    ASSUME LanesOK, NEW c, sent' = sent, commands' = commands, processing' = Without(processing, c)
    PROVE  LanesOK' /\ Removes(c)
<1>1. /\ processing' \in Seq(1..sent) /\ Distinct(processing')
      /\ Range(processing') = Range(processing) \ {c}
  BY LaneWithout DEF LanesOK, OnePlace
<1>2. QED
  BY <1>1 DEF LanesOK, OnePlace, Removes

LEMMA RequeueMoves ==
    ASSUME LanesOK, NEW c \in Range(processing), sent' = sent,
           Push(c), processing' = Without(processing, c)
    PROVE  LanesOK' /\ Requeues(c)
<1>1. /\ processing' \in Seq(1..sent) /\ Distinct(processing')
      /\ Range(processing') = Range(processing) \ {c}
  BY LaneWithout DEF LanesOK, OnePlace
<1>2. c \in 1..sent /\ c \notin Range(commands)
  BY RangeOfLane DEF LanesOK, OnePlace
<1>3. /\ commands' \in Seq(1..sent) /\ Distinct(commands')
      /\ Range(commands') = Range(commands) \cup {c}
  <2> DEFINE S == 1..sent
  <2> HIDE DEF S
  <2>1. /\ commands \in Seq(S) /\ Distinct(commands) /\ commands' = <<c>> \o commands
        /\ c \in S /\ c \notin Range(commands)
    BY <1>2 DEF LanesOK, OnePlace, Push, S
  <2>2. commands' \in Seq(S) /\ Distinct(commands') /\ Range(commands') = Range(commands) \cup {c}
    BY <2>1, LeftPush
  <2>3. QED
    BY <2>2 DEF S
<1>4. QED
  BY <1>1, <1>3 DEF LanesOK, OnePlace, Requeues

\* The claim a recovery looks at, and the ones behind it.
LEMMA EntryFacts ==
    ASSUME FleetInv, wrapper.at \in Recovering
    PROVE  /\ Entry \in 1..sent /\ Entry \in Range(processing)
           /\ Tail(wrapper.entries) \in Seq(1..sent) /\ Distinct(Tail(wrapper.entries))
           /\ Range(Tail(wrapper.entries)) \subseteq Range(processing) \ {Entry}
<1>1. /\ wrapper.entries \in Seq(1..sent) /\ wrapper.entries # <<>> /\ Distinct(wrapper.entries)
      /\ Range(wrapper.entries) \subseteq Range(processing)
  BY DEF FleetInv, MainState, Recovery
<1>2. QED
  BY <1>1, RestOfEntries DEF Entry

LEMMA Moves ==
    ASSUME FleetInv
    PROVE  /\ SubmitKeyed => LanesOK' /\ (Pushes(sent + 1) \/ UNCHANGED lanes)
           /\ SubmitBare \/ SendCommand => LanesOK' /\ Pushes(sent + 1)
           /\ ClaimCommand => LanesOK' /\ Claims(Last(commands))
           /\ ClaimRaises => LanesOK' /\ (Claims(Last(commands)) \/ UNCHANGED lanes)
           /\ FileRefusal => LanesOK' /\ (Removes(Claim) \/ UNCHANGED lanes)
           /\ \A c \in Commands : Release(c) => LanesOK' /\ (Removes(c) \/ UNCHANGED lanes)
           /\ Requeue => LanesOK' /\ Requeues(Entry)
           /\ ReleaseEnded \/ RemoveRunning => LanesOK' /\ Removes(Entry)
<1>1. LanesOK /\ sent \in Nat
  BY FleetAssumption DEF FleetInv, Rows
<1>2. ASSUME UNCHANGED lanes, sent' \in {sent, sent + 1} PROVE LanesOK'
  <2>1. 1..sent \subseteq 1..sent'
    BY <1>1, <1>2
  <2>2. commands \in Seq(1..sent') /\ processing \in Seq(1..sent')
    BY <1>1, <2>1, SeqMonotonic DEF LanesOK
  <2>3. QED
    BY <1>1, <1>2, <2>2 DEF LanesOK, OnePlace, lanes
<1>3. SubmitKeyed => LanesOK' /\ (Pushes(sent + 1) \/ UNCHANGED lanes)
  <2>1. SUFFICES ASSUME SubmitKeyed PROVE LanesOK' /\ (Pushes(sent + 1) \/ UNCHANGED lanes)
    OBVIOUS
  <2>2. sent' = sent + 1 /\ processing' = processing /\ (Push(sent + 1) \/ UNCHANGED lanes)
    BY <2>1 DEF SubmitKeyed, lanes
  <2>3. QED
    BY <1>1, <1>2, <2>2, PushMoves
<1>4. SubmitBare \/ SendCommand => LanesOK' /\ Pushes(sent + 1)
  <2>1. SUFFICES ASSUME SubmitBare \/ SendCommand PROVE LanesOK' /\ Pushes(sent + 1)
    OBVIOUS
  <2>2. sent' = sent + 1 /\ Push(sent + 1) /\ processing' = processing
    BY <2>1 DEF SubmitBare, SendCommand
  <2>3. QED
    BY <1>1, <2>2, PushMoves
<1>5. ClaimCommand => LanesOK' /\ Claims(Last(commands))
  BY <1>1, ClaimMoves DEF ClaimCommand
<1>6. ClaimRaises => LanesOK' /\ (Claims(Last(commands)) \/ UNCHANGED lanes)
  <2>1. SUFFICES ASSUME ClaimRaises PROVE LanesOK' /\ (Claims(Last(commands)) \/ UNCHANGED lanes)
    OBVIOUS
  <2>2. CASE UNCHANGED lanes
    BY <1>2, <2>1, <2>2 DEF ClaimRaises
  <2>3. CASE commands # <<>> /\ commands' = Front(commands) /\ processing' = Append(processing, Last(commands))
    BY <1>1, <2>1, <2>3, ClaimMoves DEF ClaimRaises
  <2>4. QED
    BY <2>1, <2>2, <2>3 DEF ClaimRaises
<1>7. FileRefusal => LanesOK' /\ (Removes(Claim) \/ UNCHANGED lanes)
  <2>1. SUFFICES ASSUME FileRefusal PROVE LanesOK' /\ (Removes(Claim) \/ UNCHANGED lanes)
    OBVIOUS
  <2>2. /\ sent' = sent /\ commands' = commands
        /\ processing' = Without(processing, Claim) \/ processing' = processing
    BY <2>1 DEF FileRefusal, Settle
  <2>3. QED
    BY <1>1, <1>2, <2>2, RemoveMoves DEF lanes
<1>8. \A c \in Commands : Release(c) => LanesOK' /\ (Removes(c) \/ UNCHANGED lanes)
  <2>1. SUFFICES ASSUME NEW c \in Commands, Release(c) PROVE LanesOK' /\ (Removes(c) \/ UNCHANGED lanes)
    OBVIOUS
  <2>2. /\ sent' = sent /\ commands' = commands
        /\ processing' = Without(processing, c) \/ processing' = processing
    BY <2>1 DEF Release
  <2>3. QED
    BY <1>1, <1>2, <2>2, RemoveMoves DEF lanes
<1>9. wrapper.at = "recover" => Entry \in Range(processing)
  BY EntryFacts DEF Recovering
<1>10. Requeue => LanesOK' /\ Requeues(Entry)
  <2>1. SUFFICES ASSUME Requeue PROVE LanesOK' /\ Requeues(Entry)
    OBVIOUS
  <2>2. sent' = sent /\ Push(Entry) /\ processing' = Without(processing, Entry)
    BY <2>1 DEF Requeue
  <2>3. Entry \in Range(processing)
    BY <1>9, <2>1 DEF Requeue
  <2> DEFINE c == Entry
  <2> HIDE DEF c
  <2>4. LanesOK' /\ Requeues(c)
    <3>1. c \in Range(processing) /\ Push(c) /\ processing' = Without(processing, c)
      BY <2>2, <2>3 DEF c
    <3>2. QED
      BY <1>1, <2>2, <3>1, RequeueMoves
  <2>5. QED
    BY <2>4 DEF c
<1>11. ReleaseEnded \/ RemoveRunning => LanesOK' /\ Removes(Entry)
  BY <1>1, RemoveMoves DEF ReleaseEnded, RemoveRunning
<1>12. QED
  BY <1>3, <1>4, <1>5, <1>6, <1>7, <1>8, <1>10, <1>11

-----------------------------------------------------------------------------
(* Types.                                                                  *)

LEMMA KindsOfCommands ==
    /\ Keyed \subseteq Jobs /\ Bare \subseteq Jobs /\ Invalid \subseteq Jobs
    /\ Jobs \subseteq Commands /\ Controls \subseteq Commands /\ Commands = Jobs \cup Controls
    /\ Jobs \cap Controls = {} /\ Keyed \cap Bare = {} /\ Jobs = Keyed \cup Bare
    /\ Commands \subseteq Nat \ {0} /\ 0 \notin Commands
    /\ KeyOf \in [Keyed -> Keys] /\ \A s \in 0..MaxCommands : 1..s \subseteq Commands
BY FleetAssumption DEF Jobs, Commands

LEMMA RowsStep ==
    ASSUME FleetInv, Next
    PROVE  Rows'
<1>1. Rows /\ InHand /\ Recovery
  BY DEF FleetInv
<1>2. CASE \/ Restart \/ Requeue \/ ReleaseEnded \/ RemoveRunning \/ ClaimCommand
            \/ InlineEnds \/ Exit
  <2>1. UNCHANGED <<sent, board, requests, unrecorded, deadLetters, started, thread, swept, faults>>
    BY <1>2 DEF Restart, Requeue, ReleaseEnded, RemoveRunning, ClaimCommand, InlineEnds, Exit,
        lanes, faults
  <2>2. QED
    BY <1>1, <2>1 DEF Rows, faults
<1>3. CASE SubmitKeyed
  <2>1. sent + 1 \in Keyed /\ sent + 1 \in Jobs /\ KeyOf[sent + 1] \in Keys /\ sent + 1 \in 0..MaxCommands
    BY <1>3, <1>1, KindsOfCommands, FleetAssumption DEF SubmitKeyed, Rows
  <2>2. board' \in [Jobs -> Statuses]
    BY <1>3, <1>1, <2>1 DEF SubmitKeyed, Rows, Record, Statuses
  <2>3. requests' \in [Keys -> Keyed \cup {0}]
    BY <1>3, <1>1, <2>1 DEF SubmitKeyed, Rows
  <2>4. QED
    BY <1>3, <1>1, <2>1, <2>2, <2>3 DEF SubmitKeyed, Rows, faults
<1>4. CASE SubmitBare
  BY <1>4, <1>1, FleetAssumption DEF SubmitBare, Rows, faults
<1>5. CASE SendCommand
  BY <1>5, <1>1, FleetAssumption DEF SendCommand, Rows, faults
<1>6. ASSUME NEW j \in Jobs, RecordJobLaunch(j) PROVE Rows'
  BY <1>6, <1>1 DEF RecordJobLaunch, Record, Rows, Statuses, faults
<1>7. ASSUME NEW j \in Jobs, SweepReads(j) PROVE Rows'
  <2>1. sweeps' \in 0..MaxSweeps
    BY <1>7, <1>1, FleetAssumption DEF SweepReads, Rows
  <2>2. QED
    BY <1>7, <1>1, <2>1 DEF SweepReads, Rows
<1>8. CASE SweepWrites
  <2>1. board' \in [Jobs -> Statuses]
    BY <1>8, <1>1 DEF SweepWrites, Record, Rows, Statuses, Terminal
  <2>2. QED
    BY <1>8, <1>1, <2>1 DEF SweepWrites, Rows, faults
<1>9. CASE FailRunning
  <2>1. board' \in [Jobs -> Statuses]
    BY <1>9, <1>1 DEF FailRunning, Record, Rows, Statuses
  <2>2. QED
    BY <1>9, <1>1, <2>1 DEF FailRunning, Rows, faults
<1>10. CASE FileRunning
  <2>1. Entry \in Jobs
    BY <1>10, <1>1 DEF FileRunning, Recovery
  <2>2. QED
    BY <1>10, <1>1, <2>1 DEF FileRunning, Rows, faults
<1>11. CASE Refuse
  <2>1. Claim \in Jobs
    BY <1>11, KindsOfCommands DEF Refuse
  <2>2. QED
    BY <1>11, <1>1, <2>1 DEF Refuse, Record, Rows, Statuses, faults
<1>12. CASE FileRefusal
  <2>1. Claim \in Jobs
    BY <1>12, <1>1 DEF FileRefusal, InHand, Claim
  <2>2. errors' \in 0..MaxErrors
    BY <1>12, <1>1, FleetAssumption DEF FileRefusal, Rows, Raises, Raise, faults
  <2>3. QED
    BY <1>12, <1>1, <2>1, <2>2 DEF FileRefusal, Rows, Raises, Raise, faults
<1>13. CASE Accept
  <2>1. Claim \in Jobs /\ Claim \in Commands
    BY <1>13, KindsOfCommands DEF Accept
  <2>2. QED
    BY <1>13, <1>1, <2>1 DEF Accept, Record, Rows, Statuses, Points, faults
<1>14. CASE Inline
  <2>1. Claim \in Commands
    BY <1>14, KindsOfCommands DEF Inline
  <2>2. QED
    BY <1>14, <1>1, <2>1 DEF Inline, Rows, Points, faults
<1>15. CASE Crash
  <2>1. crashes' \in 0..MaxCrashes
    BY <1>15, <1>1, FleetAssumption DEF Crash, Rows
  <2>2. thread' \in [Commands -> Points]
    BY <1>15 DEF Crash, Points
  <2>3. QED
    BY <1>15, <1>1, <2>1, <2>2 DEF Crash, Rows
<1>16. CASE ClaimRaises
  <2>1. errors' \in 0..MaxErrors
    BY <1>16, <1>1, FleetAssumption DEF ClaimRaises, Rows, Raises, Raise
  <2>2. QED
    BY <1>16, <1>1, <2>1 DEF ClaimRaises, Rows, Raises, Raise
<1>17. CASE LoopRaises
  <2>1. errors' \in 0..MaxErrors
    BY <1>17, <1>1, FleetAssumption DEF LoopRaises, Rows, Raises, Raise
  <2>2. QED
    BY <1>17, <1>1, <2>1 DEF LoopRaises, Rows, Raises, Raise
<1>18. CASE RecoveryRaises
  <2>1. errors' \in 0..MaxErrors
    BY <1>18, <1>1, FleetAssumption DEF RecoveryRaises, Rows, Raises, Raise
  <2>2. QED
    BY <1>18, <1>1, <2>1 DEF RecoveryRaises, Rows, Raises, Raise
<1>19. ASSUME NEW c \in Commands, DispatchBegins(c) PROVE Rows'
  <2>1. thread' \in [Commands -> Points]
    BY <1>19, <1>1 DEF DispatchBegins, Goto, Rows, Points
  <2>2. board' \in [Jobs -> Statuses]
    BY <1>19, <1>1 DEF DispatchBegins, Record, Rows, Statuses
  <2>3. QED
    BY <1>19, <1>1, <2>1, <2>2 DEF DispatchBegins, Rows, faults
<1>20. ASSUME NEW c \in Commands, BrokerStarts(c) PROVE Rows'
  <2>1. thread' \in [Commands -> Points]
    BY <1>20, <1>1 DEF BrokerStarts, Goto, Rows, Points
  <2>2. started' \in [Commands -> Nat]
    BY <1>20, <1>1 DEF BrokerStarts, Rows
  <2>3. QED
    BY <1>20, <1>1, <2>1, <2>2 DEF BrokerStarts, Rows, faults
<1>21. ASSUME NEW c \in Commands, BrokerDeclines(c) PROVE Rows'
  BY <1>21, <1>1 DEF BrokerDeclines, Goto, Rows, Points, faults
<1>22. ASSUME NEW c \in Commands, BrokerReturns(c) PROVE Rows'
  BY <1>22, <1>1 DEF BrokerReturns, Goto, Rows, Points, faults
<1>23. ASSUME NEW c \in Commands, RecordOutcome(c) PROVE Rows'
  <2>1. thread' \in [Commands -> Points]
    BY <1>23, <1>1 DEF RecordOutcome, Goto, Rows, Points
  <2>2. board' \in [Jobs -> Statuses]
    BY <1>23, <1>1 DEF RecordOutcome, Record, Rows, Statuses
  <2>3. QED
    BY <1>23, <1>1, <2>1, <2>2 DEF RecordOutcome, Rows, faults
<1>24. ASSUME NEW c \in Commands, RecordDead(c) PROVE Rows'
  <2>1. c \in Jobs
    BY <1>24, <1>1, KindsOfCommands DEF RecordDead, InHand
  <2>2. QED
    BY <1>24, <1>1, <2>1 DEF RecordDead, Goto, Rows, Points, faults
<1>25. ASSUME NEW c \in Commands, Release(c) PROVE Rows'
  <2>1. thread' \in [Commands -> Points]
    BY <1>25, <1>1 DEF Release, Goto, Rows, Points
  <2>2. errors' \in 0..MaxErrors
    BY <1>25, <1>1, FleetAssumption DEF Release, Rows, Raises, Raise, faults
  <2>3. QED
    BY <1>25, <1>1, <2>1, <2>2 DEF Release, Rows, Raises, Raise, faults
<1>26. ASSUME NEW c \in Commands, DispatchRaises(c) PROVE Rows'
  <2>1. c \in Jobs
    BY <1>26, <1>1, KindsOfCommands DEF DispatchRaises, InHand
  <2>2. thread' \in [Commands -> Points]
    BY <1>26, <1>1 DEF DispatchRaises, Goto, Rows, Points
  <2>3. errors' \in 0..MaxErrors
    BY <1>26, <1>1, FleetAssumption DEF DispatchRaises, Rows, Raise
  <2>4. QED
    BY <1>26, <1>1, <2>1, <2>2, <2>3 DEF DispatchRaises, Rows, Raise
<1>27. QED
  BY <1>2, <1>3, <1>4, <1>5, <1>6, <1>7, <1>8, <1>9, <1>10, <1>11, <1>12, <1>13, <1>14, <1>15,
     <1>16, <1>17, <1>18, <1>19, <1>20, <1>21, <1>22, <1>23, <1>24, <1>25, <1>26 DEF Next, Consume, Dispatch


\* Commands stay in one place of one lane.
LEMMA LanesStep ==
    ASSUME FleetInv, Next
    PROVE  LanesOK'
<1>1. LanesOK
  BY DEF FleetInv, LanesOK
<1>2. CASE UNCHANGED <<sent, lanes>>
  BY <1>1, <1>2 DEF LanesOK, OnePlace, lanes
<1>3. CASE \/ (\E j \in Jobs : RecordJobLaunch(j)) \/ (\E j \in Jobs : SweepReads(j))
            \/ SweepWrites \/ Restart \/ FailRunning \/ FileRunning \/ Refuse \/ Accept
            \/ Inline \/ InlineEnds \/ Exit \/ Crash \/ LoopRaises \/ RecoveryRaises
            \/ (\E c \in Commands : DispatchBegins(c))
            \/ (\E c \in Commands : BrokerStarts(c))
            \/ (\E c \in Commands : BrokerDeclines(c))
            \/ (\E c \in Commands : BrokerReturns(c))
            \/ (\E c \in Commands : RecordOutcome(c)) \/ (\E c \in Commands : RecordDead(c))
            \/ (\E c \in Commands : DispatchRaises(c))
  BY <1>2, <1>3 DEF RecordJobLaunch, SweepReads, SweepWrites, Restart, FailRunning, FileRunning,
      Refuse, Accept, Inline, InlineEnds, Exit, Crash, LoopRaises, RecoveryRaises, DispatchBegins,
      BrokerStarts, BrokerDeclines, BrokerReturns, RecordOutcome, RecordDead, DispatchRaises
<1>4. CASE \/ SubmitKeyed \/ SubmitBare \/ SendCommand \/ Requeue \/ ReleaseEnded
            \/ RemoveRunning \/ ClaimCommand \/ FileRefusal \/ ClaimRaises
  BY <1>4, Moves
<1>5. CASE \E c \in Commands : Release(c)
  BY <1>5, Moves
<1>6. QED
  BY <1>3, <1>4, <1>5 DEF Next, Consume, Dispatch

LEMMA MainTyped ==
    ASSUME NEW p \in MainPoints, NEW n \in Nat
    PROVE  Main(p) \in [at : MainPoints, command : 0..n, entries : Seq(1..n)]
BY DEF Main

LEMMA WrapperStep ==
    ASSUME FleetInv, Next
    PROVE  (wrapper \in MainState)'
<1>1. LanesOK /\ wrapper \in MainState /\ sent \in Nat
  BY FleetAssumption DEF FleetInv, Rows
<1>2. CASE \/ (\E j \in Jobs : RecordJobLaunch(j)) \/ (\E j \in Jobs : SweepReads(j))
            \/ SweepWrites \/ (\E c \in Commands : DispatchBegins(c))
            \/ (\E c \in Commands : BrokerStarts(c))
            \/ (\E c \in Commands : BrokerDeclines(c))
            \/ (\E c \in Commands : BrokerReturns(c))
            \/ (\E c \in Commands : RecordOutcome(c)) \/ (\E c \in Commands : RecordDead(c))
            \/ (\E c \in Commands : Release(c)) \/ (\E c \in Commands : DispatchRaises(c))
  <2>1. UNCHANGED <<sent, wrapper>>
    BY <1>2 DEF RecordJobLaunch, SweepReads, SweepWrites, DispatchBegins, BrokerStarts,
        BrokerDeclines, BrokerReturns, RecordOutcome, RecordDead, Release, DispatchRaises, lanes,
        faults, Raise, Raises
  <2>2. QED
    BY <1>1, <2>1 DEF MainState
<1>3. CASE SubmitKeyed
  <2>1. sent' = sent + 1 /\ wrapper' = wrapper
    BY <1>3 DEF SubmitKeyed
  <2>2. 0..sent \subseteq 0..sent' /\ Seq(1..sent) \subseteq Seq(1..sent')
    <3>1. 1..sent \subseteq 1..sent' /\ 0..sent \subseteq 0..sent'
      BY <1>1, <2>1
    <3>2. QED
      BY <3>1, SeqMonotonic
  <2>3. QED
    BY <1>1, <2>1, <2>2 DEF MainState
<1>4. CASE SubmitBare
  <2>1. sent' = sent + 1 /\ wrapper' = wrapper
    BY <1>4 DEF SubmitBare
  <2>2. 0..sent \subseteq 0..sent' /\ Seq(1..sent) \subseteq Seq(1..sent')
    <3>1. 1..sent \subseteq 1..sent' /\ 0..sent \subseteq 0..sent'
      BY <1>1, <2>1
    <3>2. QED
      BY <3>1, SeqMonotonic
  <2>3. QED
    BY <1>1, <2>1, <2>2 DEF MainState
<1>5. CASE SendCommand
  <2>1. sent' = sent + 1 /\ wrapper' = wrapper
    BY <1>5 DEF SendCommand
  <2>2. 0..sent \subseteq 0..sent' /\ Seq(1..sent) \subseteq Seq(1..sent')
    <3>1. 1..sent \subseteq 1..sent' /\ 0..sent \subseteq 0..sent'
      BY <1>1, <2>1
    <3>2. QED
      BY <3>1, SeqMonotonic
  <2>3. QED
    BY <1>1, <2>1, <2>2 DEF MainState
<1>6. CASE Restart
  <2>1. Reverse(processing) \in Seq(1..sent)
    BY <1>1, ReversedLane DEF LanesOK, OnePlace
  <2>2. sent' = sent /\ \E p \in {"loop", "recover"} : wrapper' = [Main(p) EXCEPT !.entries = Reverse(processing)]
    BY <1>6 DEF Restart
  <2>3. QED
    BY <1>1, <2>1, <2>2, MainTyped DEF MainState, MainPoints
<1>7. CASE Requeue
  <2>1. Tail(wrapper.entries) \in Seq(1..sent)
    BY <1>7, EntryFacts DEF Recovering, Requeue
  <2>2. sent' = sent /\ (wrapper' = Main("loop") \/ wrapper' = [Main("recover") EXCEPT !.entries = Tail(wrapper.entries)])
    BY <1>7 DEF Requeue, NextEntry
  <2>3. QED
    BY <1>1, <2>1, <2>2, MainTyped DEF MainState, MainPoints
<1>8. CASE ReleaseEnded
  <2>1. Tail(wrapper.entries) \in Seq(1..sent)
    BY <1>8, EntryFacts DEF Recovering, ReleaseEnded
  <2>2. sent' = sent /\ (wrapper' = Main("loop") \/ wrapper' = [Main("recover") EXCEPT !.entries = Tail(wrapper.entries)])
    BY <1>8 DEF ReleaseEnded, NextEntry
  <2>3. QED
    BY <1>1, <2>1, <2>2, MainTyped DEF MainState, MainPoints
<1>9. CASE FailRunning
  BY <1>9, <1>1 DEF FailRunning, MainState, MainPoints
<1>10. CASE FileRunning
  BY <1>10, <1>1 DEF FileRunning, MainState, MainPoints
<1>11. CASE RemoveRunning
  <2>1. Tail(wrapper.entries) \in Seq(1..sent)
    BY <1>11, EntryFacts DEF Recovering, RemoveRunning
  <2>2. sent' = sent /\ (wrapper' = Main("loop") \/ wrapper' = [Main("recover") EXCEPT !.entries = Tail(wrapper.entries)])
    BY <1>11 DEF RemoveRunning, NextEntry
  <2>3. QED
    BY <1>1, <2>1, <2>2, MainTyped DEF MainState, MainPoints
<1>12. CASE ClaimCommand
  <2>1. Last(commands) \in 1..sent
    BY <1>12, Moves DEF Claims
  <2>2. sent' = sent /\ wrapper' = [Main("claimed") EXCEPT !.command = Last(commands)]
    BY <1>12 DEF ClaimCommand
  <2>3. Last(commands) \in 0..sent
    BY <1>1, <2>1
  <2>4. "claimed" \in MainPoints
    BY DEF MainPoints
  <2>5. Main("claimed") \in [at : MainPoints, command : 0..sent, entries : Seq(1..sent)]
    BY <1>1, <2>4, MainTyped
  <2>6. QED
    BY <2>2, <2>3, <2>5 DEF MainState
<1>13. CASE Refuse
  BY <1>13, <1>1 DEF Refuse, MainState, MainPoints
<1>14. CASE FileRefusal
  <2>1. sent' = sent /\ wrapper' = Main("loop")
    BY <1>14 DEF FileRefusal, Settle
  <2>2. QED
    BY <1>1, <2>1, MainTyped DEF MainState, MainPoints
<1>15. CASE Accept
  <2>1. sent' = sent /\ wrapper' = Main("loop")
    BY <1>15 DEF Accept
  <2>2. QED
    BY <1>1, <2>1, MainTyped DEF MainState, MainPoints
<1>16. CASE Inline
  BY <1>16, <1>1 DEF Inline, MainState, MainPoints
<1>17. CASE InlineEnds
  <2>1. sent' = sent /\ wrapper' = Main("loop")
    BY <1>17 DEF InlineEnds
  <2>2. QED
    BY <1>1, <2>1, MainTyped DEF MainState, MainPoints
<1>18. CASE Exit
  <2>1. sent' = sent /\ wrapper' = Main("down")
    BY <1>18 DEF Exit
  <2>2. QED
    BY <1>1, <2>1, MainTyped DEF MainState, MainPoints
<1>19. CASE Crash
  <2>1. sent' = sent /\ wrapper' = Main("down")
    BY <1>19 DEF Crash
  <2>2. QED
    BY <1>1, <2>1, MainTyped DEF MainState, MainPoints
<1>20. CASE ClaimRaises
  <2>1. sent' = sent /\ (wrapper' = Main("draining") \/ wrapper' = wrapper)
    BY <1>20 DEF ClaimRaises, LoopEnds
  <2>2. QED
    BY <1>1, <2>1, MainTyped DEF MainState, MainPoints
<1>21. CASE LoopRaises
  <2>1. sent' = sent /\ wrapper' = Main("draining")
    BY <1>21 DEF LoopRaises, LoopEnds
  <2>2. QED
    BY <1>1, <2>1, MainTyped DEF MainState, MainPoints
<1>22. CASE RecoveryRaises
  <2>1. sent' = sent /\ wrapper' = Main("down")
    BY <1>22 DEF RecoveryRaises
  <2>2. QED
    BY <1>1, <2>1, MainTyped DEF MainState, MainPoints
<1>23. QED
  BY <1>2, <1>3, <1>4, <1>5, <1>6, <1>7, <1>8, <1>9, <1>10, <1>11, <1>12, <1>13, <1>14, <1>15,
     <1>16, <1>17, <1>18, <1>19, <1>20, <1>21, <1>22 DEF Next, Consume, Dispatch


LEMMA BusyIsFinite == IsFiniteSet(Busy)
<1>1. Busy \subseteq 1..MaxCommands
  BY KindsOfCommands DEF Busy, Commands
<1>2. 1 \in Int /\ MaxCommands \in Int
  BY FleetAssumption
<1>3. IsFiniteSet(1..MaxCommands)
  BY <1>2, FS_Interval
<1>4. QED
  BY <1>1, <1>3, FS_Subset

\* The pool has PoolSize threads.
LEMMA BusyStep ==
    ASSUME FleetInv, Next
    PROVE  Cardinality(Busy)' <= PoolSize
<1>1. Rows /\ InHand /\ Cardinality(Busy) <= PoolSize
  BY DEF FleetInv
<1>2. IsFiniteSet(Busy) /\ Cardinality(Busy) \in Nat /\ PoolSize \in Nat
  BY BusyIsFinite, FS_CardinalityType, FleetAssumption
<1>3. ASSUME Busy' \subseteq Busy PROVE Cardinality(Busy)' <= PoolSize
  <2>1. Cardinality(Busy') <= Cardinality(Busy) /\ Cardinality(Busy') \in Nat
    BY <1>2, <1>3, FS_Subset, FS_CardinalityType
  <2>2. QED
    BY <1>1, <1>2, <2>1
<1>4. ASSUME NEW c, Busy' \subseteq Busy \cup {c}, Cardinality(Busy) < PoolSize PROVE Cardinality(Busy)' <= PoolSize
  <2>1. IsFiniteSet(Busy \cup {c}) /\ Cardinality(Busy \cup {c}) <= Cardinality(Busy) + 1
    BY <1>2, FS_AddElement
  <2>2. Cardinality(Busy') <= Cardinality(Busy \cup {c}) /\ Cardinality(Busy') \in Nat /\ Cardinality(Busy \cup {c}) \in Nat
    BY <1>4, <2>1, FS_Subset, FS_CardinalityType
  <2>3. QED
    BY <1>2, <1>4, <2>1, <2>2
<1>5. CASE \/ SubmitKeyed \/ SubmitBare \/ SendCommand
            \/ (\E j \in Jobs : RecordJobLaunch(j)) \/ (\E j \in Jobs : SweepReads(j))
            \/ SweepWrites \/ Restart \/ Requeue \/ ReleaseEnded \/ FailRunning
            \/ FileRunning \/ RemoveRunning \/ ClaimCommand \/ Refuse \/ FileRefusal
            \/ InlineEnds \/ Exit \/ ClaimRaises \/ LoopRaises \/ RecoveryRaises
  <2>1. UNCHANGED thread
    BY <1>5 DEF SubmitKeyed, SubmitBare, SendCommand, RecordJobLaunch, SweepReads, SweepWrites,
        Restart, Requeue, ReleaseEnded, FailRunning, FileRunning, RemoveRunning, ClaimCommand,
        Refuse, FileRefusal, InlineEnds, Exit, ClaimRaises, LoopRaises, RecoveryRaises
  <2>2. QED
    BY <1>3, <2>1 DEF Busy
<1>6. CASE Accept \/ Inline \/ Crash
  <2>1. Busy' \subseteq Busy
    BY <1>1, <1>6, KindsOfCommands DEF Accept, Inline, Crash, Busy, Rows
  <2>2. QED
    BY <1>3, <2>1
<1>7. ASSUME NEW c \in Commands, DispatchBegins(c) PROVE Cardinality(Busy)' <= PoolSize
  <2>1. Busy' \subseteq Busy \cup {c}
    BY <1>1, <1>7, KindsOfCommands DEF DispatchBegins, Goto, Busy, Rows
  <2>2. QED
    BY <1>4, <1>7, <2>1 DEF DispatchBegins
<1>8. ASSUME NEW c \in Commands, DispatchRaises(c) PROVE Cardinality(Busy)' <= PoolSize
  <2>1. Busy' \subseteq Busy \cup {c}
    BY <1>1, <1>8, KindsOfCommands DEF DispatchRaises, Goto, Busy, Rows
  <2>2. CASE thread[c] = "pooled"
    BY <1>4, <1>8, <2>1, <2>2 DEF DispatchRaises
  <2>3. CASE thread[c] # "pooled"
    <3>1. Busy' \subseteq Busy
      BY <1>1, <1>8, <2>3, KindsOfCommands DEF DispatchRaises, Goto, Busy, Rows
    <3>2. QED
      BY <1>3, <3>1
  <2>4. QED
    BY <2>2, <2>3
<1>9. ASSUME NEW c \in Commands,
             \/ BrokerStarts(c) \/ BrokerDeclines(c) \/ BrokerReturns(c)
             \/ RecordOutcome(c) \/ RecordDead(c) \/ Release(c)
      PROVE  Cardinality(Busy)' <= PoolSize
  <2>1. thread[c] \notin {"none", "pooled"} /\ \E p \in Points : thread' = [thread EXCEPT ![c] = p]
    BY <1>9 DEF BrokerStarts, BrokerDeclines, BrokerReturns, RecordOutcome, RecordDead, Release, Goto, Points
  <2>2. Busy' \subseteq Busy
    BY <1>1, <2>1, KindsOfCommands DEF Busy, Rows
  <2>3. QED
    BY <1>3, <2>2
<1>10. QED
  BY <1>5, <1>6, <1>7, <1>8, <1>9 DEF Next, Consume, Dispatch

-----------------------------------------------------------------------------
(* Who has a claim in hand.                                                *)

\* What is in hand stays in the claim lane.
LEMMA InHandStep ==
    ASSUME FleetInv, Next
    PROVE  InHand'
<1>1. Rows /\ InHand /\ Recovery /\ LanesOK /\ wrapper \in MainState
  BY DEF FleetInv
<1>2. CASE \/ (\E j \in Jobs : RecordJobLaunch(j)) \/ (\E j \in Jobs : SweepReads(j))
            \/ SweepWrites
  <2>1. UNCHANGED <<commands, processing, wrapper, thread>>
    BY <1>2 DEF RecordJobLaunch, SweepReads, SweepWrites, lanes, faults
  <2>2. QED
    BY <1>1, <2>1 DEF InHand, Rows, MainState
<1>3. CASE SubmitKeyed
  <2>1. Pushes(sent + 1) \/ UNCHANGED lanes
    BY <1>3, Moves
  <2>2. QED
    BY <1>1, <1>3, <2>1, KindsOfCommands DEF SubmitKeyed, Record, faults, InHand, Rows, MainState,
        Pushes, lanes
<1>4. CASE SubmitBare
  <2>1. Pushes(sent + 1)
    BY <1>4, Moves
  <2>2. QED
    BY <1>1, <1>4, <2>1, KindsOfCommands DEF SubmitBare, faults, InHand, Rows, MainState, Pushes
<1>5. CASE SendCommand
  <2>1. Pushes(sent + 1)
    BY <1>5, Moves
  <2>2. QED
    BY <1>1, <1>5, <2>1, KindsOfCommands DEF SendCommand, faults, InHand, Rows, MainState, Pushes
<1>6. CASE Restart
  BY <1>1, <1>6, KindsOfCommands DEF Restart, Main, lanes, faults, InHand, Rows, MainState
<1>7. CASE Requeue
  <2>1. wrapper.at \in Recovering /\ UNCHANGED thread /\ wrapper'.at \in {"loop", "recover"}
    BY <1>7, <1>1 DEF Requeue, Recovering, NextEntry, Main
  <2>2. \A d \in Commands : thread[d] = "none"
    BY <1>1, <2>1 DEF Recovery
  <2>3. QED
    BY <1>1, <2>1, <2>2 DEF InHand
<1>8. CASE ReleaseEnded
  <2>1. wrapper.at \in Recovering /\ UNCHANGED thread /\ wrapper'.at \in {"loop", "recover"}
    BY <1>8, <1>1 DEF ReleaseEnded, Recovering, NextEntry, Main
  <2>2. \A d \in Commands : thread[d] = "none"
    BY <1>1, <2>1 DEF Recovery
  <2>3. QED
    BY <1>1, <2>1, <2>2 DEF InHand
<1>9. CASE FailRunning
  BY <1>1, <1>9, KindsOfCommands DEF FailRunning, Record, Entry, lanes, faults, NeverStarted,
      InHand, Rows, MainState
<1>10. CASE FileRunning
  BY <1>1, <1>10, KindsOfCommands DEF FileRunning, Entry, lanes, faults, InHand, Rows, MainState
<1>11. CASE RemoveRunning
  <2>1. wrapper.at \in Recovering /\ UNCHANGED thread /\ wrapper'.at \in {"loop", "recover"}
    BY <1>11, <1>1 DEF RemoveRunning, Recovering, NextEntry, Main
  <2>2. \A d \in Commands : thread[d] = "none"
    BY <1>1, <2>1 DEF Recovery
  <2>3. QED
    BY <1>1, <2>1, <2>2 DEF InHand
<1>12. CASE ClaimCommand
  <2>1. Claims(Last(commands))
    BY <1>12, Moves
  <2>2. Last(commands) \in Commands /\ Last(commands) \notin Range(processing)
    BY <1>1, <2>1, KindsOfCommands DEF Claims, LanesOK, OnePlace, Rows
  <2>3. thread[Last(commands)] = "none"
    BY <1>1, <2>2 DEF InHand
  <2>4. /\ wrapper'.at = "claimed" /\ wrapper'.command = Last(commands) /\ UNCHANGED thread
        /\ Range(processing') = Range(processing) \cup {Last(commands)}
    BY <1>12, <2>1 DEF ClaimCommand, Main, Claims
  <2>5. QED
    BY <1>1, <2>3, <2>4 DEF InHand
<1>13. CASE Refuse
  BY <1>1, <1>13, KindsOfCommands DEF Refuse, Record, Claim, lanes, faults, InHand, Rows, MainState
<1>14. CASE FileRefusal
  <2>1. Removes(Claim) \/ UNCHANGED lanes
    BY <1>14, Moves
  <2>2. QED
    BY <1>1, <1>14, <2>1, KindsOfCommands DEF FileRefusal, Main, Raise, Raises, Claim, Settle,
        faults, InHand, Rows, MainState, Removes, lanes
<1>15. CASE Accept
  BY <1>1, <1>15, KindsOfCommands DEF Accept, Record, Main, Claim, lanes, faults, InHand, Rows,
      MainState
<1>16. CASE Inline
  BY <1>1, <1>16, KindsOfCommands DEF Inline, Claim, lanes, faults, InHand, Rows, MainState
<1>17. CASE InlineEnds
  BY <1>1, <1>17, KindsOfCommands DEF InlineEnds, Main, Claim, lanes, faults, InHand, Rows,
      MainState
<1>18. CASE Exit
  BY <1>1, <1>18, KindsOfCommands DEF Exit, Main, lanes, faults, InHand, Rows, MainState
<1>19. CASE Crash
  BY <1>1, <1>19, KindsOfCommands DEF Crash, Main, lanes, InHand, Rows, MainState
<1>20. CASE ClaimRaises
  <2>1. Claims(Last(commands)) \/ UNCHANGED lanes
    BY <1>20, Moves
  <2>2. QED
    BY <1>1, <1>20, <2>1, KindsOfCommands DEF ClaimRaises, Main, Raise, Raises, LoopEnds, lanes,
        InHand, Rows, MainState, Claims
<1>21. CASE LoopRaises
  BY <1>1, <1>21, KindsOfCommands DEF LoopRaises, Main, Raise, Raises, LoopEnds, Claim, lanes,
      InHand, Rows, MainState
<1>22. CASE RecoveryRaises
  BY <1>1, <1>22, KindsOfCommands DEF RecoveryRaises, Main, Raise, Raises, lanes, InHand, Rows,
      MainState
<1>23. ASSUME NEW c \in Commands, DispatchBegins(c) PROVE InHand'
  <2>1. thread[c] # "none" /\ UNCHANGED <<commands, processing, wrapper>>
    BY <1>23 DEF DispatchBegins, lanes
  <2>2. \E p \in Points : thread' = [thread EXCEPT ![c] = p] /\ (c \in Controls => p \in {"none", "launch", "release"})
    BY <1>23, <1>1, KindsOfCommands DEF DispatchBegins, Goto, Points, InHand
  <2>3. QED
    BY <1>1, <2>1, <2>2 DEF InHand, Rows
<1>24. ASSUME NEW c \in Commands, BrokerStarts(c) PROVE InHand'
  <2>1. thread[c] # "none" /\ UNCHANGED <<commands, processing, wrapper>>
    BY <1>24 DEF BrokerStarts, lanes
  <2>2. \E p \in Points : thread' = [thread EXCEPT ![c] = p] /\ (c \in Controls => p \in {"none", "launch", "release"})
    BY <1>24, <1>1, KindsOfCommands DEF BrokerStarts, Goto, Points, InHand
  <2>3. QED
    BY <1>1, <2>1, <2>2 DEF InHand, Rows
<1>25. ASSUME NEW c \in Commands, BrokerDeclines(c) PROVE InHand'
  <2>1. thread[c] # "none" /\ UNCHANGED <<commands, processing, wrapper>>
    BY <1>25 DEF BrokerDeclines, lanes
  <2>2. \E p \in Points : thread' = [thread EXCEPT ![c] = p] /\ (c \in Controls => p \in {"none", "launch", "release"})
    BY <1>25, <1>1, KindsOfCommands DEF BrokerDeclines, Goto, Points, InHand
  <2>3. QED
    BY <1>1, <2>1, <2>2 DEF InHand, Rows
<1>26. ASSUME NEW c \in Commands, BrokerReturns(c) PROVE InHand'
  <2>1. thread[c] # "none" /\ UNCHANGED <<commands, processing, wrapper>>
    BY <1>26 DEF BrokerReturns, lanes
  <2>2. \E p \in Points : thread' = [thread EXCEPT ![c] = p] /\ (c \in Controls => p \in {"none", "launch", "release"})
    BY <1>26, <1>1, KindsOfCommands DEF BrokerReturns, Goto, Points, InHand
  <2>3. QED
    BY <1>1, <2>1, <2>2 DEF InHand, Rows
<1>27. ASSUME NEW c \in Commands, RecordOutcome(c) PROVE InHand'
  <2>1. thread[c] # "none" /\ UNCHANGED <<commands, processing, wrapper>>
    BY <1>27 DEF RecordOutcome, lanes
  <2>2. \E p \in Points : thread' = [thread EXCEPT ![c] = p] /\ (c \in Controls => p \in {"none", "launch", "release"})
    BY <1>27, <1>1, KindsOfCommands DEF RecordOutcome, Goto, Points, InHand
  <2>3. QED
    BY <1>1, <2>1, <2>2 DEF InHand, Rows
<1>28. ASSUME NEW c \in Commands, RecordDead(c) PROVE InHand'
  <2>1. thread[c] # "none" /\ UNCHANGED <<commands, processing, wrapper>>
    BY <1>28 DEF RecordDead, lanes
  <2>2. \E p \in Points : thread' = [thread EXCEPT ![c] = p] /\ (c \in Controls => p \in {"none", "launch", "release"})
    BY <1>28, <1>1, KindsOfCommands DEF RecordDead, Goto, Points, InHand
  <2>3. QED
    BY <1>1, <2>1, <2>2 DEF InHand, Rows
<1>29. ASSUME NEW c \in Commands, Release(c) PROVE InHand'
  <2>1. Removes(c) \/ UNCHANGED lanes
    BY <1>29, Moves
  <2>2. QED
    BY <1>1, <1>29, <2>1, KindsOfCommands DEF Release, Goto, Raise, Raises, faults, InHand, Rows,
        MainState, Removes, lanes
<1>30. ASSUME NEW c \in Commands, DispatchRaises(c) PROVE InHand'
  <2>1. thread[c] # "none" /\ UNCHANGED <<commands, processing, wrapper>>
    BY <1>30 DEF DispatchRaises, lanes
  <2>2. \E p \in Points : thread' = [thread EXCEPT ![c] = p] /\ (c \in Controls => p \in {"none", "launch", "release"})
    BY <1>30, <1>1, KindsOfCommands DEF DispatchRaises, Goto, Points, InHand
  <2>3. QED
    BY <1>1, <2>1, <2>2 DEF InHand, Rows
<1>31. QED
  BY <1>2, <1>3, <1>4, <1>5, <1>6, <1>7, <1>8, <1>9, <1>10, <1>11, <1>12, <1>13, <1>14, <1>15,
     <1>16, <1>17, <1>18, <1>19, <1>20, <1>21, <1>22, <1>23, <1>24, <1>25, <1>26, <1>27, <1>28,
     <1>29, <1>30 DEF Next, Consume, Dispatch

\* Nobody else works on claims while a recovery resolves them.
LEMMA RecoveryStep ==
    ASSUME FleetInv, Next
    PROVE  Recovery'
<1>1. Recovery /\ LanesOK /\ wrapper \in MainState
  BY DEF FleetInv
<1>2. CASE \/ (\E j \in Jobs : RecordJobLaunch(j)) \/ (\E j \in Jobs : SweepReads(j))
            \/ SweepWrites
  <2>1. UNCHANGED <<processing, wrapper, thread>>
    BY <1>2 DEF RecordJobLaunch, SweepReads, SweepWrites, lanes, faults
  <2>2. QED
    BY <1>1, <2>1 DEF Recovery, Entry
<1>3. CASE SubmitKeyed
  BY <1>3, <1>1 DEF SubmitKeyed, Recovery, Entry
<1>4. CASE SubmitBare
  BY <1>4, <1>1 DEF SubmitBare, Recovery, Entry
<1>5. CASE SendCommand
  BY <1>5, <1>1 DEF SendCommand, Recovery, Entry
<1>6. CASE Restart
  <2>1. /\ Distinct(Reverse(processing)) /\ Range(Reverse(processing)) \subseteq Range(processing)
        /\ processing # <<>> => Reverse(processing) # <<>>
    BY <1>1, ReversedLane DEF LanesOK, OnePlace
  <2>2. /\ UNCHANGED <<processing, thread>> /\ wrapper.at = "down" /\ wrapper'.entries = Reverse(processing)
        /\ wrapper'.at = IF processing = <<>> THEN "loop" ELSE "recover"
    BY <1>6 DEF Restart, Main, lanes
  <2>3. QED
    BY <1>1, <2>1, <2>2 DEF Recovery, Recovering
<1>7. CASE Requeue
  <2>1. Requeues(Entry)
    BY <1>7, Moves
  <2>2. /\ Distinct(Tail(wrapper.entries))
        /\ Range(Tail(wrapper.entries)) \subseteq Range(processing) \ {Entry}
    BY <1>7, EntryFacts DEF Recovering, Requeue
  <2>3. /\ wrapper.at \in Recovering /\ UNCHANGED thread
        /\ \/ wrapper'.at = "loop"
           \/ /\ wrapper'.at = "recover" /\ wrapper'.entries = Tail(wrapper.entries)
              /\ Tail(wrapper.entries) # <<>>
    BY <1>7 DEF Requeue, Recovering, NextEntry, Main
  <2>4. QED
    BY <1>1, <2>1, <2>2, <2>3 DEF Recovery, Recovering, Requeues
<1>8. CASE ReleaseEnded
  <2>1. Removes(Entry)
    BY <1>8, Moves
  <2>2. /\ Distinct(Tail(wrapper.entries))
        /\ Range(Tail(wrapper.entries)) \subseteq Range(processing) \ {Entry}
    BY <1>8, EntryFacts DEF Recovering, ReleaseEnded
  <2>3. /\ wrapper.at \in Recovering /\ UNCHANGED thread
        /\ \/ wrapper'.at = "loop"
           \/ /\ wrapper'.at = "recover" /\ wrapper'.entries = Tail(wrapper.entries)
              /\ Tail(wrapper.entries) # <<>>
    BY <1>8 DEF ReleaseEnded, Recovering, NextEntry, Main
  <2>4. QED
    BY <1>1, <2>1, <2>2, <2>3 DEF Recovery, Recovering, Removes
<1>9. CASE FailRunning
  <2>1. /\ UNCHANGED <<processing, thread>> /\ wrapper'.entries = wrapper.entries
        /\ wrapper.at \in Recovering /\ wrapper'.at \in {"recFile", "recRemove"}
    BY <1>9, <1>1 DEF FailRunning, lanes, Recovering, MainState
  <2>2. Entry \in Jobs
    BY <1>9, <1>1 DEF FailRunning, Recovery
  <2>3. QED
    BY <1>1, <2>1, <2>2 DEF Recovery, Recovering, Entry
<1>10. CASE FileRunning
  <2>1. /\ UNCHANGED <<processing, thread>> /\ wrapper'.entries = wrapper.entries
        /\ wrapper.at \in Recovering /\ wrapper'.at \in {"recFile", "recRemove"}
    BY <1>10, <1>1 DEF FileRunning, lanes, Recovering, MainState
  <2>2. Entry \in Jobs
    BY <1>10, <1>1 DEF FileRunning, Recovery
  <2>3. QED
    BY <1>1, <2>1, <2>2 DEF Recovery, Recovering, Entry
<1>11. CASE RemoveRunning
  <2>1. Removes(Entry)
    BY <1>11, Moves
  <2>2. /\ Distinct(Tail(wrapper.entries))
        /\ Range(Tail(wrapper.entries)) \subseteq Range(processing) \ {Entry}
    BY <1>11, EntryFacts DEF Recovering, RemoveRunning
  <2>3. /\ wrapper.at \in Recovering /\ UNCHANGED thread
        /\ \/ wrapper'.at = "loop"
           \/ /\ wrapper'.at = "recover" /\ wrapper'.entries = Tail(wrapper.entries)
              /\ Tail(wrapper.entries) # <<>>
    BY <1>11 DEF RemoveRunning, Recovering, NextEntry, Main
  <2>4. QED
    BY <1>1, <2>1, <2>2, <2>3 DEF Recovery, Recovering, Removes
<1>12. CASE ClaimCommand
  <2>1. wrapper'.at \notin Recovering \cup {"down"}
    BY <1>12, <1>1 DEF ClaimCommand, Main, Recovering, MainState
  <2>2. QED
    BY <2>1 DEF Recovery, Recovering
<1>13. CASE Refuse
  <2>1. wrapper'.at \notin Recovering \cup {"down"}
    BY <1>13, <1>1 DEF Refuse, Recovering, MainState
  <2>2. QED
    BY <2>1 DEF Recovery, Recovering
<1>14. CASE FileRefusal
  <2>1. wrapper'.at \notin Recovering \cup {"down"}
    BY <1>14, <1>1 DEF FileRefusal, Main, Settle, Recovering, MainState
  <2>2. QED
    BY <2>1 DEF Recovery, Recovering
<1>15. CASE Accept
  <2>1. wrapper'.at \notin Recovering \cup {"down"}
    BY <1>15, <1>1 DEF Accept, Main, Recovering, MainState
  <2>2. QED
    BY <2>1 DEF Recovery, Recovering
<1>16. CASE Inline
  <2>1. wrapper'.at \notin Recovering \cup {"down"}
    BY <1>16, <1>1 DEF Inline, Recovering, MainState
  <2>2. QED
    BY <2>1 DEF Recovery, Recovering
<1>17. CASE InlineEnds
  <2>1. wrapper'.at \notin Recovering \cup {"down"}
    BY <1>17, <1>1 DEF InlineEnds, Main, Recovering, MainState
  <2>2. QED
    BY <2>1 DEF Recovery, Recovering
<1>18. CASE Exit
  BY <1>18 DEF Exit, Main, Recovery, Recovering
<1>19. CASE Crash
  BY <1>19 DEF Crash, Main, Recovery, Recovering
<1>20. CASE ClaimRaises
  <2>1. wrapper'.at \notin Recovering \cup {"down"}
    BY <1>20, <1>1 DEF ClaimRaises, Main, LoopEnds, Recovering, MainState
  <2>2. QED
    BY <2>1 DEF Recovery, Recovering
<1>21. CASE LoopRaises
  <2>1. wrapper'.at \notin Recovering \cup {"down"}
    BY <1>21, <1>1 DEF LoopRaises, Main, LoopEnds, Recovering, MainState
  <2>2. QED
    BY <2>1 DEF Recovery, Recovering
<1>22. CASE RecoveryRaises
  BY <1>22, <1>1 DEF RecoveryRaises, Main, Recovery, Recovering
<1>23. ASSUME NEW c \in Commands, DispatchBegins(c) PROVE Recovery'
  <2>1. thread[c] # "none" /\ wrapper' = wrapper
    BY <1>23 DEF DispatchBegins
  <2>2. QED
    BY <1>1, <2>1 DEF Recovery, Recovering, Entry
<1>24. ASSUME NEW c \in Commands, BrokerStarts(c) PROVE Recovery'
  <2>1. thread[c] # "none" /\ wrapper' = wrapper
    BY <1>24 DEF BrokerStarts
  <2>2. QED
    BY <1>1, <2>1 DEF Recovery, Recovering, Entry
<1>25. ASSUME NEW c \in Commands, BrokerDeclines(c) PROVE Recovery'
  <2>1. thread[c] # "none" /\ wrapper' = wrapper
    BY <1>25 DEF BrokerDeclines
  <2>2. QED
    BY <1>1, <2>1 DEF Recovery, Recovering, Entry
<1>26. ASSUME NEW c \in Commands, BrokerReturns(c) PROVE Recovery'
  <2>1. thread[c] # "none" /\ wrapper' = wrapper
    BY <1>26 DEF BrokerReturns
  <2>2. QED
    BY <1>1, <2>1 DEF Recovery, Recovering, Entry
<1>27. ASSUME NEW c \in Commands, RecordOutcome(c) PROVE Recovery'
  <2>1. thread[c] # "none" /\ wrapper' = wrapper
    BY <1>27 DEF RecordOutcome
  <2>2. QED
    BY <1>1, <2>1 DEF Recovery, Recovering, Entry
<1>28. ASSUME NEW c \in Commands, RecordDead(c) PROVE Recovery'
  <2>1. thread[c] # "none" /\ wrapper' = wrapper
    BY <1>28 DEF RecordDead
  <2>2. QED
    BY <1>1, <2>1 DEF Recovery, Recovering, Entry
<1>29. ASSUME NEW c \in Commands, Release(c) PROVE Recovery'
  <2>1. thread[c] # "none" /\ wrapper' = wrapper
    BY <1>29 DEF Release
  <2>2. QED
    BY <1>1, <2>1 DEF Recovery, Recovering, Entry
<1>30. ASSUME NEW c \in Commands, DispatchRaises(c) PROVE Recovery'
  <2>1. thread[c] # "none" /\ wrapper' = wrapper
    BY <1>30 DEF DispatchRaises
  <2>2. QED
    BY <1>1, <2>1 DEF Recovery, Recovering, Entry
<1>31. QED
  BY <1>2, <1>3, <1>4, <1>5, <1>6, <1>7, <1>8, <1>9, <1>10, <1>11, <1>12, <1>13, <1>14, <1>15,
     <1>16, <1>17, <1>18, <1>19, <1>20, <1>21, <1>22, <1>23, <1>24, <1>25, <1>26, <1>27, <1>28,
     <1>29, <1>30 DEF Next, Consume, Dispatch

\* A key pushes one of its submits.
LEMMA OnePushedStep ==
    ASSUME FleetInv, Next
    PROVE  OnePushed'
<1>1. Rows /\ OnePushed /\ InHand
  BY DEF FleetInv
<1>2. CASE \/ (\E j \in Jobs : RecordJobLaunch(j)) \/ (\E j \in Jobs : SweepReads(j))
            \/ SweepWrites \/ Restart \/ FailRunning \/ FileRunning \/ Refuse \/ Accept
            \/ Inline \/ InlineEnds \/ Exit \/ Crash \/ LoopRaises \/ RecoveryRaises
            \/ (\E c \in Commands : DispatchBegins(c))
            \/ (\E c \in Commands : BrokerDeclines(c))
            \/ (\E c \in Commands : BrokerReturns(c))
            \/ (\E c \in Commands : RecordOutcome(c)) \/ (\E c \in Commands : RecordDead(c))
            \/ (\E c \in Commands : DispatchRaises(c))
  <2>1. UNCHANGED <<commands, processing, requests, started>>
    BY <1>2 DEF RecordJobLaunch, SweepReads, SweepWrites, Restart, FailRunning, FileRunning, Refuse,
        Accept, Inline, InlineEnds, Exit, Crash, LoopRaises, RecoveryRaises, DispatchBegins,
        BrokerDeclines, BrokerReturns, RecordOutcome, RecordDead, DispatchRaises, lanes, faults,
        Raise, Raises
  <2>2. QED
    BY <1>1, <2>1 DEF OnePushed, InLane
<1>3. CASE SubmitKeyed
  <2>1. CASE requests[KeyOf[sent + 1]] # 0
    <3>1. UNCHANGED <<lanes, requests, started>>
      BY <1>3, <2>1 DEF SubmitKeyed, lanes
    <3>2. QED
      BY <1>1, <3>1 DEF OnePushed, InLane, lanes
  <2>2. CASE requests[KeyOf[sent + 1]] = 0
    <3>1. /\ requests' = [requests EXCEPT ![KeyOf[sent + 1]] = sent + 1] /\ sent + 1 \in Keyed
          /\ started' = started
      BY <1>3, <2>2 DEF SubmitKeyed
    <3>2. \A d : d # sent + 1 /\ InLane(d)' => InLane(d)
      BY <1>3, Moves DEF InLane, Pushes, lanes
    <3>3. sent + 1 # 0 /\ KeyOf[sent + 1] \in Keys
      BY <3>1, KindsOfCommands
    <3>4. \A k \in Keys : requests'[k] # 0 => KeyOf[requests'[k]] = k
      BY <1>1, <3>1, <3>3 DEF OnePushed, Rows
    <3>5. ASSUME NEW j \in Keyed, requests'[KeyOf[j]] # j PROVE started'[j] = 0 /\ ~InLane(j)'
      <4>1. j # sent + 1 /\ KeyOf[j] \in Keys
        BY <1>1, <3>1, <3>3, <3>5, KindsOfCommands DEF Rows
      <4>2. requests[KeyOf[j]] # j
        <5>1. CASE KeyOf[j] = KeyOf[sent + 1]
          BY <5>1, <2>2, KindsOfCommands
        <5>2. CASE KeyOf[j] # KeyOf[sent + 1]
          BY <5>2, <1>1, <3>1, <3>5, <4>1 DEF Rows
        <5>3. QED
          BY <5>1, <5>2
      <4>3. QED
        BY <1>1, <3>1, <3>2, <4>1, <4>2 DEF OnePushed
    <3>6. QED
      BY <3>4, <3>5 DEF OnePushed
  <2>3. QED
    BY <2>1, <2>2
<1>4. CASE SubmitBare
  <2>1. Pushes(sent + 1) /\ UNCHANGED <<requests, started>> /\ sent + 1 \notin Keyed
    BY <1>4, Moves, KindsOfCommands DEF SubmitBare
  <2>2. QED
    BY <1>1, <2>1 DEF OnePushed, InLane, Pushes
<1>5. CASE SendCommand
  <2>1. Pushes(sent + 1) /\ UNCHANGED <<requests, started>> /\ sent + 1 \notin Keyed
    BY <1>5, Moves, KindsOfCommands DEF SendCommand
  <2>2. QED
    BY <1>1, <2>1 DEF OnePushed, InLane, Pushes
<1>6. CASE Requeue
  <2>1. Requeues(Entry)
    BY <1>6, Moves
  <2>2. UNCHANGED <<requests, started>>
    BY <1>6 DEF Requeue
  <2>3. QED
    BY <1>1, <2>1, <2>2 DEF OnePushed, InLane, Requeues, lanes
<1>7. CASE ReleaseEnded
  <2>1. Removes(Entry)
    BY <1>7, Moves
  <2>2. UNCHANGED <<requests, started>>
    BY <1>7 DEF ReleaseEnded
  <2>3. QED
    BY <1>1, <2>1, <2>2 DEF OnePushed, InLane, Removes, lanes
<1>8. CASE RemoveRunning
  <2>1. Removes(Entry)
    BY <1>8, Moves
  <2>2. UNCHANGED <<requests, started>>
    BY <1>8 DEF RemoveRunning
  <2>3. QED
    BY <1>1, <2>1, <2>2 DEF OnePushed, InLane, Removes, lanes
<1>9. CASE ClaimCommand
  <2>1. Claims(Last(commands))
    BY <1>9, Moves
  <2>2. UNCHANGED <<requests, started>>
    BY <1>9 DEF ClaimCommand
  <2>3. QED
    BY <1>1, <2>1, <2>2 DEF OnePushed, InLane, Claims, lanes
<1>10. CASE FileRefusal
  <2>1. Removes(Claim) \/ UNCHANGED lanes
    BY <1>10, Moves
  <2>2. UNCHANGED <<requests, started>>
    BY <1>10 DEF FileRefusal
  <2>3. QED
    BY <1>1, <2>1, <2>2 DEF OnePushed, InLane, Removes, lanes
<1>11. CASE ClaimRaises
  <2>1. Claims(Last(commands)) \/ UNCHANGED lanes
    BY <1>11, Moves
  <2>2. UNCHANGED <<requests, started>>
    BY <1>11 DEF ClaimRaises
  <2>3. QED
    BY <1>1, <2>1, <2>2 DEF OnePushed, InLane, Claims, lanes
<1>12. ASSUME NEW c \in Commands, BrokerStarts(c) PROVE OnePushed'
  <2>1. UNCHANGED <<lanes, requests>> /\ started' = [started EXCEPT ![c] = started[c] + 1] /\ c \in Range(processing)
    BY <1>12, <1>1 DEF BrokerStarts, lanes, InHand
  <2>2. QED
    BY <1>1, <2>1, KindsOfCommands DEF OnePushed, InLane, lanes, Rows
<1>13. ASSUME NEW c \in Commands, Release(c) PROVE OnePushed'
  <2>1. Removes(c) \/ UNCHANGED lanes
    BY <1>13, Moves
  <2>2. UNCHANGED <<requests, started>>
    BY <1>13 DEF Release
  <2>3. QED
    BY <1>1, <2>1, <2>2 DEF OnePushed, InLane, Removes, lanes
<1>14. QED
  BY <1>2, <1>3, <1>4, <1>5, <1>6, <1>7, <1>8, <1>9, <1>10, <1>11, <1>12, <1>13 DEF Next, Consume, Dispatch

-----------------------------------------------------------------------------
(* What becomes of a request.                                              *)

\* No second container: the row of a job that was started says so.
LEMMA StartedStep ==
    ASSUME FleetInv, Next
    PROVE  StartedIsOver'
<1>1. Rows /\ LanesOK /\ InHand /\ OnePushed /\ StartedIsOver /\ wrapper \in MainState
  BY DEF FleetInv
<1>2. CASE \/ (\E j \in Jobs : SweepReads(j))
  <2>1. UNCHANGED <<commands, board, started, thread, wrapper>>
    BY <1>2 DEF SweepReads, lanes
  <2>2. QED
    BY <1>1, <2>1 DEF StartedIsOver
<1>3. CASE SubmitKeyed
  <2>1. Pushes(sent + 1) \/ UNCHANGED lanes
    BY <1>3, Moves
  <2>2. sent + 1 \in Keyed /\ UNCHANGED <<started, thread, wrapper, processing>>
    BY <1>3 DEF SubmitKeyed
  <2>3. CASE requests[KeyOf[sent + 1]] # 0
    <3>1. UNCHANGED <<commands, board>>
      BY <1>3, <2>3 DEF SubmitKeyed
    <3>2. QED
      BY <1>1, <2>2, <3>1 DEF StartedIsOver
  <2>4. CASE requests[KeyOf[sent + 1]] = 0
    <3>1. /\ started[sent + 1] = 0 /\ sent + 1 \notin Range(processing) /\ thread[sent + 1] = "none"
      <4>1. requests[KeyOf[sent + 1]] # sent + 1 /\ sent + 1 \in Commands
        BY <2>2, <2>4, KindsOfCommands
      <4>2. started[sent + 1] = 0 /\ sent + 1 \notin Range(processing)
        BY <1>1, <2>2, <4>1 DEF OnePushed, InLane
      <4>3. QED
        BY <1>1, <4>1, <4>2 DEF InHand
    <3>2. /\ board' = [board EXCEPT ![sent + 1] = "launching"]
          /\ \A j \in Keyed : j # sent + 1 => (j \in Range(commands') => j \in Range(commands))
      BY <1>3, <2>1, <2>4 DEF SubmitKeyed, Record, Pushes, lanes
    <3>3. QED
      BY <1>1, <2>2, <3>1, <3>2, KindsOfCommands DEF StartedIsOver, Rows
  <2>5. QED
    BY <2>3, <2>4
<1>4. CASE SubmitBare
  <2>1. Pushes(sent + 1) /\ UNCHANGED <<board, started, thread, wrapper>> /\ sent + 1 \notin Keyed
    BY <1>4, Moves, KindsOfCommands DEF SubmitBare
  <2>2. QED
    BY <1>1, <2>1 DEF StartedIsOver, Pushes
<1>5. CASE SendCommand
  <2>1. Pushes(sent + 1) /\ UNCHANGED <<board, started, thread, wrapper>> /\ sent + 1 \notin Keyed
    BY <1>5, Moves, KindsOfCommands DEF SendCommand
  <2>2. QED
    BY <1>1, <2>1 DEF StartedIsOver, Pushes
<1>6. ASSUME NEW j \in Jobs, RecordJobLaunch(j) PROVE StartedIsOver'
  <2>1. /\ UNCHANGED <<commands, started, thread, wrapper>> /\ j \notin Keyed
        /\ board' = [board EXCEPT ![j] = "launching"]
    BY <1>6, <1>1, KindsOfCommands DEF RecordJobLaunch, Record, lanes, Rows
  <2>2. QED
    BY <1>1, <2>1, KindsOfCommands DEF StartedIsOver, Rows
<1>7. CASE SweepWrites
  <2>1. /\ UNCHANGED <<commands, started, thread, wrapper>>
        /\ \E v \in Terminal : board' = [board EXCEPT ![swept] = v]
    BY <1>7 DEF SweepWrites, Record, lanes
  <2>2. QED
    BY <1>1, <2>1, KindsOfCommands DEF StartedIsOver, Rows, Terminal
<1>8. CASE Restart
  <2>1. UNCHANGED <<commands, board, started, thread>> /\ wrapper'.at \notin {"claimed", "refused"}
    BY <1>8, <1>1 DEF Restart, Main, lanes, MainState
  <2>2. QED
    BY <1>1, <2>1 DEF StartedIsOver
<1>9. CASE Requeue
  <2>1. Requeues(Entry)
    BY <1>9, Moves
  <2>2. UNCHANGED <<board, started, thread>> /\ wrapper'.at \notin {"claimed", "refused"}
    BY <1>9 DEF Requeue, NextEntry, Main
  <2>3. Entry \in Keyed => started[Entry] # 1
    BY <1>9, <1>1, KindsOfCommands DEF Requeue, NeverStarted, StartedIsOver
  <2>4. QED
    BY <1>1, <2>1, <2>2, <2>3 DEF StartedIsOver, Requeues
<1>10. CASE ReleaseEnded
  <2>1. Removes(Entry)
    BY <1>10, Moves
  <2>2. UNCHANGED <<board, started, thread>> /\ wrapper'.at \notin {"claimed", "refused"}
    BY <1>10, <1>1 DEF ReleaseEnded, NextEntry, Main
  <2>3. QED
    BY <1>1, <2>1, <2>2 DEF StartedIsOver, Removes, lanes
<1>11. CASE FailRunning
  <2>1. /\ UNCHANGED <<commands, started, thread>> /\ wrapper'.at = "recFile"
        /\ board' = [board EXCEPT ![Entry] = "failed"]
    BY <1>11, <1>1 DEF FailRunning, Record, lanes, MainState
  <2>2. QED
    BY <1>1, <2>1, KindsOfCommands DEF StartedIsOver, Rows
<1>12. CASE FileRunning
  <2>1. UNCHANGED <<commands, board, started, thread>> /\ wrapper'.at \notin {"claimed", "refused"}
    BY <1>12, <1>1 DEF FileRunning, lanes, MainState
  <2>2. QED
    BY <1>1, <2>1 DEF StartedIsOver
<1>13. CASE RemoveRunning
  <2>1. Removes(Entry)
    BY <1>13, Moves
  <2>2. UNCHANGED <<board, started, thread>> /\ wrapper'.at \notin {"claimed", "refused"}
    BY <1>13, <1>1 DEF RemoveRunning, NextEntry, Main
  <2>3. QED
    BY <1>1, <2>1, <2>2 DEF StartedIsOver, Removes, lanes
<1>14. CASE ClaimCommand
  <2>1. Claims(Last(commands))
    BY <1>14, Moves
  <2>2. UNCHANGED <<board, started, thread>> /\ wrapper'.command = Last(commands)
    BY <1>14 DEF ClaimCommand, Main
  <2>3. QED
    BY <1>1, <2>1, <2>2 DEF StartedIsOver, Claims
<1>15. CASE Refuse
  <2>1. UNCHANGED <<commands, started, thread>> /\ wrapper.at = "claimed" /\ wrapper'.command = wrapper.command
    BY <1>15, <1>1 DEF Refuse, lanes, MainState
  <2>2. board' = [board EXCEPT ![wrapper.command] = "failed"]
    BY <1>15 DEF Refuse, Record, Claim
  <2>3. QED
    BY <1>1, <2>1, <2>2, KindsOfCommands DEF StartedIsOver, Rows
<1>16. CASE FileRefusal
  <2>1. Removes(Claim) \/ UNCHANGED lanes
    BY <1>16, Moves
  <2>2. UNCHANGED <<board, started, thread>> /\ wrapper'.at \notin {"claimed", "refused"}
    BY <1>16, <1>1 DEF FileRefusal, Settle, Main
  <2>3. QED
    BY <1>1, <2>1, <2>2 DEF StartedIsOver, Removes, lanes
<1>17. CASE Accept
  <2>1. /\ UNCHANGED <<commands, started>> /\ wrapper.at = "claimed" /\ wrapper'.at = "loop"
        /\ board' = [board EXCEPT ![wrapper.command] = "queued"]
        /\ thread' = [thread EXCEPT ![wrapper.command] = "pooled"]
    BY <1>17 DEF Accept, Record, Claim, Main, lanes
  <2>2. QED
    BY <1>1, <2>1, KindsOfCommands DEF StartedIsOver, Rows
<1>18. CASE Inline
  <2>1. /\ UNCHANGED <<commands, board, started>> /\ wrapper'.at = "inline" /\ wrapper.command \notin Keyed
        /\ thread' = [thread EXCEPT ![wrapper.command] = "launch"]
    BY <1>18, <1>1, KindsOfCommands DEF Inline, Claim, lanes, MainState
  <2>2. QED
    BY <1>1, <2>1, KindsOfCommands DEF StartedIsOver, Rows
<1>19. CASE InlineEnds
  <2>1. UNCHANGED <<commands, board, started, thread>> /\ wrapper'.at \notin {"claimed", "refused"}
    BY <1>19, <1>1 DEF InlineEnds, Main, lanes, MainState
  <2>2. QED
    BY <1>1, <2>1 DEF StartedIsOver
<1>20. CASE Exit
  <2>1. UNCHANGED <<commands, board, started, thread>> /\ wrapper'.at \notin {"claimed", "refused"}
    BY <1>20, <1>1 DEF Exit, Main, lanes, MainState
  <2>2. QED
    BY <1>1, <2>1 DEF StartedIsOver
<1>21. CASE Crash
  <2>1. UNCHANGED <<commands, board, started>> /\ wrapper'.at = "down" /\ \A d \in Commands : thread'[d] = "none"
    BY <1>21 DEF Crash, Main, lanes
  <2>2. QED
    BY <1>1, <2>1, KindsOfCommands DEF StartedIsOver
<1>22. CASE ClaimRaises
  <2>1. Claims(Last(commands)) \/ UNCHANGED lanes
    BY <1>22, Moves
  <2>2. UNCHANGED <<board, started, thread>> /\ wrapper'.at \notin {"claimed", "refused"}
    BY <1>22 DEF ClaimRaises, LoopEnds, Main
  <2>3. QED
    BY <1>1, <2>1, <2>2 DEF StartedIsOver, Claims, lanes
<1>23. CASE LoopRaises
  <2>1. UNCHANGED <<commands, board, started, thread>> /\ wrapper'.at \notin {"claimed", "refused"}
    BY <1>23, <1>1 DEF LoopRaises, LoopEnds, Main, lanes, MainState
  <2>2. QED
    BY <1>1, <2>1 DEF StartedIsOver
<1>24. CASE RecoveryRaises
  <2>1. UNCHANGED <<commands, board, started, thread>> /\ wrapper'.at \notin {"claimed", "refused"}
    BY <1>24, <1>1 DEF RecoveryRaises, Main, lanes, MainState
  <2>2. QED
    BY <1>1, <2>1 DEF StartedIsOver
<1>25. ASSUME NEW c \in Commands, DispatchBegins(c) PROVE StartedIsOver'
  <2>1. /\ UNCHANGED <<commands, started, wrapper>>
        /\ board' = [board EXCEPT ![c] = "running"] /\ thread' = [thread EXCEPT ![c] = "launch"]
        /\ c \in Keyed => started[c] # 1
    BY <1>25, <1>1 DEF DispatchBegins, Record, Goto, lanes, StartedIsOver
  <2>2. QED
    BY <1>1, <2>1, KindsOfCommands DEF StartedIsOver, Rows
<1>26. ASSUME NEW c \in Commands, BrokerStarts(c) PROVE StartedIsOver'
  <2>1. /\ UNCHANGED <<commands, board, wrapper>> /\ thread[c] = "launch"
        /\ started' = [started EXCEPT ![c] = started[c] + 1]
        /\ c \in Keyed => thread' = [thread EXCEPT ![c] = "await"]
        /\ \A d \in Commands : d # c => thread'[d] = thread[d]
    BY <1>26, <1>1, KindsOfCommands DEF BrokerStarts, Goto, lanes, Rows
  <2>2. SUFFICES ASSUME NEW j \in Keyed
                 PROVE  /\ started'[j] <= 1
                        /\ started'[j] = 1 =>
                               /\ j \notin Range(commands')
                               /\ board'[j] \in {"running", "completed", "failed"}
                               /\ thread'[j] \notin {"pooled", "launch"}
                               /\ wrapper'.at \in {"claimed", "refused"} => wrapper'.command # j
                        /\ thread'[j] = "launch" => board'[j] \in {"running", "completed", "failed"}
    BY DEF StartedIsOver
  <2>3. CASE j # c
    BY <1>1, <2>1, <2>3, KindsOfCommands DEF StartedIsOver, Rows
  <2>4. CASE j = c
    <3>1. started[c] = 0 /\ board[c] \in {"running", "completed", "failed"}
      BY <1>1, <2>1, <2>4 DEF StartedIsOver, Rows
    <3>2. c \in Range(processing) /\ c \notin Range(commands)
      BY <1>1, <2>1 DEF InHand, LanesOK, OnePlace
    <3>3. wrapper.at \in {"claimed", "refused"} => wrapper.command # c
      BY <1>1, <2>1 DEF InHand
    <3>4. started'[c] = 1 /\ thread'[c] = "await"
      BY <1>1, <2>1, <2>4, <3>1, KindsOfCommands DEF Rows
    <3>5. QED
      BY <2>1, <2>4, <3>1, <3>2, <3>3, <3>4
  <2>5. QED
    BY <2>3, <2>4
<1>27. ASSUME NEW c \in Commands, BrokerDeclines(c) PROVE StartedIsOver'
  <2>1. /\ UNCHANGED <<commands, board, started, wrapper>>
        /\ \E p \in Points \ {"pooled", "launch"} : thread' = [thread EXCEPT ![c] = p]
    <3>1. UNCHANGED <<commands, board, started, wrapper>>
      BY <1>27 DEF BrokerDeclines, lanes
    <3>2. \E p \in Points \ {"pooled", "launch"} : thread' = [thread EXCEPT ![c] = p]
      <4>1. thread' = [thread EXCEPT ![c] = "broken"] \/ thread' = [thread EXCEPT ![c] = "release"]
        BY <1>27 DEF BrokerDeclines, Goto
      <4>2. QED
        BY <4>1 DEF Points
    <3>3. QED
      BY <3>1, <3>2
  <2>2. QED
    BY <1>1, <2>1, KindsOfCommands DEF StartedIsOver, Rows
<1>28. ASSUME NEW c \in Commands, BrokerReturns(c) PROVE StartedIsOver'
  <2>1. /\ UNCHANGED <<commands, board, started, wrapper>>
        /\ \E p \in Points \ {"pooled", "launch"} : thread' = [thread EXCEPT ![c] = p]
    <3>1. UNCHANGED <<commands, board, started, wrapper>>
      BY <1>28 DEF BrokerReturns, lanes
    <3>2. \E p \in Points \ {"pooled", "launch"} : thread' = [thread EXCEPT ![c] = p]
      BY <1>28 DEF BrokerReturns, Goto, Points
    <3>3. QED
      BY <3>1, <3>2
  <2>2. QED
    BY <1>1, <2>1, KindsOfCommands DEF StartedIsOver, Rows
<1>29. ASSUME NEW c \in Commands, RecordOutcome(c) PROVE StartedIsOver'
  <2>1. /\ UNCHANGED <<commands, started, wrapper>>
        /\ \E p \in Points \ {"pooled", "launch"} : thread' = [thread EXCEPT ![c] = p]
        /\ \E s \in Terminal : board' = [board EXCEPT ![c] = s]
    BY <1>29, <1>1 DEF RecordOutcome, Goto, Record, Points, Terminal, lanes
  <2>2. QED
    BY <1>1, <2>1, KindsOfCommands DEF StartedIsOver, Rows, Terminal
<1>30. ASSUME NEW c \in Commands, RecordDead(c) PROVE StartedIsOver'
  <2>1. /\ UNCHANGED <<commands, board, started, wrapper>>
        /\ \E p \in Points \ {"pooled", "launch"} : thread' = [thread EXCEPT ![c] = p]
    <3>1. UNCHANGED <<commands, board, started, wrapper>>
      BY <1>30 DEF RecordDead, lanes
    <3>2. \E p \in Points \ {"pooled", "launch"} : thread' = [thread EXCEPT ![c] = p]
      BY <1>30 DEF RecordDead, Goto, Points
    <3>3. QED
      BY <3>1, <3>2
  <2>2. QED
    BY <1>1, <2>1, KindsOfCommands DEF StartedIsOver, Rows
<1>31. ASSUME NEW c \in Commands, Release(c) PROVE StartedIsOver'
  <2>1. UNCHANGED <<commands, board, started, wrapper>> /\ thread' = [thread EXCEPT ![c] = "none"]
    BY <1>31 DEF Release, Goto
  <2>2. QED
    BY <1>1, <2>1, KindsOfCommands DEF StartedIsOver, Rows
<1>32. ASSUME NEW c \in Commands, DispatchRaises(c) PROVE StartedIsOver'
  <2>1. /\ UNCHANGED <<commands, board, started, wrapper>>
        /\ \E p \in Points \ {"pooled", "launch"} : thread' = [thread EXCEPT ![c] = p]
    <3>1. UNCHANGED <<commands, board, started, wrapper>>
      BY <1>32 DEF DispatchRaises, lanes
    <3>2. \E p \in Points \ {"pooled", "launch"} : thread' = [thread EXCEPT ![c] = p]
      BY <1>32 DEF DispatchRaises, Goto, Points
    <3>3. QED
      BY <3>1, <3>2
  <2>2. QED
    BY <1>1, <2>1, KindsOfCommands DEF StartedIsOver, Rows
<1>33. QED
  BY <1>2, <1>3, <1>4, <1>5, <1>6, <1>7, <1>8, <1>9, <1>10, <1>11, <1>12, <1>13, <1>14, <1>15,
     <1>16, <1>17, <1>18, <1>19, <1>20, <1>21, <1>22, <1>23, <1>24, <1>25, <1>26, <1>27, <1>28,
     <1>29, <1>30, <1>31, <1>32 DEF Next, Consume, Dispatch

\* The row of a request that has ended says so until its command is taken up again.
LEMMA EndedRows ==
    ASSUME FleetInv, Next, NEW j \in Keyed, board[j] \in Terminal
    PROVE  \/ board'[j] \in Terminal
           \/ Accept /\ Claim = j
           \/ DispatchBegins(j)
           \/ SubmitKeyed /\ j = sent + 1 /\ requests[KeyOf[j]] = 0
<1>1. Rows /\ j \in Jobs /\ j \notin Bare
  BY KindsOfCommands DEF FleetInv
<1>2. CASE \/ SubmitBare \/ SendCommand \/ (\E i \in Jobs : SweepReads(i)) \/ Restart
            \/ Requeue \/ ReleaseEnded \/ FileRunning \/ RemoveRunning \/ ClaimCommand
            \/ FileRefusal \/ Inline \/ InlineEnds \/ Exit \/ Crash \/ ClaimRaises
            \/ LoopRaises \/ RecoveryRaises \/ (\E c \in Commands : BrokerStarts(c))
            \/ (\E c \in Commands : BrokerDeclines(c))
            \/ (\E c \in Commands : BrokerReturns(c)) \/ (\E c \in Commands : RecordDead(c))
            \/ (\E c \in Commands : Release(c)) \/ (\E c \in Commands : DispatchRaises(c))
  BY <1>2 DEF SubmitBare, SendCommand, SweepReads, Restart, Requeue, ReleaseEnded, FileRunning,
      RemoveRunning, ClaimCommand, FileRefusal, Inline, InlineEnds, Exit, Crash, ClaimRaises,
      LoopRaises, RecoveryRaises, BrokerStarts, BrokerDeclines, BrokerReturns, RecordDead, Release,
      DispatchRaises
<1>3. CASE SubmitKeyed
  BY <1>1, <1>3 DEF SubmitKeyed, Record, Rows
<1>4. CASE \E i \in Jobs : RecordJobLaunch(i)
  BY <1>1, <1>4 DEF RecordJobLaunch, Record, Rows
<1>5. CASE SweepWrites
  BY <1>1, <1>5 DEF SweepWrites, Record, Rows, Terminal
<1>6. CASE FailRunning \/ Refuse
  BY <1>1, <1>6 DEF FailRunning, Refuse, Record, Rows, Terminal
<1>7. CASE Accept
  BY <1>1, <1>7 DEF Accept, Record, Rows
<1>8. ASSUME NEW c \in Commands, DispatchBegins(c) PROVE board'[j] \in Terminal \/ DispatchBegins(j)
  <2>1. CASE c = j
    BY <1>8, <2>1
  <2>2. CASE c # j
    BY <1>1, <1>8, <2>2 DEF DispatchBegins, Record, Rows
  <2>3. QED
    BY <2>1, <2>2
<1>9. ASSUME NEW c \in Commands, RecordOutcome(c) PROVE board'[j] \in Terminal
  BY <1>1, <1>9 DEF RecordOutcome, Record, Rows, Terminal
<1>10. QED
  BY <1>2, <1>3, <1>4, <1>5, <1>6, <1>7, <1>8, <1>9 DEF Next, Consume, Dispatch

\* The row is written before the claim is removed.
LEMMA RowFirstStep ==
    ASSUME FleetInv, Next
    PROVE  RowFirst'
<1>1. Rows /\ LanesOK /\ InHand /\ Recovery /\ RowFirst /\ wrapper \in MainState
  BY DEF FleetInv
<1>2. CASE \/ SubmitBare \/ SendCommand \/ (\E j \in Jobs : SweepReads(j))
  <2>1. UNCHANGED <<board, thread, wrapper, dropped>>
    BY <1>2 DEF SubmitBare, SendCommand, SweepReads, faults, lanes
  <2>2. QED
    BY <1>1, <2>1 DEF RowFirst, Entry
<1>3. CASE SubmitKeyed
  <2>1. UNCHANGED <<thread, wrapper, dropped>>
    BY <1>3 DEF SubmitKeyed, faults
  <2>2. ASSUME NEW j \in Keyed, board[j] \in Terminal, j \in Range(processing) PROVE board'[j] \in Terminal
    <3>1. Range(processing) \subseteq 1..sent /\ sent \in Nat
      BY <1>1, RangeOfLane, FleetAssumption DEF LanesOK, Rows
    <3>2. j # sent + 1
      BY <2>2, <3>1
    <3>3. QED
      BY <1>3, <1>1, <2>2, <3>2, KindsOfCommands DEF SubmitKeyed, Record, Rows
  <2>3. /\ wrapper.at = "refused" => wrapper.command \in Range(processing)
        /\ wrapper.at \in {"recFile", "recRemove"} => Entry \in Range(processing)
        /\ \A j \in Keyed : thread[j] # "none" => j \in Range(processing)
    BY <1>1, EntryFacts, KindsOfCommands DEF InHand, Recovering
  <2>4. QED
    BY <1>1, <2>1, <2>2, <2>3 DEF RowFirst, Entry
<1>4. ASSUME NEW j \in Jobs, RecordJobLaunch(j) PROVE RowFirst'
  <2>1. ASSUME NEW i \in Keyed, board[i] \in Terminal PROVE board'[i] \in Terminal
    BY <1>4, <1>1, <2>1, KindsOfCommands DEF RecordJobLaunch, Record, Rows
  <2>2. UNCHANGED <<thread, wrapper, dropped>>
    BY <1>4 DEF RecordJobLaunch, faults
  <2>3. QED
    BY <1>1, <2>1, <2>2 DEF RowFirst, Entry
<1>5. CASE SweepWrites
  <2>1. ASSUME NEW i \in Keyed, board[i] \in Terminal PROVE board'[i] \in Terminal
    BY <1>5, <1>1, <2>1, KindsOfCommands DEF SweepWrites, Record, Rows, Terminal
  <2>2. UNCHANGED <<thread, wrapper, dropped>>
    BY <1>5 DEF SweepWrites, faults
  <2>3. QED
    BY <1>1, <2>1, <2>2 DEF RowFirst, Entry
<1>6. CASE Restart
  <2>1. /\ UNCHANGED <<thread, board, dropped>>
        /\ wrapper'.at \notin {"refused", "recFile", "recRemove"}
    BY <1>6 DEF Restart, Main, faults
  <2>2. QED
    BY <1>1, <2>1 DEF RowFirst
<1>7. CASE Requeue
  <2>1. /\ UNCHANGED <<thread, board, dropped>>
        /\ wrapper'.at \notin {"refused", "recFile", "recRemove"}
    BY <1>7 DEF Requeue, Main, NextEntry, faults
  <2>2. QED
    BY <1>1, <2>1 DEF RowFirst
<1>8. CASE ReleaseEnded
  <2>1. /\ UNCHANGED <<thread, board, dropped>>
        /\ wrapper'.at \notin {"refused", "recFile", "recRemove"}
    BY <1>8 DEF ReleaseEnded, Main, NextEntry, faults
  <2>2. QED
    BY <1>1, <2>1 DEF RowFirst
<1>9. CASE FailRunning
  <2>1. /\ UNCHANGED <<thread, dropped>> /\ wrapper'.at = "recFile" /\ wrapper'.entries = wrapper.entries
        /\ Entry \in Jobs /\ board' = [board EXCEPT ![Entry] = "failed"]
    BY <1>9, <1>1 DEF FailRunning, Record, faults, MainState
  <2>2. QED
    BY <1>1, <2>1, KindsOfCommands DEF RowFirst, Rows, Terminal, Entry
<1>10. CASE FileRunning
  <2>1. /\ UNCHANGED <<thread, board, dropped>> /\ wrapper.at = "recFile"
        /\ wrapper'.at = "recRemove" /\ wrapper'.entries = wrapper.entries
    BY <1>10, <1>1 DEF FileRunning, faults, MainState
  <2>2. QED
    BY <1>1, <2>1 DEF RowFirst, Entry
<1>11. CASE RemoveRunning
  <2>1. /\ UNCHANGED <<thread, board, dropped>>
        /\ wrapper'.at \notin {"refused", "recFile", "recRemove"}
    BY <1>11 DEF RemoveRunning, Main, NextEntry, faults
  <2>2. QED
    BY <1>1, <2>1 DEF RowFirst
<1>12. CASE ClaimCommand
  <2>1. /\ UNCHANGED <<thread, board, dropped>>
        /\ wrapper'.at \notin {"refused", "recFile", "recRemove"}
    BY <1>12 DEF ClaimCommand, Main, faults
  <2>2. QED
    BY <1>1, <2>1 DEF RowFirst
<1>13. CASE Refuse
  <2>1. /\ UNCHANGED <<thread, dropped>> /\ wrapper'.at = "refused" /\ wrapper'.command = wrapper.command
        /\ wrapper.command \in Jobs /\ board' = [board EXCEPT ![wrapper.command] = "failed"]
    BY <1>13, <1>1, KindsOfCommands DEF Refuse, Record, Claim, faults, MainState
  <2>2. QED
    BY <1>1, <2>1, KindsOfCommands DEF RowFirst, Rows, Terminal
<1>14. CASE FileRefusal
  <2>1. /\ UNCHANGED <<thread, board, dropped>>
        /\ wrapper'.at \notin {"refused", "recFile", "recRemove"}
    BY <1>14 DEF FileRefusal, Main, Raise, Raises, Settle, faults
  <2>2. QED
    BY <1>1, <2>1 DEF RowFirst
<1>15. CASE Accept
  <2>1. /\ UNCHANGED dropped /\ wrapper.at = "claimed" /\ wrapper'.at = "loop"
        /\ board' = [board EXCEPT ![wrapper.command] = "queued"]
        /\ thread' = [thread EXCEPT ![wrapper.command] = "pooled"]
    BY <1>15 DEF Accept, Record, Claim, Main, faults
  <2>2. QED
    BY <1>1, <2>1, KindsOfCommands DEF RowFirst, Rows
<1>16. CASE Inline
  <2>1. /\ UNCHANGED <<board, dropped>> /\ wrapper'.at = "inline" /\ wrapper.command \notin Keyed
        /\ thread' = [thread EXCEPT ![wrapper.command] = "launch"]
    BY <1>16, <1>1, KindsOfCommands DEF Inline, Claim, faults, MainState
  <2>2. QED
    BY <1>1, <2>1, KindsOfCommands DEF RowFirst, Rows
<1>17. CASE InlineEnds
  <2>1. /\ UNCHANGED <<thread, board, dropped>>
        /\ wrapper'.at \notin {"refused", "recFile", "recRemove"}
    BY <1>17 DEF InlineEnds, Main, faults
  <2>2. QED
    BY <1>1, <2>1 DEF RowFirst
<1>18. CASE Exit
  <2>1. /\ UNCHANGED <<thread, board, dropped>>
        /\ wrapper'.at \notin {"refused", "recFile", "recRemove"}
    BY <1>18 DEF Exit, Main, faults
  <2>2. QED
    BY <1>1, <2>1 DEF RowFirst
<1>19. CASE Crash
  <2>1. wrapper'.at = "down" /\ \A d \in Commands : thread'[d] = "none"
    BY <1>19 DEF Crash, Main
  <2>2. QED
    BY <2>1, KindsOfCommands DEF RowFirst
<1>20. CASE ClaimRaises
  <2>1. /\ UNCHANGED <<thread, board, dropped>>
        /\ wrapper'.at \in {"loop", "draining"}
    BY <1>20 DEF ClaimRaises, Main, Raise, Raises, LoopEnds
  <2>2. QED
    BY <1>1, <2>1 DEF RowFirst
<1>21. CASE LoopRaises
  <2>1. /\ UNCHANGED <<thread, board, dropped>>
        /\ wrapper'.at \notin {"refused", "recFile", "recRemove"}
    BY <1>21 DEF LoopRaises, Main, Raise, Raises, LoopEnds
  <2>2. QED
    BY <1>1, <2>1 DEF RowFirst
<1>22. CASE RecoveryRaises
  <2>1. /\ UNCHANGED <<thread, board, dropped>>
        /\ wrapper'.at \notin {"refused", "recFile", "recRemove"}
    BY <1>22 DEF RecoveryRaises, Main, Raise, Raises
  <2>2. QED
    BY <1>1, <2>1 DEF RowFirst
<1>23. ASSUME NEW c \in Commands, DispatchBegins(c) PROVE RowFirst'
  <2>1. /\ UNCHANGED <<dropped, wrapper>> /\ thread[c] = "pooled"
        /\ board' = [board EXCEPT ![c] = "running"] /\ thread' = [thread EXCEPT ![c] = "launch"]
    BY <1>23 DEF DispatchBegins, Record, Goto, faults
  <2>2. wrapper.at \notin {"recFile", "recRemove"} /\ (wrapper.at = "refused" => wrapper.command # c)
    BY <1>1, <2>1 DEF InHand, Recovery, Recovering
  <2>3. QED
    BY <1>1, <2>1, <2>2, KindsOfCommands DEF RowFirst, Rows
<1>24. ASSUME NEW c \in Commands, BrokerStarts(c) PROVE RowFirst'
  <2>1. /\ UNCHANGED <<board, dropped, wrapper>>
        /\ \E p \in Points : /\ thread' = [thread EXCEPT ![c] = p]
                             /\ c \in Jobs => p \notin {"file", "fileRaised", "release"}
    <3>1. UNCHANGED <<board, dropped, wrapper>>
      BY <1>24 DEF BrokerStarts, faults
    <3>2. /\ c \in Jobs => thread' = [thread EXCEPT ![c] = "await"]
          /\ c \notin Jobs => thread' = [thread EXCEPT ![c] = "release"]
      BY <1>24 DEF BrokerStarts, Goto
    <3>3. QED
      BY <3>1, <3>2 DEF Points
  <2>2. QED
    BY <1>1, <2>1, KindsOfCommands DEF RowFirst, Rows, Entry
<1>25. ASSUME NEW c \in Commands, BrokerDeclines(c) PROVE RowFirst'
  <2>1. /\ UNCHANGED <<board, dropped, wrapper>>
        /\ \E p \in Points : /\ thread' = [thread EXCEPT ![c] = p]
                             /\ c \in Jobs => p \notin {"file", "fileRaised", "release"}
    <3>1. UNCHANGED <<board, dropped, wrapper>>
      BY <1>25 DEF BrokerDeclines, faults
    <3>2. /\ c \in Jobs => thread' = [thread EXCEPT ![c] = "broken"]
          /\ c \notin Jobs => thread' = [thread EXCEPT ![c] = "release"]
      BY <1>25 DEF BrokerDeclines, Goto
    <3>3. QED
      BY <3>1, <3>2 DEF Points
  <2>2. QED
    BY <1>1, <2>1, KindsOfCommands DEF RowFirst, Rows, Entry
<1>26. ASSUME NEW c \in Commands, BrokerReturns(c) PROVE RowFirst'
  <2>1. /\ UNCHANGED <<board, dropped, wrapper>>
        /\ \E p \in Points : /\ thread' = [thread EXCEPT ![c] = p]
                             /\ c \in Jobs => p \notin {"file", "fileRaised", "release"}
    <3>1. UNCHANGED <<board, dropped, wrapper>>
      BY <1>26 DEF BrokerReturns, faults
    <3>2. thread' = [thread EXCEPT ![c] = "succeeded"] \/ thread' = [thread EXCEPT ![c] = "broken"]
      BY <1>26 DEF BrokerReturns, Goto
    <3>3. QED
      BY <3>1, <3>2 DEF Points
  <2>2. QED
    BY <1>1, <2>1, KindsOfCommands DEF RowFirst, Rows, Entry
<1>27. ASSUME NEW c \in Commands, RecordOutcome(c) PROVE RowFirst'
  <2>1. /\ UNCHANGED <<dropped, wrapper>> /\ \E s \in Terminal : board' = [board EXCEPT ![c] = s]
        /\ \E p \in Points : thread' = [thread EXCEPT ![c] = p]
    BY <1>27 DEF RecordOutcome, Record, Goto, Terminal, Points, faults
  <2>2. QED
    BY <1>1, <2>1, KindsOfCommands DEF RowFirst, Rows, Entry, Terminal
<1>28. ASSUME NEW c \in Commands, RecordDead(c) PROVE RowFirst'
  <2>1. /\ UNCHANGED <<board, dropped, wrapper>> /\ thread[c] \in {"file", "fileRaised"}
        /\ thread' = [thread EXCEPT ![c] = "release"]
    BY <1>28 DEF RecordDead, Goto, faults
  <2>2. QED
    BY <1>1, <2>1, KindsOfCommands DEF RowFirst, Rows, Entry
<1>29. ASSUME NEW c \in Commands, Release(c) PROVE RowFirst'
  <2>1. UNCHANGED <<board, dropped, wrapper>> /\ thread' = [thread EXCEPT ![c] = "none"]
    BY <1>29 DEF Release, Goto, Raises, faults
  <2>2. QED
    BY <1>1, <2>1, KindsOfCommands DEF RowFirst, Rows, Entry
<1>30. ASSUME NEW c \in Commands, DispatchRaises(c) PROVE RowFirst'
  <2>1. /\ UNCHANGED <<board, wrapper>> /\ dropped \subseteq dropped'
        /\ \/ thread' = [thread EXCEPT ![c] = "raised"]
           \/ /\ thread' = [thread EXCEPT ![c] = "release"]
              /\ (thread[c] = "raised" /\ c \in dropped') \/ thread[c] = "fileRaised"
    BY <1>30 DEF DispatchRaises, Goto
  <2>2. QED
    BY <1>1, <2>1, KindsOfCommands DEF RowFirst, Rows, Entry
<1>31. QED
  BY <1>2, <1>3, <1>4, <1>5, <1>6, <1>7, <1>8, <1>9, <1>10, <1>11, <1>12, <1>13, <1>14, <1>15,
     <1>16, <1>17, <1>18, <1>19, <1>20, <1>21, <1>22, <1>23, <1>24, <1>25, <1>26, <1>27, <1>28,
     <1>29, <1>30 DEF Next, Consume, Dispatch


\* A command leaves the lanes when its row has ended or cannot be written.
LEMMA LeavesInOrder ==
    ASSUME FleetInv, Next, NEW j \in Keyed, InLane(j)
    PROVE  InLane(j)' \/ (board[j] \in Terminal /\ board' = board) \/ j \in dropped
<1>1. Rows /\ InHand /\ Recovery /\ RowFirst /\ j \in Jobs
  BY KindsOfCommands DEF FleetInv
<1>2. CASE \/ (\E i \in Jobs : RecordJobLaunch(i)) \/ (\E i \in Jobs : SweepReads(i))
            \/ SweepWrites \/ Restart \/ FailRunning \/ FileRunning \/ Refuse \/ Accept
            \/ Inline \/ InlineEnds \/ Exit \/ Crash \/ LoopRaises \/ RecoveryRaises
            \/ (\E c \in Commands : DispatchBegins(c))
            \/ (\E c \in Commands : BrokerStarts(c))
            \/ (\E c \in Commands : BrokerDeclines(c))
            \/ (\E c \in Commands : BrokerReturns(c))
            \/ (\E c \in Commands : RecordOutcome(c)) \/ (\E c \in Commands : RecordDead(c))
            \/ (\E c \in Commands : DispatchRaises(c))
  <2>1. UNCHANGED <<commands, processing>>
    BY <1>2 DEF lanes, RecordJobLaunch, SweepReads, SweepWrites, Restart, FailRunning, FileRunning,
        Refuse, Accept, Inline, InlineEnds, Exit, Crash, LoopRaises, RecoveryRaises, DispatchBegins,
        BrokerStarts, BrokerDeclines, BrokerReturns, RecordOutcome, RecordDead, DispatchRaises
  <2>2. QED
    BY <2>1 DEF InLane
<1>3. CASE SubmitKeyed \/ SubmitBare \/ SendCommand
  <2>1. Pushes(sent + 1) \/ UNCHANGED lanes
    BY <1>3, Moves
  <2>2. QED
    BY <2>1 DEF InLane, Pushes, lanes
<1>4. CASE ClaimCommand \/ ClaimRaises \/ Requeue
  <2>1. (\E d : Claims(d) \/ Requeues(d)) \/ UNCHANGED lanes
    BY <1>4, Moves
  <2>2. QED
    BY <2>1 DEF InLane, Claims, Requeues, lanes
<1>5. CASE FileRefusal
  <2>1. Removes(Claim) \/ UNCHANGED lanes
    BY <1>5, Moves
  <2>2. wrapper.at = "refused" /\ board' = board
    BY <1>5 DEF FileRefusal
  <2>3. QED
    BY <1>1, <2>1, <2>2 DEF InLane, Removes, lanes, RowFirst, Claim
<1>6. CASE ReleaseEnded \/ RemoveRunning
  <2>1. Removes(Entry) /\ board' = board
    BY <1>6, Moves DEF ReleaseEnded, RemoveRunning
  <2>2. j = Entry => board[Entry] \in Terminal
    BY <1>1, <1>6 DEF ReleaseEnded, RemoveRunning, RowFirst
  <2>3. QED
    BY <2>1, <2>2 DEF InLane, Removes
<1>7. ASSUME NEW c \in Commands, Release(c)
      PROVE  InLane(j)' \/ (board[j] \in Terminal /\ board' = board) \/ j \in dropped
  <2>1. Removes(c) \/ UNCHANGED lanes
    BY <1>7, Moves
  <2>2. board' = board /\ thread[c] = "release"
    BY <1>7 DEF Release
  <2>3. QED
    BY <1>1, <2>1, <2>2 DEF InLane, Removes, lanes, RowFirst
<1>8. QED
  BY <1>2, <1>3, <1>4, <1>5, <1>6, <1>7 DEF Next, Consume, Dispatch

\* What fleet:requests names stays named, and what was dropped stays dropped.
LEMMA RequestsGrow ==
    ASSUME FleetInv, Next
    PROVE  /\ dropped \subseteq dropped'
           /\ \A k \in Keys : \/ requests'[k] = requests[k]
                              \/ SubmitKeyed /\ requests'[k] = sent + 1 /\ Pushes(sent + 1)
<1>1. Rows
  BY DEF FleetInv
<1>2. CASE SubmitKeyed
  <2>1. CASE requests[KeyOf[sent + 1]] # 0
    BY <1>2, <2>1 DEF SubmitKeyed, faults
  <2>2. CASE requests[KeyOf[sent + 1]] = 0
    <3>1. commands' # commands
      <4>1. commands' = <<sent + 1>> \o commands
        BY <1>2, <2>2 DEF SubmitKeyed, Push
      <4>2. commands \in Seq(1..sent) /\ <<sent + 1>> \in Seq({sent + 1})
        BY DEF FleetInv, LanesOK
      <4>3. Len(<<sent + 1>> \o commands) = 1 + Len(commands) /\ Len(commands) \in Nat
        BY <4>2
      <4>4. QED
        BY <4>1, <4>3
    <3>2. Pushes(sent + 1)
      BY <1>2, <3>1, Moves DEF lanes
    <3>3. QED
      BY <1>1, <1>2, <2>2, <3>2 DEF SubmitKeyed, Rows, faults
  <2>3. QED
    BY <2>1, <2>2
<1>3. CASE \/ SubmitBare \/ SendCommand \/ (\E i \in Jobs : RecordJobLaunch(i))
            \/ (\E i \in Jobs : SweepReads(i)) \/ SweepWrites \/ Restart \/ Requeue
            \/ ReleaseEnded \/ FailRunning \/ FileRunning \/ RemoveRunning \/ ClaimCommand
            \/ Refuse \/ Accept \/ Inline \/ InlineEnds \/ Exit \/ Crash
            \/ (\E c \in Commands : DispatchBegins(c))
            \/ (\E c \in Commands : BrokerStarts(c))
            \/ (\E c \in Commands : BrokerDeclines(c))
            \/ (\E c \in Commands : BrokerReturns(c))
            \/ (\E c \in Commands : RecordOutcome(c)) \/ (\E c \in Commands : RecordDead(c))
  <2>1. UNCHANGED <<requests, dropped>>
    BY <1>3 DEF faults, SubmitBare, SendCommand, RecordJobLaunch, SweepReads, SweepWrites, Restart,
        Requeue, ReleaseEnded, FailRunning, FileRunning, RemoveRunning, ClaimCommand, Refuse,
        Accept, Inline, InlineEnds, Exit, Crash, DispatchBegins, BrokerStarts, BrokerDeclines,
        BrokerReturns, RecordOutcome, RecordDead
  <2>2. QED
    BY <2>1
<1>4. CASE \/ FileRefusal \/ ClaimRaises \/ LoopRaises \/ RecoveryRaises
            \/ (\E c \in Commands : Release(c))
  <2>1. UNCHANGED <<requests, dropped>>
    BY <1>4 DEF faults, Raises, FileRefusal, ClaimRaises, LoopRaises, RecoveryRaises, Release
  <2>2. QED
    BY <2>1
<1>5. CASE \E c \in Commands : DispatchRaises(c)
  BY <1>5 DEF DispatchRaises
<1>6. QED
  BY <1>2, <1>3, <1>4, <1>5 DEF Next, Consume, Dispatch

LEMMA NothingLostStep ==
    ASSUME FleetInv, Next
    PROVE  NothingIsLost'
<1>1. Rows /\ InHand /\ NothingIsLost
  BY DEF FleetInv
<1>2. SUFFICES ASSUME NEW k \in Keys, NEW j, j = requests'[k], j # 0
               PROVE  InLane(j)' \/ board'[j] \in Terminal \/ j \in dropped'
  BY DEF NothingIsLost, InLane
<1>3. CASE SubmitKeyed /\ requests'[k] = sent + 1 /\ Pushes(sent + 1)
  BY <1>2, <1>3 DEF InLane, Pushes
<1>4. CASE requests'[k] = requests[k]
  <2>1. j \in Keyed /\ requests[k] = j
    BY <1>1, <1>2, <1>4 DEF Rows
  <2>2. CASE j \in dropped
    BY <2>1, <2>2, RequestsGrow
  <2>3. CASE InLane(j)
    BY <2>1, <2>3, LeavesInOrder, RequestsGrow
  <2>4. CASE board[j] \in Terminal /\ ~InLane(j)
    <3>1. ~(Accept /\ Claim = j)
      BY <1>1, <2>4 DEF Accept, InHand, InLane, Claim
    <3>2. ~DispatchBegins(j)
      BY <1>1, <2>1, <2>4, KindsOfCommands DEF DispatchBegins, InHand, InLane
    <3>3. ~(SubmitKeyed /\ j = sent + 1 /\ requests[KeyOf[j]] = 0)
      <4>1. KeyOf[j] = k
        BY <1>2, <2>1 DEF FleetInv, OnePushed
      <4>2. QED
        BY <1>2, <2>1, <4>1
    <3>4. QED
      BY <2>1, <2>4, <3>1, <3>2, <3>3, EndedRows
  <2>5. QED
    BY <1>1, <1>2, <1>4, <2>1, <2>2, <2>3, <2>4 DEF NothingIsLost
<1>5. QED
  BY <1>3, <1>4, RequestsGrow


-----------------------------------------------------------------------------
(* The theorems.                                                           *)

LEMMA FleetInvInit == Init => FleetInv
<1>1. SUFFICES ASSUME Init PROVE FleetInv
  OBVIOUS
<1>2. Rows
  BY <1>1, FleetAssumption DEF Init, Rows, Statuses, Points
<1>3. Range(<<>>) = {}
  BY DEF Range
<1>4. LanesOK
  BY <1>1, <1>3 DEF Init, LanesOK, OnePlace, Distinct
<1>5. wrapper = Main("down") /\ wrapper.at = "down"
  BY <1>1 DEF Init, Main
<1>6. wrapper \in MainState
  BY <1>1, <1>5, MainTyped DEF Init, MainState, MainPoints
<1>7. Cardinality(Busy) <= PoolSize
  <2>1. Busy = {}
    BY <1>1, KindsOfCommands DEF Init, Busy
  <2>2. QED
    BY <2>1, FS_EmptySet, FleetAssumption
<1>8. InHand /\ Recovery
  BY <1>1, <1>5, KindsOfCommands DEF Init, InHand, Recovery, Recovering
<1>9. OnePushed
  BY <1>1, <1>3, KindsOfCommands DEF Init, OnePushed, InLane
<1>10. StartedIsOver /\ RowFirst
  BY <1>1, <1>5, KindsOfCommands DEF Init, StartedIsOver, RowFirst
<1>11. NothingIsLost
  BY <1>1 DEF Init, NothingIsLost
<1>12. QED
  BY <1>2, <1>4, <1>6, <1>7, <1>8, <1>9, <1>10, <1>11 DEF FleetInv

LEMMA FleetInvStep == FleetInv /\ [Next]_vars => FleetInv'
<1>1. SUFFICES ASSUME FleetInv, [Next]_vars PROVE FleetInv'
  OBVIOUS
<1>2. CASE Next
  BY <1>1, <1>2, RowsStep, LanesStep, WrapperStep, BusyStep, InHandStep, RecoveryStep, OnePushedStep,
     StartedStep, RowFirstStep, NothingLostStep DEF FleetInv
<1>3. CASE UNCHANGED vars
  <2>1. UNCHANGED <<Rows, LanesOK, wrapper \in MainState, Busy>>
    BY <1>3 DEF vars, lanes, faults, Rows, LanesOK, OnePlace, MainState, Busy
  <2>2. UNCHANGED <<InHand, Recovery, OnePushed>>
    BY <1>3 DEF vars, lanes, faults, InHand, Recovery, Entry, OnePushed, InLane
  <2>3. UNCHANGED <<StartedIsOver, RowFirst, NothingIsLost>>
    BY <1>3 DEF vars, lanes, faults, StartedIsOver, RowFirst, Entry, NothingIsLost, InLane
  <2>4. QED
    BY <1>1, <2>1, <2>2, <2>3 DEF FleetInv
<1>4. QED
  BY <1>1, <1>2, <1>3

LEMMA SpecFleetInv == Spec => []FleetInv
<1>1. QED
  BY FleetInvInit, FleetInvStep, PTL DEF Spec

\* The lanes hold commands that were submitted, a recovery always has a claim before
\* it, and no more threads are at work than the dispatch pool has.
THEOREM TypeCorrect == Spec => []TypeOK
<1>1. FleetInv => TypeOK
  BY DEF FleetInv, TypeOK, Rows, LanesOK, MainState, Recovery, Recovering
<1>2. QED
  BY <1>1, SpecFleetInv, PTL

\* However often a submit is retried, the wrapper killed, a Redis call lost or a row
\* swept: _recover_processing and the request key start one container per request.
THEOREM OneContainerPerRequest == Spec => []RunsAtMostOnce
<1>1. FleetInv => RunsAtMostOnce
  <2>1. SUFFICES ASSUME FleetInv, NEW i \in Keyed, NEW j \in Keyed
                 PROVE  /\ started[j] <= 1
                        /\ i # j /\ KeyOf[i] = KeyOf[j] => started[i] = 0 \/ started[j] = 0
    BY DEF RunsAtMostOnce
  <2>2. QED
    BY <2>1 DEF FleetInv, StartedIsOver, OnePushed
<1>2. QED
  BY <1>1, SpecFleetInv, PTL

\* An accepted request whose job is not over is in one of the lanes, between any two
\* steps of a claim, a release or a recovery, unless its failure could not be recorded.
THEOREM AcceptedStaysQueued == Spec => []NothingIsLost
<1>1. FleetInv => NothingIsLost
  BY DEF FleetInv
<1>2. QED
  BY <1>1, SpecFleetInv, PTL

-----------------------------------------------------------------------------
(* The queue seen from outside: FleetQueue implements RequestDesk.         *)

\* Only jobs that were pushed are dropped.
DroppedWasPushed == \A j \in dropped \cap Keyed : requests[KeyOf[j]] = j

DeskInv == FleetInv /\ DroppedWasPushed

\* What is seen of a request with key k stays as it is.
SameAt(k) == StageOf(k)' = StageOf(k) /\ ContainersOf(k)' = ContainersOf(k) /\ AnswerOf(k)' = AnswerOf(k)

\* A decision of the desk, or none.
DeskStep == Desk!Next \/ \A k \in Keys : SameAt(k)

\* A keyed job in a lane, at work or dropped is the one its key names.
LEMMA NamedByItsKey ==
    ASSUME DeskInv, NEW j \in Keyed, InLane(j) \/ started[j] # 0 \/ j \in dropped
    PROVE  KeyOf[j] \in Keys /\ requests[KeyOf[j]] = j /\ j # 0
<1>1. KeyOf[j] \in Keys /\ j # 0
  BY KindsOfCommands DEF Keys
<1>2. requests[KeyOf[j]] = j
  BY DEF DeskInv, FleetInv, OnePushed, DroppedWasPushed
<1>3. QED
  BY <1>1, <1>2

LEMMA NamesAKey ==
    ASSUME DeskInv, NEW k \in Keys, requests[k] # 0
    PROVE  requests[k] \in Keyed /\ KeyOf[requests[k]] = k
BY DEF DeskInv, FleetInv, Rows, OnePushed

LEMMA ContainersByName ==
    ASSUME NEW k \in Keys
    PROVE  /\ \A x : x \in ContainersOf(k) <=>
                  \E i \in Keyed : KeyOf[i] = k /\ \E n \in 1..started[i] : x = <<i, n>>
           /\ \A x : x \in ContainersOf(k)' <=>
                  \E i \in Keyed : KeyOf[i] = k /\ \E n \in 1..started'[i] : x = <<i, n>>
BY DEF ContainersOf

\* Where neither the job nor its place, row and containers change, nothing is seen.
LEMMA NothingSeen ==
    ASSUME NEW k \in Keys, NEW j, requests[k] = j, requests'[k] = j,
           j # 0 => /\ InLane(j)' <=> InLane(j)
                    /\ board'[j] = board[j]
                    /\ j \in dropped' <=> j \in dropped,
           \A i \in Keyed : KeyOf[i] = k => started'[i] = started[i],
           j # 0 => j \in Keyed /\ KeyOf[j] = k
    PROVE  SameAt(k)
<1>1. InLane(requests[k])' <=> InLane(j)'
  BY DEF InLane
<1>2. StageOf(k)' = StageOf(k)
  BY <1>1 DEF StageOf
<1>3. AnswerOf(k)' = AnswerOf(k)
  BY DEF AnswerOf
<1>4. ContainersOf(k)' = ContainersOf(k)
  <2>1. \A x : x \in ContainersOf(k)' <=> x \in ContainersOf(k)
    BY ContainersByName
  <2>2. QED
    BY <2>1
<1>5. QED
  BY <1>2, <1>3, <1>4 DEF SameAt

-----------------------------------------------------------------------------
(* The steps by what can be seen of them.                                  *)

\* Claims move between the lanes, and one may leave them.
LaneStep ==
    /\ UNCHANGED <<requests, board, dropped, started>>
    /\ \E c : \A i \in Keyed : /\ InLane(i)' => InLane(i)
                               /\ i # c /\ InLane(i) => InLane(i)'

\* A row is written, or cannot be: of a job in the lanes, or by the sweep.
RowStep ==
    /\ UNCHANGED <<requests, lanes, started>>
    /\ \E j \in Jobs :
           /\ \A i \in Jobs \ {j} : board'[i] = board[i]
           /\ dropped \subseteq dropped' /\ dropped' \subseteq dropped \cup {j}
           /\ j \in Keyed => InLane(j) \/ (board'[j] \in Terminal /\ dropped' = dropped)

LEMMA KindsOfSteps ==
    ASSUME FleetInv, Next
    PROVE  SubmitKeyed \/ (\E c \in Commands : BrokerStarts(c)) \/ LaneStep \/ RowStep
<1>1. Rows /\ InHand /\ Recovery
  BY DEF FleetInv
<1>2. CASE \/ (\E i \in Jobs : SweepReads(i)) \/ Restart \/ FileRunning \/ Inline \/ InlineEnds
           \/ Exit \/ Crash \/ LoopRaises \/ RecoveryRaises
           \/ (\E c \in Commands : BrokerDeclines(c)) \/ (\E c \in Commands : BrokerReturns(c))
           \/ (\E c \in Commands : RecordDead(c))
  <2>1. UNCHANGED <<requests, board, dropped, started, commands, processing>>
    BY <1>2 DEF lanes, faults, Raises, SweepReads, Restart, FileRunning, Inline, InlineEnds, Exit,
        Crash, LoopRaises, RecoveryRaises, BrokerDeclines, BrokerReturns, RecordDead
  <2>2. QED
    BY <2>1 DEF LaneStep, InLane
<1>3. CASE SubmitBare \/ SendCommand
  <2>1. Pushes(sent + 1) /\ UNCHANGED <<requests, board, dropped, started>> /\ sent + 1 \notin Keyed
    BY <1>3, Moves, KindsOfCommands DEF SubmitBare, SendCommand, faults
  <2>2. QED
    BY <2>1 DEF LaneStep, Pushes, InLane
<1>4. CASE ClaimCommand \/ ClaimRaises \/ Requeue
  <2>1. (\E c : Claims(c) \/ Requeues(c)) \/ UNCHANGED lanes
    BY <1>4, Moves
  <2>2. UNCHANGED <<requests, board, dropped, started>>
    BY <1>4 DEF ClaimCommand, ClaimRaises, Requeue, faults, Raises
  <2>3. QED
    BY <2>1, <2>2 DEF LaneStep, Claims, Requeues, InLane, lanes
<1>5. CASE FileRefusal \/ ReleaseEnded \/ RemoveRunning \/ (\E c \in Commands : Release(c))
  <2>1. (\E c : Removes(c)) \/ UNCHANGED lanes
    BY <1>5, Moves
  <2>2. UNCHANGED <<requests, board, dropped, started>>
    BY <1>5 DEF FileRefusal, ReleaseEnded, RemoveRunning, Release, faults, Raises
  <2>3. QED
    BY <2>1, <2>2 DEF LaneStep, Removes, InLane, lanes
<1>6. ASSUME NEW i \in Jobs, RecordJobLaunch(i) PROVE RowStep
  BY <1>1, <1>6, KindsOfCommands DEF RecordJobLaunch, Record, RowStep, Rows, faults
<1>7. CASE SweepWrites
  <2>1. swept \in Jobs /\ UNCHANGED <<requests, lanes, started, dropped>>
    BY <1>1, <1>7 DEF SweepWrites, Rows, faults
  <2>2. (\A i \in Jobs \ {swept} : board'[i] = board[i]) /\ board'[swept] \in Terminal
    BY <1>1, <1>7, <2>1 DEF SweepWrites, Record, Rows
  <2>3. QED
    BY <2>1, <2>2 DEF RowStep
<1>8. CASE Refuse \/ Accept
  <2>1. Claim \in Jobs /\ InLane(Claim)
    BY <1>1, <1>8, KindsOfCommands DEF Refuse, Accept, InHand, InLane, Claim
  <2>2. UNCHANGED <<requests, lanes, started, dropped>> /\ \A i \in Jobs \ {Claim} : board'[i] = board[i]
    BY <1>1, <1>8 DEF Refuse, Accept, Record, Rows, faults
  <2>3. QED
    BY <2>1, <2>2 DEF RowStep
<1>9. CASE FailRunning
  <2>1. Entry \in Jobs /\ InLane(Entry)
    BY <1>9, EntryFacts DEF FailRunning, InLane, Recovering
  <2>2. UNCHANGED <<requests, lanes, started, dropped>> /\ \A i \in Jobs \ {Entry} : board'[i] = board[i]
    BY <1>1, <1>9 DEF FailRunning, Record, Rows, faults
  <2>3. QED
    BY <2>1, <2>2 DEF RowStep
<1>10. ASSUME NEW c \in Commands, DispatchBegins(c) \/ RecordOutcome(c) \/ DispatchRaises(c) PROVE RowStep
  <2>1. c \in Jobs /\ InLane(c)
    <3>1. thread[c] \notin {"none", "launch", "release"}
      BY <1>10 DEF DispatchBegins, RecordOutcome, DispatchRaises
    <3>2. QED
      BY <1>1, <3>1, KindsOfCommands DEF InHand, InLane
  <2>2. UNCHANGED <<requests, lanes, started>> /\ \A i \in Jobs \ {c} : board'[i] = board[i]
    BY <1>1, <1>10 DEF DispatchBegins, RecordOutcome, DispatchRaises, Record, Rows
  <2>3. dropped \subseteq dropped' /\ dropped' \subseteq dropped \cup {c}
    BY <1>10 DEF DispatchBegins, RecordOutcome, DispatchRaises, faults
  <2>4. QED
    BY <2>1, <2>2, <2>3 DEF RowStep
<1>11. QED
  BY <1>2, <1>3, <1>4, <1>5, <1>6, <1>7, <1>8, <1>9, <1>10 DEF Next, Consume, Dispatch

LEMMA DroppedStep ==
    ASSUME DeskInv, Next
    PROVE  DroppedWasPushed'
<1>1. FleetInv /\ DroppedWasPushed
  BY DEF DeskInv
<1>2. SUFFICES ASSUME NEW j \in Keyed, j \in dropped' PROVE requests'[KeyOf[j]] = j
  BY DEF DroppedWasPushed
<1>3. KeyOf[j] \in Keys /\ j # 0
  BY KindsOfCommands DEF Keys
<1>4. requests[KeyOf[j]] = j
  <2>1. CASE SubmitKeyed \/ (\E c \in Commands : BrokerStarts(c)) \/ LaneStep
    <3>1. dropped' = dropped
      BY <2>1 DEF SubmitKeyed, BrokerStarts, LaneStep, faults
    <3>2. QED
      BY <1>1, <1>2, <3>1 DEF DroppedWasPushed
  <2>2. CASE RowStep
    <3>1. j \in dropped \/ InLane(j)
      BY <1>2, <2>2 DEF RowStep
    <3>2. QED
      BY <3>1, NamedByItsKey
  <2>3. QED
    BY <1>1, <2>1, <2>2, KindsOfSteps
<1>5. requests'[KeyOf[j]] = requests[KeyOf[j]]
  <2>1. CASE SubmitKeyed
    BY <1>1, <1>3, <1>4, <2>1 DEF SubmitKeyed, FleetInv, Rows
  <2>2. CASE ~SubmitKeyed
    BY <1>1, <1>3, <2>2, RequestsGrow
  <2>3. QED
    BY <2>1, <2>2
<1>6. QED
  BY <1>4, <1>5

-----------------------------------------------------------------------------
(* What the desk makes of each kind.                                       *)

LEMMA DeskIsMoved ==
    ASSUME NEW k \in Keys, \A q \in Keys \ {k} : SameAt(q)
    PROVE  /\ /\ StageOf(k) = "new" /\ StageOf(k)' = "waiting"
              /\ ContainersOf(k)' = ContainersOf(k) /\ AnswerOf(k)' = AnswerOf(k)
              => Desk!Next
           /\ /\ StageOf(k) = "waiting" /\ StageOf(k)' = "running" /\ AnswerOf(k)' = AnswerOf(k)
              /\ ContainersOf(k) = {} /\ \E c \in Keyed \X {1} : ContainersOf(k)' = {c}
              => Desk!Next
           /\ /\ StageOf(k) \in {"waiting", "running"} /\ AnswerOf(k) # "open"
              /\ StageOf(k)' = "settled"
              /\ ContainersOf(k)' = ContainersOf(k) /\ AnswerOf(k)' = AnswerOf(k)
              => Desk!Next
           /\ /\ StageOf(k) # "new" /\ AnswerOf(k)' \in Desk!Answers
              /\ AnswerOf(k) = "lost" => AnswerOf(k)' # "open"
              /\ StageOf(k) = "settled" => AnswerOf(k)' \in Desk!Final
              /\ StageOf(k)' = StageOf(k) /\ ContainersOf(k)' = ContainersOf(k)
              => Desk!Next
<1> DEFINE st == [q \in Keys |-> StageOf(q)]
           co == [q \in Keys |-> ContainersOf(q)]
           an == [q \in Keys |-> AnswerOf(q)]
<1>1. /\ st' = [st EXCEPT ![k] = StageOf(k)']
      /\ co' = [co EXCEPT ![k] = ContainersOf(k)']
      /\ an' = [an EXCEPT ![k] = AnswerOf(k)']
  BY DEF SameAt
<1>2. /\ StageOf(k)' = StageOf(k) => st' = st
      /\ ContainersOf(k)' = ContainersOf(k) => co' = co
      /\ AnswerOf(k)' = AnswerOf(k) => an' = an
  BY DEF SameAt
<1>3. st[k] = StageOf(k) /\ co[k] = ContainersOf(k) /\ an[k] = AnswerOf(k)
  OBVIOUS
<1>4. ASSUME StageOf(k) = "new", StageOf(k)' = "waiting",
             ContainersOf(k)' = ContainersOf(k), AnswerOf(k)' = AnswerOf(k)
      PROVE  Desk!Next
  <2>1. Desk!AcceptRequest(k)
    BY <1>1, <1>2, <1>3, <1>4 DEF Desk!AcceptRequest
  <2>2. QED
    BY <2>1 DEF Desk!Next
<1>5. ASSUME StageOf(k) = "waiting", StageOf(k)' = "running", AnswerOf(k)' = AnswerOf(k),
             ContainersOf(k) = {}, NEW c \in Keyed \X {1}, ContainersOf(k)' = {c}
      PROVE  Desk!Next
  <2>1. Desk!Start(k)
    BY <1>1, <1>2, <1>3, <1>5 DEF Desk!Start
  <2>2. QED
    BY <2>1 DEF Desk!Next
<1>6. ASSUME StageOf(k) \in {"waiting", "running"}, AnswerOf(k) # "open", StageOf(k)' = "settled",
             ContainersOf(k)' = ContainersOf(k), AnswerOf(k)' = AnswerOf(k)
      PROVE  Desk!Next
  <2>1. Desk!Settle(k)
    BY <1>1, <1>2, <1>3, <1>6 DEF Desk!Settle
  <2>2. QED
    BY <2>1 DEF Desk!Next
<1>7. ASSUME StageOf(k) # "new", AnswerOf(k)' \in Desk!Answers,
             AnswerOf(k) = "lost" => AnswerOf(k)' # "open",
             StageOf(k) = "settled" => AnswerOf(k)' \in Desk!Final,
             StageOf(k)' = StageOf(k), ContainersOf(k)' = ContainersOf(k)
      PROVE  Desk!Next
  <2>1. Desk!Note(k, AnswerOf(k)')
    BY <1>1, <1>2, <1>3, <1>7 DEF Desk!Note
  <2>2. QED
    BY <1>7, <2>1 DEF Desk!Next
<1>8. QED
  BY <1>4, <1>5, <1>6, <1>7

LEMMA SubmitIsSeen ==
    ASSUME DeskInv, SubmitKeyed
    PROVE  DeskStep
<1>1. FleetInv /\ Rows /\ OnePushed
  BY DEF DeskInv, FleetInv
<1>0. PICK c : c = sent + 1
  OBVIOUS
<1> DEFINE key == KeyOf[c]
<1>2. c \in Keyed /\ c \in Jobs /\ c # 0 /\ key \in Keys
  BY <1>0, KindsOfCommands DEF SubmitKeyed, Keys
<1>3. UNCHANGED <<started, dropped>>
  BY DEF SubmitKeyed, faults
<1>4. CASE requests[key] # 0
  <2>1. UNCHANGED <<requests, commands, processing, board>>
    BY <1>0, <1>4 DEF SubmitKeyed
  <2>2. ASSUME NEW k \in Keys PROVE SameAt(k)
    <3>1. PICK j : j = requests[k]
      OBVIOUS
    <3>2. QED
      BY <1>3, <2>1, <3>1, NothingSeen, NamesAKey DEF InLane
  <2>3. QED
    BY <2>2 DEF DeskStep
<1>5. CASE requests[key] = 0
  <2>1. requests' = [requests EXCEPT ![key] = c] /\ board' = [board EXCEPT ![c] = "launching"]
    BY <1>0, <1>5 DEF SubmitKeyed, Record
  <2>2. Pushes(c)
    <3>1. LanesOK /\ sent \in Nat /\ sent' = sent + 1 /\ Push(sent + 1) /\ processing' = processing
      BY <1>0, <1>1, <1>5, FleetAssumption DEF SubmitKeyed, FleetInv, Rows
    <3>2. QED
      BY <1>0, <3>1, PushMoves
  <2>3. started[c] = 0 /\ c \notin dropped
    BY <1>1, <1>2, <1>5 DEF OnePushed, DeskInv, DroppedWasPushed
  <2> HIDE DEF key
  <2>4. key = KeyOf[c]
    BY DEF key
  <2>5. ASSUME NEW k \in Keys \ {key} PROVE SameAt(k)
    <3>1. requests'[k] = requests[k]
      BY <1>1, <2>1 DEF Rows
    <3>2. requests[k] # 0 => requests[k] \in Keyed /\ KeyOf[requests[k]] = k /\ requests[k] # c
      BY <2>4, <2>5, NamesAKey
    <3>3. requests[k] # 0 => board'[requests[k]] = board[requests[k]]
      BY <1>1, <2>1, <3>2 DEF Rows
    <3>4. PICK j : j = requests[k]
      OBVIOUS
    <3>5. j # 0 => (InLane(j)' <=> InLane(j))
      BY <2>2, <3>2, <3>4 DEF Pushes, InLane
    <3>6. QED
      BY <1>3, <3>1, <3>2, <3>3, <3>4, <3>5, NothingSeen
  <2>6. StageOf(key) = "new" /\ AnswerOf(key) = "open"
    BY <1>5 DEF StageOf, AnswerOf
  <2>7. requests'[key] = c /\ board'[c] = "launching"
    BY <1>1, <1>2, <2>1 DEF Rows
  <2>8. StageOf(key)' = "waiting"
    <3>1. c \in Range(commands')
      BY <2>2 DEF Pushes
    <3>2. QED
      BY <1>2, <1>3, <2>3, <2>7, <3>1 DEF StageOf, InLane
  <2>9. AnswerOf(key)' = "open"
    BY <1>2, <1>3, <2>3, <2>7 DEF AnswerOf, Terminal
  <2>10. ContainersOf(key)' = ContainersOf(key)
    BY <1>3 DEF ContainersOf
  <2>11. QED
    <3>1. key \in Keys
      BY <1>2 DEF key
    <3>2. QED
      BY <2>5, <2>6, <2>8, <2>9, <2>10, <3>1, DeskIsMoved DEF DeskStep
<1>6. QED
  BY <1>4, <1>5

LEMMA StartIsSeen ==
    ASSUME DeskInv, NEW c \in Commands, BrokerStarts(c)
    PROVE  DeskStep
<1>1. FleetInv /\ Rows /\ InHand /\ StartedIsOver /\ OnePushed
  BY DEF DeskInv, FleetInv
<1>2. UNCHANGED <<requests, board, dropped, commands, processing>> /\ started' = [started EXCEPT ![c] = @ + 1]
  BY DEF BrokerStarts, lanes, faults
<1>3. ASSUME NEW k \in Keys, \A i \in Keyed : KeyOf[i] = k => i # c PROVE SameAt(k)
  <2>1. \A i \in Keyed : KeyOf[i] = k => started'[i] = started[i]
    BY <1>1, <1>2, <1>3, KindsOfCommands DEF Rows
  <2>2. QED
    BY <1>2, <2>1, NothingSeen, NamesAKey DEF InLane
<1>4. CASE c \notin Keyed
  BY <1>3, <1>4 DEF DeskStep
<1>5. CASE c \in Keyed
  <2> DEFINE key == KeyOf[c]
  <2>1. InLane(c) /\ started[c] = 0
    BY <1>1, <1>5 DEF BrokerStarts, InHand, InLane, StartedIsOver, Rows
  <2>2. key \in Keys /\ requests[key] = c /\ c # 0
    BY <1>5, <2>1, NamedByItsKey
  <2>3. StageOf(key) = "waiting"
    BY <2>1, <2>2 DEF StageOf
  <2>4. started'[c] = 1
    BY <1>1, <1>2, <2>1 DEF Rows
  <2>5. StageOf(key)' = "running"
    <3>1. InLane(c)'
      BY <1>2, <2>1 DEF InLane
    <3>2. requests'[key] = c
      BY <1>2, <2>2
    <3> HIDE DEF key
    <3>3. QED
      BY <2>2, <2>4, <3>1, <3>2 DEF StageOf, InLane
  <2>6. AnswerOf(key)' = AnswerOf(key)
    BY <1>2 DEF AnswerOf
  <2>7. \A i \in Keyed : KeyOf[i] = key => started[i] = 0 /\ (i # c => started'[i] = 0)
    BY <1>1, <1>2, <2>1, <2>2, KindsOfCommands DEF OnePushed, Rows
  <2> HIDE DEF key
  <2>8. ContainersOf(key) = {}
    <3>1. \A i \in Keyed : KeyOf[i] = key => 1..started[i] = {}
      BY <2>7
    <3>2. \A x : x \notin ContainersOf(key)
      BY <2>2, <3>1, ContainersByName
    <3>3. QED
      BY <3>2
  <2>9. ContainersOf(key)' = {<<c, 1>>}
    <3>1. \A i \in Keyed : KeyOf[i] = key => \A n : n \in 1..started'[i] <=> i = c /\ n = 1
      BY <2>4, <2>7
    <3>2. KeyOf[c] = key
      BY DEF key
    <3>3. \A x : x \in ContainersOf(key)' <=> x = <<c, 1>>
      BY <1>5, <2>2, <3>1, <3>2, ContainersByName
    <3>4. QED
      BY <3>3
  <2>10. \A q \in Keys \ {key} : SameAt(q)
    BY <1>3 DEF key
  <2>11. <<c, 1>> \in Keyed \X {1}
    BY <1>5
  <2>12. QED
    BY <2>2, <2>3, <2>5, <2>6, <2>8, <2>9, <2>10, <2>11, DeskIsMoved DEF DeskStep
<1>6. QED
  BY <1>4, <1>5

LEMMA LaneStepIsSeen ==
    ASSUME DeskInv, Next, LaneStep
    PROVE  DeskStep
<1>1. FleetInv /\ Rows
  BY DEF DeskInv, FleetInv
<1>2. UNCHANGED <<requests, board, dropped, started>>
  BY DEF LaneStep
<1>3. PICK c : \A i \in Keyed : (InLane(i)' => InLane(i)) /\ (i # c /\ InLane(i) => InLane(i)')
  BY DEF LaneStep
<1>4. ASSUME NEW k \in Keys, NEW j, j = requests[k], j # 0 => (InLane(j) => InLane(j)') PROVE SameAt(k)
  <2>1. j # 0 => j \in Keyed /\ KeyOf[j] = k
    BY <1>4, NamesAKey
  <2>2. j # 0 => (InLane(j)' <=> InLane(j))
    BY <1>3, <1>4, <2>1
  <2>3. requests'[k] = j /\ board' = board /\ dropped' = dropped /\ started' = started
    BY <1>2, <1>4
  <2>4. QED
    BY <1>4, <2>1, <2>2, <2>3, NothingSeen
<1>5. CASE c \in Keyed /\ InLane(c) /\ ~InLane(c)'
  <2> DEFINE key == KeyOf[c]
  <2>1. key \in Keys /\ requests[key] = c /\ c # 0
    BY <1>5, NamedByItsKey
  <2>2. board[c] \in Terminal \/ c \in dropped
    BY <1>1, <1>5, LeavesInOrder
  <2> HIDE DEF key
  <2>3. StageOf(key) \in {"waiting", "running"} /\ AnswerOf(key) # "open"
    BY <1>5, <2>1, <2>2 DEF StageOf, AnswerOf, Terminal
  <2>4. StageOf(key)' = "settled"
    <3>1. requests'[key] = c
      BY <1>2, <2>1
    <3>2. QED
      BY <1>5, <2>1, <3>1 DEF StageOf, InLane
  <2>5. ContainersOf(key)' = ContainersOf(key) /\ AnswerOf(key)' = AnswerOf(key)
    BY <1>2 DEF ContainersOf, AnswerOf
  <2>6. ASSUME NEW q \in Keys \ {key} PROVE SameAt(q)
    <3>1. PICK j : j = requests[q]
      OBVIOUS
    <3>2. j # 0 => j \in Keyed /\ j # c
      BY <2>6, <3>1, NamesAKey DEF key
    <3>3. j # 0 => (InLane(j) => InLane(j)')
      BY <1>3, <3>2
    <3>4. QED
      BY <1>4, <3>1, <3>3
  <2>7. QED
    BY <2>1, <2>3, <2>4, <2>5, <2>6, DeskIsMoved DEF DeskStep
<1>6. CASE ~(c \in Keyed /\ InLane(c) /\ ~InLane(c)')
  <2>1. ASSUME NEW k \in Keys PROVE SameAt(k)
    <3>1. PICK j : j = requests[k]
      OBVIOUS
    <3>2. j # 0 => j \in Keyed
      BY <3>1, NamesAKey
    <3>3. j # 0 => (InLane(j) => InLane(j)')
      BY <1>3, <1>6, <3>2
    <3>4. QED
      BY <1>4, <3>1, <3>3
  <2>2. QED
    BY <2>1 DEF DeskStep
<1>7. QED
  BY <1>5, <1>6

LEMMA RowStepIsSeen ==
    ASSUME DeskInv, Next, RowStep
    PROVE  DeskStep
<1>1. FleetInv /\ Rows /\ Rows'
  BY RowsStep DEF DeskInv, FleetInv
<1>2. UNCHANGED <<requests, commands, processing, started>>
  BY DEF RowStep, lanes
<1>3. PICK j \in Jobs :
           /\ \A i \in Jobs \ {j} : board'[i] = board[i]
           /\ dropped \subseteq dropped' /\ dropped' \subseteq dropped \cup {j}
           /\ j \in Keyed => InLane(j) \/ (board'[j] \in Terminal /\ dropped' = dropped)
  BY DEF RowStep
<1>4. ASSUME NEW k \in Keys, requests[k] # j PROVE SameAt(k)
  <2>1. requests[k] # 0 => requests[k] \in Keyed /\ requests[k] \in Jobs /\ KeyOf[requests[k]] = k
    BY NamesAKey, KindsOfCommands
  <2>2. QED
    BY <1>2, <1>3, <1>4, <2>1, NothingSeen DEF InLane
<1>5. CASE \A k \in Keys : requests[k] # j
  BY <1>4, <1>5 DEF DeskStep
<1>6. ASSUME NEW k \in Keys, requests[k] = j PROVE DeskStep
  <2>1. j # 0 /\ j \in Keyed /\ KeyOf[j] = k
    BY <1>6, KindsOfCommands, NamesAKey
  <2>2. \A q \in Keys \ {k} : SameAt(q)
    <3>1. ASSUME NEW q \in Keys \ {k} PROVE requests[q] # j
      BY <2>1, <3>1, NamesAKey
    <3>2. QED
      BY <1>4, <3>1
  <2>3. StageOf(k) # "new" /\ (StageOf(k) = "settled" => ~InLane(j))
    BY <1>6, <2>1 DEF StageOf
  <2>4. StageOf(k)' = StageOf(k) /\ ContainersOf(k)' = ContainersOf(k)
    BY <1>2 DEF StageOf, ContainersOf, InLane
  <2>5. requests'[k] = j /\ board'[j] \in Statuses
    BY <1>1, <1>2, <1>6 DEF Rows
  <2>6. AnswerOf(k)' \in Desk!Answers
    BY <2>1, <2>5 DEF AnswerOf, Terminal, Desk!Answers, Desk!Final
  <2>7. AnswerOf(k) = "lost" => AnswerOf(k)' # "open"
    <3>1. AnswerOf(k) = "lost" => j \in dropped
      BY <1>6, <2>1 DEF AnswerOf, Terminal
    <3>2. j \in dropped => AnswerOf(k)' # "open"
      BY <1>3, <2>1, <2>5 DEF AnswerOf, Terminal
    <3>3. QED
      BY <3>1, <3>2
  <2>8. StageOf(k) = "settled" => AnswerOf(k)' \in Desk!Final
    BY <1>3, <2>1, <2>3, <2>5 DEF AnswerOf, Terminal, Desk!Final
  <2>9. QED
    BY <2>2, <2>3, <2>4, <2>6, <2>7, <2>8, DeskIsMoved DEF DeskStep
<1>7. QED
  BY <1>5, <1>6

\* Lanes, board, threads and recoveries taken together: what is seen of a request
\* with a key moves as RequestDesk promises.  A retried submit adds nothing, one
\* container is started, a request leaves the queue answered, or with its answer
\* lost, and nothing a kill, a restart or a sweep does takes it up again.
THEOREM FleetKeepsItsPromise == Spec => ImplementsRequestDesk
<1>1. Init => DeskInv
  BY FleetInvInit DEF Init, DeskInv, DroppedWasPushed
<1>2. Init => Desk!Init
  <2>1. SUFFICES ASSUME Init PROVE Desk!Init
    OBVIOUS
  <2>2. ASSUME NEW k \in Keys PROVE StageOf(k) = "new" /\ AnswerOf(k) = "open" /\ ContainersOf(k) = {}
    <3>1. requests[k] = 0 /\ \A i \in Keyed : 1..started[i] = {}
      BY <2>1, KindsOfCommands DEF Init
    <3>2. \A x : x \notin ContainersOf(k)
      BY <3>1, ContainersByName
    <3>3. QED
      BY <3>1, <3>2 DEF StageOf, AnswerOf
  <2>3. QED
    BY <2>2 DEF Desk!Init
<1>3. DeskInv /\ [Next]_vars => DeskInv' /\ [Desk!Next]_(Desk!deskVars)
  <2>1. SUFFICES ASSUME DeskInv, [Next]_vars PROVE DeskInv' /\ [Desk!Next]_(Desk!deskVars)
    OBVIOUS
  <2>2. CASE UNCHANGED vars
    <3>1. UNCHANGED <<requests, dropped, board, started, commands, processing>>
      BY <2>2 DEF vars, lanes, faults
    <3>2. DroppedWasPushed'
      BY <2>1, <3>1 DEF DeskInv, DroppedWasPushed
    <3>3. \A k \in Keys : SameAt(k)
      BY <3>1 DEF SameAt, StageOf, ContainersOf, AnswerOf, InLane
    <3>4. UNCHANGED Desk!deskVars
      BY <3>3 DEF SameAt, Desk!deskVars
    <3>5. QED
      BY <2>1, <3>2, <3>4, FleetInvStep DEF DeskInv
  <2>3. CASE Next
    <3>1. DeskStep
      BY <2>1, <2>3, KindsOfSteps, SubmitIsSeen, StartIsSeen, LaneStepIsSeen, RowStepIsSeen DEF DeskInv
    <3>2. (\A k \in Keys : SameAt(k)) => UNCHANGED Desk!deskVars
      BY DEF SameAt, Desk!deskVars
    <3>3. DeskInv'
      BY <2>1, <2>3, FleetInvStep, DroppedStep DEF DeskInv
    <3>4. QED
      BY <3>1, <3>2, <3>3 DEF DeskStep
  <2>4. QED
    BY <2>1, <2>2, <2>3
<1>4. QED
  BY <1>1, <1>2, <1>3, PTL DEF Spec, ImplementsRequestDesk, Desk!Spec

=============================================================================

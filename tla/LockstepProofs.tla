--------------------------- MODULE LockstepProofs ---------------------------
(***************************************************************************)
(* Proofs about Lockstep, for every number of players, send rate, MaxAhead *)
(* and number of commands, whoever leaves or times out: types, that nobody *)
(* outruns the others, and that the counts of commands sent, received and  *)
(* on their way agree as long as they fit their 16 bits.                   *)
(*                                                                         *)
(* Basic is the inductive invariant for the types: who is connected to     *)
(* whom, with each connection at one place, and what an event may hold.    *)
(* Counts adds what a mark means: who knows of a frame f and a count of q  *)
(* knows how much q had given before f, and the packets on their way carry *)
(* what is missing, in order.                                              *)
(***************************************************************************)
EXTENDS Lockstep, SumProofs, SweepProofs, FiniteSetTheorems, TLAPS

(* Multiples of the send rate. *)
Multiple(x) == x \in Nat /\ x % FrameSendRate = 0

LEMMA RatePositive == FrameSendRate \in Nat /\ FrameSendRate > 0
  BY LockstepAssumption

LEMMA MultipleIs ==
  ASSUME NEW x
  PROVE  Multiple(x) <=> \E k \in Nat : x = FrameSendRate * k
<1>1. ASSUME Multiple(x) PROVE \E k \in Nat : x = FrameSendRate * k
  <2>1. x = FrameSendRate * (x \div FrameSendRate) + (x % FrameSendRate)
    BY <1>1, RatePositive DEF Multiple
  <2>2. x \div FrameSendRate \in Nat
    BY <1>1, RatePositive DEF Multiple
  <2> QED BY <1>1, <2>1, <2>2, RatePositive DEF Multiple
<1>2. ASSUME NEW k \in Nat, x = FrameSendRate * k PROVE Multiple(x)
  <2>1. FrameSendRate * k \in Nat
    BY RatePositive
  <2>2. (FrameSendRate * k) % FrameSendRate = 0
    BY RatePositive
  <2> QED BY <1>2, <2>1, <2>2 DEF Multiple
<1> QED BY <1>1, <1>2

LEMMA MultipleSum ==
  ASSUME NEW x, NEW y, Multiple(x), Multiple(y)
  PROVE  Multiple(x + y)
<1>1. PICK k \in Nat : x = FrameSendRate * k
  BY MultipleIs
<1>2. PICK l \in Nat : y = FrameSendRate * l
  BY MultipleIs
<1>3. x + y = FrameSendRate * (k + l) /\ k + l \in Nat
  BY <1>1, <1>2, RatePositive
<1> QED BY <1>3, MultipleIs

LEMMA MultipleRate == Multiple(FrameSendRate) /\ Multiple(0)
<1>1. FrameSendRate = FrameSendRate * 1 /\ 0 = FrameSendRate * 0
  BY RatePositive
<1> QED BY <1>1, MultipleIs

LEMMA MultipleStep ==
  ASSUME NEW x, NEW y, Multiple(x), Multiple(y), x < y
  PROVE  x + FrameSendRate <= y
<1>1. PICK k \in Nat : x = FrameSendRate * k
  BY MultipleIs
<1>2. PICK l \in Nat : y = FrameSendRate * l
  BY MultipleIs
<1>3. k < l
  <2>1. SUFFICES ASSUME l <= k PROVE FALSE
    OBVIOUS
  <2>2. FrameSendRate * l <= FrameSendRate * k
    BY <2>1, RatePositive
  <2> QED BY <1>1, <1>2, <2>2, RatePositive
<1>4. FrameSendRate * (k + 1) <= FrameSendRate * l
  BY <1>3, RatePositive
<1>5. FrameSendRate * (k + 1) = FrameSendRate * k + FrameSendRate
  BY RatePositive
<1> QED BY <1>1, <1>2, <1>4, <1>5

LEMMA RoundUpType == \A x \in Nat : RoundUp(x) \in Nat
<1> SUFFICES ASSUME NEW x \in Nat PROVE RoundUp(x) \in Nat
  OBVIOUS
<1>1. x + FrameSendRate - 1 \in Nat
  BY RatePositive
<1>2. (x + FrameSendRate - 1) \div FrameSendRate \in Nat
  BY <1>1, RatePositive
<1> QED BY <1>2, RatePositive DEF RoundUp

LEMMA RoundUpMultiple == ASSUME NEW x, Multiple(x) PROVE RoundUp(x) = x
<1>1. PICK k \in Nat : x = FrameSendRate * k
  BY MultipleIs
<1>2. (FrameSendRate * k + (FrameSendRate - 1)) \div FrameSendRate = k
  <2> DEFINE d == (FrameSendRate * k + (FrameSendRate - 1)) \div FrameSendRate
             r == (FrameSendRate * k + (FrameSendRate - 1)) % FrameSendRate
  <2>1. /\ FrameSendRate * k + (FrameSendRate - 1) = FrameSendRate * d + r
        /\ d \in Int /\ r \in 0 .. FrameSendRate - 1
    BY RatePositive
  <2> HIDE DEF d, r
  <2>2. d - k >= 1 => FrameSendRate * (d - k) >= FrameSendRate
    BY <2>1, RatePositive
  <2>3. d - k <= -1 => FrameSendRate * (d - k) <= - FrameSendRate
    BY <2>1, RatePositive
  <2>4. FrameSendRate * (d - k) = FrameSendRate * d - FrameSendRate * k
    BY <2>1, RatePositive
  <2>5. d = k
    BY <2>1, <2>2, <2>3, <2>4, RatePositive
  <2> QED BY <2>5 DEF d
<1>3. x + FrameSendRate - 1 = FrameSendRate * k + (FrameSendRate - 1)
  BY <1>1, RatePositive
<1>4. k * FrameSendRate = x
  BY <1>1, RatePositive
<1> QED BY <1>2, <1>3, <1>4 DEF RoundUp
-----------------------------------------------------------------------------
(* Recursive functions. *)

Runs(st, p, first, due, n) ==
  st = [i \in 0 .. n |-> IF i = 0 THEN first ELSE ExecuteEvent(p, st[i - 1], due[i])]

LEMMA RunsExist ==
  ASSUME NEW p, NEW first, NEW due, NEW n \in Nat
  PROVE  \E st : Runs(st, p, first, due, n)
<1> DEFINE I == {k \in Nat : \E st : Runs(st, p, first, due, k)}
<1>1. 0 \in I
  <2> DEFINE st == [i \in 0 .. 0 |-> first]
  <2>1. \A i \in 0 .. 0 : i = 0
    OBVIOUS
  <2>2. Runs(st, p, first, due, 0)
    BY <2>1 DEF Runs
  <2> QED BY <2>2
<1>2. ASSUME NEW k \in 0 .. n - 1, k \in I PROVE k + 1 \in I
  <2>1. k \in Nat /\ k + 1 \in Nat
    OBVIOUS
  <2>2. PICK st : Runs(st, p, first, due, k)
    BY <1>2
  <2> DEFINE next == [i \in 0 .. k + 1 |-> IF i = k + 1 THEN ExecuteEvent(p, st[k], due[k + 1])
                                                     ELSE st[i]]
  <2>3. ASSUME NEW i \in 0 .. k + 1
        PROVE  next[i] = IF i = 0 THEN first ELSE ExecuteEvent(p, next[i - 1], due[i])
    <3>1. CASE i = k + 1
      <4>1. i - 1 = k /\ i # 0 /\ k \in 0 .. k + 1 /\ k # k + 1
        BY <2>1, <3>1
      <4> QED BY <3>1, <4>1
    <3>2. CASE i = 0
      BY <2>1, <2>2, <3>2 DEF Runs
    <3>3. CASE i # k + 1 /\ i # 0
      <4>1. i \in 0 .. k /\ i - 1 \in 0 .. k + 1 /\ i - 1 # k + 1
        BY <2>1, <3>3
      <4>2. st[i] = ExecuteEvent(p, st[i - 1], due[i])
        BY <2>2, <3>3, <4>1 DEF Runs
      <4> QED BY <3>3, <4>1, <4>2
    <3> QED BY <3>1, <3>2, <3>3
  <2>4. next = [i \in 0 .. k + 1 |-> next[i]]
    OBVIOUS
  <2> HIDE DEF next
  <2>5. Runs(next, p, first, due, k + 1)
    BY <2>3, <2>4 DEF Runs
  <2> QED BY <2>1, <2>5
<1> HIDE DEF I
<1>3. n \in I
  BY <1>1, <1>2, UpTo
<1> QED BY <1>3 DEF I

LEMMA AfterEventsRuns ==
  ASSUME NEW p, NEW first, NEW due, Len(due) \in Nat
  PROVE  \E st : Runs(st, p, first, due, Len(due)) /\ AfterEvents(p, first, due) = st[Len(due)]
<1> DEFINE st == CHOOSE run : Runs(run, p, first, due, Len(due))
<1>1. Runs(st, p, first, due, Len(due))
  BY RunsExist
<1>2. AfterEvents(p, first, due) = st[Len(due)]
  BY DEF AfterEvents, Runs
<1> HIDE DEF st
<1> QED BY <1>1, <1>2

\* f holds the concatenations of the first sequences of seqs, up to n.
Joins(f, seqs, n) ==
  f = [i \in 1 .. n |-> IF i = 1 THEN seqs[i] ELSE f[i - 1] \o seqs[i]]

LEMMA JoinsExist ==
  ASSUME NEW seqs, NEW n \in Nat
  PROVE  \E f : Joins(f, seqs, n)
<1> DEFINE I == {k \in Nat : \E f : Joins(f, seqs, k)}
<1>1. 0 \in I
  <2> DEFINE f == [i \in 1 .. 0 |-> << >>]
  <2>1. \A i \in 1 .. 0 : FALSE
    OBVIOUS
  <2>2. Joins(f, seqs, 0)
    BY <2>1 DEF Joins
  <2> QED BY <2>2
<1>2. ASSUME NEW k \in 0 .. n - 1, k \in I PROVE k + 1 \in I
  <2>1. k \in Nat /\ k + 1 \in Nat
    OBVIOUS
  <2>2. PICK f : Joins(f, seqs, k)
    BY <1>2
  <2> DEFINE next == [i \in 1 .. k + 1 |-> IF i = k + 1
                                           THEN IF i = 1 THEN seqs[i] ELSE f[k] \o seqs[i]
                                           ELSE f[i]]
  <2>3. ASSUME NEW i \in 1 .. k + 1
        PROVE  next[i] = IF i = 1 THEN seqs[i] ELSE next[i - 1] \o seqs[i]
    <3>1. CASE i = k + 1 /\ i # 1
      <4>1. i - 1 = k /\ k \in 1 .. k + 1 /\ k # k + 1
        BY <2>1, <3>1
      <4> QED BY <3>1, <4>1
    <3>2. CASE i = k + 1 /\ i = 1
      BY <3>2
    <3>3. CASE i # k + 1 /\ i = 1
      <4>1. i \in 1 .. k
        BY <2>1, <3>3
      <4> QED BY <2>2, <3>3, <4>1 DEF Joins
    <3>4. CASE i # k + 1 /\ i # 1
      <4>1. i \in 1 .. k /\ i - 1 \in 1 .. k + 1 /\ i - 1 # k + 1
        BY <2>1, <3>4
      <4>2. f[i] = f[i - 1] \o seqs[i]
        BY <2>2, <3>4, <4>1 DEF Joins
      <4> QED BY <3>4, <4>1, <4>2
    <3> QED BY <3>1, <3>2, <3>3, <3>4
  <2>4. next = [i \in 1 .. k + 1 |-> next[i]]
    OBVIOUS
  <2> HIDE DEF next
  <2>5. Joins(next, seqs, k + 1)
    BY <2>3, <2>4 DEF Joins
  <2> QED BY <2>1, <2>5
<1> HIDE DEF I
<1>3. n \in I
  BY <1>1, <1>2, UpTo
<1> QED BY <1>3 DEF I

(* What is in the concatenation comes from one of the sequences. *)
LEMMA FlattenType ==
  ASSUME NEW E, NEW n \in Nat \ {0}, NEW seqs \in [1 .. n -> Seq(E)]
  PROVE  /\ FlattenSeq(seqs) \in Seq(E)
         /\ \A i \in DOMAIN FlattenSeq(seqs) :
              \E h \in 1 .. n : \E j \in DOMAIN seqs[h] : FlattenSeq(seqs)[i] = seqs[h][j]
<1>1. Len(seqs) = n /\ n # 0
  OBVIOUS
<1> DEFINE f == CHOOSE join : Joins(join, seqs, n)
           In(s) == /\ s \in Seq(E)
                    /\ \A i \in DOMAIN s : \E h \in 1 .. n : \E j \in DOMAIN seqs[h] : s[i] = seqs[h][j]
           I == {k \in 0 .. n : k = 0 \/ In(f[k])}
<1>2. Joins(f, seqs, n)
  BY JoinsExist
<1>3. FlattenSeq(seqs) = f[n]
  BY <1>1 DEF FlattenSeq, Joins
<1> HIDE DEF f
<1>8. \A i \in 1 .. n : f[i] = IF i = 1 THEN seqs[i] ELSE f[i - 1] \o seqs[i]
  BY <1>2 DEF Joins
<1>4. 0 \in I
  OBVIOUS
<1>5. ASSUME NEW k \in 0 .. n - 1, k \in I PROVE k + 1 \in I
  <2>1. k + 1 \in 1 .. n /\ k + 1 - 1 = k /\ k + 1 # 0
    OBVIOUS
  <2>2. In(seqs[k + 1])
    BY <2>1
  <2>3. CASE k = 0
    <3>1. f[k + 1] = seqs[k + 1]
      BY <1>8, <2>1, <2>3
    <3> QED BY <2>1, <2>2, <3>1
  <2>4. CASE k # 0
    <3>1. f[k + 1] = f[k] \o seqs[k + 1]
      <4>1. PICK m \in 1 .. n : m = k + 1
        BY <2>1
      <4>2. m - 1 = k /\ m # 1
        BY <2>4, <4>1
      <4>3. f[m] = f[m - 1] \o seqs[m]
        BY <1>8, <4>2
      <4> QED BY <4>1, <4>2, <4>3
    <3>2. In(f[k])
      BY <1>5, <2>4
    <3> DEFINE a == f[k]
               b == seqs[k + 1]
    <3> HIDE DEF a, b, In
    <3>3. a \in Seq(E) /\ b \in Seq(E)
      BY <2>2, <3>2 DEF a, b, In
    <3>4. /\ a \o b \in Seq(E) /\ Len(a) \in Nat /\ Len(b) \in Nat
          /\ DOMAIN a = 1 .. Len(a) /\ DOMAIN b = 1 .. Len(b)
          /\ DOMAIN (a \o b) = 1 .. Len(a) + Len(b)
          /\ \A i \in 1 .. Len(a) : (a \o b)[i] = a[i]
          /\ \A i \in 1 .. Len(a) + Len(b) :
               i > Len(a) => i - Len(a) \in 1 .. Len(b) /\ (a \o b)[i] = b[i - Len(a)]
      BY <3>3
    <3>5. In(a) /\ In(b)
      BY <2>2, <3>2 DEF a, b
    <3>6. In(a \o b)
      <4>1. SUFFICES ASSUME NEW i \in 1 .. Len(a) + Len(b)
                     PROVE  \E h \in 1 .. n : \E j \in DOMAIN seqs[h] : (a \o b)[i] = seqs[h][j]
        BY <3>4 DEF In
      <4>2. CASE i <= Len(a)
        <5>1. i \in DOMAIN a /\ (a \o b)[i] = a[i]
          BY <3>4, <4>2
        <5> QED BY <3>5, <5>1 DEF In
      <4>3. CASE i > Len(a)
        <5>1. i - Len(a) \in DOMAIN b /\ (a \o b)[i] = b[i - Len(a)]
          BY <3>4, <4>3
        <5> QED BY <3>5, <5>1 DEF In
      <4> QED BY <3>4, <4>2, <4>3
    <3>7. In(f[k + 1])
      BY <3>1, <3>6 DEF a, b
    <3>8. k + 1 \in 0 .. n
      BY <2>1
    <3> QED BY <3>7, <3>8
  <2> QED BY <2>3, <2>4
<1> HIDE DEF I
<1>6. n \in Nat /\ n \in 0 .. n
  OBVIOUS
<1>7. n \in I
  BY <1>4, <1>5, <1>6, UpTo
<1> QED BY <1>1, <1>3, <1>7 DEF I

(* Those(s, S) holds the elements of s that are in S, each as often as s    *)
(* does and in their order: at says which place in s a place comes from.    *)
LEMMA ThoseKeep ==
  ASSUME NEW E, NEW s \in Seq(E), NEW S
  PROVE  /\ Those(s, S) \in Seq(E)
         /\ \E at \in [DOMAIN Those(s, S) -> DOMAIN s] :
              /\ \A m \in DOMAIN Those(s, S) : Those(s, S)[m] = s[at[m]] /\ s[at[m]] \in S
              /\ \A m1, m2 \in DOMAIN Those(s, S) : m1 < m2 <=> at[m1] < at[m2]
              /\ \A i \in DOMAIN s : s[i] \in S => \E m \in DOMAIN Those(s, S) : at[m] = i
<1> DEFINE K == {i \in DOMAIN s : s[i] \in S}
           t == Those(s, S)
<1>1. K \in SUBSET (1 .. Len(s))
  OBVIOUS
<1>2. t = Sweep(s, K)
  BY DEF Those
<1>3. \A i : i \in K <=> i \in DOMAIN s /\ s[i] \in S
  OBVIOUS
<1> HIDE DEF K, t
<1>4. t \in Seq(E)
  BY <1>1, <1>2, SweepKeeps
<1>5. PICK at \in [1 .. Len(t) -> K] :
              /\ \A m \in 1 .. Len(t) : t[m] = s[at[m]]
              /\ \A m1, m2 \in 1 .. Len(t) : m1 < m2 <=> at[m1] < at[m2]
              /\ \A i \in K : \E m \in 1 .. Len(t) : at[m] = i
  BY <1>1, <1>2, SweepKeeps
<1>6. DOMAIN t = 1 .. Len(t)
  BY <1>4
<1>7. at \in [DOMAIN t -> DOMAIN s]
  BY <1>3, <1>5, <1>6
<1>8. \A m \in DOMAIN t : t[m] = s[at[m]] /\ s[at[m]] \in S
  BY <1>3, <1>5, <1>6
<1>9. \A m1, m2 \in DOMAIN t : m1 < m2 <=> at[m1] < at[m2]
  BY <1>5, <1>6
<1>10. \A i \in DOMAIN s : s[i] \in S => \E m \in DOMAIN t : at[m] = i
  BY <1>3, <1>5, <1>6
<1> QED BY <1>4, <1>7, <1>8, <1>9, <1>10 DEF t

-----------------------------------------------------------------------------
(* Sequences. *)

LEMMA RemoveAtIs ==
  ASSUME NEW X, NEW s \in Seq(X), NEW i \in DOMAIN s
  PROVE  /\ RemoveAt(s, i) \in Seq(X) /\ Len(RemoveAt(s, i)) = Len(s) - 1
         /\ \A j \in 1 .. Len(s) - 1 : RemoveAt(s, i)[j] = IF j < i THEN s[j] ELSE s[j + 1]
<1> DEFINE a == SubSeq(s, 1, i - 1)
           b == SubSeq(s, i + 1, Len(s))
<1>0. Len(s) \in Nat /\ i \in 1 .. Len(s)
  OBVIOUS
<1>1. a \in Seq(X) /\ Len(a) = i - 1 /\ \A j \in 1 .. i - 1 : a[j] = s[j]
  BY <1>0
<1>2. b \in Seq(X) /\ Len(b) = Len(s) - i /\ \A j \in 1 .. Len(s) - i : b[j] = s[i + j]
  BY <1>0
<1>3. RemoveAt(s, i) = a \o b
  BY DEF RemoveAt
<1> HIDE DEF a, b
<1>4. a \o b \in Seq(X) /\ Len(a \o b) = Len(s) - 1
  BY <1>0, <1>1, <1>2
<1>5. ASSUME NEW j \in 1 .. Len(s) - 1
      PROVE  (a \o b)[j] = IF j < i THEN s[j] ELSE s[j + 1]
  <2>1. CASE j < i
    <3>1. j \in 1 .. i - 1 /\ j <= Len(a)
      BY <1>0, <1>1, <2>1
    <3>2. (a \o b)[j] = a[j]
      BY <1>1, <1>2, <3>1
    <3> QED BY <1>1, <2>1, <3>1, <3>2
  <2>2. CASE ~ (j < i)
    <3>1. j - (i - 1) \in 1 .. Len(s) - i /\ i + (j - (i - 1)) = j + 1 /\ j > Len(a)
      BY <1>0, <1>1, <2>2
    <3>2. (a \o b)[j] = b[j - (i - 1)]
      <4>1. PICK m \in Nat : m = Len(a) /\ m = i - 1
        BY <1>0, <1>1
      <4>2. j \in 1 .. m + Len(b) /\ j > m
        BY <1>0, <1>2, <3>1, <4>1
      <4>3. a \in Seq(X) /\ b \in Seq(X)
        BY <1>1, <1>2
      <4>5. \A x, y \in Seq(X) : \A l \in 1 .. Len(x) + Len(y) : l > Len(x) => (x \o y)[l] = y[l - Len(x)]
        OBVIOUS
      <4>4. (a \o b)[j] = b[j - Len(a)]
        BY <4>1, <4>2, <4>3, <4>5
      <4> QED BY <4>1, <4>4
    <3> QED BY <1>2, <2>2, <3>1, <3>2
  <2> QED BY <2>1, <2>2
<1> QED BY <1>3, <1>4, <1>5

(* The ends of a concatenation. *)
LEMMA JoinedIs ==
  ASSUME NEW X, NEW a \in Seq(X), NEW b \in Seq(X)
  PROVE  /\ a \o b \in Seq(X) /\ Len(a) \in Nat /\ Len(b) \in Nat
         /\ DOMAIN a = 1 .. Len(a) /\ DOMAIN b = 1 .. Len(b)
         /\ Len(a \o b) = Len(a) + Len(b) /\ DOMAIN (a \o b) = 1 .. Len(a) + Len(b)
         /\ \A i \in 1 .. Len(a) : (a \o b)[i] = a[i]
         /\ \A i \in 1 .. Len(b) : (a \o b)[Len(a) + i] = b[i]
         /\ \A i \in 1 .. Len(a) + Len(b) : i <= Len(a) \/ i - Len(a) \in 1 .. Len(b)
  OBVIOUS

-----------------------------------------------------------------------------
(* What holds without further conditions: types, and who is connected.      *)

GoodEvents == {e \in Event : e.type = "TIMING" => e.arg \in MaxAheads}
GoodPackets == [frame : Nat, CommandCount : 0 .. CountMod - 1, events : Seq(GoodEvents)]
Marks == [1 .. N - 1 -> Nat \cup {-1}]
Leads == {m \in Nat : Multiple(m) /\ m >= 2 * FrameSendRate}

Types ==
  /\ phase \in [Players -> Phases]
  /\ frame \in [Players -> Nat] /\ MaxAhead \in [Players -> Leads]
  /\ window \in [Players -> Nat \X Nat]
  /\ humans \in [Players -> SUBSET Players]
  /\ conns \in [Players -> Seq(Players)]
  /\ their_frame \in [Players -> Marks] /\ their_sent \in [Players -> Marks]
  /\ their_recv \in [Players -> Marks]
  /\ my_sent \in [Players -> 0 .. CountMod - 1]
  /\ DoList \in [Players -> Seq(GoodEvents)] /\ sent \in [Players -> Seq(GoodEvents)]
  /\ chan \in [Players -> [Players -> Seq(GoodPackets)]]
  /\ info \in [Players -> [Players -> SUBSET GoodPackets]]
  /\ DOMAIN executed = Players /\ DOMAIN timing = Players

\* The players connected are the other humans, each at one place.
Joined(p) ==
  /\ IsInjective(conns[p]) /\ Len(conns[p]) <= N - 1
  /\ p \in humans[p] /\ p \notin Range(conns[p])
  /\ phase[p] # "left" => Range(conns[p]) = humans[p] \ {p}
  /\ phase[p] = "left" => conns[p] = << >>

\* Nobody has heard of a frame a player is not yet at.
Told(p) ==
  /\ \A i \in DOMAIN conns[p] :
       /\ their_frame[p][i] <= frame[conns[p][i]]
       /\ their_frame[p][i] = -1 \/ Multiple(their_frame[p][i])
  /\ \A q \in Players : \A k \in info[p][q] \cup Range(chan[p][q]) :
       k.frame <= frame[p] /\ Multiple(k.frame)

Basic ==
  /\ Types
  /\ \A p \in Players : Multiple(frame[p]) /\ Joined(p) /\ Told(p)

LEMMA LeadsGood == MaxAheads \cup {StartMaxAhead} \subseteq Leads
  BY MaxAheadAssumption DEF Leads, Multiple

LEMMA PlaceIs ==
  ASSUME NEW p, NEW q, Connected(p, q)
  PROVE  Place(p, q) \in DOMAIN conns[p] /\ conns[p][Place(p, q)] = q
  BY DEF Connected, Place

LEMMA PlaceOnly ==
  ASSUME NEW p, IsInjective(conns[p]), NEW i \in DOMAIN conns[p]
  PROVE  Place(p, conns[p][i]) = i
  BY DEF Place, IsInjective

LEMMA ConnectedRange ==
  ASSUME NEW p \in Players, NEW q
  PROVE  Connected(p, q) <=> q \in Range(conns[p])
  BY DEF Connected, Range

LEMMA PlayerTypes ==
  ASSUME Basic, NEW p \in Players
  PROVE  /\ phase[p] \in Phases /\ frame[p] \in Nat /\ Multiple(frame[p]) /\ MaxAhead[p] \in Leads
         /\ window[p] \in Nat \X Nat /\ humans[p] \in SUBSET Players
         /\ conns[p] \in Seq(Players) /\ Len(conns[p]) \in Nat /\ DOMAIN conns[p] = 1 .. Len(conns[p])
         /\ \A i \in DOMAIN conns[p] : conns[p][i] \in Players /\ i \in 1 .. N - 1
         /\ their_frame[p] \in Marks /\ their_sent[p] \in Marks /\ their_recv[p] \in Marks
         /\ my_sent[p] \in 0 .. CountMod - 1
         /\ DoList[p] \in Seq(GoodEvents) /\ sent[p] \in Seq(GoodEvents)
         /\ Len(DoList[p]) \in Nat /\ Len(sent[p]) \in Nat
         /\ DOMAIN DoList[p] = 1 .. Len(DoList[p]) /\ DOMAIN sent[p] = 1 .. Len(sent[p])
<1>1. /\ phase[p] \in Phases /\ frame[p] \in Nat /\ Multiple(frame[p]) /\ MaxAhead[p] \in Leads
      /\ window[p] \in Nat \X Nat /\ humans[p] \in SUBSET Players /\ conns[p] \in Seq(Players)
  BY DEF Basic, Types
<1>2. /\ their_frame[p] \in Marks /\ their_sent[p] \in Marks /\ their_recv[p] \in Marks
      /\ my_sent[p] \in 0 .. CountMod - 1
      /\ DoList[p] \in Seq(GoodEvents) /\ sent[p] \in Seq(GoodEvents)
  BY DEF Basic, Types
<1>3. Len(conns[p]) \in Nat /\ DOMAIN conns[p] = 1 .. Len(conns[p])
  BY <1>1
<1>4. N \in Nat /\ Len(conns[p]) <= N - 1
  BY LockstepAssumption DEF Basic, Joined
<1>5. \A i \in DOMAIN conns[p] : conns[p][i] \in Players /\ i \in 1 .. N - 1
  BY <1>1, <1>3, <1>4
<1> QED BY <1>1, <1>2, <1>3, <1>5

LEMMA PacketTypes ==
  ASSUME Basic, NEW q \in Players, NEW p \in Players
  PROVE  /\ chan[q][p] \in Seq(GoodPackets) /\ Len(chan[q][p]) \in Nat
         /\ DOMAIN chan[q][p] = 1 .. Len(chan[q][p])
         /\ \A i \in DOMAIN chan[q][p] : chan[q][p][i] \in GoodPackets /\ chan[q][p][i] \in Range(chan[q][p])
         /\ info[q][p] \in SUBSET GoodPackets
         /\ \A k \in info[q][p] \cup Range(chan[q][p]) :
              /\ k \in GoodPackets /\ k.frame \in Nat /\ k.frame <= frame[q] /\ Multiple(k.frame)
              /\ k.CommandCount \in 0 .. CountMod - 1 /\ k.events \in Seq(GoodEvents)
<1>1. chan[q][p] \in Seq(GoodPackets) /\ info[q][p] \in SUBSET GoodPackets
  BY DEF Basic, Types
<1>2. /\ Len(chan[q][p]) \in Nat /\ DOMAIN chan[q][p] = 1 .. Len(chan[q][p])
      /\ \A i \in DOMAIN chan[q][p] : chan[q][p][i] \in GoodPackets /\ chan[q][p][i] \in Range(chan[q][p])
  BY <1>1 DEF Range
<1>3. ASSUME NEW k \in info[q][p] \cup Range(chan[q][p]) PROVE k \in GoodPackets
  BY <1>1, <1>2 DEF Range
<1>4. \A k \in info[q][p] \cup Range(chan[q][p]) : k.frame <= frame[q] /\ Multiple(k.frame)
  BY DEF Basic, Told
<1> QED BY <1>1, <1>2, <1>3, <1>4 DEF GoodPackets

LEMMA BasicInit == ASSUME Init \/ Started PROVE Basic
<1>0. InitFrames
  BY DEF Init, Started
<1>1. N \in Nat /\ N > 0 /\ 0 \in 0 .. CountMod - 1 /\ Players = 1 .. N
  BY LockstepAssumption DEF Players
<1>2. Types
  <2>1. conns \in [Players -> Seq(Players)]
    <3>1. SUFFICES ASSUME NEW p \in Players
                   PROVE  [i \in 1 .. N - 1 |-> IF i < p THEN i ELSE i + 1] \in Seq(Players)
      BY <1>0 DEF InitFrames
    <3>2. \A i \in 1 .. N - 1 : (IF i < p THEN i ELSE i + 1) \in Players
      BY <1>1
    <3>3. N - 1 \in Nat
      BY <1>1
    <3> QED BY <3>2, <3>3
  <2>2. their_frame \in [Players -> Marks]
    BY DEF Init, Started, Marks
  <2>3. their_sent \in [Players -> Marks] /\ their_recv \in [Players -> Marks]
    BY <1>0 DEF InitFrames, Marks
  <2>4. info \in [Players -> [Players -> SUBSET GoodPackets]]
    <3>1. CASE Started
      BY <3>1 DEF Started
    <3>2. CASE Init
      <4>1. Packet(0, 0, << >>) \in GoodPackets
        BY <1>1 DEF Packet, GoodPackets
      <4>2. info \in [Players -> [Players -> {{}, {Packet(0, 0, << >>)}}]]
        BY <3>2 DEF Init
      <4> QED BY <4>1, <4>2
    <3> QED BY <3>1, <3>2
  <2>5. MaxAhead \in [Players -> Leads]
    BY <1>0, LeadsGood DEF InitFrames
  <2>6. phase \in [Players -> Phases]
    BY DEF Init, Started, Phases
  <2>7. /\ frame \in [Players -> Nat] /\ window \in [Players -> Nat \X Nat]
        /\ humans \in [Players -> SUBSET Players] /\ my_sent \in [Players -> 0 .. CountMod - 1]
    BY <1>0, <1>1 DEF InitFrames
  <2>8. /\ DoList \in [Players -> Seq(GoodEvents)] /\ sent \in [Players -> Seq(GoodEvents)]
        /\ chan \in [Players -> [Players -> Seq(GoodPackets)]]
        /\ DOMAIN executed = Players /\ DOMAIN timing = Players
    BY <1>0 DEF InitFrames
  <2> QED BY <2>1, <2>2, <2>3, <2>4, <2>5, <2>6, <2>7, <2>8 DEF Types
<1>3. ASSUME NEW p \in Players PROVE Multiple(frame[p])
  BY <1>0, MultipleRate DEF InitFrames
<1>4. ASSUME NEW p \in Players PROVE Joined(p)
  <2>0. p \in Nat /\ 1 <= p /\ p <= N
    BY <1>1
  <2>1. conns[p] = [i \in 1 .. N - 1 |-> IF i < p THEN i ELSE i + 1]
    BY <1>0 DEF InitFrames
  <2>2. DOMAIN conns[p] = 1 .. N - 1 /\ Len(conns[p]) = N - 1
    BY <1>1, <2>1
  <2>3. \A i \in 1 .. N - 1 : conns[p][i] = IF i < p THEN i ELSE i + 1
    BY <2>1
  <2>4. IsInjective(conns[p])
    BY <1>1, <2>0, <2>2, <2>3 DEF IsInjective
  <2>5. \A q : q \in Range(conns[p]) <=> q \in Players \ {p}
    <3>1. ASSUME NEW q \in Range(conns[p]) PROVE q \in Players \ {p}
      <4>1. PICK i \in 1 .. N - 1 : q = conns[p][i]
        BY <2>2 DEF Range
      <4> QED BY <1>1, <2>0, <2>3, <4>1
    <3>2. ASSUME NEW q \in Players \ {p} PROVE q \in Range(conns[p])
      <4>1. CASE q < p
        <5>1. q \in 1 .. N - 1 /\ conns[p][q] = q
          BY <1>1, <2>0, <2>3, <4>1
        <5> QED BY <2>2, <5>1 DEF Range
      <4>2. CASE ~ (q < p)
        <5>1. q - 1 \in 1 .. N - 1 /\ ~ (q - 1 < p) /\ q - 1 + 1 = q
          BY <1>1, <2>0, <4>2
        <5>2. conns[p][q - 1] = q
          BY <2>3, <5>1
        <5> QED BY <2>2, <5>1, <5>2 DEF Range
      <4> QED BY <4>1, <4>2
    <3> QED BY <3>1, <3>2
  <2>6. humans[p] = Players /\ phase[p] # "left"
    BY <1>0 DEF InitFrames, Init, Started
  <2> QED BY <1>1, <2>2, <2>4, <2>5, <2>6 DEF Joined
<1>5. ASSUME NEW p \in Players PROVE Told(p)
  <2>1. ASSUME NEW i \in DOMAIN conns[p]
        PROVE  /\ their_frame[p][i] <= frame[conns[p][i]]
               /\ their_frame[p][i] = -1 \/ Multiple(their_frame[p][i])
    <3>1. i \in 1 .. N - 1
      BY <1>0 DEF InitFrames
    <3>2. conns[p][i] \in Players
      <4>1. conns[p] \in Seq(Players)
        BY <1>2 DEF Types
      <4> QED BY <4>1
    <3>3. frame[conns[p][i]] = 0
      BY <1>0, <3>2 DEF InitFrames
    <3>4. their_frame[p] \in {[j \in 1 .. N - 1 |-> 0], [j \in 1 .. N - 1 |-> -1]}
      BY DEF Init, Started
    <3>5. their_frame[p][i] \in {0, -1}
      BY <3>1, <3>4
    <3> QED BY <3>3, <3>5, MultipleRate
  <2>2. ASSUME NEW q \in Players, NEW k \in info[p][q] \cup Range(chan[p][q])
        PROVE  k.frame <= frame[p] /\ Multiple(k.frame)
    <3>1. chan[p][q] = << >> /\ frame[p] = 0
      BY <1>0 DEF InitFrames
    <3>2. k \in info[p][q]
      BY <3>1 DEF Range
    <3>3. k = Packet(0, 0, << >>)
      BY <3>2 DEF Init, Started
    <3> QED BY <3>1, <3>3, MultipleRate DEF Packet
  <2> QED BY <2>1, <2>2 DEF Told
<1> QED BY <1>2, <1>3, <1>4, <1>5 DEF Basic

-----------------------------------------------------------------------------
(* What a player's events do to its state. *)

States ==
  [MaxAhead : Leads, window : Nat \X Nat, humans : SUBSET Players, conns : Seq(Players),
   frames : Marks, sents : Marks, recvs : Marks, active : BOOLEAN]

\* The state st comes from p's state now: what is left of the connections has
\* the marks it had.
FromState(p, st) ==
  /\ st \in States
  /\ IsInjective(st.conns) /\ Len(st.conns) <= N - 1
  /\ p \in st.humans /\ p \notin Range(st.conns)
  /\ st.active => Range(st.conns) = st.humans \ {p}
  /\ ~ st.active => st.conns = << >>
  /\ st.humans \subseteq humans[p]
  /\ \A i \in DOMAIN st.conns : \E j \in DOMAIN conns[p] :
       /\ st.conns[i] = conns[p][j] /\ st.frames[i] = their_frame[p][j]
       /\ st.sents[i] = their_sent[p][j] /\ st.recvs[i] = their_recv[p][j]

LEMMA StateFrom ==
  ASSUME Basic, NEW p \in Players, phase[p] # "left"
  PROVE  FromState(p, State(p))
<1>1. State(p) \in States
  BY DEF Basic, Types, State, States
<1>2. Joined(p)
  BY DEF Basic
<1> QED BY <1>1, <1>2 DEF Joined, FromState, State

LEMMA DestroyFrom ==
  ASSUME NEW p \in Players, NEW st, FromState(p, st), NEW q
  PROVE  /\ FromState(p, Destroy_Connection(st, q))
         /\ Destroy_Connection(st, q).active = st.active
         /\ Destroy_Connection(st, q).MaxAhead = st.MaxAhead
         /\ Destroy_Connection(st, q).window = st.window
         /\ Range(Destroy_Connection(st, q).conns) \subseteq Range(st.conns)
         /\ st.active /\ q # p => Destroy_Connection(st, q).humans = st.humans \ {q}
<1>1. CASE ~ \E i \in DOMAIN st.conns : st.conns[i] = q
  <2>1. Destroy_Connection(st, q) = st
    BY <1>1 DEF Destroy_Connection
  <2>2. q \notin Range(st.conns)
    BY <1>1 DEF Range
  <2>3. st.active /\ q # p => st.humans \ {q} = st.humans
    BY <2>2 DEF FromState
  <2> QED BY <2>1, <2>3
<1>2. CASE \E i \in DOMAIN st.conns : st.conns[i] = q
  <2> DEFINE at == CHOOSE i \in DOMAIN st.conns : st.conns[i] = q
             Shift(a) == [i \in DOMAIN a |-> IF at <= i /\ i < Len(st.conns) THEN a[i + 1] ELSE a[i]]
             c == RemoveAt(st.conns, at)
             next == [st EXCEPT !.conns = c, !.humans = @ \ {q}, !.frames = Shift(@),
                                !.sents = Shift(@), !.recvs = Shift(@)]
  <2>1. Destroy_Connection(st, q) = next
    BY <1>2 DEF Destroy_Connection
  <2>2. at \in DOMAIN st.conns /\ st.conns[at] = q
    BY <1>2
  <2>3. st \in States /\ st.conns \in Seq(Players) /\ IsInjective(st.conns) /\ Len(st.conns) <= N - 1
    BY DEF FromState, States
  <2>4. Len(st.conns) \in Nat /\ DOMAIN st.conns = 1 .. Len(st.conns) /\ N \in Nat
    BY <2>3, LockstepAssumption
  <2> HIDE DEF at
  <2>5. /\ c \in Seq(Players) /\ Len(c) = Len(st.conns) - 1
        /\ \A j \in 1 .. Len(st.conns) - 1 : c[j] = IF j < at THEN st.conns[j] ELSE st.conns[j + 1]
    BY <2>2, <2>3, RemoveAtIs
  <2> HIDE DEF c
  <2>6. DOMAIN c = 1 .. Len(st.conns) - 1
    BY <2>4, <2>5
  <2>7. ASSUME NEW a \in Marks
        PROVE  /\ Shift(a) \in Marks
               /\ \A j \in 1 .. Len(st.conns) - 1 : Shift(a)[j] = IF j < at THEN a[j] ELSE a[j + 1]
    <3>1. \A j \in 1 .. Len(st.conns) - 1 : j \in 1 .. N - 1 /\ j < Len(st.conns)
      BY <2>3, <2>4
    <3>2. \A j \in 1 .. N - 1 : j < Len(st.conns) => j + 1 \in 1 .. N - 1
      BY <2>3, <2>4
    <3>3. DOMAIN a = 1 .. N - 1
      BY DEF Marks
    <3>4. \A j \in 1 .. N - 1 : Shift(a)[j] \in Nat \cup {-1}
      BY <3>2, <3>3 DEF Marks
    <3>5. Shift(a) \in Marks
      BY <3>3, <3>4 DEF Marks
    <3>6. ASSUME NEW j \in 1 .. Len(st.conns) - 1
          PROVE  Shift(a)[j] = IF j < at THEN a[j] ELSE a[j + 1]
      <4>1. j \in DOMAIN a /\ j < Len(st.conns)
        BY <3>1, <3>3
      <4>2. at \in Nat /\ j \in Nat
        BY <2>2, <2>4
      <4> QED BY <4>1, <4>2
    <3> QED BY <3>5, <3>6
  <2>8. next \in States
    BY <2>3, <2>5, <2>7 DEF States
  <2>9. /\ next.conns = c /\ next.humans = st.humans \ {q} /\ next.frames = Shift(st.frames)
        /\ next.sents = Shift(st.sents) /\ next.recvs = Shift(st.recvs)
        /\ next.active = st.active /\ next.MaxAhead = st.MaxAhead /\ next.window = st.window
    BY <2>3 DEF States
  <2>10. st.frames \in Marks /\ st.sents \in Marks /\ st.recvs \in Marks
    BY <2>3 DEF States
  <2> HIDE DEF next, Shift
  <2>11. IsInjective(c)
    <3>1. SUFFICES ASSUME NEW j \in 1 .. Len(st.conns) - 1, NEW k \in 1 .. Len(st.conns) - 1, c[j] = c[k]
                   PROVE  j = k
      BY <2>6 DEF IsInjective
    <3>2. \A x, y \in 1 .. Len(st.conns) : st.conns[x] = st.conns[y] => x = y
      BY <2>3, <2>4 DEF IsInjective
    <3> DEFINE x == IF j < at THEN j ELSE j + 1
               y == IF k < at THEN k ELSE k + 1
    <3>3. x \in 1 .. Len(st.conns) /\ y \in 1 .. Len(st.conns) /\ st.conns[x] = st.conns[y]
      BY <2>4, <2>5, <3>1
    <3>4. x = y
      BY <3>2, <3>3
    <3> QED BY <2>2, <2>4, <3>4
  <2>12. ASSUME NEW j \in 1 .. Len(st.conns) - 1
         PROVE  \E k \in DOMAIN st.conns :
                  /\ k # at /\ c[j] = st.conns[k] /\ Shift(st.frames)[j] = st.frames[k]
                  /\ Shift(st.sents)[j] = st.sents[k] /\ Shift(st.recvs)[j] = st.recvs[k]
    <3> DEFINE k == IF j < at THEN j ELSE j + 1
    <3>1. k \in DOMAIN st.conns /\ k # at
      BY <2>2, <2>4
    <3>2. c[j] = st.conns[k]
      BY <2>5
    <3>3. /\ Shift(st.frames)[j] = st.frames[k] /\ Shift(st.sents)[j] = st.sents[k]
          /\ Shift(st.recvs)[j] = st.recvs[k]
      BY <2>7, <2>10
    <3> QED BY <3>1, <3>2, <3>3
  <2>13. Range(c) = Range(st.conns) \ {q}
    <3>1. ASSUME NEW r \in Range(c) PROVE r \in Range(st.conns) \ {q}
      <4>1. PICK j \in 1 .. Len(st.conns) - 1 : r = c[j]
        BY <2>6 DEF Range
      <4>2. PICK k \in DOMAIN st.conns : k # at /\ c[j] = st.conns[k]
        BY <2>12
      <4>3. st.conns[k] # st.conns[at]
        BY <2>2, <2>3, <4>2 DEF IsInjective
      <4> QED BY <2>2, <4>1, <4>2, <4>3 DEF Range
    <3>2. ASSUME NEW r \in Range(st.conns) \ {q} PROVE r \in Range(c)
      <4>1. PICK k \in 1 .. Len(st.conns) : r = st.conns[k]
        BY <2>4 DEF Range
      <4>2. k # at
        BY <2>2, <4>1
      <4> DEFINE j == IF k < at THEN k ELSE k - 1
      <4>3. j \in 1 .. Len(st.conns) - 1 /\ (IF j < at THEN j ELSE j + 1) = k
        BY <2>2, <2>4, <4>2
      <4>4. c[j] = st.conns[k]
        BY <2>5, <4>3
      <4> QED BY <2>6, <4>1, <4>3, <4>4 DEF Range
    <3> QED BY <3>1, <3>2
  <2>14. FromState(p, next)
    <3>1. Len(c) <= N - 1
      BY <2>3, <2>4, <2>5
    <3>2. q # p
      BY <2>2 DEF FromState, Range
    <3>3. p \in next.humans /\ p \notin Range(c) /\ next.humans \subseteq humans[p]
      BY <2>9, <2>13, <3>2 DEF FromState
    <3>4. next.active => Range(c) = next.humans \ {p}
      BY <2>9, <2>13 DEF FromState
    <3>5. next.active
      BY <2>2, <2>4, <2>9 DEF FromState
    <3>6. ASSUME NEW i \in DOMAIN c
          PROVE  \E j \in DOMAIN conns[p] :
                   /\ c[i] = conns[p][j] /\ next.frames[i] = their_frame[p][j]
                   /\ next.sents[i] = their_sent[p][j] /\ next.recvs[i] = their_recv[p][j]
      <4>1. PICK k \in DOMAIN st.conns :
                  /\ k # at /\ c[i] = st.conns[k] /\ Shift(st.frames)[i] = st.frames[k]
                  /\ Shift(st.sents)[i] = st.sents[k] /\ Shift(st.recvs)[i] = st.recvs[k]
        BY <2>6, <2>12
      <4>2. PICK j \in DOMAIN conns[p] :
                   /\ st.conns[k] = conns[p][j] /\ st.frames[k] = their_frame[p][j]
                   /\ st.sents[k] = their_sent[p][j] /\ st.recvs[k] = their_recv[p][j]
        BY DEF FromState
      <4> QED BY <2>9, <4>1, <4>2
    <3> QED BY <2>8, <2>9, <2>11, <3>1, <3>3, <3>4, <3>5, <3>6 DEF FromState
  <2> QED BY <2>1, <2>9, <2>13, <2>14
<1> QED BY <1>1, <1>2

\* What an event of another player does to MaxAhead, window and humans.
After(t, e) ==
  CASE e.type = "COMMAND" -> t
    [] e.type = "TIMING" ->
         [t EXCEPT !.window = IF e.arg > t.MaxAhead THEN << e.Frame, e.Frame + e.arg >> ELSE @,
                   !.MaxAhead = e.arg]
    [] e.type = "EXIT" -> [t EXCEPT !.humans = @ \ {e.ID}]

TimingOf(st) == Timing(st.MaxAhead, st.window, st.humans)

LEMMA ExecuteFrom ==
  ASSUME NEW p \in Players, NEW st, FromState(p, st), NEW e \in GoodEvents
  PROVE  LET next == ExecuteEvent(p, st, e)
         IN  /\ FromState(p, next)
             /\ Range(next.conns) \subseteq Range(st.conns)
             /\ next.active => st.active /\ TimingOf(next) = After(TimingOf(st), e)
<1> DEFINE next == ExecuteEvent(p, st, e)
<1>0. /\ e \in Event /\ e.type \in {"COMMAND", "TIMING", "EXIT"} /\ e.Frame \in Nat
      /\ e.arg \in Nat /\ e.ID \in Players /\ (e.type = "TIMING" => e.arg \in Leads)
  BY LeadsGood DEF GoodEvents, Event
<1>1. CASE e.type = "COMMAND"
  <2>1. next = st
    BY <1>1 DEF ExecuteEvent
  <2>2. After(TimingOf(st), e) = TimingOf(st)
    BY <1>1 DEF After
  <2> QED BY <2>1, <2>2
<1>2. CASE e.type = "TIMING"
  <2> DEFINE w == IF e.arg > st.MaxAhead THEN << e.Frame, e.Frame + e.arg >> ELSE st.window
  <2>1. next = [st EXCEPT !.window = w, !.MaxAhead = e.arg]
    BY <1>2 DEF ExecuteEvent
  <2>2. st \in States /\ e.arg \in Leads /\ w \in Nat \X Nat
    BY <1>0, <1>2 DEF FromState, States
  <2> HIDE DEF w
  <2>3. /\ next \in States /\ next.window = w /\ next.MaxAhead = e.arg /\ next.humans = st.humans
        /\ next.conns = st.conns /\ next.frames = st.frames /\ next.sents = st.sents
        /\ next.recvs = st.recvs /\ next.active = st.active
    BY <2>1, <2>2 DEF States
  <2> HIDE DEF next
  <2>4. FromState(p, next)
    BY <2>3 DEF FromState
  <2>5. TimingOf(next) = Timing(e.arg, w, st.humans)
    BY <2>3 DEF TimingOf
  <2>6. After(TimingOf(st), e) = Timing(e.arg, w, st.humans)
    BY <1>2 DEF After, TimingOf, Timing, w
  <2> QED BY <2>3, <2>4, <2>5, <2>6 DEF next
<1>3. CASE e.type = "EXIT" /\ e.ID = p
  <2> DEFINE none == << >>
  <2>1. next = [st EXCEPT !.active = FALSE, !.conns = none]
    BY <1>3 DEF ExecuteEvent
  <2>2. st \in States /\ none \in Seq(Players)
    BY DEF FromState
  <2> HIDE DEF none
  <2>3. /\ next \in States /\ next.humans = st.humans
        /\ next.conns = none /\ next.active = FALSE
    BY <2>1, <2>2 DEF States
  <2> HIDE DEF next
  <2>4. Range(next.conns) = {} /\ DOMAIN next.conns = {} /\ Len(next.conns) = 0
    BY <2>3 DEF Range, none
  <2>5. FromState(p, next)
    BY <2>3, <2>4, LockstepAssumption DEF FromState, IsInjective, none
  <2> QED BY <2>3, <2>4, <2>5 DEF next
<1>4. CASE e.type = "EXIT" /\ e.ID # p
  <2>1. next = Destroy_Connection(st, e.ID)
    BY <1>4 DEF ExecuteEvent
  <2>2. /\ FromState(p, next) /\ next.active = st.active
        /\ next.MaxAhead = st.MaxAhead /\ next.window = st.window
        /\ Range(next.conns) \subseteq Range(st.conns)
        /\ st.active => next.humans = st.humans \ {e.ID}
    BY <1>4, <2>1, DestroyFrom
  <2>3. After(TimingOf(st), e) = Timing(st.MaxAhead, st.window, st.humans \ {e.ID})
    BY <1>4 DEF After, TimingOf, Timing
  <2> QED BY <2>2, <2>3 DEF TimingOf
<1> HIDE DEF next
<1> QED BY <1>0, <1>1, <1>2, <1>3, <1>4 DEF next

(* After any events in turn.  As long as p has not left, what they do to    *)
(* MaxAhead, window and humans depends on the events alone.                 *)
LEMMA AfterEventsFrom ==
  ASSUME NEW p \in Players, NEW first, FromState(p, first), NEW due \in Seq(GoodEvents)
  PROVE  LET last == AfterEvents(p, first, due)
         IN  /\ FromState(p, last)
             /\ last.active => first.active
             /\ Range(last.conns) \subseteq Range(first.conns)
             /\ last.active => \E t : /\ t[0] = TimingOf(first) /\ t[Len(due)] = TimingOf(last)
                                      /\ \A i \in 1 .. Len(due) : t[i] = After(t[i - 1], due[i])
<1>1. Len(due) \in Nat /\ \A i \in 1 .. Len(due) : due[i] \in GoodEvents
  OBVIOUS
<1>9. PICK st : Runs(st, p, first, due, Len(due)) /\ AfterEvents(p, first, due) = st[Len(due)]
  BY <1>1, AfterEventsRuns
<1> DEFINE n == Len(due)
           last == AfterEvents(p, first, due)
<1>2. /\ st[0] = first /\ st[n] = last /\ n \in Nat /\ \A i \in 1 .. n : due[i] \in GoodEvents
      /\ \A i \in 1 .. n : st[i] = ExecuteEvent(p, st[i - 1], due[i])
  BY <1>1, <1>9 DEF Runs
<1> DEFINE t == [i \in 0 .. n |-> TimingOf(st[i])]
           I == {k \in 0 .. n : /\ FromState(p, st[k])
                                /\ Range(st[k].conns) \subseteq Range(first.conns)
                                /\ st[k].active => first.active /\ \A i \in 1 .. k : t[i] = After(t[i - 1], due[i])}
<1> HIDE DEF n, last
<1>3. 0 \in I
  BY <1>2
<1>4. ASSUME NEW k \in 0 .. n - 1, k \in I PROVE k + 1 \in I
  <2>1. /\ FromState(p, st[k]) /\ Range(st[k].conns) \subseteq Range(first.conns)
        /\ st[k].active => first.active /\ \A i \in 1 .. k : t[i] = After(t[i - 1], due[i])
    BY <1>4
  <2> HIDE DEF I
  <2>2. PICK m \in 1 .. n : m = k + 1 /\ m - 1 = k /\ m \in 0 .. n /\ k \in 0 .. n
    BY <1>2
  <2>3. st[m] = ExecuteEvent(p, st[k], due[m]) /\ due[m] \in GoodEvents
    BY <1>2, <2>2
  <2> DEFINE now == st[k]
             e == due[m]
             next == ExecuteEvent(p, now, e)
  <2>9. FromState(p, now) /\ e \in GoodEvents
    BY <2>1, <2>3
  <2> HIDE DEF now, e
  <2>10. /\ FromState(p, next) /\ Range(next.conns) \subseteq Range(now.conns)
         /\ next.active => now.active /\ TimingOf(next) = After(TimingOf(now), e)
    BY <2>9, ExecuteFrom
  <2>4. /\ FromState(p, st[m]) /\ Range(st[m].conns) \subseteq Range(st[k].conns)
        /\ st[m].active => st[k].active /\ TimingOf(st[m]) = After(TimingOf(st[k]), due[m])
    BY <2>3, <2>10 DEF now, e
  <2> HIDE DEF next
  <2>5. t[m] = TimingOf(st[m]) /\ t[m - 1] = TimingOf(st[k])
    BY <2>2
  <2> HIDE DEF t
  <2>6. \A i \in 1 .. m : i \in 1 .. k \/ i = m
    BY <2>2
  <2>7. st[m].active => \A i \in 1 .. m : t[i] = After(t[i - 1], due[i])
    BY <2>1, <2>2, <2>4, <2>5, <2>6
  <2>8. m \in I
    BY <2>1, <2>2, <2>4, <2>7 DEF I
  <2> QED BY <2>2, <2>8
<1>5. n \in I
  <2> HIDE DEF I
  <2>1. n \in 0 .. n
    BY <1>2
  <2> QED BY <1>2, <1>3, <1>4, <2>1, UpTo
<1>6. t[0] = TimingOf(first) /\ t[n] = TimingOf(last)
  BY <1>2
<1>7. last.active => first.active /\ \A i \in 1 .. n : t[i] = After(t[i - 1], due[i])
  BY <1>2, <1>5
<1> HIDE DEF t
<1> QED BY <1>2, <1>5, <1>6, <1>7 DEF n, last

-----------------------------------------------------------------------------
(* What p sends, and what is due. *)

Whats == {<< "COMMAND", 0 >>, << "EXIT", 0 >>} \cup {<< "TIMING", m >> : m \in MaxAheads}

LEMMA WithTimingIs ==
  ASSUME NEW p \in Players, NEW list \in Seq(Whats), NEW l \in WithTiming(p, list)
  PROVE  l = list \/ \E i \in 1 .. Len(list) + 1 : \E m \in MaxAheads :
                        l = InsertAt(list, i, << "TIMING", m >>)
<1> DEFINE places == 1 .. Len(list) + 1
           with(i, m) == InsertAt(list, i, << "TIMING", m >>)
           all == {with(i, m) : i \in places, m \in MaxAheads}
<1>1. WithTiming(p, list) =
        {list} \cup IF Am_I_Master(p) /\ TimingDue(p) THEN all ELSE {}
  BY DEF WithTiming
<1> HIDE DEF places, with
<1>2. l = list \/ \E i \in places : \E m \in MaxAheads : l = with(i, m)
  <2>1. l = list \/ l \in all
    <3> HIDE DEF all
    <3> QED BY <1>1
  <2>2. ASSUME l \in all
        PROVE  \E i \in places : \E m \in MaxAheads : l = with(i, m)
    BY <2>2
  <2> QED BY <2>1, <2>2
<1> QED BY <1>2 DEF places, with

LEMMA WithTimingType ==
  ASSUME NEW p \in Players, NEW list \in Seq(Whats), NEW l \in WithTiming(p, list)
  PROVE  l \in Seq(Whats)
<1> SUFFICES ASSUME NEW i \in 1 .. Len(list) + 1, NEW m \in MaxAheads,
                    l = InsertAt(list, i, << "TIMING", m >>)
             PROVE  l \in Seq(Whats)
  BY WithTimingIs
<1> DEFINE what == << "TIMING", m >>
           before == SubSeq(list, 1, i - 1)
           after == SubSeq(list, i, Len(list))
<1>1. what \in Whats
  BY DEF Whats
<1>2. l = before \o << what >> \o after
  BY DEF InsertAt
<1>3. before \in Seq(Whats) /\ after \in Seq(Whats)
  <2>1. Len(list) \in Nat /\ i \in Nat /\ i - 1 \in 0 .. Len(list)
    OBVIOUS
  <2> QED BY <2>1
<1>4. << what >> \in Seq(Whats)
  <2> HIDE DEF what
  <2> QED BY <1>1
<1> DEFINE one == << what >>
<1> HIDE DEF before, after, one
<1>5. before \o one \in Seq(Whats)
  BY <1>3, <1>4 DEF one
<1>6. (before \o one) \o after \in Seq(Whats)
  <2> DEFINE two == before \o one
  <2> HIDE DEF two
  <2>1. two \in Seq(Whats)
    BY <1>5 DEF two
  <2>2. two \o after \in Seq(Whats)
    BY <1>3, <2>1
  <2> QED BY <2>2 DEF two
<1> QED BY <1>2, <1>6 DEF one

LEMMA OutListIs ==
  ASSUME Basic, NEW p \in Players, NEW out \in OutLists(p)
  PROVE  /\ out \in Seq(GoodEvents)
         /\ \A i \in DOMAIN out : /\ out[i].ID = p /\ out[i].num = Len(sent[p]) + i
                                  /\ out[i].at = frame[p] /\ out[i].Frame = ExecFrame(p)
<1>1. PICK list \in Seq(Whats) : out = [i \in DOMAIN list |-> NewEvent(p, i, list[i])]
  <2> DEFINE given == Cardinality({i \in DOMAIN sent[p] : sent[p][i].type # "TIMING"})
             commands(k) == [i \in 1 .. k |-> << "COMMAND", 0 >>]
             exits(k) == IF p \in Leavers /\ k < MaxCommands[p] - given
                         THEN {<< >>, << << "EXIT", 0 >> >>} ELSE {<< >>}
             of(k) == UNION {WithTiming(p, commands(k) \o e) : e \in exits(k)}
             lists == UNION {of(k) : k \in 0 .. MaxCommands[p] - given}
  <2>1. OutLists(p) = {[i \in DOMAIN list |-> NewEvent(p, i, list[i])] : list \in lists}
    BY DEF OutLists
  <2>2. \A k : exits(k) \subseteq Seq(Whats)
    <3> DEFINE what == << "EXIT", 0 >>
    <3>1. what \in Whats
      BY DEF Whats
    <3>2. \A k : \A e \in exits(k) : e = << >> \/ e = << what >>
      OBVIOUS
    <3> HIDE DEF what, exits
    <3>3. << >> \in Seq(Whats) /\ << what >> \in Seq(Whats)
      BY <3>1
    <3> QED BY <3>2, <3>3
  <2>3. \A k \in Nat : commands(k) \in Seq(Whats)
    BY DEF Whats
  <2> HIDE DEF exits, commands
  <2>4. ASSUME NEW k \in 0 .. MaxCommands[p] - given, NEW list \in of(k)
        PROVE  list \in Seq(Whats)
    <3>1. PICK e \in exits(k) : list \in WithTiming(p, commands(k) \o e)
      BY <2>4
    <3> DEFINE c == commands(k)
    <3>2. c \in Seq(Whats) /\ e \in Seq(Whats)
      <4>1. k \in Nat
        OBVIOUS
      <4> QED BY <2>2, <2>3, <4>1
    <3> HIDE DEF c
    <3>3. c \o e \in Seq(Whats)
      BY <3>2
    <3>4. list \in WithTiming(p, c \o e)
      BY <3>1 DEF c
    <3> QED BY <3>3, <3>4, WithTimingType
  <2>5. lists \subseteq Seq(Whats)
    <3> HIDE DEF of
    <3> QED BY <2>4
  <2> HIDE DEF lists
  <2> QED BY <2>1, <2>5
<1>2. DOMAIN list = 1 .. Len(list) /\ Len(list) \in Nat /\ \A i \in DOMAIN list : list[i] \in Whats
  BY <1>1
<1>3. /\ frame[p] \in Nat /\ ExecFrame(p) \in Nat /\ Len(sent[p]) \in Nat
  <2>1. frame[p] \in Nat /\ MaxAhead[p] \in Nat /\ sent[p] \in Seq(GoodEvents)
    BY DEF Basic, Types, Leads
  <2>2. frame[p] + MaxAhead[p] \in Nat /\ Len(sent[p]) \in Nat
    BY <2>1
  <2> QED BY <2>1, <2>2, RoundUpType DEF ExecFrame
<1>4. ASSUME NEW i \in DOMAIN list
      PROVE  /\ NewEvent(p, i, list[i]) \in GoodEvents
             /\ NewEvent(p, i, list[i]).ID = p /\ NewEvent(p, i, list[i]).num = Len(sent[p]) + i
             /\ NewEvent(p, i, list[i]).at = frame[p] /\ NewEvent(p, i, list[i]).Frame = ExecFrame(p)
  <2>1. /\ list[i][1] \in {"COMMAND", "TIMING", "EXIT"} /\ list[i][2] \in Nat
        /\ (list[i][1] = "TIMING" => list[i][2] \in MaxAheads)
    BY <1>2, MaxAheadAssumption DEF Whats
  <2>2. Len(sent[p]) + i \in Nat
    BY <1>2, <1>3
  <2> QED BY <1>3, <2>1, <2>2 DEF NewEvent, GoodEvents, Event
<1>5. out \in Seq(GoodEvents)
  BY <1>1, <1>2, <1>4
<1> QED BY <1>1, <1>4, <1>5

\* Send_Packets hands out's events to packets, in order: the i-th packet
\* takes those after upto[i - 1] up to upto[i].
Split(p, out, n, upto) ==
  /\ upto \in [0 .. n -> 0 .. Len(out)]
  /\ Packets(p, out) = [i \in 1 .. n |->
       Packet(frame[p], my_sent[p], SubSeq(out, upto[i - 1] + 1, upto[i]))]
  /\ upto[0] = 0 /\ upto[n] = Len(out)
  /\ \A i \in 1 .. n : upto[i - 1] < upto[i]

LEMMA PacketsAre ==
  ASSUME NEW p, NEW E, NEW out \in Seq(E)
  PROVE  \E n \in Nat : \E upto : Split(p, out, n, upto)
<1> DEFINE L == Len(out)
           n == (L + EventsPerPacket - 1) \div EventsPerPacket
           upto == [i \in 0 .. n |-> IF i * EventsPerPacket < L THEN i * EventsPerPacket ELSE L]
<1>0. L \in Nat /\ EventsPerPacket \in Nat /\ EventsPerPacket > 0
  BY LockstepAssumption
<1> HIDE DEF L
<1>1. n \in Nat /\ n * EventsPerPacket >= L /\ (n - 1) * EventsPerPacket < L
  <2> DEFINE r == (L + EventsPerPacket - 1) % EventsPerPacket
  <2>1. L + EventsPerPacket - 1 \in Nat
    BY <1>0
  <2>2. n \in Nat /\ r \in 0 .. EventsPerPacket - 1
    BY <1>0, <2>1
  <2>3. L + EventsPerPacket - 1 = n * EventsPerPacket + r
    BY <1>0, <2>1
  <2> HIDE DEF n, r
  <2>4. (n - 1) * EventsPerPacket = n * EventsPerPacket - EventsPerPacket
    BY <1>0, <2>2
  <2>5. n * EventsPerPacket \in Int
    BY <1>0, <2>2
  <2> QED BY <1>0, <2>2, <2>3, <2>4, <2>5
<1>2. Packets(p, out) = [i \in 1 .. n |->
         Packet(frame[p], my_sent[p],
                SubSeq(out, (i - 1) * EventsPerPacket + 1,
                            IF i * EventsPerPacket < L THEN i * EventsPerPacket ELSE L))]
  BY DEF Packets, L
<1> HIDE DEF n
<1>3. \A i \in 0 .. n : i * EventsPerPacket \in Nat
  BY <1>0, <1>1
<1>4. ASSUME NEW i \in 1 .. n
      PROVE  (i - 1) * EventsPerPacket < L /\ i * EventsPerPacket = (i - 1) * EventsPerPacket + EventsPerPacket
  <2>1. (i - 1) * EventsPerPacket <= (n - 1) * EventsPerPacket
    <3>1. i - 1 \in Int /\ n - 1 \in Int /\ i - 1 <= n - 1
      BY <1>1
    <3> QED BY <1>0, <3>1
  <2>2. i * EventsPerPacket = (i - 1) * EventsPerPacket + EventsPerPacket
    BY <1>0, <1>1
  <2>3. (i - 1) * EventsPerPacket \in Int /\ (n - 1) * EventsPerPacket \in Int
    BY <1>0, <1>1
  <2> QED BY <1>0, <1>1, <2>1, <2>2, <2>3
<1>5. \A i \in 1 .. n : i - 1 \in 0 .. n /\ i \in 0 .. n
  BY <1>1
<1>6. upto \in [0 .. n -> 0 .. L]
  BY <1>0, <1>3
<1>7. upto[0] = 0
  <2>1. 0 \in 0 .. n /\ 0 * EventsPerPacket = 0
    BY <1>0, <1>1
  <2> QED BY <1>0, <2>1
<1>8. upto[n] = L
  <2>1. n \in 0 .. n
    BY <1>1
  <2> QED BY <1>0, <1>1, <1>3, <2>1
<1>9. \A i \in 1 .. n : upto[i - 1] = (i - 1) * EventsPerPacket
  BY <1>4, <1>5
<1>10. ASSUME NEW i \in 1 .. n PROVE upto[i - 1] < upto[i]
  <2>1. upto[i] = IF i * EventsPerPacket < L THEN i * EventsPerPacket ELSE L
    BY <1>5
  <2>2. (i - 1) * EventsPerPacket \in Nat /\ i * EventsPerPacket \in Nat
    BY <1>3, <1>5
  <2> QED BY <1>0, <1>4, <1>9, <2>1, <2>2
<1>11. Packets(p, out) = [i \in 1 .. n |->
           Packet(frame[p], my_sent[p], SubSeq(out, upto[i - 1] + 1, upto[i]))]
  BY <1>2, <1>5, <1>9
<1> HIDE DEF upto
<1>12. Split(p, out, n, upto)
  BY <1>6, <1>7, <1>8, <1>10, <1>11 DEF L, Split
<1> QED BY <1>1, <1>12

LEMMA PacketsType ==
  ASSUME Basic, NEW p \in Players, NEW out \in Seq(GoodEvents)
  PROVE  Packets(p, out) \in Seq(GoodPackets)
<1>1. PICK n \in Nat : \E upto : Split(p, out, n, upto)
  BY PacketsAre
<1>3. PICK upto : Split(p, out, n, upto)
  BY <1>1
<1>2. ASSUME NEW i \in 1 .. n
      PROVE  Packet(frame[p], my_sent[p], SubSeq(out, upto[i - 1] + 1, upto[i])) \in GoodPackets
  <2>1. i - 1 \in 0 .. n /\ i \in 0 .. n
    OBVIOUS
  <2>2. upto[i - 1] \in 0 .. Len(out) /\ upto[i] \in 0 .. Len(out) /\ Len(out) \in Nat
    BY <1>3, <2>1 DEF Split
  <2>3. SubSeq(out, upto[i - 1] + 1, upto[i]) \in Seq(GoodEvents)
    BY <2>2
  <2>4. frame[p] \in Nat /\ my_sent[p] \in 0 .. CountMod - 1
    BY DEF Basic, Types
  <2> QED BY <2>3, <2>4 DEF Packet, GoodPackets
<1> QED BY <1>2, <1>3 DEF Split

LEMMA DueIs ==
  ASSUME Basic, NEW p \in Players
  PROVE  /\ Rescheduled(p) \in Seq(GoodEvents) /\ DOMAIN Rescheduled(p) = DOMAIN DoList[p]
         /\ \A i \in DOMAIN DoList[p] :
              Rescheduled(p)[i] = [DoList[p][i] EXCEPT !.Frame = PutOff(@, window[p])]
         /\ Due(p) \in Seq(GoodEvents)
         /\ \A i \in DOMAIN Due(p) :
              \E j \in DOMAIN DoList[p] : /\ Due(p)[i] = Rescheduled(p)[j]
                                          /\ Due(p)[i].ID \in humans[p] /\ Due(p)[i].Frame <= frame[p]
<1>1. DoList[p] \in Seq(GoodEvents) /\ window[p] \in Nat \X Nat
  BY DEF Basic, Types
<1>2. \A e \in GoodEvents : [e EXCEPT !.Frame = PutOff(@, window[p])] \in GoodEvents
  <2> SUFFICES ASSUME NEW e \in GoodEvents
               PROVE  [e EXCEPT !.Frame = PutOff(@, window[p])] \in GoodEvents
    OBVIOUS
  <2>1. e \in Event /\ e.Frame \in Nat
    BY DEF GoodEvents, Event
  <2>2. PutOff(e.Frame, window[p]) \in Nat
    BY <1>1, <2>1 DEF PutOff
  <2> QED BY <2>1, <2>2 DEF GoodEvents, Event
<1>3. DOMAIN DoList[p] = 1 .. Len(DoList[p]) /\ Len(DoList[p]) \in Nat
  BY <1>1
<1>4. \A i \in DOMAIN DoList[p] : DoList[p][i] \in GoodEvents
  BY <1>1
<1>5. /\ Rescheduled(p) \in Seq(GoodEvents) /\ DOMAIN Rescheduled(p) = DOMAIN DoList[p]
      /\ \A i \in DOMAIN DoList[p] :
              Rescheduled(p)[i] = [DoList[p][i] EXCEPT !.Frame = PutOff(@, window[p])]
  BY <1>2, <1>3, <1>4 DEF Rescheduled
<1> DEFINE seqs == [h \in Players |-> Those(Rescheduled(p), DueOf(p, h))]
<1>6. seqs \in [1 .. N -> Seq(GoodEvents)] /\ N \in Nat \ {0}
  BY <1>5, ThoseKeep, LockstepAssumption DEF Players
<1>7. Due(p) = FlattenSeq(seqs)
  BY DEF Due
<1> HIDE DEF seqs
<1>8. /\ Due(p) \in Seq(GoodEvents)
      /\ \A i \in DOMAIN Due(p) :
           \E h \in 1 .. N : \E j \in DOMAIN seqs[h] : Due(p)[i] = seqs[h][j]
  BY <1>6, <1>7, FlattenType
<1>9. ASSUME NEW i \in DOMAIN Due(p)
      PROVE  \E j \in DOMAIN DoList[p] : /\ Due(p)[i] = Rescheduled(p)[j]
                                         /\ Due(p)[i].ID \in humans[p] /\ Due(p)[i].Frame <= frame[p]
  <2>1. PICK h \in 1 .. N : \E j \in DOMAIN seqs[h] : Due(p)[i] = seqs[h][j]
    BY <1>8
  <2>4. PICK j \in DOMAIN seqs[h] : Due(p)[i] = seqs[h][j]
    BY <2>1
  <2>2. seqs[h] = Those(Rescheduled(p), DueOf(p, h))
    BY DEF seqs, Players
  <2>3. PICK k \in DOMAIN Rescheduled(p) :
          /\ Those(Rescheduled(p), DueOf(p, h))[j] = Rescheduled(p)[k]
          /\ Rescheduled(p)[k] \in DueOf(p, h)
    BY <1>5, <2>2, <2>4, ThoseKeep
  <2> QED BY <1>5, <2>2, <2>3, <2>4 DEF DueOf
<1> QED BY <1>5, <1>8, <1>9

-----------------------------------------------------------------------------
(* Basic, action by action. *)

\* A variable of one value a player, changed for p only.
LEMMA ExceptType ==
  ASSUME NEW S, NEW f \in [Players -> S], NEW p \in Players, NEW x \in S
  PROVE  /\ [f EXCEPT ![p] = x] \in [Players -> S] /\ [f EXCEPT ![p] = x][p] = x
         /\ \A q \in Players : q # p => [f EXCEPT ![p] = x][q] = f[q]
  OBVIOUS

LEMMA SetStateIs ==
  ASSUME Basic, NEW p \in Players, NEW st, FromState(p, st), SetState(p, st)
  PROVE  /\ MaxAhead' \in [Players -> Leads] /\ window' \in [Players -> Nat \X Nat]
         /\ humans' \in [Players -> SUBSET Players] /\ conns' \in [Players -> Seq(Players)]
         /\ their_frame' \in [Players -> Marks] /\ their_sent' \in [Players -> Marks]
         /\ their_recv' \in [Players -> Marks]
         /\ chan' \in [Players -> [Players -> Seq(GoodPackets)]]
         /\ info' \in [Players -> [Players -> SUBSET GoodPackets]]
         /\ MaxAhead'[p] = st.MaxAhead /\ window'[p] = st.window /\ humans'[p] = st.humans
         /\ conns'[p] = st.conns /\ their_frame'[p] = st.frames /\ their_sent'[p] = st.sents
         /\ their_recv'[p] = st.recvs
         /\ \A q \in Players \ {p} :
              /\ MaxAhead'[q] = MaxAhead[q] /\ window'[q] = window[q] /\ humans'[q] = humans[q]
              /\ conns'[q] = conns[q] /\ their_frame'[q] = their_frame[q]
              /\ their_sent'[q] = their_sent[q] /\ their_recv'[q] = their_recv[q]
<1>1. st \in States
  BY DEF FromState
<1>2. /\ st.MaxAhead \in Leads /\ st.window \in Nat \X Nat /\ st.humans \in SUBSET Players
      /\ st.conns \in Seq(Players) /\ st.frames \in Marks /\ st.sents \in Marks /\ st.recvs \in Marks
  BY <1>1 DEF States
<1>3. MaxAhead' = [MaxAhead EXCEPT ![p] = st.MaxAhead] /\ window' = [window EXCEPT ![p] = st.window]
  BY DEF SetState
<1>4. humans' = [humans EXCEPT ![p] = st.humans] /\ conns' = [conns EXCEPT ![p] = st.conns]
  BY DEF SetState
<1>5. /\ their_frame' = [their_frame EXCEPT ![p] = st.frames]
      /\ their_sent' = [their_sent EXCEPT ![p] = st.sents]
      /\ their_recv' = [their_recv EXCEPT ![p] = st.recvs]
  BY DEF SetState
<1>6. MaxAhead \in [Players -> Leads] /\ window \in [Players -> Nat \X Nat]
  BY DEF Basic, Types
<1>7. humans \in [Players -> SUBSET Players] /\ conns \in [Players -> Seq(Players)]
  BY DEF Basic, Types
<1>8. /\ their_frame \in [Players -> Marks] /\ their_sent \in [Players -> Marks]
      /\ their_recv \in [Players -> Marks]
  BY DEF Basic, Types
<1> DEFINE closed == Range(conns[p]) \ Range(st.conns)
<1>9. CloseConnections(p, closed)
  BY DEF SetState
<1> HIDE DEF closed
<1>10. chan \in [Players -> [Players -> Seq(GoodPackets)]] /\ info \in [Players -> [Players -> SUBSET GoodPackets]]
  BY DEF Basic, Types
<1>11. PICK lost \in SUBSET closed : \E kept \in [lost -> 0 .. MaxFrame] :
       /\ \A q \in lost : kept[q] < Len(chan[p][q])
       /\ chan' = [r \in Players |-> [q \in Players |->
                    IF r = p /\ q \in lost THEN SubSeq(chan[p][q], 1, kept[q])
                    ELSE IF q = p /\ r \in closed THEN << >>
                    ELSE chan[r][q]]]
  BY <1>9 DEF CloseConnections
<1>12. PICK kept \in [lost -> 0 .. MaxFrame] :
       /\ \A q \in lost : kept[q] < Len(chan[p][q])
       /\ chan' = [r \in Players |-> [q \in Players |->
                    IF r = p /\ q \in lost THEN SubSeq(chan[p][q], 1, kept[q])
                    ELSE IF q = p /\ r \in closed THEN << >>
                    ELSE chan[r][q]]]
  BY <1>11
<1>13. chan' \in [Players -> [Players -> Seq(GoodPackets)]]
  <2>1. ASSUME NEW r \in Players, NEW q \in Players
        PROVE  (IF r = p /\ q \in lost THEN SubSeq(chan[p][q], 1, kept[q])
                    ELSE IF q = p /\ r \in closed THEN << >>
                    ELSE chan[r][q]) \in Seq(GoodPackets)
    <3>1. CASE r = p /\ q \in lost
      <4>1. chan[p][q] \in Seq(GoodPackets) /\ kept[q] \in Nat /\ kept[q] <= Len(chan[p][q])
        BY <1>10, <1>12, <3>1
      <4>2. SubSeq(chan[p][q], 1, kept[q]) \in Seq(GoodPackets)
        BY <4>1
      <4> QED BY <3>1, <4>2
    <3>2. CASE ~ (r = p /\ q \in lost)
      <4>1. chan[r][q] \in Seq(GoodPackets)
        BY <1>10
      <4> QED BY <3>2, <4>1
    <3> QED BY <3>1, <3>2
  <2> QED BY <1>12, <2>1
<1>14. info' \in [Players -> [Players -> SUBSET GoodPackets]]
  <2>1. info' = [r \in Players |-> IF r \in closed THEN [info[r] EXCEPT ![p] = {}] ELSE info[r]]
    BY <1>9 DEF CloseConnections
  <2> QED BY <1>10, <2>1
<1> QED BY <1>2, <1>3, <1>4, <1>5, <1>6, <1>7, <1>8, <1>13, <1>14

\* What is on the way after p has closed connections: beginnings of what was.
LEMMA SetStateKeeps ==
  ASSUME Basic, NEW p \in Players, NEW st, FromState(p, st), SetState(p, st)
  PROVE  /\ \A r, q \in Players : \E m \in Nat : /\ m <= Len(chan[r][q])
                                                 /\ chan'[r][q] = SubSeq(chan[r][q], 1, m)
         /\ \A r, q \in Players : info'[r][q] \subseteq info[r][q]
         /\ \A r, q \in Players : ~ (r = p /\ q \in Range(conns[p]) \ Range(st.conns))
                               /\ ~ (q = p /\ r \in Range(conns[p]) \ Range(st.conns))
                               => chan'[r][q] = chan[r][q]
<1> DEFINE closed == Range(conns[p]) \ Range(st.conns)
<1>1. CloseConnections(p, closed)
  BY DEF SetState
<1> HIDE DEF closed
<1>2. chan \in [Players -> [Players -> Seq(GoodPackets)]] /\ info \in [Players -> [Players -> SUBSET GoodPackets]]
  BY DEF Basic, Types
<1>3. PICK lost \in SUBSET closed : \E kept \in [lost -> 0 .. MaxFrame] :
       /\ \A q \in lost : kept[q] < Len(chan[p][q])
       /\ chan' = [r \in Players |-> [q \in Players |->
                    IF r = p /\ q \in lost THEN SubSeq(chan[p][q], 1, kept[q])
                    ELSE IF q = p /\ r \in closed THEN << >>
                    ELSE chan[r][q]]]
  BY <1>1 DEF CloseConnections
<1>4. PICK kept \in [lost -> 0 .. MaxFrame] :
       /\ \A q \in lost : kept[q] < Len(chan[p][q])
       /\ chan' = [r \in Players |-> [q \in Players |->
                    IF r = p /\ q \in lost THEN SubSeq(chan[p][q], 1, kept[q])
                    ELSE IF q = p /\ r \in closed THEN << >>
                    ELSE chan[r][q]]]
  BY <1>3
<1>5. ASSUME NEW r \in Players, NEW q \in Players
      PROVE  \E m \in Nat : m <= Len(chan[r][q]) /\ chan'[r][q] = SubSeq(chan[r][q], 1, m)
  <2>1. chan[r][q] \in Seq(GoodPackets) /\ Len(chan[r][q]) \in Nat
    BY <1>2
  <2>2. chan'[r][q] = IF r = p /\ q \in lost THEN SubSeq(chan[p][q], 1, kept[q])
                      ELSE IF q = p /\ r \in closed THEN << >> ELSE chan[r][q]
    BY <1>4
  <2>3. CASE r = p /\ q \in lost
    <3>1. kept[q] \in Nat /\ kept[q] <= Len(chan[p][q])
      BY <1>4, <2>1, <2>3
    <3> QED BY <2>2, <2>3, <3>1
  <2>4. CASE ~ (r = p /\ q \in lost) /\ q = p /\ r \in closed
    <3>1. SubSeq(chan[r][q], 1, 0) = << >>
      BY <2>1
    <3> QED BY <2>1, <2>2, <2>4, <3>1
  <2>5. CASE ~ (r = p /\ q \in lost) /\ ~ (q = p /\ r \in closed)
    <3>1. SubSeq(chan[r][q], 1, Len(chan[r][q])) = chan[r][q]
      BY <2>1
    <3> QED BY <2>1, <2>2, <2>5, <3>1
  <2> QED BY <2>3, <2>4, <2>5
<1>6. \A r, q \in Players : info'[r][q] \subseteq info[r][q]
  <2>1. info' = [r \in Players |-> IF r \in closed THEN [info[r] EXCEPT ![p] = {}] ELSE info[r]]
    BY <1>1 DEF CloseConnections
  <2> QED BY <1>2, <2>1
<1>7. \A r, q \in Players : ~ (r = p /\ q \in closed) /\ ~ (q = p /\ r \in closed)
                            => chan'[r][q] = chan[r][q]
  BY <1>4
<1> QED BY <1>5, <1>6, <1>7 DEF closed

\* Joined and Told after such a step.
LEMMA SetStateTold ==
  ASSUME Basic, NEW p \in Players, NEW st, FromState(p, st), SetState(p, st),
         frame' \in [Players -> Nat], \A q \in Players : frame[q] <= frame'[q],
         phase' \in [Players -> Phases], \A q \in Players \ {p} : phase'[q] = phase[q],
         (phase'[p] # "left" => Range(st.conns) = st.humans \ {p}),
         (phase'[p] = "left" => st.conns = << >>)
  PROVE  \A q \in Players : Joined(q)' /\ Told(q)'
<1>1. /\ conns'[p] = st.conns /\ their_frame'[p] = st.frames /\ humans'[p] = st.humans
      /\ conns' \in [Players -> Seq(Players)] /\ their_frame' \in [Players -> Marks]
      /\ chan' \in [Players -> [Players -> Seq(GoodPackets)]]
      /\ \A q \in Players \ {p} : /\ conns'[q] = conns[q] /\ humans'[q] = humans[q]
                                  /\ their_frame'[q] = their_frame[q]
  BY SetStateIs
<1>2. /\ \A r, q \in Players : \E m \in Nat : /\ m <= Len(chan[r][q])
                                              /\ chan'[r][q] = SubSeq(chan[r][q], 1, m)
      /\ \A r, q \in Players : info'[r][q] \subseteq info[r][q]
  BY SetStateKeeps
<1>3. ASSUME NEW q \in Players PROVE Joined(q) /\ Told(q)
  BY DEF Basic
<1>4. ASSUME NEW q \in Players PROVE Joined(q)'
  <2>1. CASE q = p
    BY <1>1, <2>1 DEF Joined, FromState
  <2>2. CASE q # p
    BY <1>1, <1>3, <2>2 DEF Joined
  <2> QED BY <2>1, <2>2
<1>5. ASSUME NEW q \in Players PROVE Told(q)'
  <2>1. ASSUME NEW i \in DOMAIN conns'[q]
        PROVE  /\ their_frame'[q][i] <= frame'[conns'[q][i]]
               /\ their_frame'[q][i] = -1 \/ Multiple(their_frame'[q][i])
    <3>1. PICK j \in DOMAIN conns[q] : conns'[q][i] = conns[q][j] /\ their_frame'[q][i] = their_frame[q][j]
      <4>1. CASE q = p
        <5>1. i \in DOMAIN st.conns
          BY <1>1, <4>1
        <5>2. PICK j \in DOMAIN conns[p] : st.conns[i] = conns[p][j] /\ st.frames[i] = their_frame[p][j]
          BY <5>1 DEF FromState
        <5> QED BY <1>1, <4>1, <5>2
      <4>2. CASE q # p
        BY <1>1, <4>2
      <4> QED BY <4>1, <4>2
    <3>2. /\ their_frame[q][j] <= frame[conns[q][j]]
          /\ their_frame[q][j] = -1 \/ Multiple(their_frame[q][j])
      BY <1>3 DEF Told
    <3>3. conns[q][j] \in Players /\ frame[conns[q][j]] \in Nat /\ frame'[conns[q][j]] \in Nat
      <4>1. conns[q][j] \in Players
        BY PlayerTypes
      <4> QED BY <4>1, PlayerTypes
    <3>4. their_frame[q][j] \in Int
      BY <3>2 DEF Multiple
    <3> QED BY <3>1, <3>2, <3>3, <3>4
  <2>2. ASSUME NEW r \in Players, NEW k \in info'[q][r] \cup Range(chan'[q][r])
        PROVE  k.frame <= frame'[q] /\ Multiple(k.frame)
    <3>1. k \in info[q][r] \cup Range(chan[q][r])
      <4>1. CASE k \in info'[q][r]
        BY <1>2, <4>1
      <4>2. CASE k \in Range(chan'[q][r])
        <5>1. PICK m \in Nat : m <= Len(chan[q][r]) /\ chan'[q][r] = SubSeq(chan[q][r], 1, m)
          BY <1>2
        <5>2. chan[q][r] \in Seq(GoodPackets)
          BY DEF Basic, Types
        <5>3. PICK i \in DOMAIN chan'[q][r] : k = chan'[q][r][i]
          BY <4>2 DEF Range
        <5>4. i \in DOMAIN chan[q][r] /\ k = chan[q][r][i]
          BY <5>1, <5>2, <5>3
        <5> QED BY <5>4 DEF Range
      <4> QED BY <4>1, <4>2
    <3>2. k.frame <= frame[q] /\ Multiple(k.frame)
      BY <1>3, <3>1 DEF Told
    <3>3. frame[q] \in Nat /\ frame'[q] \in Nat
      BY DEF Basic, Types
    <3> QED BY <3>2, <3>3 DEF Multiple
  <2> QED BY <2>1, <2>2 DEF Told
<1> QED BY <1>4, <1>5

\* A packet without events that p sends now.
LEMMA BroadcastIs ==
  ASSUME Basic, NEW p \in Players, Broadcast(p, FrameSync(p))
  PROVE  /\ info' \in [Players -> [Players -> SUBSET GoodPackets]]
         /\ \A q, r \in Players : \A k \in info'[q][r] :
              k \in info[q][r] \/ (q = p /\ k = FrameSync(p) /\ Connected(p, r))
<1>1. FrameSync(p) \in GoodPackets
  BY PlayerTypes DEF FrameSync, Packet, GoodPackets
<1>2. PICK reached \in SUBSET {q \in Players : Connected(p, q) /\ Tells(p, q, FrameSync(p))} :
        info' = [info EXCEPT ![p] = [q \in Players |->
                   IF q \in reached THEN @[q] \cup {FrameSync(p)} ELSE @[q]]]
  BY DEF Broadcast
<1>3. info \in [Players -> [Players -> SUBSET GoodPackets]]
  BY DEF Basic, Types
<1> DEFINE new == [q \in Players |-> IF q \in reached THEN info[p][q] \cup {FrameSync(p)} ELSE info[p][q]]
<1>4. info' = [info EXCEPT ![p] = new]
  BY <1>2
<1>5. new \in [Players -> SUBSET GoodPackets]
  BY <1>1, <1>3
<1>6. \A r \in Players : \A k \in new[r] : k \in info[p][r] \/ (k = FrameSync(p) /\ Connected(p, r))
  OBVIOUS
<1> HIDE DEF new
<1> QED BY <1>3, <1>4, <1>5, <1>6

LEMMA ToldAfterInfo ==
  ASSUME Basic, UNCHANGED << frame, conns, their_frame, chan >>, NEW p \in Players,
         \A q, r \in Players : \A k \in info'[q][r] : k \in info[q][r] \/ (q = p /\ k = FrameSync(p))
  PROVE  \A q \in Players : Told(q)'
<1>1. ASSUME NEW q \in Players PROVE Told(q)'
  <2>1. Told(q)
    BY DEF Basic
  <2>2. ASSUME NEW r \in Players, NEW k \in info'[q][r] \cup Range(chan'[q][r])
        PROVE  k.frame <= frame'[q] /\ Multiple(k.frame)
    <3>1. CASE k \in info[q][r] \cup Range(chan[q][r])
      BY <2>1, <3>1 DEF Told
    <3>2. CASE q = p /\ k = FrameSync(p)
      <4>1. k.frame = frame[q]
        BY <3>2 DEF FrameSync, Packet
      <4> QED BY <4>1, PlayerTypes
    <3> QED BY <3>1, <3>2
  <2> QED BY <2>1, <2>2 DEF Told
<1> QED BY <1>1

LEMMA BasicFrameSync == ASSUME Basic, NEW p \in Players, Send_FrameSync(p) PROVE Basic'
<1>1. /\ UNCHANGED << phase, frame, MaxAhead, window, humans, my_sent, conns, their_frame, their_sent,
                      their_recv, DoList, chan, sent, executed, timing >>
      /\ Broadcast(p, FrameSync(p))
  BY DEF Send_FrameSync, local, peers, history
<1>2. /\ info' \in [Players -> [Players -> SUBSET GoodPackets]]
      /\ \A q, r \in Players : \A k \in info'[q][r] : k \in info[q][r] \/ (q = p /\ k = FrameSync(p))
  BY <1>1, BroadcastIs
<1>3. \A q \in Players : Told(q)'
  BY <1>1, <1>2, ToldAfterInfo
<1>4. Types'
  BY <1>1, <1>2 DEF Basic, Types
<1>5. \A q \in Players : Multiple(frame[q])' /\ Joined(q)'
  BY <1>1 DEF Basic, Joined
<1> QED BY <1>3, <1>4, <1>5 DEF Basic

LEMMA BasicAllReady == ASSUME Basic, NEW p \in Players, AllReady(p) PROVE Basic'
<1>1. /\ UNCHANGED << frame, MaxAhead, window, humans, my_sent, conns, their_sent,
                      their_recv, DoList, chan, info, sent, executed, timing >>
      /\ phase[p] = "ready" /\ phase' = [phase EXCEPT ![p] = "send"]
      /\ their_frame' = [their_frame EXCEPT ![p] = [i \in DOMAIN @ |-> 0]]
  BY DEF AllReady, local, history
<1>2. [i \in DOMAIN their_frame[p] |-> 0] \in Marks
  BY PlayerTypes DEF Marks
<1>3. Types'
  <2>1. phase' \in [Players -> Phases]
    BY <1>1 DEF Basic, Types, Phases
  <2>2. their_frame' \in [Players -> Marks]
    BY <1>1, <1>2 DEF Basic, Types
  <2> QED BY <1>1, <2>1, <2>2 DEF Basic, Types
<1>4. ASSUME NEW q \in Players PROVE Multiple(frame[q])' /\ Joined(q)' /\ Told(q)'
  <2>1. Multiple(frame[q]) /\ Joined(q) /\ Told(q)
    BY DEF Basic
  <2>2. phase'[q] = "left" <=> phase[q] = "left"
    BY <1>1 DEF Basic, Types
  <2>3. ASSUME NEW i \in DOMAIN conns[q]
        PROVE  /\ their_frame'[q][i] <= frame[conns[q][i]]
               /\ their_frame'[q][i] = -1 \/ Multiple(their_frame'[q][i])
    <3>1. CASE q = p
      <4>1. i \in DOMAIN their_frame[p] /\ conns[q][i] \in Players
        BY <3>1, PlayerTypes DEF Marks
      <4>2. their_frame'[q] = [j \in DOMAIN their_frame[p] |-> 0]
        BY <1>1, <3>1 DEF Basic, Types
      <4>3. their_frame'[q][i] = 0
        BY <4>1, <4>2
      <4>4. frame[conns[q][i]] \in Nat
        BY <4>1, PlayerTypes
      <4> QED BY <4>3, <4>4, MultipleRate
    <3>2. CASE q # p
      <4>1. their_frame'[q] = their_frame[q]
        BY <1>1, <3>2 DEF Basic, Types
      <4> QED BY <2>1, <4>1 DEF Told
    <3> QED BY <3>1, <3>2
  <2> QED BY <1>1, <2>1, <2>2, <2>3 DEF Joined, Told
<1> QED BY <1>3, <1>4 DEF Basic

LEMMA BasicSendPackets == ASSUME Basic, NEW p \in Players, Send_Packets(p) PROVE Basic'
<1>1. /\ UNCHANGED << MaxAhead, window, humans, conns, their_frame, their_sent, their_recv, executed >>
      /\ phase[p] = "send"
  BY DEF Send_Packets, peers
<1>2. PICK out \in OutLists(p) :
       /\ DoList' = [DoList EXCEPT ![p] = @ \o out]
       /\ chan' = [chan EXCEPT ![p] = [q \in Players |->
                     IF Connected(p, q) /\ Connected(q, p)
                     THEN @[q] \o Packets(p, out) ELSE @[q]]]
       /\ IF out = << >> THEN Broadcast(p, FrameSync(p)) ELSE UNCHANGED info
       /\ my_sent' = [my_sent EXCEPT ![p] = (@ + CountedEvents(out)) % CountMod]
       /\ sent' = [sent EXCEPT ![p] = @ \o out]
  BY DEF Send_Packets
<1>3. out \in Seq(GoodEvents) /\ Packets(p, out) \in Seq(GoodPackets)
  BY OutListIs, PacketsType
<1>4. /\ phase' \in [Players -> Phases] /\ frame' \in [Players -> Nat]
      /\ \A q \in Players : frame[q] <= frame'[q] /\ Multiple(frame'[q])
      /\ \A q \in Players : phase'[q] = "left" <=> phase[q] = "left"
      /\ DOMAIN timing' = Players
  <2>1. phase \in [Players -> Phases] /\ frame \in [Players -> Nat] /\ DOMAIN timing = Players
    BY DEF Basic, Types
  <2>2. \A q \in Players : Multiple(frame[q])
    BY DEF Basic
  <2>3. CASE frame[p] = 0
    <3>1. /\ frame' = [frame EXCEPT ![p] = FrameSendRate] /\ UNCHANGED phase
          /\ timing' = [timing EXCEPT ![p] = Recorded(@, FrameSendRate, @[0])]
      BY <2>3 DEF Send_Packets
    <3> QED BY <2>1, <2>2, <2>3, <3>1, MultipleRate, RatePositive
  <2>4. CASE frame[p] # 0
    <3>1. phase' = [phase EXCEPT ![p] = "wait"] /\ UNCHANGED << frame, timing >>
      BY <2>4 DEF Send_Packets
    <3> QED BY <1>1, <2>1, <2>2, <3>1 DEF Phases
  <2> QED BY <2>3, <2>4
<1>5. /\ info' \in [Players -> [Players -> SUBSET GoodPackets]]
      /\ \A q, r \in Players : \A k \in info'[q][r] : k \in info[q][r] \/ (q = p /\ k = FrameSync(p))
  <2>1. CASE out = << >>
    BY <1>2, <2>1, BroadcastIs
  <2>2. CASE out # << >>
    BY <1>2, <2>2 DEF Basic, Types
  <2> QED BY <2>1, <2>2
<1>6. DoList' \in [Players -> Seq(GoodEvents)] /\ sent' \in [Players -> Seq(GoodEvents)]
  <2>1. DoList[p] \in Seq(GoodEvents) /\ sent[p] \in Seq(GoodEvents)
    BY PlayerTypes
  <2>2. DoList[p] \o out \in Seq(GoodEvents) /\ sent[p] \o out \in Seq(GoodEvents)
    BY <1>3, <2>1
  <2>3. DoList \in [Players -> Seq(GoodEvents)] /\ sent \in [Players -> Seq(GoodEvents)]
    BY DEF Basic, Types
  <2> QED BY <1>2, <2>2, <2>3
<1>7. my_sent' \in [Players -> 0 .. CountMod - 1]
  <2>1. my_sent[p] \in Nat /\ Len(out) \in Nat /\ CountMod \in Nat /\ CountMod > 0
    BY <1>3, PlayerTypes, LockstepAssumption
  <2>2. (my_sent[p] + Len(out)) % CountMod \in 0 .. CountMod - 1
    BY <2>1
  <2>3. my_sent \in [Players -> 0 .. CountMod - 1]
    BY DEF Basic, Types
  <2>4. my_sent' = [my_sent EXCEPT ![p] = (my_sent[p] + Len(out)) % CountMod]
    BY <1>2 DEF CountedEvents
  <2> QED BY <2>2, <2>3, <2>4
<1>8. /\ chan' \in [Players -> [Players -> Seq(GoodPackets)]]
      /\ \A q, r \in Players : chan'[q][r] = chan[q][r] \/ (q = p /\ chan'[q][r] = chan[q][r] \o Packets(p, out))
  <2> DEFINE new == [q \in Players |-> IF Connected(p, q) /\ Connected(q, p)
                                       THEN chan[p][q] \o Packets(p, out) ELSE chan[p][q]]
  <2>1. chan' = [chan EXCEPT ![p] = new]
    BY <1>2
  <2>2. ASSUME NEW q \in Players
        PROVE  /\ new[q] \in Seq(GoodPackets)
               /\ new[q] = chan[p][q] \/ new[q] = chan[p][q] \o Packets(p, out)
    <3>1. chan[p][q] \in Seq(GoodPackets)
      BY PacketTypes
    <3>2. chan[p][q] \o Packets(p, out) \in Seq(GoodPackets)
      BY <1>3, <3>1
    <3> QED BY <3>1, <3>2
  <2>3. new = [q \in Players |-> new[q]]
    OBVIOUS
  <2> HIDE DEF new
  <2>4. new \in [Players -> Seq(GoodPackets)]
    BY <2>2, <2>3
  <2>5. chan \in [Players -> [Players -> Seq(GoodPackets)]]
    BY DEF Basic, Types
  <2> QED BY <2>1, <2>2, <2>4, <2>5
<1>9. Types'
  BY <1>1, <1>4, <1>5, <1>6, <1>7, <1>8 DEF Basic, Types
<1>10. ASSUME NEW q \in Players PROVE Joined(q)'
  BY <1>1, <1>4 DEF Basic, Joined
<1>11. ASSUME NEW q \in Players PROVE Told(q)'
  <2>1. Told(q) /\ frame[q] <= frame'[q] /\ frame[q] \in Nat /\ frame'[q] \in Nat
    BY <1>4 DEF Basic, Types
  <2>2. ASSUME NEW i \in DOMAIN conns[q]
        PROVE  /\ their_frame[q][i] <= frame'[conns[q][i]]
               /\ their_frame[q][i] = -1 \/ Multiple(their_frame[q][i])
    <3>1. conns[q][i] \in Players /\ frame[conns[q][i]] \in Nat /\ frame'[conns[q][i]] \in Nat
      BY <1>4, PlayerTypes
    <3>2. /\ their_frame[q][i] <= frame[conns[q][i]]
          /\ their_frame[q][i] = -1 \/ Multiple(their_frame[q][i])
      BY <2>1 DEF Told
    <3>3. frame[conns[q][i]] <= frame'[conns[q][i]] /\ their_frame[q][i] \in Int
      BY <1>4, <3>1, <3>2 DEF Multiple
    <3> QED BY <3>1, <3>2, <3>3
  <2>3. ASSUME NEW r \in Players, NEW k \in info'[q][r] \cup Range(chan'[q][r])
        PROVE  k.frame <= frame'[q] /\ Multiple(k.frame)
    <3>1. CASE k \in info[q][r] \cup Range(chan[q][r])
      BY <2>1, <3>1 DEF Told, Multiple
    <3>2. CASE q = p /\ k.frame = frame[p]
      BY <2>1, <3>2, PlayerTypes
    <3>3. CASE k \in Range(chan'[q][r]) /\ k \notin Range(chan[q][r])
      <4>1. q = p /\ chan'[q][r] = chan[q][r] \o Packets(p, out)
        BY <1>8, <3>3
      <4>2. PICK i \in DOMAIN (chan[q][r] \o Packets(p, out)) : k = (chan[q][r] \o Packets(p, out))[i]
        BY <3>3, <4>1 DEF Range
      <4> DEFINE a == chan[q][r]
                 b == Packets(p, out)
      <4>3. a \in Seq(GoodPackets) /\ b \in Seq(GoodPackets)
        BY <1>3, PacketTypes
      <4> HIDE DEF a, b
      <4>4. \A j \in DOMAIN (a \o b) : (a \o b)[j] \in Range(a) \/ (a \o b)[j] \in Range(b)
        BY <4>3 DEF Range
      <4>5. k \in Range(b)
        BY <3>3, <4>2, <4>4 DEF a, b
      <4>6. PICK n \in Nat : \E upto : Split(p, out, n, upto)
        BY <1>3, PacketsAre
      <4>7. PICK upto : Split(p, out, n, upto)
        BY <4>6
      <4>8. PICK m \in 1 .. n : k = Packet(frame[p], my_sent[p], SubSeq(out, upto[m - 1] + 1, upto[m]))
        BY <4>5, <4>7 DEF b, Split, Range
      <4>9. k.frame = frame[p]
        BY <4>8 DEF Packet
      <4> QED BY <3>2, <4>1, <4>9
    <3>4. CASE k \in info'[q][r] /\ k \notin info[q][r]
      <4>1. q = p /\ k = FrameSync(p)
        BY <1>5, <3>4
      <4> QED BY <3>2, <4>1 DEF FrameSync, Packet
    <3> QED BY <3>1, <3>3, <3>4
  <2> QED BY <1>1, <2>2, <2>3 DEF Told
<1> QED BY <1>4, <1>9, <1>10, <1>11 DEF Basic

\* What a packet does to the receiver.
\* What Process_Receive_Packet makes of the packet k.
Processed(p, q, k) ==
  /\ Place(p, q) \in DOMAIN conns[p] /\ Place(p, q) \in 1 .. N - 1 /\ conns[p][Place(p, q)] = q
  /\ UNCHANGED << phase, frame, MaxAhead, window, humans, my_sent, conns, sent, executed, timing >>
  /\ their_frame' \in [Players -> Marks] /\ their_sent' \in [Players -> Marks]
  /\ their_recv' \in [Players -> Marks]
  /\ \A r \in Players : \A i \in 1 .. N - 1 :
       ~ (r = p /\ i = Place(p, q)) => /\ their_frame'[r][i] = their_frame[r][i]
                                       /\ their_sent'[r][i] = their_sent[r][i]
                                       /\ their_recv'[r][i] = their_recv[r][i]
  /\ their_frame'[p][Place(p, q)] = IF their_frame[p][Place(p, q)] < k.frame
                                    THEN k.frame ELSE their_frame[p][Place(p, q)]
  /\ their_sent'[p][Place(p, q)] = IF their_sent[p][Place(p, q)] < k.CommandCount
                                   THEN k.CommandCount ELSE their_sent[p][Place(p, q)]
  /\ their_recv'[p][Place(p, q)] = (their_recv[p][Place(p, q)] + Len(k.events)) % CountMod
  /\ DoList' \in [Players -> Seq(GoodEvents)] /\ DoList'[p] = DoList[p] \o k.events
  /\ \A r \in Players : r # p => DoList'[r] = DoList[r]
  /\ info' \in [Players -> [Players -> SUBSET GoodPackets]]
  /\ \A r, o \in Players : info'[r][o] \subseteq info[r][o]

LEMMA ProcessIs ==
  ASSUME Basic, NEW p \in Players, NEW q \in Players, Listening(p, q), NEW k \in GoodPackets,
         Process_Receive_Packet(p, q, k)
  PROVE  Processed(p, q, k)
<1> DEFINE i == Place(p, q)
<1>1. i \in DOMAIN conns[p] /\ i \in 1 .. N - 1 /\ conns[p][i] = q
  BY PlaceIs, PlayerTypes DEF Listening
<1>2. /\ UNCHANGED << phase, frame, MaxAhead, window, humans, my_sent, conns, sent, executed, timing >>
      /\ their_frame' = [their_frame EXCEPT ![p][i] = IF @ < k.frame THEN k.frame ELSE @]
      /\ their_sent' = [their_sent EXCEPT ![p][i] = IF @ < k.CommandCount THEN k.CommandCount ELSE @]
      /\ their_recv' = [their_recv EXCEPT ![p][i] = (@ + Len(k.events)) % CountMod]
      /\ DoList' = [DoList EXCEPT ![p] = @ \o k.events]
      /\ info' = [info EXCEPT ![q][p] = {x \in @ : \/ phase[p] = "ready" /\ 0 < x.frame /\ x # k
                                                   \/ x.frame > their_frame'[p][i]
                                                   \/ x.CommandCount > their_sent'[p][i]}]
  BY DEF Process_Receive_Packet, local, history
<1> HIDE DEF i
<1>3. k.frame \in Nat /\ k.CommandCount \in Nat /\ k.events \in Seq(GoodEvents) /\ Len(k.events) \in Nat
  <2>1. k.frame \in Nat /\ k.CommandCount \in 0 .. CountMod - 1 /\ k.events \in Seq(GoodEvents)
    BY DEF GoodPackets
  <2> QED BY <2>1
<1>4. /\ their_frame \in [Players -> Marks] /\ their_sent \in [Players -> Marks]
      /\ their_recv \in [Players -> Marks]
  BY DEF Basic, Types
<1>11. /\ their_frame' \in [Players -> Marks]
       /\ \A r \in Players : \A j \in 1 .. N - 1 :
              ~ (r = p /\ j = i) => their_frame'[r][j] = their_frame[r][j]
       /\ their_frame'[p][i] = IF their_frame[p][i] < k.frame THEN k.frame ELSE their_frame[p][i]
  BY <1>1, <1>2, <1>3, <1>4 DEF Marks
<1>12. /\ their_sent' \in [Players -> Marks]
       /\ \A r \in Players : \A j \in 1 .. N - 1 :
              ~ (r = p /\ j = i) => their_sent'[r][j] = their_sent[r][j]
       /\ their_sent'[p][i] = IF their_sent[p][i] < k.CommandCount THEN k.CommandCount ELSE their_sent[p][i]
  BY <1>1, <1>2, <1>3, <1>4 DEF Marks
<1>5. /\ their_frame' \in [Players -> Marks] /\ their_sent' \in [Players -> Marks]
      /\ \A r \in Players : \A j \in 1 .. N - 1 :
              ~ (r = p /\ j = i) => /\ their_frame'[r][j] = their_frame[r][j]
                                    /\ their_sent'[r][j] = their_sent[r][j]
      /\ their_frame'[p][i] = IF their_frame[p][i] < k.frame THEN k.frame ELSE their_frame[p][i]
      /\ their_sent'[p][i] = IF their_sent[p][i] < k.CommandCount THEN k.CommandCount ELSE their_sent[p][i]
  BY <1>11, <1>12
<1>6. (their_recv[p][i] + Len(k.events)) % CountMod \in Nat
  <2>1. their_recv[p][i] \in Int /\ CountMod \in Nat /\ CountMod > 0
    BY <1>1, <1>4, LockstepAssumption DEF Marks
  <2> QED BY <1>3, <2>1
<1>7. /\ their_recv' \in [Players -> Marks]
      /\ \A r \in Players : \A j \in 1 .. N - 1 :
              ~ (r = p /\ j = i) => their_recv'[r][j] = their_recv[r][j]
      /\ their_recv'[p][i] = (their_recv[p][i] + Len(k.events)) % CountMod
  BY <1>1, <1>2, <1>4, <1>6 DEF Marks
<1>8. /\ DoList' \in [Players -> Seq(GoodEvents)] /\ DoList'[p] = DoList[p] \o k.events
      /\ \A r \in Players : r # p => DoList'[r] = DoList[r]
  <2>1. DoList \in [Players -> Seq(GoodEvents)]
    BY DEF Basic, Types
  <2>2. DoList[p] \o k.events \in Seq(GoodEvents)
    BY <1>3, <2>1
  <2> QED BY <1>2, <2>1, <2>2
<1>9. /\ info' \in [Players -> [Players -> SUBSET GoodPackets]]
      /\ \A r, o \in Players : info'[r][o] \subseteq info[r][o]
  <2> DEFINE less == {x \in info[q][p] : \/ phase[p] = "ready" /\ 0 < x.frame /\ x # k
                                         \/ x.frame > their_frame'[p][i]
                                         \/ x.CommandCount > their_sent'[p][i]}
  <2>1. info' = [info EXCEPT ![q][p] = less]
    BY <1>2
  <2>2. less \subseteq info[q][p]
    OBVIOUS
  <2> HIDE DEF less
  <2>3. info \in [Players -> [Players -> SUBSET GoodPackets]]
    BY DEF Basic, Types
  <2> QED BY <2>1, <2>2, <2>3
<1>10. \A r \in Players : \A j \in 1 .. N - 1 :
         ~ (r = p /\ j = Place(p, q)) => /\ their_frame'[r][j] = their_frame[r][j]
                                         /\ their_sent'[r][j] = their_sent[r][j]
                                         /\ their_recv'[r][j] = their_recv[r][j]
  BY <1>5, <1>7 DEF i
<1>13. /\ their_frame'[p][Place(p, q)] = IF their_frame[p][Place(p, q)] < k.frame
                                         THEN k.frame ELSE their_frame[p][Place(p, q)]
       /\ their_sent'[p][Place(p, q)] = IF their_sent[p][Place(p, q)] < k.CommandCount
                                        THEN k.CommandCount ELSE their_sent[p][Place(p, q)]
  BY <1>5 DEF i
<1>14. their_recv'[p][Place(p, q)] = (their_recv[p][Place(p, q)] + Len(k.events)) % CountMod
  BY <1>7 DEF i
<1>15. Place(p, q) \in DOMAIN conns[p] /\ Place(p, q) \in 1 .. N - 1 /\ conns[p][Place(p, q)] = q
  BY <1>1 DEF i
<1>16. UNCHANGED << phase, frame, MaxAhead, window, humans, my_sent, conns, sent, executed, timing >>
  BY <1>2
<1>17. their_frame' \in [Players -> Marks] /\ their_sent' \in [Players -> Marks]
       /\ their_recv' \in [Players -> Marks]
  BY <1>5, <1>7
<1> QED BY <1>8, <1>9, <1>10, <1>13, <1>14, <1>15, <1>16, <1>17 DEF Processed

LEMMA BasicProcess ==
  ASSUME Basic, NEW p \in Players, NEW q \in Players, Listening(p, q), NEW k \in GoodPackets,
         Process_Receive_Packet(p, q, k), k.frame <= frame[q], Multiple(k.frame),
         chan' \in [Players -> [Players -> Seq(GoodPackets)]],
         \A r, o \in Players : Range(chan'[r][o]) \subseteq Range(chan[r][o])
  PROVE  Basic'
<1> DEFINE i == Place(p, q)
<1>0. Processed(p, q, k)
  BY ProcessIs
<1>5. /\ i \in DOMAIN conns[p] /\ i \in 1 .. N - 1 /\ conns[p][i] = q
      /\ UNCHANGED << phase, frame, MaxAhead, window, humans, my_sent, conns, sent, executed, timing >>
  BY <1>0 DEF Processed
<1>6. /\ their_frame' \in [Players -> Marks] /\ their_sent' \in [Players -> Marks]
      /\ their_recv' \in [Players -> Marks]
  BY <1>0 DEF Processed
<1>10. \A r \in Players : \A j \in 1 .. N - 1 :
              ~ (r = p /\ j = Place(p, q)) => /\ their_frame'[r][j] = their_frame[r][j]
                                              /\ their_sent'[r][j] = their_sent[r][j]
                                              /\ their_recv'[r][j] = their_recv[r][j]
  BY <1>0 DEF Processed
<1>7. \A r \in Players : \A j \in 1 .. N - 1 : ~ (r = p /\ j = i) => their_frame'[r][j] = their_frame[r][j]
  BY <1>10
<1>8. their_frame'[p][i] = IF their_frame[p][i] < k.frame THEN k.frame ELSE their_frame[p][i]
  BY <1>0 DEF Processed
<1>9. /\ DoList' \in [Players -> Seq(GoodEvents)]
      /\ info' \in [Players -> [Players -> SUBSET GoodPackets]]
      /\ \A r, o \in Players : info'[r][o] \subseteq info[r][o]
  BY <1>0 DEF Processed
<1> HIDE DEF i
<1>1. /\ i \in DOMAIN conns[p] /\ i \in 1 .. N - 1 /\ conns[p][i] = q
      /\ UNCHANGED << phase, frame, MaxAhead, window, humans, my_sent, conns, sent, executed, timing >>
      /\ their_frame' \in [Players -> Marks] /\ their_sent' \in [Players -> Marks]
      /\ their_recv' \in [Players -> Marks]
      /\ \A r \in Players : \A j \in 1 .. N - 1 :
              ~ (r = p /\ j = i) => their_frame'[r][j] = their_frame[r][j]
      /\ their_frame'[p][i] = IF their_frame[p][i] < k.frame THEN k.frame ELSE their_frame[p][i]
      /\ DoList' \in [Players -> Seq(GoodEvents)]
      /\ info' \in [Players -> [Players -> SUBSET GoodPackets]]
      /\ \A r, o \in Players : info'[r][o] \subseteq info[r][o]
  BY <1>5, <1>6, <1>7, <1>8, <1>9
<1>2. Types'
  BY <1>1 DEF Basic, Types
<1>3. ASSUME NEW r \in Players PROVE Joined(r)' /\ Multiple(frame[r])'
  BY <1>1 DEF Basic, Joined
<1>4. ASSUME NEW r \in Players PROVE Told(r)'
  <2>1. Told(r)
    BY DEF Basic
  <2>2. ASSUME NEW j \in DOMAIN conns[r]
        PROVE  /\ their_frame'[r][j] <= frame[conns[r][j]]
               /\ their_frame'[r][j] = -1 \/ Multiple(their_frame'[r][j])
    <3>1. j \in 1 .. N - 1
      BY PlayerTypes
    <3>2. CASE r = p /\ j = i
      BY <1>1, <2>1, <3>2 DEF Told
    <3>3. CASE ~ (r = p /\ j = i)
      BY <1>1, <2>1, <3>1, <3>3 DEF Told
    <3> QED BY <3>2, <3>3
  <2>3. ASSUME NEW o \in Players, NEW x \in info'[r][o] \cup Range(chan'[r][o])
        PROVE  x.frame <= frame[r] /\ Multiple(x.frame)
    <3>1. x \in info[r][o] \cup Range(chan[r][o])
      BY <1>1
    <3> QED BY <2>1, <3>1 DEF Told
  <2> QED BY <1>1, <2>2, <2>3 DEF Told
<1> QED BY <1>2, <1>3, <1>4 DEF Basic

LEMMA BasicReceiveInfo ==
  ASSUME Basic, NEW p \in Players, NEW q \in Players, ReceiveInfo(p, q) PROVE Basic'
<1>1. Listening(p, q) /\ UNCHANGED chan
  BY DEF ReceiveInfo
<1>2. PICK k \in info[q][p] : Process_Receive_Packet(p, q, k)
  BY DEF ReceiveInfo
<1>3. k \in GoodPackets /\ k.frame <= frame[q] /\ Multiple(k.frame)
  BY PacketTypes
<1>4. chan' \in [Players -> [Players -> Seq(GoodPackets)]]
  BY <1>1 DEF Basic, Types
<1> QED BY <1>1, <1>2, <1>3, <1>4, BasicProcess

LEMMA BasicReceiveCommands ==
  ASSUME Basic, NEW p \in Players, NEW q \in Players, ReceiveCommands(p, q) PROVE Basic'
<1> DEFINE k == Head(chan[q][p])
<1>1. Listening(p, q) /\ chan[q][p] # << >> /\ Process_Receive_Packet(p, q, k)
  BY DEF ReceiveCommands
<1>2. chan' = [chan EXCEPT ![q][p] = Tail(@)]
  BY DEF ReceiveCommands
<1>3. chan[q][p] \in Seq(GoodPackets) /\ Len(chan[q][p]) \in Nat
  BY PacketTypes
<1>4. /\ k = chan[q][p][1] /\ 1 \in DOMAIN chan[q][p] /\ Tail(chan[q][p]) \in Seq(GoodPackets)
      /\ Range(Tail(chan[q][p])) \subseteq Range(chan[q][p])
  BY <1>1, <1>3 DEF Range
<1> HIDE DEF k
<1>5. k \in GoodPackets /\ k.frame <= frame[q] /\ Multiple(k.frame)
  BY <1>4, PacketTypes DEF Range
<1>6. chan \in [Players -> [Players -> Seq(GoodPackets)]]
  BY DEF Basic, Types
<1> DEFINE rest == Tail(chan[q][p])
<1>7. chan' = [chan EXCEPT ![q][p] = rest] /\ rest \in Seq(GoodPackets) /\ Range(rest) \subseteq Range(chan[q][p])
  BY <1>2, <1>4
<1> HIDE DEF rest
<1>8. /\ chan' \in [Players -> [Players -> Seq(GoodPackets)]]
      /\ \A r, o \in Players : chan'[r][o] = IF r = q /\ o = p THEN rest ELSE chan[r][o]
  BY <1>6, <1>7
<1>9. \A r, o \in Players : Range(chan'[r][o]) \subseteq Range(chan[r][o])
  BY <1>7, <1>8
<1> QED BY <1>1, <1>5, <1>8, <1>9, BasicProcess

(* A frame is executed: what the events do, and what is left of the DoList. *)
LEMMA AdvanceIs ==
  ASSUME Basic, NEW p \in Players, Advance(p), ~ TooLate(p)
  PROVE  /\ phase[p] = "wait" /\ Can_Advance(p)
         /\ UNCHANGED << my_sent, sent >>
         /\ frame' \in [Players -> Nat] /\ frame'[p] = frame[p] + FrameSendRate
         /\ \A q \in Players \ {p} : frame'[q] = frame[q]
         /\ DoList' \in [Players -> Seq(GoodEvents)]
         /\ \A q \in Players \ {p} : DoList'[q] = DoList[q]
         /\ phase' \in [Players -> Phases] /\ DOMAIN executed' = Players /\ DOMAIN timing' = Players
         /\ \A q \in Players \ {p} : /\ phase'[q] = phase[q] /\ executed'[q] = executed[q]
                                     /\ timing'[q] = timing[q]
         /\ DoList'[p] = Those(Rescheduled(p),
                               {e \in Range(Rescheduled(p)) :
                                  \/ e.Frame > frame[p]
                                  \/ e.ID \notin humans[p] /\ e.Frame = frame[p]})
         /\ executed'[p] = Recorded(executed[p], frame[p], Due(p))
         /\ \E st : /\ FromState(p, st) /\ SetState(p, st)
                    /\ phase'[p] = IF st.active THEN "send" ELSE "left"
                    /\ timing'[p] = IF st.active
                                    THEN Recorded(timing[p], frame[p] + FrameSendRate, TimingOf(st))
                                    ELSE timing[p]
                    /\ st.active =>
                         \E t : /\ t[0] = Timing(MaxAhead[p], window[p], humans[p])
                                /\ t[Len(Due(p))] = TimingOf(st)
                                /\ \A i \in 1 .. Len(Due(p)) : t[i] = After(t[i - 1], Due(p)[i])
<1> DEFINE st == AfterEvents(p, State(p), Due(p))
           kept == Those(Rescheduled(p), {e \in Range(Rescheduled(p)) :
                                            \/ e.Frame > frame[p]
                                            \/ e.ID \notin humans[p] /\ e.Frame = frame[p]})
<1>1. /\ phase[p] = "wait" /\ Can_Advance(p)
      /\ Execute_DoList(p) /\ Clean_DoList(p)
      /\ frame' = [frame EXCEPT ![p] = @ + FrameSendRate]
      /\ UNCHANGED << my_sent, sent >>
  BY DEF Advance
<1>2. /\ SetState(p, st)
      /\ phase' = [phase EXCEPT ![p] = IF st.active THEN "send" ELSE "left"]
      /\ executed' = [executed EXCEPT ![p] = Recorded(@, frame[p], Due(p))]
      /\ timing' = [timing EXCEPT ![p] =
                      IF st.active
                      THEN Recorded(@, frame[p] + FrameSendRate, TimingOf(st))
                      ELSE @]
  BY <1>1 DEF Execute_DoList, TimingOf
<1>3. FromState(p, State(p)) /\ TimingOf(State(p)) = Timing(MaxAhead[p], window[p], humans[p])
  BY <1>1, StateFrom DEF TimingOf, State
<1>4. Due(p) \in Seq(GoodEvents)
  BY DueIs
<1>5. /\ FromState(p, st)
      /\ st.active => \E t : /\ t[0] = TimingOf(State(p)) /\ t[Len(Due(p))] = TimingOf(st)
                             /\ \A i \in 1 .. Len(Due(p)) : t[i] = After(t[i - 1], Due(p)[i])
  BY <1>3, <1>4, AfterEventsFrom
<1>6. DoList' = [DoList EXCEPT ![p] = kept]
  BY <1>1 DEF Clean_DoList
<1>7. kept \in Seq(GoodEvents)
  BY DueIs, ThoseKeep
<1> HIDE DEF st, kept
<1>8. /\ phase \in [Players -> Phases] /\ DoList \in [Players -> Seq(GoodEvents)]
      /\ frame \in [Players -> Nat] /\ DOMAIN executed = Players /\ DOMAIN timing = Players
  BY DEF Basic, Types
<1>9. frame[p] + FrameSendRate \in Nat
  BY <1>8, RatePositive
<1>10. frame' \in [Players -> Nat] /\ frame'[p] = frame[p] + FrameSendRate
       /\ \A q \in Players \ {p} : frame'[q] = frame[q]
  BY <1>1, <1>8, <1>9
<1>11. DoList' \in [Players -> Seq(GoodEvents)] /\ DoList'[p] = kept
       /\ \A q \in Players \ {p} : DoList'[q] = DoList[q]
  BY <1>6, <1>7, <1>8
<1>12. phase' \in [Players -> Phases] /\ phase'[p] = (IF st.active THEN "send" ELSE "left")
       /\ \A q \in Players \ {p} : phase'[q] = phase[q]
  BY <1>2, <1>8 DEF Phases
<1>13. /\ DOMAIN executed' = Players /\ DOMAIN timing' = Players
       /\ executed'[p] = Recorded(executed[p], frame[p], Due(p))
       /\ timing'[p] = (IF st.active THEN Recorded(timing[p], frame[p] + FrameSendRate, TimingOf(st))
                                     ELSE timing[p])
       /\ \A q \in Players \ {p} : executed'[q] = executed[q] /\ timing'[q] = timing[q]
  BY <1>2, <1>8
<1>14. \E s : /\ FromState(p, s) /\ SetState(p, s)
              /\ phase'[p] = IF s.active THEN "send" ELSE "left"
              /\ timing'[p] = IF s.active
                              THEN Recorded(timing[p], frame[p] + FrameSendRate, TimingOf(s))
                              ELSE timing[p]
              /\ s.active =>
                         \E t : /\ t[0] = Timing(MaxAhead[p], window[p], humans[p])
                                /\ t[Len(Due(p))] = TimingOf(s)
                                /\ \A i \in 1 .. Len(Due(p)) : t[i] = After(t[i - 1], Due(p)[i])
  <2> WITNESS st
  <2> QED BY <1>2, <1>3, <1>5, <1>12, <1>13
<1> QED BY <1>1, <1>10, <1>11, <1>12, <1>13, <1>14 DEF kept

LEMMA BasicAdvance == ASSUME Basic, NEW p \in Players, Advance(p) PROVE Basic'
<1>1. CASE TooLate(p)
  <2>1. /\ phase[p] = "wait" /\ phase' = [phase EXCEPT ![p] = "late"]
        /\ UNCHANGED << frame, MaxAhead, window, humans, my_sent, conns, their_frame, their_sent, their_recv,
                        DoList, chan, info, sent, executed, timing >>
    BY <1>1 DEF Advance, local, peers, history
  <2>2. Types'
    BY <2>1 DEF Basic, Types, Phases
  <2>3. \A q \in Players : phase'[q] = "left" <=> phase[q] = "left"
    BY <2>1 DEF Basic, Types
  <2>4. ASSUME NEW q \in Players PROVE (Multiple(frame[q]) /\ Joined(q) /\ Told(q))'
    BY <2>1, <2>3 DEF Basic, Joined, Told
  <2> QED BY <2>2, <2>4 DEF Basic
<1>2. CASE ~ TooLate(p)
  <2>1. /\ UNCHANGED << my_sent, sent >>
        /\ frame' \in [Players -> Nat] /\ frame'[p] = frame[p] + FrameSendRate
        /\ \A q \in Players \ {p} : frame'[q] = frame[q]
        /\ DoList' \in [Players -> Seq(GoodEvents)]
        /\ phase' \in [Players -> Phases] /\ DOMAIN executed' = Players /\ DOMAIN timing' = Players
        /\ \A q \in Players \ {p} : phase'[q] = phase[q]
    BY <1>2, AdvanceIs
  <2>2. PICK st : /\ FromState(p, st) /\ SetState(p, st)
                  /\ phase'[p] = IF st.active THEN "send" ELSE "left"
    BY <1>2, AdvanceIs
  <2>3. /\ MaxAhead' \in [Players -> Leads] /\ window' \in [Players -> Nat \X Nat]
        /\ humans' \in [Players -> SUBSET Players] /\ conns' \in [Players -> Seq(Players)]
        /\ their_frame' \in [Players -> Marks] /\ their_sent' \in [Players -> Marks]
        /\ their_recv' \in [Players -> Marks]
        /\ chan' \in [Players -> [Players -> Seq(GoodPackets)]]
        /\ info' \in [Players -> [Players -> SUBSET GoodPackets]]
    BY <2>2, SetStateIs
  <2>4. Types'
    BY <2>1, <2>3 DEF Basic, Types
  <2>5. \A q \in Players : frame[q] \in Nat /\ Multiple(frame[q])
    BY PlayerTypes
  <2>6. \A q \in Players : frame[q] <= frame'[q] /\ Multiple(frame'[q])
    <3> SUFFICES ASSUME NEW q \in Players PROVE frame[q] <= frame'[q] /\ Multiple(frame'[q])
      OBVIOUS
    <3>1. CASE q = p
      <4>1. Multiple(frame[p] + FrameSendRate)
        BY <2>5, MultipleSum, MultipleRate
      <4> QED BY <2>1, <2>5, <3>1, <4>1, RatePositive
    <3>2. CASE q # p
      BY <2>1, <2>5, <3>2
    <3> QED BY <3>1, <3>2
  <2>7. (phase'[p] # "left" => Range(st.conns) = st.humans \ {p}) /\ (phase'[p] = "left" => st.conns = << >>)
    BY <2>2 DEF FromState, States
  <2>8. \A q \in Players : Joined(q)' /\ Told(q)'
    BY <2>1, <2>2, <2>6, <2>7, SetStateTold
  <2> QED BY <2>4, <2>6, <2>8 DEF Basic
<1> QED BY <1>1, <1>2

\* A connection is closed without an event.
LEMMA BasicClosed ==
  ASSUME Basic, NEW p \in Players, NEW st, FromState(p, st), SetState(p, st),
         UNCHANGED << frame, my_sent, DoList, sent, executed, timing >>,
         phase' \in [Players -> Phases], \A q \in Players \ {p} : phase'[q] = phase[q],
         phase'[p] # "left" => Range(st.conns) = st.humans \ {p},
         phase'[p] = "left" => st.conns = << >>
  PROVE  Basic'
<1>1. /\ MaxAhead' \in [Players -> Leads] /\ window' \in [Players -> Nat \X Nat]
      /\ humans' \in [Players -> SUBSET Players] /\ conns' \in [Players -> Seq(Players)]
      /\ their_frame' \in [Players -> Marks] /\ their_sent' \in [Players -> Marks]
      /\ their_recv' \in [Players -> Marks]
      /\ chan' \in [Players -> [Players -> Seq(GoodPackets)]]
      /\ info' \in [Players -> [Players -> SUBSET GoodPackets]]
  BY SetStateIs
<1>2. Types'
  BY <1>1 DEF Basic, Types
<1>3. \A q \in Players : frame[q] \in Nat /\ Multiple(frame[q])
  BY PlayerTypes
<1>4. frame' \in [Players -> Nat] /\ \A q \in Players : frame[q] <= frame'[q] /\ Multiple(frame'[q])
  BY <1>3 DEF Basic, Types
<1>5. \A q \in Players : Joined(q)' /\ Told(q)'
  BY <1>4, SetStateTold
<1> QED BY <1>2, <1>4, <1>5 DEF Basic

LEMMA BasicHandleTimeout == ASSUME Basic, NEW p \in Players, Handle_Timeout(p) PROVE Basic'
<1>1. phase[p] = "wait" /\ UNCHANGED << phase, frame, my_sent, DoList, sent, executed, timing >>
  BY DEF Handle_Timeout, history
<1>2. PICK i \in DOMAIN conns[p] : SetState(p, Destroy_Connection(State(p), conns[p][i]))
  BY DEF Handle_Timeout
<1> DEFINE q == conns[p][i]
           st == Destroy_Connection(State(p), q)
<1>3. FromState(p, State(p)) /\ State(p).active = TRUE
  BY <1>1, StateFrom DEF State
<1> HIDE DEF q
<1>4. FromState(p, st) /\ st.active = TRUE
  BY <1>3, DestroyFrom
<1>5. SetState(p, st)
  BY <1>2 DEF q
<1> HIDE DEF st
<1>6. phase' \in [Players -> Phases] /\ phase'[p] # "left" /\ \A r \in Players \ {p} : phase'[r] = phase[r]
  BY <1>1 DEF Basic, Types
<1>7. Range(st.conns) = st.humans \ {p}
  BY <1>4 DEF FromState
<1> QED BY <1>1, <1>4, <1>5, <1>6, <1>7, BasicClosed

LEMMA BasicGiveUp == ASSUME Basic, NEW p \in Players, GiveUp(p) PROVE Basic'
<1> DEFINE none == << >>
           stop == [State(p) EXCEPT !.conns = none]
           st == [State(p) EXCEPT !.conns = none, !.active = FALSE]
<1>1. /\ phase[p] = "ready" /\ phase' = [phase EXCEPT ![p] = "left"]
      /\ SetState(p, stop) /\ UNCHANGED << frame, my_sent, DoList, sent, executed, timing >>
  BY DEF GiveUp, history
<1>2. FromState(p, State(p)) /\ none \in Seq(Players)
  BY <1>1, StateFrom
<1>3. State(p) \in States
  BY <1>2 DEF FromState
<1>8. Range(none) = {} /\ DOMAIN none = {} /\ Len(none) = 0
  BY DEF Range
<1> HIDE DEF none
<1>4. /\ st \in States /\ st.conns = none /\ st.active = FALSE /\ st.humans = State(p).humans
      /\ st.MaxAhead = stop.MaxAhead /\ st.window = stop.window /\ st.humans = stop.humans
      /\ st.conns = stop.conns /\ st.frames = stop.frames /\ st.sents = stop.sents /\ st.recvs = stop.recvs
  BY <1>2, <1>3 DEF States
<1> HIDE DEF st, stop
<1>5. SetState(p, st)
  BY <1>1, <1>4 DEF SetState
<1>6. FromState(p, st)
  BY <1>2, <1>4, <1>8, LockstepAssumption DEF FromState, IsInjective, none
<1>7. phase' \in [Players -> Phases] /\ phase'[p] = "left" /\ \A r \in Players \ {p} : phase'[r] = phase[r]
  BY <1>1 DEF Basic, Types, Phases
<1>9. phase'[p] # "left" => Range(st.conns) = st.humans \ {p}
  BY <1>7
<1>10. phase'[p] = "left" => st.conns = << >>
  BY <1>4 DEF none
<1> QED BY <1>1, <1>5, <1>6, <1>7, <1>9, <1>10, BasicClosed

LEMMA BasicNext == ASSUME Basic, [Next]_vars PROVE Basic'
<1>1. CASE UNCHANGED vars
  BY <1>1 DEF vars, local, peers, history, Basic, Types, Joined, Told
<1>2. CASE Next
  BY <1>2, BasicFrameSync, BasicSendPackets, BasicAllReady, BasicAdvance, BasicHandleTimeout,
     BasicGiveUp, BasicReceiveCommands, BasicReceiveInfo DEF Next
<1> QED BY <1>1, <1>2

LEMMA BasicAlways == Spec \/ StartedSpec => []Basic
<1>1. Init => Basic
  BY BasicInit
<1>2. Started => Basic
  <2>1. SUFFICES ASSUME Started PROVE Basic
    OBVIOUS
  <2> QED BY <2>1, BasicInit
<1>3. Basic /\ [Next]_vars => Basic'
  BY BasicNext
<1> QED BY <1>1, <1>2, <1>3, PTL DEF Spec, StartedSpec

(* Each variable holds what its declaration says: queue.cc's counters and   *)
(* marks stay in their types and the connections are of other players, each *)
(* at one place, whoever leaves or is lost.                                 *)
THEOREM TypesHold == Spec \/ StartedSpec => []TypeOK
<1>1. Basic => TypeOK
  <2> SUFFICES ASSUME Basic PROVE TypeOK
    OBVIOUS
  <2>1. /\ phase \in [Players -> Phases]
        /\ frame \in [Players -> Nat] /\ MaxAhead \in [Players -> Nat]
        /\ window \in [Players -> Nat \X Nat]
        /\ humans \in [Players -> SUBSET Players]
        /\ my_sent \in [Players -> 0 .. CountMod - 1]
    BY DEF Basic, Types, Leads
  <2>2. ASSUME NEW p \in Players PROVE IsInjective(conns[p]) /\ conns[p] \in Seq(Players \ {p})
    <3>1. IsInjective(conns[p]) /\ p \notin Range(conns[p])
      BY DEF Basic, Joined
    <3>2. conns[p] \in Seq(Players) /\ \A i \in DOMAIN conns[p] : conns[p][i] \in Players \ {p}
      BY <3>1, PlayerTypes DEF Range
    <3> QED BY <3>1, <3>2
  <2>3. ASSUME NEW p \in Players, NEW a \in {their_frame[p], their_sent[p], their_recv[p]}
        PROVE  Len(a) = N - 1 /\ Range(a) \subseteq Nat \cup {-1}
    <3>1. a \in [1 .. N - 1 -> Nat \cup {-1}] /\ N - 1 \in Nat
      BY PlayerTypes, LockstepAssumption DEF Marks
    <3> QED BY <3>1 DEF Range
  <2>4. ASSUME NEW p \in Players PROVE DoList[p] \in Seq(Event)
    <3>1. DoList[p] \in Seq(GoodEvents) /\ GoodEvents \subseteq Event
      BY PlayerTypes DEF GoodEvents
    <3> QED BY <3>1
  <2>5. ASSUME NEW p \in Players, NEW q \in Players, NEW k \in info[p][q] \cup Range(chan[p][q])
        PROVE  /\ k.frame \in 0 .. frame[p] /\ k.CommandCount \in 0 .. CountMod - 1
               /\ k.events \in Seq(Event)
    <3>1. /\ k.frame \in Nat /\ k.frame <= frame[p] /\ k.CommandCount \in 0 .. CountMod - 1
          /\ k.events \in Seq(GoodEvents)
      BY PacketTypes
    <3>2. k.events \in Seq(Event)
      BY <3>1 DEF GoodEvents
    <3>3. frame[p] \in Nat
      BY PlayerTypes
    <3> QED BY <3>1, <3>2, <3>3
  <2> QED BY <2>1, <2>2, <2>3, <2>4, <2>5 DEF TypeOK
<1> QED BY <1>1, BasicAlways, PTL

-----------------------------------------------------------------------------
(* What Can_Advance promises. *)

\* With one human left there is nobody to wait for.
LEMMA AloneIs ==
  ASSUME Basic, NEW p \in Players, phase[p] # "left", Cardinality(humans[p]) = 1
  PROVE  conns[p] = << >> /\ humans[p] = {p}
<1>1. humans[p] \in SUBSET (1 .. N) /\ p \in humans[p] /\ N \in Nat
  BY LockstepAssumption DEF Basic, Types, Joined, Players
<1>2. IsFiniteSet(1 .. N)
  BY <1>1, FS_Interval
<1>3. IsFiniteSet(humans[p])
  BY <1>1, <1>2, FS_Subset
<1>4. PICK x : humans[p] = {x}
  BY <1>3, FS_Singleton
<1>5. humans[p] = {p}
  BY <1>1, <1>4
<1>6. Range(conns[p]) = {} /\ conns[p] \in Seq(Players)
  BY <1>5 DEF Basic, Types, Joined
<1> QED BY <1>5, <1>6 DEF Range

\* From what p last heard of q, which q told when it was at that frame.
LEMMA CanAdvanceIs ==
  ASSUME Basic, NEW p \in Players, NEW q \in Players, Connected(p, q), Can_Advance(p), phase[p] # "left"
  PROVE  /\ Place(p, q) \in DOMAIN conns[p] /\ conns[p][Place(p, q)] = q
         /\ their_recv[p][Place(p, q)] >= their_sent[p][Place(p, q)]
         /\ their_frame[p][Place(p, q)] \in Nat \cup {-1}
         /\ frame[p] < their_frame[p][Place(p, q)] + MaxAhead[p]
         /\ their_frame[p][Place(p, q)] <= frame[q]
         /\ frame[p] + FrameSendRate <= frame[q] + MaxAhead[p]
<1> DEFINE i == Place(p, q)
<1>1. i \in DOMAIN conns[p] /\ conns[p][i] = q
  BY PlaceIs
<1> HIDE DEF i
<1>2. Cardinality(humans[p]) # 1
  <2> SUFFICES ASSUME Cardinality(humans[p]) = 1 PROVE FALSE
    OBVIOUS
  <2>1. conns[p] = << >>
    BY AloneIs
  <2> QED BY <1>1, <2>1
<1>3. their_recv[p][i] >= their_sent[p][i] /\ frame[p] < their_frame[p][i] + MaxAhead[p]
  BY <1>1, <1>2 DEF Can_Advance
<1>4. /\ frame[p] \in Nat /\ Multiple(frame[p]) /\ MaxAhead[p] \in Nat /\ Multiple(MaxAhead[p])
      /\ MaxAhead[p] >= 2 * FrameSendRate /\ their_frame[p][i] \in Nat \cup {-1}
  BY <1>1, PlayerTypes DEF Leads, Marks
<1>5. their_frame[p][i] <= frame[q] /\ (their_frame[p][i] = -1 \/ Multiple(their_frame[p][i]))
  BY <1>1 DEF Basic, Told
<1>6. frame[p] + FrameSendRate <= frame[q] + MaxAhead[p]
  <2>1. q \in Players /\ frame[q] \in Nat /\ Multiple(frame[q])
    BY PlayerTypes
  <2>2. Multiple(frame[q] + MaxAhead[p])
    BY <1>4, <2>1, MultipleSum
  <2>3. frame[p] < frame[q] + MaxAhead[p]
    BY <1>3, <1>4, <1>5, <2>1
  <2> QED BY <1>4, <2>2, <2>3, MultipleStep
<1> QED BY <1>1, <1>3, <1>4, <1>5, <1>6 DEF i

\* Only two steps move a player to another frame.
LEMMA FrameMoves ==
  ASSUME [Next]_vars, NEW p, frame'[p] # frame[p]
  PROVE  \E r \in Players : Send_Packets(r) \/ (Advance(r) /\ ~ TooLate(r))
<1>1. frame' # frame
  OBVIOUS
<1>2. CASE UNCHANGED vars
  BY <1>1, <1>2 DEF vars, local
<1>3. CASE Next
  <2>1. PICK r \in Players : \/ Send_FrameSync(r) \/ Send_Packets(r) \/ AllReady(r) \/ Advance(r)
                             \/ Handle_Timeout(r) \/ GiveUp(r)
                             \/ \E q \in Players : ReceiveCommands(r, q) \/ ReceiveInfo(r, q)
    BY <1>3 DEF Next
  <2>2. ~ Send_FrameSync(r) /\ ~ AllReady(r)
    BY <1>1 DEF Send_FrameSync, AllReady, local
  <2>3. ~ Handle_Timeout(r) /\ ~ GiveUp(r)
    BY <1>1 DEF Handle_Timeout, GiveUp
  <2>4. ASSUME NEW q \in Players, NEW k PROVE ~ Process_Receive_Packet(r, q, k)
    BY <1>1 DEF Process_Receive_Packet, local
  <2>5. ~ \E q \in Players : ReceiveCommands(r, q) \/ ReceiveInfo(r, q)
    BY <2>4 DEF ReceiveCommands, ReceiveInfo
  <2>6. Advance(r) => ~ TooLate(r)
    BY <1>1 DEF Advance, local
  <2> QED BY <2>1, <2>2, <2>3, <2>5, <2>6
<1> QED BY <1>2, <1>3

(* "Any system won't out-run the other system by more than Session.MaxAhead *)
(* frames": a player that Can_Advance lets past a frame is at most MaxAhead *)
(* ahead of every player it is connected to, whatever was lost or delayed.  *)
THEOREM NobodyEverOutruns == Spec \/ StartedSpec => NobodyOutruns
<1> DEFINE Near(p, q) == frame'[p] # frame[p] /\ frame[p] # 0 /\ Connected(p, q) =>
                           frame'[p] <= frame[q] + MaxAhead[p]
<1>1. ASSUME Basic, [Next]_vars, NEW p \in Players, NEW q \in Players PROVE Near(p, q)
  <2> SUFFICES ASSUME frame'[p] # frame[p], frame[p] # 0, Connected(p, q)
               PROVE  frame'[p] <= frame[q] + MaxAhead[p]
    OBVIOUS
  <2>1. PICK r \in Players : Send_Packets(r) \/ (Advance(r) /\ ~ TooLate(r))
    BY <1>1, FrameMoves
  <2>2. frame \in [Players -> Nat]
    BY <1>1 DEF Basic, Types
  <2>3. CASE Send_Packets(r)
    BY <2>2, <2>3 DEF Send_Packets
  <2>4. CASE Advance(r) /\ ~ TooLate(r)
    <3>1. /\ phase[r] = "wait" /\ Can_Advance(r) /\ frame'[r] = frame[r] + FrameSendRate
          /\ \A o \in Players \ {r} : frame'[o] = frame[o]
      BY <1>1, <2>4, AdvanceIs
    <3>2. r = p
      BY <3>1
    <3>3. frame[p] + FrameSendRate <= frame[q] + MaxAhead[p]
      BY <1>1, <3>1, <3>2, CanAdvanceIs
    <3> QED BY <3>1, <3>2, <3>3
  <2> QED BY <2>1, <2>3, <2>4
<1>2. Basic /\ [Next]_vars => [\A p, q \in Players : frame'[p] # frame[p] /\ frame[p] # 0 /\ Connected(p, q) =>
                                 frame'[p] <= frame[q] + MaxAhead[p]]_vars
  BY <1>1
<1> QED BY <1>2, BasicAlways, PTL DEF Spec, StartedSpec, NobodyOutruns

-----------------------------------------------------------------------------
(* What is sent. *)

\* What Send_Packets does with the events out.
Sends(p, out) ==
  /\ out \in Seq(GoodEvents)
  /\ \A i \in DOMAIN out : /\ out[i].ID = p /\ out[i].num = Len(sent[p]) + i
                           /\ out[i].at = frame[p] /\ out[i].Frame = ExecFrame(p)
  /\ DoList'[p] = DoList[p] \o out /\ sent'[p] = sent[p] \o out
  /\ my_sent'[p] = (my_sent[p] + Len(out)) % CountMod
  /\ \A q \in Players \ {p} : DoList'[q] = DoList[q] /\ sent'[q] = sent[q] /\ my_sent'[q] = my_sent[q]
  /\ \A q, r \in Players : chan'[q][r] = IF q = p /\ Connected(p, r) /\ Connected(r, p)
                                         THEN chan[q][r] \o Packets(p, out) ELSE chan[q][r]
  /\ \A q, r \in Players : \A k \in info'[q][r] : k \in info[q][r] \/ (q = p /\ k = FrameSync(p))

LEMMA SendIs ==
  ASSUME Basic, NEW p \in Players, Send_Packets(p)
  PROVE  /\ UNCHANGED << MaxAhead, window, humans, conns, their_frame, their_sent, their_recv, executed >>
         /\ phase[p] = "send"
         /\ \A q \in Players \ {p} : phase'[q] = phase[q] /\ frame'[q] = frame[q] /\ timing'[q] = timing[q]
         /\ frame[p] = 0 => /\ frame'[p] = FrameSendRate /\ phase'[p] = "send"
                            /\ timing'[p] = Recorded(timing[p], FrameSendRate, timing[p][0])
         /\ frame[p] # 0 => frame'[p] = frame[p] /\ phase'[p] = "wait" /\ timing'[p] = timing[p]
         /\ \E out : Sends(p, out)
<1>1. /\ UNCHANGED << MaxAhead, window, humans, conns, their_frame, their_sent, their_recv, executed >>
      /\ phase[p] = "send"
  BY DEF Send_Packets, peers
<1>2. PICK out \in OutLists(p) :
       /\ DoList' = [DoList EXCEPT ![p] = @ \o out]
       /\ chan' = [chan EXCEPT ![p] = [q \in Players |->
                     IF Connected(p, q) /\ Connected(q, p)
                     THEN @[q] \o Packets(p, out) ELSE @[q]]]
       /\ IF out = << >> THEN Broadcast(p, FrameSync(p)) ELSE UNCHANGED info
       /\ my_sent' = [my_sent EXCEPT ![p] = (@ + CountedEvents(out)) % CountMod]
       /\ sent' = [sent EXCEPT ![p] = @ \o out]
  BY DEF Send_Packets
<1>3. /\ out \in Seq(GoodEvents)
      /\ \A i \in DOMAIN out : /\ out[i].ID = p /\ out[i].num = Len(sent[p]) + i
                               /\ out[i].at = frame[p] /\ out[i].Frame = ExecFrame(p)
  BY OutListIs
<1>4. /\ phase \in [Players -> Phases] /\ frame \in [Players -> Nat] /\ DOMAIN timing = Players
      /\ DoList \in [Players -> Seq(GoodEvents)] /\ sent \in [Players -> Seq(GoodEvents)]
      /\ chan \in [Players -> [Players -> Seq(GoodPackets)]]
      /\ my_sent \in [Players -> 0 .. CountMod - 1]
  BY DEF Basic, Types
<1>5. \A q, r \in Players : \A k \in info'[q][r] : k \in info[q][r] \/ (q = p /\ k = FrameSync(p))
  <2>1. CASE out = << >>
    BY <1>2, <2>1, BroadcastIs
  <2>2. CASE out # << >>
    BY <1>2, <2>2
  <2> QED BY <2>1, <2>2
<1>6. /\ DoList'[p] = DoList[p] \o out /\ sent'[p] = sent[p] \o out
      /\ my_sent'[p] = (my_sent[p] + Len(out)) % CountMod
      /\ \A q \in Players \ {p} : DoList'[q] = DoList[q] /\ sent'[q] = sent[q] /\ my_sent'[q] = my_sent[q]
  BY <1>2, <1>4 DEF CountedEvents
<1>7. \A q, r \in Players : chan'[q][r] = IF q = p /\ Connected(p, r) /\ Connected(r, p)
                                          THEN chan[q][r] \o Packets(p, out) ELSE chan[q][r]
  BY <1>2, <1>4
<1>8. Sends(p, out)
  BY <1>3, <1>5, <1>6, <1>7 DEF Sends
<1>9. /\ \A q \in Players \ {p} : phase'[q] = phase[q] /\ frame'[q] = frame[q] /\ timing'[q] = timing[q]
      /\ frame[p] = 0 => /\ frame'[p] = FrameSendRate /\ phase'[p] = "send"
                         /\ timing'[p] = Recorded(timing[p], FrameSendRate, timing[p][0])
      /\ frame[p] # 0 => frame'[p] = frame[p] /\ phase'[p] = "wait" /\ timing'[p] = timing[p]
  <2>1. CASE frame[p] = 0
    BY <1>1, <1>4, <2>1 DEF Send_Packets
  <2>2. CASE frame[p] # 0
    BY <1>1, <1>4, <2>2 DEF Send_Packets
  <2> QED BY <2>1, <2>2
<1> QED BY <1>1, <1>8, <1>9

-----------------------------------------------------------------------------
(* The counts, as long as they fit their 16 bits. *)

\* No player has given as many commands as make its uint16_t counter wrap.
CountsFit == \A p \in Players : Len(sent[p]) < CountMod

\* Whoever knows of the frame f and the count of q knows how much q has given
\* before f.
Says(q, f, count) ==
  /\ f <= frame[q] /\ count <= Len(sent[q])
  /\ \A n \in DOMAIN sent[q] : sent[q][n].at < f => n <= count

Stamped(q) ==
  \A p \in Players :
    /\ \A k \in info[q][p] : Says(q, k.frame, k.CommandCount) /\ k.events = << >>
    /\ \A k \in Range(chan[q][p]) : Says(q, k.frame, k.CommandCount)

\* The packets c hold the events of s from the one after from, in order, the
\* i-th those up to upto[i].
Carries(s, c, from, upto) ==
  /\ upto \in [0 .. Len(c) -> 0 .. Len(s)]
  /\ upto[0] = from
  /\ \A i \in 1 .. Len(c) :
       /\ upto[i] = upto[i - 1] + Len(c[i].events)
       /\ \A j \in 1 .. Len(c[i].events) : c[i].events[j] = s[upto[i - 1] + j]

Link(p, q, from) ==
  \E upto : /\ Carries(sent[q], chan[q][p], from, upto)
            /\ Connected(q, p) => upto[Len(chan[q][p])] = Len(sent[q])

Heard(p) ==
  \A i \in DOMAIN conns[p] : /\ Says(conns[p][i], their_frame[p][i], their_sent[p][i])
                             /\ Link(p, conns[p][i], their_recv[p][i])

Counts == \A p \in Players : my_sent[p] = Len(sent[p]) /\ Stamped(p) /\ Heard(p)

LEMMA CountsInit == ASSUME Init \/ Started PROVE Counts
<1>1. InitFrames /\ Basic
  BY BasicInit DEF Init, Started
<1> SUFFICES ASSUME NEW p \in Players PROVE my_sent[p] = Len(sent[p]) /\ Stamped(p) /\ Heard(p)
  BY DEF Counts
<1>2. \A q \in Players : sent[q] = << >> /\ Len(sent[q]) = 0 /\ DOMAIN sent[q] = {} /\ frame[q] = 0 /\ my_sent[q] = 0
  BY <1>1 DEF InitFrames
<1>3. \A q, r \in Players : chan[q][r] = << >> /\ Range(chan[q][r]) = {} /\ Len(chan[q][r]) = 0
  BY <1>1 DEF InitFrames, Range
<1>4. ASSUME NEW q \in Players, NEW r \in Players, NEW k \in info[q][r] PROVE k = Packet(0, 0, << >>)
  <2>1. CASE Init
    <3>1. PICK S : info[q][r] \in S /\ S = IF MayLose THEN {{}, {Packet(0, 0, << >>)}} ELSE {{Packet(0, 0, << >>)}}
      BY <2>1 DEF Init
    <3>2. info[q][r] = {} \/ info[q][r] = {Packet(0, 0, << >>)}
      BY <3>1
    <3> QED BY <3>2
  <2>2. CASE Started
    BY <2>2 DEF Started
  <2> QED BY <2>1, <2>2
<1>5. Stamped(p)
  <2>1. Says(p, 0, 0)
    BY <1>2 DEF Says
  <2>2. ASSUME NEW r \in Players, NEW k \in info[p][r]
        PROVE  Says(p, k.frame, k.CommandCount) /\ k.events = << >>
    <3>1. k = Packet(0, 0, << >>)
      BY <1>4
    <3>2. k.frame = 0 /\ k.CommandCount = 0 /\ k.events = << >>
      BY <3>1 DEF Packet
    <3> QED BY <2>1, <3>2
  <2> QED BY <1>3, <2>2 DEF Stamped
<1>6. ASSUME NEW i \in DOMAIN conns[p]
      PROVE  /\ Says(conns[p][i], their_frame[p][i], their_sent[p][i])
             /\ Link(p, conns[p][i], their_recv[p][i])
  <2>1. i \in 1 .. N - 1 /\ conns[p][i] \in Players
    BY <1>1, PlayerTypes
  <2>2. PICK q \in Players : q = conns[p][i]
    BY <2>1
  <2>3. their_sent[p][i] = 0 /\ their_recv[p][i] = 0
    BY <1>1, <2>1 DEF InitFrames
  <2>4. their_frame[p][i] <= 0
    <3>1. CASE Init
      <4>1. their_frame = [r \in Players |-> [j \in 1 .. N - 1 |-> -1]]
        BY <3>1 DEF Init
      <4> QED BY <2>1, <4>1
    <3>2. CASE Started
      <4>1. their_frame = [r \in Players |-> [j \in 1 .. N - 1 |-> 0]]
        BY <3>2 DEF Started
      <4> QED BY <2>1, <4>1
    <3> QED BY <3>1, <3>2
  <2>5. Says(q, their_frame[p][i], their_sent[p][i])
    BY <1>2, <2>3, <2>4 DEF Says
  <2> DEFINE upto == [j \in 0 .. 0 |-> 0]
  <2>6. Carries(sent[q], chan[q][p], 0, upto) /\ upto[Len(chan[q][p])] = Len(sent[q])
    BY <1>2, <1>3 DEF Carries
  <2>7. Link(p, q, 0)
    BY <2>6 DEF Link
  <2> QED BY <2>2, <2>3, <2>5, <2>7
<1> QED BY <1>2, <1>5, <1>6 DEF Heard

\* What was said stays true, and so does what is on the way, when q gives more.
More(q, out) ==
  /\ sent[q] \in Seq(GoodEvents) /\ out \in Seq(GoodEvents)
  /\ sent'[q] = sent[q] \o out
  /\ frame[q] \in Nat /\ frame'[q] \in Nat /\ frame[q] <= frame'[q]
  /\ \A i \in DOMAIN out : out[i].at = frame[q]

LEMMA MoreIs ==
  ASSUME NEW q, NEW out, More(q, out)
  PROVE  /\ Len(sent[q]) \in Nat /\ Len(out) \in Nat /\ Len(sent'[q]) = Len(sent[q]) + Len(out)
         /\ DOMAIN sent[q] = 1 .. Len(sent[q]) /\ DOMAIN sent'[q] = 1 .. Len(sent[q]) + Len(out)
         /\ \A n \in 1 .. Len(sent[q]) : sent'[q][n] = sent[q][n]
         /\ \A n \in DOMAIN sent'[q] : n > Len(sent[q]) => sent'[q][n].at = frame[q]
         /\ \A i \in 1 .. Len(out) : sent'[q][Len(sent[q]) + i] = out[i]
<1>1. sent[q] \in Seq(GoodEvents) /\ out \in Seq(GoodEvents) /\ sent'[q] = sent[q] \o out
  BY DEF More
<1>2. /\ Len(sent[q]) \in Nat /\ Len(out) \in Nat
      /\ DOMAIN sent[q] = 1 .. Len(sent[q]) /\ DOMAIN out = 1 .. Len(out)
      /\ Len(sent'[q]) = Len(sent[q]) + Len(out)
      /\ DOMAIN sent'[q] = 1 .. Len(sent[q]) + Len(out)
      /\ \A i \in 1 .. Len(sent[q]) : sent'[q][i] = sent[q][i]
      /\ \A i \in 1 .. Len(out) : sent'[q][Len(sent[q]) + i] = out[i]
      /\ \A i \in 1 .. Len(sent[q]) + Len(out) : i <= Len(sent[q]) \/ i - Len(sent[q]) \in 1 .. Len(out)
  BY <1>1, JoinedIs
<1>3. ASSUME NEW n \in DOMAIN sent'[q], n > Len(sent[q]) PROVE sent'[q][n].at = frame[q]
  <2>1. PICK i \in 1 .. Len(out) : n = Len(sent[q]) + i
    <3>1. n - Len(sent[q]) \in 1 .. Len(out) /\ n = Len(sent[q]) + (n - Len(sent[q]))
      BY <1>2, <1>3
    <3> QED BY <3>1
  <2> QED BY <1>2, <2>1 DEF More
<1> QED BY <1>2, <1>3

LEMMA SaysStays ==
  ASSUME NEW q, NEW out, More(q, out), NEW f \in Int, NEW count \in Int, Says(q, f, count)
  PROVE  Says(q, f, count)'
<1>1. f <= frame'[q] /\ count <= Len(sent'[q])
  BY MoreIs DEF Says, More
<1>2. ASSUME NEW n \in DOMAIN sent'[q], sent'[q][n].at < f PROVE n <= count
  <2>1. CASE n <= Len(sent[q])
    <3>3. /\ Len(sent[q]) \in Nat /\ Len(out) \in Nat /\ DOMAIN sent[q] = 1 .. Len(sent[q])
          /\ DOMAIN sent'[q] = 1 .. Len(sent[q]) + Len(out)
          /\ \A m \in 1 .. Len(sent[q]) : sent'[q][m] = sent[q][m]
      BY MoreIs
    <3>4. n \in 1 .. Len(sent[q])
      BY <1>2, <2>1, <3>3
    <3>1. n \in DOMAIN sent[q] /\ sent'[q][n] = sent[q][n]
      BY <3>3, <3>4
    <3>2. sent[q][n].at < f
      BY <1>2, <3>1
    <3> QED BY <3>1, <3>2 DEF Says
  <2>2. CASE n > Len(sent[q])
    <3>1. sent'[q][n].at = frame[q]
      BY <1>2, <2>2, MoreIs
    <3> QED BY <1>2, <3>1 DEF Says, More
  <2>3. n \in Nat /\ Len(sent[q]) \in Nat
    BY <1>2, MoreIs
  <2> QED BY <2>1, <2>2, <2>3
<1> QED BY <1>1, <1>2 DEF Says

\* What q says now.
LEMMA SaysNow ==
  ASSUME NEW q, NEW out, More(q, out)
  PROVE  Says(q, frame[q], Len(sent[q])) /\ frame[q] <= frame'[q] /\ Len(sent[q]) <= Len(sent'[q])
         /\ \A n \in DOMAIN sent'[q] : sent'[q][n].at < frame[q] => n <= Len(sent[q])
<1>1. Says(q, frame[q], Len(sent[q])) /\ frame[q] <= frame'[q] /\ Len(sent[q]) <= Len(sent'[q])
  BY MoreIs DEF Says, More
<1>2. ASSUME NEW n \in DOMAIN sent'[q], sent'[q][n].at < frame[q] PROVE n <= Len(sent[q])
  <2>1. n \in Nat /\ Len(sent[q]) \in Nat
    BY <1>2, MoreIs
  <2>2. n > Len(sent[q]) => sent'[q][n].at = frame[q]
    BY <1>2, MoreIs
  <2> QED BY <1>2, <2>1, <2>2 DEF More
<1> QED BY <1>1, <1>2

\* Of the packets there are before more is given, and with those that carry it.
LEMMA CarriesStays ==
  ASSUME NEW s \in Seq(GoodEvents), NEW out \in Seq(GoodEvents), NEW c \in Seq(GoodPackets),
         NEW from, NEW upto, Carries(s, c, from, upto)
  PROVE  Carries(s \o out, c, from, upto)
<1>1. upto \in [0 .. Len(c) -> 0 .. Len(s)] /\ upto[0] = from /\ Len(c) \in Nat
  BY DEF Carries
<1>2. /\ Len(s) \in Nat /\ Len(out) \in Nat /\ Len(s \o out) = Len(s) + Len(out)
      /\ \A i \in 1 .. Len(s) : (s \o out)[i] = s[i]
  BY JoinedIs
<1>3. upto \in [0 .. Len(c) -> 0 .. Len(s \o out)]
  BY <1>1, <1>2
<1>4. ASSUME NEW i \in 1 .. Len(c)
      PROVE  /\ upto[i] = upto[i - 1] + Len(c[i].events)
             /\ \A j \in 1 .. Len(c[i].events) : c[i].events[j] = (s \o out)[upto[i - 1] + j]
  <2>1. PICK k : k = c[i].events
    OBVIOUS
  <2>2. k \in Seq(GoodEvents)
    <3>1. c[i] \in GoodPackets
      OBVIOUS
    <3> QED BY <2>1, <3>1 DEF GoodPackets
  <2>3. /\ upto[i] = upto[i - 1] + Len(k) /\ \A j \in 1 .. Len(k) : k[j] = s[upto[i - 1] + j]
    BY <2>1 DEF Carries
  <2>4. upto[i - 1] \in 0 .. Len(s) /\ upto[i] \in 0 .. Len(s)
    <3>1. i - 1 \in 0 .. Len(c) /\ i \in 0 .. Len(c)
      BY <1>1
    <3> QED BY <1>1, <3>1
  <2>5. \A j \in 1 .. Len(k) : upto[i - 1] + j \in 1 .. Len(s)
    BY <1>2, <2>2, <2>3, <2>4
  <2> QED BY <1>2, <2>1, <2>3, <2>5
<1> QED BY <1>1, <1>3, <1>4 DEF Carries

\* out leaves in the n packets d, the i-th with the events up to split[i].
Cut(out, d, n, split) ==
  /\ d \in Seq(GoodPackets) /\ n \in Nat /\ Len(d) = n
  /\ split \in [0 .. n -> 0 .. Len(out)] /\ split[0] = 0 /\ split[n] = Len(out)
  /\ \A i \in 1 .. n : split[i - 1] < split[i] /\ d[i].events = SubSeq(out, split[i - 1] + 1, split[i])

\* The k-th of them.
LEMMA CutIs ==
  ASSUME NEW out \in Seq(GoodEvents), NEW d, NEW n, NEW split, Cut(out, d, n, split), NEW k \in 1 .. n
  PROVE  /\ split[k - 1] \in 0 .. Len(out) /\ split[k] \in 0 .. Len(out)
         /\ Len(d[k].events) = split[k] - split[k - 1]
         /\ \A j \in 1 .. Len(d[k].events) : /\ split[k - 1] + j \in 1 .. Len(out)
                                             /\ d[k].events[j] = out[split[k - 1] + j]
<1>1. n \in Nat /\ Len(out) \in Nat
  BY DEF Cut
<1>2. k \in 0 .. n /\ k - 1 \in 0 .. n
  BY <1>1
<1>3. PICK a \in 0 .. Len(out) : a = split[k - 1]
  BY <1>2 DEF Cut
<1>4. PICK b \in 0 .. Len(out) : b = split[k] /\ a < b /\ d[k].events = SubSeq(out, a + 1, b)
  BY <1>2, <1>3 DEF Cut
<1>5. PICK ev : ev = d[k].events
  OBVIOUS
<1>6. ev = SubSeq(out, a + 1, b)
  BY <1>4, <1>5
<1>7. a + 1 \in 1 .. Len(out) /\ b \in 0 .. Len(out) /\ a + 1 <= b
  BY <1>1, <1>3, <1>4
<1>8. Len(ev) = b - a /\ \A j \in 1 .. b - a : a + j \in 1 .. Len(out) /\ ev[j] = out[a + j]
  <2>1. Len(ev) = b - (a + 1) + 1 /\ \A j \in 1 .. b - (a + 1) + 1 : ev[j] = out[(a + 1) + j - 1]
    BY <1>6, <1>7
  <2>2. a \in Int /\ b \in Int /\ 0 <= a /\ b <= Len(out)
    BY <1>1, <1>3, <1>4
  <2>3. b - (a + 1) + 1 = b - a
    BY <2>2
  <2>4. ASSUME NEW j \in 1 .. b - a PROVE (a + 1) + j - 1 = a + j /\ a + j \in 1 .. Len(out)
    BY <1>1, <2>2
  <2> QED BY <2>1, <2>3, <2>4
<1> QED BY <1>3, <1>4, <1>5, <1>8

LEMMA CarriesMore ==
  ASSUME NEW s \in Seq(GoodEvents), NEW out \in Seq(GoodEvents), NEW c \in Seq(GoodPackets),
         NEW from, NEW upto, Carries(s, c, from, upto), upto[Len(c)] = Len(s),
         NEW d, NEW n, NEW split, Cut(out, d, n, split)
  PROVE  \E u : Carries(s \o out, c \o d, from, u) /\ u[Len(c \o d)] = Len(s \o out)
<1>0. d \in Seq(GoodPackets) /\ n \in Nat /\ Len(d) = n
  BY DEF Cut
<1>1. /\ Len(s) \in Nat /\ Len(out) \in Nat /\ Len(s \o out) = Len(s) + Len(out)
      /\ \A m \in 1 .. Len(out) : (s \o out)[Len(s) + m] = out[m]
  BY JoinedIs
<1>2. /\ Len(c) \in Nat /\ Len(c \o d) = Len(c) + Len(d)
      /\ \A i \in 1 .. Len(c) : (c \o d)[i] = c[i]
      /\ \A i \in 1 .. Len(d) : (c \o d)[Len(c) + i] = d[i]
  <2>1. \A x, y \in Seq(GoodPackets) :
           /\ Len(x) \in Nat /\ Len(x \o y) = Len(x) + Len(y)
           /\ \A i \in 1 .. Len(x) : (x \o y)[i] = x[i]
           /\ \A i \in 1 .. Len(y) : (x \o y)[Len(x) + i] = y[i]
    <3> SUFFICES ASSUME NEW x \in Seq(GoodPackets), NEW y \in Seq(GoodPackets)
                 PROVE  /\ Len(x) \in Nat /\ Len(x \o y) = Len(x) + Len(y)
                        /\ \A i \in 1 .. Len(x) : (x \o y)[i] = x[i]
                        /\ \A i \in 1 .. Len(y) : (x \o y)[Len(x) + i] = y[i]
      OBVIOUS
    <3> QED BY JoinedIs
  <2> QED BY <1>0, <2>1
<1>3. Carries(s \o out, c, from, upto)
  BY CarriesStays
<1>4. upto \in [0 .. Len(c) -> 0 .. Len(s)] /\ upto[0] = from
  BY DEF Carries
<1>5. \A i \in 1 .. Len(c) :
         /\ upto[i] = upto[i - 1] + Len(c[i].events)
         /\ \A j \in 1 .. Len(c[i].events) : c[i].events[j] = (s \o out)[upto[i - 1] + j]
  BY <1>3 DEF Carries
<1>6. PICK L \in Nat : L = Len(c)
  BY <1>2
<1>7. PICK S \in Nat : S = Len(s)
  BY <1>1
<1>8. PICK K \in Nat : K = Len(out)
  BY <1>1
<1>9. PICK both : both = c \o d
  OBVIOUS
<1>10. PICK all : all = s \o out
  OBVIOUS
<1>11. \A i \in 0 .. n : split[i] \in 0 .. K
  BY <1>8 DEF Cut
<1>12. split[0] = 0 /\ split[n] = K
  BY <1>8 DEF Cut
<1>13. Len(all) = S + K /\ Len(both) = L + n
  BY <1>0, <1>1, <1>2, <1>6, <1>7, <1>8, <1>9, <1>10
<1>14. \A i \in 0 .. L : upto[i] \in 0 .. S
  BY <1>4, <1>6, <1>7
<1>15. upto[0] = from /\ upto[L] = S
  BY <1>4, <1>6, <1>7
<1> DEFINE u == [i \in 0 .. L + n |-> IF i <= L THEN upto[i] ELSE S + split[i - L]]
<1>16. \A i \in 0 .. L : i \in 0 .. L + n /\ u[i] = upto[i]
  BY <1>0
<1>17. \A i \in 0 .. n : L + i \in 0 .. L + n /\ u[L + i] = S + split[i]
  <2> SUFFICES ASSUME NEW i \in 0 .. n PROVE L + i \in 0 .. L + n /\ u[L + i] = S + split[i]
    OBVIOUS
  <2>1. CASE i = 0
    BY <1>0, <1>12, <1>15, <1>16, <2>1
  <2>2. CASE i # 0
    <3>1. L + i \in 0 .. L + n /\ ~ (L + i <= L) /\ (L + i) - L = i
      BY <1>0, <2>2
    <3> QED BY <3>1
  <2> QED BY <2>1, <2>2
<1>18. DOMAIN u = 0 .. L + n /\ u = [i \in 0 .. L + n |-> u[i]]
  OBVIOUS
<1>19. \A i \in 0 .. L + n : i \in 0 .. L \/ \E k \in 1 .. n : i = L + k
  <2> SUFFICES ASSUME NEW i \in 0 .. L + n, i \notin 0 .. L PROVE \E k \in 1 .. n : i = L + k
    OBVIOUS
  <2>1. i - L \in 1 .. n /\ i = L + (i - L)
    BY <1>0
  <2> QED BY <2>1
<1> HIDE DEF u
<1>20. \A i \in 0 .. L + n : u[i] \in 0 .. Len(all)
  <2> SUFFICES ASSUME NEW i \in 0 .. L + n PROVE u[i] \in 0 .. Len(all)
    OBVIOUS
  <2>1. CASE i \in 0 .. L
    <3>1. u[i] \in 0 .. S
      BY <1>14, <1>16, <2>1
    <3> QED BY <1>13, <3>1
  <2>2. CASE \E k \in 1 .. n : i = L + k
    <3>1. PICK k \in 1 .. n : i = L + k
      BY <2>2
    <3>2. k \in 0 .. n
      BY <1>0
    <3>3. split[k] \in 0 .. K /\ u[i] = S + split[k]
      BY <1>11, <1>17, <3>1, <3>2
    <3> QED BY <1>13, <3>3
  <2> QED BY <1>19, <2>1, <2>2
<1>21. ASSUME NEW i \in 1 .. L + n
       PROVE  /\ u[i] = u[i - 1] + Len(both[i].events)
              /\ \A j \in 1 .. Len(both[i].events) : both[i].events[j] = all[u[i - 1] + j]
  <2>1. CASE i \in 0 .. L
    <3>1. i \in 1 .. L /\ i - 1 \in 0 .. L
      BY <2>1
    <3>2. both[i] = c[i] /\ u[i] = upto[i] /\ u[i - 1] = upto[i - 1]
      BY <1>2, <1>6, <1>9, <1>16, <2>1, <3>1
    <3> QED BY <1>5, <1>6, <1>10, <3>1, <3>2
  <2>2. CASE \E k \in 1 .. n : i = L + k
    <3>1. PICK k \in 1 .. n : i = L + k
      BY <2>2
    <3>2. k - 1 \in 0 .. n /\ k \in 0 .. n /\ i - 1 = L + (k - 1)
      BY <1>0, <3>1
    <3>3. u[i] = S + split[k] /\ u[i - 1] = S + split[k - 1]
      BY <1>17, <3>1, <3>2
    <3>4. both[i] = d[k]
      BY <1>0, <1>2, <1>6, <1>9, <3>1
    <3>5. PICK a \in 0 .. K : a = split[k - 1]
      BY <1>11, <3>2
    <3>6. PICK b \in 0 .. K : b = split[k]
      BY <1>11, <3>2
    <3>12. /\ Len(d[k].events) = split[k] - split[k - 1]
           /\ \A j \in 1 .. Len(d[k].events) : /\ split[k - 1] + j \in 1 .. Len(out)
                                               /\ d[k].events[j] = out[split[k - 1] + j]
      BY CutIs
    <3>7. /\ Len(d[k].events) = b - a
          /\ \A j \in 1 .. Len(d[k].events) : a + j \in 1 .. K /\ d[k].events[j] = out[a + j]
      BY <1>8, <3>5, <3>6, <3>12
    <3>8. PICK ev : ev = d[k].events
      OBVIOUS
    <3>9. Len(ev) = b - a /\ \A j \in 1 .. Len(ev) : a + j \in 1 .. K /\ ev[j] = out[a + j]
      BY <3>7, <3>8
    <3>10. u[i] = u[i - 1] + Len(ev)
      <4>1. u[i] = S + b /\ u[i - 1] = S + a /\ Len(ev) = b - a
        BY <3>3, <3>5, <3>6, <3>9
      <4>2. S + b = (S + a) + (b - a)
        BY <3>5, <3>6
      <4> QED BY <4>1, <4>2
    <3>11. ASSUME NEW j \in 1 .. Len(ev) PROVE ev[j] = all[u[i - 1] + j]
      <4>1. PICK m \in 1 .. K : m = a + j /\ ev[j] = out[m]
        BY <3>9
      <4>2. u[i - 1] + j = S + m
        <5>1. u[i - 1] = S + a
          BY <3>3, <3>5
        <5>2. (S + a) + j = S + (a + j)
          BY <1>0, <3>5, <3>9
        <5> QED BY <4>1, <5>1, <5>2
      <4>3. all[S + m] = out[m]
        BY <1>1, <1>7, <1>8, <1>10, <4>1
      <4> QED BY <4>1, <4>2, <4>3
    <3> QED BY <3>4, <3>8, <3>10, <3>11
  <2>3. i \in 0 .. L + n
    BY <1>0
  <2> QED BY <1>19, <2>1, <2>2, <2>3
<1>22. u[0] = from /\ u[Len(both)] = Len(all)
  <2>1. 0 \in 0 .. L /\ n \in 0 .. n
    BY <1>0
  <2> QED BY <1>12, <1>13, <1>15, <1>16, <1>17, <2>1
<1>23. u \in [0 .. L + n -> 0 .. Len(all)]
  BY <1>18, <1>20
<1>24. Carries(all, both, from, u)
  BY <1>13, <1>21, <1>22, <1>23 DEF Carries
<1> QED BY <1>9, <1>10, <1>22, <1>24

\* The first packet is received.
LEMMA CarriesTail ==
  ASSUME NEW s \in Seq(GoodEvents), NEW c \in Seq(GoodPackets), c # << >>,
         NEW from, NEW upto, Carries(s, c, from, upto)
  PROVE  /\ from + Len(c[1].events) = upto[1] /\ upto[1] \in 0 .. Len(s) /\ from \in 0 .. Len(s)
         /\ \A j \in 1 .. Len(c[1].events) : c[1].events[j] = s[from + j]
         /\ \E u : Carries(s, Tail(c), upto[1], u) /\ u[Len(Tail(c))] = upto[Len(c)]
<1>1. /\ Len(c) \in Nat /\ Len(c) > 0 /\ Tail(c) \in Seq(GoodPackets) /\ Len(Tail(c)) = Len(c) - 1
      /\ \A i \in 1 .. Len(c) - 1 : Tail(c)[i] = c[i + 1]
  OBVIOUS
<1>2. /\ upto \in [0 .. Len(c) -> 0 .. Len(s)] /\ upto[0] = from
      /\ \A i \in 1 .. Len(c) : /\ upto[i] = upto[i - 1] + Len(c[i].events)
                                /\ \A j \in 1 .. Len(c[i].events) : c[i].events[j] = s[upto[i - 1] + j]
  BY DEF Carries
<1> DEFINE u == [i \in 0 .. Len(c) - 1 |-> upto[i + 1]]
           d == Tail(c)
<1>3. u \in [0 .. Len(c) - 1 -> 0 .. Len(s)] /\ u[0] = upto[1] /\ u[Len(c) - 1] = upto[Len(c)]
  <2>1. \A i \in 0 .. Len(c) - 1 : i + 1 \in 0 .. Len(c)
    BY <1>1
  <2>2. (Len(c) - 1) + 1 = Len(c) /\ 0 \in 0 .. Len(c) - 1 /\ Len(c) - 1 \in 0 .. Len(c) - 1
    BY <1>1
  <2> QED BY <1>2, <2>1, <2>2
<1>5. \A i \in 0 .. Len(c) - 1 : u[i] = upto[i + 1]
  OBVIOUS
<1> HIDE DEF u, d
<1>4. ASSUME NEW i \in 1 .. Len(c) - 1
      PROVE  /\ u[i] = u[i - 1] + Len(d[i].events)
             /\ \A j \in 1 .. Len(d[i].events) : d[i].events[j] = s[u[i - 1] + j]
  <2>1. PICK k \in 1 .. Len(c) : k = i + 1 /\ k - 1 = i
    BY <1>1
  <2>2. i \in 0 .. Len(c) - 1 /\ i - 1 \in 0 .. Len(c) - 1 /\ (i - 1) + 1 = i
    BY <1>1
  <2>3. d[i] = c[k] /\ u[i] = upto[k] /\ u[i - 1] = upto[k - 1]
    BY <1>1, <1>5, <2>1, <2>2 DEF d
  <2> QED BY <1>2, <2>1, <2>3
<1>6. Carries(s, d, upto[1], u)
  BY <1>1, <1>3, <1>4 DEF Carries, d
<1>7. /\ from + Len(c[1].events) = upto[1] /\ upto[1] \in 0 .. Len(s) /\ from \in 0 .. Len(s)
      /\ \A j \in 1 .. Len(c[1].events) : c[1].events[j] = s[from + j]
  <2>1. 1 \in 1 .. Len(c) /\ 1 - 1 = 0 /\ 0 \in 0 .. Len(c) /\ 1 \in 0 .. Len(c)
    BY <1>1
  <2> QED BY <1>2, <2>1
<1> QED BY <1>1, <1>3, <1>6, <1>7 DEF d

\* What is left when the rest is lost.
LEMMA CarriesFirst ==
  ASSUME NEW s, NEW c \in Seq(GoodPackets), NEW from, NEW upto, Carries(s, c, from, upto),
         NEW m \in Nat, m <= Len(c)
  PROVE  \E u : Carries(s, SubSeq(c, 1, m), from, u)
<1> DEFINE u == [i \in 0 .. m |-> upto[i]]
           d == SubSeq(c, 1, m)
<1>1. Len(c) \in Nat /\ Len(d) = m /\ \A i \in 1 .. m : d[i] = c[i]
  OBVIOUS
<1> HIDE DEF d
<1>2. /\ upto \in [0 .. Len(c) -> 0 .. Len(s)] /\ upto[0] = from
      /\ \A i \in 1 .. Len(c) : /\ upto[i] = upto[i - 1] + Len(c[i].events)
                                /\ \A j \in 1 .. Len(c[i].events) : c[i].events[j] = s[upto[i - 1] + j]
  BY DEF Carries
<1>3. \A i \in 0 .. m : i \in 0 .. Len(c) /\ u[i] = upto[i]
  BY <1>1
<1>4. \A i \in 1 .. m : i \in 1 .. Len(c) /\ i \in 0 .. m /\ i - 1 \in 0 .. m
  BY <1>1
<1>5. u \in [0 .. m -> 0 .. Len(s)] /\ u[0] = from
  BY <1>2, <1>3
<1> HIDE DEF u
<1>6. ASSUME NEW i \in 1 .. m
      PROVE  /\ u[i] = u[i - 1] + Len(d[i].events)
             /\ \A j \in 1 .. Len(d[i].events) : d[i].events[j] = s[u[i - 1] + j]
  <2>1. d[i] = c[i] /\ u[i] = upto[i] /\ u[i - 1] = upto[i - 1]
    BY <1>1, <1>3, <1>4
  <2> QED BY <1>2, <1>4, <2>1
<1>7. Carries(s, d, from, u)
  BY <1>1, <1>5, <1>6 DEF Carries
<1> QED BY <1>7 DEF d

\* What was said stays true while nothing more is given.
LEMMA SaysLater ==
  ASSUME NEW q, sent'[q] = sent[q], frame[q] \in Nat, frame'[q] \in Nat, frame[q] <= frame'[q],
         NEW f \in Int, NEW count, Says(q, f, count)
  PROVE  Says(q, f, count)'
  BY DEF Says

LEMMA StampedLater ==
  ASSUME Basic, NEW q \in Players, Stamped(q), sent'[q] = sent[q],
         frame'[q] \in Nat, frame[q] <= frame'[q],
         NEW p \in Players, NEW k,
         k \in info[q][p] \/ k \in Range(chan[q][p])
  PROVE  Says(q, k.frame, k.CommandCount)'
<1>1. k.frame \in Int /\ Says(q, k.frame, k.CommandCount)
  BY PacketTypes DEF Stamped
<1>2. PICK f \in Int : f = k.frame
  BY <1>1
<1>3. frame[q] \in Nat
  BY PlayerTypes
<1> QED BY <1>1, <1>2, <1>3, SaysLater

\* The place i of q, with its marks, was one of q's before.
Before(q, i, j) ==
  /\ j \in DOMAIN conns[q] /\ conns'[q][i] = conns[q][j] /\ their_frame'[q][i] = their_frame[q][j]
  /\ their_sent'[q][i] = their_sent[q][j] /\ their_recv'[q][i] = their_recv[q][j]

LEMMA CountsSetState ==
  ASSUME Basic, Counts, NEW p \in Players, NEW st, FromState(p, st), SetState(p, st),
         UNCHANGED << sent, my_sent >>, frame' \in [Players -> Nat],
         \A q \in Players : frame[q] <= frame'[q]
  PROVE  Counts'
<1>1. /\ conns'[p] = st.conns /\ their_frame'[p] = st.frames /\ their_sent'[p] = st.sents
      /\ their_recv'[p] = st.recvs
      /\ \A q \in Players \ {p} :
           /\ conns'[q] = conns[q] /\ their_frame'[q] = their_frame[q]
           /\ their_sent'[q] = their_sent[q] /\ their_recv'[q] = their_recv[q]
  BY SetStateIs
<1>2. /\ \A r, q \in Players : \E m \in Nat : m <= Len(chan[r][q]) /\ chan'[r][q] = SubSeq(chan[r][q], 1, m)
      /\ \A r, q \in Players : info'[r][q] \subseteq info[r][q]
      /\ \A r, q \in Players : ~ (r = p /\ q \in Range(conns[p]) \ Range(st.conns))
                            /\ ~ (q = p /\ r \in Range(conns[p]) \ Range(st.conns))
                            => chan'[r][q] = chan[r][q]
  BY SetStateKeeps
<1>3. ASSUME NEW q \in Players PROVE Stamped(q)'
  <2>1. Stamped(q) /\ frame[q] <= frame'[q] /\ frame'[q] \in Nat
    BY DEF Counts
  <2>2. ASSUME NEW r \in Players, NEW k \in info'[q][r]
        PROVE  Says(q, k.frame, k.CommandCount)' /\ k.events = << >>
    <3>1. k \in info[q][r]
      BY <1>2
    <3> QED BY <2>1, <3>1, StampedLater DEF Stamped
  <2>3. ASSUME NEW r \in Players, NEW k \in Range(chan'[q][r])
        PROVE  Says(q, k.frame, k.CommandCount)'
    <3>1. PICK m \in Nat : m <= Len(chan[q][r]) /\ chan'[q][r] = SubSeq(chan[q][r], 1, m)
      BY <1>2
    <3>2. chan[q][r] \in Seq(GoodPackets) /\ Len(chan[q][r]) \in Nat
      BY PacketTypes
    <3>3. Range(chan'[q][r]) \subseteq Range(chan[q][r])
      BY <3>1, <3>2 DEF Range
    <3> QED BY <2>1, <3>3, StampedLater
  <2> QED BY <2>2, <2>3 DEF Stamped
<1>4. ASSUME NEW q \in Players, NEW i \in DOMAIN conns'[q] PROVE \E j : Before(q, i, j)
  <2>1. CASE q = p
    <3>1. i \in DOMAIN st.conns
      BY <1>1, <2>1
    <3>2. PICK j \in DOMAIN conns[p] : /\ st.conns[i] = conns[p][j] /\ st.frames[i] = their_frame[p][j]
                                       /\ st.sents[i] = their_sent[p][j] /\ st.recvs[i] = their_recv[p][j]
      BY <3>1 DEF FromState
    <3> QED BY <1>1, <2>1, <3>2 DEF Before
  <2>2. CASE q # p
    BY <1>1, <2>2 DEF Before
  <2> QED BY <2>1, <2>2
<1>5. \A q, r \in Players : Connected(q, r)' => Connected(q, r)
  <2> SUFFICES ASSUME NEW q \in Players, NEW r \in Players, Connected(q, r)' PROVE Connected(q, r)
    OBVIOUS
  <2>1. PICK i \in DOMAIN conns'[q] : conns'[q][i] = r
    BY DEF Connected
  <2>2. PICK j : Before(q, i, j)
    BY <1>4
  <2> QED BY <2>1, <2>2 DEF Before, Connected
<1>6. ASSUME NEW q \in Players, NEW i \in DOMAIN conns'[q]
      PROVE  /\ Says(conns[q][i], their_frame[q][i], their_sent[q][i])'
             /\ Link(q, conns[q][i], their_recv[q][i])'
  <2>1. PICK j : Before(q, i, j)
    BY <1>4
  <2>2. PICK r \in Players : r = conns[q][j] /\ r = conns'[q][i]
    <3>1. conns[q][j] \in Players /\ conns[q][j] = conns'[q][i]
      BY <2>1, PlayerTypes DEF Before
    <3> QED BY <3>1
  <2>3. PICK f : f = their_frame[q][j] /\ f = their_frame'[q][i]
    BY <2>1 DEF Before
  <2>4. PICK c : c = their_sent[q][j] /\ c = their_sent'[q][i]
    BY <2>1 DEF Before
  <2>5. PICK from : from = their_recv[q][j] /\ from = their_recv'[q][i]
    BY <2>1 DEF Before
  <2>6. f \in Int /\ Says(r, f, c) /\ Link(q, r, from)
    <3>1. j \in DOMAIN conns[q] /\ j \in 1 .. N - 1 /\ their_frame[q] \in Marks
      BY <2>1, PlayerTypes DEF Before
    <3>2. their_frame[q][j] \in Int
      <4>1. their_frame[q][j] \in Nat \cup {-1}
        BY <3>1 DEF Marks
      <4> QED BY <4>1
    <3>3. Says(conns[q][j], their_frame[q][j], their_sent[q][j]) /\ Link(q, conns[q][j], their_recv[q][j])
      BY <3>1 DEF Counts, Heard
    <3> QED BY <2>2, <2>3, <2>4, <2>5, <3>2, <3>3
  <2>7. Says(r, f, c)'
    BY <2>6, SaysLater, PlayerTypes
  <2>8. Link(q, r, from)'
    <3>1. PICK upto : /\ Carries(sent[r], chan[r][q], from, upto)
                      /\ Connected(r, q) => upto[Len(chan[r][q])] = Len(sent[r])
      BY <2>6 DEF Link
    <3>2. CASE chan'[r][q] = chan[r][q]
      BY <1>5, <3>1, <3>2 DEF Link
    <3>3. CASE chan'[r][q] # chan[r][q]
      <4>1. (r = p /\ q \in Range(conns[p]) \ Range(st.conns)) \/ (q = p /\ r \in Range(conns[p]) \ Range(st.conns))
        BY <1>2, <3>3
      <4>2. ~ (q = p /\ r \notin Range(st.conns))
        BY <1>1, <2>2 DEF Range
      <4>3. ~ Connected(r, q)'
        BY <1>1, <4>1, <4>2 DEF Connected, Range
      <4>4. PICK m \in Nat : m <= Len(chan[r][q]) /\ chan'[r][q] = SubSeq(chan[r][q], 1, m)
        BY <1>2
      <4>5. chan[r][q] \in Seq(GoodPackets)
        BY PacketTypes
      <4>6. PICK u : Carries(sent[r], SubSeq(chan[r][q], 1, m), from, u)
        BY <3>1, <4>4, <4>5, CarriesFirst
      <4>8. sent'[r] = sent[r]
        OBVIOUS
      <4>7. Carries(sent'[r], chan'[r][q], from, u)
        BY <4>4, <4>6, <4>8
      <4> QED BY <4>3, <4>7 DEF Link
    <3> QED BY <3>2, <3>3
  <2> QED BY <2>2, <2>3, <2>4, <2>5, <2>7, <2>8
<1>7. \A q \in Players : my_sent'[q] = Len(sent'[q])
  BY DEF Counts
<1> QED BY <1>3, <1>6, <1>7 DEF Counts, Heard

LEMMA CountsAllReady ==
  ASSUME Basic, Counts, NEW p \in Players, AllReady(p) PROVE Counts'
<1>1. /\ UNCHANGED << frame, my_sent, conns, their_sent, their_recv, chan, info, sent >>
      /\ their_frame' = [their_frame EXCEPT ![p] = [i \in DOMAIN @ |-> 0]]
  BY DEF AllReady, local, history
<1>2. ASSUME NEW q \in Players PROVE Stamped(q)'
  BY <1>1 DEF Counts, Stamped, Says
<1>3. ASSUME NEW q \in Players, NEW i \in DOMAIN conns'[q]
      PROVE  /\ Says(conns[q][i], their_frame[q][i], their_sent[q][i])'
             /\ Link(q, conns[q][i], their_recv[q][i])'
  <2>1. PICK r \in Players : r = conns[q][i] /\ r = conns'[q][i] /\ i \in 1 .. N - 1
    BY <1>1, PlayerTypes
  <2>2. Says(r, their_frame[q][i], their_sent[q][i]) /\ Link(q, r, their_recv[q][i])
    BY <1>1, <2>1 DEF Counts, Heard
  <2>3. Link(q, conns[q][i], their_recv[q][i])'
    BY <1>1, <2>1, <2>2 DEF Link, Connected
  <2>4. CASE q = p
    <3>1. their_frame'[q][i] = 0
      <4>1. their_frame \in [Players -> Marks] /\ DOMAIN their_frame[p] = 1 .. N - 1
        BY DEF Basic, Types, Marks
      <4> QED BY <1>1, <2>1, <2>4, <4>1
    <3>2. \A n \in DOMAIN sent[r] : ~ (sent[r][n].at < 0)
      <4> SUFFICES ASSUME NEW n \in DOMAIN sent[r] PROVE ~ (sent[r][n].at < 0)
        OBVIOUS
      <4>1. sent[r] \in Seq(GoodEvents)
        BY PlayerTypes
      <4>2. sent[r][n] \in GoodEvents
        BY <4>1
      <4>3. sent[r][n].at \in Nat
        BY <4>2 DEF GoodEvents, Event
      <4> QED BY <4>3
    <3>3. frame[r] \in Nat
      BY PlayerTypes
    <3> QED BY <1>1, <2>1, <2>2, <2>3, <3>1, <3>2, <3>3 DEF Says
  <2>5. CASE q # p
    <3>1. their_frame'[q] = their_frame[q]
      BY <1>1, <2>5 DEF Basic, Types
    <3> QED BY <1>1, <2>1, <2>2, <2>3, <3>1 DEF Says
  <2> QED BY <2>4, <2>5
<1> QED BY <1>1, <1>2, <1>3 DEF Counts, Heard

LEMMA CountsFrameSync ==
  ASSUME Basic, Counts, NEW p \in Players, Send_FrameSync(p) PROVE Counts'
<1>1. /\ UNCHANGED << frame, my_sent, conns, their_frame, their_sent, their_recv, chan, sent >>
      /\ Broadcast(p, FrameSync(p))
  BY DEF Send_FrameSync, local, peers, history
<1>2. \A q, r \in Players : \A k \in info'[q][r] : k \in info[q][r] \/ (q = p /\ k = FrameSync(p))
  BY <1>1, BroadcastIs
<1>3. FrameSync(p).frame = frame[p] /\ FrameSync(p).CommandCount = Len(sent[p]) /\ FrameSync(p).events = << >>
  BY DEF FrameSync, Packet, Counts
<1>4. Says(p, frame[p], Len(sent[p]))
  BY PlayerTypes DEF Says
<1>5. ASSUME NEW q \in Players PROVE Stamped(q)'
  <2>1. Stamped(q)
    BY DEF Counts
  <2>2. ASSUME NEW r \in Players, NEW k \in info'[q][r]
        PROVE  Says(q, k.frame, k.CommandCount) /\ k.events = << >>
    BY <1>2, <1>3, <1>4, <2>1 DEF Stamped
  <2> QED BY <1>1, <2>1, <2>2 DEF Stamped, Says
<1>6. ASSUME NEW q \in Players PROVE Heard(q)'
  <2>1. Heard(q)
    BY DEF Counts
  <2> QED BY <1>1, <2>1 DEF Heard, Says, Link, Connected
<1> QED BY <1>1, <1>5, <1>6 DEF Counts

LEMMA MarkTypes ==
  ASSUME Basic, NEW p \in Players, NEW i \in 1 .. N - 1
  PROVE  /\ their_frame[p][i] \in Int /\ their_sent[p][i] \in Int /\ their_recv[p][i] \in Int
<1>1. \A x \in Marks : x[i] \in Nat \cup {-1}
  BY DEF Marks
<1>2. \A x \in Marks : x[i] \in Int
  BY <1>1
<1>3. their_frame[p] \in Marks /\ their_sent[p] \in Marks /\ their_recv[p] \in Marks
  BY PlayerTypes
<1> QED BY <1>2, <1>3

\* What p sends says how much it had given before.
LEMMA SendMore ==
  ASSUME Basic, NEW p \in Players, Send_Packets(p), NEW out, Sends(p, out)
  PROVE  /\ More(p, out) /\ sent'[p] = sent[p] \o out
         /\ \A q \in Players \ {p} : /\ frame'[q] = frame[q] /\ sent'[q] = sent[q]
<1>1. frame[p] \in Nat /\ sent[p] \in Seq(GoodEvents)
  BY PlayerTypes
<1>2. frame[p] = 0 => frame'[p] = FrameSendRate
  BY SendIs
<1>3. frame[p] # 0 => frame'[p] = frame[p]
  BY SendIs
<1>4. frame'[p] \in Nat /\ frame[p] <= frame'[p]
  BY <1>1, <1>2, <1>3, RatePositive
<1>5. \A q \in Players \ {p} : frame'[q] = frame[q]
  BY SendIs
<1> QED BY <1>1, <1>4, <1>5 DEF More, Sends

LEMMA PacketsCut ==
  ASSUME NEW p, NEW out \in Seq(GoodEvents), Packets(p, out) \in Seq(GoodPackets)
  PROVE  /\ \E n : \E split : Cut(out, Packets(p, out), n, split)
         /\ \A k \in Range(Packets(p, out)) : k.frame = frame[p] /\ k.CommandCount = my_sent[p]
<1>1. PICK n \in Nat : \E split : Split(p, out, n, split)
  BY PacketsAre
<1>2. PICK split : Split(p, out, n, split)
  BY <1>1
<1>3. PICK d : d = Packets(p, out)
  OBVIOUS
<1>4. d = [i \in 1 .. n |-> Packet(frame[p], my_sent[p], SubSeq(out, split[i - 1] + 1, split[i]))]
  BY <1>2, <1>3 DEF Split
<1>5. DOMAIN d = 1 .. n /\ Len(d) = n
  <2>1. DOMAIN d = 1 .. n /\ d \in Seq(GoodPackets)
    BY <1>3, <1>4
  <2>2. DOMAIN d = 1 .. Len(d) /\ Len(d) \in Nat
    BY <2>1
  <2> QED BY <1>1, <2>1, <2>2
<1>6. \A i \in 1 .. n : /\ d[i].frame = frame[p] /\ d[i].CommandCount = my_sent[p]
                        /\ d[i].events = SubSeq(out, split[i - 1] + 1, split[i])
  BY <1>4 DEF Packet
<1>7. Cut(out, d, n, split)
  BY <1>1, <1>2, <1>3, <1>5, <1>6 DEF Cut, Split
<1>8. \A k \in Range(d) : k.frame = frame[p] /\ k.CommandCount = my_sent[p]
  BY <1>5, <1>6 DEF Range
<1> QED BY <1>3, <1>7, <1>8

LEMMA CountsSend ==
  ASSUME Basic, Counts, NEW p \in Players, Send_Packets(p), Len(sent'[p]) < CountMod
  PROVE  Counts'
<1>1. PICK out : Sends(p, out)
  BY SendIs
<1>2. UNCHANGED << conns, their_frame, their_sent, their_recv >>
  BY SendIs
<1>3. More(p, out) /\ sent'[p] = sent[p] \o out
  BY <1>1, SendMore
<1>4. \A q \in Players \ {p} : frame'[q] = frame[q] /\ sent'[q] = sent[q] /\ my_sent'[q] = my_sent[q]
  <2>1. \A q \in Players \ {p} : frame'[q] = frame[q] /\ sent'[q] = sent[q]
    BY <1>1, SendMore
  <2> QED BY <1>1, <2>1 DEF Sends
<1>5. /\ \A q, r \in Players : chan'[q][r] = IF q = p /\ Connected(p, r) /\ Connected(r, p)
                                             THEN chan[q][r] \o Packets(p, out) ELSE chan[q][r]
      /\ \A q, r \in Players : \A k \in info'[q][r] : k \in info[q][r] \/ (q = p /\ k = FrameSync(p))
      /\ out \in Seq(GoodEvents) /\ my_sent'[p] = (my_sent[p] + Len(out)) % CountMod
  BY <1>1 DEF Sends
<1>6. Packets(p, out) \in Seq(GoodPackets)
  BY <1>5, PacketsType
<1>7. /\ \E n : \E split : Cut(out, Packets(p, out), n, split)
      /\ \A k \in Range(Packets(p, out)) : k.frame = frame[p] /\ k.CommandCount = my_sent[p]
  BY <1>5, <1>6, PacketsCut
<1>8. /\ my_sent[p] = Len(sent[p]) /\ Len(sent[p]) \in Nat /\ Len(out) \in Nat
      /\ Len(sent'[p]) = Len(sent[p]) + Len(out)
  BY <1>3, MoreIs DEF Counts
<1>9. my_sent'[p] = Len(sent'[p])
  <2>1. PICK a \in Nat : a = Len(sent'[p]) /\ a = my_sent[p] + Len(out)
    BY <1>8
  <2>2. a < CountMod /\ CountMod \in Nat /\ my_sent'[p] = a % CountMod
    BY <1>5, <2>1, LockstepAssumption
  <2> QED BY <2>1, <2>2
<1>10. \A f, count \in Int : Says(p, f, count) => Says(p, f, count)'
  BY <1>3, SaysStays
<1>11. \A f, count : f = frame[p] /\ count = Len(sent[p]) => Says(p, f, count)'
  <2>1. /\ frame[p] <= frame'[p] /\ Len(sent[p]) <= Len(sent'[p])
        /\ \A n \in DOMAIN sent'[p] : sent'[p][n].at < frame[p] => n <= Len(sent[p])
    BY <1>3, SaysNow
  <2> QED BY <2>1 DEF Says
<1>12. \A q \in Players \ {p} : \A f, count : Says(q, f, count) => Says(q, f, count)'
  BY <1>4 DEF Says
<1>13. ASSUME NEW q \in Players PROVE Stamped(q)'
  <2>1. Stamped(q)
    BY DEF Counts
  <2>2. ASSUME NEW r \in Players, NEW k, k \in info[q][r] \/ k \in Range(chan[q][r])
        PROVE  Says(q, k.frame, k.CommandCount)'
    <3>1. PICK f \in Int, c \in Int : f = k.frame /\ c = k.CommandCount
      <4>1. k.frame \in Nat /\ k.CommandCount \in 0 .. CountMod - 1 /\ CountMod \in Nat
        BY <2>2, PacketTypes, LockstepAssumption
      <4>2. k.frame \in Int /\ k.CommandCount \in Int
        BY <4>1
      <4> QED BY <4>2
    <3>2. Says(q, k.frame, k.CommandCount)
      BY <2>1, <2>2 DEF Stamped
    <3>3. Says(q, f, c)
      BY <3>1, <3>2
    <3>4. Says(q, f, c)'
      BY <1>10, <1>12, <3>3
    <3> QED BY <3>1, <3>4
  <2>3. ASSUME NEW r \in Players, NEW k \in info'[q][r]
        PROVE  Says(q, k.frame, k.CommandCount)' /\ k.events = << >>
    <3>1. CASE k \in info[q][r]
      BY <2>1, <2>2, <3>1 DEF Stamped
    <3>2. CASE k \notin info[q][r]
      <4>1. q = p /\ k = FrameSync(p)
        BY <1>5, <3>2
      <4>2. k.frame = frame[p] /\ k.CommandCount = Len(sent[p]) /\ k.events = << >>
        BY <1>8, <4>1 DEF FrameSync, Packet
      <4>3. PICK f : f = frame[p]
        OBVIOUS
      <4>4. PICK c : c = Len(sent[p])
        OBVIOUS
      <4>5. Says(p, f, c)'
        BY <1>11, <4>3, <4>4
      <4> QED BY <4>1, <4>2, <4>3, <4>4, <4>5
    <3> QED BY <3>1, <3>2
  <2>4. ASSUME NEW r \in Players, NEW k \in Range(chan'[q][r])
        PROVE  Says(q, k.frame, k.CommandCount)'
    <3>1. CASE k \in Range(chan[q][r])
      BY <2>2, <3>1
    <3>2. CASE k \notin Range(chan[q][r])
      <4>1. q = p /\ chan'[q][r] = chan[q][r] \o Packets(p, out)
        BY <1>5, <3>2
      <4>2. PICK a : a = chan[q][r]
        OBVIOUS
      <4>3. PICK b : b = Packets(p, out)
        OBVIOUS
      <4>4. a \in Seq(GoodPackets) /\ b \in Seq(GoodPackets)
        BY <1>6, <4>2, <4>3, PacketTypes
      <4>5. k \in Range(a \o b)
        BY <4>1, <4>2, <4>3
      <4>6. k \in Range(a) \/ k \in Range(b)
        BY <4>4, <4>5 DEF Range
      <4>7. k.frame = frame[p] /\ k.CommandCount = Len(sent[p])
        BY <1>7, <1>8, <3>2, <4>2, <4>3, <4>6
      <4>8. PICK f : f = frame[p]
        OBVIOUS
      <4>9. PICK c : c = Len(sent[p])
        OBVIOUS
      <4>10. Says(p, f, c)'
        BY <1>11, <4>8, <4>9
      <4> QED BY <4>1, <4>7, <4>8, <4>9, <4>10
    <3> QED BY <3>1, <3>2
  <2> QED BY <2>3, <2>4 DEF Stamped
<1>14. ASSUME NEW q \in Players, NEW i \in DOMAIN conns'[q]
       PROVE  /\ Says(conns[q][i], their_frame[q][i], their_sent[q][i])'
              /\ Link(q, conns[q][i], their_recv[q][i])'
  <2>1. PICK r \in Players : r = conns[q][i] /\ r = conns'[q][i] /\ i \in 1 .. N - 1 /\ i \in DOMAIN conns[q]
    BY <1>2, PlayerTypes
  <2>2. PICK f : f = their_frame[q][i] /\ f = their_frame'[q][i]
    BY <1>2
  <2>3. PICK c : c = their_sent[q][i] /\ c = their_sent'[q][i]
    BY <1>2
  <2>4. PICK from : from = their_recv[q][i] /\ from = their_recv'[q][i]
    BY <1>2
  <2>5. Says(r, f, c) /\ Link(q, r, from)
    BY <2>1, <2>2, <2>3, <2>4 DEF Counts, Heard
  <2>6. f \in Int /\ c \in Int
    <3>1. their_frame[q][i] \in Int /\ their_sent[q][i] \in Int
      BY <2>1, MarkTypes
    <3> QED BY <2>2, <2>3, <3>1
  <2>7. Says(r, f, c)'
    BY <1>10, <1>12, <2>5, <2>6
  <2>8. PICK upto : /\ Carries(sent[r], chan[r][q], from, upto)
                    /\ Connected(r, q) => upto[Len(chan[r][q])] = Len(sent[r])
    BY <2>5 DEF Link
  <2>9. Link(q, r, from)'
    <3>1. CASE r # p
      <4>1. sent'[r] = sent[r] /\ chan'[r][q] = chan[r][q]
        BY <1>4, <1>5, <3>1
      <4> QED BY <1>2, <2>8, <4>1 DEF Link, Connected
    <3>2. CASE r = p /\ ~ Connected(p, q)
      <4>1. chan'[p][q] = chan[p][q] /\ ~ Connected(p, q)'
        BY <1>2, <1>5, <3>2 DEF Connected
      <4>2. chan[p][q] \in Seq(GoodPackets) /\ sent[p] \in Seq(GoodEvents)
        BY PacketTypes, PlayerTypes
      <4>3. Carries(sent[p] \o out, chan[p][q], from, upto)
        BY <1>5, <2>8, <3>2, <4>2, CarriesStays
      <4>4. Carries(sent[p], chan[p][q], from, upto)'
        BY <1>3, <4>1, <4>3
      <4> QED BY <3>2, <4>1, <4>4 DEF Link
    <3>3. CASE r = p /\ Connected(p, q)
      <4>1. Connected(q, p)
        BY <2>1, <3>3 DEF Connected
      <4>2. chan'[p][q] = chan[p][q] \o Packets(p, out)
        BY <1>5, <3>3, <4>1
      <4>3. chan[p][q] \in Seq(GoodPackets) /\ sent[p] \in Seq(GoodEvents)
        BY PacketTypes, PlayerTypes
      <4>4. PICK d : d = Packets(p, out)
        OBVIOUS
      <4>5. PICK n : \E split : Cut(out, d, n, split)
        BY <1>7, <4>4
      <4>6. PICK split : Cut(out, d, n, split)
        BY <4>5
      <4>7. Carries(sent[p], chan[p][q], from, upto) /\ upto[Len(chan[p][q])] = Len(sent[p])
        BY <2>8, <3>3
      <4>8. PICK u : Carries(sent[p] \o out, chan[p][q] \o d, from, u) /\ u[Len(chan[p][q] \o d)] = Len(sent[p] \o out)
        <5>1. PICK a \in Seq(GoodEvents) : a = sent[p]
          BY <4>3
        <5>2. PICK b \in Seq(GoodPackets) : b = chan[p][q]
          BY <4>3
        <5>3. out \in Seq(GoodEvents)
          BY <1>5
        <5>4. Carries(a, b, from, upto) /\ upto[Len(b)] = Len(a)
          BY <4>7, <5>1, <5>2
        <5>5. \E u : Carries(a \o out, b \o d, from, u) /\ u[Len(b \o d)] = Len(a \o out)
          BY <4>6, <5>3, <5>4, CarriesMore
        <5> QED BY <5>1, <5>2, <5>5
      <4>9. Carries(sent[p], chan[p][q], from, u)' /\ u[Len(chan'[p][q])] = Len(sent'[p])
        BY <1>3, <4>2, <4>4, <4>8
      <4> QED BY <3>3, <4>9 DEF Link
    <3> QED BY <3>1, <3>2, <3>3
  <2> QED BY <2>1, <2>2, <2>3, <2>4, <2>7, <2>9
<1>15. \A q \in Players : my_sent'[q] = Len(sent'[q])
  BY <1>4, <1>9 DEF Counts
<1> QED BY <1>13, <1>14, <1>15 DEF Counts, Heard

LEMMA SaysBoth ==
  ASSUME NEW q, NEW f \in Int, NEW c \in Int, NEW g \in Int, NEW d \in Int, Says(q, f, c), Says(q, g, d)
  PROVE  Says(q, IF f < g THEN g ELSE f, IF c < d THEN d ELSE c)
<1>1. PICK h \in Int : h = IF f < g THEN g ELSE f
  OBVIOUS
<1>2. PICK e \in Int : e = IF c < d THEN d ELSE c
  OBVIOUS
<1>3. h <= frame[q] /\ e <= Len(sent[q])
  BY <1>1, <1>2 DEF Says
<1>4. ASSUME NEW n \in DOMAIN sent[q], sent[q][n].at < h PROVE n <= e
  <2>1. CASE f < g
    BY <1>1, <1>2, <1>4, <2>1 DEF Says
  <2>2. CASE ~ (f < g)
    BY <1>1, <1>2, <1>4, <2>2 DEF Says
  <2> QED BY <2>1, <2>2
<1>5. Says(q, h, e)
  BY <1>3, <1>4 DEF Says
<1> QED BY <1>1, <1>2, <1>5

\* p receives k from q, after which the packets still on their way are more.
LEMMA CountsProcess ==
  ASSUME Basic, Counts, CountsFit, NEW p \in Players, NEW q \in Players, Listening(p, q),
         NEW k \in GoodPackets, Says(q, k.frame, k.CommandCount), Process_Receive_Packet(p, q, k),
         \A r, o \in Players : Range(chan'[r][o]) \subseteq Range(chan[r][o]),
         \A r, o \in Players : ~ (r = q /\ o = p) => chan'[r][o] = chan[r][o],
         \A from \in Int : Link(p, q, from) =>
           /\ from + Len(k.events) \in 0 .. Len(sent[q])
           /\ \A x : x = from + Len(k.events) => Link(p, q, x)'
  PROVE  Counts'
<1> DEFINE i == Place(p, q)
<1>0. Processed(p, q, k)
  BY ProcessIs
<1>1. /\ i \in DOMAIN conns[p] /\ i \in 1 .. N - 1 /\ conns[p][i] = q
      /\ UNCHANGED << frame, my_sent, conns, sent >>
  BY <1>0 DEF Processed
<1>2. \A r \in Players : \A j \in 1 .. N - 1 :
              ~ (r = p /\ j = i) => /\ their_frame'[r][j] = their_frame[r][j]
                                    /\ their_sent'[r][j] = their_sent[r][j]
                                    /\ their_recv'[r][j] = their_recv[r][j]
  BY <1>0 DEF Processed
<1>3. /\ their_frame'[p][i] = IF their_frame[p][i] < k.frame THEN k.frame ELSE their_frame[p][i]
      /\ their_sent'[p][i] = IF their_sent[p][i] < k.CommandCount THEN k.CommandCount ELSE their_sent[p][i]
      /\ their_recv'[p][i] = (their_recv[p][i] + Len(k.events)) % CountMod
  BY <1>0 DEF Processed
<1>4. \A r, o \in Players : info'[r][o] \subseteq info[r][o]
  BY <1>0 DEF Processed
<1> HIDE DEF i
<1>5. \A r : \A f, c : Says(r, f, c) => Says(r, f, c)'
  BY <1>1 DEF Says
<1>6. ASSUME NEW r \in Players PROVE Stamped(r)'
  <2>1. Stamped(r)
    BY DEF Counts
  <2>2. ASSUME NEW o \in Players, NEW x \in info'[r][o]
        PROVE  Says(r, x.frame, x.CommandCount)' /\ x.events = << >>
    <3>1. x \in info[r][o]
      BY <1>4
    <3> QED BY <1>5, <2>1, <3>1 DEF Stamped
  <2>3. ASSUME NEW o \in Players, NEW x \in Range(chan'[r][o])
        PROVE  Says(r, x.frame, x.CommandCount)'
    <3>1. x \in Range(chan[r][o])
      OBVIOUS
    <3> QED BY <1>5, <2>1, <3>1 DEF Stamped
  <2> QED BY <2>2, <2>3 DEF Stamped
<1>7. ASSUME NEW r \in Players, NEW j \in DOMAIN conns'[r]
      PROVE  /\ Says(conns[r][j], their_frame[r][j], their_sent[r][j])'
             /\ Link(r, conns[r][j], their_recv[r][j])'
  <2>1. PICK o \in Players : o = conns[r][j] /\ o = conns'[r][j] /\ j \in 1 .. N - 1 /\ j \in DOMAIN conns[r]
    BY <1>1, PlayerTypes
  <2>2. PICK f \in Int : f = their_frame[r][j]
    BY <2>1, MarkTypes
  <2>3. PICK c \in Int : c = their_sent[r][j]
    BY <2>1, MarkTypes
  <2>4. PICK from \in Int : from = their_recv[r][j]
    BY <2>1, MarkTypes
  <2>5. Says(o, f, c) /\ Link(r, o, from)
    BY <2>1, <2>2, <2>3, <2>4 DEF Counts, Heard
  <2>6. CASE r = p /\ j = i
    <3>1. o = q
      BY <1>1, <2>1, <2>6
    <3>2. PICK g \in Int : g = k.frame
      BY DEF GoodPackets
    <3>3. PICK d \in Int : d = k.CommandCount
      <4>1. k.CommandCount \in 0 .. CountMod - 1 /\ CountMod \in Nat
        BY LockstepAssumption DEF GoodPackets
      <4>2. k.CommandCount \in Int
        BY <4>1
      <4> QED BY <4>2
    <3>4. Says(q, g, d)
      BY <3>2, <3>3
    <3>5. PICK h : h = IF f < g THEN g ELSE f
      OBVIOUS
    <3>6. PICK e : e = IF c < d THEN d ELSE c
      OBVIOUS
    <3>7. Says(q, h, e)
      BY <2>5, <3>1, <3>4, <3>5, <3>6, SaysBoth
    <3>8. Says(q, h, e)'
      BY <1>5, <3>7
    <3>9. h = their_frame'[r][j] /\ e = their_sent'[r][j]
      BY <1>3, <2>2, <2>3, <2>6, <3>2, <3>3, <3>5, <3>6
    <3>10. from + Len(k.events) \in 0 .. Len(sent[q]) /\ \A x : x = from + Len(k.events) => Link(p, q, x)'
      BY <2>4, <2>5, <2>6, <3>1
    <3>11. PICK x : x = from + Len(k.events)
      OBVIOUS
    <3>12. Link(p, q, x)'
      BY <3>10, <3>11
    <3>13. x = their_recv'[r][j]
      <4>1. Len(sent[q]) \in Nat /\ Len(sent[q]) < CountMod /\ CountMod \in Nat
        BY PlayerTypes, LockstepAssumption DEF CountsFit
      <4>2. x \in Nat /\ x < CountMod
        BY <3>10, <3>11, <4>1
      <4>3. x % CountMod = x
        BY <4>1, <4>2
      <4> QED BY <1>3, <2>4, <2>6, <3>11, <4>3
    <3> QED BY <2>1, <2>6, <3>1, <3>8, <3>9, <3>12, <3>13
  <2>7. CASE ~ (r = p /\ j = i)
    <3>1. their_frame'[r][j] = f /\ their_sent'[r][j] = c /\ their_recv'[r][j] = from
      BY <1>2, <2>1, <2>2, <2>3, <2>4, <2>7
    <3>2. ~ (o = q /\ r = p)
      <4> SUFFICES ASSUME o = q, r = p PROVE FALSE
        OBVIOUS
      <4>1. IsInjective(conns[p])
        BY DEF Basic, Joined
      <4>2. i = j
        BY <1>1, <2>1, <4>1 DEF IsInjective
      <4> QED BY <2>7, <4>2
    <3>3. chan'[o][r] = chan[o][r]
      BY <3>2
    <3>4. Says(o, f, c)'
      BY <1>5, <2>5
    <3>5. Link(r, o, from)'
      BY <1>1, <2>5, <3>3 DEF Link, Connected
    <3> QED BY <2>1, <3>1, <3>4, <3>5
  <2> QED BY <2>6, <2>7
<1>8. \A r \in Players : my_sent'[r] = Len(sent'[r])
  BY <1>1 DEF Counts
<1> QED BY <1>6, <1>7, <1>8 DEF Counts, Heard

LEMMA CountsReceiveInfo ==
  ASSUME Basic, Counts, CountsFit, NEW p \in Players, NEW q \in Players, ReceiveInfo(p, q)
  PROVE  Counts'
<1>1. Listening(p, q) /\ UNCHANGED chan
  BY DEF ReceiveInfo
<1>2. PICK k \in info[q][p] : Process_Receive_Packet(p, q, k)
  BY DEF ReceiveInfo
<1>3. k \in GoodPackets /\ Says(q, k.frame, k.CommandCount) /\ k.events = << >>
  BY PacketTypes DEF Counts, Stamped
<1>6. Processed(p, q, k)
  BY <1>1, <1>2, <1>3, ProcessIs
<1>4. UNCHANGED << conns, sent >>
  BY <1>6 DEF Processed
<1>5. ASSUME NEW from \in Int, Link(p, q, from)
      PROVE  /\ from + Len(k.events) \in 0 .. Len(sent[q])
             /\ \A x : x = from + Len(k.events) => Link(p, q, x)'
  <2>1. from + Len(k.events) = from
    BY <1>3
  <2>2. Link(p, q, from)'
    BY <1>1, <1>4, <1>5 DEF Link, Connected
  <2>3. from \in 0 .. Len(sent[q])
    <3>1. PICK upto : Carries(sent[q], chan[q][p], from, upto)
      BY <1>5 DEF Link
    <3>2. Len(chan[q][p]) \in Nat
      BY PacketTypes
    <3>3. 0 \in 0 .. Len(chan[q][p])
      BY <3>2
    <3> QED BY <3>1, <3>3 DEF Carries
  <2> QED BY <2>1, <2>2, <2>3
<1> QED BY <1>1, <1>2, <1>3, <1>5, CountsProcess

LEMMA CountsReceiveCommands ==
  ASSUME Basic, Counts, CountsFit, NEW p \in Players, NEW q \in Players, ReceiveCommands(p, q)
  PROVE  Counts'
<1>1. PICK c \in Seq(GoodPackets) : c = chan[q][p]
  BY PacketTypes
<1>2. PICK k : k = Head(c)
  OBVIOUS
<1>3. Listening(p, q) /\ c # << >> /\ Process_Receive_Packet(p, q, k) /\ chan' = [chan EXCEPT ![q][p] = Tail(c)]
  BY <1>1, <1>2 DEF ReceiveCommands
<1>4. k = c[1] /\ k \in GoodPackets /\ k \in Range(c) /\ Tail(c) \in Seq(GoodPackets) /\ Range(Tail(c)) \subseteq Range(c)
  <2>1. Len(c) \in Nat /\ 1 \in DOMAIN c /\ k = c[1] /\ Tail(c) \in Seq(GoodPackets)
    BY <1>2, <1>3
  <2> QED BY <2>1 DEF Range
<1>5. Says(q, k.frame, k.CommandCount)
  BY <1>1, <1>4 DEF Counts, Stamped
<1>6. chan \in [Players -> [Players -> Seq(GoodPackets)]]
  BY DEF Basic, Types
<1>7. \A r, o \in Players : chan'[r][o] = IF r = q /\ o = p THEN Tail(c) ELSE chan[r][o]
  BY <1>3, <1>6
<1>8. \A r, o \in Players : Range(chan'[r][o]) \subseteq Range(chan[r][o])
  BY <1>1, <1>4, <1>7
<1>9. \A r, o \in Players : ~ (r = q /\ o = p) => chan'[r][o] = chan[r][o]
  BY <1>7
<1>12. Processed(p, q, k)
  BY <1>3, <1>4, ProcessIs
<1>10. UNCHANGED << conns, sent >>
  BY <1>12 DEF Processed
<1>11. ASSUME NEW from \in Int, Link(p, q, from)
       PROVE  /\ from + Len(k.events) \in 0 .. Len(sent[q])
              /\ \A x : x = from + Len(k.events) => Link(p, q, x)'
  <2>1. PICK upto : /\ Carries(sent[q], c, from, upto)
                    /\ Connected(q, p) => upto[Len(c)] = Len(sent[q])
    BY <1>1, <1>11 DEF Link
  <2>2. PICK s \in Seq(GoodEvents) : s = sent[q]
    BY PlayerTypes
  <2>3. /\ from + Len(c[1].events) = upto[1] /\ upto[1] \in 0 .. Len(s)
        /\ \E u : Carries(s, Tail(c), upto[1], u) /\ u[Len(Tail(c))] = upto[Len(c)]
    BY <1>3, <2>1, <2>2, CarriesTail
  <2>4. PICK u : Carries(s, Tail(c), upto[1], u) /\ u[Len(Tail(c))] = upto[Len(c)]
    BY <2>3
  <2>5. ASSUME NEW x, x = from + Len(k.events) PROVE Link(p, q, x)'
    <3>1. x = upto[1]
      BY <1>4, <2>3, <2>5
    <3>2. Carries(sent'[q], chan'[q][p], x, u)
      BY <1>7, <1>10, <2>2, <2>4, <3>1
    <3>3. Connected(q, p)' => u[Len(chan'[q][p])] = Len(sent'[q])
      BY <1>7, <1>10, <2>1, <2>4 DEF Connected
    <3> QED BY <3>2, <3>3 DEF Link
  <2> QED BY <1>4, <2>2, <2>3, <2>5
<1> QED BY <1>3, <1>4, <1>5, <1>8, <1>9, <1>11, CountsProcess

\* What a player has given only gets more.
LEMMA SentGrows ==
  ASSUME Basic, [Next]_vars, NEW q \in Players
  PROVE  Len(sent[q]) <= Len(sent'[q]) /\ Len(sent[q]) \in Nat
<1>1. Len(sent[q]) \in Nat
  BY PlayerTypes
<1>2. CASE UNCHANGED sent
  BY <1>1, <1>2
<1>3. ASSUME NEW p \in Players, Send_Packets(p) PROVE Len(sent[q]) <= Len(sent'[q])
  <2>1. PICK out : Sends(p, out)
    BY <1>3, SendIs
  <2>2. More(p, out) /\ \A r \in Players \ {p} : sent'[r] = sent[r]
    BY <1>3, <2>1, SendMore
  <2>3. CASE q = p
    BY <2>2, <2>3, MoreIs
  <2>4. CASE q # p
    BY <1>1, <2>2, <2>4
  <2> QED BY <2>3, <2>4
<1>4. UNCHANGED sent \/ \E p \in Players : Send_Packets(p)
  <2>1. CASE UNCHANGED vars
    BY <2>1 DEF vars, history
  <2>2. ASSUME NEW p \in Players,
               Send_FrameSync(p) \/ AllReady(p) \/ Advance(p) \/ Handle_Timeout(p) \/ GiveUp(p)
        PROVE  UNCHANGED sent
    BY <2>2 DEF Send_FrameSync, AllReady, Advance, Handle_Timeout, GiveUp, history
  <2>3. ASSUME NEW p \in Players, NEW r \in Players, ReceiveCommands(p, r) \/ ReceiveInfo(p, r)
        PROVE  UNCHANGED sent
    BY <2>3 DEF ReceiveCommands, ReceiveInfo, Process_Receive_Packet, history
  <2> QED BY <2>1, <2>2, <2>3 DEF Next
<1> QED BY <1>1, <1>2, <1>3, <1>4

LEMMA CountsClosed ==
  ASSUME Basic, Counts, NEW p \in Players, Handle_Timeout(p) \/ GiveUp(p)
  PROVE  Counts'
<1>1. UNCHANGED << frame, my_sent, sent >>
  BY DEF Handle_Timeout, GiveUp, history
<1>2. phase[p] # "left" /\ FromState(p, State(p))
  BY StateFrom DEF Handle_Timeout, GiveUp
<1>3. frame' \in [Players -> Nat] /\ \A q \in Players : frame[q] <= frame'[q]
  <2>1. \A q \in Players : frame[q] \in Nat
    BY PlayerTypes
  <2> QED BY <1>1, <2>1 DEF Basic, Types
<1>4. CASE Handle_Timeout(p)
  <2>1. PICK i \in DOMAIN conns[p] : SetState(p, Destroy_Connection(State(p), conns[p][i]))
    BY <1>4 DEF Handle_Timeout
  <2>2. PICK st : st = Destroy_Connection(State(p), conns[p][i])
    OBVIOUS
  <2>3. FromState(p, st)
    BY <1>2, <2>2, DestroyFrom
  <2> QED BY <1>1, <1>3, <2>1, <2>2, <2>3, CountsSetState
<1>5. CASE GiveUp(p)
  <2> DEFINE none == << >>
             stop == [State(p) EXCEPT !.conns = none]
             st == [State(p) EXCEPT !.conns = none, !.active = FALSE]
  <2>1. SetState(p, stop)
    BY <1>5 DEF GiveUp
  <2>2. none \in Seq(Players) /\ Range(none) = {} /\ DOMAIN none = {} /\ Len(none) = 0
    BY DEF Range
  <2>3. State(p) \in States
    BY <1>2 DEF FromState
  <2> HIDE DEF none
  <2>4. /\ st \in States /\ st.conns = none /\ st.active = FALSE /\ st.humans = State(p).humans
        /\ st.MaxAhead = stop.MaxAhead /\ st.window = stop.window /\ st.humans = stop.humans
        /\ st.conns = stop.conns /\ st.frames = stop.frames /\ st.sents = stop.sents /\ st.recvs = stop.recvs
    BY <2>2, <2>3 DEF States
  <2> HIDE DEF st, stop
  <2>5. SetState(p, st)
    BY <2>1, <2>4 DEF SetState
  <2>6. FromState(p, st)
    BY <1>2, <2>2, <2>4, LockstepAssumption DEF FromState, IsInjective, none
  <2> QED BY <1>1, <1>3, <2>5, <2>6, CountsSetState
<1> QED BY <1>4, <1>5

LEMMA CountsAdvance ==
  ASSUME Basic, Counts, NEW p \in Players, Advance(p)
  PROVE  Counts'
<1>1. CASE TooLate(p)
  <2>1. UNCHANGED << local, peers, DoList, chan, info, history >>
    BY <1>1 DEF Advance
  <2>2. UNCHANGED << frame, my_sent, conns, their_frame, their_sent, their_recv, chan, info, sent >>
    BY <2>1 DEF local, peers, history
  <2> QED BY <2>2 DEF Counts, Stamped, Heard, Says, Link, Connected
<1>2. CASE ~ TooLate(p)
  <2>1. /\ UNCHANGED << my_sent, sent >>
        /\ frame' \in [Players -> Nat] /\ frame'[p] = frame[p] + FrameSendRate
        /\ \A q \in Players \ {p} : frame'[q] = frame[q]
    BY <1>2, AdvanceIs
  <2>2. PICK st : FromState(p, st) /\ SetState(p, st)
    BY <1>2, AdvanceIs
  <2>3. \A q \in Players : frame[q] \in Nat
    BY PlayerTypes
  <2>4. \A q \in Players : frame[q] <= frame'[q]
    BY <2>1, <2>3, RatePositive
  <2> QED BY <2>1, <2>2, <2>4, CountsSetState
<1> QED BY <1>1, <1>2

LEMMA CountsNext ==
  ASSUME Basic, [Next]_vars, CountsFit => Counts
  PROVE  (CountsFit => Counts)'
<1>1. SUFFICES ASSUME CountsFit' PROVE Counts'
  OBVIOUS
<1>2. CountsFit
  <2> SUFFICES ASSUME NEW q \in Players PROVE Len(sent[q]) < CountMod
    BY DEF CountsFit
  <2>1. Len(sent'[q]) < CountMod
    BY <1>1 DEF CountsFit
  <2>2. Len(sent[q]) <= Len(sent'[q]) /\ Len(sent[q]) \in Nat
    BY SentGrows
  <2>3. sent'[q] \in Seq(GoodEvents)
    BY BasicNext, PlayerTypes DEF Basic, Types
  <2>4. Len(sent'[q]) \in Nat /\ CountMod \in Nat
    BY <2>3, LockstepAssumption
  <2> QED BY <2>1, <2>2, <2>4
<1>3. Counts
  BY <1>2
<1>4. CASE UNCHANGED vars
  <2>1. UNCHANGED << frame, my_sent, conns, their_frame, their_sent, their_recv, chan, info, sent >>
    BY <1>4 DEF vars, local, peers, history
  <2> QED BY <1>3, <2>1 DEF Counts, Stamped, Heard, Says, Link, Connected
<1>5. ASSUME NEW p \in Players, Send_Packets(p) PROVE Counts'
  <2>1. Len(sent'[p]) < CountMod
    BY <1>1 DEF CountsFit
  <2> QED BY <1>3, <1>5, <2>1, CountsSend
<1>6. CASE Next
  BY <1>2, <1>3, <1>5, <1>6, CountsFrameSync, CountsAllReady, CountsAdvance, CountsClosed,
     CountsReceiveInfo, CountsReceiveCommands DEF Next
<1> QED BY <1>4, <1>6

LEMMA CountsAlways == Spec \/ StartedSpec => [](CountsFit => Counts)
<1>1. Init => (CountsFit => Counts)
  <2>1. SUFFICES ASSUME Init PROVE Counts
    OBVIOUS
  <2> QED BY <2>1, CountsInit
<1>2. Started => (CountsFit => Counts)
  <2>1. SUFFICES ASSUME Started PROVE Counts
    OBVIOUS
  <2> QED BY <2>1, CountsInit
<1>3. Basic /\ (CountsFit => Counts) /\ [Next]_vars => (CountsFit => Counts)'
  BY CountsNext
<1> QED BY <1>1, <1>2, <1>3, BasicAlways, PTL DEF Spec, StartedSpec

\* The lengths of what is on the way add up.
LEMMA OnTheWayIs ==
  ASSUME Basic, NEW p \in Players, NEW q \in Players, NEW upto, NEW from,
         Carries(sent[q], chan[q][p], from, upto)
  PROVE  OnTheWay(q, p) = upto[Len(chan[q][p])] - from
<1>0. PICK s \in Seq(GoodEvents) : s = sent[q]
  BY PlayerTypes
<1>1. PICK c \in Seq(GoodPackets) : c = chan[q][p]
  BY PacketTypes
<1>2. PICK n \in Nat : n = Len(c)
  OBVIOUS
<1>3. /\ \A i \in 0 .. n : upto[i] \in 0 .. Len(s)
      /\ upto[0] = from
      /\ \A i \in 1 .. n : upto[i] = upto[i - 1] + Len(c[i].events)
  BY <1>0, <1>1, <1>2 DEF Carries
<1>4. PICK f : f = [i \in 0 .. n - 1 |-> Len(c[i + 1].events)]
  OBVIOUS
<1>5. OnTheWay(q, p) = SumTo(f, n)
  BY <1>1, <1>2, <1>4 DEF OnTheWay
<1>6. \A i \in 0 .. n - 1 : f[i] \in Nat
  <2> SUFFICES ASSUME NEW i \in 0 .. n - 1 PROVE f[i] \in Nat
    OBVIOUS
  <2>1. i + 1 \in 1 .. Len(c)
    BY <1>2
  <2>2. c[i + 1] \in GoodPackets
    BY <2>1
  <2>3. c[i + 1].events \in Seq(GoodEvents)
    BY <2>2 DEF GoodPackets
  <2>4. Len(c[i + 1].events) \in Nat
    BY <2>3
  <2> QED BY <1>4, <2>4
<1>7. \A i \in 0 .. n - 1 : upto[i + 1] = upto[i] + f[i]
  <2> SUFFICES ASSUME NEW i \in 0 .. n - 1 PROVE upto[i + 1] = upto[i] + f[i]
    OBVIOUS
  <2>1. PICK m \in 1 .. n : m = i + 1 /\ m - 1 = i
    BY <1>2
  <2>2. f[i] = Len(c[m].events)
    BY <1>4, <2>1
  <2> QED BY <1>3, <2>1, <2>2
<1>8. upto[0] \in Int
  BY <1>2, <1>3
<1> DEFINE I == {k \in Nat : SumTo(f, k) = upto[k] - from}
<1>9. 0 \in I
  BY <1>3, <1>8, SumZero
<1>10. ASSUME NEW k \in 0 .. n - 1, k \in I PROVE k + 1 \in I
  <2>1. k \in Nat /\ k + 1 \in Nat /\ k \in 0 .. n
    BY <1>2
  <2>2. SumTo(f, k) = upto[k] - from /\ SumTo(f, k + 1) = SumTo(f, k) + f[k]
    BY <1>10, <2>1, SumStep
  <2>3. upto[k + 1] = upto[k] + f[k]
    BY <1>7
  <2>4. upto[k] \in Int /\ f[k] \in Int /\ from \in Int
    <3>1. upto[k] \in 0 .. Len(s) /\ f[k] \in Nat
      BY <1>3, <1>6, <2>1
    <3> QED BY <1>3, <1>8, <3>1
  <2>5. SumTo(f, k + 1) = upto[k + 1] - from
    BY <2>2, <2>3, <2>4
  <2> QED BY <2>1, <2>5
<1> HIDE DEF I
<1>11. \A k \in 0 .. n : k \in I
  BY <1>2, <1>9, <1>10, UpTo
<1>12. n \in I
  BY <1>2, <1>11
<1> QED BY <1>1, <1>2, <1>5, <1>12 DEF I

\* From the counts, what the game can see of them.
LEMMA CountsMean == ASSUME Basic, Counts PROVE CountsAgree /\ ReceivedAllMeansCountsOK
<1> SUFFICES ASSUME NEW p \in Players, NEW q \in Players, Connected(p, q), Connected(q, p)
             PROVE  /\ their_sent[p][Place(p, q)] <= my_sent[q]
                    /\ their_frame[p][Place(p, q)] <= frame[q]
                    /\ their_recv[p][Place(p, q)] + OnTheWay(q, p) = my_sent[q]
                    /\ chan[q][p] = << >> =>
                         their_recv[p][Place(p, q)] >= their_sent[p][Place(p, q)]
  BY DEF CountsAgree, ReceivedAllMeansCountsOK
<1>1. PICK i \in DOMAIN conns[p] : i = Place(p, q) /\ conns[p][i] = q
  BY PlaceIs
<1>2. i \in 1 .. N - 1
  BY PlayerTypes
<1>3. PICK f \in Int : f = their_frame[p][i]
  BY <1>2, MarkTypes
<1>4. PICK c \in Int : c = their_sent[p][i]
  BY <1>2, MarkTypes
<1>5. PICK from \in Int : from = their_recv[p][i]
  BY <1>2, MarkTypes
<1>6. Says(q, f, c) /\ Link(p, q, from)
  BY <1>1, <1>3, <1>4, <1>5 DEF Counts, Heard
<1>7. my_sent[q] = Len(sent[q]) /\ Len(sent[q]) \in Nat
  BY PlayerTypes DEF Counts
<1>8. PICK upto : Carries(sent[q], chan[q][p], from, upto) /\ upto[Len(chan[q][p])] = Len(sent[q])
  BY <1>6 DEF Link
<1>9. OnTheWay(q, p) = Len(sent[q]) - from
  <2>1. Carries(sent[q], chan[q][p], from, upto)
    BY <1>8
  <2>2. OnTheWay(q, p) = upto[Len(chan[q][p])] - from
    BY <2>1, OnTheWayIs
  <2> QED BY <1>8, <2>2
<1>10. chan[q][p] = << >> => from = Len(sent[q])
  BY <1>8 DEF Carries
<1> QED BY <1>1, <1>3, <1>4, <1>5, <1>6, <1>7, <1>9, <1>10 DEF Says

(* The marks of a player are those of the one at their place, whoever left  *)
(* before (Destroy_Connection moves them down with the connections): what   *)
(* was received and what is on its way make up what the other sent, and it  *)
(* never claimed more.  So it is until 2^16 commands make a count wrap.     *)
THEOREM CountsAlwaysAgree == Spec \/ StartedSpec => [](CountsFit => CountsAgree)
<1>1. Basic /\ (CountsFit => Counts) => (CountsFit => CountsAgree)
  BY CountsMean
<1> QED BY <1>1, BasicAlways, CountsAlways, PTL

(* "their_recv >= their_sent (ie I've received all the commands the other   *)
(* players have sent so far)": who has received all a player sent is not    *)
(* held up by its count in Can_Advance, as long as no count wraps.          *)
THEOREM AllReceivedIsEnough == Spec \/ StartedSpec => [](CountsFit => ReceivedAllMeansCountsOK)
<1>1. Basic /\ (CountsFit => Counts) => (CountsFit => ReceivedAllMeansCountsOK)
  BY CountsMean
<1> QED BY <1>1, BasicAlways, CountsAlways, PTL
=============================================================================

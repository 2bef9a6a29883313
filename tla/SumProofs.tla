----------------------------- MODULE SumProofs -----------------------------
(* Induction over the naturals as a fact about sets, and sums.              *)
EXTENDS Sums, NaturalsInduction, WellFoundedInduction, TLAPS

(* A set that holds 0 and the successor of each number it holds, up to n,   *)
(* holds all numbers up to n.                                               *)
LEMMA UpTo ==
  ASSUME NEW n \in Nat, NEW I, 0 \in I,
         \A k \in 0 .. n - 1 : k \in I => k + 1 \in I
  PROVE  \A k \in 0 .. n : k \in I
<1> DEFINE T == {k \in Nat : k <= n /\ k \notin I}
           R == {ss \in Nat \X Nat : ss[1] < ss[2]}
<1>1. SUFFICES ASSUME T # {} PROVE FALSE
  OBVIOUS
<1>2. IsWellFoundedOn(R, Nat)
  BY NatLessThanWellFounded DEF OpToRel
<1> HIDE DEF R
<1>3. PICK x \in T : \A y \in T : ~ (<< y, x >> \in R)
  BY <1>1, <1>2, WFMin
<1>4. x \in Nat /\ x <= n /\ x \notin I /\ x # 0
  BY <1>3
<1>5. x - 1 \in Nat /\ x - 1 \in 0 .. n - 1 /\ << x - 1, x >> \in R
  BY <1>4 DEF R
<1>6. x - 1 \in I
  BY <1>3, <1>4, <1>5
<1>7. x \in I
  BY <1>4, <1>5, <1>6
<1> QED BY <1>4, <1>7

-----------------------------------------------------------------------------
\* s holds the sums of g up to n.
SumsUpTo(s, g, n) ==
  s = [k \in 0 .. n |-> IF k = 0 THEN 0 ELSE s[k - 1] + g[k - 1]]

LEMMA SumsAgree ==
  ASSUME NEW g, NEW n \in Nat, NEW m \in Nat, n <= m, NEW s, NEW t,
         SumsUpTo(s, g, n), SumsUpTo(t, g, m)
  PROVE  \A k \in 0 .. n : s[k] = t[k]
<1> DEFINE I == {k \in 0 .. n : s[k] = t[k]}
<1>1. 0 \in I
  BY DEF SumsUpTo
<1>2. ASSUME NEW k \in 0 .. n - 1, k \in I PROVE k + 1 \in I
  <2>1. k + 1 \in 0 .. n /\ k + 1 \in 0 .. m /\ k + 1 # 0 /\ k + 1 - 1 = k
    OBVIOUS
  <2>2. s[k + 1] = s[k] + g[k]
    BY <2>1 DEF SumsUpTo
  <2>3. t[k + 1] = t[k] + g[k]
    BY <2>1 DEF SumsUpTo
  <2> QED BY <1>2, <2>1, <2>2, <2>3
<1> HIDE DEF I
<1>3. \A k \in 0 .. n : k \in I
  BY <1>1, <1>2, UpTo
<1> QED BY <1>3 DEF I

LEMMA SumsExist == ASSUME NEW g, NEW n \in Nat PROVE \E s : SumsUpTo(s, g, n)
<1> DEFINE I == {k \in Nat : \E s : SumsUpTo(s, g, k)}
<1>1. 0 \in I
  <2> DEFINE s == [k \in 0 .. 0 |-> 0]
  <2>1. \A k \in 0 .. 0 : k = 0
    OBVIOUS
  <2>2. SumsUpTo(s, g, 0)
    BY <2>1 DEF SumsUpTo
  <2> QED BY <2>2
<1>2. ASSUME NEW k \in 0 .. n - 1, k \in I PROVE k + 1 \in I
  <2>1. k \in Nat /\ k + 1 \in Nat
    OBVIOUS
  <2>2. PICK s : SumsUpTo(s, g, k)
    BY <1>2
  <2> DEFINE t == [j \in 0 .. k + 1 |-> IF j = k + 1 THEN s[k] + g[k] ELSE s[j]]
  <2>3. ASSUME NEW j \in 0 .. k + 1
        PROVE  t[j] = IF j = 0 THEN 0 ELSE t[j - 1] + g[j - 1]
    <3>1. CASE j = k + 1
      <4>1. j - 1 = k /\ j # 0 /\ k \in 0 .. k + 1 /\ k # k + 1
        BY <2>1, <3>1
      <4> QED BY <3>1, <4>1
    <3>2. CASE j = 0
      BY <2>1, <2>2, <3>2 DEF SumsUpTo
    <3>3. CASE j # k + 1 /\ j # 0
      <4>1. j \in 0 .. k /\ j - 1 \in 0 .. k + 1 /\ j - 1 # k + 1
        BY <2>1, <3>3
      <4>2. s[j] = s[j - 1] + g[j - 1]
        BY <2>2, <3>3, <4>1 DEF SumsUpTo
      <4> QED BY <3>3, <4>1, <4>2
    <3> QED BY <3>1, <3>2, <3>3
  <2>4. t = [j \in 0 .. k + 1 |-> t[j]]
    OBVIOUS
  <2> HIDE DEF t
  <2>5. SumsUpTo(t, g, k + 1)
    BY <2>3, <2>4 DEF SumsUpTo
  <2> QED BY <2>1, <2>5
<1> HIDE DEF I
<1>3. n \in I
  BY <1>1, <1>2, UpTo
<1> QED BY <1>3 DEF I

LEMMA SumIs ==
  ASSUME NEW g, NEW n \in Nat, NEW s, SumsUpTo(s, g, n)
  PROVE  SumTo(g, n) = s[n]
<1> DEFINE c == CHOOSE sum : SumsUpTo(sum, g, n)
<1>1. SumsUpTo(c, g, n)
  BY SumsExist
<1>2. SumTo(g, n) = c[n]
  BY DEF SumTo, SumsUpTo
<1> HIDE DEF c
<1> QED BY <1>1, <1>2, SumsAgree

(* The empty sum, and one term more. *)
LEMMA SumZero == \A g : SumTo(g, 0) = 0
<1> SUFFICES ASSUME NEW g PROVE SumTo(g, 0) = 0
  OBVIOUS
<1>1. PICK s : SumsUpTo(s, g, 0)
  BY SumsExist
<1>2. SumTo(g, 0) = s[0]
  BY <1>1, SumIs
<1>3. s[0] = 0
  BY <1>1 DEF SumsUpTo
<1> QED BY <1>2, <1>3

LEMMA SumStep == \A g : \A n \in Nat : SumTo(g, n + 1) = SumTo(g, n) + g[n]
<1> SUFFICES ASSUME NEW g, NEW n \in Nat PROVE SumTo(g, n + 1) = SumTo(g, n) + g[n]
  OBVIOUS
<1>1. PICK s : SumsUpTo(s, g, n)
  BY SumsExist
<1>2. PICK t : SumsUpTo(t, g, n + 1)
  BY SumsExist
<1>3. s[n] = t[n]
  BY <1>1, <1>2, SumsAgree
<1>4. n + 1 \in 0 .. n + 1 /\ n + 1 # 0 /\ n + 1 - 1 = n
  OBVIOUS
<1>5. t[n + 1] = t[n] + g[n]
  BY <1>2, <1>4 DEF SumsUpTo
<1>6. SumTo(g, n) = s[n] /\ SumTo(g, n + 1) = t[n + 1]
  BY <1>1, <1>2, SumIs
<1> QED BY <1>3, <1>5, <1>6

LEMMA SumOfZeros ==
  ASSUME NEW g, NEW n \in Nat, \A k \in 0 .. n - 1 : g[k] = 0
  PROVE  SumTo(g, n) = 0
<1> DEFINE I == {k \in Nat : SumTo(g, k) = 0}
<1>1. 0 \in I
  BY SumZero
<1>2. ASSUME NEW k \in 0 .. n - 1, k \in I PROVE k + 1 \in I
  BY <1>2, SumStep
<1> HIDE DEF I
<1>3. n \in I
  BY <1>1, <1>2, UpTo
<1> QED BY <1>3 DEF I

LEMMA SumType ==
  ASSUME NEW g, NEW n \in Nat, \A k \in 0 .. n - 1 : g[k] \in Int
  PROVE  \A k \in 0 .. n : SumTo(g, k) \in Int
<1> DEFINE I == {k \in Nat : SumTo(g, k) \in Int}
<1>1. 0 \in I
  BY SumZero
<1>2. ASSUME NEW k \in 0 .. n - 1, k \in I PROVE k + 1 \in I
  BY <1>2, SumStep
<1> HIDE DEF I
<1>3. \A k \in 0 .. n : k \in I
  BY <1>1, <1>2, UpTo
<1> QED BY <1>3 DEF I

(* A change of one term changes the sum by as much. *)
LEMMA SumChange ==
  ASSUME NEW g, NEW h, NEW n \in Nat, NEW x \in 0 .. n - 1,
         \A k \in 0 .. n - 1 : g[k] \in Int,
         \A k \in 0 .. n - 1 : k # x => h[k] = g[k], h[x] \in Int
  PROVE  SumTo(h, n) = SumTo(g, n) - g[x] + h[x]
<1> DEFINE D(k) == IF x < k THEN h[x] - g[x] ELSE 0
           I == {k \in Nat : SumTo(h, k) = SumTo(g, k) + D(k)}
<1>1. 0 \in I
  BY SumZero
<1>2. ASSUME NEW k \in 0 .. n - 1, k \in I PROVE k + 1 \in I
  <2>1. SumTo(g, k) \in Int /\ g[k] \in Int /\ g[x] \in Int /\ k \in Nat
    BY SumType
  <2>2. SumTo(g, k + 1) = SumTo(g, k) + g[k] /\ SumTo(h, k + 1) = SumTo(h, k) + h[k]
    BY SumStep
  <2>3. SumTo(h, k) = SumTo(g, k) + D(k)
    BY <1>2
  <2>4. CASE k = x
    BY <2>1, <2>2, <2>3, <2>4
  <2>5. CASE k # x
    BY <2>1, <2>2, <2>3, <2>5
  <2> QED BY <2>4, <2>5
<1>3. n \in I
  <2> HIDE DEF I
  <2> QED BY <1>1, <1>2, UpTo
<1>4. SumTo(g, n) \in Int /\ g[x] \in Int
  BY SumType
<1> QED BY <1>3, <1>4

(* Sums of the same terms are the same. *)
LEMMA SumSame ==
  ASSUME NEW g, NEW h, NEW n \in Nat, \A k \in 0 .. n - 1 : h[k] = g[k]
  PROVE  SumTo(h, n) = SumTo(g, n)
<1> DEFINE I == {k \in Nat : SumTo(h, k) = SumTo(g, k)}
<1>1. 0 \in I
  BY SumZero
<1>2. ASSUME NEW k \in 0 .. n - 1, k \in I PROVE k + 1 \in I
  BY <1>2, SumStep
<1> HIDE DEF I
<1>3. n \in I
  BY <1>1, <1>2, UpTo
<1> QED BY <1>3 DEF I
=============================================================================

----------------------------- MODULE SweepProofs -----------------------------
(* What Append and Sweep make of a queue, for every queue and every set of   *)
(* positions.                                                                *)
EXTENDS Sweep, FiniteSetTheorems, FunctionTheorems, WellFoundedInduction, TLAPS

LEMMA AppendEntry ==
  ASSUME NEW S, NEW q \in Seq(S), NEW e \in S
  PROVE  /\ Append(q, e) \in Seq(S) /\ Len(q) \in Nat
         /\ Len(Append(q, e)) = Len(q) + 1
         /\ DOMAIN q = 1 .. Len(q) /\ DOMAIN Append(q, e) = 1 .. Len(q) + 1
         /\ \A i \in 1 .. Len(q) : Append(q, e)[i] = q[i]
         /\ Append(q, e)[Len(q) + 1] = e
  OBVIOUS

-----------------------------------------------------------------------------
(* A nonempty set of naturals has a least element. *)
LEMMA LeastNumber ==
  ASSUME NEW T \in SUBSET Nat, T # {}
  PROVE  \E x \in T : \A y \in T : x <= y
<1> DEFINE R == {ss \in Nat \X Nat : ss[1] < ss[2]}
<1>1. IsWellFoundedOn(R, Nat)
  BY NatLessThanWellFounded DEF OpToRel
<1> HIDE DEF R
<1>2. PICK x \in T : \A y \in T : ~ (<<y, x>> \in R)
  BY <1>1, WFMin
<1>3. ASSUME NEW y \in T, y < x PROVE FALSE
  BY <1>2, <1>3 DEF R
<1>4. \A y \in T : x \in Nat /\ y \in Nat
  OBVIOUS
<1> QED BY <1>3, <1>4

(* The positions kept are finitely many, and each has a rank of its own. *)
LEMMA RankType ==
  ASSUME NEW n \in Nat, NEW K \in SUBSET (1 .. n)
  PROVE  /\ IsFiniteSet(K) /\ Cardinality(K) \in Nat /\ Cardinality(K) <= n
         /\ \A i \in K : Rank(K, i) \in 1 .. Cardinality(K)
<1>1. IsFiniteSet(1 .. n) /\ Cardinality(1 .. n) = n
  BY FS_Interval
<1>2. IsFiniteSet(K) /\ Cardinality(K) \in Nat /\ Cardinality(K) <= n
  BY <1>1, FS_Subset, FS_CardinalityType
<1>3. ASSUME NEW i \in K PROVE Rank(K, i) \in 1 .. Cardinality(K)
  <2> DEFINE B == {j \in K : j <= i}
  <2>1. i \in B /\ B \in SUBSET K
    OBVIOUS
  <2> HIDE DEF B
  <2>2. IsFiniteSet(B) /\ Cardinality(B) <= Cardinality(K) /\ Cardinality(B) \in Nat
    BY <1>2, <2>1, FS_Subset, FS_CardinalityType
  <2>3. Cardinality(B) # 0
    BY <2>1, <2>2, FS_EmptySet
  <2> QED BY <1>2, <2>2, <2>3 DEF Rank, B
<1> QED BY <1>2, <1>3

LEMMA RankIncreases ==
  ASSUME NEW n \in Nat, NEW K \in SUBSET (1 .. n), NEW i \in K, NEW j \in K, i < j
  PROVE  Rank(K, i) < Rank(K, j)
<1> DEFINE A == {k \in K : k <= i}
           B == {k \in K : k <= j}
<1>0. \A k \in K : k \in Nat
  OBVIOUS
<1>1. A \in SUBSET B /\ j \in B /\ j \notin A /\ B \in SUBSET K
  <2>1. \A k \in K : k <= i => k <= j
    BY <1>0
  <2>2. j <= j /\ ~ (j <= i)
    BY <1>0
  <2> QED BY <2>1, <2>2
<1> HIDE DEF A, B
<1>2. IsFiniteSet(K)
  BY RankType
<1>3. IsFiniteSet(B) /\ Cardinality(B) \in Nat
  BY <1>1, <1>2, FS_Subset, FS_CardinalityType
<1>4. IsFiniteSet(A) /\ Cardinality(A) \in Nat /\ Cardinality(A) <= Cardinality(B)
      /\ (Cardinality(B) = Cardinality(A) => B = A)
  BY <1>1, <1>3, FS_Subset, FS_CardinalityType
<1> QED BY <1>1, <1>3, <1>4 DEF Rank, A, B

(* Every rank is that of one of the positions kept. *)
LEMMA RankTaken ==
  ASSUME NEW n \in Nat, NEW K \in SUBSET (1 .. n), NEW r \in 1 .. Cardinality(K)
  PROVE  \E i \in K : Rank(K, i) = r
<1> DEFINE f == [i \in K |-> Rank(K, i)]
           T == 1 .. Cardinality(K)
<1>1. IsFiniteSet(K) /\ Cardinality(K) \in Nat /\ \A i \in K : Rank(K, i) \in T
  BY RankType
<1>2. IsFiniteSet(T) /\ Cardinality(T) = Cardinality(K)
  BY <1>1, FS_Interval
<1>3. \A i, j \in K : Rank(K, i) = Rank(K, j) => i = j
  <2> SUFFICES ASSUME NEW i \in K, NEW j \in K, i # j
               PROVE  Rank(K, i) # Rank(K, j)
    OBVIOUS
  <2>1. (i < j => Rank(K, i) < Rank(K, j)) /\ (j < i => Rank(K, j) < Rank(K, i))
    BY RankIncreases
  <2>2. Rank(K, i) \in Nat /\ Rank(K, j) \in Nat
    BY <1>1
  <2>3. i < j \/ j < i
    OBVIOUS
  <2> QED BY <2>1, <2>2, <2>3
<1>4. f \in Injection(K, T)
  BY <1>1, <1>3 DEF Injection, IsInjective
<1> HIDE DEF f
<1>5. f \in Surjection(K, T)
  BY <1>1, <1>2, <1>4, FS_Injection
<1>6. PICK i \in K : f[i] = r
  BY <1>5 DEF Surjection
<1> QED BY <1>6 DEF f

(* Sweep(q, K) holds the entries of q at the positions of K, each once and *)
(* in their order: at says which position of q a position comes from.      *)
THEOREM SweepKeeps ==
  ASSUME NEW S, NEW q \in Seq(S), NEW K \in SUBSET (1 .. Len(q))
  PROVE  /\ Sweep(q, K) \in Seq(S)
         /\ Len(Sweep(q, K)) <= Len(q)
         /\ \E at \in [1 .. Len(Sweep(q, K)) -> K] :
              /\ \A m \in 1 .. Len(Sweep(q, K)) : Sweep(q, K)[m] = q[at[m]]
              /\ \A m1, m2 \in 1 .. Len(Sweep(q, K)) : m1 < m2 <=> at[m1] < at[m2]
              /\ \A i \in K : \E m \in 1 .. Len(Sweep(q, K)) : at[m] = i
<1> DEFINE n == Cardinality(K)
           Pos(r) == CHOOSE i \in K : Rank(K, i) = r
           at == [r \in 1 .. n |-> Pos(r)]
<1>0. Len(q) \in Nat /\ \A i \in K : i \in Nat /\ q[i] \in S
  OBVIOUS
<1>1. Len(q) \in Nat /\ n \in Nat /\ n <= Len(q) /\ \A i \in K : Rank(K, i) \in 1 .. n
  BY RankType
<1>2. \A r \in 1 .. n : Pos(r) \in K /\ Rank(K, Pos(r)) = r
  BY <1>0, <1>1, RankTaken
<1>3. Sweep(q, K) = [r \in 1 .. n |-> q[Pos(r)]]
  BY DEF Sweep
<1> HIDE DEF Pos
<1>4. \A r \in 1 .. n : q[Pos(r)] \in S
  BY <1>0, <1>2
<1>5. Sweep(q, K) \in Seq(S) /\ Len(Sweep(q, K)) = n
  BY <1>1, <1>3, <1>4
<1>6. at \in [1 .. n -> K]
  BY <1>2
<1>7. \A m1, m2 \in 1 .. n : at[m1] < at[m2] <=> m1 < m2
  <2> SUFFICES ASSUME NEW m1 \in 1 .. n, NEW m2 \in 1 .. n
               PROVE  Pos(m1) < Pos(m2) <=> m1 < m2
    OBVIOUS
  <2>1. /\ Pos(m1) < Pos(m2) => m1 < m2
        /\ Pos(m2) < Pos(m1) => m2 < m1
    BY <1>1, <1>2, RankIncreases
  <2>2. Pos(m1) = Pos(m2) => m1 = m2
    BY <1>2
  <2>3. Pos(m1) \in Nat /\ Pos(m2) \in Nat
    BY <1>0, <1>2
  <2> QED BY <1>1, <2>1, <2>2, <2>3
<1>8. ASSUME NEW i \in K PROVE \E r \in 1 .. n : at[r] = i
  <2> DEFINE r == Rank(K, i)
  <2>1. r \in 1 .. n
    BY <1>1
  <2>2. Pos(r) \in K /\ Rank(K, Pos(r)) = r
    BY <1>2, <2>1
  <2>3. Pos(r) = i
    <3>1. /\ Pos(r) < i => Rank(K, Pos(r)) < r
          /\ i < Pos(r) => r < Rank(K, Pos(r))
      BY <1>1, <2>2, RankIncreases
    <3>2. Pos(r) \in Nat /\ i \in Nat
      BY <1>0, <2>2
    <3>3. r \in Nat
      BY <1>1, <2>1
    <3> QED BY <2>2, <3>1, <3>2, <3>3
  <2> QED BY <2>1, <2>3
<1> QED BY <1>1, <1>3, <1>5, <1>6, <1>7, <1>8
=============================================================================

-------------------------- MODULE CommQueueProofs --------------------------
(* What TLAPS proves of CommQueue, for every number of slots. *)
EXTENDS CommQueue, FiniteSetTheorems, SequenceTheorems,
        WellFoundedInduction, TLAPS

-----------------------------------------------------------------------------
(* A nonempty set of naturals has a least element. *)
LEMMA LeastNatural ==
  ASSUME NEW T, T \subseteq Nat, T # {}
  PROVE  \E x \in T : \A y \in T : ~ (y < x)
<1> DEFINE R == {ss \in Nat \X Nat : ss[1] < ss[2]}
<1>1. IsWellFoundedOn(R, Nat)
  BY NatLessThanWellFounded DEF OpToRel
<1> HIDE DEF R
<1>2. PICK x \in T : \A y \in T : ~ (<<y, x>> \in R)
  BY <1>1, WFMin
<1>3. ASSUME NEW y \in T, y < x PROVE FALSE
  BY <1>2, <1>3 DEF R
<1> QED BY <1>2, <1>3
-----------------------------------------------------------------------------
(* The inductive invariant: type correctness and the slot accounting. *)
IInv == TypeOK /\ SlotsAccounted

LEMMA InitIInv == Init => IInv
  BY SizeAssumption DEF Init, IInv, TypeOK, SlotsAccounted, Slots, Slot, Active

(* Positions below Count hold slot numbers, and slot 0 exists. *)
LEMMA Positions ==
  ASSUME TypeOK
  PROVE  /\ 0 \in Slots
         /\ \A k \in 0 .. Count - 1 : k \in Slots /\ Index[k] \in Slots
<1>1. 0 \in Slots
  BY SizeAssumption DEF Slots
<1>2. \A k \in 0 .. Count - 1 : k \in Slots
  BY SizeAssumption DEF TypeOK, Slots
<1> QED BY <1>1, <1>2 DEF TypeOK

(* Queue_Send fills a slot that no index names and appends its number. *)
LEMMA EnqueueIInv ==
  ASSUME IInv, NEW d \in Data, Enqueue(d)
  PROVE  IInv'
<1> USE SizeAssumption DEF IInv, TypeOK
<1>1. PICK s \in Slots :
        /\ FirstFree(s)
        /\ Queue' = [Queue EXCEPT ![s] =
                       [IsActive |-> TRUE, marked |-> FALSE, data |-> d]]
        /\ Index' = [Index EXCEPT ![Count] = s]
  BY DEF Enqueue
<1>2. Count \in Slots /\ Count' = Count + 1
  BY DEF Enqueue, Slots
<1>3. TypeOK'
  <2>1. [IsActive |-> TRUE, marked |-> FALSE, data |-> d] \in Slot
    BY DEF Slot
  <2>2. Queue' \in [Slots -> Slot]
    BY <1>1, <2>1
  <2>3. Index' \in [Slots -> Slots]
    BY <1>1, <1>2
  <2>4. Count' \in 0 .. MaxEntries
    BY <1>2 DEF Slots
  <2> QED BY <2>2, <2>3, <2>4
<1>4. \A i \in 0 .. Count - 1 : Index'[i] = Index[i] /\ Index[i] # s
  <2> TAKE i \in 0 .. Count - 1
  <2>1. i \in Slots /\ i # Count
    BY <1>2, Positions DEF Slots
  <2>2. Active(Index[i]) /\ ~ Active(s)
    BY <1>1 DEF SlotsAccounted, FirstFree
  <2> QED BY <2>1, <2>2, <1>1, <1>2
<1>5. Index'[Count] = s
  BY <1>1, <1>2
<1>6. \A t \in Slots : t # s => Queue'[t] = Queue[t]
  BY <1>1
<1>7. Queue'[s].IsActive
  BY <1>1
<1>8. \A i \in 0 .. Count - 1 : Index[i] \in Slots
  BY Positions
<1>9. 0 .. Count' - 1 = (0 .. Count - 1) \cup {Count}
  BY <1>2 DEF Slots
<1>10. SlotsAccounted'
  <2>1. \A i, j \in 0 .. Count' - 1 : Index'[i] = Index'[j] => i = j
    BY <1>4, <1>5, <1>9 DEF SlotsAccounted
  <2>2. \A i \in 0 .. Count' - 1 : Active(Index[i])'
    BY <1>4, <1>5, <1>6, <1>7, <1>8, <1>9 DEF SlotsAccounted, Active
  <2>3. ASSUME NEW t \in Slots, Active(t)'
        PROVE  \E i \in 0 .. Count' - 1 : Index'[i] = t
    <3>1. CASE t = s
      BY <3>1, <1>5, <1>9
    <3>2. CASE t # s
      BY <3>2, <2>3, <1>4, <1>6, <1>9 DEF SlotsAccounted, Active
    <3> QED BY <3>1, <3>2
  <2> QED BY <2>1, <2>2, <2>3 DEF SlotsAccounted
<1> QED BY <1>3, <1>10

(* UnQueue_Send frees exactly the slot whose index it drops. *)
LEMMA UnQueueIInv ==
  ASSUME IInv, NEW i \in Slots, UnQueue(i)
  PROVE  IInv'
<1> USE SizeAssumption DEF IInv, TypeOK
<1> DEFINE s == Index[i]
           From(j) == IF i <= j THEN j + 1 ELSE j
<1>1. /\ i \in 0 .. Count - 1
      /\ Count \in 1 .. MaxEntries
      /\ Count' = Count - 1
      /\ s \in Slots
  BY DEF UnQueue, Slots
<1>2. /\ Queue' = [Queue EXCEPT ![s].IsActive = FALSE, ![s].marked = FALSE]
      /\ Index' = [j \in Slots |-> IF j = Count - 1 THEN 0
                                   ELSE IF i <= j /\ j < Count - 1
                                        THEN Index[j + 1] ELSE Index[j]]
  BY DEF UnQueue
<1>3. TypeOK'
  <2>1. Queue' \in [Slots -> Slot]
    BY <1>1, <1>2 DEF Slot
  <2>2. Index' \in [Slots -> Slots]
    BY <1>1, <1>2 DEF Slots
  <2> QED BY <1>1, <2>1, <2>2
<1>4. \A j \in 0 .. Count' - 1 :
        From(j) \in 0 .. Count - 1 /\ From(j) # i /\ Index'[j] = Index[From(j)]
  BY <1>1, <1>2 DEF Slots
<1>5. \A j, k \in 0 .. Count' - 1 : From(j) = From(k) => j = k
  BY <1>1
<1>6. \A t \in Slots : t # s => Queue'[t] = Queue[t]
  BY <1>2
<1>7. ~ Queue'[s].IsActive
  BY <1>1, <1>2 DEF Slot
<1>8. \A k \in 0 .. Count - 1 :
        k # i => \E j \in 0 .. Count' - 1 : From(j) = k
  <2> TAKE k \in 0 .. Count - 1
  <2> HAVE k # i
  <2>1. CASE k < i
    BY <2>1, <1>1
  <2>2. CASE k > i
    <3>1. k - 1 \in 0 .. Count' - 1 /\ From(k - 1) = k
      BY <2>2, <1>1
    <3> QED BY <3>1
  <2> QED BY <2>1, <2>2, <1>1
<1> HIDE DEF From
<1>9. SlotsAccounted'
  <2>1. \A j, k \in 0 .. Count' - 1 : Index'[j] = Index'[k] => j = k
    BY <1>4, <1>5 DEF SlotsAccounted
  <2>2. \A j \in 0 .. Count' - 1 : Active(Index[j])'
    <3> TAKE j \in 0 .. Count' - 1
    <3>1. Index'[j] = Index[From(j)] /\ Index'[j] # s /\ Index'[j] \in Slots
      <4>1. From(j) \in 0 .. Count - 1 /\ From(j) # i
        BY <1>4
      <4>2. Index[From(j)] # Index[i]
        BY <1>1, <4>1 DEF SlotsAccounted
      <4> QED BY <4>1, <4>2, <1>4, Positions
    <3> QED BY <3>1, <1>4, <1>6 DEF SlotsAccounted, Active
  <2>3. ASSUME NEW t \in Slots, Active(t)'
        PROVE  \E j \in 0 .. Count' - 1 : Index'[j] = t
    <3>1. t # s /\ Active(t)
      BY <2>3, <1>6, <1>7 DEF Active
    <3>2. PICK k \in 0 .. Count - 1 : Index[k] = t
      BY <3>1 DEF SlotsAccounted
    <3>3. PICK j \in 0 .. Count' - 1 : From(j) = k
      BY <3>1, <3>2, <1>8
    <3> QED BY <3>2, <3>3, <1>4
  <2> QED BY <2>1, <2>2, <2>3 DEF SlotsAccounted
<1> QED BY <1>3, <1>9

LEMMA MarkIInv ==
  ASSUME IInv, NEW i \in Slots, MarkEntry(i)
  PROVE  IInv'
<1> USE DEF IInv, TypeOK
<1>1. /\ Index[i] \in Slots
      /\ Queue' = [Queue EXCEPT ![Index[i]].marked = TRUE]
      /\ Index' = Index /\ Count' = Count
  BY DEF MarkEntry
<1>2. Queue' \in [Slots -> Slot] /\ \A t \in Slots : Active(t)' = Active(t)
  BY <1>1 DEF Slot, Active
<1>3. \A j \in 0 .. Count - 1 : Index[j] \in Slots
  BY Positions
<1> QED BY <1>1, <1>2, <1>3 DEF SlotsAccounted, Active

LEMMA InitQueueIInv ==
  ASSUME IInv, InitQueue
  PROVE  IInv'
<1>1. /\ Queue' \in [Slots -> Slot]
      /\ \A t \in Slots : ~ Queue'[t].IsActive
  BY DEF InitQueue, IInv, TypeOK, Slot
<1>2. Index' \in [Slots -> Slots] /\ Count' = 0
  <2>1. 0 \in Slots
    BY Positions DEF IInv
  <2> QED BY <2>1 DEF InitQueue
<1> QED BY <1>1, <1>2, SizeAssumption DEF IInv, TypeOK, SlotsAccounted, Active

LEMMA NextIInv == IInv /\ [Next]_vars => IInv'
<1> SUFFICES ASSUME IInv, [Next]_vars PROVE IInv'
  OBVIOUS
<1>1. ASSUME NEW d \in Data, Enqueue(d) PROVE IInv'
  BY <1>1, EnqueueIInv
<1>2. ASSUME NEW i \in Slots, UnQueue(i) PROVE IInv'
  BY <1>2, UnQueueIInv
<1>3. ASSUME NEW i \in Slots, MarkEntry(i) PROVE IInv'
  BY <1>3, MarkIInv
<1>4. CASE InitQueue
  BY <1>4, InitQueueIInv
<1>5. CASE UNCHANGED vars
  BY <1>5 DEF vars, IInv, TypeOK, SlotsAccounted, Active
<1> QED BY <1>1, <1>2, <1>3, <1>4, <1>5 DEF Next

(* The index array only ever names slots of the array, and the counts stay  *)
(* within its size, whatever the order of the calls.                        *)
THEOREM TypesHold == Spec => []TypeOK
<1>1. Spec => []IInv
  BY InitIInv, NextIInv, PTL DEF Spec
<1>2. IInv => TypeOK
  BY DEF IInv
<1> QED BY <1>1, <1>2, PTL

(* Queue_Send and UnQueue_Send keep the slots and the index array in step, *)
(* whatever the number of slots and the order of the calls.                *)
THEOREM SlotsAreAccounted == Spec => [](TypeOK /\ SlotsAccounted)
<1>1. Spec => []IInv
  BY InitIInv, NextIInv, PTL DEF Spec
<1>2. IInv => TypeOK /\ SlotsAccounted
  BY DEF IInv
<1> QED BY <1>1, <1>2, PTL
-----------------------------------------------------------------------------
(* Fewer entries than slots leave an inactive slot: otherwise the slots,   *)
(* all indexed, would inject into the positions below Count.               *)
LEMMA InactiveSlot ==
  ASSUME IInv, Count < MaxEntries
  PROVE  \E s \in Slots : ~ Active(s)
<1> SUFFICES ASSUME \A s \in Slots : Active(s) PROVE FALSE
  OBVIOUS
<1> DEFINE g == [s \in Slots |-> CHOOSE i \in 0 .. Count - 1 : Index[i] = s]
<1>1. \A s \in Slots : g[s] \in 0 .. Count - 1 /\ Index[g[s]] = s
  BY DEF IInv, SlotsAccounted
<1>2. Count \in Nat /\ MaxEntries \in Nat \ {0}
  BY SizeAssumption DEF IInv, TypeOK
<1>3. IsFiniteSet(Slots) /\ Cardinality(Slots) = MaxEntries
  BY <1>2, FS_Interval DEF Slots
<1>4. IsFiniteSet(0 .. Count - 1) /\ Cardinality(0 .. Count - 1) = Count
  BY <1>2, FS_Interval
<1>5. g \in [Slots -> 0 .. Count - 1]
  BY <1>1
<1> HIDE DEF g
<1>6. PICK s, t \in Slots : s # t /\ g[s] = g[t]
  <2>1. Cardinality(0 .. Count - 1) < Cardinality(Slots)
    BY <1>3, <1>4
  <2> QED BY <2>1, <1>3, <1>4, <1>5, FS_PigeonHole
<1> QED BY <1>1, <1>6

LEMMA RoomInv == IInv => RoomMeansFreeSlot
<1> SUFFICES ASSUME IInv, Count < MaxEntries
             PROVE  \E s \in Slots : FirstFree(s)
  BY DEF RoomMeansFreeSlot
<1> DEFINE T == {s \in Slots : ~ Active(s)}
<1>1. T \subseteq Nat /\ T # {}
  BY InactiveSlot, SizeAssumption DEF Slots
<1>2. PICK s \in T : \A t \in T : ~ (t < s)
  BY <1>1, LeastNatural
<1>3. \A t \in 0 .. s - 1 : t \in Slots /\ t < s
  BY <1>2, SizeAssumption DEF Slots
<1> QED BY <1>2, <1>3 DEF FirstFree

(* The scan of Queue_Send never fails while the count says there is room:  *)
(* its "index == -1" return is unreachable.                                *)
THEOREM RoomIsUsable == Spec => []RoomMeansFreeSlot
<1>1. Spec => []IInv
  BY InitIInv, NextIInv, PTL DEF Spec
<1> QED BY <1>1, RoomInv, PTL

-----------------------------------------------------------------------------
(* Items is a sequence of list entries, position k holding slot Index[k-1]. *)
ItemEntry == [data : Data \cup {NoData}, marked : BOOLEAN]

ItemAt(k) == [data   |-> Queue[Index[k - 1]].data,
              marked |-> Queue[Index[k - 1]].marked]

ItemsShape == /\ Items \in Seq(ItemEntry)
              /\ Len(Items) = Count
              /\ \A k \in 1 .. Count : Items[k] = ItemAt(k)

LEMMA ItemsType == IInv => ItemsShape
<1> SUFFICES ASSUME IInv PROVE ItemsShape
  OBVIOUS
<1>1. Count \in Nat
  BY SizeAssumption DEF IInv, TypeOK
<1>2. \A k \in 1 .. Count : Index[k - 1] \in Slots
  <2>1. \A k \in 1 .. Count : k - 1 \in 0 .. Count - 1
    BY <1>1
  <2> QED BY <2>1, Positions DEF IInv
<1>3. \A k \in 1 .. Count : ItemAt(k) \in ItemEntry
  BY <1>2 DEF IInv, TypeOK, Slot, ItemAt, ItemEntry
<1>4. Items \in [1 .. Count -> ItemEntry]
  BY <1>3 DEF Items, ItemAt
<1>5. Items \in Seq(ItemEntry)
  BY <1>1, <1>4
<1>6. Len(Items) = Count
  BY <1>1, <1>4, <1>5, LenProperties
<1> QED BY <1>5, <1>6 DEF Items, ItemAt, ItemsShape

-----------------------------------------------------------------------------
(* Taking position i out of a sequence, entry by entry. *)
LEMMA RemoveAtEntries ==
  ASSUME NEW E, NEW seq \in Seq(E), NEW i \in 1 .. Len(seq)
  PROVE  /\ Fifo!RemoveAt(seq, i) \in Seq(E)
         /\ Len(Fifo!RemoveAt(seq, i)) = Len(seq) - 1
         /\ \A k \in 1 .. Len(seq) - 1 :
              Fifo!RemoveAt(seq, i)[k] = seq[IF k < i THEN k ELSE k + 1]
<1> DEFINE a == SubSeq(seq, 1, i - 1)
           b == SubSeq(seq, i + 1, Len(seq))
<1>1. Len(seq) \in Nat /\ \A k \in 1 .. Len(seq) : seq[k] \in E
  BY LenProperties, ElementOfSeq
<1>2. /\ a \in Seq(E) /\ Len(a) = i - 1
      /\ \A k \in 1 .. i - 1 : a[k] = seq[k]
  <2>1. 1 \in Int /\ i - 1 \in Int /\ \A k \in 1 .. i - 1 : seq[k] \in E
    BY <1>1
  <2>2. a \in Seq(E) /\ Len(a) = (IF 1 <= i - 1 THEN i - 1 - 1 + 1 ELSE 0)
        /\ \A k \in 1 .. i - 1 - 1 + 1 : a[k] = seq[1 + k - 1]
    BY <2>1, SubSeqProperties
  <2> QED BY <2>2
<1>3. /\ b \in Seq(E) /\ Len(b) = Len(seq) - i
      /\ \A k \in 1 .. Len(seq) - i : b[k] = seq[i + k]
  <2>1. i + 1 \in Int /\ Len(seq) \in Int
        /\ \A k \in i + 1 .. Len(seq) : seq[k] \in E
    BY <1>1
  <2>2. b \in Seq(E)
        /\ Len(b) = (IF i + 1 <= Len(seq) THEN Len(seq) - (i + 1) + 1 ELSE 0)
        /\ \A k \in 1 .. Len(seq) - (i + 1) + 1 : b[k] = seq[i + 1 + k - 1]
    BY <2>1, SubSeqProperties
  <2> QED BY <1>1, <2>2
<1> HIDE DEF a, b
<1>4. /\ a \o b \in Seq(E) /\ Len(a \o b) = Len(a) + Len(b)
      /\ \A k \in 1 .. Len(a) + Len(b) :
           (a \o b)[k] = IF k <= Len(a) THEN a[k] ELSE b[k - Len(a)]
  BY <1>2, <1>3, ConcatProperties
<1>5. \A k \in 1 .. Len(seq) - 1 :
        (a \o b)[k] = seq[IF k < i THEN k ELSE k + 1]
  BY <1>1, <1>2, <1>3, <1>4
<1>6. Len(a \o b) = Len(seq) - 1
  BY <1>1, <1>2, <1>3, <1>4
<1>7. Fifo!RemoveAt(seq, i) = a \o b
  BY DEF Fifo!RemoveAt, a, b
<1> HIDE DEF Fifo!RemoveAt
<1> QED BY <1>4, <1>5, <1>6, <1>7

(* An entry is determined by its two fields. *)
LEMMA EntryEqual ==
  ASSUME NEW r \in ItemEntry, NEW q \in ItemEntry,
         r.data = q.data, r.marked = q.marked
  PROVE  r = q
  BY DEF ItemEntry

(* Each operation changes Items as the list operation of its name does. *)
LEMMA EnqueueIsPut ==
  ASSUME IInv, ItemsShape, ItemsShape', NEW d \in Data, Enqueue(d)
  PROVE  Fifo!Put(d)
<1> DEFINE e == [data |-> d, marked |-> FALSE]
           app == Append(Items, e)
<1>1. Count \in 0 .. MaxEntries - 1 /\ Count' = Count + 1
  BY SizeAssumption DEF Enqueue, IInv, TypeOK
<1>2. e \in ItemEntry
  BY DEF ItemEntry
<1>3. /\ app \in Seq(ItemEntry) /\ Len(app) = Count + 1
      /\ \A k \in 1 .. Count : app[k] = Items[k]
      /\ app[Count + 1] = e
  BY <1>1, <1>2, AppendProperties DEF ItemsShape
<1>4. PICK s \in Slots :
        /\ FirstFree(s)
        /\ Queue' = [Queue EXCEPT ![s] =
                       [IsActive |-> TRUE, marked |-> FALSE, data |-> d]]
        /\ Index' = [Index EXCEPT ![Count] = s]
  BY DEF Enqueue
<1>5. \A k \in 1 .. Count : ItemAt(k)' = ItemAt(k)
  <2> TAKE k \in 1 .. Count
  <2>1. k - 1 \in 0 .. Count - 1 /\ k - 1 # Count
    BY <1>1
  <2>2. Index[k - 1] \in Slots /\ Index[k - 1] # s
    BY <2>1, <1>4, Positions DEF IInv, SlotsAccounted, FirstFree
  <2>3. Index'[k - 1] = Index[k - 1]
    BY <2>1, <1>4, Positions DEF IInv, TypeOK
  <2> QED BY <2>2, <2>3, <1>4 DEF ItemAt, IInv, TypeOK
<1>6. ASSUME NEW k \in 1 .. Count + 1, k = Count + 1 PROVE ItemAt(k)' = e
  <2>1. Count \in Slots /\ k - 1 = Count
    BY <1>1, <1>6, SizeAssumption DEF Slots
  <2>2. Index'[k - 1] = s
    BY <2>1, <1>4 DEF IInv, TypeOK
  <2>3. Queue'[s] = [IsActive |-> TRUE, marked |-> FALSE, data |-> d]
    BY <1>4 DEF IInv, TypeOK
  <2> QED BY <2>2, <2>3 DEF ItemAt
<1> HIDE DEF e, app
<1>7. ASSUME NEW k \in 1 .. Count + 1 PROVE Items'[k] = app[k]
  <2>1. Items'[k] = ItemAt(k)'
    BY <1>1 DEF ItemsShape
  <2>2. CASE k = Count + 1
    BY <2>1, <2>2, <1>3, <1>6
  <2>3. CASE k # Count + 1
    <3>1. k \in 1 .. Count
      BY <2>3, <1>1
    <3> QED BY <3>1, <2>1, <1>3, <1>5 DEF ItemsShape
  <2> QED BY <2>2, <2>3
<1>8. Items' = app
  BY <1>1, <1>3, <1>7, SeqEqual DEF ItemsShape
<1> QED BY <1>1, <1>8, SizeAssumption DEF Fifo!Put, ItemsShape, app, e

LEMMA UnQueueIsTake ==
  ASSUME IInv, ItemsShape, ItemsShape', NEW i \in Slots, UnQueue(i)
  PROVE  i + 1 \in 1 .. Len(Items) /\ Fifo!Take(i + 1)
<1> DEFINE rest == Fifo!RemoveAt(Items, i + 1)
<1>1. /\ i \in 0 .. Count - 1 /\ Count \in 1 .. MaxEntries
      /\ Count' = Count - 1 /\ Index[i] \in Slots
  BY SizeAssumption DEF UnQueue, Slots, IInv, TypeOK
<1>2. i + 1 \in 1 .. Len(Items)
  BY <1>1 DEF ItemsShape
<1>3. /\ rest \in Seq(ItemEntry) /\ Len(rest) = Count - 1
      /\ \A k \in 1 .. Count - 1 :
           rest[k] = Items[IF k < i + 1 THEN k ELSE k + 1]
  BY <1>2, RemoveAtEntries DEF ItemsShape
<1>4. /\ Queue' = [Queue EXCEPT ![Index[i]].IsActive = FALSE,
                                ![Index[i]].marked = FALSE]
      /\ Index' = [j \in Slots |-> IF j = Count - 1 THEN 0
                                   ELSE IF i <= j /\ j < Count - 1
                                        THEN Index[j + 1] ELSE Index[j]]
  BY DEF UnQueue
<1>5. ASSUME NEW k \in 1 .. Count - 1
      PROVE  ItemAt(k)' = ItemAt(IF k < i + 1 THEN k ELSE k + 1)
  <2> DEFINE m == IF k < i + 1 THEN k ELSE k + 1
  <2>1. /\ k - 1 \in Slots /\ k - 1 # Count - 1
        /\ m - 1 \in 0 .. Count - 1 /\ m - 1 # i
    <3>1. /\ k \in Nat /\ i \in Nat /\ MaxEntries \in Nat /\ Count \in Nat
          /\ k >= 1 /\ k <= Count - 1 /\ Count <= MaxEntries
          /\ i <= Count - 1
      BY <1>1, SizeAssumption
    <3> QED BY <3>1 DEF Slots
  <2>2. Index'[k - 1] = Index[m - 1]
    <3>1. CASE k < i + 1
      BY <3>1, <2>1, <1>1, <1>4
    <3>2. CASE ~ (k < i + 1)
      <4>1. m = k + 1 /\ m - 1 = k - 1 + 1 /\ i <= k - 1 /\ k - 1 < Count - 1
        BY <3>2, <1>1
      <4> QED BY <4>1, <2>1, <1>4
    <3> QED BY <3>1, <3>2
  <2>3. Index[m - 1] \in Slots /\ Index[m - 1] # Index[i]
    BY <2>1, <1>1, Positions DEF IInv, SlotsAccounted
  <2> QED BY <2>2, <2>3, <1>4 DEF ItemAt, IInv, TypeOK
<1> HIDE DEF rest
<1>6. \A k \in 1 .. Count - 1 : Items'[k] = rest[k]
  <2> TAKE k \in 1 .. Count - 1
  <2> DEFINE m == IF k < i + 1 THEN k ELSE k + 1
  <2>1. m \in 1 .. Count
    BY <1>1
  <2>2. Items[m] = ItemAt(m) /\ Items'[k] = ItemAt(k)'
    BY <2>1, <1>1 DEF ItemsShape
  <2> QED BY <2>2, <1>3, <1>5
<1>7. Items' = rest
  BY <1>1, <1>3, <1>6, SeqEqual DEF ItemsShape
<1> QED BY <1>2, <1>7 DEF Fifo!Take, rest

LEMMA MarkEntryIsMark ==
  ASSUME IInv, ItemsShape, ItemsShape', NEW i \in Slots, MarkEntry(i)
  PROVE  i + 1 \in 1 .. Len(Items) /\ Fifo!Mark(i + 1)
<1> DEFINE e   == [Items[i + 1] EXCEPT !.marked = TRUE]
           new == [Items EXCEPT ![i + 1] = e]
<1>1. /\ i \in 0 .. Count - 1 /\ Count \in 1 .. MaxEntries
      /\ Count' = Count /\ Index[i] \in Slots /\ Index' = Index
      /\ Queue' = [Queue EXCEPT ![Index[i]].marked = TRUE]
  BY SizeAssumption DEF MarkEntry, Slots, IInv, TypeOK
<1>2. i + 1 \in 1 .. Len(Items) /\ Items[i + 1] = ItemAt(i + 1)
  BY <1>1 DEF ItemsShape
<1>3. ItemAt(i + 1) \in ItemEntry
  BY <1>2, ElementOfSeq DEF ItemsShape
<1>4. e \in ItemEntry
  BY <1>2, <1>3 DEF ItemEntry
<1> HIDE DEF e
<1>5. /\ new \in Seq(ItemEntry) /\ Len(new) = Count
      /\ \A k \in 1 .. Count : new[k] = IF k = i + 1 THEN e ELSE Items[k]
  BY <1>2, <1>4, ExceptSeq DEF ItemsShape
<1>6. ASSUME NEW k \in 1 .. Count PROVE Items'[k] = new[k]
  <2>1. /\ k - 1 \in 0 .. Count - 1 /\ Index[k - 1] \in Slots
        /\ Items'[k] = ItemAt(k)' /\ Items[k] = ItemAt(k)
    BY <1>1, Positions DEF IInv, ItemsShape
  <2>2. CASE k = i + 1
    <3>1. k - 1 = i
      BY <2>2, <1>1
    <3>2. /\ Queue'[Index[i]].data = Queue[Index[i]].data
          /\ Queue'[Index[i]].marked = TRUE
      BY <1>1 DEF IInv, TypeOK, Slot
    <3>3. /\ ItemAt(k)' = [data |-> Queue'[Index'[i]].data,
                           marked |-> Queue'[Index'[i]].marked]
          /\ ItemAt(k).data = Queue[Index[i]].data
      BY <3>1 DEF ItemAt
    <3>4. ItemAt(k)'.data = ItemAt(k).data /\ ItemAt(k)'.marked = TRUE
      BY <3>2, <3>3, <1>1
    <3>5. ItemAt(k)' \in ItemEntry
      BY <2>1, <1>1, ElementOfSeq DEF ItemsShape
    <3>6. e.data = ItemAt(k).data /\ e.marked = TRUE
      BY <2>2, <1>2, <1>3 DEF e, ItemEntry
    <3>7. ItemAt(k)' = e
      BY <3>4, <3>5, <3>6, <1>4, EntryEqual
    <3> QED BY <2>1, <2>2, <3>7, <1>5
  <2>3. CASE k # i + 1
    <3>1. Index[k - 1] # Index[i]
      BY <2>1, <2>3, <1>1 DEF IInv, SlotsAccounted
    <3>2. ItemAt(k)' = ItemAt(k)
      BY <3>1, <2>1, <1>1 DEF ItemAt, IInv, TypeOK
    <3> QED BY <2>1, <2>3, <3>2, <1>5
  <2> QED BY <2>2, <2>3
<1> HIDE DEF new
<1>7. Items' = new
  BY <1>1, <1>5, <1>6, SeqEqual DEF ItemsShape
<1> QED BY <1>2, <1>7 DEF Fifo!Mark, new, e

LEMMA InitQueueIsClear ==
  ASSUME InitQueue, ItemsShape'
  PROVE  Fifo!Clear
<1>1. Items' \in Seq(ItemEntry) /\ Len(Items') = 0
  BY DEF InitQueue, ItemsShape
<1> QED BY <1>1, EmptySeq DEF Fifo!Clear

(* Slots and indices implement the ordered bounded list of FifoQueue. *)
THEOREM QueueImplementsFifo == Spec => ImplementsFifo
<1>1. Init => Fifo!Init
  <2> SUFFICES ASSUME Init PROVE Fifo!Init
    OBVIOUS
  <2>1. Items \in Seq(ItemEntry) /\ Len(Items) = 0
    BY InitIInv, ItemsType DEF Init, ItemsShape
  <2> QED BY <2>1, EmptySeq DEF Fifo!Init
<1>2. IInv /\ ItemsShape /\ ItemsShape' /\ [Next]_vars => [Fifo!Next]_Items
  <2> SUFFICES ASSUME IInv, ItemsShape, ItemsShape', [Next]_vars
               PROVE  [Fifo!Next]_Items
    OBVIOUS
  <2>1. ASSUME NEW d \in Data, Enqueue(d) PROVE Fifo!Next
    BY <2>1, EnqueueIsPut DEF Fifo!Next
  <2>2. ASSUME NEW i \in Slots, UnQueue(i) PROVE Fifo!Next
    BY <2>2, UnQueueIsTake DEF Fifo!Next
  <2>3. ASSUME NEW i \in Slots, MarkEntry(i) PROVE Fifo!Next
    BY <2>3, MarkEntryIsMark DEF Fifo!Next
  <2>4. CASE InitQueue
    BY <2>4, InitQueueIsClear DEF Fifo!Next
  <2>5. CASE UNCHANGED vars
    BY <2>5 DEF vars, Items
  <2> QED BY <2>1, <2>2, <2>3, <2>4, <2>5 DEF Next
<1> QED BY <1>1, <1>2, InitIInv, NextIInv, ItemsType, PTL
        DEF Spec, ImplementsFifo, Fifo!Spec
=============================================================================

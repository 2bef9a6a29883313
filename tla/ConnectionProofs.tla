-------------------------- MODULE ConnectionProofs --------------------------
(***************************************************************************)
(* What TLAPS proves of Connection, for every size of the queues and every *)
(* number of packets.                                                      *)
(***************************************************************************)
EXTENDS Connection, SweepProofs

-----------------------------------------------------------------------------
(* Packet numbers.  As no PacketID is used twice, the arithmetic modulo    *)
(* 2^32 wraps only from the initial 0xffffffff to 0.                       *)

LEMMA Numbers ==
  /\ IdMod \in Nat \ {0}
  /\ \A p \in Peers : Other(p) \in Peers /\ Other(p) # p /\ Other(Other(p)) = p
  /\ \A p, o \in Peers : o # p => o = Other(p)
  /\ \A p \in Peers : MaxData[p] \in Ids /\ MaxNoAck[p] \in Ids
<1>1. 0 \in Peers /\ IdMod \in Nat \ {0}
  BY BoundsAssumption DEF Peers
<1> QED BY <1>1, BoundsAssumption DEF Peers, Other, Ids

LEMMA Remainder ==
  ASSUME NEW n \in Nat \ {0}
  PROVE  n % n = 0 /\ \A a \in 0 .. n - 1 : a % n = a
  OBVIOUS

LEMMA SuccIs ==
  /\ None \in Ids /\ Succ(None) = 0
  /\ \A id \in Ids : Succ(id) \in Ids /\ (id # None => Succ(id) = id + 1)
<1>1. IdMod \in Nat \ {0}
  BY Numbers
<1>2. \A id \in Ids : id # None => id + 1 \in 0 .. IdMod - 1
  BY <1>1 DEF Ids, None
<1>3. None + 1 = IdMod
  BY <1>1 DEF None
<1>4. \A id \in Ids : id # None => Succ(id) = id + 1
  BY <1>1, <1>2, Remainder DEF Succ
<1>5. Succ(None) = 0
  BY <1>1, <1>3, Remainder DEF Succ
<1> QED BY <1>1, <1>2, <1>4, <1>5 DEF Ids, None

-----------------------------------------------------------------------------
(* A receive queue q against its two marks: g packets read, r received.    *)
(* The lemmas say how what is done to a queue leaves ReceiveWindow true.   *)

IsData(e) == e.code = "DATA_ACK"

Window(q, g, r) ==
  /\ g <= r
  /\ \A id \in g .. r - 1 : Stored(q, id)
  /\ ~ Stored(q, r)
  /\ \A i, j \in DOMAIN q : IsData(q[i]) /\ IsData(q[j]) /\ q[i].id = q[j].id => i = j
  /\ \A i \in DOMAIN q : IsData(q[i]) => (q[i].IsRead <=> q[i].id < g)

\* The packet id is in q or already below the mark r.
Known(q, r, id) == id < r \/ Stored(q, id)

LEMMA EntryNumbers ==
  ASSUME NEW q \in Seq(ReceiveEntry)
  PROVE  /\ \A i \in DOMAIN q : q[i] \in ReceiveEntry /\ q[i].id \in Ids /\ q[i].id \in Nat
         /\ \A id : Stored(q, id) => id \in Ids /\ id \in Nat
<1>1. \A i \in DOMAIN q : q[i] \in ReceiveEntry
  OBVIOUS
<1>2. \A i \in DOMAIN q : q[i].id \in Ids
  BY <1>1 DEF ReceiveEntry
<1>3. \A i \in DOMAIN q : q[i].id \in Nat
  BY <1>2, Numbers DEF Ids
<1> QED BY <1>1, <1>2, <1>3 DEF Stored

LEMMA SendNumbers ==
  ASSUME NEW q \in Seq(SendEntry)
  PROVE  \A i \in DOMAIN q : q[i] \in SendEntry /\ q[i].id \in Ids /\ q[i].id \in Nat
<1>1. \A i \in DOMAIN q : q[i] \in SendEntry
  OBVIOUS
<1>2. \A i \in DOMAIN q : q[i].id \in Ids
  BY <1>1 DEF SendEntry
<1>3. \A i \in DOMAIN q : q[i].id \in Nat
  BY <1>2, Numbers DEF Ids
<1> QED BY <1>1, <1>2, <1>3

LEMMA StoredAppend ==
  ASSUME NEW q \in Seq(ReceiveEntry), NEW e \in ReceiveEntry, NEW id
  PROVE  Stored(Append(q, e), id) <=> Stored(q, id) \/ (IsData(e) /\ e.id = id)
<1> DEFINE n == Len(q)
           a == Append(q, e)
<1>1. /\ n \in Nat /\ DOMAIN q = 1 .. n /\ DOMAIN a = 1 .. n + 1
      /\ \A i \in 1 .. n : a[i] = q[i]
      /\ a[n + 1] = e
  BY AppendEntry
<1> HIDE DEF n, a
<1>2. \A i \in 1 .. n + 1 : i \in 1 .. n \/ i = n + 1
  BY <1>1
<1>3. n + 1 \in 1 .. n + 1 /\ \A i \in 1 .. n : i \in 1 .. n + 1
  BY <1>1
<1>4. Stored(a, id) <=> Stored(q, id) \/ (IsData(e) /\ e.id = id)
  BY <1>1, <1>2, <1>3 DEF Stored, IsData
<1> QED BY <1>4 DEF a

\* An entry whose number no other holds is appended, and the mark goes on to
\* the next packet missing.
LEMMA WindowAppend ==
  ASSUME NEW q \in Seq(ReceiveEntry), NEW g \in Nat, NEW r \in Nat, NEW s \in Nat,
         NEW e \in ReceiveEntry, Window(q, g, r),
         IsData(e) => ~ Stored(q, e.id) /\ ~ e.IsRead /\ g <= e.id,
         r <= s, \A id \in r .. s - 1 : Stored(Append(q, e), id),
         ~ Stored(Append(q, e), s)
  PROVE  Window(Append(q, e), g, s)
<1> DEFINE n == Len(q)
           a == Append(q, e)
<1>1. /\ n \in Nat /\ DOMAIN q = 1 .. n /\ DOMAIN a = 1 .. n + 1
      /\ \A i \in 1 .. n : a[i] = q[i]
      /\ a[n + 1] = e
  BY AppendEntry
<1>2. \A id : Stored(a, id) <=> Stored(q, id) \/ (IsData(e) /\ e.id = id)
  BY StoredAppend
<1> HIDE DEF n, a
<1>3. \A i \in 1 .. n + 1 : i \in 1 .. n \/ i = n + 1
  BY <1>1
<1>4. g <= s /\ ~ Stored(a, s)
  BY DEF Window, a
<1>5. ASSUME NEW id \in g .. s - 1 PROVE Stored(a, id)
  <2>1. CASE id < r
    BY <1>2, <2>1 DEF Window
  <2>2. CASE r <= id
    BY <2>2 DEF a
  <2> QED BY <2>1, <2>2
<1>6. ASSUME NEW i \in DOMAIN a, NEW j \in DOMAIN a, IsData(a[i]), IsData(a[j]),
             a[i].id = a[j].id
      PROVE  i = j
  <2>1. CASE i \in 1 .. n /\ j \in 1 .. n
    BY <1>1, <1>6, <2>1 DEF Window
  <2>2. CASE i \in 1 .. n /\ j = n + 1
    BY <1>1, <1>6, <2>2 DEF Stored, IsData
  <2>3. CASE i = n + 1 /\ j \in 1 .. n
    BY <1>1, <1>6, <2>3 DEF Stored, IsData
  <2> QED BY <1>1, <1>3, <2>1, <2>2, <2>3
<1>7. ASSUME NEW i \in DOMAIN a, IsData(a[i]) PROVE a[i].IsRead <=> a[i].id < g
  <2>1. CASE i \in 1 .. n
    BY <1>1, <1>7, <2>1 DEF Window
  <2>2. CASE i = n + 1
    <3>1. e.id \in Nat
      BY Numbers DEF ReceiveEntry, Ids
    <3> QED BY <1>1, <1>7, <2>2, <3>1
  <2> QED BY <1>1, <1>3, <2>1, <2>2
<1>8. Window(a, g, s)
  BY <1>4, <1>5, <1>6, <1>7 DEF Window
<1> QED BY <1>8 DEF a

\* LastSeqID runs up over the packets stored already.
LEMMA RunEndStops ==
  ASSUME NEW q \in Seq(ReceiveEntry), NEW id \in Nat, Stored(q, id),
         NEW n \in Ids, \A j \in Ids : Stored(q, j) => j < n
  PROVE  /\ RunEnd(q, id) \in id .. n - 1
         /\ \A j \in id .. RunEnd(q, id) : Stored(q, j)
         /\ ~ Stored(q, RunEnd(q, id) + 1)
<1> DEFINE T == {j \in Nat : id < j /\ ~ Stored(q, j)}
<1>1. IdMod \in Nat \ {0} /\ n \in Nat /\ n <= IdMod - 1
  BY Numbers DEF Ids
<1>2. \A j \in Nat : Stored(q, j) => j \in Ids /\ j < n
  BY EntryNumbers
<1>3. id < n
  BY <1>2
<1>4. T \in SUBSET Nat /\ n \in T
  BY <1>1, <1>2, <1>3
<1> HIDE DEF T
<1>5. PICK x \in T : \A y \in T : x <= y
  BY <1>4, LeastNumber
<1>6. x \in Nat /\ id < x /\ x <= n /\ ~ Stored(q, x)
  BY <1>4, <1>5 DEF T
<1>7. ASSUME NEW j \in id .. x - 1 PROVE Stored(q, j)
  <2>1. j \in Nat /\ j < x
    BY <1>6
  <2>2. ~ (j \in T)
    BY <1>4, <1>5, <1>6, <2>1
  <2> QED BY <2>1, <2>2 DEF T
<1>8. /\ x - 1 \in id .. IdMod - 1
      /\ \A j \in id .. x - 1 : Stored(q, j)
      /\ ~ Stored(q, (x - 1) + 1)
  BY <1>1, <1>6, <1>7
<1> DEFINE last == RunEnd(q, id)
<1>9. /\ last \in id .. IdMod - 1
      /\ \A j \in id .. last : Stored(q, j)
      /\ ~ Stored(q, last + 1)
  BY <1>8 DEF RunEnd
<1> HIDE DEF last
<1>10. last \in Nat /\ last \in id .. last
  BY <1>1, <1>9
<1>11. last < n
  BY <1>2, <1>9, <1>10
<1> QED BY <1>1, <1>9, <1>10, <1>11 DEF last

\* The application reads entry i.
LEMMA WindowRead ==
  ASSUME NEW q \in Seq(ReceiveEntry), NEW g \in Nat, NEW r \in Nat, Window(q, g, r),
         NEW i \in DOMAIN q, ~ q[i].IsRead, IsData(q[i]) => q[i].id = g
  PROVE  /\ Window([q EXCEPT ![i].IsRead = TRUE], IF IsData(q[i]) THEN g + 1 ELSE g, r)
         /\ IsData(q[i]) => g < r
         /\ \A id : Stored([q EXCEPT ![i].IsRead = TRUE], id) <=> Stored(q, id)
<1> DEFINE w == [q EXCEPT ![i].IsRead = TRUE]
           h == IF IsData(q[i]) THEN g + 1 ELSE g
<1>1. \A j \in DOMAIN q : q[j] \in ReceiveEntry
  OBVIOUS
<1>2. /\ DOMAIN w = DOMAIN q
      /\ \A j \in DOMAIN q : w[j].code = q[j].code /\ w[j].id = q[j].id
      /\ \A j \in DOMAIN q : j # i => w[j].IsRead = q[j].IsRead
      /\ w[i].IsRead = TRUE
  BY <1>1 DEF ReceiveEntry
<1> HIDE DEF w
<1>3. \A id : Stored(w, id) <=> Stored(q, id)
  <2>1. \A j \in DOMAIN q : j \in DOMAIN w /\ w[j].code = q[j].code /\ w[j].id = q[j].id
    BY <1>2
  <2>2. DOMAIN w = DOMAIN q
    BY <1>2
  <2> QED BY <2>1, <2>2, Zenon DEF Stored
<1>4. IsData(q[i]) => g < r
  BY DEF Window, Stored, IsData
<1>5. h <= r /\ (\A id \in h .. r - 1 : Stored(w, id)) /\ ~ Stored(w, r)
  BY <1>3, <1>4 DEF Window
<1>6. \A j, k \in DOMAIN w : IsData(w[j]) /\ IsData(w[k]) /\ w[j].id = w[k].id => j = k
  BY <1>2 DEF Window, IsData
<1>7. ASSUME NEW j \in DOMAIN w, IsData(w[j]) PROVE w[j].IsRead <=> w[j].id < h
  <2>1. j \in DOMAIN q /\ IsData(q[j]) /\ q[j].id \in Nat
    BY <1>1, <1>2, <1>7, Numbers DEF IsData, ReceiveEntry, Ids
  <2>2. CASE j = i
    BY <1>2, <2>1, <2>2
  <2>3. CASE j # i
    <3>1. IsData(q[i]) => q[j].id # g
      BY <2>1, <2>3 DEF Window
    <3>2. q[j].IsRead <=> q[j].id < g
      BY <2>1 DEF Window
    <3>3. w[j].IsRead = q[j].IsRead /\ w[j].id = q[j].id
      BY <1>2, <2>1, <2>3
    <3>4. q[j].id < g <=> q[j].id < h
      BY <2>1, <3>1
    <3> QED BY <3>2, <3>3, <3>4
  <2> QED BY <2>2, <2>3
<1>8. Window(w, h, r)
  BY <1>5, <1>6, <1>7 DEF Window
<1> HIDE DEF h
<1>9. Window([q EXCEPT ![i].IsRead = TRUE], IF IsData(q[i]) THEN g + 1 ELSE g, r)
  BY <1>8, Zenon DEF w, h
<1>10. \A id : Stored([q EXCEPT ![i].IsRead = TRUE], id) <=> Stored(q, id)
  BY <1>3, Zenon DEF w
<1> QED BY <1>4, <1>9, <1>10, Zenon

\* Service drops what is done with.
LEMMA WindowSweep ==
  ASSUME NEW q \in Seq(ReceiveEntry), NEW g \in Nat, NEW r \in Nat, Window(q, g, r),
         NEW K \in SUBSET (1 .. Len(q)),
         \A i \in DOMAIN q : i \notin K => (IsData(q[i]) => q[i].IsRead)
  PROVE  /\ Sweep(q, K) \in Seq(ReceiveEntry) /\ Len(Sweep(q, K)) <= Len(q)
         /\ Window(Sweep(q, K), g, r)
         /\ \A id : Known(Sweep(q, K), r, id) <=> Known(q, r, id)
<1> DEFINE s == Sweep(q, K)
<1>1. s \in Seq(ReceiveEntry) /\ Len(s) <= Len(q)
  BY SweepKeeps
<1>2. PICK at \in [1 .. Len(s) -> K] :
         /\ \A m \in 1 .. Len(s) : s[m] = q[at[m]]
         /\ \A m1, m2 \in 1 .. Len(s) : m1 < m2 <=> at[m1] < at[m2]
         /\ \A i \in K : \E m \in 1 .. Len(s) : at[m] = i
  BY SweepKeeps
<1> HIDE DEF s
<1>3. DOMAIN s = 1 .. Len(s) /\ DOMAIN q = 1 .. Len(q) /\ Len(s) \in Nat
  BY <1>1
<1>4. \A m \in DOMAIN s : at[m] \in DOMAIN q /\ s[m] = q[at[m]]
  BY <1>2, <1>3
<1>5. \A i \in DOMAIN q : \/ \E m \in DOMAIN s : s[m] = q[i]
                          \/ IsData(q[i]) => q[i].IsRead /\ q[i].id < g
  <2>1. ASSUME NEW i \in DOMAIN q, i \in K PROVE \E m \in DOMAIN s : s[m] = q[i]
    <3>1. PICK m \in 1 .. Len(s) : at[m] = i
      BY <1>2, <2>1
    <3> QED BY <1>2, <1>3, <3>1
  <2>2. ASSUME NEW i \in DOMAIN q, i \notin K
        PROVE  IsData(q[i]) => q[i].IsRead /\ q[i].id < g
    BY <2>2 DEF Window
  <2> QED BY <2>1, <2>2
<1>6. \A id : Stored(s, id) => Stored(q, id)
  BY <1>4 DEF Stored
<1>7. \A id \in Nat : Stored(q, id) /\ g <= id => Stored(s, id)
  BY <1>5 DEF Stored, IsData
<1>8. \A m, k \in DOMAIN s : IsData(s[m]) /\ IsData(s[k]) /\ s[m].id = s[k].id => m = k
  <2> SUFFICES ASSUME NEW m \in DOMAIN s, NEW k \in DOMAIN s, IsData(s[m]),
                      IsData(s[k]), s[m].id = s[k].id
               PROVE  m = k
    OBVIOUS
  <2>1. at[m] = at[k]
    BY <1>4 DEF Window
  <2>2. at[m] \in Nat
    BY <1>2, <1>3, <1>4
  <2> QED BY <1>2, <1>3, <2>1, <2>2
<1>9. \A m \in DOMAIN s : IsData(s[m]) => (s[m].IsRead <=> s[m].id < g)
  BY <1>4 DEF Window
<1>10. Window(s, g, r)
  BY <1>6, <1>7, <1>8, <1>9 DEF Window
<1>11. ASSUME NEW id PROVE Known(s, r, id) <=> Known(q, r, id)
  <2>1. ASSUME Stored(q, id) PROVE Known(s, r, id)
    <3>1. id \in Nat
      BY <2>1, EntryNumbers
    <3> QED BY <1>7, <2>1, <3>1 DEF Known, Window
  <2> QED BY <1>6, <2>1 DEF Known
<1> QED BY <1>1, <1>10, <1>11 DEF s

-----------------------------------------------------------------------------
(* The inductive invariant, by the three places it speaks about: what p    *)
(* has sent, what p has received, and what is on its way to p.             *)

SenderAt(p) ==
  /\ NumSendAck[p] <= MaxData[p] /\ NumSendNoAck[p] <= MaxNoAck[p]
  /\ \A i \in DOMAIN sendQ[p] : IsData(sendQ[p][i]) =>
       /\ sendQ[p][i].id < NumSendAck[p]
       /\ sendQ[p][i].IsACK => HasReceived(Other(p), sendQ[p][i].id)
  /\ \A id \in 0 .. NumSendAck[p] - 1 :
       \/ HasReceived(Other(p), id)
       \/ \E i \in DOMAIN sendQ[p] :
            IsData(sendQ[p][i]) /\ sendQ[p][i].id = id /\ ~ sendQ[p][i].IsACK

ReceiverAt(p) ==
  /\ Window(recvQ[p], Got(p), Received(p))
  /\ Received(p) <= NumSendAck[Other(p)]
  /\ \A id \in Ids : Stored(recvQ[p], id) => id < NumSendAck[Other(p)]

NetAt(p) ==
  \A m \in net[p] :
    /\ m.code = "DATA_ACK" => m.id < NumSendAck[Other(p)]
    /\ m.code = "ACK" => HasReceived(Other(p), m.id)

IInv == TypeOK /\ \A p \in Peers : SenderAt(p) /\ ReceiverAt(p) /\ NetAt(p)

(* A step of p leaves the other peer alone but for what it puts on its way. *)
LEMMA StepOf ==
  ASSUME IInv, NEW p \in Peers, TypeOK',
         sendQ'[Other(p)] = sendQ[Other(p)],
         recvQ'[Other(p)] = recvQ[Other(p)],
         NumSendAck'[Other(p)] = NumSendAck[Other(p)],
         NumSendNoAck'[Other(p)] = NumSendNoAck[Other(p)],
         LastSeqID'[Other(p)] = LastSeqID[Other(p)],
         LastReadID'[Other(p)] = LastReadID[Other(p)],
         NumSendAck[p] <= NumSendAck'[p],
         \A id \in Ids : HasReceived(p, id) => HasReceived(p, id)',
         SenderAt(p)', ReceiverAt(p)', NetAt(p)', NetAt(Other(p))'
  PROVE  IInv'
<1> DEFINE o == Other(p)
<1>1. o \in Peers /\ Other(o) = p /\ \A x \in Peers : x = p \/ x = o
  BY Numbers
<1> HIDE DEF o
<1>2. SenderAt(o) /\ ReceiverAt(o)
  BY <1>1 DEF IInv
<1>3. SenderAt(o)'
  <2>1. \A i \in DOMAIN sendQ[o] : sendQ[o][i].id \in Ids
    BY <1>1, SendNumbers DEF IInv, TypeOK
  <2>2. NumSendAck[o] \in Ids
    BY <1>1 DEF IInv, TypeOK
  <2>3. \A id \in 0 .. NumSendAck[o] - 1 : id \in Ids
    BY <2>2, Numbers DEF Ids
  <2> QED BY <1>1, <1>2, <2>1, <2>3 DEF SenderAt, o
<1>4. ReceiverAt(o)'
  <2>1. Got(o)' = Got(o) /\ Received(o)' = Received(o)
    BY DEF Got, Received, o
  <2>2. Received(o) \in Ids /\ NumSendAck[p] \in Ids /\ NumSendAck'[p] \in Ids
    BY <1>1, SuccIs DEF IInv, TypeOK, Received
  <2>3. \A id \in Ids : id \in Nat
    BY Numbers DEF Ids
  <2> QED BY <1>1, <1>2, <2>1, <2>2, <2>3 DEF ReceiverAt, o
<1> QED BY <1>1, <1>3, <1>4 DEF IInv, o

(* What the type invariant says of the marks of p. *)
LEMMA Marks ==
  ASSUME IInv, NEW p \in Peers
  PROVE  /\ Got(p) \in Nat /\ Received(p) \in Nat
         /\ NumSendAck[p] \in Nat /\ NumSendAck[p] \in Ids /\ NumSendAck[p] <= IdMod - 1
         /\ recvQ[p] \in Seq(ReceiveEntry) /\ sendQ[p] \in Seq(SendEntry)
         /\ Len(recvQ[p]) <= MaxReceive /\ Len(sendQ[p]) <= MaxSend
         /\ Other(p) \in Peers /\ Other(p) # p /\ Other(Other(p)) = p
         /\ Received(p) = IF LastSeqID[p] = None THEN 0 ELSE LastSeqID[p] + 1
<1>1. /\ LastSeqID[p] \in Ids /\ LastReadID[p] \in Ids /\ NumSendAck[p] \in Ids
      /\ recvQ[p] \in Seq(ReceiveEntry) /\ sendQ[p] \in Seq(SendEntry)
      /\ Len(recvQ[p]) <= MaxReceive /\ Len(sendQ[p]) <= MaxSend
  BY DEF IInv, TypeOK
<1>2. \A id \in Ids : id \in Nat /\ id <= IdMod - 1
  BY Numbers DEF Ids
<1>3. Got(p) \in Ids /\ Received(p) \in Ids
  BY <1>1, SuccIs DEF Got, Received
<1>4. Received(p) = IF LastSeqID[p] = None THEN 0 ELSE LastSeqID[p] + 1
  BY <1>1, SuccIs DEF Received
<1> QED BY <1>1, <1>2, <1>3, <1>4, Numbers

LEMMA InitIInv == Init => IInv
<1> SUFFICES ASSUME Init PROVE IInv
  OBVIOUS
<1>1. TypeOK
  <2>1. 0 \in Ids /\ None \in Ids
    BY Numbers, SuccIs DEF Ids
  <2> QED BY <2>1, SizesAssumption DEF Init, TypeOK
<1>2. ASSUME NEW p \in Peers PROVE SenderAt(p) /\ ReceiverAt(p) /\ NetAt(p)
  <2>1. /\ sendQ[p] = << >> /\ recvQ[p] = << >> /\ net[p] = {}
        /\ NumSendAck[p] = 0 /\ NumSendNoAck[p] = 0
        /\ NumSendAck[Other(p)] = 0
        /\ Got(p) = 0 /\ Received(p) = 0
    BY <1>2, SuccIs, Numbers DEF Init, Got, Received
  <2>2. \A id : ~ Stored(recvQ[p], id)
    BY <2>1 DEF Stored
  <2>3. SenderAt(p)
    BY <2>1, BoundsAssumption DEF SenderAt
  <2>4. ReceiverAt(p)
    BY <2>1, <2>2 DEF ReceiverAt, Window
  <2> QED BY <2>1, <2>3, <2>4 DEF NetAt
<1> QED BY <1>1, <1>2 DEF IInv

-----------------------------------------------------------------------------
(* One lemma for each action. *)

LEMMA SendAckInv ==
  ASSUME IInv, NEW p \in Peers, SendAckPacket(p)
  PROVE  IInv'
<1> DEFINE q == sendQ[p]
           n == NumSendAck[p]
           e == [code |-> "DATA_ACK", id |-> n, sent |-> FALSE, IsACK |-> FALSE]
           a == Append(q, e)
<1>1. /\ n \in Nat /\ n \in Ids /\ n < MaxData[p] /\ n + 1 <= MaxData[p]
      /\ Succ(n) = n + 1 /\ Succ(n) \in Ids
      /\ q \in Seq(SendEntry) /\ Other(p) \in Peers /\ Other(p) # p
      /\ Other(Other(p)) = p
  <2>1. n \in Nat /\ n \in Ids /\ n < MaxData[p] /\ MaxData[p] \in Nat
        /\ MaxData[p] <= IdMod - 1
    BY Marks, Numbers DEF SendAckPacket, Ids
  <2>2. n # None /\ n + 1 <= MaxData[p]
    BY <2>1, Numbers DEF None
  <2> QED BY <2>1, <2>2, Marks, SuccIs
<1>2. /\ sendQ' = [sendQ EXCEPT ![p] = a] /\ Len(q) < MaxSend
      /\ NumSendAck' = [NumSendAck EXCEPT ![p] = n + 1]
      /\ UNCHANGED << recvQ, NumSendNoAck, LastSeqID, LastReadID, net >>
  BY <1>1 DEF SendAckPacket, Enqueue
<1>3. e \in SendEntry
  BY <1>1 DEF SendEntry, DataCode
<1>4. /\ a \in Seq(SendEntry) /\ Len(q) \in Nat /\ Len(a) = Len(q) + 1
      /\ DOMAIN q = 1 .. Len(q) /\ DOMAIN a = 1 .. Len(q) + 1
      /\ \A i \in 1 .. Len(q) : a[i] = q[i]
      /\ a[Len(q) + 1] = e
  BY <1>1, <1>3, AppendEntry
<1> HIDE DEF a
<1>5. sendQ'[p] = a /\ sendQ'[Other(p)] = sendQ[Other(p)]
      /\ NumSendAck'[p] = n + 1 /\ NumSendAck'[Other(p)] = NumSendAck[Other(p)]
  BY <1>1, <1>2 DEF IInv, TypeOK
<1>6. \A o \in Peers : \A id : HasReceived(o, id)' <=> HasReceived(o, id)
  BY <1>2 DEF HasReceived, Received
<1>7. TypeOK'
  BY <1>1, <1>2, <1>4, SizesAssumption DEF IInv, TypeOK
<1>8. SenderAt(p)'
  <2>1. \A i \in DOMAIN a : i \in DOMAIN q \/ i = Len(q) + 1
    BY <1>4
  <2>2. \A i \in DOMAIN q : i \in DOMAIN a /\ a[i] = q[i]
    BY <1>4
  <2>3. ASSUME NEW i \in DOMAIN a, IsData(a[i])
        PROVE  a[i].id < n + 1 /\ (a[i].IsACK => HasReceived(Other(p), a[i].id))
    <3>1. CASE i \in DOMAIN q
      <4>1. q[i].id \in Nat
        BY <1>1, <3>1, SendNumbers
      <4> QED BY <1>1, <2>2, <2>3, <3>1, <4>1 DEF IInv, SenderAt
    <3>2. CASE i = Len(q) + 1
      BY <1>1, <1>4, <3>2
    <3> QED BY <2>1, <3>1, <3>2
  <2>4. ASSUME NEW id \in 0 .. n
        PROVE  \/ HasReceived(Other(p), id)
               \/ \E i \in DOMAIN a : IsData(a[i]) /\ a[i].id = id /\ ~ a[i].IsACK
    <3>1. CASE id = n
      <4>1. Len(q) + 1 \in DOMAIN a
        BY <1>4
      <4> QED BY <1>4, <3>1, <4>1 DEF IsData
    <3>2. CASE id # n
      <4>1. id \in 0 .. n - 1
        BY <1>1, <3>2
      <4> QED BY <2>2, <4>1 DEF IInv, SenderAt
    <3> QED BY <3>1, <3>2
  <2>5. (n + 1) - 1 = n
    BY <1>1
  <2> QED BY <1>1, <1>2, <1>5, <1>6, <2>3, <2>4, <2>5 DEF SenderAt, IInv
<1>9. ReceiverAt(p)' /\ NetAt(p)'
  BY <1>1, <1>2, <1>5, <1>6 DEF ReceiverAt, NetAt, IInv, Got, Received
<1>10. NetAt(Other(p))'
  <2>1. \A m \in net[Other(p)] : m.id \in Nat
    BY <1>1, Numbers DEF IInv, TypeOK, Packet, Ids
  <2> QED BY <1>1, <1>2, <1>5, <1>6, <2>1 DEF NetAt, IInv
<1> QED BY <1>1, <1>2, <1>5, <1>6, <1>7, <1>8, <1>9, <1>10, StepOf

LEMMA SendNoAckInv ==
  ASSUME IInv, NEW p \in Peers, SendNoAckPacket(p)
  PROVE  IInv'
<1> DEFINE q == sendQ[p]
           n == NumSendNoAck[p]
           e == [code |-> "DATA_NOACK", id |-> n, sent |-> FALSE, IsACK |-> FALSE]
           a == Append(q, e)
<1>1. /\ n \in Ids /\ Succ(n) \in Ids /\ Succ(n) <= MaxNoAck[p]
      /\ q \in Seq(SendEntry) /\ Other(p) \in Peers /\ Other(p) # p
      /\ Other(Other(p)) = p
  <2>1. n \in Nat /\ n \in Ids /\ n < MaxNoAck[p] /\ MaxNoAck[p] \in Nat
        /\ MaxNoAck[p] <= IdMod - 1
    BY Numbers DEF IInv, TypeOK, SendNoAckPacket, Ids
  <2>2. n # None /\ n + 1 <= MaxNoAck[p]
    BY <2>1, Numbers DEF None
  <2> QED BY <2>1, <2>2, Marks, SuccIs
<1>2. /\ sendQ' = [sendQ EXCEPT ![p] = a] /\ Len(q) < MaxSend
      /\ NumSendNoAck' = [NumSendNoAck EXCEPT ![p] = Succ(n)]
      /\ UNCHANGED << recvQ, NumSendAck, LastSeqID, LastReadID, net >>
  BY DEF SendNoAckPacket, Enqueue
<1>3. e \in SendEntry
  BY <1>1 DEF SendEntry, DataCode
<1>4. /\ a \in Seq(SendEntry) /\ Len(q) \in Nat /\ Len(a) = Len(q) + 1
      /\ DOMAIN q = 1 .. Len(q) /\ DOMAIN a = 1 .. Len(q) + 1
      /\ \A i \in 1 .. Len(q) : a[i] = q[i]
      /\ a[Len(q) + 1] = e
  BY <1>1, <1>3, AppendEntry
<1> HIDE DEF a
<1>5. sendQ'[p] = a /\ sendQ'[Other(p)] = sendQ[Other(p)]
      /\ NumSendNoAck'[p] = Succ(n) /\ NumSendNoAck'[Other(p)] = NumSendNoAck[Other(p)]
  BY <1>1, <1>2 DEF IInv, TypeOK
<1>6. \A o \in Peers : \A id : HasReceived(o, id)' <=> HasReceived(o, id)
  BY <1>2 DEF HasReceived, Received
<1>7. TypeOK'
  BY <1>1, <1>2, <1>4, SizesAssumption DEF IInv, TypeOK
<1>8. SenderAt(p)'
  <2>1. \A i \in DOMAIN a : IsData(a[i]) => i \in DOMAIN q
    BY <1>4 DEF IsData
  <2>2. \A i \in DOMAIN q : i \in DOMAIN a /\ a[i] = q[i]
    BY <1>4
  <2> QED BY <1>1, <1>2, <1>5, <1>6, <2>1, <2>2 DEF SenderAt, IInv
<1>9. ReceiverAt(p)' /\ NetAt(p)' /\ NetAt(Other(p))'
  BY <1>1, <1>2, <1>6 DEF ReceiverAt, NetAt, IInv, Got, Received
<1>10. NumSendAck[p] <= NumSendAck'[p]
  BY <1>2, Marks
<1> QED BY <1>1, <1>2, <1>5, <1>6, <1>7, <1>8, <1>9, <1>10, StepOf

(* An ACK marks an entry whose packet the partner has. *)
LEMMA ReceiveAckInv ==
  ASSUME IInv, NEW p \in Peers, NEW m, NEW copy \in BOOLEAN, ReceiveAck(p, m, copy)
  PROVE  IInv'
<1> DEFINE q == sendQ[p]
           For(i) == sendQ[p][i].code = "DATA_ACK" /\ sendQ[p][i].id = m.id
           first == {i \in DOMAIN sendQ[p] : For(i) /\ \A j \in 1 .. i - 1 : ~ For(j)}
           a == [i \in DOMAIN q |-> IF i \in first THEN [q[i] EXCEPT !.IsACK = TRUE]
                                                  ELSE q[i]]
<1>1. /\ q \in Seq(SendEntry) /\ Len(q) <= MaxSend
      /\ Other(p) \in Peers /\ Other(p) # p /\ Other(Other(p)) = p
  BY Marks
<1>2. /\ m \in net[p] /\ m.code = "ACK"
      /\ net' = [net EXCEPT ![p] = IF copy THEN @ ELSE @ \ {m}]
      /\ sendQ' = [sendQ EXCEPT ![p] = a]
      /\ UNCHANGED << recvQ, NumSendAck, NumSendNoAck, LastSeqID, LastReadID >>
  BY DEF ReceiveAck, Arrive
<1>3. HasReceived(Other(p), m.id)
  BY <1>2 DEF IInv, NetAt
<1>4. \A i \in DOMAIN q : q[i] \in SendEntry /\ (i \in first => q[i].id = m.id)
  BY <1>1
<1> HIDE DEF first
<1>5. /\ a \in Seq(SendEntry) /\ Len(a) = Len(q) /\ DOMAIN a = DOMAIN q
      /\ \A i \in DOMAIN q : /\ a[i].code = q[i].code /\ a[i].id = q[i].id
                             /\ a[i].IsACK <=> q[i].IsACK \/ i \in first
  <2>1. \A i \in DOMAIN q : a[i] \in SendEntry
    BY <1>4 DEF SendEntry
  <2>2. \A i \in DOMAIN q : /\ a[i].code = q[i].code /\ a[i].id = q[i].id
                            /\ a[i].IsACK <=> q[i].IsACK \/ i \in first
    BY <1>4 DEF SendEntry
  <2>3. DOMAIN q = 1 .. Len(q) /\ Len(q) \in Nat
    BY <1>1
  <2>4. a \in [1 .. Len(q) -> SendEntry]
    <3> HIDE DEF a
    <3>1. DOMAIN a = 1 .. Len(q) /\ a = [i \in DOMAIN a |-> a[i]]
      BY <2>3 DEF a
    <3> QED BY <2>1, <2>3, <3>1
  <2>5. a \in Seq(SendEntry) /\ Len(a) = Len(q)
    BY <2>3, <2>4
  <2> QED BY <2>2, <2>5
<1> HIDE DEF a
<1>6. /\ sendQ'[p] = a /\ sendQ'[Other(p)] = sendQ[Other(p)]
      /\ \A o \in Peers : net'[o] \in SUBSET net[o]
  BY <1>1, <1>2 DEF IInv, TypeOK
<1>7. \A o \in Peers : \A id : HasReceived(o, id)' <=> HasReceived(o, id)
  BY <1>2 DEF HasReceived, Received
<1>8. TypeOK'
  BY <1>1, <1>2, <1>5, <1>6 DEF IInv, TypeOK
<1>9. SenderAt(p)'
  <2>1. ASSUME NEW i \in DOMAIN a, IsData(a[i])
        PROVE  a[i].id < NumSendAck[p] /\ (a[i].IsACK => HasReceived(Other(p), a[i].id))
    <3>1. i \in DOMAIN q /\ IsData(q[i]) /\ a[i].id = q[i].id
      BY <1>5, <2>1 DEF IsData
    <3>2. q[i].id < NumSendAck[p] /\ (q[i].IsACK => HasReceived(Other(p), q[i].id))
      BY <3>1 DEF IInv, SenderAt
    <3> QED BY <1>3, <1>4, <1>5, <3>1, <3>2
  <2>2. ASSUME NEW id \in 0 .. NumSendAck[p] - 1
        PROVE  \/ HasReceived(Other(p), id)
               \/ \E i \in DOMAIN a : IsData(a[i]) /\ a[i].id = id /\ ~ a[i].IsACK
    <3>1. CASE HasReceived(Other(p), id)
      BY <3>1
    <3>2. CASE \E i \in DOMAIN q : IsData(q[i]) /\ q[i].id = id /\ ~ q[i].IsACK
      BY <1>3, <1>4, <1>5, <3>2 DEF IsData
    <3> QED BY <3>1, <3>2 DEF IInv, SenderAt
  <2> QED BY <1>1, <1>2, <1>6, <1>7, <2>1, <2>2 DEF SenderAt, IInv
<1>10. ReceiverAt(p)' /\ NetAt(p)' /\ NetAt(Other(p))'
  BY <1>1, <1>2, <1>6, <1>7 DEF ReceiverAt, NetAt, IInv, Got, Received
<1>11. NumSendAck[p] <= NumSendAck'[p]
  BY <1>2, Marks
<1> QED BY <1>1, <1>2, <1>6, <1>7, <1>8, <1>9, <1>10, <1>11, StepOf

(* A packet that needs no ACK is refused or appended. *)
LEMMA ReceiveNoAckInv ==
  ASSUME IInv, NEW p \in Peers, NEW m, NEW copy \in BOOLEAN, ReceiveNoAck(p, m, copy)
  PROVE  IInv'
<1> DEFINE q == recvQ[p]
           e == [code |-> m.code, id |-> m.id, IsRead |-> FALSE]
           a == Append(q, e)
<1>1. /\ q \in Seq(ReceiveEntry) /\ Len(q) <= MaxReceive
      /\ Got(p) \in Nat /\ Received(p) \in Nat
      /\ Other(p) \in Peers /\ Other(p) # p /\ Other(Other(p)) = p
  BY Marks
<1>2. /\ m \in net[p] /\ m.code = "DATA_NOACK"
      /\ net' = [net EXCEPT ![p] = IF copy THEN @ ELSE @ \ {m}]
      /\ recvQ' = IF Len(q) + 1 >= MaxReceive THEN recvQ ELSE [recvQ EXCEPT ![p] = a]
      /\ UNCHANGED << sendQ, NumSendAck, NumSendNoAck, LastSeqID, LastReadID >>
  BY DEF ReceiveNoAck, Arrive
<1>3. e \in ReceiveEntry /\ ~ IsData(e)
  BY <1>2 DEF IInv, TypeOK, Packet, ReceiveEntry, DataCode, IsData
<1>4. a \in Seq(ReceiveEntry) /\ Len(q) \in Nat /\ Len(a) = Len(q) + 1
  BY <1>1, <1>3, AppendEntry
<1>5. \A id : Stored(a, id) <=> Stored(q, id)
  BY <1>1, <1>3, StoredAppend
<1>6. Window(q, Got(p), Received(p))
  BY DEF IInv, ReceiverAt
<1>7. Window(a, Got(p), Received(p))
  <2>1. \A id \in Received(p) .. Received(p) - 1 : Stored(a, id)
    BY <1>1
  <2>2. ~ Stored(a, Received(p))
    BY <1>5, <1>6 DEF Window
  <2> HIDE DEF a
  <2> QED BY <1>1, <1>3, <1>6, <2>1, <2>2, WindowAppend DEF a
<1> HIDE DEF a
<1>8. /\ recvQ'[p] \in {q, a} /\ recvQ'[Other(p)] = recvQ[Other(p)]
      /\ \A o \in Peers : net'[o] \in SUBSET net[o]
      /\ Got(p)' = Got(p) /\ Received(p)' = Received(p)
  BY <1>1, <1>2 DEF IInv, TypeOK, Got, Received
<1>9. \A o \in Peers : \A id : HasReceived(o, id)' <=> HasReceived(o, id)
  <2>1. \A id : Stored(recvQ'[p], id) <=> Stored(recvQ[p], id)
    BY <1>5, <1>8
  <2>2. \A id : HasReceived(p, id)' <=> HasReceived(p, id)
    BY <1>8, <2>1 DEF HasReceived
  <2>3. \A id : HasReceived(Other(p), id)' <=> HasReceived(Other(p), id)
    BY <1>2, <1>8 DEF HasReceived, Received
  <2> QED BY <2>2, <2>3, Numbers
<1>10. TypeOK'
  BY <1>1, <1>2, <1>4, <1>8, SizesAssumption DEF IInv, TypeOK
<1>11. ReceiverAt(p)'
  BY <1>1, <1>2, <1>5, <1>6, <1>7, <1>8 DEF ReceiverAt, IInv
<1>12. SenderAt(p)' /\ NetAt(p)' /\ NetAt(Other(p))'
  BY <1>1, <1>2, <1>8, <1>9 DEF SenderAt, NetAt, IInv
<1>13. NumSendAck[p] <= NumSendAck'[p]
  BY <1>2, Marks
<1> QED BY <1>1, <1>2, <1>8, <1>9, <1>10, <1>11, <1>12, <1>13, StepOf

(* The ACK of a packet goes out only when the packet has been received.  *)
LEMMA ArriveAndAckNet ==
  ASSUME IInv, NEW p \in Peers, NEW m, NEW copy \in BOOLEAN, ArriveAndAck(p, m, copy),
         NumSendAck' = NumSendAck, recvQ'[Other(p)] = recvQ[Other(p)],
         LastSeqID'[Other(p)] = LastSeqID[Other(p)],
         HasReceived(p, m.id)', \A id \in Ids : HasReceived(p, id) => HasReceived(p, id)'
  PROVE  /\ net' \in [Peers -> SUBSET Packet]
         /\ NetAt(p)' /\ NetAt(Other(p))'
<1> DEFINE o == Other(p)
           ack == [code |-> "ACK", id |-> m.id]
<1>1. o \in Peers /\ o # p /\ Other(o) = p /\ \A x \in Peers : x = p \/ x = o
  BY Numbers
<1>2. m \in net[p] /\ net \in [Peers -> SUBSET Packet]
  BY DEF ArriveAndAck, IInv, TypeOK
<1>3. net' = [net EXCEPT ![p] = IF copy THEN @ ELSE @ \ {m}, ![o] = @ \cup {ack}]
  BY DEF ArriveAndAck
<1>4. ack \in Packet
  BY <1>2 DEF Packet
<1> HIDE DEF ack, o
<1>5. /\ net'[p] \in SUBSET net[p] /\ net'[o] = net[o] \cup {ack}
      /\ net' \in [Peers -> SUBSET Packet]
  BY <1>1, <1>2, <1>3, <1>4
<1>6. \A id : HasReceived(o, id)' <=> HasReceived(o, id)
  BY DEF HasReceived, Received, o
<1>7. NetAt(p)'
  BY <1>5, <1>6 DEF NetAt, IInv, o
<1>8. NetAt(o)'
  <2>1. ack.code = "ACK" /\ ack.id = m.id
    BY DEF ack
  <2>2. \A x \in net[o] : x.id \in Ids
    BY <1>1, <1>2 DEF Packet
  <2> QED BY <1>1, <1>5, <2>1, <2>2 DEF NetAt, IInv
<1> QED BY <1>5, <1>7, <1>8 DEF o

LEMMA StoreIs ==
  ASSUME IInv, NEW p \in Peers, NEW m \in net[p], m.code = "DATA_ACK",
         ~ Resend(p, m.id), HasRoom(p, m.id), StorePacket(p, m),
         UNCHANGED << LastReadID, NumSendAck >>
  PROVE  /\ recvQ' \in [Peers -> Seq(ReceiveEntry)] /\ Len(recvQ'[p]) <= MaxReceive
         /\ LastSeqID' \in [Peers -> Ids]
         /\ recvQ'[Other(p)] = recvQ[Other(p)] /\ LastSeqID'[Other(p)] = LastSeqID[Other(p)]
         /\ ReceiverAt(p)'
         /\ HasReceived(p, m.id)' /\ \A id \in Ids : HasReceived(p, id) => HasReceived(p, id)'
<1> DEFINE q == recvQ[p]
           e == [code |-> m.code, id |-> m.id, IsRead |-> FALSE]
           a == Append(q, e)
           r == Received(p)
           s == IF m.id = r THEN RunEnd(a, m.id) + 1 ELSE r
           n == NumSendAck[Other(p)]
<1>1. /\ q \in Seq(ReceiveEntry) /\ Len(q) <= MaxReceive
      /\ Got(p) \in Nat /\ r \in Nat /\ LastSeqID[p] \in Ids
      /\ r = IF LastSeqID[p] = None THEN 0 ELSE LastSeqID[p] + 1
      /\ n \in Nat /\ n \in Ids /\ n <= IdMod - 1
      /\ Other(p) \in Peers /\ Other(p) # p
  BY Marks DEF IInv, TypeOK
<1>2. /\ m.id \in Ids /\ m.id \in Nat /\ m.id < n
      /\ e \in ReceiveEntry /\ IsData(e)
  <2>1. m \in Packet
    BY DEF IInv, TypeOK
  <2>2. m.id \in Ids
    BY <2>1 DEF Packet
  <2>3. m.id < n
    BY DEF IInv, NetAt
  <2>4. e \in ReceiveEntry /\ IsData(e)
    BY <2>2 DEF ReceiveEntry, DataCode, IsData
  <2> QED BY <2>2, <2>3, <2>4, Numbers DEF Ids
<1>3. Window(q, Got(p), r) /\ r <= n /\ \A id \in Ids : Stored(q, id) => id < n
  BY DEF IInv, ReceiverAt
<1>4. ~ Stored(q, m.id) /\ r <= m.id
  <2>1. LastSeqID[p] \in Nat
    BY <1>1, Numbers DEF Ids
  <2> QED BY <1>1, <1>2, <2>1 DEF Resend
<1>5. a \in Seq(ReceiveEntry) /\ Len(q) \in Nat /\ Len(a) = Len(q) + 1
  BY <1>1, <1>2, AppendEntry
<1>6. \A id : Stored(a, id) <=> Stored(q, id) \/ m.id = id
  BY <1>1, <1>2, StoredAppend
<1>7. recvQ' = [recvQ EXCEPT ![p] = a]
  BY DEF StorePacket
<1>8. LastSeqID' = [LastSeqID EXCEPT ![p] =
                      IF m.id = r THEN RunEnd(a, m.id) ELSE @]
  BY DEF StorePacket, Received
<1> HIDE DEF a, e
<1>9. /\ s \in Nat /\ r <= s /\ s <= n
      /\ \A id \in r .. s - 1 : Stored(a, id)
      /\ ~ Stored(a, s)
      /\ LastSeqID'[p] \in Ids /\ Succ(LastSeqID'[p]) = s
  <2>1. CASE m.id = r
    <3> DEFINE last == RunEnd(a, m.id)
    <3>1. /\ last \in m.id .. n - 1
          /\ \A j \in m.id .. last : Stored(a, j)
          /\ ~ Stored(a, last + 1)
      <4>1. \A j \in Ids : Stored(a, j) => j < n
        BY <1>2, <1>3, <1>6
      <4> QED BY <1>1, <1>2, <1>5, <1>6, <4>1, RunEndStops
    <3>2. LastSeqID'[p] = last
      BY <1>8, <2>1 DEF IInv, TypeOK
    <3>3. s = last + 1
      BY <2>1
    <3> HIDE DEF last, s
    <3>4. last \in Nat /\ last <= n - 1 /\ m.id <= last
      BY <1>1, <1>2, <3>1
    <3>5. last \in Ids /\ last # None
      BY <1>1, <3>4, Numbers DEF Ids, None
    <3>6. (last + 1) - 1 = last
      BY <3>4
    <3> QED BY <1>1, <2>1, <3>1, <3>2, <3>3, <3>4, <3>5, <3>6, SuccIs
  <2>2. CASE m.id # r
    <3>1. s = r /\ LastSeqID'[p] = LastSeqID[p] /\ Succ(LastSeqID[p]) = r
      BY <1>8, <2>2 DEF IInv, TypeOK, Received
    <3>2. ~ Stored(a, r)
      BY <1>3, <1>6, <2>2 DEF Window
    <3> HIDE DEF s
    <3>3. \A id \in r .. r - 1 : Stored(a, id)
      BY <1>1
    <3> QED BY <1>1, <1>3, <3>1, <3>2, <3>3
  <2> QED BY <2>1, <2>2
<1> HIDE DEF s
<1>10. Window(a, Got(p), s)
  <2>1. Got(p) <= m.id /\ ~ e.IsRead /\ e.id = m.id
    BY <1>1, <1>2, <1>3, <1>4 DEF Window, e
  <2> QED BY <1>1, <1>2, <1>3, <1>4, <1>9, <2>1, WindowAppend DEF a
<1>11. /\ recvQ'[p] = a /\ recvQ'[Other(p)] = recvQ[Other(p)]
       /\ LastSeqID'[Other(p)] = LastSeqID[Other(p)]
       /\ LastSeqID' \in [Peers -> Ids] /\ recvQ' \in [Peers -> Seq(ReceiveEntry)]
       /\ Got(p)' = Got(p) /\ Received(p)' = s
  BY <1>1, <1>5, <1>7, <1>8, <1>9 DEF IInv, TypeOK, Got, Received
<1>12. Len(a) <= MaxReceive
  BY <1>5, SizesAssumption DEF HasRoom
<1>13. ReceiverAt(p)'
  BY <1>2, <1>3, <1>6, <1>9, <1>10, <1>11 DEF ReceiverAt
<1>14. HasReceived(p, m.id)'
  BY <1>6, <1>11 DEF HasReceived
<1>15. ASSUME NEW id \in Ids, HasReceived(p, id) PROVE HasReceived(p, id)'
  <2>1. CASE Stored(q, id)
    BY <1>6, <1>11, <2>1 DEF HasReceived
  <2>2. CASE id < r /\ ~ Stored(q, id)
    <3>1. id < s
      BY <1>1, <1>9, <2>2, Numbers DEF Ids
    <3> QED BY <1>11, <3>1 DEF HasReceived
  <2> QED BY <1>15, <2>1, <2>2 DEF HasReceived
<1> QED BY <1>11, <1>12, <1>13, <1>14, <1>15

\* A resend, a packet there is no room for, or a packet to store.
LEMMA ReceiveDataInv ==
  ASSUME IInv, NEW p \in Peers, NEW m, NEW copy \in BOOLEAN, ReceiveData(p, m, copy)
  PROVE  IInv'
<1>1. /\ m.code = "DATA_ACK"
      /\ UNCHANGED << sendQ, NumSendAck, NumSendNoAck, LastReadID >>
      /\ Other(p) \in Peers /\ Other(p) # p /\ Other(Other(p)) = p
      /\ NumSendAck[p] <= NumSendAck'[p]
  BY Marks DEF ReceiveData
<1>2. ASSUME \A id \in Ids : HasReceived(p, id) => HasReceived(p, id)',
             recvQ'[Other(p)] = recvQ[Other(p)],
             LastSeqID'[Other(p)] = LastSeqID[Other(p)]
      PROVE  SenderAt(p)'
  <2>1. \A id : HasReceived(Other(p), id)' <=> HasReceived(Other(p), id)
    BY <1>2 DEF HasReceived, Received
  <2> QED BY <1>1, <2>1 DEF SenderAt, IInv
<1>3. CASE Resend(p, m.id) /\ ArriveAndAck(p, m, copy) /\ UNCHANGED << recvQ, LastSeqID >>
  <2>1. \A o, id : HasReceived(o, id)' <=> HasReceived(o, id)
    BY <1>3 DEF HasReceived, Received
  <2>2. HasReceived(p, m.id)
    <3>1. m \in Packet
      BY <1>3 DEF ArriveAndAck, IInv, TypeOK
    <3>2. m.id \in Nat /\ LastSeqID[p] \in Nat
      BY <3>1, Numbers DEF IInv, TypeOK, Packet, Ids
    <3> QED BY <1>3, <3>2, Marks DEF Resend, HasReceived
  <2>3. net' \in [Peers -> SUBSET Packet] /\ NetAt(p)' /\ NetAt(Other(p))'
    BY <1>1, <1>3, <2>1, <2>2, ArriveAndAckNet
  <2>4. TypeOK'
    BY <1>1, <1>3, <2>3 DEF IInv, TypeOK
  <2>5. ReceiverAt(p)'
    BY <1>1, <1>3 DEF IInv, ReceiverAt, Got, Received
  <2> QED BY <1>1, <1>2, <1>3, <2>1, <2>3, <2>4, <2>5, StepOf
<1>4. CASE Arrive(p, m, copy) /\ UNCHANGED << recvQ, LastSeqID >>
  <2>1. \A o, id : HasReceived(o, id)' <=> HasReceived(o, id)
    BY <1>4 DEF HasReceived, Received
  <2>2. /\ net' \in [Peers -> SUBSET Packet]
        /\ \A o \in Peers : net'[o] \in SUBSET net[o]
    BY <1>4 DEF Arrive, IInv, TypeOK
  <2>3. NetAt(p)' /\ NetAt(Other(p))'
    BY <1>1, <2>1, <2>2 DEF NetAt, IInv
  <2>4. TypeOK'
    BY <1>1, <1>4, <2>2 DEF IInv, TypeOK
  <2>5. ReceiverAt(p)'
    BY <1>1, <1>4 DEF IInv, ReceiverAt, Got, Received
  <2> QED BY <1>1, <1>2, <1>4, <2>1, <2>3, <2>4, <2>5, StepOf
<1>5. CASE /\ ~ Resend(p, m.id) /\ HasRoom(p, m.id)
           /\ ArriveAndAck(p, m, copy) /\ StorePacket(p, m)
  <2>1. m \in net[p]
    BY <1>5 DEF ArriveAndAck
  <2>2. /\ recvQ' \in [Peers -> Seq(ReceiveEntry)] /\ Len(recvQ'[p]) <= MaxReceive
        /\ LastSeqID' \in [Peers -> Ids]
        /\ recvQ'[Other(p)] = recvQ[Other(p)]
        /\ LastSeqID'[Other(p)] = LastSeqID[Other(p)]
        /\ ReceiverAt(p)'
        /\ HasReceived(p, m.id)'
        /\ \A id \in Ids : HasReceived(p, id) => HasReceived(p, id)'
    BY <1>1, <1>5, <2>1, StoreIs
  <2>3. net' \in [Peers -> SUBSET Packet] /\ NetAt(p)' /\ NetAt(Other(p))'
    BY <1>1, <1>5, <2>2, ArriveAndAckNet
  <2>4. TypeOK'
    <3>1. \A o \in Peers : o = p \/ o = Other(p)
      BY Numbers
    <3> QED BY <1>1, <2>2, <2>3, <3>1 DEF IInv, TypeOK
  <2> QED BY <1>1, <1>2, <2>2, <2>3, <2>4, StepOf
<1> QED BY <1>3, <1>4, <1>5 DEF ReceiveData

\* The application reads the packet next in order, or one without order.
LEMMA GetPacketIs ==
  ASSUME IInv, NEW p \in Peers, Get_Packet(p)
  PROVE  /\ recvQ' \in [Peers -> Seq(ReceiveEntry)] /\ Len(recvQ'[p]) = Len(recvQ[p])
         /\ recvQ'[Other(p)] = recvQ[Other(p)]
         /\ LastReadID' \in [Peers -> Ids] /\ LastReadID'[Other(p)] = LastReadID[Other(p)]
         /\ ReceiverAt(p)'
         /\ \A id : HasReceived(p, id)' <=> HasReceived(p, id)
         /\ Got(p)' = Got(p) \/ (Got(p)' = Got(p) + 1 /\ Got(p) < Received(p))
<1> DEFINE q == recvQ[p]
           g == Got(p)
<1>1. /\ q \in Seq(ReceiveEntry) /\ g \in Nat /\ Received(p) \in Nat
      /\ Other(p) \in Peers /\ Other(p) # p
      /\ Window(q, g, Received(p))
  BY Marks DEF IInv, ReceiverAt
<1>2. PICK i \in DOMAIN q :
        /\ Readable(p, i)
        /\ recvQ' = [recvQ EXCEPT ![p][i].IsRead = TRUE]
        /\ LastReadID' = [LastReadID EXCEPT ![p] =
                            IF q[i].code = "DATA_ACK" THEN q[i].id ELSE @]
        /\ UNCHANGED << sendQ, NumSendAck, NumSendNoAck, LastSeqID, net >>
  BY DEF Get_Packet
<1> DEFINE w == [q EXCEPT ![i].IsRead = TRUE]
           h == IF IsData(q[i]) THEN g + 1 ELSE g
<1>3. ~ q[i].IsRead /\ (IsData(q[i]) => q[i].id = g)
  BY <1>2 DEF Readable, Got, IsData
<1>4. /\ Window(w, h, Received(p))
      /\ IsData(q[i]) => g < Received(p)
      /\ \A id : Stored(w, id) <=> Stored(q, id)
  BY <1>1, <1>3, WindowRead
<1>5. w \in Seq(ReceiveEntry) /\ Len(w) = Len(q)
  <2>1. q[i] \in ReceiveEntry
    BY <1>1, EntryNumbers
  <2>2. [q[i] EXCEPT !.IsRead = TRUE] \in ReceiveEntry
    BY <2>1 DEF ReceiveEntry
  <2> QED BY <1>1, <2>2
<1>6. recvQ' = [recvQ EXCEPT ![p] = w]
  BY <1>2
<1> HIDE DEF w
<1>7. recvQ'[p] = w /\ recvQ'[Other(p)] = recvQ[Other(p)]
      /\ recvQ' \in [Peers -> Seq(ReceiveEntry)]
  BY <1>1, <1>5, <1>6 DEF IInv, TypeOK
<1>8. q[i].id \in Ids
  BY <1>1, EntryNumbers
<1>9. /\ LastReadID' \in [Peers -> Ids] /\ LastReadID'[Other(p)] = LastReadID[Other(p)]
      /\ LastReadID'[p] = IF IsData(q[i]) THEN q[i].id ELSE LastReadID[p]
  BY <1>1, <1>2, <1>8 DEF IInv, TypeOK, IsData
<1>10. Got(p)' = h
  <2>1. CASE IsData(q[i])
    <3>1. Stored(q, g) /\ g < NumSendAck[Other(p)]
      <4>1. Stored(q, g)
        BY <1>3, <2>1 DEF Stored, IsData
      <4> QED BY <1>3, <1>8, <2>1, <4>1 DEF IInv, ReceiverAt
    <3>2. NumSendAck[Other(p)] \in Nat /\ NumSendAck[Other(p)] <= IdMod - 1
      BY <1>1, Marks
    <3>3. g # None
      BY <1>1, <3>1, <3>2, Numbers DEF None
    <3> QED BY <1>3, <1>8, <1>9, <2>1, <3>3, SuccIs DEF Got
  <2>2. CASE ~ IsData(q[i])
    BY <1>9, <2>2 DEF Got
  <2> QED BY <2>1, <2>2
<1>11. Received(p)' = Received(p)
  BY <1>2 DEF Received
<1>12. ReceiverAt(p)'
  BY <1>2, <1>4, <1>7, <1>10, <1>11 DEF IInv, ReceiverAt
<1>13. \A id : HasReceived(p, id)' <=> HasReceived(p, id)
  BY <1>4, <1>7, <1>11 DEF HasReceived
<1> QED BY <1>4, <1>5, <1>7, <1>9, <1>10, <1>12, <1>13

LEMMA GetPacketInv ==
  ASSUME IInv, NEW p \in Peers, Get_Packet(p)
  PROVE  IInv'
<1>1. UNCHANGED << sendQ, NumSendAck, NumSendNoAck, LastSeqID, net >>
  BY DEF Get_Packet
<1>2. /\ recvQ' \in [Peers -> Seq(ReceiveEntry)] /\ Len(recvQ'[p]) = Len(recvQ[p])
      /\ recvQ'[Other(p)] = recvQ[Other(p)]
      /\ LastReadID' \in [Peers -> Ids] /\ LastReadID'[Other(p)] = LastReadID[Other(p)]
      /\ ReceiverAt(p)'
      /\ \A id : HasReceived(p, id)' <=> HasReceived(p, id)
  BY GetPacketIs
<1>3. \A o \in Peers : \A id : HasReceived(o, id)' <=> HasReceived(o, id)
  <2>1. \A id : HasReceived(Other(p), id)' <=> HasReceived(Other(p), id)
    BY <1>1, <1>2 DEF HasReceived, Received
  <2> QED BY <1>2, <2>1, Numbers
<1>4. TypeOK'
  <2>1. \A o \in Peers : o = p \/ o = Other(p)
    BY Numbers
  <2> QED BY <1>1, <1>2, <2>1 DEF IInv, TypeOK
<1>5. SenderAt(p)' /\ NetAt(p)' /\ NetAt(Other(p))'
  BY <1>1, <1>3, Numbers DEF SenderAt, NetAt, IInv
<1>6. NumSendAck[p] <= NumSendAck'[p]
  BY <1>1, Marks
<1> QED BY <1>1, <1>2, <1>3, <1>4, <1>5, <1>6, StepOf

\* Service drops the entries ACKed and sends others: what stays is not ACKed.
LEMMA ServiceSendIs ==
  ASSUME IInv, NEW p \in Peers, NEW due \in SUBSET (1 .. Len(Unacked(p))),
         Service_Send_Queue(p, due),
         UNCHANGED << NumSendAck, NumSendNoAck >>,
         \A o \in Peers : \A id : HasReceived(o, id)' <=> HasReceived(o, id)
  PROVE  /\ sendQ' \in [Peers -> Seq(SendEntry)] /\ Len(sendQ'[p]) <= MaxSend
         /\ sendQ'[Other(p)] = sendQ[Other(p)]
         /\ net' \in [Peers -> SUBSET Packet]
         /\ SenderAt(p)' /\ NetAt(p)' /\ NetAt(Other(p))'
<1> DEFINE K == {i \in DOMAIN sendQ[p] : ~ sendQ[p][i].IsACK}
           q == Unacked(p)
           a == [i \in DOMAIN q |-> IF i \in due THEN AfterSend(q[i]) ELSE q[i]]
           new == {Header(q[i]) : i \in due}
<1>1. /\ sendQ[p] \in Seq(SendEntry) /\ Len(sendQ[p]) <= MaxSend /\ Len(sendQ[p]) \in Nat
      /\ Other(p) \in Peers /\ Other(p) # p /\ Other(Other(p)) = p
  BY Marks
<1>2. K \in SUBSET (1 .. Len(sendQ[p])) /\ q = Sweep(sendQ[p], K)
  BY <1>1 DEF Unacked
<1> HIDE DEF K, q
<1>3. q \in Seq(SendEntry) /\ Len(q) <= Len(sendQ[p])
  BY <1>1, <1>2, SweepKeeps
<1>4. PICK at \in [1 .. Len(q) -> K] :
         /\ \A m \in 1 .. Len(q) : q[m] = sendQ[p][at[m]]
         /\ \A i \in K : \E m \in 1 .. Len(q) : at[m] = i
  BY <1>1, <1>2, SweepKeeps
<1>5. DOMAIN q = 1 .. Len(q) /\ Len(q) \in Nat /\ due \in SUBSET DOMAIN q
  BY <1>3 DEF q
<1>6. \A i \in DOMAIN q : /\ q[i] \in SendEntry /\ ~ q[i].IsACK
                          /\ IsData(q[i]) => q[i].id < NumSendAck[p]
  <2>1. ASSUME NEW i \in DOMAIN q
        PROVE  /\ q[i] \in SendEntry /\ ~ q[i].IsACK
               /\ IsData(q[i]) => q[i].id < NumSendAck[p]
    <3>1. q[i] \in SendEntry
      BY <1>3, SendNumbers
    <3>2. at[i] \in DOMAIN sendQ[p] /\ q[i] = sendQ[p][at[i]] /\ ~ q[i].IsACK
      BY <1>4, <1>5 DEF K
    <3> QED BY <3>1, <3>2 DEF IInv, SenderAt
  <2> QED BY <2>1
<1>7. \A i \in DOMAIN sendQ[p] : ~ sendQ[p][i].IsACK => \E m \in DOMAIN q : q[m] = sendQ[p][i]
  BY <1>4, <1>5 DEF K
<1>8. /\ \A i \in DOMAIN q : a[i] \in SendEntry /\ a[i].code = q[i].code /\ a[i].id = q[i].id
      /\ \A i \in DOMAIN q : IsData(q[i]) => ~ a[i].IsACK
  BY <1>6 DEF AfterSend, SendEntry, IsData
<1>9. DOMAIN a = DOMAIN q
  OBVIOUS
<1> HIDE DEF a
<1>10. a \in Seq(SendEntry) /\ Len(a) = Len(q)
  <2>1. a = [i \in DOMAIN a |-> a[i]]
    BY DEF a
  <2>2. a \in [1 .. Len(q) -> SendEntry]
    BY <1>5, <1>8, <1>9, <2>1
  <2> QED BY <1>5, <2>2
<1>11. sendQ' = [sendQ EXCEPT ![p] = a] /\ net' = [net EXCEPT ![Other(p)] = @ \cup new]
  BY DEF Service_Send_Queue, a, q
<1>12. \A m \in new : /\ m \in Packet /\ m.code # "ACK"
                      /\ m.code = "DATA_ACK" => m.id < NumSendAck[p]
  <2>1. ASSUME NEW i \in due
        PROVE  /\ Header(q[i]) \in Packet /\ Header(q[i]).code # "ACK"
               /\ Header(q[i]).code = "DATA_ACK" => Header(q[i]).id < NumSendAck[p]
    BY <1>5, <1>6 DEF Header, Packet, SendEntry, DataCode, IsData
  <2> QED BY <2>1
<1> HIDE DEF new
<1>13. /\ sendQ' \in [Peers -> Seq(SendEntry)] /\ sendQ'[p] = a
       /\ sendQ'[Other(p)] = sendQ[Other(p)]
       /\ net' \in [Peers -> SUBSET Packet] /\ net'[p] = net[p]
       /\ net'[Other(p)] = net[Other(p)] \cup new
  BY <1>1, <1>10, <1>11, <1>12 DEF IInv, TypeOK
<1>14. Len(a) <= MaxSend
  BY <1>1, <1>3, <1>5, <1>10, SizesAssumption
<1>15. SenderAt(p)'
  <2>1. \A i \in DOMAIN a : IsData(a[i]) => a[i].id < NumSendAck[p] /\ ~ a[i].IsACK
    BY <1>6, <1>8, <1>9 DEF IsData
  <2>2. ASSUME NEW id \in 0 .. NumSendAck[p] - 1
        PROVE  \/ HasReceived(Other(p), id)
               \/ \E i \in DOMAIN a : IsData(a[i]) /\ a[i].id = id /\ ~ a[i].IsACK
    <3>1. CASE \E i \in DOMAIN sendQ[p] :
                 IsData(sendQ[p][i]) /\ sendQ[p][i].id = id /\ ~ sendQ[p][i].IsACK
      <4>1. PICK m \in DOMAIN q : IsData(q[m]) /\ q[m].id = id
        BY <1>7, <3>1
      <4> QED BY <1>8, <1>9, <4>1 DEF IsData
    <3> QED BY <3>1 DEF IInv, SenderAt
  <2> QED BY <1>1, <1>13, <2>1, <2>2 DEF SenderAt, IInv
<1>16. NetAt(p)' /\ NetAt(Other(p))'
  BY <1>1, <1>12, <1>13 DEF NetAt, IInv
<1> QED BY <1>13, <1>14, <1>15, <1>16

LEMMA ServiceReceiveIs ==
  ASSUME IInv, NEW p \in Peers, Service_Receive_Queue(p) \/ UNCHANGED recvQ,
         UNCHANGED << LastSeqID, LastReadID, NumSendAck >>
  PROVE  /\ recvQ' \in [Peers -> Seq(ReceiveEntry)] /\ Len(recvQ'[p]) <= MaxReceive
         /\ recvQ'[Other(p)] = recvQ[Other(p)]
         /\ ReceiverAt(p)'
         /\ \A o \in Peers : \A id : HasReceived(o, id)' <=> HasReceived(o, id)
<1> DEFINE q == recvQ[p]
           r == Received(p)
           K == {i \in DOMAIN q : ~ Done(p, i)}
           s == Sweep(q, K)
<1>1. /\ q \in Seq(ReceiveEntry) /\ Len(q) <= MaxReceive /\ Len(q) \in Nat
      /\ Got(p) \in Nat /\ r \in Nat
      /\ Other(p) \in Peers /\ Other(p) # p
      /\ Window(q, Got(p), r)
      /\ Got(p)' = Got(p) /\ r' = r
  BY Marks DEF IInv, ReceiverAt, Got, Received
<1>2. K \in SUBSET (1 .. Len(q)) /\ \A i \in DOMAIN q : i \notin K => (IsData(q[i]) => q[i].IsRead)
  BY <1>1 DEF Done
<1> HIDE DEF K
<1>3. /\ s \in Seq(ReceiveEntry) /\ Len(s) <= Len(q)
      /\ Window(s, Got(p), r)
      /\ \A id : Known(s, r, id) <=> Known(q, r, id)
  BY <1>1, <1>2, WindowSweep
<1>4. \A id \in Ids : Stored(s, id) => id < NumSendAck[Other(p)]
  <2> SUFFICES ASSUME NEW id \in Ids, Stored(s, id) PROVE id < NumSendAck[Other(p)]
    OBVIOUS
  <2>1. Known(q, r, id)
    BY <1>3 DEF Known
  <2>2. CASE Stored(q, id)
    BY <2>2 DEF IInv, ReceiverAt
  <2>3. CASE id < r
    <3>1. r <= NumSendAck[Other(p)] /\ id \in Nat /\ NumSendAck[Other(p)] \in Nat
      BY <1>1, Marks, Numbers DEF IInv, ReceiverAt, Ids
    <3> QED BY <1>1, <2>3, <3>1
  <2> QED BY <2>1, <2>2, <2>3 DEF Known
<1>5. recvQ' = [recvQ EXCEPT ![p] = s] \/ recvQ' = recvQ
  BY DEF Service_Receive_Queue, K
<1> HIDE DEF s
<1>6. /\ recvQ'[p] \in {q, s} /\ recvQ'[Other(p)] = recvQ[Other(p)]
      /\ recvQ' \in [Peers -> Seq(ReceiveEntry)]
  BY <1>1, <1>3, <1>5 DEF IInv, TypeOK
<1>7. Len(recvQ'[p]) <= MaxReceive
  <2>1. Len(s) \in Nat /\ MaxReceive \in Nat
    BY <1>3, SizesAssumption
  <2> QED BY <1>1, <1>3, <1>6, <2>1
<1>8. ReceiverAt(p)'
  BY <1>1, <1>3, <1>4, <1>6 DEF IInv, ReceiverAt
<1>9. \A id : HasReceived(p, id)' <=> HasReceived(p, id)
  <2>1. \A id : Known(recvQ'[p], r, id) <=> Known(q, r, id)
    BY <1>3, <1>6
  <2> QED BY <1>1, <2>1 DEF HasReceived, Known
<1>10. \A id : HasReceived(Other(p), id)' <=> HasReceived(Other(p), id)
  BY <1>6 DEF HasReceived, Received
<1> QED BY <1>6, <1>7, <1>8, <1>9, <1>10, Numbers

LEMMA ServiceInv ==
  ASSUME IInv, NEW p \in Peers, NEW due \in SUBSET (1 .. Len(Unacked(p))), Service(p, due)
  PROVE  IInv'
<1>1. /\ Service_Send_Queue(p, due)
      /\ Service_Receive_Queue(p) \/ UNCHANGED recvQ
      /\ UNCHANGED << NumSendAck, NumSendNoAck, LastSeqID, LastReadID >>
  BY DEF Service
<1>2. /\ recvQ' \in [Peers -> Seq(ReceiveEntry)] /\ Len(recvQ'[p]) <= MaxReceive
      /\ recvQ'[Other(p)] = recvQ[Other(p)]
      /\ ReceiverAt(p)'
      /\ \A o \in Peers : \A id : HasReceived(o, id)' <=> HasReceived(o, id)
  BY <1>1, ServiceReceiveIs
<1>3. /\ sendQ' \in [Peers -> Seq(SendEntry)] /\ Len(sendQ'[p]) <= MaxSend
      /\ sendQ'[Other(p)] = sendQ[Other(p)]
      /\ net' \in [Peers -> SUBSET Packet]
      /\ SenderAt(p)' /\ NetAt(p)' /\ NetAt(Other(p))'
  BY <1>1, <1>2, ServiceSendIs
<1>4. TypeOK'
  <2>1. \A o \in Peers : o = p \/ o = Other(p)
    BY Numbers
  <2> QED BY <1>1, <1>2, <1>3, <2>1 DEF IInv, TypeOK
<1>5. NumSendAck[p] <= NumSendAck'[p]
  BY <1>1, Marks
<1> QED BY <1>1, <1>2, <1>3, <1>4, <1>5, StepOf

LEMMA LoseInv ==
  ASSUME IInv, NEW p \in Peers, NEW m, Lose(p, m)
  PROVE  IInv'
<1>1. /\ UNCHANGED << sendQ, recvQ, NumSendAck, NumSendNoAck, LastSeqID, LastReadID >>
      /\ net' \in [Peers -> SUBSET Packet]
      /\ \A o \in Peers : net'[o] \in SUBSET net[o]
  BY DEF Lose, IInv, TypeOK
<1>2. \A o, id : HasReceived(o, id)' <=> HasReceived(o, id)
  BY <1>1 DEF HasReceived, Received
<1> QED BY <1>1, <1>2 DEF IInv, TypeOK, SenderAt, ReceiverAt, NetAt, Got, Received

LEMMA NextIInv == IInv /\ [Next]_vars => IInv'
<1> SUFFICES ASSUME IInv, [Next]_vars PROVE IInv'
  OBVIOUS
<1>1. CASE Next
  <2> PICK p \in Peers :
        \/ Send_Packet(p)
        \/ \E m \in net[p] : Receive_Packet(p, m) \/ Lose(p, m)
        \/ Get_Packet(p)
        \/ \E due \in SUBSET (1 .. Len(Unacked(p))) : Service(p, due)
    BY <1>1 DEF Next
  <2>1. CASE Send_Packet(p)
    BY <2>1, SendAckInv, SendNoAckInv DEF Send_Packet
  <2>2. ASSUME NEW m \in net[p], Receive_Packet(p, m) PROVE IInv'
    BY <2>2, ReceiveAckInv, ReceiveNoAckInv, ReceiveDataInv DEF Receive_Packet
  <2>3. ASSUME NEW m \in net[p], Lose(p, m) PROVE IInv'
    BY <2>3, LoseInv
  <2>4. CASE Get_Packet(p)
    BY <2>4, GetPacketInv
  <2>5. ASSUME NEW due \in SUBSET (1 .. Len(Unacked(p))), Service(p, due) PROVE IInv'
    BY <2>5, ServiceInv
  <2> QED BY <2>1, <2>2, <2>3, <2>4, <2>5
<1>2. CASE UNCHANGED vars
  BY <1>2 DEF vars, IInv, TypeOK, SenderAt, ReceiverAt, NetAt, Got, Received, HasReceived
<1> QED BY <1>1, <1>2

-----------------------------------------------------------------------------
(* The theorems. *)

LEMMA Invariant == Spec => []IInv
  BY InitIInv, NextIInv, PTL DEF Spec

(* The queues never hold more than their sizes, and every number fits.     *)
THEOREM TypesHold == Spec => []TypeOK
<1>1. IInv => TypeOK
  BY DEF IInv
<1> QED BY <1>1, Invariant, PTL

LEMMA WindowInv == IInv => ReceiveWindow
<1> SUFFICES ASSUME IInv, NEW p \in Peers
             PROVE  /\ Got(p) <= Received(p) /\ Received(p) <= NumSendAck[Other(p)]
                    /\ \A id \in Got(p) .. Received(p) - 1 : Stored(recvQ[p], id)
                    /\ ~ Stored(recvQ[p], Received(p))
                    /\ \A i, j \in DOMAIN recvQ[p] :
                         Holds(p, j, recvQ[p][i].id) /\ recvQ[p][i].code = "DATA_ACK" => i = j
                    /\ \A i \in DOMAIN recvQ[p] :
                         recvQ[p][i].code = "DATA_ACK" =>
                           (recvQ[p][i].IsRead <=> recvQ[p][i].id < Got(p))
  BY DEF ReceiveWindow
<1>1. ReceiverAt(p)
  BY DEF IInv
<1> QED BY <1>1 DEF ReceiverAt, Window, Holds, IsData

(* Whatever arrives, and in whatever order, the packets between the two    *)
(* marks of the receive queue are stored once and unread, the packet at    *)
(* LastSeqID + 1 is missing, and nothing is read twice.                    *)
THEOREM WindowHolds == Spec => []ReceiveWindow
  BY Invariant, WindowInv, PTL

LEMMA AckInv == IInv => AckMeansReceived
<1> SUFFICES ASSUME IInv, NEW p \in Peers
             PROVE  /\ \A m \in net[p] : m.code = "ACK" => HasReceived(Other(p), m.id)
                    /\ \A i \in DOMAIN sendQ[p] :
                         sendQ[p][i].code = "DATA_ACK" /\ sendQ[p][i].IsACK
                           => HasReceived(Other(p), sendQ[p][i].id)
  BY DEF AckMeansReceived
<1> QED BY DEF IInv, NetAt, SenderAt, IsData

(* No packet that was refused is ever ACKed: the sender stops resending    *)
(* only what its partner has.                                              *)
THEOREM AcksAreTrue == Spec => []AckMeansReceived
  BY Invariant, AckInv, PTL

LEMMA LostInv == IInv => NothingLost
<1> SUFFICES ASSUME IInv, NEW p \in Peers, NEW id \in 0 .. NumSendAck[p] - 1
             PROVE  \/ id < Got(Other(p))
                    \/ \E i \in DOMAIN recvQ[Other(p)] :
                         Holds(Other(p), i, id) /\ ~ recvQ[Other(p)][i].IsRead
                    \/ \E i \in DOMAIN sendQ[p] :
                         sendQ[p][i].code = "DATA_ACK" /\ sendQ[p][i].id = id
                           /\ ~ sendQ[p][i].IsACK
  BY DEF NothingLost
<1> DEFINE o == Other(p)
<1>1. /\ o \in Peers /\ Got(o) \in Nat /\ Received(o) \in Nat /\ NumSendAck[p] \in Nat
      /\ Window(recvQ[o], Got(o), Received(o))
  BY Marks DEF IInv, ReceiverAt
<1>2. CASE \E i \in DOMAIN sendQ[p] :
             IsData(sendQ[p][i]) /\ sendQ[p][i].id = id /\ ~ sendQ[p][i].IsACK
  BY <1>2 DEF IsData
<1>3. CASE HasReceived(o, id) /\ ~ (id < Got(o))
  <2> HIDE DEF o
  <2>1. Stored(recvQ[o], id)
    BY <1>1, <1>3 DEF HasReceived, Window
  <2>2. PICK i \in DOMAIN recvQ[o] : IsData(recvQ[o][i]) /\ recvQ[o][i].id = id
    BY <2>1 DEF Stored, IsData
  <2>3. ~ recvQ[o][i].IsRead
    BY <1>1, <1>3, <2>2 DEF Window
  <2> QED BY <2>2, <2>3 DEF Holds, IsData, o
<1>4. \/ HasReceived(o, id)
      \/ \E i \in DOMAIN sendQ[p] :
           IsData(sendQ[p][i]) /\ sendQ[p][i].id = id /\ ~ sendQ[p][i].IsACK
  BY DEF IInv, SenderAt
<1> QED BY <1>2, <1>3, <1>4

(* A packet the partner has not read is still to be resent or waits unread *)
(* in its queue, whatever the network does.                                *)
THEOREM NoPacketLost == Spec => []NothingLost
  BY Invariant, LostInv, PTL

-----------------------------------------------------------------------------
(* The refinement: NumSendAck counts what was sent, Got what was read.     *)

LEMMA OtherIs == \A p \in Peers : Channel!Other(p) = Other(p)
  BY Numbers DEF Channel!Other

LEMMA InitIsChannelInit == Init => Channel!Init
  BY SuccIs, Numbers DEF Init, Channel!Init, Got

LEMMA StepIsChannelStep ==
  ASSUME IInv, [Next]_vars
  PROVE  [Channel!Next]_(Channel!vars)
<1> DEFINE got == [p \in Peers |-> Got(p)]
<1>1. ASSUME UNCHANGED << NumSendAck, LastReadID >>
      PROVE  UNCHANGED Channel!vars
  <2>1. \A p \in Peers : Got(p)' = Got(p)
    BY <1>1 DEF Got
  <2> QED BY <1>1, <2>1 DEF Channel!vars
<1>2. ASSUME NEW p \in Peers, SendAckPacket(p) PROVE Channel!Send(p)
  <2>1. UNCHANGED LastReadID /\ NumSendAck' = [NumSendAck EXCEPT ![p] = Succ(@)]
    BY <1>2 DEF SendAckPacket
  <2>2. Succ(NumSendAck[p]) = NumSendAck[p] + 1
    <3>1. NumSendAck[p] < MaxData[p] /\ MaxData[p] \in Nat /\ MaxData[p] <= IdMod - 1
      BY <1>2, Numbers DEF SendAckPacket, Ids
    <3>2. NumSendAck[p] # None /\ NumSendAck[p] \in Ids
      BY <3>1, Marks, Numbers DEF None
    <3> QED BY <3>2, SuccIs
  <2>3. \A o \in Peers : Got(o)' = Got(o)
    BY <2>1 DEF Got
  <2>4. got' = got
    BY <2>3
  <2>5. NumSendAck' = [NumSendAck EXCEPT ![p] = @ + 1]
    BY <2>1, <2>2 DEF IInv, TypeOK
  <2> QED BY <2>4, <2>5 DEF Channel!Send
<1>3. ASSUME NEW p \in Peers, Get_Packet(p)
      PROVE  Channel!Read(p) \/ UNCHANGED Channel!vars
  <2>1. /\ LastReadID'[Other(p)] = LastReadID[Other(p)]
        /\ Got(p)' = Got(p) \/ (Got(p)' = Got(p) + 1 /\ Got(p) < Received(p))
    BY <1>3, GetPacketIs
  <2>2. UNCHANGED NumSendAck
    BY <1>3 DEF Get_Packet
  <2>3. Got(Other(p))' = Got(Other(p)) /\ \A o \in Peers : o = p \/ o = Other(p)
    BY <2>1, Numbers DEF Got
  <2>4. CASE Got(p)' = Got(p)
    <3>1. \A o \in Peers : Got(o)' = Got(o)
      BY <2>3, <2>4
    <3> QED BY <2>2, <3>1 DEF Channel!vars
  <2>5. CASE Got(p)' = Got(p) + 1 /\ Got(p) < Received(p)
    <3>1. Got(p) < NumSendAck[Other(p)]
      <4>1. Received(p) <= NumSendAck[Other(p)]
        BY DEF IInv, ReceiverAt
      <4> QED BY <2>5, <4>1, Marks
    <3>2. \A o \in Peers : Got(o)' = IF o = p THEN Got(o) + 1 ELSE Got(o)
      BY <2>3, <2>5
    <3>3. got' = [got EXCEPT ![p] = @ + 1] /\ got[p] < NumSendAck[Other(p)]
      BY <3>1, <3>2
    <3> QED BY <2>2, <3>3, OtherIs DEF Channel!Read
  <2> QED BY <2>1, <2>4, <2>5
<1>4. CASE \E p \in Peers : SendAckPacket(p)
  BY <1>2, <1>4 DEF Channel!Next
<1>5. CASE \E p \in Peers : Get_Packet(p)
  BY <1>3, <1>5 DEF Channel!Next
<1>6. CASE UNCHANGED << NumSendAck, LastReadID >>
  BY <1>1, <1>6
<1>7. \/ \E p \in Peers : SendAckPacket(p) \/ Get_Packet(p)
      \/ UNCHANGED << NumSendAck, LastReadID >>
  <2>1. ASSUME NEW p \in Peers, SendNoAckPacket(p)
        PROVE  UNCHANGED << NumSendAck, LastReadID >>
    BY <2>1 DEF SendNoAckPacket
  <2>2. ASSUME NEW p \in Peers, NEW m, Receive_Packet(p, m)
        PROVE  UNCHANGED << NumSendAck, LastReadID >>
    <3>1. ASSUME NEW copy \in BOOLEAN, ReceiveAck(p, m, copy)
          PROVE  UNCHANGED << NumSendAck, LastReadID >>
      BY <3>1 DEF ReceiveAck
    <3>2. ASSUME NEW copy \in BOOLEAN, ReceiveNoAck(p, m, copy)
          PROVE  UNCHANGED << NumSendAck, LastReadID >>
      BY <3>2 DEF ReceiveNoAck
    <3>3. ASSUME NEW copy \in BOOLEAN, ReceiveData(p, m, copy)
          PROVE  UNCHANGED << NumSendAck, LastReadID >>
      BY <3>3 DEF ReceiveData
    <3> QED BY <2>2, <3>1, <3>2, <3>3 DEF Receive_Packet
  <2>3. ASSUME NEW p \in Peers, NEW m, Lose(p, m)
        PROVE  UNCHANGED << NumSendAck, LastReadID >>
    BY <2>3 DEF Lose
  <2>4. ASSUME NEW p \in Peers, NEW due, Service(p, due)
        PROVE  UNCHANGED << NumSendAck, LastReadID >>
    BY <2>4 DEF Service
  <2>5. CASE UNCHANGED vars
    BY <2>5 DEF vars
  <2>6. CASE Next
    BY <2>1, <2>2, <2>3, <2>4, <2>6 DEF Next, Send_Packet
  <2> QED BY <2>5, <2>6
<1> QED BY <1>4, <1>5, <1>6, <1>7

(* "This class guarantees delivery and order of delivery": each peer reads *)
(* the packets its partner sent with ack_req, each once and in order.      *)
THEOREM ConnectionIsReliable == Spec => ImplementsChannel
<1>1. Spec => []IInv
  BY Invariant
<1> QED BY <1>1, InitIsChannelInit, StepIsChannelStep, PTL
        DEF Spec, ImplementsChannel, Channel!Spec
=============================================================================

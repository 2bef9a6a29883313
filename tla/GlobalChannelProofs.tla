-------------------------- MODULE GlobalChannelProofs --------------------------
(***************************************************************************)
(* What TLAPS proves of GlobalChannel, for any number of machines, sizes   *)
(* of the queues and packets remembered.                                   *)
(***************************************************************************)
EXTENDS GlobalChannel, SweepProofs

IsData(x) == x.code = "DATA_ACK"

LEMMA Numbers ==
  /\ MaxSend \in Nat \ {0} /\ MaxReceive \in Nat \ {0} /\ Remembered \in Nat \ {0}
  /\ Everyone \notin Nodes
  /\ \A n \in Nodes : MaxSent[n] \in Nat /\ MaxLives[n] \in Nat
  /\ \A f \in Nodes, id \in Nat : id < MaxSent[f] => << f, id >> \in Keys
  /\ Nobody \notin Keys
<1>1. \A n \in Nodes : MaxSent[n] \in Nat /\ MaxLives[n] \in Nat
  BY GlobalAssumption
<1>2. ASSUME NEW f \in Nodes, NEW id \in Nat, id < MaxSent[f] PROVE << f, id >> \in Keys
  <2>1. id \in Ids(f)
    BY <1>1, <1>2 DEF Ids
  <2>2. << f, id >> \in {f} \X Ids(f)
    BY <2>1
  <2> QED BY <2>2 DEF Keys
<1>3. ASSUME Nobody \in Keys PROVE FALSE
  <2>1. PICK n \in Nodes : Nobody \in {n} \X Ids(n)
    BY <1>3 DEF Keys
  <2>2. "nobody" = n
    BY <2>1 DEF Nobody
  <2> QED BY <2>2, GlobalAssumption
<1> QED BY <1>1, <1>2, <1>3, GlobalAssumption DEF Everyone

-----------------------------------------------------------------------------
(* The ring of remembered packets.  The slot LastRXIndex is about to be    *)
(* overwritten; going back from it, each slot holds the packet stored one  *)
(* before.                                                                 *)

\* How many packets were stored after the one in slot i.
Age(x, i) == IF i < x THEN x - 1 - i ELSE x - 1 - i + Remembered

Ring(last, x, s) ==
  /\ \A i \in 0 .. Remembered - 1 : last[i] # Nobody => s[last[i]] = Age(x, i)
  /\ \A k \in Keys : s[k] < Remembered => \E i \in 0 .. Remembered - 1 : last[i] = k

LEMMA NextSlot ==
  ASSUME NEW x \in 0 .. Remembered - 1
  PROVE  /\ (x + 1) % Remembered \in 0 .. Remembered - 1
         /\ Age((x + 1) % Remembered, x) = 0
         /\ \A i \in 0 .. Remembered - 1 :
              /\ Age(x, i) \in 0 .. Remembered - 1
              /\ i # x => Age(x, i) < Remembered - 1
                          /\ Age((x + 1) % Remembered, i) = Age(x, i) + 1
<1>1. Remembered \in Nat \ {0}
  BY Numbers
<1>2. CASE x + 1 < Remembered
  <2>1. (x + 1) % Remembered = x + 1
    BY <1>1, <1>2
  <2> QED BY <1>1, <1>2, <2>1 DEF Age
<1>3. CASE x + 1 = Remembered
  <2>1. (x + 1) % Remembered = 0
    BY <1>1, <1>3
  <2> QED BY <1>1, <1>3, <2>1 DEF Age
<1> QED BY <1>1, <1>2, <1>3

\* What Remember does to the ring, to its index and to the ages.
Kept(last, x, k0) == [last EXCEPT ![x] = k0]
Following(x) == (x + 1) % Remembered
Aged(s, k0) == [k \in Keys |-> IF k = k0 THEN 0
                                ELSE IF s[k] < Remembered THEN s[k] + 1 ELSE s[k]]

LEMMA RingRemembers ==
  ASSUME NEW last \in [0 .. Remembered - 1 -> Keys \cup {Nobody}],
         NEW x \in 0 .. Remembered - 1, NEW s \in [Keys -> 0 .. Remembered],
         NEW k0 \in Keys, \A i \in 0 .. Remembered - 1 : last[i] # k0,
         Ring(last, x, s)
  PROVE  Ring(Kept(last, x, k0), Following(x), Aged(s, k0))
<1> DEFINE y == Following(x)
           l == Kept(last, x, k0)
           t == Aged(s, k0)
<1>1. Remembered \in Nat \ {0} /\ Nobody \notin Keys
  BY Numbers
<1>2. /\ y \in 0 .. Remembered - 1 /\ Age(y, x) = 0
      /\ \A i \in 0 .. Remembered - 1 :
           /\ Age(x, i) \in 0 .. Remembered - 1
           /\ i # x => Age(x, i) < Remembered - 1 /\ Age(y, i) = Age(x, i) + 1
  BY NextSlot DEF Following
<1> HIDE DEF y
<1>3. \A i \in 0 .. Remembered - 1 : l[i] = IF i = x THEN k0 ELSE last[i]
  BY DEF Kept
<1>4. /\ t[k0] = 0
      /\ \A k \in Keys : k # k0 => t[k] = IF s[k] < Remembered THEN s[k] + 1 ELSE s[k]
  BY DEF Aged
<1> HIDE DEF l, t
<1>5. ASSUME NEW i \in 0 .. Remembered - 1, l[i] # Nobody PROVE t[l[i]] = Age(y, i)
  <2>1. CASE i = x
    BY <1>2, <1>3, <1>4, <2>1
  <2>2. CASE i # x
    <3>1. last[i] \in Keys /\ last[i] # k0 /\ l[i] = last[i]
      BY <1>3, <1>5, <2>2
    <3>2. s[last[i]] = Age(x, i)
      BY <1>1, <3>1 DEF Ring
    <3>3. Age(x, i) \in 0 .. Remembered - 1
      BY <1>2
    <3>4. t[last[i]] = Age(x, i) + 1
      BY <1>1, <1>4, <3>1, <3>2, <3>3
    <3> QED BY <1>2, <2>2, <3>1, <3>4
  <2> QED BY <2>1, <2>2
<1>6. ASSUME NEW k \in Keys, t[k] < Remembered
      PROVE  \E i \in 0 .. Remembered - 1 : l[i] = k
  <2>1. CASE k = k0
    BY <1>3, <2>1
  <2>2. CASE k # k0
    <3>1. s[k] \in 0 .. Remembered /\ s[k] < Remembered - 1
      BY <1>1, <1>4, <1>6, <2>2
    <3>2. PICK i \in 0 .. Remembered - 1 : last[i] = k
      BY <1>1, <3>1 DEF Ring
    <3>3. s[k] = Age(x, i)
      BY <1>1, <3>2 DEF Ring
    <3>4. Age(x, x) = Remembered - 1
      BY <1>1 DEF Age
    <3>5. i # x
      BY <1>1, <3>1, <3>3, <3>4
    <3> QED BY <1>3, <3>2, <3>5
  <2> QED BY <2>1, <2>2
<1>7. Ring(l, y, t)
  BY <1>5, <1>6 DEF Ring
<1> QED BY <1>7 DEF l, y, t

-----------------------------------------------------------------------------
(* The inductive invariant: types, the bounds of numbers and lives, and    *)
(* the ring of every machine.                                              *)

NetAt(t) ==
  \A m \in net[t] :
    /\ m.from # t
    /\ m.code # "ACK" => m.id < MaxSent[m.from] /\ m.life <= MaxLives[m.from]
    /\ m.code = "ACK" => m.id < MaxSent[t] /\ m.life <= MaxLives[t]
    /\ m.life > 0

Bounds ==
  /\ \A n \in Nodes : /\ Send_Total[n] <= MaxSent[n]
                      /\ life[n] \in 1 .. MaxLives[n]
                      /\ NetAt(n)

Rings == \A n \in Nodes : Ring(Last[n], LastRXIndex[n], since[n])

IInv == TypeOK /\ Bounds /\ Rings

LEMMA InitIInv == Init => IInv
<1> SUFFICES ASSUME Init PROVE IInv
  OBVIOUS
<1>1. TypeOK
  <2>1. << >> \in Seq(SendEntry) /\ << >> \in Seq(ReceiveEntry) /\ Len(<< >>) = 0
        /\ DOMAIN << >> = {}
    OBVIOUS
  <2> QED BY <2>1, Numbers DEF Init, TypeOK
<1>2. Bounds
  <2>1. \A n \in Nodes : MaxLives[n] \in Nat \ {0}
    BY GlobalAssumption
  <2> QED BY <2>1, Numbers DEF Init, Bounds, NetAt
<1>3. Rings
  BY Numbers DEF Init, Rings, Ring
<1> QED BY <1>1, <1>2, <1>3 DEF IInv

\* What every step may rely on of machine n.
LEMMA Machine ==
  ASSUME IInv, NEW n \in Nodes
  PROVE  /\ sendQ[n] \in Seq(SendEntry) /\ Len(sendQ[n]) \in Nat
         /\ DOMAIN sendQ[n] = 1 .. Len(sendQ[n])
         /\ \A i \in DOMAIN sendQ[n] : sendQ[n][i] \in SendEntry
         /\ recvQ[n] \in Seq(ReceiveEntry) /\ Len(recvQ[n]) \in Nat
         /\ DOMAIN recvQ[n] = 1 .. Len(recvQ[n])
         /\ \A i \in DOMAIN recvQ[n] : recvQ[n][i] \in ReceiveEntry
         /\ Send_Total[n] \in Nat /\ life[n] \in Nat
         /\ \A m \in net[n] : m \in Packets /\ m.from \in Nodes /\ m.id \in Nat
<1>1. sendQ[n] \in Seq(SendEntry) /\ recvQ[n] \in Seq(ReceiveEntry)
      /\ Send_Total[n] \in Nat /\ life[n] \in Nat /\ net[n] \in SUBSET Packets
  BY DEF IInv, TypeOK
<1>2. \A m \in net[n] : m \in Packets /\ m.from \in Nodes /\ m.id \in Nat
  BY <1>1 DEF Packets
<1> QED BY <1>1, <1>2

LEMMA SendPacketInv ==
  ASSUME IInv, NEW n \in Nodes, NEW to \in (Nodes \ {n}) \cup {Everyone},
         NEW ack_req \in BOOLEAN, Send_Packet(n, to, ack_req)
  PROVE  IInv'
<1> DEFINE e == [code |-> IF ack_req /\ to # Everyone THEN "DATA_ACK" ELSE "DATA_NOACK",
                 id |-> Send_Total[n], to |-> to, sent |-> FALSE, IsACK |-> FALSE]
           q == Append(sendQ[n], e)
<1>1. e \in SendEntry /\ e.id = Send_Total[n] /\ e.to = to /\ to # n
      /\ (to = Everyone => e.code = "DATA_NOACK")
  BY Machine, Numbers DEF SendEntry, DataCodes
<1>2. /\ sendQ' = [sendQ EXCEPT ![n] = q] /\ Send_Total' = [Send_Total EXCEPT ![n] = @ + 1]
      /\ Len(sendQ[n]) < MaxSend /\ Send_Total[n] < MaxSent[n]
      /\ UNCHANGED << recvQ, Last, LastRXIndex, stored, since, net, life >>
  BY DEF Send_Packet, receiver
<1> HIDE DEF e
<1>3. /\ q \in Seq(SendEntry) /\ Len(q) = Len(sendQ[n]) + 1
      /\ DOMAIN q = 1 .. Len(sendQ[n]) + 1
      /\ \A i \in 1 .. Len(sendQ[n]) : q[i] = sendQ[n][i]
      /\ q[Len(sendQ[n]) + 1] = e
  BY <1>1, AppendEntry, Machine
<1> HIDE DEF q
<1>4. Len(q) <= MaxSend
  BY <1>2, <1>3, Numbers, Machine
<1>5. /\ sendQ' \in [Nodes -> Seq(SendEntry)] /\ Send_Total' \in [Nodes -> Nat]
      /\ sendQ'[n] = q /\ Send_Total'[n] = Send_Total[n] + 1
      /\ \A o \in Nodes : o # n => sendQ'[o] = sendQ[o] /\ Send_Total'[o] = Send_Total[o]
  BY <1>2, <1>3, Machine DEF IInv, TypeOK
<1>6. \A i \in DOMAIN q : /\ q[i].id < Send_Total[n] + 1 /\ q[i].to # n
                          /\ q[i].to = Everyone => q[i].code = "DATA_NOACK"
  <2>1. ASSUME NEW i \in 1 .. Len(sendQ[n])
        PROVE  /\ q[i].id < Send_Total[n] + 1 /\ q[i].to # n
               /\ q[i].to = Everyone => q[i].code = "DATA_NOACK"
    <3> i \in DOMAIN sendQ[n] /\ sendQ[n][i] \in SendEntry
      BY Machine
    <3>1. sendQ[n][i].id \in Nat /\ sendQ[n][i].id < Send_Total[n] /\ q[i] = sendQ[n][i]
      <4>1. sendQ[n][i].id \in Nat
        BY DEF SendEntry
      <4>2. sendQ[n][i].id < Send_Total[n]
        BY DEF IInv, TypeOK
      <4> QED BY <1>3, <4>1, <4>2
    <3>2. Send_Total[n] \in Nat
      BY Machine
    <3>3. q[i].id < Send_Total[n] + 1
      BY <3>1, <3>2, SMTT(30)
    <3> QED BY <3>1, <3>3, Machine DEF IInv, TypeOK
  <2>2. Send_Total[n] \in Nat /\ Len(sendQ[n]) \in Nat
    BY Machine
  <2>3. \A i \in 1 .. Len(sendQ[n]) + 1 : i \in 1 .. Len(sendQ[n]) \/ i = Len(sendQ[n]) + 1
    BY <2>2
  <2> QED BY <1>1, <1>3, <2>1, <2>2, <2>3
<1>7. TypeOK'
  BY <1>2, <1>4, <1>5, <1>6 DEF IInv, TypeOK
<1>8. Bounds'
  <2>1. Send_Total[n] + 1 <= MaxSent[n]
    BY <1>2, Machine, Numbers
  <2> QED BY <1>2, <1>5, <2>1 DEF IInv, Bounds, NetAt
<1>9. Rings'
  BY <1>2 DEF IInv, Rings
<1> QED BY <1>7, <1>8, <1>9 DEF IInv

-----------------------------------------------------------------------------
(* Receive_Packet *)

\* What arrives leaves net as it is, but for an ACK on its way back.
LEMMA ArriveIs ==
  ASSUME IInv, NEW n \in Nodes, NEW m \in net[n], NEW ack, Arrive(n, m, ack),
         \/ ack = {}
         \/ ack = Ack(n, m) /\ IsData(m)
  PROVE  /\ net' \in [Nodes -> SUBSET Packets]
         /\ \A t \in Nodes : \A x \in net'[t] :
              x \in net[t] \/ (t = m.from /\ x = Packet("ACK", m.id, n, m.life) /\ x \in ack)
         /\ UNCHANGED life => \A t \in Nodes : NetAt(t)'
<1> DEFINE a == Packet("ACK", m.id, n, m.life)
<1>1. m \in Packets /\ m.from \in Nodes /\ m.id \in Nat /\ m.life \in Nat
  BY Machine DEF Packets
<1>2. a \in Packets /\ a.code = "ACK" /\ a.from = n /\ a.id = m.id /\ a.life = m.life
  BY <1>1 DEF Packet, Packets
<1>3. ack \in SUBSET {a}
  BY DEF Ack
<1>4. net' = [net EXCEPT ![m.from] = @ \cup ack]
  BY DEF Arrive
<1>5. net' \in [Nodes -> SUBSET Packets]
  BY <1>1, <1>2, <1>3, <1>4 DEF IInv, TypeOK
<1>6. \A t \in Nodes : \A x \in net'[t] : x \in net[t] \/ (t = m.from /\ x = a /\ x \in ack)
  BY <1>3, <1>4 DEF IInv, TypeOK
<1>7. /\ m.from # n /\ m.life > 0
      /\ ack # {} => m.id < MaxSent[m.from] /\ m.life <= MaxLives[m.from]
  BY DEF IInv, Bounds, NetAt, IsData
<1> HIDE DEF a
<1>8. \A t \in Nodes : NetAt(t)'
  <2> SUFFICES ASSUME NEW t \in Nodes, NEW x \in net'[t]
               PROVE  /\ x.from # t
                      /\ x.code # "ACK" => x.id < MaxSent[x.from] /\ x.life <= MaxLives[x.from]
                      /\ x.code = "ACK" => x.id < MaxSent[t] /\ x.life <= MaxLives[t]
                      /\ x.life > 0
    BY DEF NetAt
  <2>1. CASE x \in net[t]
    BY <2>1 DEF IInv, Bounds, NetAt
  <2>2. CASE t = m.from /\ x = a /\ x \in ack
    BY <1>2, <1>7, <2>2
  <2> QED BY <1>6, <2>1, <2>2
<1> QED BY <1>5, <1>6, <1>8 DEF a

LEMMA StoreEntryIs ==
  ASSUME IInv, NEW n \in Nodes, NEW m \in net[n], m.code \in DataCodes,
         HasRoom(n), StoreEntry(n, m)
  PROVE  /\ recvQ' \in [Nodes -> Seq(ReceiveEntry)]
         /\ \A o \in Nodes : Len(recvQ'[o]) <= MaxReceive
<1> DEFINE e == [code |-> m.code, id |-> m.id, from |-> m.from, IsRead |-> FALSE]
           q == Append(recvQ[n], e)
<1>1. e \in ReceiveEntry
  BY Machine DEF ReceiveEntry
<1>2. recvQ' = [recvQ EXCEPT ![n] = q]
  BY DEF StoreEntry
<1> HIDE DEF e
<1>3. q \in Seq(ReceiveEntry) /\ Len(q) = Len(recvQ[n]) + 1
  BY <1>1, AppendEntry, Machine
<1> HIDE DEF q
<1>4. Len(q) <= MaxReceive
  BY <1>3, Machine, Numbers DEF HasRoom
<1> QED BY <1>2, <1>3, <1>4 DEF IInv, TypeOK

LEMMA RememberIs ==
  ASSUME IInv, NEW n \in Nodes, NEW m \in net[n], IsData(m), ~ Resend(n, m),
         Remember(n, m), Log(n, m)
  PROVE  /\ Last' \in [Nodes -> [0 .. Remembered - 1 -> Keys \cup {Nobody}]]
         /\ LastRXIndex' \in [Nodes -> 0 .. Remembered - 1]
         /\ stored' \in [Nodes -> SUBSET (Nodes \X Nat \X Nat)]
         /\ since' \in [Nodes -> [Keys -> 0 .. Remembered]]
         /\ Rings'
<1> DEFINE k0 == << m.from, m.id >>
           L == Last[n]
           x == LastRXIndex[n]
           s == since[n]
           l == [L EXCEPT ![x] = k0]
           y == (x + 1) % Remembered
           t == [k \in Keys |-> IF k = k0 THEN 0
                                ELSE IF s[k] < Remembered THEN s[k] + 1 ELSE s[k]]
<1>1. /\ L \in [0 .. Remembered - 1 -> Keys \cup {Nobody}] /\ x \in 0 .. Remembered - 1
      /\ s \in [Keys -> 0 .. Remembered] /\ Ring(L, x, s)
  BY DEF IInv, TypeOK, Rings
<1>2. m.from \in Nodes /\ m.id \in Nat /\ m.life \in Nat /\ k0 \in Keys
  <2>1. m.from \in Nodes /\ m.id \in Nat /\ m.life \in Nat
    BY Machine DEF Packets
  <2>2. m.id < MaxSent[m.from]
    BY DEF IInv, Bounds, NetAt, IsData
  <2> QED BY <2>1, <2>2, Numbers
<1>3. \A i \in 0 .. Remembered - 1 : L[i] # k0
  BY <1>1 DEF Resend
<1>4. /\ Last' = [Last EXCEPT ![n] = l] /\ LastRXIndex' = [LastRXIndex EXCEPT ![n] = y]
      /\ stored' = [stored EXCEPT ![n] = @ \cup {<< m.from, m.life, m.id >>}]
      /\ since' = [since EXCEPT ![n] = t]
  BY DEF Remember, Log
<1> HIDE DEF k0, L, x, s
<1>5. Ring(l, y, t)
  <2>1. Ring(Kept(L, x, k0), Following(x), Aged(s, k0))
    BY <1>1, <1>2, <1>3, RingRemembers
  <2> QED BY <2>1 DEF Kept, Following, Aged
<1>6. y \in 0 .. Remembered - 1
  BY <1>1, NextSlot
<1>7. l \in [0 .. Remembered - 1 -> Keys \cup {Nobody}]
  BY <1>1, <1>2
<1>8. t \in [Keys -> 0 .. Remembered]
  <2>1. \A k \in Keys : s[k] \in 0 .. Remembered
    BY <1>1
  <2>2. \A v \in 0 .. Remembered : v < Remembered => v + 1 \in 0 .. Remembered
    BY Numbers
  <2>3. 0 \in 0 .. Remembered
    BY Numbers
  <2> QED BY <2>1, <2>2, <2>3
<1> HIDE DEF l, y, t
<1>9. Last' \in [Nodes -> [0 .. Remembered - 1 -> Keys \cup {Nobody}]]
  BY <1>4, <1>7 DEF IInv, TypeOK
<1>10. LastRXIndex' \in [Nodes -> 0 .. Remembered - 1]
  BY <1>4, <1>6 DEF IInv, TypeOK
<1>11. since' \in [Nodes -> [Keys -> 0 .. Remembered]]
  BY <1>4, <1>8 DEF IInv, TypeOK
<1>12. stored' \in [Nodes -> SUBSET (Nodes \X Nat \X Nat)]
  <2>1. << m.from, m.life, m.id >> \in Nodes \X Nat \X Nat
    BY <1>2
  <2>2. stored \in [Nodes -> SUBSET (Nodes \X Nat \X Nat)]
    BY DEF IInv, TypeOK
  <2> QED BY <1>4, <2>1, <2>2
<1>13. Rings'
  BY <1>4, <1>5 DEF IInv, TypeOK, Rings
<1> QED BY <1>9, <1>10, <1>11, <1>12, <1>13

LEMMA ReceiveDataInv ==
  ASSUME IInv, NEW n \in Nodes, NEW m \in net[n], ReceiveData(n, m)
  PROVE  IInv'
<1>1. IsData(m) /\ UNCHANGED << sendQ, Send_Total, life >>
  BY DEF ReceiveData, IsData, sender
<1>2. /\ net' \in [Nodes -> SUBSET Packets]
      /\ \A t \in Nodes : NetAt(t)'
  BY <1>1, ArriveIs DEF ReceiveData
<1>3. CASE UNCHANGED receiver
  BY <1>1, <1>2, <1>3 DEF receiver, IInv, TypeOK, Bounds, Rings
<1>4. CASE ~ Resend(n, m) /\ HasRoom(n) /\ StoreEntry(n, m) /\ Remember(n, m) /\ Log(n, m)
  <2>1. /\ recvQ' \in [Nodes -> Seq(ReceiveEntry)]
        /\ \A o \in Nodes : Len(recvQ'[o]) <= MaxReceive
    BY <1>1, <1>4, StoreEntryIs DEF IsData, DataCodes
  <2>2. TypeOK' /\ Rings'
    BY <1>1, <1>2, <1>4, <2>1, RememberIs DEF IInv, TypeOK
  <2>3. Bounds'
    BY <1>1, <1>2 DEF IInv, Bounds
  <2> QED BY <2>2, <2>3 DEF IInv
<1> QED BY <1>3, <1>4 DEF ReceiveData

LEMMA ReceiveNoAckInv ==
  ASSUME IInv, NEW n \in Nodes, NEW m \in net[n], ReceiveNoAck(n, m)
  PROVE  IInv'
<1>1. /\ m.code = "DATA_NOACK" /\ Arrive(n, m, {})
      /\ UNCHANGED << sendQ, Send_Total, Last, LastRXIndex, stored, since, life >>
  BY DEF ReceiveNoAck, sender
<1>2. /\ net' \in [Nodes -> SUBSET Packets] /\ \A t \in Nodes : NetAt(t)'
  BY <1>1, ArriveIs
<1>3. /\ recvQ' \in [Nodes -> Seq(ReceiveEntry)]
      /\ \A o \in Nodes : Len(recvQ'[o]) <= MaxReceive
  <2>1. CASE HasRoom(n)
    BY <1>1, <2>1, StoreEntryIs DEF ReceiveNoAck, DataCodes
  <2>2. CASE ~ HasRoom(n)
    BY <2>2 DEF ReceiveNoAck, IInv, TypeOK
  <2> QED BY <2>1, <2>2
<1> QED BY <1>1, <1>2, <1>3 DEF IInv, TypeOK, Bounds, Rings

\* The send queue of n, but for the flags of its entries.
LEMMA ReceiveAckIs ==
  ASSUME IInv, NEW n \in Nodes, NEW m \in net[n], ReceiveAck(n, m)
  PROVE  /\ sendQ' \in [Nodes -> Seq(SendEntry)]
         /\ DOMAIN sendQ'[n] = DOMAIN sendQ[n] /\ Len(sendQ'[n]) = Len(sendQ[n])
         /\ \A o \in Nodes : o # n => sendQ'[o] = sendQ[o]
         /\ \A i \in DOMAIN sendQ[n] :
              /\ sendQ'[n][i].code = sendQ[n][i].code /\ sendQ'[n][i].id = sendQ[n][i].id
              /\ sendQ'[n][i].to = sendQ[n][i].to
              /\ sendQ'[n][i].IsACK => sendQ[n][i].IsACK \/ sendQ[n][i].id = m.id
<1> DEFINE first(i) == AcksEntry(n, m, i) /\ \A j \in 1 .. i - 1 : ~ AcksEntry(n, m, j)
           q == [i \in DOMAIN sendQ[n] |->
                   IF first(i) THEN [sendQ[n][i] EXCEPT !.IsACK = TRUE] ELSE sendQ[n][i]]
<1>1. sendQ' = [sendQ EXCEPT ![n] = q]
  BY DEF ReceiveAck
<1>2. /\ sendQ[n] \in Seq(SendEntry) /\ Len(sendQ[n]) \in Nat
      /\ DOMAIN sendQ[n] = 1 .. Len(sendQ[n])
      /\ \A i \in DOMAIN sendQ[n] : sendQ[n][i] \in SendEntry
  BY Machine
<1>3. \A i \in DOMAIN sendQ[n] : first(i) => sendQ[n][i].id = m.id
  BY DEF AcksEntry
<1> HIDE DEF first
<1>4. \A i \in DOMAIN sendQ[n] :
        /\ q[i] \in SendEntry
        /\ q[i].code = sendQ[n][i].code /\ q[i].id = sendQ[n][i].id /\ q[i].to = sendQ[n][i].to
        /\ q[i].IsACK => sendQ[n][i].IsACK \/ sendQ[n][i].id = m.id
  BY <1>2, <1>3 DEF SendEntry
<1>5. DOMAIN q = 1 .. Len(sendQ[n])
  BY <1>2
<1>6. q \in [1 .. Len(sendQ[n]) -> SendEntry]
  BY <1>2, <1>4, <1>5
<1> HIDE DEF q
<1>7. q \in Seq(SendEntry) /\ Len(q) = Len(sendQ[n])
  BY <1>2, <1>6
<1>8. /\ sendQ' \in [Nodes -> Seq(SendEntry)] /\ sendQ'[n] = q
      /\ \A o \in Nodes : o # n => sendQ'[o] = sendQ[o]
  BY <1>1, <1>7 DEF IInv, TypeOK
<1> QED BY <1>2, <1>4, <1>5, <1>7, <1>8

LEMMA ReceiveAckInv ==
  ASSUME IInv, NEW n \in Nodes, NEW m \in net[n], ReceiveAck(n, m)
  PROVE  IInv'
<1>1. /\ m.code = "ACK" /\ Arrive(n, m, {})
      /\ UNCHANGED << recvQ, Last, LastRXIndex, stored, since, Send_Total, life >>
  BY DEF ReceiveAck, receiver
<1>2. /\ net' \in [Nodes -> SUBSET Packets] /\ \A t \in Nodes : NetAt(t)'
  BY <1>1, ArriveIs
<1>3. /\ sendQ' \in [Nodes -> Seq(SendEntry)]
      /\ DOMAIN sendQ'[n] = DOMAIN sendQ[n] /\ Len(sendQ'[n]) = Len(sendQ[n])
      /\ \A o \in Nodes : o # n => sendQ'[o] = sendQ[o]
      /\ \A i \in DOMAIN sendQ[n] :
           /\ sendQ'[n][i].code = sendQ[n][i].code /\ sendQ'[n][i].id = sendQ[n][i].id
           /\ sendQ'[n][i].to = sendQ[n][i].to
  BY ReceiveAckIs
<1>4. ASSUME NEW o \in Nodes
      PROVE  /\ Len(sendQ'[o]) <= MaxSend
             /\ \A i \in DOMAIN sendQ'[o] :
                  /\ sendQ'[o][i].id < Send_Total[o] /\ sendQ'[o][i].to # o
                  /\ sendQ'[o][i].to = Everyone => sendQ'[o][i].code = "DATA_NOACK"
  <2>0. /\ Len(sendQ[o]) <= MaxSend
        /\ \A i \in DOMAIN sendQ[o] :
             /\ sendQ[o][i].id < Send_Total[o] /\ sendQ[o][i].to # o
             /\ sendQ[o][i].to = Everyone => sendQ[o][i].code = "DATA_NOACK"
    BY DEF IInv, TypeOK
  <2>1. CASE o = n
    BY <1>3, <2>0, <2>1
  <2>2. CASE o # n
    BY <1>3, <2>0, <2>2
  <2> QED BY <2>1, <2>2
<1>5. TypeOK'
  BY <1>1, <1>2, <1>3, <1>4 DEF IInv, TypeOK
<1>6. Bounds'
  BY <1>1, <1>2 DEF IInv, Bounds
<1>7. Rings'
  BY <1>1 DEF IInv, Rings
<1> QED BY <1>5, <1>6, <1>7 DEF IInv

LEMMA GetPacketInv ==
  ASSUME IInv, NEW n \in Nodes, Get_Packet(n)
  PROVE  IInv'
<1> DEFINE q == [recvQ[n] EXCEPT ![1].IsRead = TRUE]
<1>1. /\ recvQ' = [recvQ EXCEPT ![n] = q]
      /\ UNCHANGED << sendQ, Send_Total, Last, LastRXIndex, stored, since, net, life >>
  BY DEF Get_Packet, sender
<1>2. q \in Seq(ReceiveEntry) /\ Len(q) = Len(recvQ[n])
  <2>1. /\ recvQ[n] \in Seq(ReceiveEntry) /\ Len(recvQ[n]) \in Nat
        /\ DOMAIN recvQ[n] = 1 .. Len(recvQ[n])
        /\ \A i \in DOMAIN recvQ[n] : recvQ[n][i] \in ReceiveEntry
    BY Machine
  <2>2. \A i \in DOMAIN recvQ[n] : q[i] \in ReceiveEntry
    BY <2>1 DEF ReceiveEntry
  <2>3. q \in [1 .. Len(recvQ[n]) -> ReceiveEntry]
    BY <2>1, <2>2
  <2> HIDE DEF q
  <2> QED BY <2>1, <2>3
<1> HIDE DEF q
<1>3. TypeOK'
  BY <1>1, <1>2 DEF IInv, TypeOK
<1> QED BY <1>1, <1>3 DEF IInv, Bounds, Rings, NetAt

-----------------------------------------------------------------------------
(* Service, Init_Network, Lose *)

\* Every entry that stays in n's send queue was there before, unACKed, and no
\* two come from the same one.
Comes(n, from) ==
  /\ \A i \in DOMAIN sendQ'[n] :
       /\ from[i] \in DOMAIN sendQ[n]
       /\ sendQ'[n][i].code = sendQ[n][from[i]].code
       /\ sendQ'[n][i].id = sendQ[n][from[i]].id
       /\ sendQ'[n][i].to = sendQ[n][from[i]].to
       /\ IsData(sendQ'[n][i]) => ~ sendQ'[n][i].IsACK
  /\ \A i, j \in DOMAIN sendQ'[n] : from[i] = from[j] => i = j

LEMMA UnackedIs ==
  ASSUME IInv, NEW n \in Nodes
  PROVE  /\ Unacked(n) \in Seq(SendEntry) /\ Len(Unacked(n)) \in Nat
         /\ Len(Unacked(n)) <= Len(sendQ[n])
         /\ DOMAIN Unacked(n) = 1 .. Len(Unacked(n))
         /\ \E at \in [DOMAIN Unacked(n) -> DOMAIN sendQ[n]] :
              /\ \A i \in DOMAIN Unacked(n) : /\ Unacked(n)[i] = sendQ[n][at[i]]
                                             /\ ~ Unacked(n)[i].IsACK
              /\ \A i, j \in DOMAIN Unacked(n) : at[i] = at[j] => i = j
<1> DEFINE K == {i \in DOMAIN sendQ[n] : ~ sendQ[n][i].IsACK}
           q == Unacked(n)
<1>1. sendQ[n] \in Seq(SendEntry) /\ Len(sendQ[n]) \in Nat /\ DOMAIN sendQ[n] = 1 .. Len(sendQ[n])
  BY Machine
<1>2. K \in SUBSET (1 .. Len(sendQ[n])) /\ q = Sweep(sendQ[n], K)
  BY <1>1 DEF Unacked
<1>3. \A i \in K : i \in DOMAIN sendQ[n] /\ ~ sendQ[n][i].IsACK
  OBVIOUS
<1> HIDE DEF K, q
<1>4. q \in Seq(SendEntry) /\ Len(q) <= Len(sendQ[n])
  BY <1>1, <1>2, SweepKeeps
<1>5. PICK at \in [1 .. Len(q) -> K] :
         /\ \A m \in 1 .. Len(q) : q[m] = sendQ[n][at[m]]
         /\ \A m1, m2 \in 1 .. Len(q) : m1 < m2 <=> at[m1] < at[m2]
  BY <1>1, <1>2, SweepKeeps
<1>6. DOMAIN q = 1 .. Len(q) /\ Len(q) \in Nat
  BY <1>4
<1>7. \A i \in DOMAIN q : /\ at[i] \in DOMAIN sendQ[n] /\ at[i] \in Nat
                          /\ q[i] = sendQ[n][at[i]] /\ ~ q[i].IsACK
  <2>1. \A i \in DOMAIN q : at[i] \in K
    BY <1>5, <1>6
  <2>2. \A i \in DOMAIN q : at[i] \in DOMAIN sendQ[n] /\ ~ sendQ[n][at[i]].IsACK
    BY <1>3, <2>1
  <2>3. \A i \in DOMAIN sendQ[n] : i \in Nat
    BY <1>1
  <2> QED BY <1>5, <1>6, <2>2, <2>3
<1>8. at \in [DOMAIN q -> DOMAIN sendQ[n]]
  BY <1>5, <1>6, <1>7
<1>9. \A i, j \in DOMAIN q : at[i] = at[j] => i = j
  <2> SUFFICES ASSUME NEW i \in DOMAIN q, NEW j \in DOMAIN q, at[i] = at[j] PROVE i = j
    OBVIOUS
  <2>1. ~ (i < j) /\ ~ (j < i)
    BY <1>5, <1>6, <1>7
  <2> QED BY <1>6, <2>1
<1> QED BY <1>4, <1>6, <1>7, <1>8, <1>9 DEF q

LEMMA TailEntries ==
  ASSUME NEW S, NEW a \in Seq(S), a # << >>
  PROVE  /\ Tail(a) \in Seq(S) /\ Len(Tail(a)) = Len(a) - 1
         /\ DOMAIN Tail(a) = 1 .. Len(a) - 1
         /\ \A i \in 1 .. Len(a) - 1 : Tail(a)[i] = a[i + 1]
  OBVIOUS

LEMMA ServiceIs ==
  ASSUME IInv, NEW n \in Nodes, NEW due \in SUBSET (1 .. Len(Unacked(n))), Service(n, due)
  PROVE  /\ sendQ' \in [Nodes -> Seq(SendEntry)] /\ Len(sendQ'[n]) <= MaxSend
         /\ \A o \in Nodes : o # n => sendQ'[o] = sendQ[o]
         /\ \E from : Comes(n, from)
<1> DEFINE q == Unacked(n)
           a == AfterService(n, due)
<1>1. /\ q \in Seq(SendEntry) /\ Len(q) \in Nat /\ Len(q) <= Len(sendQ[n])
      /\ DOMAIN q = 1 .. Len(q)
  BY UnackedIs
<1>2. PICK at \in [DOMAIN q -> DOMAIN sendQ[n]] :
         /\ \A i \in DOMAIN q : q[i] = sendQ[n][at[i]] /\ ~ q[i].IsACK
         /\ \A i, j \in DOMAIN q : at[i] = at[j] => i = j
  BY UnackedIs
<1>3. a = [i \in DOMAIN q |-> IF i \in due THEN AfterSend(q[i]) ELSE q[i]]
  BY DEF AfterService
<1>4. \/ sendQ' = [sendQ EXCEPT ![n] = a]
      \/ sendQ' = [sendQ EXCEPT ![n] = Tail(a)] /\ due # {}
  BY DEF Service, ServiceGood, ServiceBad
<1> HIDE DEF q, a
<1>5. \A i \in DOMAIN q : /\ q[i] \in SendEntry
                          /\ a[i] \in SendEntry /\ a[i].code = q[i].code /\ a[i].id = q[i].id
                          /\ a[i].to = q[i].to
                          /\ IsData(a[i]) => ~ a[i].IsACK
  <2> SUFFICES ASSUME NEW i \in DOMAIN q
               PROVE  /\ q[i] \in SendEntry
                      /\ a[i] \in SendEntry /\ a[i].code = q[i].code /\ a[i].id = q[i].id
                      /\ a[i].to = q[i].to
                      /\ IsData(a[i]) => ~ a[i].IsACK
    OBVIOUS
  <2>1. q[i] \in SendEntry
    BY <1>1
  <2>2. ~ q[i].IsACK
    BY <1>2
  <2>3. a[i] = AfterSend(q[i]) \/ a[i] = q[i]
    BY <1>3
  <2> QED BY <2>1, <2>2, <2>3 DEF AfterSend, SendEntry, IsData, DataCodes
<1>6. DOMAIN a = DOMAIN q
  BY <1>3
<1>7. a \in Seq(SendEntry) /\ Len(a) = Len(q)
  <2>1. a = [i \in 1 .. Len(q) |-> a[i]]
    BY <1>1, <1>3
  <2>2. a \in [1 .. Len(q) -> SendEntry]
    BY <1>1, <1>5, <2>1
  <2> QED BY <1>1, <2>2
<1>8. Len(sendQ[n]) <= MaxSend /\ Len(sendQ[n]) \in Nat /\ MaxSend \in Nat
  BY Machine, Numbers DEF IInv, TypeOK
<1>9. CASE sendQ' = [sendQ EXCEPT ![n] = a]
  <2>1. sendQ'[n] = a /\ sendQ' \in [Nodes -> Seq(SendEntry)]
        /\ \A o \in Nodes : o # n => sendQ'[o] = sendQ[o]
    BY <1>7, <1>9 DEF IInv, TypeOK
  <2>2. Comes(n, at)
    BY <1>2, <1>5, <1>6, <2>1 DEF Comes
  <2> QED BY <1>1, <1>7, <1>8, <2>1, <2>2
<1>10. CASE sendQ' = [sendQ EXCEPT ![n] = Tail(a)] /\ due # {}
  <2> DEFINE from == [i \in 1 .. Len(a) - 1 |-> at[i + 1]]
  <2>1. 1 <= Len(q) /\ a # << >>
    <3>1. PICK i \in due : i \in 1 .. Len(q)
      BY <1>10 DEF q
    <3>2. 1 <= Len(q)
      BY <1>1, <3>1
    <3> QED BY <1>1, <1>7, <3>2
  <2>2. /\ Tail(a) \in Seq(SendEntry) /\ Len(Tail(a)) = Len(a) - 1
        /\ DOMAIN Tail(a) = 1 .. Len(a) - 1
        /\ \A i \in 1 .. Len(a) - 1 : Tail(a)[i] = a[i + 1]
    BY <1>7, <2>1, TailEntries
  <2>3. sendQ'[n] = Tail(a) /\ sendQ' \in [Nodes -> Seq(SendEntry)]
        /\ \A o \in Nodes : o # n => sendQ'[o] = sendQ[o]
    BY <1>10, <2>2 DEF IInv, TypeOK
  <2>4. \A i \in 1 .. Len(a) - 1 : i + 1 \in DOMAIN q /\ from[i] = at[i + 1]
    BY <1>1, <1>7
  <2>5. \A i, j \in 1 .. Len(a) - 1 : i + 1 = j + 1 => i = j
    BY <1>1, <1>7
  <2> HIDE DEF from
  <2>6. Comes(n, from)
    <3>1. ASSUME NEW i \in 1 .. Len(a) - 1
          PROVE  /\ from[i] \in DOMAIN sendQ[n]
                 /\ Tail(a)[i].code = sendQ[n][from[i]].code
                 /\ Tail(a)[i].id = sendQ[n][from[i]].id
                 /\ Tail(a)[i].to = sendQ[n][from[i]].to
                 /\ IsData(Tail(a)[i]) => ~ Tail(a)[i].IsACK
      BY <1>2, <1>5, <2>2, <2>4
    <3>2. \A i, j \in 1 .. Len(a) - 1 : from[i] = from[j] => i = j
      BY <1>2, <2>4, <2>5
    <3> QED BY <2>2, <2>3, <3>1, <3>2 DEF Comes
  <2>7. Len(Tail(a)) <= MaxSend
    BY <1>1, <1>7, <1>8, <2>2
  <2> QED BY <2>3, <2>6, <2>7
<1> QED BY <1>4, <1>9, <1>10

\* Only entries of n's send queue are added to what is on its way.
LEMMA CarryIs ==
  ASSUME IInv, NEW n \in Nodes, NEW due \in SUBSET (1 .. Len(Unacked(n))), Carry(n, due)
  PROVE  /\ net' \in [Nodes -> SUBSET Packets]
         /\ \A t \in Nodes : \A x \in net'[t] :
              \/ x \in net[t]
              \/ \E j \in DOMAIN sendQ[n] :
                   /\ x = Packet(sendQ[n][j].code, sendQ[n][j].id, n, life[n])
                   /\ sendQ[n][j].to = t \/ (sendQ[n][j].to = Everyone /\ t # n)
<1> DEFINE q == Unacked(n)
           For(t) == {i \in due : q[i].to = t \/ (q[i].to = Everyone /\ t # n)}
           Sent(t) == {Packet(q[i].code, q[i].id, n, life[n]) : i \in For(t)}
<1>1. q \in Seq(SendEntry) /\ DOMAIN q = 1 .. Len(q)
  BY UnackedIs
<1>2. PICK at \in [DOMAIN q -> DOMAIN sendQ[n]] : \A i \in DOMAIN q : q[i] = sendQ[n][at[i]]
  BY UnackedIs
<1>3. net' = [t \in Nodes |-> net[t] \cup Sent(t)]
  BY DEF Carry
<1>4. due \in SUBSET DOMAIN q
  BY <1>1
<1> HIDE DEF q
<1>5. ASSUME NEW t \in Nodes, NEW i \in For(t)
      PROVE  /\ Packet(q[i].code, q[i].id, n, life[n]) \in Packets
             /\ \E j \in DOMAIN sendQ[n] :
                  /\ Packet(q[i].code, q[i].id, n, life[n])
                       = Packet(sendQ[n][j].code, sendQ[n][j].id, n, life[n])
                  /\ sendQ[n][j].to = t \/ (sendQ[n][j].to = Everyone /\ t # n)
  <2>1. i \in DOMAIN q /\ (q[i].to = t \/ (q[i].to = Everyone /\ t # n))
    BY <1>4, <1>5
  <2>2. q[i] \in SendEntry
    BY <1>1, <2>1
  <2>3. life[n] \in Nat
    BY Machine
  <2>4. Packet(q[i].code, q[i].id, n, life[n]) \in Packets
    BY <2>2, <2>3 DEF Packet, Packets, SendEntry
  <2> QED BY <1>2, <2>1, <2>4
<1>6. \A t \in Nodes : Sent(t) \in SUBSET Packets
  BY <1>5
<1>7. net' \in [Nodes -> SUBSET Packets]
  BY <1>3, <1>6 DEF IInv, TypeOK
<1>8. \A t \in Nodes : \A x \in net'[t] : x \in net[t] \/ \E i \in For(t) :
                                           x = Packet(q[i].code, q[i].id, n, life[n])
  BY <1>3
<1> QED BY <1>5, <1>7, <1>8

LEMMA ServiceInv ==
  ASSUME IInv, NEW n \in Nodes, NEW due \in SUBSET (1 .. Len(Unacked(n))), Service(n, due)
  PROVE  IInv'
<1>1. /\ UNCHANGED << Send_Total, Last, LastRXIndex, life, stored, since >>
      /\ Carry(n, due) /\ (ServiceGood(n, due) \/ ServiceBad(n, due))
  BY DEF Service
<1>2. /\ sendQ' \in [Nodes -> Seq(SendEntry)] /\ Len(sendQ'[n]) <= MaxSend
      /\ \A o \in Nodes : o # n => sendQ'[o] = sendQ[o]
      /\ \E from : Comes(n, from)
  BY ServiceIs
<1>3. /\ net' \in [Nodes -> SUBSET Packets]
      /\ \A t \in Nodes : \A x \in net'[t] :
           \/ x \in net[t]
           \/ \E j \in DOMAIN sendQ[n] :
                /\ x = Packet(sendQ[n][j].code, sendQ[n][j].id, n, life[n])
                /\ sendQ[n][j].to = t \/ (sendQ[n][j].to = Everyone /\ t # n)
  BY <1>1, CarryIs
<1>4. recvQ' \in [Nodes -> Seq(ReceiveEntry)] /\ \A o \in Nodes : Len(recvQ'[o]) <= MaxReceive
  <2>1. CASE ServiceBad(n, due)
    BY <2>1 DEF ServiceBad, IInv, TypeOK
  <2>2. CASE ServiceGood(n, due)
    <3> DEFINE K == {i \in DOMAIN recvQ[n] : ~ recvQ[n][i].IsRead}
               s == Sweep(recvQ[n], K)
    <3>1. recvQ' = [recvQ EXCEPT ![n] = s]
      BY <2>2 DEF ServiceGood, Service_Receive_Queue
    <3>2. K \in SUBSET (1 .. Len(recvQ[n]))
      BY Machine
    <3> HIDE DEF K
    <3>3. s \in Seq(ReceiveEntry) /\ Len(s) <= Len(recvQ[n])
      BY <3>2, Machine, SweepKeeps
    <3> HIDE DEF s
    <3>4. Len(s) <= MaxReceive
      <4>1. Len(s) \in Nat /\ Len(recvQ[n]) \in Nat /\ MaxReceive \in Nat
            /\ Len(recvQ[n]) <= MaxReceive
        BY <3>3, Machine, Numbers DEF IInv, TypeOK
      <4> QED BY <3>3, <4>1
    <3> QED BY <3>1, <3>3, <3>4 DEF IInv, TypeOK
  <2> QED BY <1>1, <2>1, <2>2
<1>5. \A j \in DOMAIN sendQ[n] :
        /\ sendQ[n][j] \in SendEntry /\ sendQ[n][j].id < Send_Total[n] /\ sendQ[n][j].to # n
        /\ sendQ[n][j].to = Everyone => sendQ[n][j].code = "DATA_NOACK"
  BY Machine DEF IInv, TypeOK
<1>6. \A i \in DOMAIN sendQ'[n] :
        /\ sendQ'[n][i].id < Send_Total[n] /\ sendQ'[n][i].to # n
        /\ sendQ'[n][i].to = Everyone => sendQ'[n][i].code = "DATA_NOACK"
  BY <1>2, <1>5 DEF Comes
<1>7. TypeOK'
  <2>1. ASSUME NEW o \in Nodes
        PROVE  /\ Len(sendQ'[o]) <= MaxSend
               /\ \A i \in DOMAIN sendQ'[o] :
                    /\ sendQ'[o][i].id < Send_Total[o] /\ sendQ'[o][i].to # o
                    /\ sendQ'[o][i].to = Everyone => sendQ'[o][i].code = "DATA_NOACK"
    <3>1. CASE o = n
      BY <1>2, <1>6, <3>1
    <3>2. CASE o # n
      BY <1>2, <3>2 DEF IInv, TypeOK
    <3> QED BY <3>1, <3>2
  <2> QED BY <1>1, <1>2, <1>3, <1>4, <2>1 DEF IInv, TypeOK
<1>8. ASSUME NEW t \in Nodes, NEW x \in net'[t]
      PROVE  /\ x.from # t
             /\ x.code # "ACK" => x.id < MaxSent[x.from] /\ x.life <= MaxLives[x.from]
             /\ x.code = "ACK" => x.id < MaxSent[t] /\ x.life <= MaxLives[t]
             /\ x.life > 0
  <2>1. CASE x \in net[t]
    BY <2>1 DEF IInv, Bounds, NetAt
  <2>2. CASE x \notin net[t]
    <3>1. PICK j \in DOMAIN sendQ[n] :
             /\ x = Packet(sendQ[n][j].code, sendQ[n][j].id, n, life[n])
             /\ sendQ[n][j].to = t \/ (sendQ[n][j].to = Everyone /\ t # n)
      BY <1>3, <2>2
    <3>2. x.from = n /\ n # t /\ x.id = sendQ[n][j].id /\ x.life = life[n]
          /\ x.code = sendQ[n][j].code /\ x.code # "ACK"
      BY <1>5, <3>1 DEF Packet, SendEntry, DataCodes
    <3>3. /\ sendQ[n][j].id \in Nat /\ sendQ[n][j].id < Send_Total[n]
          /\ Send_Total[n] \in Nat /\ MaxSent[n] \in Nat /\ Send_Total[n] <= MaxSent[n]
          /\ life[n] \in 1 .. MaxLives[n] /\ MaxLives[n] \in Nat
      BY <1>5, Machine, Numbers DEF IInv, Bounds, SendEntry
    <3>4. sendQ[n][j].id < MaxSent[n]
      BY <3>3
    <3> QED BY <3>2, <3>3, <3>4
  <2> QED BY <2>1, <2>2
<1>9. Bounds'
  BY <1>1, <1>8 DEF IInv, Bounds, NetAt
<1>10. Rings'
  BY <1>1 DEF IInv, Rings
<1> QED BY <1>7, <1>9, <1>10 DEF IInv

LEMMA InitNetworkInv ==
  ASSUME IInv, NEW n \in Nodes, Init_Network(n)
  PROVE  IInv'
<1>1. /\ sendQ' = [sendQ EXCEPT ![n] = << >>] /\ recvQ' = [recvQ EXCEPT ![n] = << >>]
      /\ Send_Total' = [Send_Total EXCEPT ![n] = 0]
      /\ Last' = [Last EXCEPT ![n] = [i \in 0 .. Remembered - 1 |-> Nobody]]
      /\ LastRXIndex' = [LastRXIndex EXCEPT ![n] = 0]
      /\ life' = [life EXCEPT ![n] = @ + 1] /\ life[n] < MaxLives[n]
      /\ since' = [since EXCEPT ![n] = [k \in Keys |-> Remembered]]
      /\ net' = net /\ stored' = stored
  BY DEF Init_Network, Fresh
<1>2. << >> \in Seq(SendEntry) /\ << >> \in Seq(ReceiveEntry) /\ Len(<< >>) = 0
      /\ DOMAIN << >> = {}
  OBVIOUS
<1>3. /\ sendQ' \in [Nodes -> Seq(SendEntry)] /\ recvQ' \in [Nodes -> Seq(ReceiveEntry)]
      /\ Send_Total' \in [Nodes -> Nat]
  BY <1>1, <1>2 DEF IInv, TypeOK
<1>4. /\ Last' \in [Nodes -> [0 .. Remembered - 1 -> Keys \cup {Nobody}]]
      /\ LastRXIndex' \in [Nodes -> 0 .. Remembered - 1]
      /\ since' \in [Nodes -> [Keys -> 0 .. Remembered]]
  BY <1>1, Numbers DEF IInv, TypeOK
<1>5. net' \in [Nodes -> SUBSET Packets] /\ life' \in [Nodes -> Nat]
      /\ stored' \in [Nodes -> SUBSET (Nodes \X Nat \X Nat)]
  BY <1>1 DEF IInv, TypeOK
<1>6. ASSUME NEW o \in Nodes
      PROVE  /\ Len(sendQ'[o]) <= MaxSend /\ Len(recvQ'[o]) <= MaxReceive
             /\ \A i \in DOMAIN sendQ'[o] :
                  /\ sendQ'[o][i].id < Send_Total'[o] /\ sendQ'[o][i].to # o
                  /\ sendQ'[o][i].to = Everyone => sendQ'[o][i].code = "DATA_NOACK"
  <2>1. CASE o = n
    <3>1. sendQ'[o] = << >> /\ recvQ'[o] = << >>
      BY <1>1, <2>1 DEF IInv, TypeOK
    <3> QED BY <1>2, <3>1, Numbers
  <2>2. CASE o # n
    <3>1. sendQ'[o] = sendQ[o] /\ recvQ'[o] = recvQ[o] /\ Send_Total'[o] = Send_Total[o]
      BY <1>1, <2>2 DEF IInv, TypeOK
    <3> QED BY <3>1 DEF IInv, TypeOK
  <2> QED BY <2>1, <2>2
<1>7. TypeOK'
  BY <1>3, <1>4, <1>5, <1>6 DEF TypeOK
<1>8. Bounds'
  <2>1. life[n] + 1 \in 1 .. MaxLives[n] /\ 0 <= MaxSent[n]
    BY <1>1, Machine, Numbers DEF IInv, Bounds
  <2>2. \A o \in Nodes : /\ Send_Total'[o] = IF o = n THEN 0 ELSE Send_Total[o]
                         /\ life'[o] = IF o = n THEN life[n] + 1 ELSE life[o]
    BY <1>1 DEF IInv, TypeOK
  <2> QED BY <1>1, <2>1, <2>2 DEF IInv, Bounds, NetAt
<1>9. Rings'
  <2>1. Ring([i \in 0 .. Remembered - 1 |-> Nobody], 0, [k \in Keys |-> Remembered])
    BY Numbers DEF Ring
  <2>2. ASSUME NEW o \in Nodes PROVE Ring(Last[o], LastRXIndex[o], since[o])'
    <3>1. CASE o = n
      <4>1. /\ Last'[o] = [i \in 0 .. Remembered - 1 |-> Nobody] /\ LastRXIndex'[o] = 0
            /\ since'[o] = [k \in Keys |-> Remembered]
        BY <1>1, <3>1 DEF IInv, TypeOK
      <4> QED BY <2>1, <4>1
    <3>2. CASE o # n
      <4>1. Last'[o] = Last[o] /\ LastRXIndex'[o] = LastRXIndex[o] /\ since'[o] = since[o]
        BY <1>1, <3>2 DEF IInv, TypeOK
      <4> QED BY <4>1 DEF IInv, Rings
    <3> QED BY <3>1, <3>2
  <2> QED BY <2>2 DEF Rings
<1> QED BY <1>7, <1>8, <1>9 DEF IInv

LEMMA LoseInv ==
  ASSUME IInv, NEW n \in Nodes, NEW m \in net[n], Lose(n, m)
  PROVE  IInv'
<1>1. /\ net' \in [Nodes -> SUBSET Packets] /\ \A t \in Nodes : net'[t] \in SUBSET net[t]
      /\ UNCHANGED << sendQ, Send_Total, recvQ, Last, LastRXIndex, stored, since, life >>
  BY DEF Lose, sender, receiver, IInv, TypeOK
<1> QED BY <1>1 DEF IInv, TypeOK, Bounds, NetAt, Rings

LEMMA NextIInv == IInv /\ [Next]_vars => IInv'
<1> SUFFICES ASSUME IInv, [Next]_vars PROVE IInv'
  OBVIOUS
<1>1. CASE Next
  <2> PICK n \in Nodes :
        \/ \E to \in (Nodes \ {n}) \cup {Everyone}, ack_req \in BOOLEAN :
             Send_Packet(n, to, ack_req)
        \/ \E m \in net[n] : Receive_Packet(n, m) \/ Lose(n, m)
        \/ Get_Packet(n)
        \/ \E due \in SUBSET (1 .. Len(Unacked(n))) : Service(n, due)
        \/ Init_Network(n)
    BY <1>1 DEF Next
  <2>1. ASSUME NEW to \in (Nodes \ {n}) \cup {Everyone}, NEW ack_req \in BOOLEAN,
               Send_Packet(n, to, ack_req)
        PROVE  IInv'
    BY <2>1, SendPacketInv
  <2>2. ASSUME NEW m \in net[n], Receive_Packet(n, m) PROVE IInv'
    BY <2>2, ReceiveDataInv, ReceiveNoAckInv, ReceiveAckInv DEF Receive_Packet
  <2>3. ASSUME NEW m \in net[n], Lose(n, m) PROVE IInv'
    BY <2>3, LoseInv
  <2>4. CASE Get_Packet(n)
    BY <2>4, GetPacketInv
  <2>5. ASSUME NEW due \in SUBSET (1 .. Len(Unacked(n))), Service(n, due) PROVE IInv'
    BY <2>5, ServiceInv
  <2>6. CASE Init_Network(n)
    BY <2>6, InitNetworkInv
  <2> QED BY <2>1, <2>2, <2>3, <2>4, <2>5, <2>6
<1>2. CASE UNCHANGED vars
  BY <1>2 DEF vars, IInv, TypeOK, Bounds, NetAt, Rings
<1> QED BY <1>1, <1>2

LEMMA Invariant == Spec => []IInv
  BY InitIInv, NextIInv, PTL DEF Spec

(* Types, for every number of machines and all sizes.                      *)
THEOREM TypesHold == Spec => []TypeOK
  BY Invariant, PTL DEF IInv

LEMMA RingInv == IInv => RemembersLatest
<1> SUFFICES ASSUME IInv, NEW n \in Nodes
             PROVE  /\ \A k \in Keys : since[n][k] < Remembered
                                        <=> \E i \in DOMAIN Last[n] : Last[n][i] = k
                    /\ \A i, j \in DOMAIN Last[n] :
                         Last[n][i] = Last[n][j] => i = j \/ Last[n][i] = Nobody
  BY DEF RemembersLatest
<1> DEFINE L == Last[n]
           x == LastRXIndex[n]
           s == since[n]
<1>1. /\ L \in [0 .. Remembered - 1 -> Keys \cup {Nobody}] /\ x \in 0 .. Remembered - 1
      /\ Ring(L, x, s) /\ Remembered \in Nat \ {0} /\ Nobody \notin Keys
  BY Numbers DEF IInv, TypeOK, Rings
<1>2. \A i \in 0 .. Remembered - 1 : Age(x, i) \in 0 .. Remembered - 1
  BY <1>1, NextSlot
<1> HIDE DEF L, x, s
<1>3. DOMAIN L = 0 .. Remembered - 1
  BY <1>1
<1>4. \A k \in Keys, i \in DOMAIN L : L[i] = k => s[k] < Remembered
  <2> SUFFICES ASSUME NEW k \in Keys, NEW i \in DOMAIN L, L[i] = k PROVE s[k] < Remembered
    OBVIOUS
  <2>1. s[k] = Age(x, i)
    BY <1>1, <1>3 DEF Ring
  <2>2. Age(x, i) < Remembered
    BY <1>1, <1>2, <1>3
  <2> QED BY <2>1, <2>2
<1>5. \A i, j \in DOMAIN L : L[i] = L[j] => i = j \/ L[i] = Nobody
  <2> SUFFICES ASSUME NEW i \in DOMAIN L, NEW j \in DOMAIN L, L[i] = L[j], L[i] # Nobody
               PROVE  i = j
    OBVIOUS
  <2>1. Age(x, i) = Age(x, j)
    BY <1>1, <1>3 DEF Ring
  <2> QED BY <1>1, <1>3, <2>1 DEF Age
<1>6. \A k \in Keys : s[k] < Remembered => \E i \in DOMAIN L : L[i] = k
  BY <1>1, <1>3 DEF Ring
<1> QED BY <1>4, <1>5, <1>6 DEF L, s

(* However often the ring has gone round, and whatever was refused or      *)
(* repeated, it holds the packets stored last and no others.               *)
THEOREM LatestRemembered == Spec => []RemembersLatest
  BY Invariant, RingInv, PTL

-----------------------------------------------------------------------------
(* ACKs, as long as no machine that sends enters the lobby twice.  Then a  *)
(* PacketID names one packet, for one machine: what is on its way to t     *)
(* under that number is for t, and so is what was remembered or ACKed.     *)

OneLife == \A n \in Nodes : MaxSent[n] > 0 => MaxLives[n] = 1

\* Packet id of n, if it still is in n's send queue, is for t.
MeantFor(n, id, t) ==
  /\ id < Send_Total[n]
  /\ \A i \in DOMAIN sendQ[n] :
       IsData(sendQ[n][i]) /\ sendQ[n][i].id = id => sendQ[n][i].to = t

OneNumberEach(n) ==
  \A i, j \in DOMAIN sendQ[n] : sendQ[n][i].id = sendQ[n][j].id => i = j

AckedStored(n) ==
  \A i \in DOMAIN sendQ[n] : IsData(sendQ[n][i]) /\ sendQ[n][i].IsACK =>
    HasStored(sendQ[n][i].to, n, 1, sendQ[n][i].id)

Addressed(t) ==
  \A m \in net[t] :
    /\ IsData(m) => MeantFor(m.from, m.id, t)
    /\ m.code = "ACK" => MeantFor(t, m.id, m.from) /\ HasStored(m.from, t, 1, m.id)

RememberedStored(n) ==
  \A f \in Nodes, id \in Nat :
    (\E i \in DOMAIN Last[n] : Last[n][i] = << f, id >>) => HasStored(n, f, 1, id)

SInv == \A n \in Nodes : /\ OneNumberEach(n) /\ AckedStored(n) /\ Addressed(n)
                         /\ RememberedStored(n)

LEMMA InitSInv == Init => SInv
<1> SUFFICES ASSUME Init PROVE SInv
  OBVIOUS
<1>1. \A n \in Nodes : sendQ[n] = << >> /\ net[n] = {} /\ DOMAIN << >> = {}
  BY DEF Init
<1>2. \A n \in Nodes : \A f \in Nodes, id \in Nat, i \in DOMAIN Last[n] : Last[n][i] # << f, id >>
  BY GlobalAssumption DEF Init, Nobody
<1> QED BY <1>1, <1>2 DEF SInv, OneNumberEach, AckedStored, Addressed, RememberedStored

\* In that case every packet in the network is of its sender's only life, and
\* a machine that sends stays in the lobby.
LEMMA Lives ==
  ASSUME OneLife, IInv, NEW n \in Nodes
  PROVE  /\ Send_Total[n] > 0 \/ DOMAIN sendQ[n] # {} => life[n] = 1 /\ MaxLives[n] = 1
         /\ \A m \in net[n] :
              /\ m.life = 1
              /\ IsData(m) => MaxLives[m.from] = 1
              /\ m.code = "ACK" => MaxLives[n] = 1
<1>1. \A o \in Nodes : MaxSent[o] \in Nat /\ MaxLives[o] \in Nat
  BY Numbers
<1>2. ASSUME Send_Total[n] > 0 PROVE life[n] = 1 /\ MaxLives[n] = 1
  <2>1. MaxSent[n] > 0 /\ life[n] \in 1 .. MaxLives[n]
    BY <1>1, <1>2, Machine DEF IInv, Bounds
  <2> QED BY <2>1 DEF OneLife
<1>3. ASSUME DOMAIN sendQ[n] # {} PROVE Send_Total[n] > 0
  <2>1. PICK i \in DOMAIN sendQ[n] : TRUE
    BY <1>3
  <2>2. sendQ[n][i].id \in Nat /\ sendQ[n][i].id < Send_Total[n] /\ Send_Total[n] \in Nat
    BY Machine DEF IInv, TypeOK, SendEntry
  <2> QED BY <2>2
<1>4. ASSUME NEW m \in net[n]
      PROVE  /\ m.life = 1
             /\ IsData(m) => MaxLives[m.from] = 1
             /\ m.code = "ACK" => MaxLives[n] = 1
  <2>1. m.from \in Nodes /\ m.id \in Nat /\ m.life \in Nat /\ m.life > 0
    BY Machine DEF Packets, IInv, Bounds, NetAt
  <2>2. CASE m.code # "ACK"
    <3>1. m.id < MaxSent[m.from] /\ m.life <= MaxLives[m.from]
      BY <2>2 DEF IInv, Bounds, NetAt
    <3>2. MaxSent[m.from] > 0
      BY <1>1, <2>1, <3>1
    <3>3. MaxLives[m.from] = 1
      BY <2>1, <3>2 DEF OneLife
    <3> QED BY <2>1, <2>2, <3>1, <3>3
  <2>3. CASE m.code = "ACK"
    <3>1. m.id < MaxSent[n] /\ m.life <= MaxLives[n]
      BY <2>3 DEF IInv, Bounds, NetAt
    <3>2. MaxSent[n] > 0
      BY <1>1, <2>1, <3>1
    <3>3. MaxLives[n] = 1
      BY <3>2 DEF OneLife
    <3> QED BY <2>1, <2>3, <3>1, <3>3 DEF IsData
  <2> QED BY <2>2, <2>3
<1> QED BY <1>2, <1>3, <1>4

\* A send queue that stays as it is while more may be stored.
LEMMA SameSendQ ==
  ASSUME IInv, SInv, NEW o \in Nodes, sendQ'[o] = sendQ[o],
         \A t \in Nodes : stored[t] \in SUBSET stored'[t]
  PROVE  OneNumberEach(o)' /\ AckedStored(o)'
<1>1. OneNumberEach(o)'
  BY DEF SInv, OneNumberEach
<1>2. ASSUME NEW i \in DOMAIN sendQ[o], IsData(sendQ[o][i]), sendQ[o][i].IsACK
      PROVE  << o, 1, sendQ[o][i].id >> \in stored'[sendQ[o][i].to]
  <2>1. << o, 1, sendQ[o][i].id >> \in stored[sendQ[o][i].to]
    BY <1>2 DEF SInv, AckedStored, HasStored
  <2>2. sendQ[o][i].to \in Nodes
    BY <1>2, Machine DEF IInv, TypeOK, SendEntry, IsData
  <2> QED BY <2>1, <2>2
<1> QED BY <1>1, <1>2 DEF AckedStored, HasStored

\* The invariant after a step of n that only takes entries out of n's send
\* queue or marks them, and stores what it stores.
LEMMA StepOf ==
  ASSUME IInv, IInv', SInv, NEW n \in Nodes,
         \A o \in Nodes : Send_Total[o] <= Send_Total'[o] /\ stored[o] \in SUBSET stored'[o],
         \A o \in Nodes : o # n => sendQ'[o] = sendQ[o],
         \A i \in DOMAIN sendQ'[n] :
           \/ sendQ'[n][i].id = Send_Total[n]
           \/ \E j \in DOMAIN sendQ[n] :
                /\ sendQ'[n][i].code = sendQ[n][j].code
                /\ sendQ'[n][i].id = sendQ[n][j].id
                /\ sendQ'[n][i].to = sendQ[n][j].to,
         OneNumberEach(n)', AckedStored(n)',
         \A o \in Nodes : RememberedStored(o)',
         \A t \in Nodes : \A m \in net'[t] :
           \/ m \in net[t]
           \/ /\ IsData(m) => MeantFor(m.from, m.id, t)
              /\ m.code = "ACK" => MeantFor(t, m.id, m.from) /\ HasStored(m.from, t, 1, m.id)'
  PROVE  SInv'
<1>1. ASSUME NEW o \in Nodes, NEW id \in Nat, NEW t, MeantFor(o, id, t)
      PROVE  MeantFor(o, id, t)'
  <2>1. id < Send_Total'[o]
    <3>1. id < Send_Total[o] /\ Send_Total[o] <= Send_Total'[o]
          /\ Send_Total[o] \in Nat /\ Send_Total'[o] \in Nat
      BY <1>1, Machine DEF MeantFor, IInv, TypeOK
    <3> QED BY <3>1
  <2>2. CASE o # n
    BY <1>1, <2>1, <2>2 DEF MeantFor
  <2>3. CASE o = n
    <3> SUFFICES ASSUME NEW i \in DOMAIN sendQ'[n], IsData(sendQ'[n][i]), sendQ'[n][i].id = id
                 PROVE  sendQ'[n][i].to = t
      BY <2>1, <2>3 DEF MeantFor
    <3>1. id # Send_Total[n]
      BY <1>1, <2>3, Machine DEF MeantFor
    <3> QED BY <1>1, <2>3, <3>1 DEF MeantFor, IsData
  <2> QED BY <2>2, <2>3
<1>2. \A t, o, id : HasStored(t, o, 1, id) /\ t \in Nodes => HasStored(t, o, 1, id)'
  BY DEF HasStored
<1>3. ASSUME NEW o \in Nodes PROVE Addressed(o)'
  <2> SUFFICES ASSUME NEW m \in net'[o]
               PROVE  /\ IsData(m) => MeantFor(m.from, m.id, o)'
                      /\ m.code = "ACK" => /\ MeantFor(o, m.id, m.from)'
                                           /\ HasStored(m.from, o, 1, m.id)'
    BY DEF Addressed
  <2>1. m.from \in Nodes /\ m.id \in Nat
    <3>1. net' \in [Nodes -> SUBSET Packets]
      BY DEF IInv, TypeOK
    <3> QED BY <3>1 DEF Packets
  <2>2. CASE m \in net[o]
    BY <1>1, <1>2, <2>1, <2>2 DEF SInv, Addressed
  <2>3. CASE m \notin net[o]
    BY <1>1, <2>1, <2>3
  <2> QED BY <2>2, <2>3
<1>4. ASSUME NEW o \in Nodes PROVE OneNumberEach(o)' /\ AckedStored(o)'
  <2>1. CASE o = n
    BY <2>1
  <2>2. CASE o # n
    BY <2>2, SameSendQ
  <2> QED BY <2>1, <2>2
<1> QED BY <1>3, <1>4 DEF SInv

\* What was stored is remembered as stored as long as nothing is remembered.
LEMMA SameRemembered ==
  ASSUME SInv, UNCHANGED Last, \A o \in Nodes : stored[o] \in SUBSET stored'[o]
  PROVE  \A o \in Nodes : RememberedStored(o)'
  BY DEF SInv, RememberedStored, HasStored

LEMMA SendPacketS ==
  ASSUME IInv, IInv', SInv, NEW n \in Nodes, NEW to \in (Nodes \ {n}) \cup {Everyone},
         NEW ack_req \in BOOLEAN, Send_Packet(n, to, ack_req)
  PROVE  SInv'
<1> DEFINE e == [code |-> IF ack_req /\ to # Everyone THEN "DATA_ACK" ELSE "DATA_NOACK",
                 id |-> Send_Total[n], to |-> to, sent |-> FALSE, IsACK |-> FALSE]
           q == Append(sendQ[n], e)
<1>1. e \in SendEntry /\ e.id = Send_Total[n] /\ ~ e.IsACK
  BY Machine DEF SendEntry, DataCodes
<1>2. /\ sendQ' = [sendQ EXCEPT ![n] = q] /\ Send_Total' = [Send_Total EXCEPT ![n] = @ + 1]
      /\ UNCHANGED << recvQ, Last, LastRXIndex, stored, since, net, life >>
  BY DEF Send_Packet, receiver
<1> HIDE DEF e
<1>3. /\ DOMAIN sendQ[n] = 1 .. Len(sendQ[n]) /\ Len(sendQ[n]) \in Nat
      /\ DOMAIN q = 1 .. Len(sendQ[n]) + 1
      /\ \A i \in 1 .. Len(sendQ[n]) : q[i] = sendQ[n][i]
      /\ q[Len(sendQ[n]) + 1] = e
  BY <1>1, AppendEntry, Machine
<1>4. \A i \in DOMAIN q : (i \in DOMAIN sendQ[n] /\ q[i] = sendQ[n][i])
                         \/ (i = Len(sendQ[n]) + 1 /\ q[i] = e)
  BY <1>3
<1> HIDE DEF q
<1>5. /\ sendQ'[n] = q
      /\ \A o \in Nodes : o # n => sendQ'[o] = sendQ[o]
      /\ \A o \in Nodes : Send_Total[o] <= Send_Total'[o]
  <2>1. \A o \in Nodes : Send_Total'[o] = IF o = n THEN Send_Total[o] + 1 ELSE Send_Total[o]
    BY <1>2 DEF IInv, TypeOK
  <2>2. \A o \in Nodes : Send_Total[o] \in Nat
    BY Machine
  <2>3. \A o \in Nodes : Send_Total[o] <= Send_Total'[o]
    BY <2>1, <2>2
  <2>4. sendQ'[n] = q /\ \A o \in Nodes : o # n => sendQ'[o] = sendQ[o]
    BY <1>2 DEF IInv, TypeOK
  <2> QED BY <2>3, <2>4
<1>6. \A i \in DOMAIN sendQ[n] : sendQ[n][i].id # Send_Total[n]
  BY Machine DEF IInv, TypeOK, SendEntry
<1>7. OneNumberEach(n)'
  <2>1. \A i, j \in DOMAIN sendQ[n] : sendQ[n][i].id = sendQ[n][j].id => i = j
    BY DEF SInv, OneNumberEach
  <2>2. \A i, j \in DOMAIN q : q[i].id = q[j].id => i = j
    BY <1>1, <1>4, <1>6, <2>1
  <2> QED BY <1>5, <2>2 DEF OneNumberEach
<1>8. AckedStored(n)'
  <2>1. \A i \in DOMAIN q : IsData(q[i]) /\ q[i].IsACK => << n, 1, q[i].id >> \in stored[q[i].to]
    BY <1>1, <1>4 DEF SInv, AckedStored, HasStored
  <2> QED BY <1>2, <1>5, <2>1 DEF AckedStored, HasStored
<1>9. \A o \in Nodes : RememberedStored(o)'
  BY <1>2, SameRemembered
<1>10. \A i \in DOMAIN sendQ'[n] :
         \/ sendQ'[n][i].id = Send_Total[n]
         \/ \E j \in DOMAIN sendQ[n] : /\ sendQ'[n][i].code = sendQ[n][j].code
                                       /\ sendQ'[n][i].id = sendQ[n][j].id
                                       /\ sendQ'[n][i].to = sendQ[n][j].to
  BY <1>1, <1>4, <1>5
<1>11. net' = net /\ stored' = stored
  BY <1>2
<1> QED BY <1>5, <1>7, <1>8, <1>9, <1>10, <1>11, StepOf

LEMMA ReceiveDataS ==
  ASSUME OneLife, IInv, IInv', SInv, NEW n \in Nodes, NEW m \in net[n], ReceiveData(n, m)
  PROVE  SInv'
<1>1. IsData(m) /\ UNCHANGED << sendQ, Send_Total, life >>
  BY DEF ReceiveData, IsData, sender
<1>2. m.from \in Nodes /\ m.id \in Nat /\ m.life = 1 /\ MeantFor(m.from, m.id, n)
  BY <1>1, Machine, Lives DEF SInv, Addressed
<1>3. \A o \in Nodes : stored[o] \in SUBSET stored'[o]
  <2>1. CASE stored' = stored
    BY <2>1
  <2>2. CASE Log(n, m)
    <3>1. stored' = [stored EXCEPT ![n] = @ \cup {<< m.from, m.life, m.id >>}]
      BY <2>2 DEF Log
    <3>2. stored \in [Nodes -> SUBSET (Nodes \X Nat \X Nat)]
      BY DEF IInv, TypeOK
    <3> QED BY <3>1, <3>2
  <2> QED BY <2>1, <2>2 DEF ReceiveData, receiver
<1>4. \A o \in Nodes : RememberedStored(o)'
  <2>1. CASE UNCHANGED receiver
    BY <1>3, <2>1, SameRemembered DEF receiver
  <2>2. CASE Remember(n, m) /\ Log(n, m)
    <3>1. /\ Last' = [Last EXCEPT ![n][LastRXIndex[n]] = << m.from, m.id >>]
          /\ stored' = [stored EXCEPT ![n] = @ \cup {<< m.from, m.life, m.id >>}]
      BY <2>2 DEF Remember, Log
    <3>2. ASSUME NEW o \in Nodes, o # n PROVE RememberedStored(o)'
      BY <3>1, <3>2 DEF IInv, TypeOK, SInv, RememberedStored, HasStored
    <3>3. \A i \in DOMAIN Last'[n] : /\ i \in DOMAIN Last[n]
                                     /\ Last'[n][i] = Last[n][i] \/ Last'[n][i] = << m.from, m.id >>
      BY <3>1 DEF IInv, TypeOK
    <3>4. << m.from, 1, m.id >> \in stored'[n] /\ stored[n] \in SUBSET stored'[n]
      BY <1>2, <3>1 DEF IInv, TypeOK
    <3>5. ASSUME NEW f \in Nodes, NEW id \in Nat, NEW i \in DOMAIN Last'[n],
                 Last'[n][i] = << f, id >>
          PROVE  << f, 1, id >> \in stored'[n]
      <4>1. CASE Last[n][i] = << f, id >>
        BY <3>3, <3>4, <3>5, <4>1 DEF SInv, RememberedStored, HasStored
      <4>2. CASE << f, id >> = << m.from, m.id >>
        <5>1. f = m.from /\ id = m.id
          BY <4>2
        <5> QED BY <3>4, <5>1
      <4> QED BY <3>3, <3>5, <4>1, <4>2
    <3>6. RememberedStored(n)'
      BY <3>5 DEF RememberedStored, HasStored
    <3> QED BY <3>2, <3>6
  <2> QED BY <2>1, <2>2 DEF ReceiveData
<1>5. \/ Arrive(n, m, {})
      \/ Arrive(n, m, Ack(n, m)) /\ << m.from, 1, m.id >> \in stored'[n]
  <2>1. CASE Resend(n, m) /\ Arrive(n, m, Ack(n, m)) /\ UNCHANGED receiver
    <3>1. << m.from, 1, m.id >> \in stored[n]
      BY <1>2, <2>1 DEF Resend, SInv, RememberedStored, HasStored
    <3> QED BY <1>3, <2>1, <3>1
  <2>2. CASE Arrive(n, m, Ack(n, m)) /\ Log(n, m)
    <3>1. << m.from, m.life, m.id >> \in stored'[n]
      BY <2>2 DEF Log, IInv, TypeOK
    <3> QED BY <1>2, <2>2, <3>1
  <2> QED BY <2>1, <2>2 DEF ReceiveData
<1>6. ASSUME NEW t \in Nodes, NEW x \in net'[t], x \notin net[t]
      PROVE  /\ ~ IsData(x)
             /\ MeantFor(t, x.id, x.from) /\ HasStored(x.from, t, 1, x.id)'
  <2>1. /\ t = m.from /\ x = Packet("ACK", m.id, n, m.life)
        /\ Arrive(n, m, Ack(n, m)) /\ << m.from, 1, m.id >> \in stored'[n]
    <3>1. CASE Arrive(n, m, {})
      BY <1>6, <3>1, ArriveIs
    <3>2. CASE Arrive(n, m, Ack(n, m)) /\ << m.from, 1, m.id >> \in stored'[n]
      BY <1>1, <1>6, <3>2, ArriveIs
    <3> QED BY <1>5, <3>1, <3>2
  <2>2. x.code = "ACK" /\ x.id = m.id /\ x.from = n
    BY <2>1 DEF Packet
  <2> QED BY <1>2, <2>1, <2>2 DEF IsData, HasStored
<1>7. OneNumberEach(n)' /\ AckedStored(n)'
  BY <1>1, <1>3, SameSendQ
<1>8. \A o \in Nodes : Send_Total[o] <= Send_Total'[o]
  BY <1>1, Machine
<1> QED BY <1>1, <1>3, <1>4, <1>6, <1>7, <1>8, StepOf

LEMMA ReceiveAckS ==
  ASSUME OneLife, IInv, IInv', SInv, NEW n \in Nodes, NEW m \in net[n], ReceiveAck(n, m)
  PROVE  SInv'
<1>1. /\ m.code = "ACK" /\ Arrive(n, m, {})
      /\ UNCHANGED << recvQ, Last, LastRXIndex, stored, since, Send_Total, life >>
  BY DEF ReceiveAck, receiver
<1>2. /\ DOMAIN sendQ'[n] = DOMAIN sendQ[n]
      /\ \A o \in Nodes : o # n => sendQ'[o] = sendQ[o]
      /\ \A i \in DOMAIN sendQ[n] :
           /\ sendQ'[n][i].code = sendQ[n][i].code /\ sendQ'[n][i].id = sendQ[n][i].id
           /\ sendQ'[n][i].to = sendQ[n][i].to
           /\ sendQ'[n][i].IsACK => sendQ[n][i].IsACK \/ sendQ[n][i].id = m.id
  BY ReceiveAckIs
<1>3. MeantFor(n, m.id, m.from) /\ << n, 1, m.id >> \in stored[m.from]
  BY <1>1 DEF SInv, Addressed, HasStored
<1>4. OneNumberEach(n)'
  <2>1. \A i, j \in DOMAIN sendQ[n] : sendQ[n][i].id = sendQ[n][j].id => i = j
    BY DEF SInv, OneNumberEach
  <2> QED BY <1>2, <2>1 DEF OneNumberEach
<1>5. AckedStored(n)'
  <2>1. ASSUME NEW i \in DOMAIN sendQ[n], IsData(sendQ'[n][i]), sendQ'[n][i].IsACK
        PROVE  << n, 1, sendQ[n][i].id >> \in stored[sendQ[n][i].to]
    <3>1. CASE sendQ[n][i].IsACK
      BY <1>2, <2>1, <3>1 DEF SInv, AckedStored, HasStored, IsData
    <3>2. CASE sendQ[n][i].id = m.id
      <4>1. sendQ[n][i].to = m.from
        BY <1>2, <1>3, <2>1, <3>2 DEF MeantFor, IsData
      <4> QED BY <1>3, <3>2, <4>1
    <3> QED BY <1>2, <2>1, <3>1, <3>2
  <2> QED BY <1>1, <1>2, <2>1 DEF AckedStored, HasStored
<1>6. \A t \in Nodes : \A x \in net'[t] : x \in net[t]
  BY <1>1, ArriveIs
<1>7. \A o \in Nodes : RememberedStored(o)'
  BY <1>1, SameRemembered
<1>8. \A o \in Nodes : Send_Total[o] <= Send_Total'[o] /\ stored[o] \in SUBSET stored'[o]
  BY <1>1, Machine
<1> QED BY <1>2, <1>4, <1>5, <1>6, <1>7, <1>8, StepOf

LEMMA ServiceS ==
  ASSUME IInv, IInv', SInv, NEW n \in Nodes, NEW due \in SUBSET (1 .. Len(Unacked(n))),
         Service(n, due)
  PROVE  SInv'
<1>1. Carry(n, due) /\ UNCHANGED << Send_Total, Last, LastRXIndex, life, stored, since >>
  BY DEF Service
<1>2. \A o \in Nodes : o # n => sendQ'[o] = sendQ[o]
  BY ServiceIs
<1>3. PICK from : Comes(n, from)
  BY ServiceIs
<1>4. OneNumberEach(n)'
  <2>1. \A i, j \in DOMAIN sendQ[n] : sendQ[n][i].id = sendQ[n][j].id => i = j
    BY DEF SInv, OneNumberEach
  <2>2. \A i, j \in DOMAIN sendQ'[n] : sendQ'[n][i].id = sendQ'[n][j].id => from[i] = from[j]
    BY <1>3, <2>1 DEF Comes
  <2> QED BY <1>3, <2>2 DEF OneNumberEach, Comes
<1>5. AckedStored(n)'
  BY <1>3 DEF AckedStored, Comes
<1>6. ASSUME NEW t \in Nodes, NEW x \in net'[t], x \notin net[t]
      PROVE  /\ IsData(x) => MeantFor(x.from, x.id, t)
             /\ x.code # "ACK"
  <2>1. PICK j \in DOMAIN sendQ[n] :
           /\ x = Packet(sendQ[n][j].code, sendQ[n][j].id, n, life[n])
           /\ sendQ[n][j].to = t \/ (sendQ[n][j].to = Everyone /\ t # n)
    BY <1>1, <1>6, CarryIs
  <2>2. x.code = sendQ[n][j].code /\ x.id = sendQ[n][j].id /\ x.from = n
    BY <2>1 DEF Packet
  <2>3. /\ sendQ[n][j].code \in DataCodes /\ sendQ[n][j].id < Send_Total[n]
        /\ sendQ[n][j].to = Everyone => sendQ[n][j].code = "DATA_NOACK"
    BY Machine DEF IInv, TypeOK, SendEntry
  <2>4. ASSUME IsData(x) PROVE MeantFor(n, x.id, t)
    <3>1. sendQ[n][j].to = t
      BY <2>1, <2>2, <2>3, <2>4 DEF IsData
    <3>2. \A i \in DOMAIN sendQ[n] : sendQ[n][i].id = x.id => i = j
      BY <2>2 DEF SInv, OneNumberEach
    <3> QED BY <2>2, <2>3, <3>1, <3>2 DEF MeantFor
  <2> QED BY <2>2, <2>3, <2>4 DEF DataCodes
<1>7. \A o \in Nodes : RememberedStored(o)'
  BY <1>1, SameRemembered
<1>8. \A o \in Nodes : Send_Total[o] <= Send_Total'[o] /\ stored[o] \in SUBSET stored'[o]
  BY <1>1, Machine
<1>9. \A i \in DOMAIN sendQ'[n] : \E j \in DOMAIN sendQ[n] :
        /\ sendQ'[n][i].code = sendQ[n][j].code
        /\ sendQ'[n][i].id = sendQ[n][j].id
        /\ sendQ'[n][i].to = sendQ[n][j].to
  BY <1>3 DEF Comes
<1> QED BY <1>2, <1>4, <1>5, <1>6, <1>7, <1>8, <1>9, StepOf

\* A machine that enters the lobby again has never sent anything.
LEMMA InitNetworkS ==
  ASSUME OneLife, IInv, IInv', SInv, NEW n \in Nodes, Init_Network(n)
  PROVE  SInv'
<1>1. /\ sendQ' = [sendQ EXCEPT ![n] = << >>] /\ Send_Total' = [Send_Total EXCEPT ![n] = 0]
      /\ Last' = [Last EXCEPT ![n] = [i \in 0 .. Remembered - 1 |-> Nobody]]
      /\ net' = net /\ stored' = stored /\ life[n] < MaxLives[n]
  BY DEF Init_Network, Fresh
<1>2. Send_Total[n] = 0 /\ DOMAIN sendQ[n] = {}
  BY <1>1, Lives, Machine
<1>3. /\ Send_Total' = Send_Total
      /\ \A o \in Nodes : o # n => sendQ'[o] = sendQ[o]
      /\ sendQ'[n] = << >> /\ DOMAIN << >> = {}
  BY <1>1, <1>2 DEF IInv, TypeOK
<1>4. OneNumberEach(n)' /\ AckedStored(n)'
  BY <1>3 DEF OneNumberEach, AckedStored
<1>5. ASSUME NEW o \in Nodes PROVE RememberedStored(o)'
  <2>1. CASE o = n
    <3>1. \A i \in DOMAIN Last'[n] : Last'[n][i] = Nobody
      BY <1>1 DEF IInv, TypeOK
    <3>2. \A f \in Nodes, id \in Nat : << f, id >> # Nobody
      BY GlobalAssumption DEF Nobody
    <3> QED BY <2>1, <3>1, <3>2 DEF RememberedStored
  <2>2. CASE o # n
    <3>1. Last'[o] = Last[o]
      BY <1>1, <2>2 DEF IInv, TypeOK
    <3> QED BY <1>1, <3>1 DEF SInv, RememberedStored, HasStored
  <2> QED BY <2>1, <2>2
<1>6. \A o \in Nodes : Send_Total[o] <= Send_Total'[o] /\ stored[o] \in SUBSET stored'[o]
  BY <1>1, <1>3, Machine
<1>7. \A i \in DOMAIN sendQ'[n] : FALSE
  BY <1>3
<1>8. \A t \in Nodes : \A m \in net'[t] : m \in net[t]
  BY <1>1
<1> QED BY <1>3, <1>4, <1>5, <1>6, <1>7, <1>8, StepOf

LEMMA NextSInv == OneLife /\ IInv /\ IInv' /\ SInv /\ [Next]_vars => SInv'
<1> SUFFICES ASSUME OneLife, IInv, IInv', SInv, [Next]_vars PROVE SInv'
  OBVIOUS
<1>1. ASSUME NEW n \in Nodes,
             UNCHANGED << sendQ, Send_Total, Last, stored >>,
             \A t \in Nodes : \A m \in net'[t] : m \in net[t]
      PROVE  SInv'
  <2>1. \A o \in Nodes : Send_Total[o] <= Send_Total'[o] /\ stored[o] \in SUBSET stored'[o]
    BY <1>1, Machine
  <2>2. OneNumberEach(n)' /\ AckedStored(n)'
    BY <1>1, <2>1, SameSendQ
  <2>3. \A o \in Nodes : RememberedStored(o)'
    BY <1>1, SameRemembered
  <2> QED BY <1>1, <2>1, <2>2, <2>3, StepOf
<1>2. CASE Next
  <2> PICK n \in Nodes :
        \/ \E to \in (Nodes \ {n}) \cup {Everyone}, ack_req \in BOOLEAN :
             Send_Packet(n, to, ack_req)
        \/ \E m \in net[n] : Receive_Packet(n, m) \/ Lose(n, m)
        \/ Get_Packet(n)
        \/ \E due \in SUBSET (1 .. Len(Unacked(n))) : Service(n, due)
        \/ Init_Network(n)
    BY <1>2 DEF Next
  <2>1. ASSUME NEW to \in (Nodes \ {n}) \cup {Everyone}, NEW ack_req \in BOOLEAN,
               Send_Packet(n, to, ack_req)
        PROVE  SInv'
    BY <2>1, SendPacketS
  <2>2. ASSUME NEW m \in net[n], ReceiveData(n, m) PROVE SInv'
    BY <2>2, ReceiveDataS
  <2>3. ASSUME NEW m \in net[n], ReceiveAck(n, m) PROVE SInv'
    BY <2>3, ReceiveAckS
  <2>4. ASSUME NEW m \in net[n], ReceiveNoAck(n, m) PROVE SInv'
    <3>1. Arrive(n, m, {}) /\ UNCHANGED << sendQ, Send_Total, Last, stored >>
      BY <2>4 DEF ReceiveNoAck, sender
    <3>2. \A t \in Nodes : \A x \in net'[t] : x \in net[t]
      BY <3>1, ArriveIs
    <3> QED BY <1>1, <3>1, <3>2
  <2>5. ASSUME NEW m \in net[n], Lose(n, m) PROVE SInv'
    BY <1>1, <2>5 DEF Lose, sender, receiver, IInv, TypeOK
  <2>6. CASE Get_Packet(n)
    BY <1>1, <2>6 DEF Get_Packet, sender
  <2>7. ASSUME NEW due \in SUBSET (1 .. Len(Unacked(n))), Service(n, due) PROVE SInv'
    BY <2>7, ServiceS
  <2>8. CASE Init_Network(n)
    BY <2>8, InitNetworkS
  <2> QED BY <2>1, <2>2, <2>3, <2>4, <2>5, <2>6, <2>7, <2>8 DEF Receive_Packet
<1>3. CASE UNCHANGED vars
  <2>1. UNCHANGED << sendQ, Send_Total, Last, stored, net >>
    BY <1>3 DEF vars
  <2>2. CASE Nodes = {}
    BY <2>2 DEF SInv
  <2> QED BY <1>1, <2>1, <2>2
<1> QED BY <1>2, <1>3

LEMMA StoredInv == OneLife /\ IInv /\ SInv => AckMeansStored
<1> SUFFICES ASSUME OneLife, IInv, SInv, NEW n \in Nodes, NEW i \in DOMAIN sendQ[n],
                    IsData(sendQ[n][i]), sendQ[n][i].IsACK
             PROVE  HasStored(sendQ[n][i].to, n, life[n], sendQ[n][i].id)
  BY DEF AckMeansStored, IsData
<1>1. life[n] = 1
  BY Lives
<1> QED BY <1>1 DEF SInv, AckedStored

(* As long as no machine that sends enters the lobby twice, a packet is    *)
(* taken for ACKed only if the machine it was for has stored it, whatever  *)
(* is lost, repeated, refused or forgotten.                                *)
THEOREM AcksAreTrue == OneLife => (Spec => []AckMeansStored)
<1> SUFFICES ASSUME OneLife PROVE Spec => []AckMeansStored
  OBVIOUS
<1>1. IInv /\ SInv /\ IInv' /\ [Next]_vars => SInv'
  BY NextSInv
<1>2. IInv /\ SInv => AckMeansStored
  BY StoredInv
<1> QED BY <1>1, <1>2, Invariant, InitSInv, PTL DEF Spec
=============================================================================

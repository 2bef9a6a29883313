----------------------------- MODULE Connection -----------------------------
(***************************************************************************)
(* Two ConnectionClass objects (engine/net/connect.cc), one on each        *)
(* machine, talking over a network that loses, repeats and reorders.  Each *)
(* peer numbers the packets it sends, resends what is not ACKed, and reads *)
(* what it receives in order of the numbers.                               *)
(*                                                                         *)
(* The queues are the lists CommQueue implements.  Payloads are left out:  *)
(* a packet's kind and PacketID say which packet it is.  Times are left    *)
(* out: an entry sent before may or may not be due for a resend, and an    *)
(* entry being resent may or may not be past its retries or its timeout.   *)
(***************************************************************************)
EXTENDS Naturals, Sequences, FiniteSets, Sweep

CONSTANTS MaxSend, MaxReceive,   \* the queues' sizes
          IdMod,                 \* 2^32: PacketID is a uint32_t
          MaxData,               \* bound: acknowledged packets sent by each peer
          MaxNoAck               \* bound: other packets sent by each peer

Peers == {0, 1}
Other(p) == 1 - p

(* No PacketID is used twice, nor equals the initial 0xffffffff.  *)
ASSUME SizesAssumption == MaxSend \in Nat \ {0} /\ MaxReceive \in Nat \ {0}
ASSUME BoundsAssumption ==
  /\ IdMod \in Nat
  /\ MaxData \in [Peers -> Nat] /\ MaxNoAck \in [Peers -> Nat]
  /\ \A p \in Peers : MaxData[p] < IdMod /\ MaxNoAck[p] < IdMod

VARIABLES
  sendQ,          \* Queue's send entries, oldest first
  recvQ,          \* Queue's receive entries, oldest first
  NumSendAck, NumSendNoAck,   \* the next PacketID of each kind
  LastSeqID,      \* every packet up to this one has been received
  LastReadID,     \* the last packet the application has read
  net             \* net[p]: the packets on their way to p

vars == << sendQ, recvQ, NumSendAck, NumSendNoAck, LastSeqID, LastReadID, net >>

Ids == 0 .. IdMod - 1
None == IdMod - 1                  \* 0xffffffff
Succ(id) == (id + 1) % IdMod       \* uint32_t arithmetic

DataCode == {"DATA_ACK", "DATA_NOACK"}
Packet == [code : DataCode \cup {"ACK"}, id : Ids]

\* sent: SendCount > 0
SendEntry == [code : DataCode, id : Ids, sent : BOOLEAN, IsACK : BOOLEAN]
ReceiveEntry == [code : DataCode, id : Ids, IsRead : BOOLEAN]

Header(entry) == [code |-> entry.code, id |-> entry.id]

Init == /\ sendQ = [p \in Peers |-> << >>]
        /\ recvQ = [p \in Peers |-> << >>]
        /\ NumSendAck = [p \in Peers |-> 0]
        /\ NumSendNoAck = [p \in Peers |-> 0]
        /\ LastSeqID = [p \in Peers |-> None]
        /\ LastReadID = [p \in Peers |-> None]
        /\ net = [p \in Peers |-> {}]

-----------------------------------------------------------------------------
(* Send_Packet: refused when the send queue is full. *)

Enqueue(p, code, id) ==
  /\ Len(sendQ[p]) < MaxSend
  /\ sendQ' = [sendQ EXCEPT ![p] =
                 Append(@, [code |-> code, id |-> id,
                            sent |-> FALSE, IsACK |-> FALSE])]

SendAckPacket(p) ==
  /\ NumSendAck[p] < MaxData[p]
  /\ Enqueue(p, "DATA_ACK", NumSendAck[p])
  /\ NumSendAck' = [NumSendAck EXCEPT ![p] = Succ(@)]
  /\ UNCHANGED << recvQ, NumSendNoAck, LastSeqID, LastReadID, net >>

SendNoAckPacket(p) ==
  /\ NumSendNoAck[p] < MaxNoAck[p]
  /\ Enqueue(p, "DATA_NOACK", NumSendNoAck[p])
  /\ NumSendNoAck' = [NumSendNoAck EXCEPT ![p] = Succ(@)]
  /\ UNCHANGED << recvQ, NumSendAck, LastSeqID, LastReadID, net >>

Send_Packet(p) == SendAckPacket(p) \/ SendNoAckPacket(p)

-----------------------------------------------------------------------------
(* Receive_Packet: what is left of the packets for p once m has arrived, a *)
(* copy of m included when the network repeats it.                         *)

Arrive(p, m, copy) ==
  /\ m \in net[p]
  /\ net' = [net EXCEPT ![p] = IF copy THEN @ ELSE @ \ {m}]

\* An ACK marks the first entry of the send queue it is for.
ReceiveAck(p, m, copy) ==
  LET For(i) == sendQ[p][i].code = "DATA_ACK" /\ sendQ[p][i].id = m.id
      first == {i \in DOMAIN sendQ[p] : For(i) /\ \A j \in 1 .. i - 1 : ~ For(j)}
  IN  /\ m.code = "ACK"
      /\ Arrive(p, m, copy)
      /\ sendQ' = [sendQ EXCEPT ![p] =
                     [i \in DOMAIN @ |-> IF i \in first
                                         THEN [@[i] EXCEPT !.IsACK = TRUE]
                                         ELSE @[i]]]
      /\ UNCHANGED << recvQ, NumSendAck, NumSendNoAck, LastSeqID, LastReadID >>

\* A packet that needs no ACK is kept unless that would take the last slot.
ReceiveNoAck(p, m, copy) ==
  /\ m.code = "DATA_NOACK"
  /\ Arrive(p, m, copy)
  /\ recvQ' = IF Len(recvQ[p]) + 1 >= MaxReceive
              THEN recvQ
              ELSE [recvQ EXCEPT ![p] =
                      Append(@, [code |-> m.code, id |-> m.id, IsRead |-> FALSE])]
  /\ UNCHANGED << sendQ, NumSendAck, NumSendNoAck, LastSeqID, LastReadID >>

\* Packet id that needs an ACK is among the receive entries.
StoredInAnyKind(q, id) == \E i \in DOMAIN q : q[i].id = id  \* (mutant)
Stored(q, id) == \E i \in DOMAIN q : q[i].code = "DATA_ACK" /\ q[i].id = id

ResendIfSwept(p, id) == id <= LastSeqID[p] /\ LastSeqID[p] # None  \* (mutant)
Resend(p, id) == \/ id <= LastSeqID[p] /\ LastSeqID[p] # None
                 \/ Stored(recvQ[p], id)

\* The last slot is for the packet that lets LastSeqID move.
RoomForNextAnyway(p, id) ==  \* (mutant)
  Len(recvQ[p]) + 1 >= MaxReceive => id = Succ(LastSeqID[p])
RoomForAny(p, id) == Len(recvQ[p]) < MaxReceive  \* (mutant)
HasRoom(p, id) ==
  /\ Len(recvQ[p]) + 1 >= MaxReceive => id = Succ(LastSeqID[p])
  /\ Len(recvQ[p]) < MaxReceive

\* The last of the consecutive packets of q that start with id.
RunEnd(q, id) == CHOOSE last \in id .. IdMod - 1 :
                   /\ \A j \in id .. last : Stored(q, j)
                   /\ ~ Stored(q, last + 1)

StorePacket(p, m) ==
  LET q == Append(recvQ[p], [code |-> m.code, id |-> m.id, IsRead |-> FALSE])
  IN  /\ recvQ' = [recvQ EXCEPT ![p] = q]
      /\ LastSeqID' = [LastSeqID EXCEPT ![p] =
                         IF m.id = Succ(@) THEN RunEnd(q, m.id) ELSE @]

\* What the network holds once m has arrived at p and p has sent its ACK.
ArriveAndAck(p, m, copy) ==
  /\ m \in net[p]
  /\ net' = [net EXCEPT ![p] = IF copy THEN @ ELSE @ \ {m},
                        ![Other(p)] = @ \cup {[code |-> "ACK", id |-> m.id]}]

AckThoughRefused(p, m, copy) ==  \* (mutant)
  /\ m.code = "DATA_ACK"
  /\ ArriveAndAck(p, m, copy)
  /\ IF ~ Resend(p, m.id) /\ HasRoom(p, m.id) THEN StorePacket(p, m)
                                              ELSE UNCHANGED << recvQ, LastSeqID >>
  /\ UNCHANGED << sendQ, NumSendAck, NumSendNoAck, LastReadID >>
NoAckOfResend(p, m, copy) ==  \* (mutant)
  /\ m.code = "DATA_ACK"
  /\ IF ~ Resend(p, m.id) /\ HasRoom(p, m.id)
     THEN ArriveAndAck(p, m, copy) /\ StorePacket(p, m)
     ELSE Arrive(p, m, copy) /\ UNCHANGED << recvQ, LastSeqID >>
  /\ UNCHANGED << sendQ, NumSendAck, NumSendNoAck, LastReadID >>
ReceiveData(p, m, copy) ==
  /\ m.code = "DATA_ACK"
  /\ \/ /\ Resend(p, m.id)
        /\ ArriveAndAck(p, m, copy)
        /\ UNCHANGED << recvQ, LastSeqID >>
     \/ /\ ~ Resend(p, m.id) /\ ~ HasRoom(p, m.id)
        /\ Arrive(p, m, copy)
        /\ UNCHANGED << recvQ, LastSeqID >>
     \/ /\ ~ Resend(p, m.id) /\ HasRoom(p, m.id)
        /\ ArriveAndAck(p, m, copy)
        /\ StorePacket(p, m)
  /\ UNCHANGED << sendQ, NumSendAck, NumSendNoAck, LastReadID >>

Receive_Packet(p, m) == \E copy \in BOOLEAN : \/ ReceiveAck(p, m, copy)
                                              \/ ReceiveNoAck(p, m, copy)
                                              \/ ReceiveData(p, m, copy)

-----------------------------------------------------------------------------
(* Get_Packet: the first unread entry that is next in order or unordered. *)

Readable(p, i) ==
  LET entry == recvQ[p][i]
  IN  /\ ~ entry.IsRead
      /\ entry.code = "DATA_ACK" => entry.id = Succ(LastReadID[p])

GetOneNumbering(p) ==  \* (mutant)
  \E i \in DOMAIN recvQ[p] :
    /\ Readable(p, i)
    /\ \A j \in 1 .. i - 1 : ~ Readable(p, j)
    /\ recvQ' = [recvQ EXCEPT ![p][i].IsRead = TRUE]
    /\ LastReadID' = [LastReadID EXCEPT ![p] = recvQ[p][i].id]
    /\ UNCHANGED << sendQ, NumSendAck, NumSendNoAck, LastSeqID, net >>
Get_Packet(p) ==
  \E i \in DOMAIN recvQ[p] :
    /\ Readable(p, i)
    /\ \A j \in 1 .. i - 1 : ~ Readable(p, j)
    /\ recvQ' = [recvQ EXCEPT ![p][i].IsRead = TRUE]
    /\ LastReadID' = [LastReadID EXCEPT ![p] =
                        IF recvQ[p][i].code = "DATA_ACK" THEN recvQ[p][i].id ELSE @]
    /\ UNCHANGED << sendQ, NumSendAck, NumSendNoAck, LastSeqID, net >>

-----------------------------------------------------------------------------
(* Service: drops the ACKed send entries, sends those that are due, and,   *)
(* unless that found the connection bad, drops the receive entries that    *)
(* are done with.                                                          *)

Unacked(p) == Sweep(sendQ[p], {i \in DOMAIN sendQ[p] : ~ sendQ[p][i].IsACK})

\* Entries never sent are always due, others when RetryDelta has passed.
MayBeDue(q, due) == \A i \in DOMAIN q : ~ q[i].sent => i \in due

\* An entry once sent; a packet that needs no ACK is done with.
AfterSend(entry) ==
  [entry EXCEPT !.sent = TRUE,
                !.IsACK = ~ entry.sent /\ entry.code = "DATA_NOACK"]

Service_Send_Queue(p, due) ==
  LET q == Unacked(p)
  IN  /\ MayBeDue(q, due)
      /\ sendQ' = [sendQ EXCEPT ![p] =
                     [i \in DOMAIN q |-> IF i \in due THEN AfterSend(q[i]) ELSE q[i]]]
      /\ net' = [net EXCEPT ![Other(p)] = @ \cup {Header(q[i]) : i \in due}]

\* Only an entry sent before can be past its retries or its timeout.
MayBeBad(p, due) == \E i \in due : Unacked(p)[i].sent

Done(p, i) == LET entry == recvQ[p][i]
              IN  /\ entry.IsRead
                  /\ entry.code = "DATA_NOACK" \/ entry.id < LastSeqID[p]

Service_Receive_Queue(p) ==
  recvQ' = [recvQ EXCEPT ![p] = Sweep(@, {i \in DOMAIN @ : ~ Done(p, i)})]

Service(p, due) ==
  /\ Service_Send_Queue(p, due)
  /\ \/ Service_Receive_Queue(p)
     \/ MayBeBad(p, due) /\ UNCHANGED recvQ
  /\ UNCHANGED << NumSendAck, NumSendNoAck, LastSeqID, LastReadID >>

-----------------------------------------------------------------------------
(* The network loses a packet. *)
Lose(p, m) ==
  /\ m \in net[p]
  /\ net' = [net EXCEPT ![p] = @ \ {m}]
  /\ UNCHANGED << sendQ, recvQ, NumSendAck, NumSendNoAck, LastSeqID, LastReadID >>

Next == \E p \in Peers :
          \/ Send_Packet(p)
          \/ \E m \in net[p] : Receive_Packet(p, m) \/ Lose(p, m)
          \/ Get_Packet(p)
          \/ \E due \in SUBSET (1 .. Len(Unacked(p))) : Service(p, due)

Spec == Init /\ [][Next]_vars

(* What the machines do again and again: read, service the connection with *)
(* every timer expired and no limit exceeded, and receive a packet that    *)
(* the network carries often enough.                                       *)
ServiceAll(p) == /\ Service_Send_Queue(p, 1 .. Len(Unacked(p)))
                 /\ Service_Receive_Queue(p)
                 /\ UNCHANGED << NumSendAck, NumSendNoAck, LastSeqID, LastReadID >>

Numbered(code, n) == {[code |-> code, id |-> id] : id \in 0 .. n - 1}

AddressedTo(p) == UNION {Numbered("DATA_ACK", MaxData[Other(p)]),
                         Numbered("DATA_NOACK", MaxNoAck[Other(p)]),
                         Numbered("ACK", MaxData[p])}

Fairness == \A p \in Peers : /\ WF_vars(Get_Packet(p))
                             /\ WF_vars(ServiceAll(p))
                             /\ \A m \in AddressedTo(p) : SF_vars(Receive_Packet(p, m))

FairSpec == Spec /\ Fairness

-----------------------------------------------------------------------------
TypeOK ==
  /\ sendQ \in [Peers -> Seq(SendEntry)]
  /\ \A p \in Peers : Len(sendQ[p]) <= MaxSend
  /\ recvQ \in [Peers -> Seq(ReceiveEntry)]
  /\ \A p \in Peers : Len(recvQ[p]) <= MaxReceive
  /\ NumSendAck \in [Peers -> Ids] /\ NumSendNoAck \in [Peers -> Ids]
  /\ LastSeqID \in [Peers -> Ids] /\ LastReadID \in [Peers -> Ids]
  /\ net \in [Peers -> SUBSET Packet]

\* The packets p has received, respectively read, are those below these.
Received(p) == Succ(LastSeqID[p])
Got(p) == Succ(LastReadID[p])

Holds(p, i, id) == recvQ[p][i].code = "DATA_ACK" /\ recvQ[p][i].id = id

(* The receive queue against its two marks: what lies between them is      *)
(* stored, once and unread; LastSeqID stops at a packet that is missing;   *)
(* only packets already read are marked read.                              *)
ReceiveWindow ==
  \A p \in Peers :
    /\ Got(p) <= Received(p) /\ Received(p) <= NumSendAck[Other(p)]
    /\ \A id \in Got(p) .. Received(p) - 1 : Stored(recvQ[p], id)
    /\ ~ Stored(recvQ[p], Received(p))
    /\ \A i, j \in DOMAIN recvQ[p] :
         Holds(p, j, recvQ[p][i].id) /\ recvQ[p][i].code = "DATA_ACK" => i = j
    /\ \A i \in DOMAIN recvQ[p] :
         recvQ[p][i].code = "DATA_ACK" =>
           (recvQ[p][i].IsRead <=> recvQ[p][i].id < Got(p))

HasReceived(p, id) == id < Received(p) \/ Stored(recvQ[p], id)

(* An ACK tells the truth: it is on its way, or has marked an entry of the *)
(* send queue, only for a packet the partner has.                          *)
AckMeansReceived ==
  \A p \in Peers :
    /\ \A m \in net[p] : m.code = "ACK" => HasReceived(Other(p), m.id)
    /\ \A i \in DOMAIN sendQ[p] :
         sendQ[p][i].code = "DATA_ACK" /\ sendQ[p][i].IsACK
           => HasReceived(Other(p), sendQ[p][i].id)

(* Until the partner has read a packet, the packet is still to be resent   *)
(* or waits unread in the partner's queue, whatever the network lost,      *)
(* repeated or reordered.                                                  *)
NothingLost ==
  \A p \in Peers : \A id \in 0 .. NumSendAck[p] - 1 :
    \/ id < Got(Other(p))
    \/ \E i \in DOMAIN recvQ[Other(p)] :
         Holds(Other(p), i, id) /\ ~ recvQ[Other(p)][i].IsRead
    \/ \E i \in DOMAIN sendQ[p] :
         sendQ[p][i].code = "DATA_ACK" /\ sendQ[p][i].id = id
           /\ ~ sendQ[p][i].IsACK

(* connect.cc:417-421: the last slot is kept for the packet that moves     *)
(* LastSeqID, "otherwise, we'll get stuck, forever unable to increment our *)
(* LastSeqID".  Stuck is that state: a full receive queue of which nothing *)
(* can be read and nothing will be dropped.                                *)
Stuck(p) == /\ Len(recvQ[p]) = MaxReceive
            /\ \A i \in DOMAIN recvQ[p] : ~ Readable(p, i) /\ ~ Done(p, i)

NeverStuck == \A p \in Peers : ~ Stuck(p)

Channel == INSTANCE ReliableChannel
             WITH sent <- NumSendAck, got <- [p \in Peers |-> Got(p)]

(* Each peer reads the packets its partner sent with ack_req, each once,   *)
(* in order, and none that was not sent.                                   *)
ImplementsChannel == Channel!Spec

(* Every packet sent with ack_req is read in the end. *)
EventuallyRead ==
  \A p \in Peers : \A n \in 1 .. MaxData[p] :
    NumSendAck[p] >= n ~> Got(Other(p)) >= n

(* Every slot of the send queue is given back in the end, though the ACK   *)
(* of the first copy that arrived may have been lost.                      *)
SendQueueDrains == \A p \in Peers : sendQ[p] # << >> ~> sendQ[p] = << >>
=============================================================================

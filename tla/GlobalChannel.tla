---------------------------- MODULE GlobalChannel ----------------------------
(***************************************************************************)
(* The global channel of each machine (ra/net/ipxgconn.cc), over which the *)
(* lobby talks to any address before there are connections, as             *)
(* IPXManagerClass drives it.  A packet for one machine may ask for an ACK *)
(* and is then sent until it is ACKed or given up; a packet for everyone   *)
(* is sent once.  A receiver knows a resend by the sender and the PacketID *)
(* of the last few packets it stored.                                      *)
(*                                                                         *)
(* Entering the lobby anew (Init_Network) replaces the channel.  Data and  *)
(* times are left out, as in Connection.                                   *)
(***************************************************************************)
EXTENDS Naturals, Sequences, FiniteSets, Sweep

CONSTANTS Nodes,
          MaxSend, MaxReceive,   \* entries of the queues
          Remembered,    \* 4: packets remembered to detect resends
          MaxSent,       \* bound: packets a machine sends in one life
          MaxLives       \* bound: times a machine enters the lobby

ASSUME GlobalAssumption ==
  /\ MaxSend \in Nat \ {0} /\ MaxReceive \in Nat \ {0} /\ Remembered \in Nat \ {0}
  /\ MaxSent \in [Nodes -> Nat] /\ MaxLives \in [Nodes -> Nat \ {0}]
  /\ "nobody" \notin Nodes /\ "everyone" \notin Nodes

VARIABLES
  sendQ, recvQ,   \* Queue's entries, oldest first
  Send_Total,     \* packets ever queued for sending: the next PacketID
  Last,           \* LastAddress, LastPacketID
  LastRXIndex,
  net,            \* net[n]: packets on their way to n
  life,           \* times n has entered the lobby (history)
  stored,         \* ACKed packets n has ever stored (history)
  since           \* packets stored since, at most Remembered (history)

vars == << sendQ, recvQ, Send_Total, Last, LastRXIndex, net,
           life, stored, since >>
receiver == << recvQ, Last, LastRXIndex, stored, since >>
sender == << sendQ, Send_Total >>

Nobody == << "nobody", 0 >>
Everyone == "everyone"
Ids(n) == 0 .. MaxSent[n] - 1
Keys == UNION {{n} \X Ids(n) : n \in Nodes}

\* A packet on its way, with the life of the machine that sent it (or whose
\* packet it ACKs), which the program does not know.
Packet(code, id, from, lf) == [code |-> code, id |-> id, from |-> from, life |-> lf]

Fresh(n) ==
  /\ sendQ' = [sendQ EXCEPT ![n] = << >>]
  /\ recvQ' = [recvQ EXCEPT ![n] = << >>]
  /\ Send_Total' = [Send_Total EXCEPT ![n] = 0]
  /\ Last' = [Last EXCEPT ![n] = [i \in 0 .. Remembered - 1 |-> Nobody]]
  /\ LastRXIndex' = [LastRXIndex EXCEPT ![n] = 0]

Init ==
  /\ sendQ = [n \in Nodes |-> << >>]
  /\ recvQ = [n \in Nodes |-> << >>]
  /\ Send_Total = [n \in Nodes |-> 0]
  /\ Last = [n \in Nodes |-> [i \in 0 .. Remembered - 1 |-> Nobody]]
  /\ LastRXIndex = [n \in Nodes |-> 0]
  /\ net = [n \in Nodes |-> {}]
  /\ life = [n \in Nodes |-> 1]
  /\ stored = [n \in Nodes |-> {}]
  /\ since = [n \in Nodes |-> [k \in Keys |-> Remembered]]

-----------------------------------------------------------------------------
(* Send_Packet: only a packet for one machine can ask for an ACK. *)
Send_Packet(n, to, ack_req) ==
  /\ Send_Total[n] < MaxSent[n]
  /\ Len(sendQ[n]) < MaxSend
  /\ sendQ' = [sendQ EXCEPT ![n] =
       Append(@, [code |-> IF ack_req /\ to # Everyone THEN "DATA_ACK" ELSE "DATA_NOACK",
                  id |-> Send_Total[n], to |-> to, sent |-> FALSE, IsACK |-> FALSE])]
  /\ Send_Total' = [Send_Total EXCEPT ![n] = @ + 1]
  /\ UNCHANGED << receiver, net, life >>

-----------------------------------------------------------------------------
(* Receive_Packet. *)

\* m arrives; it may arrive again, until Lose.
Arrive(n, m, ack) ==
  /\ m \in net[n]
  /\ net' = [net EXCEPT ![m.from] = @ \cup ack]

Ack(n, m) == {Packet("ACK", m.id, n, m.life)}

Resend(n, m) == \E i \in DOMAIN Last[n] : Last[n][i] = << m.from, m.id >>

HasRoom(n) == Len(recvQ[n]) < MaxReceive

StoreEntry(n, m) ==
  recvQ' = [recvQ EXCEPT ![n] =
              Append(@, [code |-> m.code, id |-> m.id, from |-> m.from, IsRead |-> FALSE])]

\* Remember m in place of the packet remembered longest.
RememberPastEnd(n, m) ==  \* (mutant)
  /\ Last' = [Last EXCEPT ![n][LastRXIndex[n]] = << m.from, m.id >>]
  /\ LastRXIndex' = [LastRXIndex EXCEPT ![n] = @ + 1]
RememberInPlace(n, m) ==  \* (mutant)
  /\ Last' = [Last EXCEPT ![n][LastRXIndex[n]] = << m.from, m.id >>]
  /\ LastRXIndex' = [LastRXIndex EXCEPT ![n] = IF @ + 1 > Remembered - 1 THEN Remembered - 1
                                               ELSE @ + 1]
Remember(n, m) ==
  /\ Last' = [Last EXCEPT ![n][LastRXIndex[n]] = << m.from, m.id >>]
  /\ LastRXIndex' = [LastRXIndex EXCEPT ![n] = (@ + 1) % Remembered]

\* Histories: what n has stored, and how many packets ago.
Log(n, m) ==
  /\ stored' = [stored EXCEPT ![n] = @ \cup {<< m.from, m.life, m.id >>}]
  /\ since' = [since EXCEPT ![n] =
                 [k \in Keys |-> IF k = << m.from, m.id >> THEN 0
                                 ELSE IF @[k] < Remembered THEN @[k] + 1 ELSE @[k]]]

AckWithoutRoom(n, m) ==  \* (mutant)
  /\ m.code = "DATA_ACK"
  /\ Arrive(n, m, Ack(n, m))
  /\ IF Resend(n, m) \/ ~ HasRoom(n) THEN UNCHANGED receiver
     ELSE StoreEntry(n, m) /\ Remember(n, m) /\ Log(n, m)
  /\ UNCHANGED << sender, life >>
ReceiveData(n, m) ==
  /\ m.code = "DATA_ACK"
  /\ \/ /\ Resend(n, m)
        /\ Arrive(n, m, Ack(n, m))
        /\ UNCHANGED receiver
     \/ /\ ~ Resend(n, m) /\ HasRoom(n)
        /\ Arrive(n, m, Ack(n, m))
        /\ StoreEntry(n, m) /\ Remember(n, m) /\ Log(n, m)
     \/ /\ ~ Resend(n, m) /\ ~ HasRoom(n)
        /\ Arrive(n, m, {})
        /\ UNCHANGED receiver
  /\ UNCHANGED << sender, life >>

ReceiveNoAck(n, m) ==
  /\ m.code = "DATA_NOACK"
  /\ Arrive(n, m, {})
  /\ IF HasRoom(n) THEN StoreEntry(n, m) ELSE UNCHANGED recvQ
  /\ UNCHANGED << sender, Last, LastRXIndex, stored, since, life >>

\* An ACK is for the first entry of its PacketID, whoever sent the ACK.
AcksEntry(n, m, i) == sendQ[n][i].code = "DATA_ACK" /\ sendQ[n][i].id = m.id

ReceiveAck(n, m) ==
  /\ m.code = "ACK"
  /\ Arrive(n, m, {})
  /\ sendQ' = [sendQ EXCEPT ![n] =
       [i \in DOMAIN @ |->
          IF AcksEntry(n, m, i) /\ \A j \in 1 .. i - 1 : ~ AcksEntry(n, m, j)
          THEN [@[i] EXCEPT !.IsACK = TRUE] ELSE @[i]]]
  /\ UNCHANGED << receiver, Send_Total, life >>

Receive_Packet(n, m) == \/ ReceiveData(n, m)
                        \/ ReceiveNoAck(n, m)
                        \/ ReceiveAck(n, m)

-----------------------------------------------------------------------------
(* Get_Packet: the head of the receive queue, unless it is read already. *)
Get_Packet(n) ==
  /\ recvQ[n] # << >> /\ ~ recvQ[n][1].IsRead
  /\ recvQ' = [recvQ EXCEPT ![n][1].IsRead = TRUE]
  /\ UNCHANGED << sender, Last, LastRXIndex, stored, since, net, life >>

-----------------------------------------------------------------------------
(* IPXManagerClass::Service: the channel is serviced as any connection; if *)
(* it has gone bad, the manager drops the head of its send queue.          *)

Unacked(n) == Sweep(sendQ[n], {i \in DOMAIN sendQ[n] : ~ sendQ[n][i].IsACK})

AfterSend(entry) == [entry EXCEPT !.sent = TRUE,
                                  !.IsACK = ~ entry.sent /\ entry.code = "DATA_NOACK"]

AfterService(n, due) ==
  LET q == Unacked(n)
  IN  [i \in DOMAIN q |-> IF i \in due THEN AfterSend(q[i]) ELSE q[i]]

\* A packet for everyone reaches everyone else.
Carry(n, due) ==
  LET q == Unacked(n)
      For(t) == {i \in due : q[i].to = t \/ (q[i].to = Everyone /\ t # n)}
  IN  net' = [t \in Nodes |-> net[t] \cup
                {Packet(q[i].code, q[i].id, n, life[n]) : i \in For(t)}]

Service_Receive_Queue(n) ==
  recvQ' = [recvQ EXCEPT ![n] = Sweep(@, {i \in DOMAIN @ : ~ @[i].IsRead})]

ServiceGood(n, due) ==
  /\ sendQ' = [sendQ EXCEPT ![n] = AfterService(n, due)]
  /\ Service_Receive_Queue(n)

\* The head is the entry that has been sent the longest: if any has exceeded
\* the timeout, it has.
ServiceBadKeeping(n, due) ==  \* (mutant)
  /\ \E i \in due : Unacked(n)[i].sent
  /\ sendQ' = [sendQ EXCEPT ![n] = AfterService(n, due)]
  /\ UNCHANGED recvQ
ServiceBad(n, due) ==
  /\ \E i \in due : Unacked(n)[i].sent
  /\ sendQ' = [sendQ EXCEPT ![n] = Tail(AfterService(n, due))]
  /\ UNCHANGED recvQ

Service(n, due) ==
  /\ LET q == Unacked(n) IN \A i \in DOMAIN q : ~ q[i].sent => i \in due
  /\ UNCHANGED << Send_Total, Last, LastRXIndex, life, stored, since >>
  /\ ServiceGood(n, due) \/ ServiceBad(n, due)
  /\ Carry(n, due)

-----------------------------------------------------------------------------
(* Init_Network: the machine enters the lobby again.  Packets on their way *)
(* stay on their way.                                                      *)
Init_Network(n) ==
  /\ life[n] < MaxLives[n]
  /\ life' = [life EXCEPT ![n] = @ + 1]
  /\ Fresh(n)
  /\ since' = [since EXCEPT ![n] = [k \in Keys |-> Remembered]]
  /\ UNCHANGED << net, stored >>

Lose(n, m) ==
  /\ m \in net[n]
  /\ net' = [net EXCEPT ![n] = @ \ {m}]
  /\ UNCHANGED << sender, receiver, life >>

Next == \E n \in Nodes :
          \/ \E to \in (Nodes \ {n}) \cup {Everyone}, ack_req \in BOOLEAN :
               Send_Packet(n, to, ack_req)
          \/ \E m \in net[n] : Receive_Packet(n, m) \/ Lose(n, m)
          \/ Get_Packet(n)
          \/ \E due \in SUBSET (1 .. Len(Unacked(n))) : Service(n, due)
          \/ Init_Network(n)

Spec == Init /\ [][Next]_vars

(* The manager services the channel again and again, and time passes: the  *)
(* head of the send queue comes up for a resend, and one that was sent     *)
(* before has exceeded the timeout, which Set_Timing always gives.         *)
HeadExpires(n) ==
  LET q == Unacked(n)
  IN  \E due \in SUBSET DOMAIN q :
        /\ q # << >> => 1 \in due
        /\ Service(n, due)
        /\ q # << >> /\ q[1].sent => ServiceBad(n, due)

FairSpec == Spec /\ \A n \in Nodes : WF_vars(HeadExpires(n))

-----------------------------------------------------------------------------
DataCodes == {"DATA_ACK", "DATA_NOACK"}
SendEntry == [code : DataCodes, id : Nat, to : Nodes \cup {Everyone},
              sent : BOOLEAN, IsACK : BOOLEAN]
ReceiveEntry == [code : DataCodes, id : Nat, from : Nodes, IsRead : BOOLEAN]
Packets == [code : DataCodes \cup {"ACK"}, id : Nat, from : Nodes, life : Nat]

(* Each variable holds what its declaration says; only a packet for one     *)
(* other machine ever asks for an ACK.                                      *)
TypeOK ==
  /\ sendQ \in [Nodes -> Seq(SendEntry)] /\ recvQ \in [Nodes -> Seq(ReceiveEntry)]
  /\ Send_Total \in [Nodes -> Nat]
  /\ Last \in [Nodes -> [0 .. Remembered - 1 -> Keys \cup {Nobody}]]
  /\ LastRXIndex \in [Nodes -> 0 .. Remembered - 1]
  /\ net \in [Nodes -> SUBSET Packets]
  /\ life \in [Nodes -> Nat] /\ stored \in [Nodes -> SUBSET (Nodes \X Nat \X Nat)]
  /\ since \in [Nodes -> [Keys -> 0 .. Remembered]]
  /\ \A n \in Nodes :
       /\ Len(sendQ[n]) <= MaxSend /\ Len(recvQ[n]) <= MaxReceive
       /\ \A i \in DOMAIN sendQ[n] :
            /\ sendQ[n][i].id < Send_Total[n] /\ sendQ[n][i].to # n
            /\ sendQ[n][i].to = Everyone => sendQ[n][i].code = "DATA_NOACK"

(* "Check for a resend by comparing ... with our last 4 received packets":  *)
(* the ring of addresses and PacketIDs holds the packets stored last, each  *)
(* once, and no others, however many times it has gone round; so a packet   *)
(* is taken a second time only when Remembered others came between.         *)
RemembersLatest ==
  \A n \in Nodes :
    /\ \A k \in Keys : since[n][k] < Remembered
                       <=> \E i \in DOMAIN Last[n] : Last[n][i] = k
    /\ \A i, j \in DOMAIN Last[n] : Last[n][i] = Last[n][j] => i = j \/ Last[n][i] = Nobody

HasStored(to, n, lf, id) == << n, lf, id >> \in stored[to]

(* "If it's not a resend, queue it", and no ACK "if we didn't have room to  *)
(* store the packet": an entry of the send queue is marked ACKed only if    *)
(* the machine it is for has stored that packet.                            *)
AckMeansStored ==
  \A n \in Nodes : \A i \in DOMAIN sendQ[n] :
    sendQ[n][i].code = "DATA_ACK" /\ sendQ[n][i].IsACK =>
      HasStored(sendQ[n][i].to, n, life[n], sendQ[n][i].id)

(* "This will keep the Global Channel from being clogged by one un-ACK'd    *)
(* outgoing packet" (IPXManagerClass::Service): whatever is lost, and even  *)
(* if nobody answers, the send queue has room again and again.              *)
NeverClogged == \A n \in Nodes : []<>(Len(sendQ[n]) < MaxSend)
=============================================================================

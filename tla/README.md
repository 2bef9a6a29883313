# Red Alert: a formal model of the network game and of production

Red Alert plays a network game in lockstep: every machine runs the whole game,
and the machines exchange only the players' commands. If one machine executes a
command on another frame than the others, or in another order, or not at all,
the games drift apart for good. Whether that can happen depends on the code
between the sockets and the game: the packet queues, the connections that
number, acknowledge and resend packets, and the loop that decides when a machine
may go on to its next frame. Behind the loop stand the commands themselves: what
a player clicks on is judged when the mouse button goes down, and takes effect
some frames later, when the game may have changed. Nowhere does that matter more
than where objects are built for money.

This directory models that code in TLA+, model-checks it with TLC and proves the
safety properties with TLAPS for every value of the constants.

Source paths below are relative to `src/src/` (`engine/net/...` is
`src/src/engine/net/...`).

## 1. Inventory

### Components modelled

| Component | State | Operations | Talks to |
|---|---|---|---|
| **CommBufferClass** `engine/net/combuf.cc` | two fixed arrays of slots, an index array and a count for each | `Queue_*`, `UnQueue_*`, `Get_*`, `Init_Send_Queue`, `Init` | owned by one ConnectionClass |
| **ConnectionClass** `engine/net/connect.cc` | a CommBufferClass, `NumSendAck`, `NumSendNoAck`, `LastSeqID`, `LastReadID`, retry limits | `Send_Packet`, `Receive_Packet`, `Get_Packet`, `Service` | its twin on the other machine, through a network that loses, repeats and reorders |
| **Queue_AI** `ra/net/queue.cc` | `Frame`, `my_sent`, `their_frame[]`, `their_sent[]`, `their_recv[]`, `Session.MaxAhead`, `NewMaxAheadFrame1/2`, `DoList`, `OutList` | `Queue_AI_Multiplayer` and what it calls: `Wait_For_Players`, `Send_Packets`, `Send_FrameSync`, `Process_Receive_Packet`, `Can_Advance`, `Handle_Timeout`, `Execute_DoList`, `Clean_DoList` | one connection per other player, the events it executes |
| **Events** `ra/net/event.cc` | none of their own | `EventClass::Execute`; TIMING and EXIT change the synchronisation | `MaxAhead`, the connections |
| **Destroy_Connection** `ra/net/netdlg.cc` | players, houses, connections | called by EXIT and by the timeout | IPXManagerClass |
| **IPXManagerClass** `engine/net/ipxmgr.cc` | the connections, in order; the global channel | `Init`, `Service`, `Send_Private_Message`, `Connection_Index`, `Delete_Connection`, ... | connections, global channel, sockets |
| **IPXGlobalConnClass** `ra/net/ipxgconn.cc` | a CommBufferClass, the senders and numbers of the last four packets stored | `Send_Packet`, `Receive_Packet`, `Get_Packet`, `Service` | the global channels of all other machines, before there are connections |
| **FactoryClass** `ra/objects/factory.cc` and its heap `game/core/object_heap.cc` | the object, its owner, what is still to be paid, the stage, suspended or not; which slots are allocated | `Set`, `Start`, `Suspend`, `Abandon`, `Completed`, `AI`, `Has_Changed`; allocation and release | its house's money; the heaps of objects |
| **HouseClass**, production and money `ra/objects/house.cc` | a factory number for each kind of object, credits, tiberium, capacity | `Begin_`, `Suspend_`, `Abandon_Production`, `Place_Object`, `Spend_Money`, `Refund_Money`, `Harvested`, `Adjust_Capacity` | factories, the sidebar, the plants that let objects out |
| **Sidebar** `ra/map/sidebar.cc`, `ra/map/display.cc` | a factory number for each button; the building about to be placed | left and right click, `StripClass::AI`, click on the map | reads the factories, orders by events |
| **BuildingClass**, production `ra/objects/building.cc` | the factory of a computer's building; radio contact, the door | `Factory_AI`, `Exit_Object`, `Mission_Unload`, `Detach_All`, `Captured` | factories, the house |

What makes each of them hard, and right:

- *CommBufferClass.* Any entry may be taken out, not only the head, and the slot
  array and the index array must agree after any series of that. Right means: no
  slot leaked or listed twice, and the users see an ordered list.
- *ConnectionClass.* Packets arrive repeated, late and out of order; the receive
  queue is small, and full queues refuse packets; two kinds of packets share one
  numbering scheme. Right means: what was sent with `ack_req` is read once, in
  order, and eventually; an ACK is never sent for a packet that was refused.
- *Queue_AI.* Each machine goes on as soon as *it* may; it hears of the others
  through packets that carry commands (reliable, in order) and packets that do
  not (unreliable, in any order, and overtaking the first). `MaxAhead` changes
  while the game runs, and machines execute the change at different moments.
  Players leave, or vanish. Right means: no command reaches a machine that has
  passed its frame, every machine executes the same, and nobody waits for ever.

- *IPXGlobalConnClass.* Packets come from anywhere, so there is no sequence to
  go by: a resend is recognised among the last four packets stored. Right means:
  the four are the last four, whatever is refused or repeated; an ACK means the
  packet was stored; a packet nobody answers does not stop the others.
- *Production.* Houses, buttons and buildings refer to factories by their place in
  a heap of 20 slots that all houses share, and slots are used again. Orders
  are decided on by the state seen when clicked and executed later, perhaps twice
  for one object. Several factories draw on one account, in instalments that are
  rounded down, while silos with the money in them come and go. Right means: no
  house works on another's factory, nobody gets into debt, what is finished is
  paid, and no credit is made or lost.

### Components not modelled

Section 5 says what is left out and why, and
`PROJECT.json` lists every component with its status.

### Hazards

`PROJECT.json` lists them at the lines where they bite, with the properties that
would catch each going wrong. They are what the properties were chosen for.

## 2. Modules

```
FifoQueue         a bounded list with removal anywhere and marking   (abstract)
  ^ implemented by
CommQueue         slots, index array, count                    CommQueueProofs
ReliableChannel   two counters a side: sent, read                     (abstract)
  ^ implemented by
Connection        two ConnectionClass objects and the network  ConnectionProofs
GlobalChannel     the global channels of all machines       GlobalChannelProofs
Lockstep          N machines; its channels are              LockstepProofs,
                  ReliableChannels                    LockstepHistoryProofs
Production        factories, two houses, sidebar, orders       ProductionProofs
Sweep             removal by mark, used by Connection,
                  GlobalChannel and Lockstep                        SweepProofs
Sums              a sum over slots or entries, used by
                  Lockstep and Production                            SumProofs
MC*               the instances TLC runs
```

The layers meet at their abstract specifications: Connection's queues are the
lists of FifoQueue, and Lockstep's packets with commands travel over what
ReliableChannel promises. Production's queue of events is what Lockstep does with
commands, seen from one machine: they are executed in the order they were given,
later. Every machine executes the same ones, so one copy of the houses will do.

Operators marked `(mutant)` are plausible bugs in the definition below them. No
specification uses them; they are kept to show that each property can fail.

### CommQueue

One queue of `CommBufferClass`. `Queue` is `SendQueue` (slot number to slot),
`Index` is `SendIndex`, `Count` is `SendCount`; the receive queue's code differs
in names only. `Enqueue` is `Queue_Send` with its two refusals (full, no free
slot) as guards; `UnQueue(i)` is `UnQueue_Send` for the entry at position i, with
the loop that moves the later indices back; `MarkEntry` is what callers do
through the pointer `Get_Send` returns; `InitQueue` is `Init_Send_Queue`, which
clears flags and indices and leaves the bytes. `Items` is the list that
`Get_Send(0)`, `Get_Send(1)`, ... return, and the refinement mapping to FifoQueue.

### Connection

The two ends of one connection, 0 and 1. `net[p]` is the set of packets on their
way to p: a set, since the network reorders; receiving with `copy` TRUE leaves the
packet there, which is repetition; `Lose` takes one away. Payloads are left out: a
packet is its kind and `PacketID`.

- `SendAckPacket`, `SendNoAckPacket`: `Send_Packet` with and without `ack_req`.
- `ReceiveAck`, `ReceiveNoAck`, `ReceiveData`: the three parts of
  `Receive_Packet`. The third has three cases: a resend (ACKed again, not
  stored), no room (neither), and a new packet (stored, ACKed, and if it is the
  next in order, `LastSeqID` runs up over the packets already stored).
- `Get_Packet`: the first unread entry that is next in order or needs no order.
- `Service`: `Service_Send_Queue` then, unless the connection has gone bad,
  `Service_Receive_Queue`. Time is left out: which entries sent before are due
  again (`due`) and whether one is past its limits is a choice.

`None` is `0xffffffff`, where `LastSeqID` and `LastReadID` start; `IdMod` is 2^32
and `Succ` wraps. The model assumes that no `PacketID` is used twice
(`BoundsAssumption`): at 15 packets a second that takes nine years.

### Lockstep

One `Queue_AI_Multiplayer` on each machine, under `COMM_PROTOCOL_MULTI_E_COMP`,
the protocol of the released game. A step is one frame at which packets are due:
between them `Queue_AI_Multiplayer` returns early.

- `phase` says where a machine is: on frame 0 waiting to hear from all
  (`ready`), about to send (`send`), in `Wait_For_Players` (`wait`), gone
  (`left`), or stopped with Packet-Received-Too-Late (`late`).
- `chan[q][p]` holds the packets with commands, in order; `info[q][p]` those
  without (FRAMESYNC and FRAMEINFO), as a set. `MayLose` says whether they get
  lost. It matters for liveness only: a packet that is never received is as good
  as lost. Packets that would change nothing at the receiver are not kept
  (`Tells`), which keeps the state space finite.
- `Send_Packets` adds the user's commands, the master's TIMING event, which may
  stand anywhere among them (`WithTiming`), and perhaps an EXIT to `DoList`, each
  with its frame and its sender (`NewEvent`), and sends them, as many to a packet
  as fit. All packets of one call carry the `CommandCount` from before the call.
- `ReceiveCommands`, `ReceiveInfo`: `Process_Receive_Packet` on the one and the
  other kind. Both marks (`their_frame`, `their_sent`) only go up.
- `AllReady` ends the wait on frame 0 and takes the marks back to 0.
- `Advance` is the return from `Wait_For_Players` once `Can_Advance` holds, then
  `Execute_DoList` (reschedule what falls in the period of vulnerability, run
  what is due, house by house, events applied one by one to the machine's state)
  and `Clean_DoList`. When an event is due whose frame has passed, the machine
  stops (`late`).
- `Handle_Timeout` removes the player last heard of at the oldest frame;
  `GiveUp` is its form on frame 0. `Destroy_Connection` moves the arrays
  indexed by connection with the connections.
- `sent`, `executed` and `timing` are history: what a machine has sent, what it
  executed and on which frame, and which MaxAhead, period of vulnerability and
  humans it had at each frame it has reached.

When a machine closes a connection, packets it had sent and not yet had
acknowledged may never arrive: `CloseConnections` keeps some prefix of them.

Left out of the loop: the IPX game's limit on how many events `Send_Packets`
takes when packets wait in the send queue (an internet game sends the whole
`OutList`), so a TIMING event always leaves on the first send frame after it is
due; the CRC comparison of FRAMEINFO; PROCESS_TIME and other housekeeping events,
which travel like commands; the `DoList`'s capacity, and with it the `Add` that
fails (queue.cc:2867); the send queues' capacity, and with it the packets that
`Send_Private_Message` refuses while `Send_Packets`, which does not look, has
entered their events in `DoList` and `my_sent` (queue.cc:1696, a hazard without a
property); a user who cancels the reconnect dialog (`RC_CANCEL`, queue.cc:1073) and
machines that find that their scenarios differ (`RC_SCENARIO_MISMATCH`), which both
end the game; modem serial packets; the older protocols; the start from a saved
game. A machine that stops with Packet-Received-Too-Late may have executed earlier
events of that frame.

### GlobalChannel

The global channels of a few machines, as `IPXManagerClass::Service` drives them.
`sendQ` and `recvQ` are the lists of FifoQueue; `Send_Total`, which the queue
counts, numbers the packets; `Last` and `LastRXIndex` are the ring of packets
remembered. The code has one size for both queues (`Glb_NumPackets`); the model,
like the constructor, takes two.

- `Send_Packet`: to one machine or to everyone; only the first may ask for an ACK.
- `ReceiveData`: a resend (ACKed), a new packet (stored, remembered, ACKed) or no
  room (nothing). `ReceiveNoAck` stores without remembering. `ReceiveAck` marks
  the first entry of that number, whoever the ACK is from.
- `Service` is the inherited `Service_Send_Queue` and the channel's own
  `Service_Receive_Queue`; `ServiceBad` is the case that an entry has exceeded the
  timeout: the receive queue is left alone and the manager drops the head of the
  send queue.
- `Init_Network` replaces the channel when the machine enters the lobby again.

A packet in `net` carries the `life` of its sender, which the program does not
know; `stored` and `since` are history too. A packet stays in `net` until `Lose`,
so it may arrive any number of times.

### Production

One player and one computer house, the heap of factories they share, and the room
for objects. `factory` is the array of slots, allocated (`used`) or not: a number
may be kept after its slot was freed, and then names whatever is there. `index`
is `UnitFactory`, `BuildingFactory` (player) and the `Factory` of a building
(computer); `button` the sidebar's; `events` the player's orders under way.

- `FactoryAI` is a step of `FactoryClass::AI` that is due. With the money for the
  instalment it is paid (`Paid`), without it the stage goes back (`SteppedBack`);
  then, in either case, the last stage ends production and pays what is left
  without looking at the money (`Ended`). `CostPerTick` divides what is still due
  by the stages left once the stage has gone up, so everything is due one step
  before the last and the last one is free.
- `ExecuteEvent` executes the oldest order: `BeginProduction` (`Restart` if the
  house has a factory of the kind, `Begin` if the heap has one, with the case
  that there is no room for the object; `PoolEmpty`), `SuspendProduction`,
  `AbandonProduction`, `PlaceObject`.
- `LeftClick`, `RightClick`, `ClickMap`, `CancelPlacing` are the player,
  `Announce` is the sidebar, which lets a finished unit out by itself.
- `ComputerBegin`, `ComputerExit`, `ComputerAbort` are `Factory_AI`. Which object
  is suggested is a choice.
- `PlaceObject` and `ComputerExit` contain `Exit_Object` with its three answers.
  `plant` says in which state the building is: in radio contact with the object
  before (`busy`), with its door still open (`closing`), or free. `ContactEnds`
  and `DoorCloses` are `Mission_Unload`.
- `LosePlant` is `Detach_All`, which destruction, sale and capture all lead to
  (`Captured` deletes a computer's factory first, whose destructor abandons it:
  the same). `GainPlant` is a new one. `Destroyed` frees the room of an object,
  `Harvested` and `LoseSilo` move the money.
- `gone`, `stranded` and `refused` are history: the price of what left, objects
  that nothing refers to, and whether an object ever found no room.

Left out: time (the rate of a factory, power, `PlacementDelay`), so steps fall
due in any order; more than one plant of a kind in a house; special weapons,
which Red Alert never builds in a factory; other spending and income (repairs,
thieves, crates, the booty of a capture), each of which changes the credits of
one house in one assignment. The entries of the sidebar's strips neither come nor
go: `Recalc`, which takes out an entry whose prerequisites are lost and moves those
after it up, and `Add`, which leaves the factory number of the place it fills
(sidebar.cc:1833 and 1273, a hazard without a property), are not modelled, and no
run checks what the buttons show. `Has_Changed` is modelled for the change
that `Announce` waits for, the completion.

## 3. What is checked

| Run | Bounds | Shows |
|---|---|---|
| `queue` | 4 slots, 2 packets | `TypeOK`, `SlotsAccounted`, `RoomMeansFreeSlot`, `ImplementsFifo` |
| `connection` | send 3, receive 3; three acknowledged packets and one unacknowledged, one way | `TypeOK`, `ReceiveWindow`, `AckMeansReceived`, `NothingLost`, `ImplementsChannel` |
| `connection_live` | send 2, receive 2, three packets one way | `EventuallyRead`, `SendQueueDrains` |
| `connection_stuck` | send 3, receive 2, three packets one way | **violation** of `NeverStuck` |
| `lockstep` | 2 players, sending every 2nd frame, MaxAhead 4 and 8, TIMING every 9 frames, 1 command, 28 frames | `TypeOK`, `NeverTooLate`, `SameHistory`, `SameTiming`, `ReceivedAllMeansCountsOK`, `NobodyOutruns` |
| `lockstep_leave` | 3 players, the second may leave, 1 command, 3 frames | `SameHistory`, `SameTiming`, `CountsAgree` |
| `lockstep_live` | 2 players, MaxAhead 2 to 3, 4 frames, losses, one may leave, time-outs | `EveryoneAdvances` |
| `lockstep_timeout` | 3 players, the second may time out | **violation** of `SameHistory` |
| `global` | 2 machines, send 2, receive 1, 2 remembered, three packets, the receiver may enter the lobby twice | `TypeOK`, `RemembersLatest`, `AckMeansStored`, `NeverClogged` |
| `global_again` | the same, the sender enters twice | **violation** of `AckMeansStored` |
| `production` | 2 factories, a unit and a structure, price 1, 3 steps, room for 2 of a kind, 1 credit and 1 of ore, 2 orders under way | `TypeOK`, `NoDebt`, `BooksBalance`, `BalanceFollowsStage`, `OwnFactoriesWithRoom` |
| `production_stranded` | the same, 2 credits, 2 steps | **violation** of `NothingStranded` |

Why the bounds are enough:

- *queue*: four slots have removals at the head, at the tail and at two middle
  positions, before and after slots were reused out of order. The theorems of
  section 4 cover every size.
- *connection*: three slots hold the unacknowledged packet and two others, so that
  packets wait out of order, are repeated while they wait, fill the slots but the
  last, and are refused. The two kinds are numbered from 0 both, so that packet 0
  of the one is taken for that of the other if the code mixes them up. The two
  directions share nothing but the network. Section 4 covers every size and both
  directions.
- *lockstep*: `TimingPeriod` stands for 128. 28 frames hold three TIMING
  events, so MaxAhead can rise, fall and rise again while events sent before
  each change are on their way; sending every second frame is what `RoundUp` and
  the multiples are for. `MaxAheadAssumption` (multiples of the send rate, at
  least twice it, below the period) is what `Generate_Real_Timing_Event`
  guarantees. With three players, `lockstep_leave` takes out the middle one, so
  that the arrays move at one player and not at the other; it starts after the
  wait on frame 0 (`StartedSpec`), which is checked with two players.
- *global*: with two remembered, the third packet takes the ring round, while
  resends of the first are on their way; a receive queue of one refuses packets;
  a send queue of two holds one packet up behind another.
- *production*: two slots are fewer than the three factories that the player's unit,
  its structure and the computer's unit ask for, so the heap runs empty and slots
  change hands. Room for two objects of a kind runs out too. A price of 1 in
  three steps comes in instalments of 0, 1 and, for the last step, 0: the first is
  rounded down and the second is what that left over; with 1 credit for two objects,
  a factory stalls where it has to pay and goes back, again and again. Two
  orders under way are two for one object, or one that the first makes stale.
  The plants of units may be lost, the construction yard may not: its loss is the
  same code.
- `CountMod` is 2^16 everywhere, and no run sends as many commands (see below).

Deadlock is checked in every run but `lockstep_live` and the `production` runs:
there the game is over once everyone has left, and a house with no money and
nothing to harvest may have nothing left to do. In the other Lockstep runs the
repeated FRAMESYNC goes on, in GlobalChannel the servicing.

### Fairness

*Connection* (`FairSpec`). The application reads again and again (weak fairness
of `Get_Packet`), the manager services every connection in every pass and no
limit is exceeded (weak fairness of `ServiceAll`, with every timer expired), and
the network carries a packet that is sent over and over at least sometimes (strong
fairness of `Receive_Packet` for each packet). Between two such services there may
be any number that find an entry past its limits (`MayBeBad`) and leave the receive
queue alone. Service sends again what is not
ACKed for as long as it is not, which makes the last one the weakest useful
assumption on a lossy network.

*Lockstep* (`FairSpec`). A machine's own steps are weakly fair: the loop runs. A
packet with commands arrives (weak fairness of `ReceiveCommands`): this is what
Connection's `EventuallyRead` establishes. Of the FRAMESYNC that
`Wait_For_Players` repeats, some copy gets to each partner (strong fairness).
The timeout timer runs out if nothing happens for long enough (weak fairness of
`Handle_Timeout` and `GiveUp`, which are enabled only for players of
`Unresponsive`, the machines whose connection can break). In `lockstep_live`
(`OnlyGone`) a connection times out in mid-game only if the other side has
closed it, so that it is the FRAMESYNC, not the timeout, that has to free two
machines waiting for each other.

*GlobalChannel* (`FairSpec`). `Service` is called in every pass of the lobby loop
and time goes on, so the head of the send queue is due again and again and, once
sent, exceeds the timeout, which every `Set_Timing` of the lobby gives
(`HeadExpires`). Nothing is assumed of the network.

### The disagreements found

1. `connection_stuck`: the receive queue keeps its last slot for the packet that
   moves `LastSeqID`, "otherwise, we'll get stuck" (connect.cc:418-420). That is
   not enough before the first packet was dropped: `Service_Receive_Queue` drops
   read entries *below* `LastSeqID` only. Let later packets fill all slots but
   one; packet 0 takes the last and is read; it is not dropped (0 is not below
   0); packet 1 finds no slot, for ever. It takes a sender as many packets ahead
   as the receive queue has slots plus one. `connection_live` therefore bounds
   the packets in flight by a send queue of two; with three `EventuallyRead`
   fails for this reason.
2. `lockstep_timeout`: a timeout is a local decision. One machine has the
   vanished player's last command and executes it; another times the player out
   before it arrived and drops it. The two games differ from then on.
3. `global_again`: "if it's not a resend, queue it" (ipxgconn.cc:275). The numbers
   that tell a resend start at 0 again when a machine enters the lobby anew. The
   others may remember its old packets, and old packets and ACKs may still be on
   their way; then a new packet is marked ACKed though nobody stored it.
   `AckMeansStored` holds as long as senders do not restart, also if the receiver
   does.

4. `production_stranded`: `Exit_Object` answers 0 (no), 1 ("temporarily prevented
   (try again later please)", building.cc:2384) or 2 (out). `Place_Object` takes
   every answer but 0 for success, gives the object up and frees the factory
   (house.cc:2732). A weapons factory answers 1 while it closes its door behind
   a unit; the next one, if it completes then, is paid for and never seen again.
   Without that state `NothingStranded` holds.

Three more limits of the code show at other bounds than those of the runs:

- The command counters are `uint16_t` (queue.cc:1866). `their_sent` is a maximum
  and `their_recv` a count that wraps: after 65536 commands of one player the
  others wait though they have received everything. With `CountMod` 4 and 4
  commands TLC finds `ReceivedAllMeansCountsOK` violated; below the wrap it holds.
- `Begin_Production` enters the new factory in the house before it knows whether
  `Set` finds room for the object, and does not take it back (house.cc:2181). The
  house then keeps the number of a free slot, which the next factory of any house
  gets: `OwnFactories` fails. `OwnFactoriesWithRoom` is what holds: up to the
  first refusal. `TypeOK`, `NoDebt`, `BalanceFollowsStage` and `BooksBalance` hold
  beyond it.
- Two PRODUCE orders for different items of one kind, the second given before the
  first is executed, link two buttons to one factory: `ButtonsShowTheirItem` fails
  with two units to choose from.

One sentence of the comments holds only in a weaker form: no system is more than
`MaxAhead` frames ahead of another (above `Queue_AI_Multiplayer`). When TIMING lowers
`MaxAhead`, one that used the old lead is, for a while. What the code does
guarantee, and what keeps packets from being too late, is `NobodyOutruns`: nobody
*advances* past the lead in force.

## 4. What is proved

`CommQueueProofs`, for every number of slots and every set of packets, from
`SizeAssumption` (at least one slot) and `DataAssumption`:

- `SlotsAreAccounted`: `Spec => [](TypeOK /\ SlotsAccounted)`. The inductive
  invariant is `IInv == TypeOK /\ SlotsAccounted`; one lemma for each action.
  `UnQueue` is the interesting one: the shift renumbers the positions, and the
  witness for a slot that stays active moves with them.
- `RoomIsUsable`: below the maximum a free slot exists. The indices below `Count`
  are fewer than the slots and name every active slot, so a slot is inactive;
  the least such slot (lemma `LeastNatural`, from the well-foundedness of the
  naturals) is the one the scan stops at.
- `QueueImplementsFifo`: `Spec => Fifo!Spec` under the mapping `Items`. Each
  action maps to the list operation of its name: lemmas `EnqueueIsPut`,
  `UnQueueIsTake`, `MarkEntryIsMark`, `InitQueueIsClear`. They need `IInv`: taking
  out position i changes no other item only because no two positions share a slot.

`ConnectionProofs`, for every size of the queues, number of packets and packet
number, from `SizesAssumption` and `BoundsAssumption` (no `PacketID` is used twice):

- `TypesHold`, `WindowHolds`, `AcksAreTrue`, `NoPacketLost`: `TypeOK`,
  `ReceiveWindow`, `AckMeansReceived` and `NothingLost`.
- `ConnectionIsReliable`: `Spec => Channel!Spec`, with what is read only once it
  was sent, each number once and in order.

The inductive invariant is `IInv == TypeOK` and, for each peer p, `SenderAt(p)` (the
send queue holds numbers below the counters, each once, in order), `ReceiverAt(p)`
(what is stored is a window: everything up to `LastSeqID`, nothing twice, nothing
read beyond `LastReadID`) and `NetAt(p)` (packets on the way carry numbers that were
sent, ACKs numbers that were stored; a number that is in no send queue was
stored). `ReceiveWindow` alone is not inductive: that a new packet is not there
twice follows only from how the stored numbers and the two marks relate. The
lemmas `WindowAppend`, `WindowRead` and `WindowSweep` say what each operation of the
receive queue does to the window, for any queue; `StepOf` turns what an action
does at one peer into what it leaves alone at the other.

`SweepProofs`: what is left after removing by mark is the list without the marked,
in its order (`SweepKeeps`), for every sequence and with no induction: the
position of an entry in the rest is the number of unmarked ones before it.

`GlobalChannelProofs`, for every number of machines, queue size and number of
packets remembered:

- `TypesHold`, and `LatestRemembered`: `RemembersLatest`. The invariant gives each
  slot of the ring its age, its distance from `LastRXIndex`, and says that the
  packet in it is followed by as many stored packets as its age. When the
  ring turns, every age grows by one and one slot starts anew (`NextSlot`).
- `AcksAreTrue`: `OneLife => (Spec => []AckMeansStored)`. `OneLife` says that machines
  that send enter the lobby once. The run `global_again` shows that it cannot be
  left out, the theorem that nothing else is needed. The invariant `SInv` says of
  the numbers in a send queue, in packets and in ACKs that each stands for one
  packet of its sender, and that what is ACKed or remembered was stored.

`ProductionProofs`, for every heap, price, number of steps, amount of money and room,
from `ProductionAssumption`:

- `TypesHold`, `NoHouseInDebt`, `BalanceAlwaysFollowsStage`: `TypeOK`, `NoDebt`,
  `BalanceFollowsStage`. Needed for all three is `Sound`: what is still to be paid
  for an object is `Due` at the stage of its factory. `CostPerTick` knows nothing of
  `Due`; it divides the balance anew at every step. `CostOfStep` shows that what it
  asks for is just the part that `Due` loses from one stage to the next: of a price
  in n parts, the first are rounded down and the last rounded up, and dividing
  what is left of them by their number gives the first of them again (`NextPart`,
  from `Division` and `Quotient`). `PartsGrow` bounds what is due by the price. A
  step taken back leaves stage and balance as they were (`SteppedBackIsSound`), and
  at the last stage but one nothing is due any more, so `Ended` spends nothing
  unasked: this is what keeps a house out of debt there.
- `FactoriesAreOwn`: `OwnFactoriesWithRoom`. No slot has two owners, so freeing one
  (`FreedOwn`) or allocating one nobody has (`AllocatedOwn`) takes nothing from
  anybody. These two lemmas carry the players' and the computer's actions alike.

- `BooksAlwaysBalance`: `BooksBalance`, on its own inductive given `Sound`. The
  books hold a sum over the slots of the heap, of which an action changes one or
  two (`SumChange`, `SumSame` of `SumProofs`).

`SumProofs`: how a sum changes with one of its terms. A recursive function is
unfolded for each number in turn, and `UpTo` says that what holds of 0, and of the
successor of each number it holds of, holds up to n. It speaks of a *set* of numbers, where
the library's induction theorems take a predicate, which no installed prover
can instantiate; it follows from the well-foundedness of the naturals. `UpTo` carries
the proofs about Lockstep's loops over the events too.

`CommQueueProofs!TypesHold`: `TypeOK` on its own.

`LockstepProofs`, for every number of players, send rate, MaxAhead, `TimingPeriod` and
number of commands, whoever leaves and whoever times out, from
`LockstepAssumption` and `MaxAheadAssumption`:

- `TypesHold`: `TypeOK`. The inductive invariant is `Basic`: the types, frames that
  are multiples of the send rate, who is connected to whom with each connection
  at one place (`Joined`), and that what was told about a player's frame
  is not beyond it (`Told`). `Execute_DoList` is a loop whose every turn may close a
  connection: `AfterEventsRuns` gives the states it runs through, and
  `AfterEventsFrom` that each of them is one of the machine's.
- `NobodyEverOutruns`: `NobodyOutruns`, from `Told` and `Can_Advance`.
- `CountsAlwaysAgree`, `AllReceivedIsEnough`: `CountsAgree` and
  `ReceivedAllMeansCountsOK`, as long as `CountsFit`: no player has given 65536
  commands. Beyond that the counters wrap and the properties are false (see above). The
  invariant `Counts` says what a mark means: who knows of frame f and a count of q
  knows how many commands q gave before f (`Says`), and the packets on their way
  carry what is missing, in order (`Carries`). Both properties are one step from
  it, neither is inductive.

`LockstepHistoryProofs`, for the same constants, with `Unresponsive = {}` (nobody times
out; players may leave) and as long as `CountsFit`:

- `NothingIsTooLate`: `NeverTooLate`. `TimingIsTheSame`: `SameTiming`.
  `HistoryIsTheSame`: `SameHistory`, the property the whole loop is there for.

The two hypotheses are what the code needs. Where connections time out
`SameHistory` is false, which `lockstep_timeout` shows; where the counts wrap,
`their_sent` no longer says how much is to be waited for. Nothing is assumed of the
network but what ReliableChannel promises, nor of when and to what TIMING events change
MaxAhead beyond `MaxAheadAssumption`; of that, `m < TimingPeriod` is never used.

The invariant has two parts. TLC checked both on the instances of `lockstep` and
`lockstep_leave` before they were proved.

- `Past`, which needs neither hypothesis. `Frames`: the histories hold the frames
  passed, and the last entry is the present. `Log`: what was given at frame g is for
  g and the MaxAhead of g. `KeepsClear`: whatever was given at g, put off by the
  period of vulnerability as it is at f, is done before f, or no sooner than if
  it had been given with the MaxAhead of f. This is the reason for the period of
  vulnerability, and the step to prove is that of a TIMING event (`ClearStep`):
  where MaxAhead falls, what was given before is later than it needs to be; where
  it rises, the period covers the difference.
- `Story`. `Kept(p)` says what p has: of all that is due before its frame it has
  received everything (`InTime`), what it holds is a copy of what was sent (`Copies`),
  nothing that is still to be done is missing (`Complete`), and each player's
  commands are in order (`InOrder`). `Did(p)` says what p did: it executed frame f
  before anybody could send for it what it had not seen (`Close`), it executed
  exactly what all the humans had sent for f, house by house (`DoneRight`), and its
  timing at the next frame is that at f after those events (`Follows`).

`StoryMeans` leads from there to the three theorems. Two machines agree at the
start. If their timing agrees at f, they want the same events of the same humans, and
do them in the same order, since two sorted sequences with the same elements are the
same (`SameSorted`); so their timing agrees at the next frame.
`SameHistory` and `SameTiming` have to be shown together, by induction over the frames
(`UpTo`). For the invariant each action has its lemma. `StorySend`: what is given
now is for a frame nobody has executed (`SentLater`, from `Close` and `KeepsClear`).
`StoryReceiveCommands`: what arrives is not for a frame passed (`NotLate`).
`StoryAdvance` is the longest: by `Counts`, `Can_Advance` means that everything due
has arrived (`ByNowIs`), so that nothing is late (`NeverLate`) and what is executed
is everything that is wanted (`DueWanted`).

Model-checked only: liveness under fairness (`EventuallyRead`, `SendQueueDrains`,
`EveryoneAdvances`, `NeverClogged`), which is out of the prover's reach. Every invariant,
action property and refinement that a passing run checks is a theorem.

## 5. What is not modelled

- *The rest of IPXManagerClass*: the round robin over the private connections and
  the bookkeeping of addresses. Connections do not interact in it; Connection and
  Lockstep hold whatever order they are serviced in.
- *QueueClass's capacity* and the limits on what `Send_Packets` takes from the
  `OutList`: two hazards of queue.cc (lines 1674 and 1712) are listed without a
  property. The first needs 4096 events in the `DoList`, the second the bytes of
  the packets.
- *RESPONSE_TIME* and the older protocols, modem games, recording and playback, the
  CRC comparison, the start of a loaded game.
- *The null-modem manager*: framing of bytes on a serial line. Above it are the same
  ConnectionClass objects. `Init_Send_Queue` is in CommQueue; that modem dialogs
  call it in mid-stream (nulldlg.cc:4264) is listed as a hazard.
- *The lobby dialogs, the scenario transfer, Westwood Online*: loops tied to the user
  interface, on top of the global channel.
- *Radio contact, doors, special weapons* beyond what a plant does to production: the
  protocol is spread over every kind of object's `Receive_Message`.
- *The game itself* (objects, AI, teams, triggers, map, path finding): deterministic
  and sequential, its state far beyond a model checker. Lockstep takes it for a
  function of the events executed.
- *Encoding, codecs, files, save and load, graphics, audio, base library*: functions
  on data, or I/O, with tests of their own.
- *Tiberian Dawn*, whose network code is an earlier form of the same protocol, *the Rust
  decoders*, and *the DOS and Windows originals* outside `src/src/`, which are not built.

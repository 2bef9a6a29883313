------------------------------ MODULE Lockstep ------------------------------
(***************************************************************************)
(* The frame synchronisation of a network game (ra/net/queue.cc,           *)
(* Queue_AI_Multiplayer and what it calls, and the events of ra/net/       *)
(* event.cc that change its timing), one instance on each player's machine.*)
(*                                                                         *)
(* Every FrameSendRate frames a player sends its new events, to be         *)
(* executed MaxAhead frames later, then waits until it may advance, then   *)
(* executes the events that are due.  Packets with events arrive once and  *)
(* in order (ReliableChannel, which Connection implements); the packets    *)
(* without, FRAMEINFO and FRAMESYNC, may be lost, delayed or reordered.    *)
(*                                                                         *)
(* Left out: the bytes of the packets, the CRC of the game state (the      *)
(* history variables play its part), the DoList's capacity, and what the   *)
(* events do to the game.  Only the frames at which a packet is due are    *)
(* steps; at the others Queue_AI returns early.                            *)
(***************************************************************************)
EXTENDS Integers, Sequences, SequencesExt, FiniteSets, Sums, Sweep

CONSTANTS
  N,              \* players; a player's number is its house's place
  FrameSendRate,
  StartMaxAhead,  \* Session.MaxAhead when the game starts
  MaxAheads,      \* values a TIMING event may carry
  TimingPeriod,   \* 128: the frames between TIMING events
  CountMod,       \* 2^16: the command counters are uint16_t
  EventsPerPacket,\* events that fit a packet
  Leavers,        \* players that may leave the game
  Unresponsive,   \* players whose connection may time out
  OnlyGone,       \* whether only once they have closed it, after frame 0
  MayLose,        \* whether packets without events are lost, see Broadcast
  MaxCommands,    \* bound: MaxCommands[p] commands of player p
  MaxFrame        \* bound: the frame at which a player stops

Players == 1 .. N

ASSUME LockstepAssumption ==
  /\ N \in Nat \ {0} /\ FrameSendRate \in Nat \ {0} /\ MaxFrame \in Nat
  /\ CountMod \in Nat \ {0} /\ EventsPerPacket \in Nat \ {0}
  /\ MaxCommands \in [Players -> Nat] /\ MayLose \in BOOLEAN /\ OnlyGone \in BOOLEAN
  /\ Leavers \subseteq Players /\ Unresponsive \subseteq Players

\* MaxAhead is a multiple of the send rate and at least twice it, and it is
\* below the time between two TIMING events.
ASSUME MaxAheadAssumption ==
  \A m \in MaxAheads \cup {StartMaxAhead} :
    /\ m \in Nat /\ m % FrameSendRate = 0
    /\ 2 * FrameSendRate <= m /\ m < TimingPeriod

VARIABLES
  phase,      \* where each player is: see Phases
  frame,      \* CurrentFrame
  MaxAhead,
  window,     \* <<NewMaxAheadFrame1, NewMaxAheadFrame2>>
  humans,     \* the houses still played by a human
  conns,      \* the players connected, in the order of the connections
  their_frame, their_sent, their_recv,  \* by place in conns
  my_sent,
  DoList,     \* the events to execute, those done with left out
  chan,       \* chan[q][p]: packets with events on their way from q to p
  info,       \* info[q][p]: packets without
  sent,       \* all events a player has given, in order (history)
  executed,   \* the events it executed, by the frame of execution (history)
  timing      \* MaxAhead, window and humans at each frame it reached (history)

local == << frame, MaxAhead, window, humans, my_sent >>
peers == << conns, their_frame, their_sent, their_recv >>
history == << sent, executed, timing >>
vars == << phase, local, peers, DoList, chan, info, history >>

Phases == {"ready",    \* frame 0: waiting to hear from everyone
           "send",     \* about to send this frame's packets
           "wait",     \* in Wait_For_Players
           "left",     \* executed its own EXIT, or gave up on frame 0
           "late"}     \* Packet-Received-Too-Late

\* An event's frame is the one to execute it on, and arg a TIMING event's new
\* MaxAhead.  Its place among its player's events tells it from the others,
\* and with the frame it was given at is history too: no step depends on them.
Event == [type : {"COMMAND", "TIMING", "EXIT"}, ID : Players, Frame : Nat,
          arg : Nat, num : Nat, at : Nat]

\* A packet gives the sender's frame (its Frame less its Delay), the sender's
\* CommandCount, and the events.
Packet(f, count, events) == [frame |-> f, CommandCount |-> count, events |-> events]

RoundUp(f) == ((f + FrameSendRate - 1) \div FrameSendRate) * FrameSendRate

\* The frame on which what p sends now is executed.
ExecFrame(p) == RoundUp(frame[p] + MaxAhead[p])

Place(p, q) == CHOOSE i \in DOMAIN conns[p] : conns[p][i] = q
Connected(p, q) == \E i \in DOMAIN conns[p] : conns[p][i] = q

Timing(ahead, w, h) == [MaxAhead |-> ahead, window |-> w, humans |-> h]

\* What a history holds once x is recorded for frame f.
Recorded(past, f, x) == [g \in DOMAIN past \cup {f} |-> IF g = f THEN x ELSE past[g]]

\* Everyone starts by sending a FRAMESYNC.
InitFrames ==
  /\ frame = [p \in Players |-> 0]
  /\ MaxAhead = [p \in Players |-> StartMaxAhead]
  /\ window = [p \in Players |-> << 0, 0 >>]
  /\ humans = [p \in Players |-> Players]
  /\ conns = [p \in Players |-> [i \in 1 .. N - 1 |-> IF i < p THEN i ELSE i + 1]]
  /\ their_sent = [p \in Players |-> [i \in 1 .. N - 1 |-> 0]]
  /\ their_recv = [p \in Players |-> [i \in 1 .. N - 1 |-> 0]]
  /\ my_sent = [p \in Players |-> 0]
  /\ DoList = [p \in Players |-> << >>]
  /\ chan = [q \in Players |-> [p \in Players |-> << >>]]
  /\ sent = [p \in Players |-> << >>]
  /\ executed = [p \in Players |-> [f \in {} |-> << >>]]
  /\ timing = [p \in Players |-> [f \in {0} |->
                 Timing(StartMaxAhead, << 0, 0 >>, Players)]]

Init ==
  /\ InitFrames
  /\ phase = [p \in Players |-> "ready"]
  /\ their_frame = [p \in Players |-> [i \in 1 .. N - 1 |-> -1]]
  /\ info \in [Players -> [Players -> IF MayLose THEN {{}, {Packet(0, 0, << >>)}}
                                                ELSE {{Packet(0, 0, << >>)}}]]

-----------------------------------------------------------------------------
(* Sending. *)

\* A packet without events that tells q nothing new about p changes nothing,
\* and is left out of info.  (AllReady takes the marks back to 0.)
Tells(p, q, packet) ==
  /\ Connected(q, p)
  /\ \/ phase[q] = "ready" /\ 0 < packet.frame
     \/ their_frame[q][Place(q, p)] < packet.frame
     \/ their_sent[q][Place(q, p)] < packet.CommandCount

\* Send_Private_Message without ack_req: to everyone p is connected to, and
\* it may get lost on the way to any of them.  (What is never received is lost
\* too: MayLose adds behaviours only where something must happen.)
Broadcast(p, packet) ==
  \E reached \in SUBSET {q \in Players : Connected(p, q) /\ Tells(p, q, packet)} :
    /\ MayLose \/ \A q \in Players : Connected(p, q) /\ Tells(p, q, packet) => q \in reached
    /\ info' = [info EXCEPT ![p] = [q \in Players |->
               IF q \in reached THEN @[q] \cup {packet} ELSE @[q]]]

FrameSyncWithoutDelay(p) == Packet(ExecFrame(p), my_sent[p], << >>)  \* (mutant)
FrameSync(p) == Packet(frame[p], my_sent[p], << >>)

\* Wait_For_Players repeats the FRAMESYNC each time the retry timer expires.
SendNoFrameSyncAgain(p) ==  \* (mutant)
  /\ phase[p] = "ready"
  /\ Broadcast(p, FrameSync(p))
  /\ UNCHANGED << phase, local, peers, DoList, chan, history >>
Send_FrameSync(p) ==
  /\ phase[p] \in {"ready", "wait"}
  /\ Broadcast(p, FrameSync(p))
  /\ UNCHANGED << phase, local, peers, DoList, chan, history >>

\* The master is the first house played by a human.
Am_I_Master(p) == \A h \in humans[p] : p <= h

\* The first packet sent after a frame that is a multiple of TimingPeriod.
TimingDue(p) == frame[p] > 0 /\ frame[p] % TimingPeriod < FrameSendRate

\* Send_Packets gives each event it takes from the OutList its frame and its
\* sender.
NewEvent(p, i, what) ==
  [type |-> what[1], ID |-> p, Frame |-> ExecFrame(p), arg |-> what[2],
   num |-> Len(sent[p]) + i, at |-> frame[p]]

\* The master's TIMING event is anywhere among what the user ordered before
\* and after it was due.
WithTiming(p, list) ==
  {list} \cup IF Am_I_Master(p) /\ TimingDue(p)
              THEN {InsertAt(list, i, << "TIMING", m >>) :
                      i \in 1 .. Len(list) + 1, m \in MaxAheads}
              ELSE {}

\* What p's OutList may hand to Send_Packets: commands of the user (the last
\* may be to leave) and the master's TIMING event.
OutLists(p) ==
  LET given == Cardinality({i \in DOMAIN sent[p] : sent[p][i].type # "TIMING"})
      commands(k) == [i \in 1 .. k |-> << "COMMAND", 0 >>]
      exits(k) == IF p \in Leavers /\ k < MaxCommands[p] - given
                  THEN {<< >>, << << "EXIT", 0 >> >>} ELSE {<< >>}
      lists == UNION {UNION {WithTiming(p, commands(k) \o e) : e \in exits(k)} :
                        k \in 0 .. MaxCommands[p] - given}
  IN  {[i \in DOMAIN list |-> NewEvent(p, i, list[i])] : list \in lists}

\* Send_Packets: the events leave in as many packets as they need, all with
\* the CommandCount from before; without events there is one packet, which
\* asks for no ACK.
Packets(p, out) ==
  [i \in 1 .. (Len(out) + EventsPerPacket - 1) \div EventsPerPacket |->
     Packet(frame[p], my_sent[p],
            SubSeq(out, (i - 1) * EventsPerPacket + 1,
                        IF i * EventsPerPacket < Len(out)
                        THEN i * EventsPerPacket ELSE Len(out)))]

\* (mutant) A packet without events counts as one.
CountedPackets(out) == IF out = << >> THEN 1 ELSE Len(out)

\* How many commands Send_Packets adds to my_sent.
CountedEvents(out) == Len(out)

\* On frame 0 Queue_AI returns after sending.
Send_Packets(p) ==
  /\ phase[p] = "send"
  /\ \E out \in OutLists(p) :
       /\ DoList' = [DoList EXCEPT ![p] = @ \o out]
       /\ chan' = [chan EXCEPT ![p] = [q \in Players |->
                     IF Connected(p, q) /\ Connected(q, p)
                     THEN @[q] \o Packets(p, out) ELSE @[q]]]
       /\ IF out = << >> THEN Broadcast(p, FrameSync(p)) ELSE UNCHANGED info
       /\ my_sent' = [my_sent EXCEPT ![p] = (@ + CountedEvents(out)) % CountMod]
       /\ sent' = [sent EXCEPT ![p] = @ \o out]
  /\ IF frame[p] = 0
     THEN /\ frame' = [frame EXCEPT ![p] = FrameSendRate]
          /\ timing' = [timing EXCEPT ![p] = Recorded(@, FrameSendRate, @[0])]
          /\ UNCHANGED phase
     ELSE /\ phase' = [phase EXCEPT ![p] = "wait"]
          /\ UNCHANGED << frame, timing >>
  /\ UNCHANGED << MaxAhead, window, humans, peers, executed >>

-----------------------------------------------------------------------------
(* Receiving: Process_Receive_Packet, called from Wait_For_Players only.   *)
(* Both marks only go up; the received commands are counted.               *)

Listening(p, q) == phase[p] \in {"ready", "wait"} /\ Connected(p, q)

Process_Receive_Packet(p, q, packet) ==
  LET i == Place(p, q)
  IN  /\ their_frame' = [their_frame EXCEPT ![p][i] =
                           IF @ < packet.frame THEN packet.frame ELSE @]
      /\ their_sent' = [their_sent EXCEPT ![p][i] =
                          IF @ < packet.CommandCount THEN packet.CommandCount ELSE @]
      /\ their_recv' = [their_recv EXCEPT ![p][i] =
                          (@ + Len(packet.events)) % CountMod]
      /\ DoList' = [DoList EXCEPT ![p] = @ \o packet.events]
      /\ info' = [info EXCEPT ![q][p] = {k \in @ : \/ phase[p] = "ready" /\ 0 < k.frame /\ k # packet
                                                  \/ k.frame > their_frame'[p][i]
                                                  \/ k.CommandCount > their_sent'[p][i]}]
      /\ UNCHANGED << phase, local, conns, history >>

\* A packet with events: the next one of the connection.
ReceiveCommands(p, q) ==
  /\ Listening(p, q) /\ chan[q][p] # << >>
  /\ Process_Receive_Packet(p, q, Head(chan[q][p]))
  /\ chan' = [chan EXCEPT ![q][p] = Tail(@)]

\* A FRAMEINFO or FRAMESYNC: any on its way.
ReceiveInfo(p, q) ==
  /\ Listening(p, q)
  /\ \E packet \in info[q][p] : Process_Receive_Packet(p, q, packet)
  /\ UNCHANGED chan

-----------------------------------------------------------------------------
(* Frame 0: once everyone has been heard from, the frames start at 0. *)
AllReady(p) ==
  /\ phase[p] = "ready"
  /\ \A i \in DOMAIN conns[p] : their_frame[p][i] # -1
  /\ phase' = [phase EXCEPT ![p] = "send"]
  /\ their_frame' = [their_frame EXCEPT ![p] = [i \in DOMAIN @ |-> 0]]
  /\ UNCHANGED << local, conns, their_sent, their_recv, DoList, chan, info, history >>

(* Can_Advance. *)
AdvanceWithoutCounts(p) ==  \* (mutant)
  \A i \in DOMAIN conns[p] : frame[p] < their_frame[p][i] + MaxAhead[p]
AdvanceWithCountsOnly(p) ==  \* (mutant)
  \A i \in DOMAIN conns[p] : their_recv[p][i] >= their_sent[p][i]
Can_Advance(p) ==
  \/ Cardinality(humans[p]) = 1
  \/ \A i \in DOMAIN conns[p] : /\ their_recv[p][i] >= their_sent[p][i]
                                /\ frame[p] < their_frame[p][i] + MaxAhead[p]

-----------------------------------------------------------------------------
(* Destroy_Connection(q) with the loop before it, which moves the later    *)
(* players' entries down.  st holds what a player's events may change.     *)

DestroyWithoutShift(st, q) ==  \* (mutant)
  LET at == CHOOSE i \in DOMAIN st.conns : st.conns[i] = q
  IN  IF \E i \in DOMAIN st.conns : st.conns[i] = q
      THEN [st EXCEPT !.conns = RemoveAt(@, at), !.humans = @ \ {q}]
      ELSE st
Destroy_Connection(st, q) ==
  LET at == CHOOSE i \in DOMAIN st.conns : st.conns[i] = q
      Shift(a) == [i \in DOMAIN a |-> IF at <= i /\ i < Len(st.conns)
                                      THEN a[i + 1] ELSE a[i]]
  IN  IF \E i \in DOMAIN st.conns : st.conns[i] = q
      THEN [st EXCEPT !.conns = RemoveAt(@, at), !.humans = @ \ {q},
                      !.frames = Shift(@), !.sents = Shift(@), !.recvs = Shift(@)]
      ELSE st

\* EventClass::Execute for the events that touch the synchronisation.
ExecuteEvent(p, st, e) ==
  CASE e.type = "COMMAND" -> st
    [] e.type = "TIMING" ->
         [st EXCEPT !.window = IF e.arg > st.MaxAhead
                               THEN << e.Frame, e.Frame + e.arg >> ELSE @,
                    !.MaxAhead = e.arg]
    [] e.type = "EXIT" -> IF e.ID = p THEN [st EXCEPT !.active = FALSE, !.conns = << >>]
                                      ELSE Destroy_Connection(st, e.ID)

\* The events of due one after the other.
AfterEvents(p, first, due) ==
  LET st[i \in 0 .. Len(due)] == IF i = 0 THEN first ELSE ExecuteEvent(p, st[i - 1], due[i])
  IN  st[Len(due)]

State(p) == [MaxAhead |-> MaxAhead[p], window |-> window[p], humans |-> humans[p],
             conns |-> conns[p], frames |-> their_frame[p],
             sents |-> their_sent[p], recvs |-> their_recv[p], active |-> TRUE]

\* With the connection go the packets p would have sent again, and what comes
\* from the other side is no longer received.
CloseConnections(p, closed) ==
  /\ \E lost \in SUBSET closed : \E kept \in [lost -> 0 .. MaxFrame] :
       /\ \A q \in lost : kept[q] < Len(chan[p][q])
       /\ chan' = [r \in Players |-> [q \in Players |->
                    IF r = p /\ q \in lost THEN SubSeq(chan[p][q], 1, kept[q])
                    ELSE IF q = p /\ r \in closed THEN << >>
                    ELSE chan[r][q]]]
  /\ info' = [r \in Players |-> IF r \in closed THEN [info[r] EXCEPT ![p] = {}] ELSE info[r]]

SetState(p, st) ==
  /\ MaxAhead' = [MaxAhead EXCEPT ![p] = st.MaxAhead]
  /\ window' = [window EXCEPT ![p] = st.window]
  /\ humans' = [humans EXCEPT ![p] = st.humans]
  /\ conns' = [conns EXCEPT ![p] = st.conns]
  /\ their_frame' = [their_frame EXCEPT ![p] = st.frames]
  /\ their_sent' = [their_sent EXCEPT ![p] = st.sents]
  /\ their_recv' = [their_recv EXCEPT ![p] = st.recvs]
  /\ CloseConnections(p, Range(conns[p]) \ Range(st.conns))

-----------------------------------------------------------------------------
(* Execute_DoList and Clean_DoList. *)

\* Events due in the period of vulnerability are put off to its end.
PutOff(f, w) == IF w[1] < f /\ f < w[2] THEN w[2] ELSE f

NotRescheduled(p) == DoList[p]  \* (mutant)
Rescheduled(p) ==
  [i \in DOMAIN DoList[p] |->
     [DoList[p][i] EXCEPT !.Frame = PutOff(@, window[p])]]

\* The elements of s that are in S, in their order.
Those(s, S) == Sweep(s, {i \in DOMAIN s : s[i] \in S})

\* The events due, house after house, each house's in the order they arrived.
DueAsArrived(p) ==  \* (mutant)
  Those(Rescheduled(p), {e \in Range(Rescheduled(p)) :
                           e.ID \in humans[p] /\ e.Frame <= frame[p]})
DueOf(p, h) == {e \in Range(Rescheduled(p)) :
                  e.ID = h /\ h \in humans[p] /\ e.Frame <= frame[p]}
Due(p) == FlattenSeq([h \in Players |-> Those(Rescheduled(p), DueOf(p, h))])

\* Events done with are discarded, and those of houses no longer human once
\* their frame is past.
Clean_DoList(p) ==
  DoList' = [DoList EXCEPT ![p] =
               Those(Rescheduled(p), {e \in Range(Rescheduled(p)) :
                                        \/ e.Frame > frame[p]
                                        \/ e.ID \notin humans[p] /\ e.Frame = frame[p]})]

Execute_DoList(p) ==
  LET st == AfterEvents(p, State(p), Due(p))
      next == frame[p] + FrameSendRate
  IN  /\ SetState(p, st)
      /\ phase' = [phase EXCEPT ![p] = IF st.active THEN "send" ELSE "left"]
      /\ executed' = [executed EXCEPT ![p] = Recorded(@, frame[p], Due(p))]
      /\ timing' = [timing EXCEPT ![p] =
                      IF st.active
                      THEN Recorded(@, next, Timing(st.MaxAhead, st.window, st.humans))
                      ELSE @]

\* Packet-Received-Too-Late stops the machine in the midst of the frame; what
\* it executed of that frame before is left out.
TooLate(p) == \E i \in DOMAIN Due(p) : Due(p)[i].Frame < frame[p]

Advance(p) ==
  /\ phase[p] = "wait" /\ Can_Advance(p) /\ frame[p] < MaxFrame
  /\ IF TooLate(p)
     THEN /\ phase' = [phase EXCEPT ![p] = "late"]
          /\ UNCHANGED << local, peers, DoList, chan, info, history >>
     ELSE /\ Execute_DoList(p)
          /\ Clean_DoList(p)
          /\ frame' = [frame EXCEPT ![p] = @ + FrameSendRate]
          /\ UNCHANGED << my_sent, sent >>

\* Nothing was heard of q for the timeout.
TimedOut(p, q) == q \in Unresponsive /\ (OnlyGone => ~ Connected(q, p))

(* Handle_Timeout: the wait has been too long; the player last heard of at *)
(* the oldest frame loses its connection.                                  *)
TimeoutOfNobody(p) ==  \* (mutant)
  /\ phase[p] = "wait" /\ ~ Can_Advance(p)
  /\ \E i \in DOMAIN conns[p] :
       /\ TimedOut(p, conns[p][i])
       /\ \A j \in DOMAIN conns[p] : their_frame[p][i] < their_frame[p][j]
       /\ SetState(p, Destroy_Connection(State(p), conns[p][i]))
  /\ UNCHANGED << phase, frame, my_sent, DoList, history >>
Handle_Timeout(p) ==
  /\ phase[p] = "wait" /\ ~ Can_Advance(p)
  /\ \E i \in DOMAIN conns[p] :
       /\ TimedOut(p, conns[p][i])
       /\ \A j \in DOMAIN conns[p] : IF j < i
                                     THEN their_frame[p][i] < their_frame[p][j]
                                     ELSE their_frame[p][i] <= their_frame[p][j]
       /\ SetState(p, Destroy_Connection(State(p), conns[p][i]))
  /\ UNCHANGED << phase, frame, my_sent, DoList, history >>

\* On frame 0 the player gives up instead, also if the other is only slow to
\* start, and stops the game.
GiveUp(p) ==
  /\ phase[p] = "ready"
  /\ \E i \in DOMAIN conns[p] : their_frame[p][i] = -1 /\ conns[p][i] \in Unresponsive
  /\ phase' = [phase EXCEPT ![p] = "left"]
  /\ SetState(p, [State(p) EXCEPT !.conns = << >>])
  /\ UNCHANGED << frame, my_sent, DoList, history >>

-----------------------------------------------------------------------------
Next == \E p \in Players :
          \/ Send_FrameSync(p)
          \/ Send_Packets(p)
          \/ AllReady(p)
          \/ Advance(p)
          \/ Handle_Timeout(p)
          \/ GiveUp(p)
          \/ \E q \in Players :
               \/ ReceiveCommands(p, q)
               \/ ReceiveInfo(p, q)

Spec == Init /\ [][Next]_vars

\* From the moment everyone has heard from everyone: with more players than two
\* the wait on frame 0 is most of the states.
Started ==
  /\ InitFrames
  /\ phase = [p \in Players |-> "send"]
  /\ their_frame = [p \in Players |-> [i \in 1 .. N - 1 |-> 0]]
  /\ info = [q \in Players |-> [p \in Players |-> {}]]

StartedSpec == Started /\ [][Next]_vars

(* What the packets and timers do for certain: a packet with events comes   *)
(* through, of a FRAMESYNC that is sent again and again one copy does, and   *)
(* the timeout timer runs out while nothing else happens.                   *)
FairSpec ==
  /\ Spec
  /\ \A p \in Players :
       /\ WF_vars(Send_Packets(p)) /\ WF_vars(AllReady(p)) /\ WF_vars(Advance(p))
       /\ WF_vars(Handle_Timeout(p)) /\ WF_vars(GiveUp(p))
       /\ \A q \in Players :
            /\ WF_vars(ReceiveCommands(p, q)) /\ WF_vars(ReceiveInfo(p, q))
            /\ SF_vars(Send_FrameSync(p) /\ FrameSync(p) \in info'[p][q])

-----------------------------------------------------------------------------
(* Each variable holds what its declaration says. *)
TypeOK ==
  /\ phase \in [Players -> Phases]
  /\ frame \in [Players -> Nat] /\ MaxAhead \in [Players -> Nat]
  /\ window \in [Players -> Nat \X Nat]
  /\ humans \in [Players -> SUBSET Players]
  /\ \A p \in Players :
       /\ IsInjective(conns[p]) /\ conns[p] \in Seq(Players \ {p})
       /\ \A a \in {their_frame[p], their_sent[p], their_recv[p]} :
            Len(a) = N - 1 /\ Range(a) \subseteq Nat \cup {-1}
       /\ DoList[p] \in Seq(Event)
       /\ \A q \in Players : \A k \in info[p][q] \cup Range(chan[p][q]) :
            /\ k.frame \in 0 .. frame[p] /\ k.CommandCount \in 0 .. CountMod - 1
            /\ k.events \in Seq(Event)
  /\ my_sent \in [Players -> 0 .. CountMod - 1]

(* "This in turn ensures that a packet's execution frame # won't have been  *)
(* passed by the time that packet is received" (queue.cc, above             *)
(* Queue_AI_Multiplayer): nobody stops with Packet-Received-Too-Late,       *)
(* whatever the TIMING events do to MaxAhead meanwhile.                     *)
NeverTooLate == \A p \in Players : phase[p] # "late"

(* Everyone executes the same events on the same frames in the same order:  *)
(* at each frame that two players have executed they have done the same.    *)
SameHistory ==
  \A p, q \in Players : \A f \in DOMAIN executed[p] \cap DOMAIN executed[q] :
    executed[p][f] = executed[q][f]

(* At each frame that two players have reached in the game they agree on    *)
(* MaxAhead, on the period of vulnerability and on who is still human.      *)
SameTiming ==
  \A p, q \in Players : \A f \in DOMAIN timing[p] \cap DOMAIN timing[q] :
    timing[p][f] = timing[q][f]

(* "Any system won't out-run the other system by more than Session.MaxAhead *)
(* frames" (above Queue_AI_Multiplayer): nobody advances to a frame more    *)
(* than MaxAhead past that of a player it is connected to (Can_Advance,     *)
(* from what it last heard of the others).                                  *)
NobodyOutruns ==
  [][\A p, q \in Players : frame'[p] # frame[p] /\ frame[p] # 0 /\ Connected(p, q) =>
       frame'[p] <= frame[q] + MaxAhead[p]]_vars

(* their_recv and their_sent are those of the player at their place, also   *)
(* after others left: what was received and what is on its way make up what *)
(* q sent, and q never claimed more.                                        *)
OnTheWay(q, p) ==
  SumTo([i \in 0 .. Len(chan[q][p]) - 1 |-> Len(chan[q][p][i + 1].events)],
        Len(chan[q][p]))
CountsAgree ==
  \A p, q \in Players : Connected(p, q) /\ Connected(q, p) =>
    /\ their_sent[p][Place(p, q)] <= my_sent[q]
    /\ their_frame[p][Place(p, q)] <= frame[q]
    /\ their_recv[p][Place(p, q)] + OnTheWay(q, p) = my_sent[q]

(* "their_recv >= their_sent (ie I've received all the commands the other   *)
(* players have sent so far)" (Can_Advance): who has received everything is *)
(* not held up by the counts, as long as they do not wrap.                  *)
ReceivedAllMeansCountsOK ==
  \A p, q \in Players : Connected(p, q) /\ Connected(q, p) /\ chan[q][p] = << >> =>
    their_recv[p][Place(p, q)] >= their_sent[p][Place(p, q)]

(* The repeated FRAMESYNC keeps the players from waiting for each other, and *)
(* the timeout from waiting for one that is gone: everyone gets to the last *)
(* frame, or leaves.                                                        *)
EveryoneAdvances == <>(\A p \in Players : frame[p] = MaxFrame \/ phase[p] = "left")
=============================================================================

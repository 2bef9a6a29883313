----------------------------- MODULE CommQueue -----------------------------
(***************************************************************************)
(* One queue of CommBufferClass (engine/net/combuf.cc): MaxEntries slots,  *)
(* an array Index of slot numbers in arrival order, and Count.  The class  *)
(* holds two of them, for sending and for receiving, whose code differs    *)
(* only in names; the lines of the send queue are the ones mapped.         *)
(*                                                                         *)
(* A slot keeps its bytes when it is released, so `data` of an inactive    *)
(* slot is whatever was stored there last.                                 *)
(***************************************************************************)
EXTENDS Naturals, Sequences, FiniteSets

CONSTANTS Data,         \* packets that can be queued
          NoData,       \* the zeroed buffer of a slot never used
          MaxEntries    \* MaxSend or MaxReceive

ASSUME SizeAssumption == MaxEntries \in Nat \ {0}
ASSUME DataAssumption == NoData \notin Data

VARIABLES Queue,   \* SendQueue: slot number -> slot
          Index,   \* SendIndex: position -> slot number
          Count    \* SendCount

vars == << Queue, Index, Count >>

Slots == 0 .. MaxEntries - 1

Slot == [IsActive : BOOLEAN, marked : BOOLEAN, data : Data \cup {NoData}]

Active(s) == Queue[s].IsActive

\* Init: every slot inactive, every index 0.
Init == /\ Queue = [s \in Slots |->
                      [IsActive |-> FALSE, marked |-> FALSE, data |-> NoData]]
        /\ Index = [i \in Slots |-> 0]
        /\ Count = 0

\* The first inactive slot, which the scan of Queue_Send stops at.
FirstFree(s) == /\ s \in Slots
                /\ ~ Active(s)
                /\ \A t \in 0 .. s - 1 : Active(t)

\* Queue_Send / Queue_Receive: refused when full or when no slot is free.
CountBeforeTest(d) ==  \* (mutant)
  /\ Count' = Count + 1
  /\ IF Count = MaxEntries
     THEN UNCHANGED << Queue, Index >>
     ELSE \E s \in Slots :
            /\ FirstFree(s)
            /\ Queue' = [Queue EXCEPT ![s] =
                           [IsActive |-> TRUE, marked |-> FALSE, data |-> d]]
            /\ Index' = [Index EXCEPT ![Count] = s]
Enqueue(d) ==
  /\ Count # MaxEntries
  /\ \E s \in Slots :
       /\ FirstFree(s)
       /\ Queue' = [Queue EXCEPT ![s] =
                      [IsActive |-> TRUE, marked |-> FALSE, data |-> d]]
       /\ Index' = [Index EXCEPT ![Count] = s]
  /\ Count' = Count + 1

\* UnQueue_Send / UnQueue_Receive: releases the slot at position i, clears its
\* flags, and moves the later indices back one.
UnQueueWithoutShift(i) ==  \* (mutant)
  /\ i < Count
  /\ Active(Index[i])
  /\ Queue' = [Queue EXCEPT ![Index[i]].IsActive = FALSE,
                            ![Index[i]].marked = FALSE]
  /\ Index' = [Index EXCEPT ![Count - 1] = 0]
  /\ Count' = Count - 1
UnQueueLastIntoHole(i) ==  \* (mutant)
  /\ i < Count
  /\ Active(Index[i])
  /\ Queue' = [Queue EXCEPT ![Index[i]].IsActive = FALSE,
                            ![Index[i]].marked = FALSE]
  /\ Index' = [Index EXCEPT ![i] = Index[Count - 1], ![Count - 1] = 0]
  /\ Count' = Count - 1
UnQueueKeepingSlot(i) ==  \* (mutant)
  /\ i < Count
  /\ Active(Index[i])
  /\ Queue' = [Queue EXCEPT ![Index[i]].marked = FALSE]
  /\ Index' = [j \in Slots |-> IF j = Count - 1 THEN 0
                               ELSE IF i <= j /\ j < Count - 1 THEN Index[j + 1]
                               ELSE Index[j]]
  /\ Count' = Count - 1
UnQueue(i) ==
  /\ i < Count
  /\ Active(Index[i])
  /\ Queue' = [Queue EXCEPT ![Index[i]].IsActive = FALSE,
                            ![Index[i]].marked = FALSE]
  /\ Index' = [j \in Slots |-> IF j = Count - 1 THEN 0
                               ELSE IF i <= j /\ j < Count - 1 THEN Index[j + 1]
                               ELSE Index[j]]
  /\ Count' = Count - 1

\* A user sets IsACK or IsRead through the pointer Get_Send / Get_Receive
\* returns for position i.
MarkEntry(i) ==
  /\ i < Count
  /\ Active(Index[i])
  /\ Queue' = [Queue EXCEPT ![Index[i]].marked = TRUE]
  /\ UNCHANGED << Index, Count >>

\* Init_Send_Queue: drops every entry; the bytes stay in the slots.
InitQueue ==
  /\ Queue' = [s \in Slots |-> [Queue[s] EXCEPT !.IsActive = FALSE,
                                                !.marked = FALSE]]
  /\ Index' = [i \in Slots |-> 0]
  /\ Count' = 0

Next == \/ \E d \in Data : Enqueue(d)
        \/ \E i \in Slots : UnQueue(i) \/ MarkEntry(i)
        \/ InitQueue

Spec == Init /\ [][Next]_vars

-----------------------------------------------------------------------------
TypeOK == /\ Queue \in [Slots -> Slot]
          /\ Index \in [Slots -> Slots]
          /\ Count \in 0 .. MaxEntries

(* The first Count indices are distinct and name exactly the active slots: *)
(* after any series of insertions and removals at any position, no slot is *)
(* leaked, listed twice, or handed out while in use.                       *)
SlotsAccounted ==
  /\ \A i, j \in 0 .. Count - 1 : Index[i] = Index[j] => i = j
  /\ \A i \in 0 .. Count - 1 : Active(Index[i])
  /\ \A s \in Slots : Active(s) => \E i \in 0 .. Count - 1 : Index[i] = s

(* Queue_Send's second refusal ("index == -1") is dead code: while Count   *)
(* is below the maximum the scan always finds a free slot.                 *)
RoomMeansFreeSlot == Count < MaxEntries => \E s \in Slots : FirstFree(s)

(* The queue as its users see it, oldest first: what Get_Send(0),          *)
(* Get_Send(1), ... return.                                                *)
Items == [i \in 1 .. Count |-> [data   |-> Queue[Index[i - 1]].data,
                                marked |-> Queue[Index[i - 1]].marked]]

Fifo == INSTANCE FifoQueue WITH Capacity <- MaxEntries, items <- Items

(* Slots and indices implement the ordered list: every operation changes   *)
(* Items exactly as the list operation of the same name would.             *)
ImplementsFifo == Fifo!Spec
=============================================================================

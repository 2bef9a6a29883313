----------------------------- MODULE FifoQueue -----------------------------
(***************************************************************************)
(* What CommBufferClass promises its users: a bounded list of packets that *)
(* keeps arrival order, from which any position may be taken out and in    *)
(* which any entry may be marked (ACKed in the send queue, read in the     *)
(* receive queue).  CommQueue implements it with fixed slots and an index  *)
(* array; Connection is written on top of it.                              *)
(***************************************************************************)
EXTENDS Naturals, SequencesExt

CONSTANTS Data,      \* the packets
          Capacity   \* most entries held at once

VARIABLE items       \* the entries, oldest first

Entry == [data : Data, marked : BOOLEAN]

Put(d) == /\ Len(items) < Capacity
          /\ items' = Append(items, [data |-> d, marked |-> FALSE])

Take(i) == items' = RemoveAt(items, i)

Mark(i) == items' = [items EXCEPT ![i].marked = TRUE]

Clear == items' = << >>

Init == items = << >>

Next == \/ \E d \in Data : Put(d)
        \/ \E i \in 1 .. Len(items) : Take(i) \/ Mark(i)
        \/ Clear

Spec == Init /\ [][Next]_items
=============================================================================

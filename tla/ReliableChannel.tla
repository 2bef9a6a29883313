-------------------------- MODULE ReliableChannel --------------------------
(***************************************************************************)
(* What a pair of ConnectionClass objects promises for the packets sent    *)
(* with ack_req set (connect.h: "this class guarantees delivery and order  *)
(* of delivery"): each peer reads exactly the packets its partner sent,    *)
(* each once and in the order they were sent.  Packets are numbered by     *)
(* their PacketID, so two counters per peer say it all.                    *)
(***************************************************************************)
EXTENDS Naturals

CONSTANT Peers

VARIABLES sent,   \* sent[p]: packets p has handed to its connection
          got     \* got[p]: packets p has read; they are 0 .. got[p] - 1 of
                  \* those its partner sent

vars == << sent, got >>

Other(p) == CHOOSE q \in Peers : q # p

Init == /\ sent = [p \in Peers |-> 0]
        /\ got = [p \in Peers |-> 0]

Send(p) == /\ sent' = [sent EXCEPT ![p] = @ + 1]
           /\ UNCHANGED got

\* The next packet in order, which its partner must have sent.
Read(p) == /\ got[p] < sent[Other(p)]
           /\ got' = [got EXCEPT ![p] = @ + 1]
           /\ UNCHANGED sent

Next == \E p \in Peers : Send(p) \/ Read(p)

Spec == Init /\ [][Next]_vars
=============================================================================

------------------------------- MODULE Sweep -------------------------------
(***************************************************************************)
(* The loops that take entries out of a queue while they scan it ("UnQueue *)
(* (i); i--" in Service_Send_Queue and Service_Receive_Queue) leave the    *)
(* entries they skip, in order.  SelectSeq says the same, by recursion;    *)
(* this form can be reasoned about without induction over sequences.       *)
(***************************************************************************)
EXTENDS Naturals, Sequences, FiniteSets

\* The number of positions of K up to i.
Rank(K, i) == Cardinality({j \in K : j <= i})

\* The entries of q at the positions of K, oldest first.
Sweep(q, K) == [n \in 1 .. Cardinality(K) |->
                  q[CHOOSE i \in K : Rank(K, i) = n]]
=============================================================================

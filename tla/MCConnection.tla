---------------------------- MODULE MCConnection ----------------------------
(* Connection with few packets for TLC. *)
EXTENDS Connection

\* What the two peers send, of either kind.
Sends(a, b) == [p \in Peers |-> IF p = 0 THEN a ELSE b]
ThreeNone == Sends(3, 0)
OneNone == Sends(1, 0)
NoneNone == Sends(0, 0)
=============================================================================

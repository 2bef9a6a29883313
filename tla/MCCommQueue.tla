---------------------------- MODULE MCCommQueue ----------------------------
(* CommQueue with few slots for TLC. *)
EXTENDS CommQueue
=============================================================================

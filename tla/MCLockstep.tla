----------------------------- MODULE MCLockstep -----------------------------
(* Lockstep for TLC: how many commands each player gives.                   *)
EXTENDS Lockstep

SecondOne == << 0, 1 >>
OneOfThree == << 0, 1, 0 >>
=============================================================================

--------------------------- MODULE MCGlobalChannel ---------------------------
(* GlobalChannel with two machines for TLC: how much each sends, and how    *)
(* often it enters the lobby.                                               *)
EXTENDS GlobalChannel, TLC

CONSTANTS a, b

Counts(x, y) == a :> x @@ b :> y
TwoMachines == {a, b}
ThreeNone == Counts(3, 0)
ThreeOne == Counts(3, 1)
TwoNone == Counts(2, 0)
FirstAgain == Counts(2, 1)
SecondAgain == Counts(1, 2)
=============================================================================

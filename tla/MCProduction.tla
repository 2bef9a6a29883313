---------------------------- MODULE MCProduction ----------------------------
(* Production for TLC: a unit and a structure, money for one of them.       *)
EXTENDS Production

CONSTANTS tank, tower

Prices == [i \in Items |-> 1]
ThreePlants == {<< "player", "unit" >>, << "player", "building" >>,
                << "computer", "unit" >>}
UnitPlants == {<< "player", "unit" >>, << "computer", "unit" >>}
Amounts(p, c) == [h \in Houses |-> IF h = "player" THEN p ELSE c]
OneNone == Amounts(1, 0)
TwoNone == Amounts(2, 0)
NoneOne == Amounts(0, 1)
Rooms(u, b) == [k \in Kinds |-> IF k = "unit" THEN u ELSE b]
FewObjects == Rooms(2, 2)
=============================================================================

----------------------------- MODULE MCCoverage -----------------------------
(* Coverage on a short line.  A point is some 0.6 km wide: a cell of 1.2 km  *)
(* has two, the tolerance of 2 km is three.                                  *)
EXTENDS Coverage

MCGround == 0 .. 15
MCSpot == {6, 7, 10}
OneSpot == {6}
MCRadius == {4, 7}
OneRadius == {4}
SmallAndLarge == {2, 9}
OneCity == [p \in MCGround |-> "lagos"]
TwoCities == [p \in MCGround |-> IF p < 8 THEN "lagos" ELSE "ibadan"]
=============================================================================

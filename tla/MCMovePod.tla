------------------------------ MODULE MCMovePod ------------------------------
(***************************************************************************)
(* Instances of MovePod.                                                   *)
(***************************************************************************)
EXTENDS MovePod

CONSTANTS r1, r2, m1, m2

OneParent == {r1}
TwoParents == {r1, r2}
OneMove == {m1}
TwoMoves == {m1, m2}
SameParent == [m \in Moves |-> r1]
OwnParents == [m \in Moves |-> IF m = m1 THEN r1 ELSE r2]
NoVolume == [m \in Moves |-> FALSE]
SecondHasVolume == [m \in Moves |-> m = m2]
FivePods == 1..5
SixPods == 1..6
==============================================================================

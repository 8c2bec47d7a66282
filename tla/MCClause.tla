------------------------------ MODULE MCClause ------------------------------
(***************************************************************************)
(* Instances of ClauseEnv for TLC: one unit with more tasks and values than *)
(* its limits allow at a time, and two units that compete for one port.    *)
(***************************************************************************)
EXTENDS ClauseEnv, TLC

CONSTANTS p1, u1, u2, c1, c2, c3, v1, v2, o1

\* c1 has as many values as the unit may have under way, and is the slower.
ThreeValues == (c1 :> <<v1, v2>>) @@ (c2 :> <<v1>>) @@ (c3 :> <<v2>>)
TwoValues == (c1 :> <<v1, v2>>) @@ (c2 :> <<v1>>)
ThreeTimes == (c1 :> 1) @@ (c2 :> 0) @@ (c3 :> 3)
TwoTimes == (c1 :> 3) @@ (c2 :> 0)
OnePe == [u \in Unit |-> p1]
OneUnit == [c \in ClauseTask |-> u1]
SplitUnits == [c \in ClauseTask |-> IF c = c1 THEN u1 ELSE u2]
=============================================================================

------------------------- MODULE MCAutonomyDispatch -------------------------
(* Instances of AutonomyDispatch for TLC: two patrol plans, two courses, the *)
(* service's limits, and a shorter retry limit where plans come and go.      *)
EXTENDS AutonomyDispatch

AllKinds == Kind
=============================================================================

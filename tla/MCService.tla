----------------------------- MODULE MCService -----------------------------
(* An instance of Service for TLC: one request beside the loop, a task that *)
(* may raise and one that does not, and participants for a start that is    *)
(* repeated after it failed, one that two threads make, and a late one.     *)
EXTENDS ServiceProofs

TwoTopics == <<"ownship", "perception">>
=============================================================================

------------------------ MODULE MCManualInteraction ------------------------
(* Instances of ManualInteraction for TLC. *)
EXTENDS ManualInteraction

\* The decision loop is the only thread that ticks the task.
LoopOnly == {"loop"}
=============================================================================

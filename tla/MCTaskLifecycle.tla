-------------------------- MODULE MCTaskLifecycle --------------------------
(* Instances of TaskLifecycle for TLC. *)
EXTENDS TaskLifecycle

Req(id, kind, designated, optical, timed, manual) ==
  [id |-> id, kind |-> kind, designated |-> designated, optical |-> optical,
   timed |-> timed, manual |-> manual]

\* One request of each kind over two ids; tracking once with and once without
\* a designated batch number, linkage and a duration.
MixedRequests ==
  {Req("a", "preplan", FALSE, FALSE, FALSE, TRUE),
   Req("a", "tracking", FALSE, TRUE, TRUE, FALSE),
   Req("a", "patrol", FALSE, FALSE, FALSE, TRUE),
   Req("b", "tracking", TRUE, TRUE, FALSE, TRUE),
   Req("b", "underwater_search", FALSE, FALSE, TRUE, TRUE),
   Req("b", "fixed_tracking", FALSE, FALSE, TRUE, FALSE)}

\* A tracking task that may be timed out, a patrol that only a new task ends, and a preplan
\* under the id of the first.
OverlapRequests ==
  {Req("a", "preplan", FALSE, FALSE, FALSE, TRUE),
   Req("a", "tracking", FALSE, FALSE, TRUE, TRUE),
   Req("b", "patrol", FALSE, FALSE, FALSE, FALSE)}

\* A preplan and its execution, under one id.
PlanThenTrack ==
  {Req("a", "preplan", FALSE, FALSE, TRUE, TRUE),
   Req("a", "tracking", FALSE, TRUE, TRUE, TRUE)}
=============================================================================

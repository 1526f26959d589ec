----------------------------- MODULE MCTracking -----------------------------
(* An instance of Tracking for TLC: targets that differ in threat, value   *)
(* and distance, come and go, leave the area and the sector ahead.         *)
EXTENDS Tracking

Seen(threat, value, distance) ==
  [active |-> TRUE, surface |-> TRUE, inArea |-> TRUE, ahead |-> TRUE, type |-> 1, friend |-> 0,
   threat |-> threat, value |-> value, length |-> 1, distance |-> distance]

\* Seen, but not to be picked unless designated, or unless it is the current one.
Hidden == {[Seen(2, 0, 0) EXCEPT !.surface = FALSE], [Seen(2, 0, 0) EXCEPT !.ahead = FALSE]}
Outside == [Seen(1, 0, 1) EXCEPT !.inArea = FALSE]

CONSTANTS x, y, z

AllModes == Mode
TwoTargets == {x, y}
ThreeTargets == {x, y, z}

Scene(a, b, c) == [t \in Target |-> IF t = x THEN a ELSE IF t = y THEN b ELSE c]

\* The target x alone and outside, beaten by y in distance (by the margin and by
\* more), in value and in threat, gone; y not to be picked; z crowding x out.
SomeSituations ==
  {Scene(Seen(1, 0, 2), Seen(1, 0, d), None) : d \in {0, 1}}
  \cup {Scene(Seen(1, 0, 1), Seen(1, 1, 2), None), Scene(Outside, Seen(2, 0, 2), None)}
  \cup {Scene(None, Seen(1, 0, 1), None), Scene(Seen(1, 0, 1), Seen(1, 0, 0), Seen(1, 0, 0))}
  \cup {Scene(Seen(1, 0, 1), h, None) : h \in Hidden}

Unnamed == [id |-> None, batch |-> None, named |-> FALSE, type |-> None, friend |-> None, threat |-> None]
SomeWishes == {Unnamed}
=============================================================================

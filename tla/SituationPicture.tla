-------------------------- MODULE SituationPicture --------------------------
(***************************************************************************)
(* What the situation store promises the services that read it: the latest *)
(* report of every target heard of within the stale timeout, no other, and *)
(* no trace of how or when expired reports are cleaned up.                 *)
(***************************************************************************)
EXTENDS Naturals

CONSTANTS
  Batch,     \* target batch numbers
  Report,    \* contents of a target report
  None,      \* no report
  Timeout    \* target_stale_timeout_sec, in ticks of the clock

VARIABLES
  picture,   \* batch -> report and its age, or None
  answer     \* what the last reader was given: batch -> report or None

Sighting == [report : Report, age : 0 .. Timeout]

Init ==
  /\ picture = [b \in Batch |-> None]
  /\ answer = [b \in Batch |-> None]

\* Reports arrive, and start a new age.
Sight(reports) ==
  /\ picture' = [b \in Batch |-> IF reports[b] = None THEN picture[b]
                                 ELSE [report |-> reports[b], age |-> 0]]
  /\ answer' = answer

\* The whole picture is replaced.
Replace(reports) ==
  /\ picture' = [b \in Batch |-> IF reports[b] = None THEN None
                                 ELSE [report |-> reports[b], age |-> 0]]
  /\ answer' = answer

\* Targets are taken out.
Remove(gone) ==
  /\ picture' = [b \in Batch |-> IF b \in gone THEN None ELSE picture[b]]
  /\ answer' = answer

\* Time passes: a report not renewed within the timeout is gone.
Elapse ==
  /\ picture' = [b \in Batch |->
       IF picture[b] = None \/ picture[b].age = Timeout THEN None
       ELSE [picture[b] EXCEPT !.age = @ + 1]]
  /\ answer' = answer

\* A reader asks for some targets.
Read(asked) ==
  /\ answer' = [b \in Batch |-> IF b \in asked /\ picture[b] # None
                                THEN picture[b].report ELSE None]
  /\ picture' = picture

Reports == [Batch -> Report \cup {None}]

Next ==
  \/ \E reports \in Reports : Sight(reports) \/ Replace(reports)
  \/ \E some \in SUBSET Batch : Remove(some) \/ Read(some)
  \/ Elapse

Spec == Init /\ [][Next]_<<picture, answer>>
=============================================================================

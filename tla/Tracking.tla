------------------------------ MODULE Tracking ------------------------------
(***************************************************************************)
(* How a task follows its target: TrackingService.refresh_result and       *)
(* FixedTrackingService.refresh_result with the choice of a target         *)
(* (TargetFilter), the stages of intercept and expel, and the point        *)
(* recommended (algorithms/track_point_generator.py).                      *)
(*                                                                         *)
(* The decision loop ticks the task.  A tick looks at the situation, and   *)
(* then either gives up or engages; the operator may name another target   *)
(* before, between and after.                                              *)
(***************************************************************************)
EXTENDS TargetFilter

CONSTANTS
  Modes,           \* the kinds of task to consider
  Wishes,          \* the constraints they are created with
  StableCycles,    \* tracking.arrival.stable_cycles
  ConfirmCycles    \* POINT_SWITCH_CONFIRM_CYCLES

Mode == {"escort", "intercept", "expel", "fixed"}
Side == {"left", "right"}
Sector == {"rear", "left_rear", "right_rear", "left", "right", "left_front", "right_front"}

ASSUME TrackingAssumption ==
  /\ Modes \subseteq Mode
  /\ Wishes \subseteq Wish
  /\ None \notin Side \cup Sector
  /\ StableCycles \in Nat \ {0} /\ ConfirmCycles \in Nat \ {0}

VARIABLES
  mode,       \* task_type
  area,       \* whether the task's area has a centre
  wish,       \* target_constraint
  current,    \* current_target_id, current_target_batch_no
  stage,      \* intercept_stage or expel_stage
  side,       \* intercept_side or expel_side
  stable,     \* the arrival_stable_cycles of the stage, up to StableCycles
  sector,     \* tracking_point_sector
  rival,      \* tracking_point_switch_candidate_sector, .._confirm_cycles
  point,      \* recommended_point: the target it is at and the sector
  sight,      \* the targets the tick looked at
  picked,     \* the target it selected
  near,       \* history: own ship was at the last point when the tick engaged
  visits,     \* history: ticks in a row at a point of the target, before the last stage
  lead,       \* history: ticks in a row in which one sector was the clear best
  earned,     \* history: the target at which the stage was last moved on
  handed      \* history: the operator renumbered the target at this stage

selection == <<sector, rival>>
stages == <<stage, side, stable>>
task == <<mode, area, wish, current, stages, selection, point>>
history == <<near, visits, lead, earned, handed>>
vars == <<task, sight, picked, history>>

Capped(n, limit) == IF n < limit THEN n ELSE limit

Nothing == [t \in Target |-> None]
NoRival == [sector |-> None, cycles |-> 0]
Unmarked == [target |-> None, sector |-> None]

Keeps == mode # "fixed"

-----------------------------------------------------------------------------
(* The start of a tick. *)

\* No own ship, or no target: a tracking task starts from the first stage
\* again and forgets its sector; a fixed one only drops the point.
GiveUp ==
  /\ picked = None
  /\ point' = Unmarked
  /\ IF mode = "fixed" THEN UNCHANGED <<stages, selection>>
     ELSE /\ sector' = None /\ rival' = NoRival
          /\ stage' = 0 /\ side' = None /\ stable' = 0
  /\ handed' = FALSE
  /\ UNCHANGED <<mode, area, wish, current, sight, picked, near, visits, lead, earned>>

Look ==
  /\ picked = None
  /\ \E sit \in Situations :
       LET candidates == Candidates(sit, wish, current, Keeps) IN
       /\ candidates # {}
       /\ sight' = sit
       /\ \E ranking \in Rankings(sit, candidates) : picked' = Selected(sit, ranking, current)
  /\ UNCHANGED <<task, history>>

-----------------------------------------------------------------------------
(* The stages. *)

LastStage == IF mode = "intercept" THEN 2 ELSE IF mode = "expel" THEN 1 ELSE 0

\* mutant: another target is taken for the same
TargetChangedNever(target) == FALSE

TargetChanged(target) == current.batch \notin {None, target}

\* _infer_side_from_bearing, of the point recommended: none when it is astern
\* or ahead.
SideOf(sec) ==
  IF sec \in {"left", "left_rear"} THEN "left"
  ELSE IF sec \in {"right", "right_rear"} THEN "right" ELSE None

\* _refresh_expel_side: where the centre of the area lies from the target,
\* or else, the first time, the nearer side.
ExpelSides(before) ==
  (IF before = None THEN Side ELSE {before}) \cup (IF area THEN Side ELSE {})

\* _refresh_intercept_stage: the side of the point reached, or the nearer one.
InterceptSides(before) ==
  IF SideOf(point.sector) # None THEN {SideOf(point.sector)}
  ELSE IF before # None THEN {before} ELSE Side

\* mutant: the ticks at the point do not add up
CyclesAnew(old, at) == IF at THEN 1 ELSE 0

\* Ticks in a row with own ship at the point recommended last.
Cycles(old, at) == IF at THEN old.stable + 1 ELSE 0

\* mutant: the next stage starts with the ticks of the one before
MovedOnRunning(old, at, sides) ==
  {[stage |-> old.stage + 1, side |-> s, stable |-> StableCycles] : s \in sides}

MovedOn(old, at, sides) ==
  {[stage |-> old.stage + 1, side |-> s, stable |-> 0] : s \in sides}

\* What the refreshes before the engagement leave of the stage: the expel side
\* first, then arrival. In the last stage the count goes on; it stops here at
\* StableCycles.
Refreshed(old, at) ==
  LET sides == IF mode = "expel" THEN ExpelSides(old.side) ELSE {old.side}
      cycles == Cycles(old, at) IN
  IF mode \notin {"intercept", "expel"} THEN {old}
  ELSE IF cycles >= StableCycles /\ old.stage < LastStage
  THEN MovedOn(old, at, IF mode = "intercept" /\ old.stage = 0
                        THEN InterceptSides(old.side) ELSE sides)
  ELSE {[stage |-> old.stage, side |-> s, stable |-> Capped(cycles, StableCycles)] : s \in sides}

-----------------------------------------------------------------------------
(* The point. *)

\* generate_tracking_candidate_points: the sectors offered.
Sectors(stg, sd) ==
  IF mode \in {"escort", "fixed"} THEN {"rear", "left_rear", "right_rear"}
  ELSE IF mode = "intercept" THEN
    IF stg = 0 THEN {"rear", "left_rear", "right_rear"}
    ELSE IF stg = 1 THEN IF sd = None THEN Side ELSE {sd}
    ELSE (IF sd # "right" THEN {"left_front"} ELSE {}) \cup (IF sd # "left" THEN {"right_front"} ELSE {})
  ELSE IF stg = 0
    THEN (IF sd # "right" THEN {"left_rear"} ELSE {}) \cup (IF sd # "left" THEN {"right_rear"} ELSE {})
    ELSE IF sd = None THEN Side ELSE {sd}

Chosen(sec, riv) == [sector |-> sec, rival |-> riv]

\* mutant: an advantage that is not clear leaves the count as it is
SelectSectorPatient(sec, riv, offered, top, clear) ==
  IF sec \notin offered \/ sec = top THEN Chosen(top, NoRival)
  ELSE IF ~ clear THEN Chosen(sec, riv)
  ELSE LET cycles == IF riv.sector = top THEN riv.cycles + 1 ELSE 1 IN
       IF cycles >= ConfirmCycles THEN Chosen(top, NoRival)
       ELSE Chosen(sec, [sector |-> top, cycles |-> cycles])

\* mutant: a sector that is not offered any more is kept
SelectSectorStale(sec, riv, offered, top, clear) ==
  IF sec \in {None, top} THEN Chosen(top, NoRival)
  ELSE IF ~ clear THEN Chosen(sec, NoRival)
  ELSE LET cycles == IF riv.sector = top THEN riv.cycles + 1 ELSE 1 IN
       IF cycles >= ConfirmCycles THEN Chosen(top, NoRival)
       ELSE Chosen(sec, [sector |-> top, cycles |-> cycles])

\* _select_tracking_candidate: top is the best of the sectors offered, clear
\* when it beats the current one by POINT_SWITCH_SCORE_MARGIN.
SelectSector(sec, riv, offered, top, clear) ==
  IF sec \notin offered \/ sec = top THEN Chosen(top, NoRival)
  ELSE IF ~ clear THEN Chosen(sec, NoRival)
  ELSE LET cycles == IF riv.sector = top THEN riv.cycles + 1 ELSE 1 IN
       IF cycles >= ConfirmCycles THEN Chosen(top, NoRival)
       ELSE Chosen(sec, [sector |-> top, cycles |-> cycles])

\* What is remembered, for the properties, of a tick that engages target.
Remember(target, old, moved, at, top, clear) ==
  /\ near' = at
  /\ visits' = IF at /\ point.target = target /\ old.stage = moved.stage /\ moved.stage < LastStage
               THEN Capped(IF TargetChanged(target) THEN 1 ELSE visits + 1, StableCycles) ELSE 0
  /\ lead' = IF ~ clear THEN NoRival
             ELSE [sector |-> top,
                   cycles |-> IF lead.sector = top THEN Capped(lead.cycles + 1, ConfirmCycles) ELSE 1]
  /\ earned' = IF moved.stage > old.stage THEN target ELSE earned
  /\ handed' = (handed /\ ~ TargetChanged(target) /\ moved.stage = old.stage)

\* The rest of a tick with a target. Own ship may be at the point only if
\* there is one, and a sector is clearly better only than another.
Engage ==
  /\ picked # None
  /\ LET changed == TargetChanged(picked)
         sec == IF changed THEN None ELSE sector
         old == IF changed THEN [stage |-> 0, side |-> None, stable |-> 0]
                ELSE [stage |-> stage, side |-> side, stable |-> stable] IN
     \E at, clear \in BOOLEAN : \E moved \in Refreshed(old, at) :
       LET offered == Sectors(moved.stage, moved.side) IN
       \E top \in offered :
         LET chosen == SelectSector(sec, IF changed THEN NoRival ELSE rival, offered, top, clear) IN
         /\ at => point # Unmarked
         /\ clear => sec \in offered \ {top}
         /\ stage' = moved.stage /\ side' = moved.side /\ stable' = moved.stable
         /\ sector' = chosen.sector /\ rival' = chosen.rival
         /\ point' = [target |-> picked, sector |-> chosen.sector]
         /\ Remember(picked, old, moved, at, top, clear)
  /\ current' = [id |-> picked, batch |-> picked]
  /\ picked' = None /\ sight' = Nothing
  /\ UNCHANGED <<mode, area, wish>>

-----------------------------------------------------------------------------
(* The operator. *)

\* Feedback with an id that has digits names a target by the number they make,
\* whether or not it is the one of that id: the tick will not see that the
\* target changed.
ChooseByNumber(target, number) ==
  /\ current' = [id |-> target, batch |-> number]
  /\ wish' = [wish EXCEPT !.id = None, !.batch = number]
  /\ handed' = (handed \/ current.batch \notin {None, number})
  /\ UNCHANGED <<mode, area, stages, selection, point, sight, picked, near, visits, lead, earned>>

\* An id without digits leaves the batch number of the target before.
ChooseByName(target) ==
  /\ current' = [current EXCEPT !.id = target]
  /\ wish' = [wish EXCEPT !.id = target, !.batch = None]
  /\ UNCHANGED <<mode, area, stages, selection, point, sight, picked, history>>

-----------------------------------------------------------------------------
Init ==
  /\ mode \in Modes
  /\ area \in BOOLEAN /\ (area => mode = "expel")     \* read by an expel only
  /\ wish \in Wishes
  /\ current = [id |-> None, batch |-> None]
  /\ stage = 0 /\ side = None /\ stable = 0
  /\ sector = None /\ rival = NoRival
  /\ point = Unmarked
  /\ sight = Nothing /\ picked = None
  /\ near = FALSE /\ visits = 0 /\ lead = NoRival /\ earned = None /\ handed = FALSE

Tick == GiveUp \/ Look \/ Engage

Next ==
  \/ Tick
  \/ \E target, number \in Target : ChooseByNumber(target, number)
  \/ \E target \in Target : ChooseByName(target)

Spec == Init /\ [][Next]_vars

\* The loop keeps ticking.
FairSpec == Spec /\ WF_vars(Tick)

-----------------------------------------------------------------------------
(* Properties. *)

\* The type of every variable.
TypeOK ==
  /\ mode \in Modes /\ area \in BOOLEAN
  /\ wish \in Wish
  /\ current \in [id : Target \cup {None}, batch : Target \cup {None}]
  /\ stage \in 0 .. 2 /\ side \in Side \cup {None} /\ stable \in 0 .. StableCycles
  /\ sector \in Sector \cup {None}
  /\ rival \in [sector : Sector \cup {None}, cycles : 0 .. ConfirmCycles - 1]
  /\ point \in [target : Target \cup {None}, sector : Sector \cup {None}]
  /\ sight \in [Target -> Sighting \cup {None}] /\ picked \in Target \cup {None}
  /\ near \in BOOLEAN /\ visits \in 0 .. StableCycles
  /\ lead \in [sector : Sector \cup {None}, cycles : 0 .. ConfirmCycles]
  /\ earned \in Target \cup {None} /\ handed \in BOOLEAN

\* The point recommended is one the stage and the side provide for, and no
\* stage but the first is without a side: no tick leaves a point of the stage,
\* the side or the target before.
PointFitsStage ==
  point # Unmarked =>
    /\ point.sector = sector /\ sector \in Sectors(stage, side)
    /\ stage > 0 => side # None

\* A stage reached with one target is not carried to another: whatever the
\* filter does, a new target starts from the first stage. Only an operator who
\* names the target by its number takes the stage along.
StageOfTarget == stage > 0 /\ point # Unmarked => handed \/ earned = point.target

Engages == picked # None /\ picked' = None

\* With the same target the stages go up one at a time, after the ticks in a
\* row at its point that arrival asks for (the first may be at the point of the
\* target before), and an intercept stays on the side it went in on.
StagesAdvance ==
  [][Engages /\ ~ TargetChanged(picked) =>
       /\ stage' \in {stage, stage + 1}
       /\ stage' > stage => near' /\ (handed \/ visits >= StableCycles - 2)
       /\ mode = "intercept" /\ stage > 0 => side' = side]_vars

\* The point does not flicker: with the same target, stage and side it moves
\* to a sector only after that sector was clearly the best in as many ticks in
\* a row as confirmation asks for.
PointConfirmed ==
  [][Engages /\ ~ TargetChanged(picked) /\ point # Unmarked
     /\ stage' = stage /\ side' = side /\ point'.sector # point.sector
       => lead' = [sector |-> point'.sector, cycles |-> ConfirmCycles]]_vars

Looks == picked = None /\ picked' # None
Passes(t) == t \in Candidates(sight', wish, current, Keeps)

\* "Ranking rule: threat(desc) -> value(desc) -> length(desc) -> distance(asc)":
\* the target selected is outclassed by none that passes the filters, and none
\* of its class is nearer by more than the margin.
PicksBest ==
  [][Looks => \A t \in Target : Passes(t) =>
       /\ ~ Outclasses(sight'[t], sight'[picked'])
       /\ SameClass(sight'[t], sight'[picked'])
            => sight'[picked'].distance <= sight'[t].distance + Margin]_vars

\* "If only distance differs and improvement is small, keep current target":
\* a target that is tracked and still passes is left for one of a better class
\* or nearer by more than the margin, or when others fill the first TopK.
TargetSteady ==
  [][\A t \in Target : Looks /\ IsCurrent(t, current) /\ Passes(t) /\ picked' # t =>
       \/ Outclasses(sight'[picked'], sight'[t])
       \/ sight'[t].distance > sight'[picked'].distance + Margin
       \/ Cardinality({u \in Target \ {t} : Passes(u)}) >= TopK]_vars

\* An intercept or expel whose own ship stays at the points of one target gets
\* to the last stage, as long as the target is seen.
StagesComplete ==
  \A t \in Target :
    <>[](current.batch = t /\ point.target = t /\ near) => <>[](stage = LastStage)
=============================================================================

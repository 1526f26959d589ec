---------------------------- MODULE TargetFilter ----------------------------
(***************************************************************************)
(* The choice of a target: filter_and_select_target of                     *)
(* algorithms/target_filter.py, as operators on a situation.               *)
(*                                                                         *)
(* A situation gives each target a sighting, or None.  Geometry is in the  *)
(* sighting already: whether the target is in the task's area and ahead of *)
(* own ship, and how far it is.  A target stands for its id and its batch  *)
(* number both; what names one may be either.  The bearing window is the   *)
(* whole circle and asks nothing.                                          *)
(***************************************************************************)
EXTENDS Integers, FiniteSets

CONSTANTS
  Target,
  None,
  Situations,       \* the situations to consider
  MinThreat,        \* default_min_threat_level
  MaxRange,         \* max_target_range_m; min_target_range_m is 0
  SectorFilter,     \* sector_filter_enabled
  Hysteresis,       \* hysteresis_enabled
  Margin,           \* hysteresis_margin
  TopK              \* top_k_candidates

Sighting == [active : BOOLEAN, surface : BOOLEAN, inArea : BOOLEAN, ahead : BOOLEAN,
             type : Int, friend : Int,
             threat : Int, value : Int, length : Int, distance : Int]

\* target_constraint: what _build_internal_target_constraint makes of a
\* request, and the feedback of it. None is not given; named is target_name,
\* which is compared with nothing.
Wish == [id : Target \cup {None}, batch : Target \cup {None}, named : BOOLEAN,
         type : Int \cup {None}, friend : Int \cup {None}, threat : Int \cup {None}]

ASSUME FilterAssumption ==
  /\ IsFiniteSet(Target) /\ None \notin Target
  /\ Situations \subseteq [Target -> Sighting \cup {None}] /\ None \notin Sighting
  /\ MinThreat \in Int /\ MaxRange \in Nat
  /\ SectorFilter \in BOOLEAN /\ Hysteresis \in BOOLEAN
  /\ Margin \in Nat /\ TopK \in Nat \ {0}

-----------------------------------------------------------------------------
(* The hard filters. *)

\* _has_explicit_identity_constraint
Designated(wish) == wish.id # None \/ wish.batch # None

\* _has_explicit_hard_constraint: any wish at all, a name too.
Explicit(wish) ==
  Designated(wish) \/ wish.named \/ wish.type # None \/ wish.friend # None \/ wish.threat # None

\* _is_current_target: by its batch number if it has one.
IsCurrent(t, current) == t = (IF current.batch # None THEN current.batch ELSE current.id)

Given(value, wanted) == wanted = None \/ value = wanted

\* A target passes: keep is keep_current_target_outside_task_area. Without
\* any wish only surface targets that threaten enough do; the sector ahead is
\* not asked of a target that is designated.
Admitted(s, t, wish, current, keep) ==
  /\ s.active
  /\ s.inArea \/ (keep /\ IsCurrent(t, current))
  /\ Explicit(wish) \/ (s.surface /\ s.threat >= MinThreat)
  /\ Given(t, wish.id) /\ Given(t, wish.batch)
  /\ Given(s.type, wish.type) /\ Given(s.threat, wish.threat) /\ Given(s.friend, wish.friend)
  /\ Designated(wish) \/ ~ SectorFilter \/ s.ahead
  /\ s.distance <= MaxRange

Candidates(sit, wish, current, keep) ==
  {t \in Target : sit[t] # None /\ Admitted(sit[t], t, wish, current, keep)}

-----------------------------------------------------------------------------
(* The ranking. *)

\* Threat, then value, then length.
Outclasses(a, b) ==
  \/ a.threat > b.threat
  \/ a.threat = b.threat /\ a.value > b.value
  \/ a.threat = b.threat /\ a.value = b.value /\ a.length > b.length

SameClass(a, b) == a.threat = b.threat /\ a.value = b.value /\ a.length = b.length

\* _build_rank_key: then the nearer.
Precedes(a, b) == Outclasses(a, b) \/ (SameClass(a, b) /\ a.distance < b.distance)

\* The orders in which the sort may leave the candidates: equal ones stay as
\* the situation store lists them, which changes as they come and go.
Rankings(sit, candidates) ==
  {r \in [1 .. Cardinality(candidates) -> candidates] :
     \A i, j \in DOMAIN r : i < j => r[i] # r[j] /\ ~ Precedes(sit[r[j]], sit[r[i]])}

\* mutant: the margin is added on the wrong side
KeptFarBelow(sit, ranking, current) ==
  {ranking[i] : i \in {k \in DOMAIN ranking :
     /\ Hysteresis
     /\ 1 < k /\ k <= TopK
     /\ IsCurrent(ranking[k], current)
     /\ SameClass(sit[ranking[1]], sit[ranking[k]])
     /\ sit[ranking[k]].distance + Margin <= sit[ranking[1]].distance}}

\* mutant: equal threat is enough to keep the current target
KeptByThreat(sit, ranking, current) ==
  {ranking[i] : i \in {k \in DOMAIN ranking :
     /\ Hysteresis
     /\ 1 < k /\ k <= TopK
     /\ IsCurrent(ranking[k], current)
     /\ sit[ranking[1]].threat = sit[ranking[k]].threat
     /\ sit[ranking[k]].distance <= sit[ranking[1]].distance + Margin}}

\* _apply_hysteresis names the current target by its batch number, or else by
\* its exact id, and looks for it among the first TopK.
Kept(sit, ranking, current) ==
  {ranking[i] : i \in {k \in DOMAIN ranking :
     /\ Hysteresis
     /\ 1 < k /\ k <= TopK
     /\ IsCurrent(ranking[k], current)
     /\ SameClass(sit[ranking[1]], sit[ranking[k]])
     /\ sit[ranking[k]].distance <= sit[ranking[1]].distance + Margin}}

Selected(sit, ranking, current) ==
  IF Kept(sit, ranking, current) # {} THEN CHOOSE t \in Kept(sit, ranking, current) : TRUE
  ELSE ranking[1]
=============================================================================

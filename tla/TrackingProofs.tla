--------------------------- MODULE TrackingProofs ---------------------------
(***************************************************************************)
(* Theorems about TargetFilter and Tracking, for any targets, situations   *)
(* and settings.                                                           *)
(***************************************************************************)
EXTENDS Tracking, FiniteSetTheorems, TLAPS

-----------------------------------------------------------------------------
(* The selection. *)

\* A ranking lists every candidate, the first one at 1.
LEMMA RankingCovers ==
  ASSUME NEW sit, NEW S \in SUBSET Target, S # {}, NEW r \in Rankings(sit, S)
  PROVE  /\ Cardinality(S) \in Nat \ {0} /\ DOMAIN r = 1 .. Cardinality(S)
         /\ r \in [1 .. Cardinality(S) -> S]
         /\ \A t \in S : \E i \in DOMAIN r : r[i] = t
<1> DEFINE n == Cardinality(S)
<1>1. IsFiniteSet(S)
  BY FS_Subset, FilterAssumption DEF FilterAssumption
<1>2. n \in Nat \ {0}
  BY <1>1, FS_CardinalityType, FS_EmptySet
<1>3. /\ r \in [1 .. n -> S]
      /\ \A i, j \in 1 .. n : i < j => r[i] # r[j]
  BY DEF Rankings
<1>4. ASSUME NEW i \in 1 .. n, NEW j \in 1 .. n, r[i] = r[j] PROVE i = j
  BY <1>2, <1>3, <1>4
<1>5. r \in Injection(1 .. n, S)
  BY <1>3, <1>4 DEF Injection, IsInjective
<1>6. Cardinality(1 .. n) = n
  BY <1>2, FS_Interval
<1>7. r \in Surjection(1 .. n, S)
  BY <1>1, <1>5, <1>6, FS_Injection
<1> QED
  BY <1>2, <1>3, <1>7 DEF Surjection

\* The order of a ranking: who is behind the first is neither of a better
\* class nor of the same class and nearer.
LEMMA FirstIsBest ==
  ASSUME NEW sit, NEW S \in SUBSET Target, S # {}, NEW r \in Rankings(sit, S),
         \A u \in S : sit[u] \in Sighting,
         NEW t \in S
  PROVE  /\ ~ Outclasses(sit[t], sit[r[1]])
         /\ SameClass(sit[t], sit[r[1]]) => sit[r[1]].distance <= sit[t].distance
<1>1. PICK i \in DOMAIN r : r[i] = t
  BY RankingCovers
<1>2. 1 \in DOMAIN r /\ i \in Nat /\ i >= 1 /\ r[1] \in S
  BY RankingCovers
<1>3. sit[t] \in Sighting /\ sit[r[1]] \in Sighting
  BY <1>2
<1>4. i = 1 \/ ~ Precedes(sit[t], sit[r[1]])
  BY <1>1, <1>2 DEF Rankings
<1>5. CASE i = 1
  BY <1>1, <1>3, <1>5 DEF Outclasses, Sighting
<1>6. CASE ~ Precedes(sit[t], sit[r[1]])
  BY <1>3, <1>6 DEF Precedes, Sighting
<1> QED
  BY <1>4, <1>5, <1>6

LEMMA SelectedBest ==
  ASSUME NEW sit, NEW S \in SUBSET Target, S # {}, NEW r \in Rankings(sit, S),
         \A u \in S : sit[u] \in Sighting, NEW cur
  PROVE  /\ Selected(sit, r, cur) \in S
         /\ \A t \in S :
              /\ ~ Outclasses(sit[t], sit[Selected(sit, r, cur)])
              /\ SameClass(sit[t], sit[Selected(sit, r, cur)])
                   => sit[Selected(sit, r, cur)].distance <= sit[t].distance + Margin
<1> DEFINE p == Selected(sit, r, cur)
<1>a. Margin \in Nat /\ r[1] \in S /\ sit[r[1]] \in Sighting
  BY RankingCovers, FilterAssumption DEF FilterAssumption
<1>1. p \in S /\ (p = r[1] \/ /\ SameClass(sit[r[1]], sit[p])
                              /\ sit[p].distance <= sit[r[1]].distance + Margin)
  <2>1. CASE Kept(sit, r, cur) = {}
    BY <1>a, <2>1 DEF Selected
  <2>2. CASE Kept(sit, r, cur) # {}
    <3>1. p \in Kept(sit, r, cur)
      BY <2>2 DEF Selected
    <3>2. PICK k \in DOMAIN r : /\ p = r[k] /\ SameClass(sit[r[1]], sit[r[k]])
                                /\ sit[r[k]].distance <= sit[r[1]].distance + Margin
      BY <3>1 DEF Kept
    <3>3. r[k] \in S
      BY <3>2, RankingCovers
    <3> QED
      BY <3>2, <3>3
  <2> QED
    BY <2>1, <2>2
<1>2. ASSUME NEW t \in S
      PROVE  /\ ~ Outclasses(sit[t], sit[p])
             /\ SameClass(sit[t], sit[p]) => sit[p].distance <= sit[t].distance + Margin
  <2>1. /\ ~ Outclasses(sit[t], sit[r[1]])
        /\ SameClass(sit[t], sit[r[1]]) => sit[r[1]].distance <= sit[t].distance
    BY FirstIsBest
  <2>2. sit[t] \in Sighting /\ sit[p] \in Sighting
    BY <1>1
  <2>3. CASE p = r[1]
    BY <1>a, <2>1, <2>2, <2>3 DEF Sighting
  <2>4. CASE SameClass(sit[r[1]], sit[p]) /\ sit[p].distance <= sit[r[1]].distance + Margin
    BY <1>a, <2>1, <2>2, <2>4 DEF Sighting, SameClass, Outclasses
  <2> QED
    BY <1>1, <2>3, <2>4
<1> QED
  BY <1>1, <1>2

\* The current target among the candidates is passed over only for a better
\* class, a nearer one beyond the margin, or because it is not in the first TopK.
LEMMA SelectedKeeps ==
  ASSUME NEW sit, NEW S \in SUBSET Target, S # {}, NEW r \in Rankings(sit, S),
         \A u \in S : sit[u] \in Sighting, NEW cur,
         Hysteresis, NEW t \in S, IsCurrent(t, cur), Selected(sit, r, cur) # t
  PROVE  \/ Outclasses(sit[Selected(sit, r, cur)], sit[t])
         \/ sit[t].distance > sit[Selected(sit, r, cur)].distance + Margin
         \/ Cardinality(S \ {t}) >= TopK
<1>1. PICK k \in DOMAIN r : r[k] = t
  BY RankingCovers
<1>2. \A u \in Kept(sit, r, cur) : u = t
  BY DEF Kept, IsCurrent
<1>3. Kept(sit, r, cur) = {}
  BY <1>2 DEF Selected
<1>4. Selected(sit, r, cur) = r[1]
  BY <1>3 DEF Selected
<1>5. /\ k \in 1 .. Cardinality(S) /\ Cardinality(S) \in Nat /\ 1 \in DOMAIN r
      /\ k # 1 /\ TopK \in Nat /\ Margin \in Nat
  BY <1>1, <1>4, RankingCovers, FilterAssumption DEF FilterAssumption
<1>6. \/ k > TopK \/ ~ SameClass(sit[r[1]], sit[t])
      \/ ~ (sit[t].distance <= sit[r[1]].distance + Margin)
  BY <1>1, <1>3, <1>5 DEF Kept
<1>7. sit[t] \in Sighting /\ sit[r[1]] \in Sighting
  BY <1>5, RankingCovers
<1>8. CASE k > TopK
  <2>1. IsFiniteSet(S)
    BY FS_Subset, FilterAssumption DEF FilterAssumption
  <2>2. Cardinality(S \ {t}) = Cardinality(S) - 1
    BY <2>1, FS_RemoveElement
  <2> QED
    BY <1>5, <1>8, <2>2
<1>9. CASE ~ SameClass(sit[r[1]], sit[t])
  <2>1. ~ Outclasses(sit[t], sit[r[1]])
    BY FirstIsBest
  <2>2. Outclasses(sit[r[1]], sit[t])
    BY <1>7, <1>9, <2>1 DEF Outclasses, SameClass, Sighting
  <2> QED
    BY <1>4, <2>2
<1>10. CASE ~ (sit[t].distance <= sit[r[1]].distance + Margin)
  BY <1>4, <1>5, <1>7, <1>10 DEF Sighting
<1> QED
  BY <1>6, <1>8, <1>9, <1>10

-----------------------------------------------------------------------------
(* The operators of a tick. *)

Progress == [stage : 0 .. 2, side : Side \cup {None}, stable : 0 .. StableCycles]

\* What a stage has to be, apart from its type.
Sound(p) == p.stage <= LastStage /\ (p.stage > 0 => p.side # None)

LEMMA OfferedType ==
  ASSUME NEW stg, NEW sd \in Side \cup {None} PROVE Sectors(stg, sd) \subseteq Sector
<1>1. Side \subseteq Sector
  BY DEF Side, Sector
<1> QED
  BY <1>1 DEF Sectors, Sector

LEMMA SidesType ==
  ASSUME NEW sd \in Side \cup {None}
  PROVE  /\ ExpelSides(sd) \subseteq Side
         /\ InterceptSides(sd) \subseteq Side
<1>1. SideOf(point.sector) \in Side \cup {None}
  BY DEF SideOf, Side
<1> QED
  BY <1>1 DEF ExpelSides, InterceptSides

\* The stages of a tick: up by one and only at the point after enough ticks,
\* never without a side.
LEMMA RefreshedFacts ==
  ASSUME NEW old \in Progress, Sound(old), NEW at \in BOOLEAN,
         NEW moved \in Refreshed(old, at)
  PROVE  /\ moved \in Progress /\ Sound(moved)
         /\ moved.stage \in {old.stage, old.stage + 1}
         /\ moved.stage > old.stage => at /\ old.stable + 1 >= StableCycles /\ moved.stable = 0
         /\ LastStage > 0 => moved.stable <= (IF at THEN old.stable + 1 ELSE 0)
         /\ mode = "intercept" /\ old.stage > 0 => moved.side = old.side
<1> DEFINE cycles == Cycles(old, at)
           sides == IF mode = "expel" THEN ExpelSides(old.side) ELSE {old.side}
           next == IF mode = "intercept" /\ old.stage = 0 THEN InterceptSides(old.side) ELSE sides
<1>a. /\ StableCycles \in Nat \ {0} /\ None \notin Side
      /\ old.stage \in 0 .. 2 /\ old.side \in Side \cup {None} /\ old.stable \in 0 .. StableCycles
      /\ LastStage \in 0 .. 2 /\ old.stage <= LastStage /\ (old.stage > 0 => old.side # None)
  BY TrackingAssumption DEF TrackingAssumption, Progress, Sound, LastStage
<1>b. cycles \in Nat /\ cycles <= old.stable + 1 /\ cycles = (IF at THEN old.stable + 1 ELSE 0)
  BY <1>a DEF Cycles
<1>1. CASE mode \notin {"intercept", "expel"}
  BY <1>1, <1>a DEF Refreshed, LastStage
<1>2. CASE mode \in {"intercept", "expel"} /\ cycles >= StableCycles /\ old.stage < LastStage
  <2>1. moved \in MovedOn(old, at, next)
    BY <1>2 DEF Refreshed
  <2>2. PICK s \in next : moved = [stage |-> old.stage + 1, side |-> s, stable |-> 0]
    BY <2>1 DEF MovedOn
  <2>3. s \in Side
    BY <1>2, <1>a, SidesType DEF LastStage
  <2>4. moved.stage = old.stage + 1 /\ moved.side = s /\ moved.stable = 0
    BY <2>2
  <2>5. moved \in Progress
    BY <2>2, <2>3, <1>a, <1>2 DEF Progress
  <2>6. at /\ old.stable + 1 >= StableCycles
    BY <1>2, <1>a, <1>b
  <2> QED
    BY <2>3, <2>4, <2>5, <2>6, <1>2, <1>a DEF Sound
<1>3. CASE mode \in {"intercept", "expel"} /\ ~ (cycles >= StableCycles /\ old.stage < LastStage)
  <2>1. PICK s \in sides : moved = [stage |-> old.stage, side |-> s, stable |-> Capped(cycles, StableCycles)]
    BY <1>3 DEF Refreshed
  <2>2. s \in Side \cup {None} /\ (old.stage > 0 => s # None)
    BY <1>a, SidesType
  <2>3. Capped(cycles, StableCycles) \in 0 .. StableCycles /\ Capped(cycles, StableCycles) <= cycles
    BY <1>a, <1>b DEF Capped
  <2>4. moved.stage = old.stage /\ moved.side = s /\ moved.stable = Capped(cycles, StableCycles)
    BY <2>1
  <2>5. moved \in Progress
    BY <2>1, <2>2, <2>3, <1>a DEF Progress
  <2>6. mode = "intercept" => s = old.side
    OBVIOUS
  <2> QED
    BY <2>2, <2>3, <2>4, <2>5, <2>6, <1>a, <1>b DEF Sound
<1> QED
  BY <1>1, <1>2, <1>3

\* The count that a clear advantage of top comes to.
Trial(riv, top) == IF riv.sector = top THEN riv.cycles + 1 ELSE 1

\* The rules for a sector chosen: without a clear advantage the rival is
\* forgotten, with one it is counted and at last chosen.
Unrivalled(c) == c.rival = NoRival
Weighed(sec, riv, top, c) ==
  IF Trial(riv, top) >= ConfirmCycles THEN c = Chosen(top, NoRival)
  ELSE c = Chosen(sec, [sector |-> top, cycles |-> Trial(riv, top)])

\* The sector chosen is one of those offered, and another than the one held
\* only if that is not offered or the other was confirmed.
LEMMA SelectSectorFacts ==
  ASSUME NEW sec \in Sector \cup {None},
         NEW riv \in [sector : Sector \cup {None}, cycles : 0 .. ConfirmCycles - 1],
         NEW offered \in SUBSET Sector, NEW top \in offered,
         NEW clear \in BOOLEAN, clear => sec \in offered \ {top}
  PROVE  LET c == SelectSector(sec, riv, offered, top, clear) IN
         /\ c.sector \in offered
         /\ c.rival \in [sector : Sector \cup {None}, cycles : 0 .. ConfirmCycles - 1]
         /\ (~ clear => Unrivalled(c)) /\ (clear => Weighed(sec, riv, top, c))
         /\ sec \in offered /\ c.sector # sec /\ sec # top => clear
<1> DEFINE c == SelectSector(sec, riv, offered, top, clear)
<1>a. ConfirmCycles \in Nat \ {0} /\ riv.cycles \in 0 .. ConfirmCycles - 1 /\ top \in Sector
  BY TrackingAssumption DEF TrackingAssumption
<1>b. NoRival \in [sector : Sector \cup {None}, cycles : 0 .. ConfirmCycles - 1]
  BY <1>a DEF NoRival
<1> DEFINE n == Trial(riv, top)
<1>c. n \in Nat \ {0}
  BY <1>a DEF Trial
<1>1. CASE ~ clear
  BY <1>1, <1>b DEF SelectSector, Chosen, Unrivalled
<1>2. CASE clear
  <2>1. sec \in offered /\ sec # top
    BY <1>2
  <2>2. c = IF n >= ConfirmCycles THEN Chosen(top, NoRival) ELSE Chosen(sec, [sector |-> top, cycles |-> n])
    BY <1>2, <2>1 DEF SelectSector, Trial
  <2>3. CASE n >= ConfirmCycles
    <3>1. c = Chosen(top, NoRival)
      BY <2>2, <2>3
    <3>2. c.sector = top /\ c.rival = NoRival
      BY <3>1 DEF Chosen
    <3>3. c.rival \in [sector : Sector \cup {None}, cycles : 0 .. ConfirmCycles - 1]
      BY <1>b, <3>2
    <3> QED
      <4>1. c.sector \in offered
        BY <3>2
      <4>2. ~ (Trial(riv, top) < ConfirmCycles)
        BY <1>a, <1>c, <2>3
      <4> QED
        BY <1>2, <2>3, <3>1, <3>3, <4>1, <4>2 DEF Weighed
  <2>4. CASE ~ (n >= ConfirmCycles)
    <3>1. [sector |-> top, cycles |-> n] \in [sector : Sector \cup {None}, cycles : 0 .. ConfirmCycles - 1]
      BY <1>a, <1>c, <2>4
    <3>2. c = Chosen(sec, [sector |-> top, cycles |-> n])
      BY <2>2, <2>4
    <3>3. c.sector = sec /\ c.rival = [sector |-> top, cycles |-> n]
      BY <3>2 DEF Chosen
    <3> QED
      BY <1>2, <1>a, <1>c, <2>1, <2>4, <3>1, <3>2, <3>3 DEF Weighed
  <2> QED
    BY <2>3, <2>4
<1> QED
  BY <1>1, <1>2

-----------------------------------------------------------------------------
(* The inductive invariant. *)

\* A stage reached belongs to the target that is current, unless the operator
\* renumbered it, and so does the point.
Owned ==
  /\ stage > 0 => current.batch # None /\ (handed \/ earned = current.batch)
  /\ point # Unmarked => current.batch # None /\ (handed \/ point.target = current.batch)

\* The ticks counted were spent at points of the target, but for the first.
Counted == stage < LastStage => handed \/ stable <= visits + 1

\* The rival sector is the one in the lead, and one in the lead without being
\* rival was chosen.
Led ==
  /\ rival.sector # None => lead = rival
  /\ lead.sector # None => lead = rival \/ sector \in {None, lead.sector}

SInv ==
  /\ TypeOK
  /\ Sound([stage |-> stage, side |-> side, stable |-> stable])
  /\ PointFitsStage /\ Owned /\ Counted /\ Led

\* The stage, sector and rival that Engage goes on from.
OldStage ==
  IF TargetChanged(picked) THEN [stage |-> 0, side |-> None, stable |-> 0]
  ELSE [stage |-> stage, side |-> side, stable |-> stable]
OldSector == IF TargetChanged(picked) THEN None ELSE sector
OldRival == IF TargetChanged(picked) THEN NoRival ELSE rival

\* Engage with its choices and what follows from them.
Engaged(at, moved, top, clear, c) ==
  LET offered == Sectors(moved.stage, moved.side) IN
  /\ picked # None
  /\ at \in BOOLEAN /\ (at => point # Unmarked)
  /\ moved \in Refreshed(OldStage, at)
  /\ top \in offered
  /\ clear \in BOOLEAN /\ (clear => OldSector \in offered \ {top})
  /\ c = SelectSector(OldSector, OldRival, offered, top, clear)
  /\ stage' = moved.stage /\ side' = moved.side /\ stable' = moved.stable
  /\ sector' = c.sector /\ rival' = c.rival
  /\ point' = [target |-> picked, sector |-> c.sector]
  /\ Remember(picked, OldStage, moved, at, top, clear)
  /\ current' = [id |-> picked, batch |-> picked]
  /\ picked' = None /\ sight' = Nothing
  /\ UNCHANGED <<mode, area, wish>>

LEMMA EngageTakes == Engage => \E at, moved, top, clear, c : Engaged(at, moved, top, clear, c)
<1> SUFFICES ASSUME Engage PROVE \E at, moved, top, clear, c : Engaged(at, moved, top, clear, c)
  OBVIOUS
<1>1. PICK at \in BOOLEAN, clear \in BOOLEAN : \E moved \in Refreshed(OldStage, at) :
        \E top \in Sectors(moved.stage, moved.side) :
          Engaged(at, moved, top, clear, SelectSector(OldSector, OldRival, Sectors(moved.stage, moved.side), top, clear))
  BY DEF Engage, Engaged, OldStage, OldSector, OldRival
<1> QED
  BY <1>1

LEMMA EngagedFacts ==
  ASSUME SInv, NEW at, NEW moved, NEW top, NEW clear, NEW c, Engaged(at, moved, top, clear, c)
  PROVE  /\ OldStage \in Progress /\ Sound(OldStage)
         /\ at \in BOOLEAN /\ (at => point # Unmarked) /\ clear \in BOOLEAN
         /\ moved \in Progress /\ Sound(moved)
         /\ moved.stage \in {OldStage.stage, OldStage.stage + 1}
         /\ moved.stage > OldStage.stage => at /\ OldStage.stable + 1 >= StableCycles /\ moved.stable = 0
         /\ LastStage > 0 => moved.stable <= (IF at THEN OldStage.stable + 1 ELSE 0)
         /\ mode = "intercept" /\ OldStage.stage > 0 => moved.side = OldStage.side
         /\ top \in Sector /\ c.sector \in Sector /\ c.sector \in Sectors(moved.stage, moved.side)
         /\ c.rival \in [sector : Sector \cup {None}, cycles : 0 .. ConfirmCycles - 1]
         /\ clear => OldSector \in Sector \ {top} /\ ~ TargetChanged(picked)
         /\ (~ clear => Unrivalled(c)) /\ (clear => Weighed(OldSector, OldRival, top, c))
         /\ OldSector \in Sectors(moved.stage, moved.side) /\ c.sector # OldSector /\ OldSector # top => clear
<1> DEFINE offered == Sectors(moved.stage, moved.side)
<1>a. /\ StableCycles \in Nat \ {0} /\ ConfirmCycles \in Nat \ {0} /\ None \notin Side \cup Sector
      /\ LastStage \in 0 .. 2
  BY TrackingAssumption DEF TrackingAssumption, LastStage
<1>1. OldStage \in Progress /\ Sound(OldStage)
  BY <1>a DEF SInv, TypeOK, OldStage, Progress, Sound
<1>2. at \in BOOLEAN /\ (at => point # Unmarked) /\ moved \in Refreshed(OldStage, at)
  BY DEF Engaged
<1>3. /\ moved \in Progress /\ Sound(moved)
      /\ moved.stage \in {OldStage.stage, OldStage.stage + 1}
      /\ moved.stage > OldStage.stage => at /\ OldStage.stable + 1 >= StableCycles /\ moved.stable = 0
      /\ LastStage > 0 => moved.stable <= (IF at THEN OldStage.stable + 1 ELSE 0)
      /\ mode = "intercept" /\ OldStage.stage > 0 => moved.side = OldStage.side
  BY <1>1, <1>2, RefreshedFacts
<1>4. moved.side \in Side \cup {None}
  BY <1>3 DEF Progress
<1>5. offered \in SUBSET Sector
  BY <1>4, OfferedType
<1>6. /\ OldSector \in Sector \cup {None}
      /\ OldRival \in [sector : Sector \cup {None}, cycles : 0 .. ConfirmCycles - 1]
  BY <1>a DEF SInv, TypeOK, OldSector, OldRival, NoRival
<1>7. /\ top \in offered
      /\ clear \in BOOLEAN /\ (clear => OldSector \in offered \ {top})
      /\ c = SelectSector(OldSector, OldRival, offered, top, clear)
  BY DEF Engaged
<1>8. clear => OldSector \in Sector \ {top} /\ ~ TargetChanged(picked)
  BY <1>a, <1>5, <1>7 DEF OldSector
<1>9. /\ c.sector \in offered
      /\ c.rival \in [sector : Sector \cup {None}, cycles : 0 .. ConfirmCycles - 1]
  <2> HIDE DEF offered
  <2> QED
    BY <1>5, <1>6, <1>7, SelectSectorFacts
<1>10. OldSector \in offered /\ c.sector # OldSector /\ OldSector # top => clear
  <2> HIDE DEF offered
  <2> QED
    BY <1>5, <1>6, <1>7, SelectSectorFacts
<1>11. (~ clear => Unrivalled(c)) /\ (clear => Weighed(OldSector, OldRival, top, c))
  <2> HIDE DEF offered
  <2> QED
    BY <1>5, <1>6, <1>7, SelectSectorFacts
<1>12. clear \in BOOLEAN
  BY <1>7
<1>13. top \in Sector /\ c.sector \in Sector
  BY <1>5, <1>7, <1>9
<1> QED
  BY <1>1, <1>2, <1>3, <1>8, <1>9, <1>10, <1>11, <1>12, <1>13

\* What Engage does to the history.
LEMMA RememberFacts ==
  ASSUME TypeOK, NEW target \in Target, NEW old, NEW moved, NEW at \in BOOLEAN, NEW top \in Sector,
         NEW clear \in BOOLEAN, Remember(target, old, moved, at, top, clear)
  PROVE  /\ near' \in BOOLEAN /\ visits' \in 0 .. StableCycles
         /\ lead' \in [sector : Sector \cup {None}, cycles : 0 .. ConfirmCycles]
         /\ earned' \in Target \cup {None} /\ handed' \in BOOLEAN
<1>a. StableCycles \in Nat \ {0} /\ ConfirmCycles \in Nat \ {0}
  BY TrackingAssumption DEF TrackingAssumption
<1>1. visits \in 0 .. StableCycles /\ lead.cycles \in 0 .. ConfirmCycles
      /\ earned \in Target \cup {None} /\ handed \in BOOLEAN
  BY DEF TypeOK
<1>2. visits' \in 0 .. StableCycles
  BY <1>a, <1>1 DEF Remember, Capped
<1>3. lead' \in [sector : Sector \cup {None}, cycles : 0 .. ConfirmCycles]
  <2> DEFINE n == IF lead.sector = top THEN Capped(lead.cycles + 1, ConfirmCycles) ELSE 1
  <2>1. n \in 0 .. ConfirmCycles
    BY <1>a, <1>1 DEF Capped
  <2>2. lead' = IF ~ clear THEN NoRival ELSE [sector |-> top, cycles |-> n]
    BY DEF Remember
  <2> QED
    BY <1>a, <2>1, <2>2 DEF NoRival
<1>4. near' \in BOOLEAN /\ earned' \in Target \cup {None}
  BY <1>1 DEF Remember
<1>5. handed' \in BOOLEAN
  BY DEF Remember
<1> QED
  BY <1>2, <1>3, <1>4, <1>5

LEMMA TypeInit == Init => SInv
<1> SUFFICES ASSUME Init PROVE SInv
  OBVIOUS
<1>a. /\ StableCycles \in Nat \ {0} /\ ConfirmCycles \in Nat \ {0} /\ None \notin Side \cup Sector
      /\ Wishes \subseteq Wish /\ LastStage \in 0 .. 2
  BY TrackingAssumption DEF TrackingAssumption, LastStage
<1>1. TypeOK
  <2>1. mode \in Modes /\ area \in BOOLEAN /\ wish \in Wish
    BY <1>a DEF Init
  <2>2. current \in [id : Target \cup {None}, batch : Target \cup {None}]
    BY DEF Init
  <2>3. stage \in 0 .. 2 /\ side \in Side \cup {None} /\ stable \in 0 .. StableCycles
    BY <1>a DEF Init
  <2>4. /\ sector \in Sector \cup {None}
        /\ rival \in [sector : Sector \cup {None}, cycles : 0 .. ConfirmCycles - 1]
    BY <1>a DEF Init, NoRival
  <2>5. point \in [target : Target \cup {None}, sector : Sector \cup {None}]
    BY DEF Init, Unmarked
  <2>6. sight \in [Target -> Sighting \cup {None}] /\ picked \in Target \cup {None}
    BY DEF Init, Nothing
  <2>7. /\ visits \in 0 .. StableCycles
        /\ lead \in [sector : Sector \cup {None}, cycles : 0 .. ConfirmCycles]
        /\ earned \in Target \cup {None}
    BY <1>a DEF Init, NoRival
  <2>8. near \in BOOLEAN /\ handed \in BOOLEAN
    BY Zenon DEF Init
  <2> QED
    BY <2>1, <2>2, <2>3, <2>4, <2>5, <2>6, <2>7, <2>8 DEF TypeOK
<1>2. Sound([stage |-> stage, side |-> side, stable |-> stable])
  BY <1>a DEF Init, Sound
<1>3. PointFitsStage /\ Owned /\ Counted /\ Led
  BY <1>a DEF Init, PointFitsStage, Owned, Counted, Led, NoRival
<1> QED
  BY <1>1, <1>2, <1>3 DEF SInv

LEMMA LookSelects ==
  ASSUME Look
  PROVE  /\ picked = None /\ UNCHANGED <<task, history>>
         /\ sight' \in Situations
         /\ \E r \in Rankings(sight', Candidates(sight', wish, current, Keeps)) : picked' = Selected(sight', r, current)
         /\ Candidates(sight', wish, current, Keeps) # {}
         /\ Candidates(sight', wish, current, Keeps) \in SUBSET Target
         /\ \A u \in Candidates(sight', wish, current, Keeps) : sight'[u] \in Sighting
<1>1. PICK sit \in Situations :
        /\ Candidates(sit, wish, current, Keeps) # {} /\ sight' = sit
        /\ \E r \in Rankings(sit, Candidates(sit, wish, current, Keeps)) : picked' = Selected(sit, r, current)
  BY DEF Look
<1>2. sit \in [Target -> Sighting \cup {None}]
  BY FilterAssumption DEF FilterAssumption
<1>3. /\ Candidates(sit, wish, current, Keeps) \in SUBSET Target
      /\ \A u \in Candidates(sit, wish, current, Keeps) : sit[u] \in Sighting
  BY <1>2 DEF Candidates
<1>4. picked = None /\ UNCHANGED <<task, history>>
  BY DEF Look
<1> QED
  BY <1>1, <1>3, <1>4

LEMMA LookPicks ==
  ASSUME Look
  PROVE  /\ picked' \in Candidates(sight', wish, current, Keeps)
         /\ \A t \in Candidates(sight', wish, current, Keeps) :
              /\ ~ Outclasses(sight'[t], sight'[picked'])
              /\ SameClass(sight'[t], sight'[picked']) => sight'[picked'].distance <= sight'[t].distance + Margin
BY LookSelects, SelectedBest

LEMMA EngageType ==
  ASSUME SInv, Engage PROVE TypeOK'
<1>1. PICK at, moved, top, clear, c : Engaged(at, moved, top, clear, c)
  BY EngageTakes
<1>2. /\ at \in BOOLEAN /\ clear \in BOOLEAN /\ top \in Sector
      /\ moved \in Progress /\ c.sector \in Sector
      /\ c.rival \in [sector : Sector \cup {None}, cycles : 0 .. ConfirmCycles - 1]
  BY <1>1, EngagedFacts
<1>3. TypeOK /\ picked \in Target
  BY <1>1 DEF SInv, TypeOK, Engaged
<1>4. /\ near' \in BOOLEAN /\ visits' \in 0 .. StableCycles
      /\ lead' \in [sector : Sector \cup {None}, cycles : 0 .. ConfirmCycles]
      /\ earned' \in Target \cup {None} /\ handed' \in BOOLEAN
  BY <1>1, <1>2, <1>3, RememberFacts DEF Engaged
<1>5. stage' \in 0 .. 2 /\ side' \in Side \cup {None} /\ stable' \in 0 .. StableCycles
  BY <1>1, <1>2 DEF Engaged, Progress
<1>6. /\ sector' \in Sector \cup {None}
      /\ rival' \in [sector : Sector \cup {None}, cycles : 0 .. ConfirmCycles - 1]
  BY <1>1, <1>2 DEF Engaged
<1>7. point' \in [target : Target \cup {None}, sector : Sector \cup {None}]
  BY <1>1, <1>2, <1>3 DEF Engaged
<1>8. current' \in [id : Target \cup {None}, batch : Target \cup {None}]
  BY <1>1, <1>3 DEF Engaged
<1>9. sight' \in [Target -> Sighting \cup {None}] /\ picked' \in Target \cup {None}
  BY <1>1 DEF Engaged, Nothing
<1>10. mode' \in Modes /\ area' \in BOOLEAN /\ wish' \in Wish
  BY <1>1, <1>3 DEF Engaged, TypeOK
<1> QED
  BY <1>4, <1>5, <1>6, <1>7, <1>8, <1>9, <1>10 DEF TypeOK

\* Naming a target keeps the types of the records that hold its name.
LEMMA NamedType ==
  ASSUME NEW w \in Wish, NEW cur \in [id : Target \cup {None}, batch : Target \cup {None}],
         NEW t \in Target, NEW i \in Target \cup {None}, NEW b \in Target \cup {None}
  PROVE  /\ [w EXCEPT !.id = i, !.batch = b] \in Wish
         /\ [cur EXCEPT !.id = t] \in [id : Target \cup {None}, batch : Target \cup {None}]
         /\ [id |-> t, batch |-> t] \in [id : Target \cup {None}, batch : Target \cup {None}]
BY DEF Wish

LEMMA TypeStep == ASSUME SInv, [Next]_vars PROVE TypeOK'
<1>a. /\ StableCycles \in Nat \ {0} /\ ConfirmCycles \in Nat \ {0}
      /\ Situations \subseteq [Target -> Sighting \cup {None}] /\ TypeOK
  BY TrackingAssumption, FilterAssumption DEF TrackingAssumption, FilterAssumption, SInv
<1>1. CASE GiveUp
  <2>1. /\ stage' \in 0 .. 2 /\ side' \in Side \cup {None} /\ stable' \in 0 .. StableCycles
        /\ sector' \in Sector \cup {None}
        /\ rival' \in [sector : Sector \cup {None}, cycles : 0 .. ConfirmCycles - 1]
    BY <1>a, <1>1 DEF GiveUp, TypeOK, stages, selection, NoRival
  <2>2. point' \in [target : Target \cup {None}, sector : Sector \cup {None}] /\ handed' \in BOOLEAN
    BY <1>1 DEF GiveUp, Unmarked
  <2> QED
    BY <1>a, <1>1, <2>1, <2>2 DEF GiveUp, TypeOK
<1>2. CASE Look
  <2>1. /\ picked' \in Candidates(sight', wish, current, Keeps) /\ sight' \in Situations
        /\ Candidates(sight', wish, current, Keeps) \in SUBSET Target /\ UNCHANGED <<task, history>>
    BY <1>2, LookPicks, LookSelects
  <2>2. picked' \in Target \cup {None} /\ sight' \in [Target -> Sighting \cup {None}]
    BY <1>a, <2>1
  <2> QED
    BY <1>a, <2>1, <2>2 DEF TypeOK, task, history, stages, selection
<1>3. CASE Engage
  BY <1>3, EngageType
<1>4. ASSUME NEW target \in Target, NEW number \in Target, ChooseByNumber(target, number) PROVE TypeOK'
  <2>1. None \in Target \cup {None} /\ {target, number} \subseteq Target \cup {None} /\ wish \in Wish
        /\ current \in [id : Target \cup {None}, batch : Target \cup {None}]
    BY <1>a DEF TypeOK
  <2>2. wish' \in Wish /\ current' \in [id : Target \cup {None}, batch : Target \cup {None}]
    BY <1>4, <2>1, NamedType DEF ChooseByNumber
  <2>3. handed' \in BOOLEAN
    BY <1>4 DEF ChooseByNumber
  <2> QED
    BY <1>a, <1>4, <2>2, <2>3 DEF ChooseByNumber, TypeOK, stages, selection
<1>5. ASSUME NEW target \in Target, ChooseByName(target) PROVE TypeOK'
  <2>1. None \in Target \cup {None} /\ target \in Target \cup {None} /\ wish \in Wish
        /\ current \in [id : Target \cup {None}, batch : Target \cup {None}]
    BY <1>a DEF TypeOK
  <2>2. wish' \in Wish /\ current' \in [id : Target \cup {None}, batch : Target \cup {None}]
    BY <1>5, <2>1, NamedType DEF ChooseByName
  <2> QED
    BY <1>a, <1>5, <2>2 DEF ChooseByName, TypeOK, stages, selection, history
<1>6. CASE UNCHANGED vars
  BY <1>a, <1>6 DEF vars, TypeOK, task, history, stages, selection
<1> QED
  BY <1>1, <1>2, <1>3, <1>4, <1>5, <1>6 DEF Next, Tick

-----------------------------------------------------------------------------
(* Engage keeps each part of the invariant. *)

LEMMA EngageOwned == ASSUME SInv, Engage PROVE Owned'
<1>1. PICK at, moved, top, clear, c : Engaged(at, moved, top, clear, c)
  BY EngageTakes
<1>2. /\ moved.stage \in {OldStage.stage, OldStage.stage + 1}
      /\ OldStage \in Progress /\ moved \in Progress
  BY <1>1, EngagedFacts
<1>3. /\ picked \in Target /\ picked # None /\ None \notin Target
      /\ stage' = moved.stage /\ current'.batch = picked /\ point'.target = picked
      /\ Remember(picked, OldStage, moved, at, top, clear)
  BY <1>1, FilterAssumption DEF Engaged, SInv, TypeOK, FilterAssumption
<1>4. OldStage.stage \in 0 .. 2 /\ moved.stage \in 0 .. 2
  BY <1>2 DEF Progress
<1>5. CASE moved.stage > OldStage.stage
  <2>1. earned' = picked
    BY <1>3, <1>5 DEF Remember
  <2> QED
    BY <1>3, <2>1 DEF Owned
<1>6. CASE moved.stage = OldStage.stage
  <2>1. CASE TargetChanged(picked)
    <3>1. moved.stage = 0
      BY <1>6, <2>1 DEF OldStage
    <3> QED
      BY <1>3, <3>1 DEF Owned
  <2>2. CASE ~ TargetChanged(picked)
    <3>1. OldStage.stage = stage /\ current.batch \in {None, picked}
      BY <2>2 DEF OldStage, TargetChanged
    <3>2. handed' = handed /\ earned' = earned
      BY <1>3, <1>4, <1>6, <2>2 DEF Remember, SInv, TypeOK
    <3>3. stage > 0 => handed \/ earned = picked
      BY <3>1 DEF SInv, Owned
    <3> QED
      BY <1>3, <1>6, <3>1, <3>2, <3>3 DEF Owned
  <2> QED
    BY <2>1, <2>2
<1> QED
  BY <1>2, <1>4, <1>5, <1>6

LEMMA EngageCounted == ASSUME SInv, Engage PROVE Counted'
<1>1. PICK at, moved, top, clear, c : Engaged(at, moved, top, clear, c)
  BY EngageTakes
<1>2. /\ moved.stage \in {OldStage.stage, OldStage.stage + 1}
      /\ OldStage \in Progress /\ moved \in Progress
      /\ moved.stage > OldStage.stage => moved.stable = 0
      /\ at => point # Unmarked
      /\ LastStage > 0 => moved.stable <= (IF at THEN OldStage.stable + 1 ELSE 0)
  BY <1>1, EngagedFacts
<1>3. /\ picked # None /\ stage' = moved.stage /\ stable' = moved.stable
      /\ LastStage' = LastStage /\ LastStage \in 0 .. 2
      /\ Remember(picked, OldStage, moved, at, top, clear)
  BY <1>1 DEF Engaged, LastStage
<1>4. /\ OldStage.stage \in 0 .. 2 /\ moved.stage \in 0 .. 2
      /\ OldStage.stable \in 0 .. StableCycles /\ moved.stable \in 0 .. StableCycles
      /\ visits \in 0 .. StableCycles /\ handed \in BOOLEAN /\ StableCycles \in Nat \ {0}
  BY <1>2, TrackingAssumption DEF Progress, SInv, TypeOK, TrackingAssumption
<1>5. visits' \in Nat
  BY <1>3, <1>4 DEF Remember, Capped
<1>6. SUFFICES ASSUME moved.stage < LastStage, ~ handed', at, moved.stage = OldStage.stage
               PROVE  moved.stable <= visits' + 1
  BY <1>2, <1>3, <1>4, <1>5 DEF Counted
<1>7. CASE TargetChanged(picked)
  <2>1. OldStage.stable = 0
    BY <1>7 DEF OldStage
  <2> QED
    BY <1>2, <1>3, <1>4, <1>5, <1>6, <2>1
<1>8. CASE ~ TargetChanged(picked)
  <2>1. /\ OldStage.stage = stage /\ OldStage.stable = stable
        /\ current.batch \in {None, picked}
    BY <1>8 DEF OldStage, TargetChanged
  <2>2. ~ handed
    BY <1>3, <1>4, <1>6, <1>8 DEF Remember
  <2>3. point.target = picked
    BY <1>2, <1>6, <2>1, <2>2 DEF SInv, Owned
  <2>4. visits' = Capped(visits + 1, StableCycles)
    BY <1>3, <1>4, <1>6, <1>8, <2>3 DEF Remember
  <2>5. stable <= visits + 1
    BY <1>6, <2>1, <2>2 DEF SInv, Counted
  <2> QED
    BY <1>2, <1>3, <1>4, <1>6, <2>1, <2>4, <2>5 DEF Capped
<1> QED
  BY <1>7, <1>8

LEMMA EngageLed == ASSUME SInv, Engage PROVE Led'
<1>1. PICK at, moved, top, clear, c : Engaged(at, moved, top, clear, c)
  BY EngageTakes
<1>2. /\ clear \in BOOLEAN /\ (~ clear => Unrivalled(c)) /\ top \in Sector
      /\ clear => OldSector \in Sector \ {top} /\ ~ TargetChanged(picked)
      /\ clear => Weighed(OldSector, OldRival, top, c)
  BY <1>1, EngagedFacts
<1>3. /\ sector' = c.sector /\ rival' = c.rival
      /\ Remember(picked, OldStage, moved, at, top, clear)
  BY <1>1 DEF Engaged
<1>4. /\ ConfirmCycles \in Nat \ {0} /\ None \notin Sector
      /\ rival \in [sector : Sector \cup {None}, cycles : 0 .. ConfirmCycles - 1]
      /\ lead \in [sector : Sector \cup {None}, cycles : 0 .. ConfirmCycles]
  BY TrackingAssumption DEF TrackingAssumption, SInv, TypeOK
<1>5. CASE ~ clear
  <2>1. lead' = NoRival
    BY <1>3, <1>5 DEF Remember
  <2> QED
    BY <1>2, <1>3, <1>5, <2>1 DEF Led, NoRival, Unrivalled
<1>6. CASE clear
  <2>1. OldRival = rival /\ OldSector = sector /\ sector \in Sector \ {top}
    BY <1>2, <1>6 DEF OldRival, OldSector
  <2>2. lead' = [sector |-> top, cycles |-> IF lead.sector = top THEN Capped(lead.cycles + 1, ConfirmCycles) ELSE 1]
    BY <1>3, <1>6 DEF Remember
  <2>3. lead.sector = top => lead = rival
    BY <1>2, <1>4, <2>1 DEF SInv, Led
  <2>4. rival.sector = top => lead = rival
    BY <1>2, <1>4 DEF SInv, Led
  <2>5. Trial(rival, top) \in Nat
    BY <1>4 DEF Trial
  <2>6. CASE Trial(rival, top) >= ConfirmCycles
    <3>1. c.sector = top /\ c.rival = NoRival
      BY <1>2, <1>6, <2>1, <2>6 DEF Chosen, Weighed
    <3> QED
      BY <1>3, <2>2, <3>1 DEF Led, NoRival
  <2>7. CASE Trial(rival, top) < ConfirmCycles
    <3>1. c.rival = [sector |-> top, cycles |-> Trial(rival, top)]
      BY <1>2, <1>4, <1>6, <2>1, <2>5, <2>7 DEF Chosen, Weighed
    <3>2. lead'.cycles = Trial(rival, top)
      BY <1>4, <2>2, <2>3, <2>4, <2>7 DEF Trial, Capped
    <3>3. lead' = c.rival
      BY <2>2, <3>1, <3>2
    <3> QED
      BY <1>3, <3>3 DEF Led
  <2> QED
    BY <1>4, <2>5, <2>6, <2>7
<1> QED
  BY <1>2, <1>5, <1>6

LEMMA EngageFits ==
  ASSUME SInv, Engage
  PROVE  Sound([stage |-> stage, side |-> side, stable |-> stable])' /\ PointFitsStage'
<1>1. PICK at, moved, top, clear, c : Engaged(at, moved, top, clear, c)
  BY EngageTakes
<1>2. Sound(moved) /\ c.sector \in Sectors(moved.stage, moved.side)
  BY <1>1, EngagedFacts
<1>3. /\ stage' = moved.stage /\ side' = moved.side /\ mode' = mode
      /\ sector' = c.sector /\ point'.sector = c.sector
  BY <1>1 DEF Engaged
<1>4. Sound([stage |-> stage, side |-> side, stable |-> stable])'
  BY <1>2, <1>3 DEF Sound, LastStage
<1>5. Sectors(stage, side)' = Sectors(moved.stage, moved.side)
  BY <1>3 DEF Sectors
<1>6. stage' > 0 => side' # None
  BY <1>2, <1>3 DEF Sound
<1> QED
  BY <1>2, <1>3, <1>4, <1>5, <1>6 DEF PointFitsStage

LEMMA NotNegative == ASSUME NEW m \in Nat, NEW n \in 0 .. m PROVE 0 <= n + 1
  OBVIOUS

LEMMA Step == ASSUME SInv, [Next]_vars PROVE SInv'
<1>a. TypeOK'
  BY TypeStep
<1>b. /\ StableCycles \in Nat \ {0} /\ None \notin Side \cup Sector \cup Target /\ TypeOK
      /\ LastStage \in 0 .. 2 /\ stage \in 0 .. 2 /\ handed \in BOOLEAN
  BY TrackingAssumption, FilterAssumption DEF TrackingAssumption, FilterAssumption, SInv, TypeOK, LastStage
<1> DEFINE Progressed == Sound([stage |-> stage, side |-> side, stable |-> stable])
<1>1. CASE GiveUp
  <2>1. point' = Unmarked /\ mode' = mode /\ lead' = lead /\ visits' = visits /\ current' = current
    BY <1>1 DEF GiveUp
  <2>2. CASE mode = "fixed"
    <3>1. UNCHANGED <<stage, side, stable, sector, rival>>
      BY <1>1, <2>2 DEF GiveUp, stages, selection
    <3>2. Progressed'
      BY <2>1, <3>1 DEF SInv, Sound, LastStage
    <3>3. stage' = 0 /\ LastStage' = 0
      BY <1>b, <2>1, <2>2, <3>1 DEF SInv, Sound, LastStage
    <3>4. Led'
      BY <2>1, <3>1 DEF SInv, Led
    <3> QED
      BY <1>a, <2>1, <3>2, <3>3, <3>4 DEF SInv, PointFitsStage, Owned, Counted
  <2>3. CASE mode # "fixed"
    <3>1. stage' = 0 /\ stable' = 0 /\ sector' = None /\ rival' = NoRival
      BY <1>1, <2>3 DEF GiveUp
    <3>2. Progressed'
      BY <3>1 DEF Sound, LastStage
    <3>3. Led'
      BY <3>1 DEF Led, NoRival
    <3>n. StableCycles \in Nat
      BY <1>b
    <3>4. visits' \in 0 .. StableCycles
      BY <1>a DEF TypeOK
    <3>5. 0 <= visits' + 1
      BY <3>n, <3>4, NotNegative
    <3>6. Counted'
      BY <3>1, <3>5 DEF Counted
    <3> QED
      BY <1>a, <2>1, <3>1, <3>2, <3>3, <3>6 DEF SInv, PointFitsStage, Owned
  <2> QED
    BY <2>2, <2>3
<1>2. CASE Engage
  BY <1>2, <1>a, EngageFits, EngageOwned, EngageCounted, EngageLed DEF SInv
<1>3. ASSUME UNCHANGED <<mode, stage, side, stable, sector, rival, point, visits, lead, earned>>,
             \/ UNCHANGED <<current, handed>>
             \/ handed' = handed /\ current'.batch = current.batch
             \/ \E target \in Target : /\ current'.batch = target
                                      /\ handed' = (handed \/ current.batch \notin {None, target})
      PROVE  SInv'
  <2>1. Progressed' /\ PointFitsStage'
    BY <1>3 DEF SInv, Sound, PointFitsStage, LastStage, Sectors
  <2>2. Led'
    BY <1>3 DEF SInv, Led
  <2>3. Counted'
    BY <1>3 DEF SInv, Counted, LastStage
  <2>4. Owned'
    BY <1>b, <1>3 DEF SInv, Owned
  <2> QED
    BY <1>a, <2>1, <2>2, <2>3, <2>4 DEF SInv
<1>4. CASE Look
  BY <1>3, <1>4, LookSelects DEF task, history, stages, selection
<1>5. ASSUME NEW target \in Target, NEW number \in Target, ChooseByNumber(target, number) PROVE SInv'
  BY <1>3, <1>5 DEF ChooseByNumber, stages, selection
<1>6. ASSUME NEW target \in Target, ChooseByName(target) PROVE SInv'
  <2>1. current'.batch = current.batch
    BY <1>b, <1>6 DEF ChooseByName, TypeOK
  <2> QED
    BY <1>3, <1>6, <2>1 DEF ChooseByName, stages, selection, history
<1>7. CASE UNCHANGED vars
  BY <1>3, <1>7 DEF vars, task, history, stages, selection
<1> QED
  BY <1>1, <1>2, <1>4, <1>5, <1>6, <1>7 DEF Next, Tick

LEMMA Invariance == Spec => []SInv
<1>1. SInv /\ [Next]_vars => SInv'
  BY Step
<1> QED
  BY TypeInit, <1>1, PTL DEF Spec

-----------------------------------------------------------------------------
(* The theorems. *)

\* Every variable has its type.
THEOREM TypeCorrect == Spec => []TypeOK
<1>1. SInv => TypeOK
  BY DEF SInv
<1> QED
  BY Invariance, <1>1, PTL

\* The point is always one that the stage and the side provide for.
THEOREM PointFitsStageHolds == Spec => []PointFitsStage
<1>1. SInv => PointFitsStage
  BY DEF SInv
<1> QED
  BY Invariance, <1>1, PTL

\* A stage reached with one target is not carried to another, unless the
\* operator renumbered the target.
THEOREM StageOfTargetHolds == Spec => []StageOfTarget
<1>1. SInv => StageOfTarget
  BY DEF SInv, Owned, StageOfTarget
<1> QED
  BY Invariance, <1>1, PTL

LEMMA OnlyEngageEngages ==
  ASSUME [Next]_vars, Engages PROVE Engage
BY DEF Next, Tick, Engages, GiveUp, Look, ChooseByNumber, ChooseByName, vars

LEMMA OnlyLookLooks ==
  ASSUME [Next]_vars, Looks PROVE Look
BY DEF Next, Tick, Looks, GiveUp, Engage, ChooseByNumber, ChooseByName, vars

\* Stages go up one at a time and are earned at the target's points.
THEOREM StagesAdvanceHolds == Spec => StagesAdvance
<1>1. SUFFICES ASSUME SInv, [Next]_vars, Engages, ~ TargetChanged(picked)
               PROVE  /\ stage' \in {stage, stage + 1}
                      /\ stage' > stage => near' /\ (handed \/ visits >= StableCycles - 2)
                      /\ mode = "intercept" /\ stage > 0 => side' = side
  <2>1. SInv /\ [Next]_vars =>
          [Engages /\ ~ TargetChanged(picked) =>
             /\ stage' \in {stage, stage + 1}
             /\ stage' > stage => near' /\ (handed \/ visits >= StableCycles - 2)
             /\ mode = "intercept" /\ stage > 0 => side' = side]_vars
    BY <1>1
  <2> QED
    BY Invariance, <2>1, PTL DEF Spec, StagesAdvance
<1>2. PICK at, moved, top, clear, c : Engaged(at, moved, top, clear, c)
  BY <1>1, OnlyEngageEngages, EngageTakes
<1>3. OldStage = [stage |-> stage, side |-> side, stable |-> stable]
  BY <1>1 DEF OldStage
<1>4. /\ moved.stage \in {stage, stage + 1}
      /\ moved.stage > stage => at /\ stable + 1 >= StableCycles
      /\ mode = "intercept" /\ stage > 0 => moved.side = side
      /\ Sound(moved) /\ moved \in Progress
  BY <1>1, <1>2, <1>3, EngagedFacts
<1>5. stage' = moved.stage /\ side' = moved.side /\ near' = at
  BY <1>2 DEF Engaged, Remember
<1>6. /\ stage \in 0 .. 2 /\ stable \in 0 .. StableCycles /\ visits \in 0 .. StableCycles
      /\ StableCycles \in Nat \ {0} /\ LastStage \in 0 .. 2
  BY <1>1, TrackingAssumption DEF SInv, TypeOK, TrackingAssumption, LastStage
<1>7. moved.stage > stage => stage < LastStage
  BY <1>4, <1>6 DEF Sound, Progress
<1> QED
  BY <1>1, <1>4, <1>5, <1>6, <1>7 DEF SInv, Counted

\* With the same target, stage and side the point moves only to a sector that
\* was confirmed.
THEOREM PointConfirmedHolds == Spec => PointConfirmed
<1>1. SUFFICES ASSUME SInv, [Next]_vars, Engages, ~ TargetChanged(picked), point # Unmarked,
                      stage' = stage, side' = side, point'.sector # point.sector
               PROVE  lead' = [sector |-> point'.sector, cycles |-> ConfirmCycles]
  <2>1. SInv /\ [Next]_vars =>
          [Engages /\ ~ TargetChanged(picked) /\ point # Unmarked
             /\ stage' = stage /\ side' = side /\ point'.sector # point.sector
             => lead' = [sector |-> point'.sector, cycles |-> ConfirmCycles]]_vars
    BY <1>1
  <2> QED
    BY Invariance, <2>1, PTL DEF Spec, PointConfirmed
<1>2. PICK at, moved, top, clear, c : Engaged(at, moved, top, clear, c)
  BY <1>1, OnlyEngageEngages, EngageTakes
<1>3. OldSector = sector /\ OldRival = rival
  BY <1>1 DEF OldSector, OldRival
<1>4. /\ stage' = moved.stage /\ side' = moved.side /\ point'.sector = c.sector
      /\ top \in Sectors(stage, side)
      /\ Remember(picked, OldStage, moved, at, top, clear)
  BY <1>1, <1>2 DEF Engaged
<1>5. point.sector = sector /\ sector \in Sectors(moved.stage, moved.side)
  BY <1>1, <1>4 DEF SInv, PointFitsStage
<1>6. /\ clear \in BOOLEAN /\ top \in Sector /\ (clear => sector \in Sector \ {top})
      /\ clear => Weighed(sector, rival, top, c)
  BY <1>1, <1>2, <1>3, EngagedFacts
<1>7. /\ ConfirmCycles \in Nat \ {0} /\ None \notin Sector
      /\ rival \in [sector : Sector \cup {None}, cycles : 0 .. ConfirmCycles - 1]
      /\ lead \in [sector : Sector \cup {None}, cycles : 0 .. ConfirmCycles]
  BY <1>1, TrackingAssumption DEF TrackingAssumption, SInv, TypeOK
<1>8. clear
  <2>1. CASE sector # top
    BY <1>1, <1>2, <1>3, <1>4, <1>5, <2>1, EngagedFacts
  <2>2. CASE sector = top
    <3>1. c.sector = top
      BY <1>2, <1>3, <1>5, <2>2 DEF Engaged, SelectSector, Chosen
    <3> QED
      BY <1>1, <1>4, <1>5, <2>2, <3>1
  <2> QED
    BY <2>1, <2>2
<1>9. Trial(rival, top) >= ConfirmCycles /\ c.sector = top
  <2>1. CASE Trial(rival, top) >= ConfirmCycles
    BY <1>6, <1>8, <2>1 DEF Weighed, Chosen
  <2>2. CASE ~ (Trial(rival, top) >= ConfirmCycles)
    <3>1. c.sector = sector
      BY <1>6, <1>8, <2>2 DEF Weighed, Chosen
    <3> QED
      BY <1>1, <1>4, <1>5, <3>1
  <2> QED
    BY <2>1, <2>2
<1>10. lead' = [sector |-> top, cycles |-> IF lead.sector = top THEN Capped(lead.cycles + 1, ConfirmCycles) ELSE 1]
  BY <1>4, <1>8 DEF Remember
<1>11. lead.sector = top => lead = rival
  BY <1>1, <1>6, <1>7, <1>8 DEF SInv, Led
<1>12. rival.sector = top => lead = rival
  BY <1>1, <1>6, <1>7 DEF SInv, Led
<1>13. lead'.cycles = ConfirmCycles
  BY <1>7, <1>9, <1>10, <1>11, <1>12 DEF Trial, Capped
<1> QED
  BY <1>4, <1>9, <1>10, <1>13

\* The target selected is the best that passes, up to the margin.
THEOREM PicksBestHolds == Spec => PicksBest
<1>1. SUFFICES ASSUME [Next]_vars, Looks, NEW t \in Target, Passes(t)
               PROVE  /\ ~ Outclasses(sight'[t], sight'[picked'])
                      /\ SameClass(sight'[t], sight'[picked'])
                           => sight'[picked'].distance <= sight'[t].distance + Margin
  <2>1. [Next]_vars =>
          [Looks => \A t \in Target : Passes(t) =>
             /\ ~ Outclasses(sight'[t], sight'[picked'])
             /\ SameClass(sight'[t], sight'[picked'])
                  => sight'[picked'].distance <= sight'[t].distance + Margin]_vars
    BY <1>1
  <2> QED
    BY <2>1, PTL DEF Spec, PicksBest
<1>2. Look
  BY <1>1, OnlyLookLooks
<1> QED
  BY <1>1, <1>2, LookPicks DEF Passes

\* With hysteresis on, the target that is tracked is kept while it passes,
\* unless another is of a better class or nearer by more than the margin, or
\* TopK others pass.
THEOREM TargetSteadyHolds == ASSUME Hysteresis PROVE Spec => TargetSteady
<1>1. SUFFICES ASSUME [Next]_vars, NEW t \in Target,
                      Looks, IsCurrent(t, current), Passes(t), picked' # t
               PROVE  \/ Outclasses(sight'[picked'], sight'[t])
                      \/ sight'[t].distance > sight'[picked'].distance + Margin
                      \/ Cardinality({u \in Target \ {t} : Passes(u)}) >= TopK
  <2>1. [Next]_vars =>
          [\A t \in Target : Looks /\ IsCurrent(t, current) /\ Passes(t) /\ picked' # t =>
             \/ Outclasses(sight'[picked'], sight'[t])
             \/ sight'[t].distance > sight'[picked'].distance + Margin
             \/ Cardinality({u \in Target \ {t} : Passes(u)}) >= TopK]_vars
    BY <1>1
  <2> QED
    BY <2>1, PTL DEF Spec, TargetSteady
<1>2. Look
  BY <1>1, OnlyLookLooks
<1> DEFINE S == Candidates(sight', wish, current, Keeps)
<1>3. PICK r \in Rankings(sight', S) : picked' = Selected(sight', r, current)
  BY <1>2 DEF Look
<1>4. S \in SUBSET Target /\ t \in S /\ \A u \in S : sight'[u] \in Sighting
  BY <1>1, <1>2, LookSelects DEF Passes, Candidates
<1>5. S \ {t} = {u \in Target \ {t} : Passes(u)}
  BY <1>4 DEF Passes, Candidates
<1> HIDE DEF S
<1>6. \/ Outclasses(sight'[picked'], sight'[t])
      \/ sight'[t].distance > sight'[picked'].distance + Margin
      \/ Cardinality(S \ {t}) >= TopK
  BY <1>1, <1>3, <1>4, SelectedKeeps
<1> QED
  BY <1>5, <1>6
=============================================================================

SPECIFICATION FairSpec
CONSTANTS
  x = x
  y = y
  z = z
  None = None
  Target <- ThreeTargets
  Situations <- SomeSituations
  Modes <- AllModes
  Wishes <- SomeWishes
  MinThreat = 0
  MaxRange = 10
  SectorFilter = TRUE
  Hysteresis = TRUE
  Margin = 1
  TopK = 2
  StableCycles = 3
  ConfirmCycles = 2
INVARIANTS PointFitsStage StageOfTarget
PROPERTIES StagesAdvance PointConfirmed PicksBest TargetSteady StagesComplete

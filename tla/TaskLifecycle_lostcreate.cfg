SPECIFICATION Spec
CONSTANTS
  TaskId = {"a", "b"}
  Requests <- PlanThenTrack
  MaxTasks = 2
  Loops = {l}
  Workers = {w}
PROPERTIES StoreKeepsNewest

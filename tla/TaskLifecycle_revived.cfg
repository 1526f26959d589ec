SPECIFICATION Spec
CONSTANTS
  TaskId = {"a", "b"}
  Requests <- OverlapRequests
  MaxTasks = 2
  Loops = {l}
  Workers = {w}
PROPERTIES EndIsFinal

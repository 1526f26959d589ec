SPECIFICATION Spec
CONSTANTS
  TaskId = {"a", "b"}
  Requests <- MixedRequests
  MaxTasks = 3
  Loops = {t}
  Workers = {t}
INVARIANTS OneActiveTask Settled ConfirmedRouteStands

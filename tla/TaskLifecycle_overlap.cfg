SPECIFICATION FairSpec
CONSTANTS
  TaskId = {"a", "b"}
  Requests <- OverlapRequests
  MaxTasks = 2
  Loops = {l}
  Workers = {w}
INVARIANTS EndIsTold
PROPERTIES QuietEndIsFinal PlansStayEnded TimedTasksEnd

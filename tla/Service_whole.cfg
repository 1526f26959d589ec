SPECIFICATION FairSpec
CONSTANTS
  Main = main
  Loop = loop
  Workers = {w}
  Threads = {main, loop, w}
  Participant = {p1, p2, p3}
  PubTopics = {"commands"}
  SubTopics = {"ownship", "perception"}
  Subscriptions <- TwoTopics
  None = None
  Task = {a, b}
  Faulty = {a}
INVARIANTS TypeOK CommandsGoOut StaysTuned StopIsQuiet
PROPERTIES DueTaskEnds
CHECK_DEADLOCK FALSE

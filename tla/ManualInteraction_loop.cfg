SPECIFICATION FairSpec
CONSTANTS
  Target = {x, y}
  None = None
  Threads <- LoopOnly
  Timeout = 2
INVARIANTS OneRequest AnswerRecorded
PROPERTIES ChoicePrevails RequestsEnd

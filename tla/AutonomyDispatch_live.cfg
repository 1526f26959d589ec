SPECIFICATION FairSpec
CONSTANTS
  Routes = {r1}
  Courses = {c1}
  Hold = Hold
  None = None
  Kinds <- AllKinds
  Loops = {loop}
  Creators = {w}
  MaxAttempts = 2
  Interval = 2
  Timeout = 3
  Lossy = TRUE
PROPERTIES AttemptsEnd

SPECIFICATION FairSpec
CONSTANTS
  Routes = {r1, r2}
  Courses = {c1, c2}
  Hold = Hold
  None = None
  Kinds <- AllKinds
  Loops = {loop}
  Creators = {}
  MaxAttempts = 5
  Interval = 2
  Timeout = 3
  Lossy = FALSE
INVARIANTS PatrolOneShot SentIsFollowed StreakCapped
PROPERTIES DeliveredOrGivenUp

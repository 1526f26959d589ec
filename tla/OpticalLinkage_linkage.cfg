SPECIFICATION FairSpec
CONSTANTS
  Batch = {b1, b2}
  Zero = Zero
  None = None
  Patrol = Patrol
  Tickers = {loop}
  Workers = {http}
  ArrivalCycles = 2
  Media <- Photos
  Interval = 1
INVARIANTS TypeOK EndDarkens OpenedReached ArrivalOpens
PROPERTIES EndedIsInert NewsSpreads StayOpens

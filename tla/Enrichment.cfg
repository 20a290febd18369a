\* One token with a pair, four different listings and two pair answers; three answers at
\* different times, two lives of the collector, buckets of one time unit and prices that count
\* for one more.  Deadlock: the bounds end the behaviours.
SPECIFICATION Spec
CONSTANTS
  Pair = {p1}
  FeedAnswer <- FourListings
  PairAnswer <- TwoAnswers
  Threshold = {1, 2}
  Interval = 1
  Volatility = 1
  CohortAge = 2
  None = None
  MaxClock = 3
  MaxAnswers = 3
  MaxStarts = 2
  p1 = p1
  x = x
  y = y
INVARIANTS
  HistoriesConsistent
  CrossingsAddUp
  ContextsExplained
CHECK_DEADLOCK FALSE

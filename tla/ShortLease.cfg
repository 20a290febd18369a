\* A lease of half a minute, the least the settings allow: a task claimed twice in a minute
\* counts once in the budget of two.
SPECIFICATION Spec
CONSTANTS
  Task = {1, 2}
  Worker = {w1, w2}
  Fact = {f1}
  Analysis <- TradersAndHolders
  Minute = 2
  LeaseDuration = 1
  TasksPerMinute = 2
  MaxAttempts = 2
  RequestsPerMinute = 1
  ClassLimit <- OnePerClass
  MaxPages = 1
  None = None
  MaxClock = 1
  MaxClaims = 3
  f1 = f1
  w1 = w1
  w2 = w2
SYMMETRY Symmetry
INVARIANTS
  TaskBudgetKept

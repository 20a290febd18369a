SPECIFICATION Spec
CONSTANTS
  Task = {1}
  Worker = {w1, w2}
  Fact = {f1}
  Analysis <- TradersOnly
  Minute = 1
  LeaseDuration = 1
  TasksPerMinute = 2
  MaxAttempts = 2
  RequestsPerMinute = 1
  ClassLimit <- AmpleClasses
  MaxPages = 1
  None = None
  MaxClock = 4
  MaxClaims = 5
  f1 = f1
  w1 = w1
  w2 = w2
SYMMETRY Symmetry
INVARIANTS
  RetryAccepted

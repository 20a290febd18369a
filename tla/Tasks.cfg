\* A trader history and a holder snapshot, two workers, minutes of one time unit: claims that expire,
\* are deferred, retried and lost with the process; two pages a claim, one request per type
\* and minute, runs that decide with the time of an earlier minute.
SPECIFICATION Spec
CONSTANTS
  Task = {1, 2}
  Worker = {w1, w2}
  Fact = {f1}
  Analysis <- TradersAndHolders
  Minute = 1
  LeaseDuration = 1
  TasksPerMinute = 1
  MaxAttempts = 2
  RequestsPerMinute = 1
  ClassLimit <- OnePerClass
  MaxPages = 2
  None = None
  MaxClock = 2
  MaxClaims = 3
  f1 = f1
  w1 = w1
  w2 = w2
SYMMETRY Symmetry
INVARIANTS
  TasksConsistent
  AttemptsBounded
  BudgetsKept
PROPERTIES
  TerminalTasksFinal
  ImplementsLeasedWork

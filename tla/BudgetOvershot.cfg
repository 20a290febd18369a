\* A worker that slept behind the gate overshoots the rolling budget.
SPECIFICATION Spec
CONSTANTS
  NewInitialDuration = 100
  EarlyUntil = 101
  MatureUntil = 102
  CooledUntil = 103
  LongTailDayUntil = 104
  RetireAfter = 105
  FadingFastDuration = 100
  FadingTotalDuration = 101
  Intervals <- TargetIntervals
  None = None
  Token = {1, 2}
  Worker = {w1, w2}
  Chain <- OneChain
  Minute = 3
  HalfMinute = 2
  BatchSize = 1
  LeaseDuration = 1
  MaxInFlight = 1
  RequestBudget = 1
  ControlTokens = 1
  Plans <- NormalPlan
  CoverageDigest <- NoDigest
  EpochDigest <- NoDigest
  CandidateTtl = 2
  CandidateInterval = 1
  MaxActiveCoverage = 1
  CandidateTokens = {}
  EvidenceLag = 0
  Moves <- NoMoves
  Contended = {}
  InitialState <- OneNotAdmitted
  MaxClock = 4
  MaxBatches = 4
  w1 = w1
  w2 = w2
INVARIANTS
  BudgetNeverOvershot

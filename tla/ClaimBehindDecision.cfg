\* A claim is asked to evaluate a boundary before the decision it follows.
SPECIFICATION Spec
CONSTANTS
  NewInitialDuration = 1
  EarlyUntil = 2
  MatureUntil = 3
  CooledUntil = 4
  LongTailDayUntil = 5
  RetireAfter = 6
  FadingFastDuration = 1
  FadingTotalDuration = 2
  Intervals <- PhasedIntervals
  None = None
  Token = {1}
  Worker = {w1, w2}
  Chain <- OneChain
  Minute = 4
  HalfMinute = 2
  BatchSize = 2
  LeaseDuration = 2
  MaxInFlight = 2
  RequestBudget = 2
  ControlTokens = 1
  Plans <- StretchedPlan
  CoverageDigest <- OddDigest
  EpochDigest <- NoDigest
  CandidateTtl = 2
  CandidateInterval = 1
  MaxActiveCoverage = 1
  CandidateTokens = {1}
  EvidenceLag = 2
  Moves <- CollapseMoves
  Contended = {}
  InitialState <- AllActive
  MaxClock = 5
  MaxBatches = 2
  w1 = w1
  w2 = w2
INVARIANTS
  ClaimCoverageDefined

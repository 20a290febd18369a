\* Candidate overlays on one token that goes from ACTIVE to FADING and retires; evidence may
\* be processed one time unit after it was received.  Two DORMANT tokens share the control
\* rotation, one poll per minute of two time units.
SPECIFICATION Spec
CONSTANTS
  NewInitialDuration = 1
  EarlyUntil = 2
  MatureUntil = 3
  CooledUntil = 4
  LongTailDayUntil = 5
  RetireAfter = 6
  FadingFastDuration = 1
  FadingTotalDuration = 2
  Intervals <- PhasedIntervals
  None = None
  Token = {1, 2, 3}
  Worker = {w1, w2}
  Chain <- OneChain
  Minute = 2
  HalfMinute = 1
  BatchSize = 2
  LeaseDuration = 2
  MaxInFlight = 2
  RequestBudget = 2
  ControlTokens = 1
  Plans <- StretchedPlan
  CoverageDigest <- OddDigest
  EpochDigest <- NoDigest
  CandidateTtl = 2
  CandidateInterval = 1
  MaxActiveCoverage = 1
  CandidateTokens = {1}
  EvidenceLag = 1
  Moves <- CollapseMoves
  Contended = {}
  InitialState <- OneCandidate
  MaxClock = 3
  MaxBatches = 2
  w1 = w1
  w2 = w2
SYMMETRY Symmetry
INVARIANTS
  RowsKeepTheirEvents
  ControlRotationFair
PROPERTIES
  DueObligationKept

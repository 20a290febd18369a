\* Leases, limits and ageing: two workers and two tokens of one chain, followed through their
\* age boundaries; a boost transaction may hold the row of token 2, so batches overlap in
\* part.  One request per minute of two time units.  The process dies, is restarted and
\* starts new epochs at any time.
SPECIFICATION Spec
CONSTANTS
  NewInitialDuration = 1
  EarlyUntil = 2
  MatureUntil = 3
  CooledUntil = 4
  LongTailDayUntil = 5
  RetireAfter = 6
  FadingFastDuration = 1
  FadingTotalDuration = 2
  Intervals <- TargetIntervals
  None = None
  Token = {1, 2}
  Worker = {w1, w2}
  Chain <- OneChain
  Minute = 2
  HalfMinute = 1
  BatchSize = 2
  LeaseDuration = 3
  MaxInFlight = 2
  RequestBudget = 1
  ControlTokens = 1
  Plans <- NormalPlan
  CoverageDigest <- NoDigest
  EpochDigest <- NoDigest
  CandidateTtl = 2
  CandidateInterval = 1
  MaxActiveCoverage = 1
  CandidateTokens = {}
  EvidenceLag = 0
  Moves <- NoMoves
  Contended = {2}
  InitialState <- OneNotAdmitted
  MaxClock = 3
  MaxBatches = 3
  w1 = w1
  w2 = w2
SYMMETRY Symmetry
INVARIANTS
  TypeOK
  ReclaimedNeverCompletes
  OnePollerPerToken
  PollsAccounted
  BudgetsBounded
PROPERTIES
  ImplementsLeasedWork
  CoverageNeverRejuvenates

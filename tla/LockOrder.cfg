\* Three transactions of a poll, a boost and a security evaluation, two tokens; two time units
\* pass, a coverage lasts two.
SPECIFICATION EvaluationSpec
CONSTANTS
  TokenCount = 2
  PollWorker = {p1}
  BoostWorker = {b1}
  SecurityWorker = {s1}
  BatchLimit = 2
  MaxTier3 = 1
  MaxCoverage = 1
  TTL = 2
  Standing <- mcStanding
  MaxTransactions = 3
  MaxClock = 3
  p1 = p1
  b1 = b1
  s1 = s1
INVARIANT NoDeadlock
CHECK_DEADLOCK FALSE

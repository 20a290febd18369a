\* Two processes, one of which may be a repair, and two runs.  Three instants, so that a
\* repair may sample its time between the start and the boundary of a run; two of them for
\* two epochs.  A heartbeat of an earlier instant is stale; one connection is lost at most.
SPECIFICATION FairSpec
CONSTANTS
  Process = {p1, p2}
  Operator = p2
  Epoch = {1, 2}
  Component = {polling}
  StaleAfter = 0
  None = None
  MaxClock = 2
  MaxRuns = 2
  p1 = p1
  p2 = p2
  polling = polling
CONSTRAINT Bounds
INVARIANTS
  RunsConsistent
  OneCollector
  LiveIntervalsDisjoint
PROPERTIES
  EndedRunsFinal
  ShutdownCompletes

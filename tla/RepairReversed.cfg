\* A collector and an operator's repair, one epoch and one run; a heartbeat of an earlier
\* instant is stale.  Three instants: the start, the repair's time, the boundary.
SPECIFICATION Spec
CONSTANTS
  Process = {p1, p2}
  Operator = p2
  Epoch = {1}
  Component = {polling}
  StaleAfter = 0
  None = None
  MaxClock = 2
  MaxRuns = 1
  p1 = p1
  p2 = p2
  polling = polling
INVARIANT
  EndsAfterBoundary

\* Two commands and a fact that may come at any time, two chunk layouts, three claims; a lease lasts one time
\* unit.
SPECIFICATION Spec
CONSTANTS
  Worker = {w1, w2}
  Fact = {f1}
  Dimension <- MCDimension
  DimensionOf <- MCDimensionOf
  Layout = {small, large}
  HotDays = {1}
  LeaseTime = 1
  None = None
  MaxClock = 2
  MaxClaims = 3
  w1 = w1
  w2 = w2
  f1 = f1
  small = small
  large = large
SYMMETRY Symmetry
INVARIANTS
  ArchiveConsistent
  NoCountedFactMissing
  EligibleIsBackedUp
PROPERTIES
  ArchivePermanent
CHECK_DEADLOCK FALSE

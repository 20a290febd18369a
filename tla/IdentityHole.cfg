\* A tier event that commits between two builds does not change the identity.
SPECIFICATION Spec
CONSTANTS
  Lookbacks = {1}
  OneMinute = 1
  LookbackTolerance <- mcLookbackTolerance
  PathWindow = 2
  Horizons = {1}
  LabelTolerance <- mcLabelTolerance
  GapAllowed <- mcGapAllowed
  Upside = 2
  Downside = 2
  Offsets = {0, 2}
  LabelledStates = {"ACTIVE"}
  None = None
  Builder = {b1, b2}
  Template <- mcTemplate
  Hashed <- mcHashed
  Scope <- mcScope
  Mode = {"fixed_age"}
  Windows <- mcNoWindows
  PurgeHorizon = 1
  MaxTime = 3
  MaxOpen = 1
  MaxFacts = 3
  MaxBuilds = 2
  b1 = b1
  b2 = b2
PROPERTY IdentityNamesContent
CHECK_DEADLOCK FALSE

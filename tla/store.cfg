SPECIFICATION Spec
CONSTANTS
  w1 = w1
  w2 = w2
  r1 = r1
  r2 = r2
  e1 = e1
  e2 = e2
  e3 = e3
  b1 = b1
  Null = Null
  Writers <- MCWriters
  Runs <- MCRuns
  EventIds <- MCEventIds
  Bodies <- MCBodies
  MaxRows = 3
  MaxCrashes = 1
SYMMETRY Interchangeable
INVARIANTS
  TypeOK
  OnlyLegacyBreaks
  AnchorDeterminesPrefix
  OutcomesTruthful
  VersionTwoHasColumns
PROPERTIES
  ImplementsAppendLog
CHECK_DEADLOCK FALSE

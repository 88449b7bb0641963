SPECIFICATION Spec
CONSTANTS
  None = None
  Tolerance = 2
  FailAge = 1
  MaxTime = 3
  MaxAsks = 2
  MaxTurns = 1
  Width = 4
  SizeOf <- Sizes
  CleanArgs <- Cleanings
  Others <- AnotherUrl
CHECK_DEADLOCK FALSE
INVARIANTS
  ReadyMeansMade
  ShownIsFresh
PROPERTIES
  CleanCacheKeepsNewest

\* Two calls and three words of the playback library, in both builds.
SPECIFICATION FairSpec
CONSTANTS
  a = a
  b = b
  Uri = {a, b}
  Lists <- MCLists
  Sizes <- MCSizes
  MaxCalls = 2
  MaxWords = 2
CHECK_DEADLOCK FALSE
INVARIANTS
  QuitLosesNothing
  WorkIsDriven
  RunEndsClean
PROPERTIES
  EveryTaskFinishes
  ImplementsService

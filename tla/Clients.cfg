SPECIFICATION ClientSpec
CONSTANTS
  i1 = i1
  i2 = i2
  None = None
  Caller = {i1, i2}
  Service = {"thumbnail", "albumart"}
  Libraries = {"thumbnail", "albumart"}
  Kinds = {"loads", "art", "requests"}
  MaxTasks = 2
  RoughTasks = 1
  MaxLives = 2
  Garbage = {1, 2}
  Worlds = {"orderly", "hasty", "rough"}
CHECK_DEADLOCK FALSE
SYMMETRY Symmetry
INVARIANTS
  OwnedOnce
  CalledBackAtMostOnce
  FreedOnlyWhenDone
  CalledBackForItsOwnTask
  RefsBalance
  ArtRefsBalance
  ArtCalledBackAtMostOnce
PROPERTIES
  WaitMeansFinished
  JoinMeansCompleted
  ArtJoinMeansCompleted

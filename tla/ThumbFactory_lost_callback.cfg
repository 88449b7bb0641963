SPECIFICATION FairSpec
CONSTANTS
  r1 = r1
  r2 = r2
  None = None
  Service = {"thumbnail"}
  Caller = {r1}
  MaxTasks = 2
  RoughTasks = 1
  MaxLives = 1
  Garbage = {}
  Worlds = {"hasty"}
CHECK_DEADLOCK FALSE
PROPERTIES
  EveryRequestCalledBack

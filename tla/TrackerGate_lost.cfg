SPECIFICATION FairSpec
CONSTANTS
  Urls = 3
  MaxSignals = 2
CHECK_DEADLOCK FALSE
PROPERTIES
  WaitEndsWhenTrackerIsIdle

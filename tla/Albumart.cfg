\* Two calls, two providers, the directory read twice.
CONSTANTS
  None = None
  x = x
  p = p
  q = q
  Name = {x}
  Provider = {p, q}
  Priority = {1, 2}
  MaxTasks = 2
  MaxReads = 2
  MaxChanges = 1
  Wanted <- MCWanted
SPECIFICATION FairSpec
CHECK_DEADLOCK FALSE
INVARIANTS
  AskedByPriority
  ClientFindsArt
  CancelledIsNotAsked
PROPERTY EveryTaskFinishes

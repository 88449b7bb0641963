SPECIFICATION GatedFairSpec
CONSTANTS
  u1 = u1
  u2 = u2
  n1 = n1
  l1 = l1
  Url = {u1, u2}
  KeyOf <- OwnKey
  NormalThreads = {n1}
  LargeThreads = {l1}
  LargeLimit = 1
  MaxTasks = 2
INVARIANTS
  SleeperIsKnown
PROPERTIES
  EveryRequestFinishes
  ImplementsService

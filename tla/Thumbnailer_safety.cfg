SPECIFICATION Spec
CONSTANTS
  u1 = u1
  u2 = u2
  n1 = n1
  n2 = n2
  l1 = l1
  Url = {u1, u2}
  KeyOf <- SameKey
  NormalThreads = {n1, n2}
  LargeThreads = {l1}
  LargeLimit = 1
  MaxTasks = 3
SYMMETRY Symmetry
INVARIANTS
  FinishedAtMostOnce
  EachUrlAnsweredOnce
  CancelledIsSilent
PROPERTIES
  SilentAfterFinished
  NewestFirst

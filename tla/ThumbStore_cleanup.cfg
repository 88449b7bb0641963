\* Cleanup with a time deletes a thumbnail that is younger.
CONSTANTS
  None = None
  w1 = w1
  w2 = w2
  a = a
  b = b
  Worker = {w1, w2}
  Uri = {a, b}
  Tolerance = 2
  FailAge = 0
  MaxTime = 2
  MaxTakes = 3
  MaxCalls = 2
  Original = {a}
SPECIFICATION Spec
PROPERTY CleanupSparesYounger

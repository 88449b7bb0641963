SPECIFICATION CallSpec
CONSTANTS
  c1 = c1
  c2 = c2
  a = a
  b = b
  Nothing = Nothing
  Caller = {c1, c2}
  Uri = {a, b}
  MaxCalls <- TwoAndOne
CHECK_DEADLOCK FALSE
INVARIANTS
  NoMissedAnswer
  ReadyIsBacked

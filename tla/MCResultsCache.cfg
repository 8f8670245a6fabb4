CONSTANTS
  Null = Null
  e1 = e1
  e2 = e2
  ElectionIds = {e1, e2}
  OpenTimes = {0}
  CloseTimes = {2}
  MaxTime = 2
  Skew = 1
  RequestIds = {r1, r2}
  MaxBallots = 1
  MaxVersion = 5
SPECIFICATION PastSpec
SYMMETRY Symmetry
INVARIANTS ResultsCurrent EntryServable
PROPERTIES NoPartialResults
CHECK_DEADLOCK FALSE

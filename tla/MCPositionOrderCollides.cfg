CONSTANTS
  Null = Null
  ElectionIds = {e1}
  OpenTimes = {0}
  CloseTimes = {1}
  MaxTime = 0
  Skew = 0
  PositionIds = {p1, p2, p3}
  CandidateIds = {k1}
  Orders <- OrdersTried
SPECIFICATION PositionOrderSpec
SYMMETRY Symmetry
INVARIANTS ReorderNeverCollides
CHECK_DEADLOCK FALSE

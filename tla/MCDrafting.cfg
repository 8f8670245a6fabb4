CONSTANTS
  Null = Null
  e1 = e1 e2 = e2 p0 = p0 k1 = k1
  ElectionIds = {e1, e2}
  OpenTimes = {0}
  CloseTimes = {1}
  MaxTime = 1
  Skew = 0
  PositionIds = {x1, x2, x3, p0}
  CandidateIds = {k1}
  Orders <- OrdersTried
  JobIds = {x1, x2, x3}
  ViewIds = {v1}
SPECIFICATION MCSpec
SYMMETRY Symmetry
INVARIANTS OrderCorrect ReorderCollidesExactly NoDanglingReference OrphansAccountedFor VoterFindsPicture
CHECK_DEADLOCK FALSE

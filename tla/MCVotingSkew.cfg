CONSTANTS
  Null = Null
  e1 = e1 p1 = p1 p2 = p2 k1 = k1 k2 = k2
  ElectionIds = {e1}
  OpenTimes = {0}
  CloseTimes = {1, 2}
  MaxTime = 3
  Skew = 1
  PositionIds = {p1}
  CandidateIds = {k1}
  AccountIds = {a1}
  StudentIds = {s1}
  CandidateAccounts = {}
  CastIds = {c1}
  Submissions <- OneOption
  MaxOpenings = 2
  MaxKey = 1
  RotateInFlight = FALSE
  LegacyBallots = FALSE
SPECIFICATION DraftedSpec
PROPERTIES ResultsAreFinal ImplementsBallotBox
CHECK_DEADLOCK FALSE

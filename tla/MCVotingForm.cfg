CONSTANTS
  Null = Null
  e1 = e1 p1 = p1 p2 = p2 k1 = k1 k2 = k2
  ElectionIds = {e1}
  OpenTimes = {0}
  CloseTimes = {1}
  MaxTime = 1
  Skew = 0
  PositionIds = {p1, p2}
  CandidateIds = {k1, k2}
  AccountIds = {a1}
  StudentIds = {s1}
  CandidateAccounts = {}
  CastIds = {c1}
  Submissions <- OneOrTwo
  MaxOpenings = 2
  MaxKey = 1
  RotateInFlight = FALSE
  LegacyBallots = FALSE
SPECIFICATION DraftedSpec
INVARIANTS BallotsFitForm
PROPERTIES FormFixedByBallots
CHECK_DEADLOCK FALSE

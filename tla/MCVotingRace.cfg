CONSTANTS
  Null = Null
  e1 = e1 p1 = p1 p2 = p2 k1 = k1 k2 = k2
  ElectionIds = {e1}
  OpenTimes = {0}
  CloseTimes = {1}
  MaxTime = 2
  Skew = 0
  PositionIds = {p1}
  CandidateIds = {k1}
  AccountIds = {a1, a2}
  StudentIds = {s1}
  CandidateAccounts = {}
  CastIds = {c1, c2}
  Submissions <- OneOption
  MaxOpenings = 1
  MaxKey = 1
  RotateInFlight = FALSE
  LegacyBallots = FALSE
SPECIFICATION DraftedSpec
SYMMETRY Symmetry
INVARIANTS TypeOK OneBallotPerStudent AlreadyCastIsTrue OnlyElectorateVotes
CHECK_DEADLOCK FALSE

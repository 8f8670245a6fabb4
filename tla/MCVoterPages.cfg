CONSTANTS
  Null = Null
  NoChoice = NoChoice
  u1 = u1 u2 = u2 p1 = p1 k1 = k1 k2 = k2 a1 = a1 c1 = c1 c2 = c2
  Callers = {"load", "submit", "refresh"}
  PositionIds = {p1}
  CandidateIds = {k1, k2}
  PartyIds = {a1}
  PartyOf <- MCPartyOf
  Forms <- MCForms
  FirstUser = u1
  FirstForm <- MCFirstForm
  Users = {u1, u2}
  ElectionIds = {e1, e2}
  Drafts = {e2}
  Budgets <- MCBudgets
  Standing = {c1, c2}
  FirstVotes <- MCFirstVotes
  ClockOffsets <- MCOffsets
  FirstClosesAt = 1
  ExtendedClosesAt = 2
  MaxNow = 4
  ResultsBudgets <- MCResultsBudgets
  OnBallot = {c1, c2}
  InitialTallies <- MCTallies
  ResultsViewers = {"admin", "voted", "not_voted"}
  MaxCasts = 2
  MaxAsked = 2
SPECIFICATION VoterPagesSpec
INVARIANTS CacheCorrect OutcomeToldTruly BallotOfferedRightly FinalIsFinal TurnoutBracketed
PROPERTIES ResultsForward PagesProgress
CHECK_DEADLOCK FALSE

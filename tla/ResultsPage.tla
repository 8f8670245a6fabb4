----------------------------- MODULE ResultsPage -----------------------------
(***************************************************************************)
(* The two pages that show the results of an election (the administrators' *)
(* and the voters'): they poll while the election is open by the page's    *)
(* clock and what it knows of the election, and ask once more when it has  *)
(* closed. The cache entries `election' and `results' are those of         *)
(* CacheEntry, always fetched with force here, so that only the newest     *)
(* request counts. The election has one position; the page has been loaded *)
(* while it was open.                                                      *)
(***************************************************************************)
EXTENDS OnePart, Absence, Integers, FiniteSets

CONSTANTS
  Standing,          \* the candidates
  FirstVotes,       \* the votes by candidate when the page is loaded
  ClockOffsets,      \* the browser's clock, ahead of the server's or behind
  FirstClosesAt, ExtendedClosesAt,
  MaxNow,            \* bound: the clock
  ResultsBudgets     \* bounds: ballots cast, polls, changes of the election

ASSUME StandingAssumption == IsFiniteSet(Standing) /\ FirstVotes \in [Standing -> Nat]

VARIABLES
  serverNow, served, \* the clock, and the election: closed by hand, and its end
  votesFor,          \* the votes by candidate
  knownElection,     \* the `election' entry: what the page knows of the election
  clockOffset,
  pageNow,           \* `now' of the page
  shownResults,      \* the `results' entry: votes by candidate
  electionRequests, resultsRequests,
  lastPollFailed,
  resultsPast,       \* history, see the properties
  resultsBudget

resultsServerVars == <<serverNow, served, votesFor>>
resultsViewVars == <<clockOffset, knownElection, pageNow, shownResults, lastPollFailed>>
resultsPageVars == <<resultsServerVars, resultsViewVars, electionRequests, resultsRequests, resultsPast, resultsBudget>>

SpendResults(what) ==
  /\ resultsBudget[what] > 0
  /\ resultsBudget' = [resultsBudget EXCEPT ![what] = @ - 1]

\* Mutant: the status is the stored one; the end of the election is not looked at.
StoredStatus(election, now) == IF election.closed THEN "closed" ELSE "open"

\* getEffectiveElectionStatus of an election that was opened: by hand or by the clock.
StatusAt(election, now) ==
  IF election.closed \/ now > election.closesAt THEN "closed" ELSE "open"

PageStatus == StatusAt(knownElection, pageNow)

-----------------------------------------------------------------------------
\* A ballot is cast while the election is open: a vote, a participation and a snapshot.
CastBallot(c) ==
  /\ StatusAt(served, serverNow) = "open"
  /\ SpendResults("cast")
  /\ votesFor' = [votesFor EXCEPT ![c] = @ + 1]
  /\ resultsPast' = [resultsPast EXCEPT !.castLate = @ \/ PageStatus = "closed"]
  /\ UNCHANGED <<serverNow, served, resultsViewVars, electionRequests, resultsRequests>>

ServerTick ==
  /\ serverNow < MaxNow
  /\ serverNow' = serverNow + 1
  /\ UNCHANGED <<served, votesFor, resultsViewVars, electionRequests, resultsRequests, resultsPast, resultsBudget>>

\* An administrator extends the open election, or closes it before its end.
ChangeElection(election) ==
  /\ SpendResults("change")
  /\ StatusAt(served, serverNow) = "open"
  /\ election \in {[served EXCEPT !.closesAt = ExtendedClosesAt], [served EXCEPT !.closed = TRUE]}
  /\ served' = election
  /\ UNCHANGED <<serverNow, votesFor, resultsViewVars, electionRequests, resultsRequests, resultsPast>>

-----------------------------------------------------------------------------
\* refreshElectionAndResults(): both entries are fetched with force.
Refresh ==
  /\ electionRequests' = {[live |-> TRUE, answer |-> Null]}
                         \union {[r EXCEPT !.live = FALSE] : r \in electionRequests}
  /\ resultsRequests' = {[live |-> TRUE, votes |-> Null]}
                        \union {[r EXCEPT !.live = FALSE] : r \in resultsRequests}

\* Mutant: the refresh at the end goes through the poll, which is for open elections.
RefreshUnlessClosed(new) ==
  IF new = "open" THEN Refresh ELSE UNCHANGED <<electionRequests, resultsRequests>>

RefreshAtEnd(new) == Refresh

\* The effect on the status: refreshResultsAfterClose() when it was open and is closed now.
FollowStatus(old, new) ==
  IF old = "open" /\ new = "closed"
  THEN /\ RefreshAtEnd(new)
       /\ resultsPast' = [resultsPast EXCEPT !.castLate = FALSE]
  ELSE UNCHANGED <<electionRequests, resultsRequests, resultsPast>>

\* The page's clock, every second or every five.
UpdateNow ==
  /\ pageNow # serverNow + clockOffset
  /\ pageNow' = serverNow + clockOffset
  /\ FollowStatus(PageStatus, StatusAt(knownElection, pageNow'))
  /\ UNCHANGED <<resultsServerVars, clockOffset, knownElection, shownResults, lastPollFailed, resultsBudget>>

\* The interval, or the page becoming visible: poll() while the page thinks it is open.
Poll ==
  /\ PageStatus = "open"
  /\ SpendResults("poll")
  /\ Refresh
  /\ UNCHANGED <<resultsServerVars, resultsViewVars, resultsPast>>

ServeElection(r) ==
  /\ r \in electionRequests /\ r.answer = Null
  /\ electionRequests' = (electionRequests \ {r}) \union {[r EXCEPT !.answer = served]}
  /\ UNCHANGED <<resultsServerVars, resultsViewVars, resultsRequests, resultsPast, resultsBudget>>

\* The answer counts if no later fetch has begun; it may change the status.
ElectionArrives(r) ==
  /\ r \in electionRequests /\ r.answer # Null
  /\ IF r.live /\ r.answer # knownElection
     THEN /\ knownElection' = r.answer
          /\ LET new == StatusAt(r.answer, pageNow)
             IN IF PageStatus = "open" /\ new = "closed" THEN FollowStatus(PageStatus, new)
                ELSE /\ electionRequests' = electionRequests \ {r}
                     /\ UNCHANGED <<resultsRequests, resultsPast>>
     ELSE /\ electionRequests' = electionRequests \ {r}
          /\ UNCHANGED <<knownElection, resultsRequests, resultsPast>>
  /\ UNCHANGED <<resultsServerVars, clockOffset, pageNow, shownResults, lastPollFailed, resultsBudget>>

ElectionFails(r) ==
  /\ r \in electionRequests
  /\ electionRequests' = electionRequests \ {r}
  /\ UNCHANGED <<resultsServerVars, resultsViewVars, resultsRequests, resultsPast, resultsBudget>>

-----------------------------------------------------------------------------
\* The votes are one read of the server; Turnout has the other reads of the request.
ServeResults(r) ==
  /\ r \in resultsRequests /\ r.votes = Null
  /\ resultsRequests' = (resultsRequests \ {r}) \union {[r EXCEPT !.votes = votesFor]}
  /\ UNCHANGED <<resultsServerVars, resultsViewVars, electionRequests, resultsPast, resultsBudget>>

\* Mutant: an answer is shown though a later request is under way or has been answered.
AcceptsAny(r) == TRUE

Accepts(r) == r.live

ResultsArrive(r) ==
  /\ r \in resultsRequests /\ r.votes # Null
  /\ resultsRequests' = resultsRequests \ {r}
  /\ shownResults' = IF Accepts(r) THEN r.votes ELSE shownResults
  /\ lastPollFailed' = IF Accepts(r) THEN FALSE ELSE lastPollFailed
  /\ UNCHANGED <<resultsServerVars, clockOffset, knownElection, pageNow, electionRequests, resultsPast, resultsBudget>>

\* A refresh fails silently: what was shown stays.
ResultsFail(r) ==
  /\ r \in resultsRequests
  /\ resultsRequests' = resultsRequests \ {r}
  /\ lastPollFailed' = IF r.live THEN TRUE ELSE lastPollFailed
  /\ UNCHANGED <<resultsServerVars, clockOffset, knownElection, pageNow, shownResults, electionRequests, resultsPast, resultsBudget>>

-----------------------------------------------------------------------------
\* The labels of the cards, the showcase and the exported file: the candidates sorted by
\* their votes, and the first two compared.
IsTop(votes, c) == \A d \in Standing : votes[c] >= votes[d]

Elected(votes) ==
  LET top == {c \in Standing : IsTop(votes, c) /\ votes[c] > 0}
  IN IF Cardinality(top) = 1 THEN top ELSE {}

\* The winners the page names officially.
OfficialWinners == IF PageStatus = "closed" THEN Elected(shownResults) ELSE {}

-----------------------------------------------------------------------------
ResultsPageInit ==
  /\ resultsBudget \in ResultsBudgets
  /\ serverNow = 0
  /\ served = [closed |-> FALSE, closesAt |-> FirstClosesAt]
  /\ votesFor = FirstVotes
  /\ clockOffset \in ClockOffsets
  /\ knownElection = served
  /\ pageNow = clockOffset
  /\ shownResults = FirstVotes
  /\ electionRequests = {} /\ resultsRequests = {}
  /\ resultsPast = [castLate |-> FALSE]
  /\ lastPollFailed = FALSE

ResultsPageNext ==
  \/ \E c \in Standing : CastBallot(c)
  \/ ServerTick
  \/ \E closed \in BOOLEAN, end \in {FirstClosesAt, ExtendedClosesAt} :
       ChangeElection([closed |-> closed, closesAt |-> end])
  \/ UpdateNow \/ Poll
  \/ \E r \in electionRequests : ServeElection(r) \/ ElectionArrives(r) \/ ElectionFails(r)
  \/ \E r \in resultsRequests : ServeResults(r) \/ ResultsArrive(r) \/ ResultsFail(r)

ResultsPageSpec == ResultsPageInit /\ [][ResultsPageNext]_resultsPageVars

\* Time passes, the page's interval runs, and a request ends.
ResultsPageFairness ==
  /\ WF_resultsPageVars(At("results") /\ ServerTick)
  /\ WF_resultsPageVars(At("results") /\ UpdateNow)
  /\ WF_resultsPageVars(At("results") /\ \E r \in electionRequests : ElectionArrives(r) \/ ElectionFails(r))
  /\ WF_resultsPageVars(At("results") /\ \E r \in resultsRequests : ResultsArrive(r) \/ ResultsFail(r))

-----------------------------------------------------------------------------
\* The votes shown for a candidate never go down: an answer overtaken by a later refresh
\* is not shown after it.
ResultsForward == [][\A c \in Standing : shownResults'[c] >= shownResults[c]]_resultsPageVars

\* Once the page calls the results official and its last refresh has come back, the winner
\* it names is the one who got more votes than anybody else, and it names none if nobody
\* did. The exceptions: that refresh failed (it is not tried again), and a ballot was cast
\* after the page had closed, which its clock or an extension can cause.
FinalIsFinal ==
  PageStatus = "closed" /\ ~lastPollFailed /\ ~resultsPast.castLate
      /\ (\A r \in resultsRequests : ~r.live) =>
    OfficialWinners = {c \in Standing : votesFor[c] > 0 /\ \A d \in Standing \ {c} : votesFor[c] > votesFor[d]}

\* After the end of the election the page stops calling its results unofficial.
ClosesEventually == <>[](part # "results" \/ PageStatus = "closed")
=============================================================================

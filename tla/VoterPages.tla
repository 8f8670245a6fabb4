----------------------------- MODULE VoterPages ------------------------------
(***************************************************************************)
(* The pages a voter's browser stays on, the ballot and the results, and   *)
(* the server's reading of results. A behaviour is about one part. The     *)
(* page of results is the same for voters and administrators; its counts   *)
(* are votes by candidate, and the server's those of a whole answer.       *)
(***************************************************************************)
EXTENDS VotingClient, ResultsPage, Turnout

voterPagesVars == <<part, vars, resultsPageVars, turnoutVars>>

AnyOf(S) == CHOOSE x \in S : TRUE

VoterPagesInit ==
  /\ part \in {"voting", "results", "turnout"}
  /\ Init /\ ResultsPageInit /\ TurnoutInit
  /\ part # "voting" => budget = AnyOf(Budgets)
  /\ part # "results" => resultsBudget = AnyOf(ResultsBudgets) /\ clockOffset = AnyOf(ClockOffsets)
  /\ part # "turnout" => tally = AnyOf(InitialTallies)

VoterPagesNext ==
  \/ At("voting") /\ Next /\ UNCHANGED <<resultsPageVars, turnoutVars>>
  \/ At("results") /\ ResultsPageNext /\ UNCHANGED <<vars, turnoutVars>>
  \/ At("turnout") /\ TurnoutNext /\ UNCHANGED <<vars, resultsPageVars>>

VoterPagesSpec ==
  /\ VoterPagesInit /\ [][VoterPagesNext]_voterPagesVars
  /\ Fairness /\ ResultsPageFairness

\* The pages come to rest: waiting ends, a ballot that is over goes, and results become
\* official. Parts that are not followed are at rest.
PagesProgress == EveryWaitEnds /\ ClosedBallotRetires /\ ClosesEventually
=============================================================================

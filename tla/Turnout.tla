------------------------------- MODULE Turnout -------------------------------
(***************************************************************************)
(* The server's side of a request for the results of one election: after   *)
(* the check of who may see them, getResults and getTurnout are five reads *)
(* or six, each a statement of its own, of a database in which ballots are *)
(* cast and old ballots anonymised meanwhile. The election has one         *)
(* position; the requests do not meet, so one is followed at a time.       *)
(***************************************************************************)
EXTENDS Absence, Integers, FiniteSets

CONSTANTS
  OnBallot,          \* the candidates
  InitialTallies,    \* the rows there may be: [votes, participation, linked, snapshots]
  ResultsViewers,    \* "admin", "voted" and "not_voted"
  MaxCasts, MaxAsked \* bounds: ballots cast, requests

ASSUME CountsAssumption ==
  /\ Null \notin Int
  /\ InitialTallies \subseteq [votes : [OnBallot -> Nat], participation : Nat, linked : Nat,
                               snapshots : Nat]

VARIABLES
  tally,             \* votes by candidate, participation rows, linked votes, snapshots
  electionOver,
  resultsRequest,    \* the request: who asks, and what has been read
  turnoutPast        \* history: ballots cast, requests, and ballots moved by the backfill

turnoutVars == <<tally, electionOver, resultsRequest, turnoutPast>>

KnownBallots == tally.participation + tally.linked

Statements == {"votes", "participation", "linked", "snapshots"}

\* No statement has been read yet.
Unread == [s \in Statements \union {"rows"} |-> Null]

NoResultsRequest == [phase |-> "none", viewer |-> Null, reads |-> Unread, begun |-> 0, moved |-> 0]

-----------------------------------------------------------------------------
\* A ballot: a vote, a participation and a snapshot, in one transaction.
InsertBallot(c) ==
  /\ ~electionOver /\ turnoutPast.cast < MaxCasts
  /\ tally' = [tally EXCEPT !.votes[c] = @ + 1, !.participation = @ + 1, !.snapshots = @ + 1]
  /\ turnoutPast' = [turnoutPast EXCEPT !.cast = @ + 1]
  /\ UNCHANGED <<electionOver, resultsRequest>>

\* The backfill turns all linked votes into participations, in one transaction.
AnonymizeLegacy ==
  /\ tally.linked > 0
  /\ tally' = [tally EXCEPT !.participation = @ + tally.linked, !.linked = 0]
  /\ turnoutPast' = [turnoutPast EXCEPT !.moved = @ + tally.linked]
  /\ UNCHANGED <<electionOver, resultsRequest>>

ElectionEnds ==
  /\ ~electionOver /\ electionOver' = TRUE
  /\ UNCHANGED <<tally, resultsRequest, turnoutPast>>

MayRead(viewer, open) == ~open \/ viewer # "not_voted"

\* getElectionResultsHandler: while the election is open, administrators and those who
\* have voted.
AskResults(viewer) ==
  /\ resultsRequest.phase = "none" /\ turnoutPast.asked < MaxAsked
  /\ turnoutPast' = [turnoutPast EXCEPT !.asked = @ + 1]
  /\ resultsRequest' =
       IF MayRead(viewer, ~electionOver)
       THEN [NoResultsRequest EXCEPT !.phase = "reading", !.viewer = viewer, !.begun = KnownBallots,
                                     !.moved = turnoutPast.moved]
       ELSE NoResultsRequest
  /\ UNCHANGED <<tally, electionOver>>

Value(statement) ==
  CASE statement = "votes" -> tally.votes
    [] statement = "participation" -> tally.participation
    [] statement = "linked" -> tally.linked
    [] statement = "snapshots" -> tally.snapshots

\* The first five are sent together and run in any order (getTurnout's read of the number
\* of eligible voters, which does not change then, is left out).
ReadStatement(statement) ==
  /\ resultsRequest.phase = "reading"
  /\ resultsRequest.reads[statement] = Null
  /\ resultsRequest' = [resultsRequest EXCEPT !.reads[statement] = Value(statement)]
  /\ UNCHANGED <<tally, electionOver, turnoutPast>>

FirstReadsDone(reads) ==
  \A statement \in {"participation", "linked", "snapshots"} : reads[statement] # Null

\* With no voter and no snapshot found, a last read: are there votes at all?
NeedsRows(reads) ==
  /\ FirstReadsDone(reads)
  /\ reads.participation = 0 /\ reads.linked = 0 /\ reads.snapshots = 0

ReadRows ==
  /\ NeedsRows(resultsRequest.reads) /\ resultsRequest.reads.rows = Null
  /\ resultsRequest' = [resultsRequest EXCEPT !.reads.rows = \E c \in OnBallot : tally.votes[c] > 0]
  /\ UNCHANGED <<tally, electionOver, turnoutPast>>

TurnoutRead(reads) == FirstReadsDone(reads) /\ (NeedsRows(reads) => reads.rows # Null)

\* Mutant: snapshots are counted beside the linked votes, and participations not at all.
TotalBySnapshots(reads) ==
  IF reads.linked > 0 \/ reads.snapshots > 0 THEN reads.linked + reads.snapshots
  ELSE IF reads.participation > 0 THEN reads.participation
  ELSE IF reads.rows THEN Null ELSE 0

\* getTurnout's totalBallotsCast; Null stands for `cannot be known'.
TotalBallotsRead(reads) ==
  IF reads.participation > 0 \/ reads.linked > 0 THEN reads.participation + reads.linked
  ELSE IF reads.snapshots > 0 THEN reads.snapshots
  ELSE IF reads.rows THEN Null ELSE 0

AnswerResults ==
  /\ resultsRequest.phase = "reading"
  /\ resultsRequest.reads.votes # Null /\ TurnoutRead(resultsRequest.reads)
  /\ resultsRequest' = NoResultsRequest
  /\ UNCHANGED <<tally, electionOver, turnoutPast>>

-----------------------------------------------------------------------------
TurnoutInit ==
  /\ tally \in InitialTallies
  /\ electionOver = FALSE
  /\ resultsRequest = NoResultsRequest
  /\ turnoutPast = [cast |-> 0, asked |-> 0, moved |-> 0]

TurnoutNext ==
  \/ \E c \in OnBallot : InsertBallot(c)
  \/ AnonymizeLegacy \/ ElectionEnds
  \/ \E viewer \in ResultsViewers : AskResults(viewer)
  \/ \E statement \in Statements : ReadStatement(statement)
  \/ ReadRows \/ AnswerResults

TurnoutSpec == TurnoutInit /\ [][TurnoutNext]_turnoutVars

-----------------------------------------------------------------------------
\* The ballots a request reports are as many as there were at some moment of it, by their
\* voters or by their snapshots (which outlive voters that earlier releases deleted), give
\* or take the legacy ballots a backfill moved between two of its reads; and it says
\* `unknown' only when there may have been no ballot of a known voter.
TurnoutBracketed ==
  LET reads == resultsRequest.reads
      total == TotalBallotsRead(reads)
      slack == turnoutPast.moved - resultsRequest.moved
  IN resultsRequest.phase = "reading" /\ TurnoutRead(reads) =>
       /\ resultsRequest.begun - slack <= (IF total = Null THEN 0 ELSE total)
       /\ total # Null => total <= KnownBallots + slack \/ total <= tally.snapshots
=============================================================================

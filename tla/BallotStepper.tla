---------------------------- MODULE BallotStepper ----------------------------
(***************************************************************************)
(* The ballot a voter fills in: one position per step, and a review at the *)
(* end. A form is the sequence of its positions in display order, each     *)
(* with its candidates; the voter's state is a choice per position and the *)
(* index of the step, where the index past the last position is the        *)
(* review. Indices start at 0 as in the code.                              *)
(***************************************************************************)
EXTENDS Integers, Sequences, FiniteSetsExt

CONSTANTS
  PositionIds, CandidateIds, PartyIds,
  PartyOf,      \* the party of each candidate, Null for an independent
  NoChoice      \* a position left blank

\* The positions of a form that have candidates, in display order.
StepperPositions(form) == SelectSeq(form, LAMBDA p : p.options # {})

IdsOf(positions) == {positions[i].id : i \in DOMAIN positions}

StepAt(positions, index) == positions[index + 1]

IsReviewStep(voting, positions) == voting.index = Len(positions)

CreateVotingState(positions) ==
  [choice |-> [p \in IdsOf(positions) |-> NoChoice], index |-> 0]

SelectCandidate(voting, p, k) == [voting EXCEPT !.choice[p] = k]

ClearSelection(voting, p) == [voting EXCEPT !.choice[p] = NoChoice]

\* A party without a candidate for a position blanks it. A party has at most one
\* candidate per position here; of several the code takes the first listed.
SelectPartySlate(voting, positions, party) ==
  [voting EXCEPT !.choice =
     [p \in DOMAIN voting.choice |->
        LET slate == UNION {{k \in positions[i].options : PartyOf[k] = party} :
                            i \in {j \in DOMAIN positions : positions[j].id = p}}
        IN IF slate = {} THEN NoChoice ELSE CHOOSE k \in slate : TRUE]]

GoNext(voting, positions) ==
  IF positions = << >> THEN voting
  ELSE [voting EXCEPT !.index = Min({@ + 1, Len(positions)})]

GoPrevious(voting) == [voting EXCEPT !.index = Max({@ - 1, 0})]

GoToPosition(voting, i) == [voting EXCEPT !.index = i]

AllPositionsVoted(voting, positions) ==
  \A i \in DOMAIN positions : voting.choice[positions[i].id] # NoChoice

SelectedVotes(voting) ==
  {v \in [position : DOMAIN voting.choice, candidate : CandidateIds] :
     voting.choice[v.position] = v.candidate}

\* The controls the stepper offers, and the state each of them leads to. Only
\* "Previous" and "Submit" are disabled while a submission runs.
StepperMoves(voting, positions, submitting) ==
  LET reviewing == IsReviewStep(voting, positions)
      current == StepAt(positions, voting.index)
  IN (IF reviewing THEN {} ELSE
        {SelectCandidate(voting, current.id, k) : k \in current.options}
          \union {ClearSelection(voting, current.id), GoNext(voting, positions)})
     \union {SelectPartySlate(voting, positions, party) : party \in PartyIds}
     \union {GoToPosition(voting, i) : i \in 0..Len(positions)}
     \union (IF voting.index = 0 \/ submitting THEN {} ELSE {GoPrevious(voting)})

SubmitOffered(voting, positions, submitting) ==
  IsReviewStep(voting, positions) /\ AllPositionsVoted(voting, positions) /\ ~submitting

\* Mutant: any two forms with the same positions count as the same.
SamePositions(a, b) == IdsOf(a) = IdsOf(b)

\* The same positions with the same candidates; their order does not count.
ArePositionsStructurallyEqual(a, b) ==
  {<<a[i].id, a[i].options>> : i \in DOMAIN a} = {<<b[i].id, b[i].options>> : i \in DOMAIN b}

\* What becomes of the choices when the page is derived again for the same
\* election.
PreserveVotingState(voting, before, after) ==
  IF ArePositionsStructurallyEqual(before, after)
  THEN [voting EXCEPT !.index = Min({@, Len(after)})]
  ELSE CreateVotingState(after)
=============================================================================

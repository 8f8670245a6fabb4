------------------------------- MODULE Roster --------------------------------
(***************************************************************************)
(* The ballot form: which positions an election has and which candidates   *)
(* stand for them. Each lifecycle coordinator call is one transaction that *)
(* first checks that the election is a draft. Names, parties, display order*)
(* and pictures do not matter to a ballot and are left out.                *)
(***************************************************************************)
EXTENDS Elections

CONSTANTS
  PositionIds,   \* identities that may ever be given to a position
  CandidateIds   \* identities that may ever be given to a candidate

VARIABLES
  position,      \* PositionIds -> [state, election]
  candidate      \* CandidateIds -> [state, position]

rosterVars == <<position, candidate>>

\* Identities are fresh UUIDs: a deleted one never returns, and a candidate is
\* never reactivated.
PositionRow == [state : {"unborn", "listed", "deleted"}, election : ElectionIds \union {Null}]
CandidateRow == [state : {"unborn", "active", "inactive"}, position : PositionIds \union {Null}]

RosterTypeOK ==
  /\ position \in [PositionIds -> PositionRow]
  /\ candidate \in [CandidateIds -> CandidateRow]

ListByElection(e) == {p \in PositionIds : position[p] = [state |-> "listed", election |-> e]}

ActiveFor(p) == {k \in CandidateIds : candidate[k] = [state |-> "active", position |-> p]}

\* countPositions > 0 and countPositionsWithActiveCandidates = countPositions.
FormComplete(e) ==
  /\ ListByElection(e) # {}
  /\ \A p \in ListByElection(e) : ActiveFor(p) # {}

-----------------------------------------------------------------------------
CreatePosition(p, e) ==
  /\ IsElectionEditable(e)
  /\ position[p].state = "unborn"
  /\ position' = [position EXCEPT ![p] = [state |-> "listed", election |-> e]]
  /\ UNCHANGED candidate

\* Mutant: only the active candidates are counted.
DeletePositionWithoutActive(p, e) ==
  /\ p \in ListByElection(e)
  /\ IsElectionEditable(e)
  /\ ActiveFor(p) = {}
  /\ position' = [position EXCEPT ![p].state = "deleted"]
  /\ UNCHANGED candidate

\* Refused while a candidate, active or not, stands for the position.
DeletePosition(p, e) ==
  /\ p \in ListByElection(e)
  /\ IsElectionEditable(e)
  /\ \A k \in CandidateIds : candidate[k].position # p
  /\ position' = [position EXCEPT ![p].state = "deleted"]
  /\ UNCHANGED candidate

CreateCandidate(k, p, e) ==
  /\ p \in ListByElection(e)
  /\ IsElectionEditable(e)
  /\ candidate[k].state = "unborn"
  /\ candidate' = [candidate EXCEPT ![k] = [state |-> "active", position |-> p]]
  /\ UNCHANGED position

DeactivateCandidate(k, p, e) ==
  /\ k \in ActiveFor(p)
  /\ p \in ListByElection(e)
  /\ IsElectionEditable(e)
  /\ candidate' = [candidate EXCEPT ![k].state = "inactive"]
  /\ UNCHANGED position

-----------------------------------------------------------------------------
RosterInit ==
  /\ position = [p \in PositionIds |-> [state |-> "unborn", election |-> Null]]
  /\ candidate = [k \in CandidateIds |-> [state |-> "unborn", position |-> Null]]

EditRoster(e) ==
  \E p \in PositionIds :
    \/ CreatePosition(p, e)
    \/ DeletePosition(p, e)
    \/ \E k \in CandidateIds : CreateCandidate(k, p, e) \/ DeactivateCandidate(k, p, e)
=============================================================================

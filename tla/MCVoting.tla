------------------------------ MODULE MCVoting -------------------------------
(* Instances of Voting for TLC. Positions p1, p2 and candidates k1, k2 are    *)
(* model values; a submission pairs candidates with positions.                *)
EXTENDS Voting, TLC

CONSTANTS e1, p1, p2, k1, k2

Pick(k, p) == [candidate |-> k, position |-> p]

OneOption == {{Pick(k1, p1)}}
OneOrNone == OneOption \union {{}}
OneOrTwo == {{Pick(k1, p1)}, {Pick(k1, p1), Pick(k2, p2)}}

\* A start at which the administrators have already drafted the election and put
\* one candidate on its form; a run that begins here spends its states on what
\* follows.
DraftedInit ==
  /\ now = 0
  /\ election = [e \in ElectionIds |-> [status |-> "draft", opensAt |-> 0, closesAt |-> 1]]
  /\ position = [p \in PositionIds |->
       IF p = p1 THEN [state |-> "listed", election |-> e1]
       ELSE [state |-> "unborn", election |-> Null]]
  /\ candidate = [k \in CandidateIds |->
       IF k = k1 THEN [state |-> "active", position |-> p1]
       ELSE [state |-> "unborn", position |-> Null]]
  /\ account = [a \in AccountIds |-> [state |-> "unborn", student |-> Null, bySuperAdmin |-> FALSE]]
  /\ electorate = [e \in ElectionIds |-> {}]
  /\ cast = [c \in CastIds |-> NoCast]
  /\ votes = [e \in ElectionIds |-> {}]
  /\ snapshots = [e \in ElectionIds |-> {}]
  /\ participation = [e \in ElectionIds |-> {}]
  /\ legacy = [e \in ElectionIds |-> [a \in AccountIds |-> "none"]]
  /\ key = 1
  /\ openings = [e \in ElectionIds |-> 0]

DraftedSpec == DraftedInit /\ [][Next]_vars

Symmetry == Permutations(AccountIds) \union Permutations(CastIds) \union Permutations(StudentIds)
=============================================================================

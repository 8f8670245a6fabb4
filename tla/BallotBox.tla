------------------------------ MODULE BallotBox ------------------------------
(***************************************************************************)
(* What voting promises, whatever happens inside: a box per election that  *)
(* takes at most one ballot per student, only while voting is under way;   *)
(* at most one election is voting; an election whose box holds a ballot    *)
(* never goes back to preparation, so what is in the box after voting is   *)
(* the result.                                                             *)
(***************************************************************************)
CONSTANTS Elections, Students, Ballots

VARIABLES
  stage,   \* Elections -> "preparing" | "voting" | "final"
  box      \* Elections -> set of <<student, ballot>>

boxVars == <<stage, box>>

Voting == {e \in Elections : stage[e] = "voting"}

Init ==
  /\ stage = [e \in Elections |-> "preparing"]
  /\ box = [e \in Elections |-> {}]

\* Opening an election ends the voting of any other one.
Open(e) ==
  /\ stage[e] = "preparing"
  /\ stage' = [f \in Elections |-> IF f = e THEN "voting"
                                   ELSE IF f \in Voting THEN "final" ELSE stage[f]]
  /\ UNCHANGED box

Close(e) ==
  /\ stage[e] = "voting"
  /\ stage' = [stage EXCEPT ![e] = "final"]
  /\ UNCHANGED box

Reopen(e) ==
  /\ stage[e] = "final"
  /\ box[e] = {}
  /\ stage' = [stage EXCEPT ![e] = "preparing"]
  /\ UNCHANGED box

Deposit(e, s, b) ==
  /\ stage[e] = "voting"
  /\ \A entry \in box[e] : entry[1] # s
  /\ box' = [box EXCEPT ![e] = @ \union {<<s, b>>}]
  /\ UNCHANGED stage

Next ==
  \E e \in Elections :
    \/ Open(e) \/ Close(e) \/ Reopen(e)
    \/ \E s \in Students, b \in Ballots : Deposit(e, s, b)

Spec == Init /\ [][Next]_boxVars
=============================================================================

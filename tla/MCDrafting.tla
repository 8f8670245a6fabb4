--------------------------- MODULE MCDrafting ---------------------------------
(* An instance of Drafting for TLC. Positions and the requests for            *)
(* pictures share the model values x1, x2, x3, so that one permutation serves *)
(* both; p0 is the pictures' position.                                        *)
EXTENDS Drafting, TLC

CONSTANTS e1, e2, p0, k1

OrdersTried == (-1)..3

\* An election with one candidate has been drafted, another is over. Positions of `added' may
\* be added.
DraftedInit(added) ==
  /\ election = (e1 :> [status |-> "draft", opensAt |-> 0, closesAt |-> 1]) @@
                (e2 :> [status |-> "archived", opensAt |-> 0, closesAt |-> 1])
  /\ position = [p \in PositionIds |->
                   CASE p = p0 -> [state |-> "listed", election |-> e1]
                     [] p \in added -> [state |-> "unborn", election |-> Null]
                     [] OTHER -> [state |-> "deleted", election |-> e1]]
  /\ candidate = (k1 :> [state |-> "active", position |-> p0])

EmptyInit ==
  /\ election = [e \in ElectionIds |-> NoRow]
  /\ position = [p \in PositionIds |->
                   IF p = p0 THEN [state |-> "deleted", election |-> e1]
                   ELSE [state |-> "unborn", election |-> Null]]
  /\ candidate = (k1 :> [state |-> "unborn", position |-> Null])

\* The positions start from nothing, the pictures from a draft. Both at once have another
\* position that may be added and one request, the others having been refused.
MCInit ==
  /\ \/ part = "positions" /\ EmptyInit /\ job = [j \in JobIds |-> NoJob]
     \/ part = "pictures" /\ DraftedInit({}) /\ job = [j \in JobIds |-> NoJob]
     \/ \E x \in JobIds :
          /\ part = "both" /\ DraftedInit({x})
          /\ job = [j \in JobIds |-> IF j = x THEN NoJob ELSE [NoJob EXCEPT !.phase = "refused"]]
  /\ now = 0
  /\ displayOrder = [p \in PositionIds |-> IF position[p].state = "listed" THEN 0 ELSE Null]
  /\ imageUrl = [k \in CandidateIds |-> Null] /\ objects = {}
  /\ view = [v \in ViewIds |-> NoView]
  /\ unsure = {} /\ leaked = {}

MCSpec == MCInit /\ [][DraftingNext]_<<part, orderVars, pictureVars>>

Symmetry == Permutations(JobIds)
=============================================================================

----------------------------- MODULE Preparation ------------------------------
(***************************************************************************)
(* What administrators prepare while an election is a draft, all of it at  *)
(* once: the form, the order of its positions and candidates' pictures,    *)
(* beside the lifecycle and whoever looks at the pictures. PositionOrder   *)
(* and AvatarStore have one of the two each, with the writers of elections *)
(* and forms that matter to it; here every writer does all that it does.   *)
(***************************************************************************)
EXTENDS PositionOrder, AvatarStore

pictureVars == <<avatarVars, view>>
preparationVars == <<orderVars, pictureVars>>

\* An order goes with the position it is of; a change of the lifecycle overtakes viewers.
PrepareElection(e) ==
  \/ ChangeOrder(e) /\ UNCHANGED <<electionVars, pictureVars>>
  \/ ChangeCandidates(e) /\ UNCHANGED <<electionVars, displayOrder, pictureVars>>
  \/ ChangeElection(e) /\ Redraft /\ UNCHANGED <<rosterVars, displayOrder, avatarVars>>

PreparationInit == PositionOrderInit /\ Init

PreparationNext ==
  \/ Tick /\ UNCHANGED <<rosterVars, displayOrder, pictureVars>>
  \/ \E e \in ElectionIds : PrepareElection(e)
  \/ \E j \in JobIds : ChangePicture(j) /\ UNCHANGED <<orderVars, view>>
  \/ \E v \in ViewIds : Look(v) /\ UNCHANGED <<orderVars, avatarVars>>

PreparationSpec == PreparationInit /\ [][PreparationNext]_preparationVars
=============================================================================

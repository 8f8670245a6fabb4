------------------------------- MODULE Drafting -------------------------------
(***************************************************************************)
(* Orders and pictures for TLC, which can follow both at once only on the  *)
(* smallest instance: a behaviour is about one of them, and the other      *)
(* rests meanwhile, or it is about both, as in Preparation.                *)
(***************************************************************************)
EXTENDS OnePart, Preparation

\* Among the pictures no position is added; one that is deleted takes its order with it.
KeepOrders ==
  displayOrder' = [p \in PositionIds |->
                     IF position'[p].state = "listed" THEN displayOrder[p] ELSE Null]

DraftingNext ==
  \/ At("positions") /\ PositionOrderNext /\ UNCHANGED pictureVars
  \/ At("pictures") /\ Next /\ KeepOrders
  \/ At("both") /\ PreparationNext
=============================================================================

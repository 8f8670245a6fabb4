--------------------------- MODULE MCPositionOrder ---------------------------
(* Instances of PositionOrder for TLC. *)
EXTENDS PositionOrder, TLC

OrdersTried == (-1)..3

Symmetry == Permutations(PositionIds)
=============================================================================

------------------------------- MODULE OnePart -------------------------------
(* Which part of the system a behaviour is about, where parts that share no   *)
(* state are checked beside one another. It stays as it is, and the other     *)
(* parts rest.                                                                *)
VARIABLE part

At(name) == part = name /\ UNCHANGED part
=============================================================================

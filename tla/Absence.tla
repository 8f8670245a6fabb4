------------------------------ MODULE Absence --------------------------------
(* The value of what there is none of: SQL NULL, and null and undefined of    *)
(* the code.                                                                  *)
CONSTANT Null
=============================================================================

---------------------------- MODULE MCCredentials ----------------------------
(* Instances of Credentials for TLC. *)
EXTENDS Credentials, TLC

Symmetry == Permutations(AccountIds) \union Permutations(Passwords) \union
            Permutations(LoginIds) \union Permutations(ChangeIds)
=============================================================================

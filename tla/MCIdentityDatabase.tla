------------------------- MODULE MCIdentityDatabase -------------------------
(* A small instance of IdentityDatabase for TLC. *)
EXTENDS IdentityDatabase, TLC

Symmetry == Permutations(Ids)
=============================================================================

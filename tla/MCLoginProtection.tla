------------------------- MODULE MCLoginProtection -------------------------
(* A small instance of LoginProtection for TLC: a trusted address and another one. *)
EXTENDS LoginProtection
=============================================================================

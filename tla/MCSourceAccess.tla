--------------------------- MODULE MCSourceAccess ---------------------------
(* The instance of SourceAccess for TLC is in source_access.cfg: there is nothing to define. *)
EXTENDS SourceAccess
=============================================================================

------------------------ MODULE MCBackchannelLogout ------------------------
(* Small instances of BackchannelLogout for TLC: every SP participates in every session. *)
EXTENDS BackchannelLogout, TLC

AllPairs == Sessions \X SPs
=============================================================================

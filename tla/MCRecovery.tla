---------------------------- MODULE MCRecovery ----------------------------
(***************************************************************************)
(* Recovery on the lines -1 to 2.                                          *)
(***************************************************************************)
EXTENDS Recovery

MCLo == -1
MCMissed == {-1}
=============================================================================

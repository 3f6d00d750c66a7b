---------------------------- MODULE MCUpdateCheck ----------------------------
(* UpdateCheck.tla for TLC. *)
EXTENDS UpdateCheck
=============================================================================

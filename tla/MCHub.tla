------------------------------- MODULE MCHub -------------------------------
(* The push stream for TLC. *)
EXTENDS Hub

=============================================================================

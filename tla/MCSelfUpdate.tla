---------------------------- MODULE MCSelfUpdate ----------------------------
(***************************************************************************)
(* SelfUpdate.tla for TLC. Liveness is checked, so no symmetry is used.    *)
(***************************************************************************)
EXTENDS SelfUpdate
=============================================================================

----------------------------- MODULE MCStatuses -----------------------------
(* Statuses.tla for TLC. *)
EXTENDS Statuses
=============================================================================

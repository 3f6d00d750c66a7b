----------------------------- MODULE MCEventLog -----------------------------
(* EventLog.tla for TLC. *)
EXTENDS EventLog
=============================================================================

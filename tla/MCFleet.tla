------------------------------ MODULE MCFleet ------------------------------
(* The managed records for TLC: one stack. *)
EXTENDS Fleet

CONSTANTS s1
OneStack == [n \in Services |-> s1]

=============================================================================

---------------------------- MODULE MCRaidWatch ----------------------------
(***************************************************************************)
(* RaidWatch.tla for TLC: schedules and delays of a few units of time.     *)
(***************************************************************************)
EXTENDS RaidWatch, TLC

CONSTANTS early, late

\* Two rules that share an occurrence, and the delays before retries.
Occurrences == [r \in Rules |-> IF r = early THEN {1, 3} ELSE {3}]
Delays == <<1, 1>>
OneDelay == <<1>>

Symmetry == Permutations(Arrays) \cup Permutations(Requests)
=============================================================================

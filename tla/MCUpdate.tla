------------------------------ MODULE MCUpdate ------------------------------
(***************************************************************************)
(* Update.tla for TLC: container ids, jobs and specs are interchangeable.  *)
(***************************************************************************)
EXTENDS UpdateSwap, TLC

Symmetry == Permutations(CID) \cup Permutations(Jobs) \cup Permutations(Specs)
=============================================================================

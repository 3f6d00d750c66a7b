---------------------------- MODULE MCLifecycle ----------------------------
(* Lifecycle.tla for TLC: container ids and specs are interchangeable. *)
EXTENDS Lifecycle, TLC

Symmetry == Permutations(CID) \cup Permutations(Specs)
=============================================================================

----------------------------- MODULE UpdateSwap -----------------------------
(***************************************************************************)
(* Update implements Swap: the container that is known to work is the one  *)
(* with the service's name once it has come up, and the parked one until   *)
(* then.                                                                   *)
(***************************************************************************)
EXTENDS Update

The(S) == IF S = {} THEN None ELSE CHOOSE c \in S : TRUE
Proved == Holder(ctr, "svc") \cap trusted
Cur == IF Proved # {} THEN The(Proved) ELSE The(Holder(ctr, "old"))
Fallback == IF Proved # {} THEN The(Holder(ctr, "old")) ELSE None
SpecOf(c) == IF c = None THEN None ELSE ctr[c].spec

Abstract == INSTANCE Swap WITH
    cur <- Cur, fallback <- Fallback, used <- trusted, unproved <- taken,
    spec <- [cur |-> SpecOf(Cur), fallback |-> SpecOf(Fallback)]

\* Whatever fails, crashes or interleaves, every step of the updates, of the
\* recovery and of the user is a step of Swap or none: the service's working
\* container changes only by a replacement that came up with the same spec, by the
\* undoing of one, or by the user (Update, Recover); or, where Recover passed over an
\* interrupted swap, by a replacement with the same spec that nobody saw come up.
ImplementsSwap == Abstract!Spec

(***************************************************************************)
(* What the proof of that needs besides IndInv (UpdateProofs).             *)
(***************************************************************************)
\* At most one container is parked, and a replacement that has yet to come up was
\* created from the spec of the parked one.
SwapInv ==
    /\ IndInv
    /\ \A c, d \in Holder(ctr, "old") : c = d
    /\ \A c \in Holder(ctr, "svc") \ trusted, d \in Holder(ctr, "old") : ctr[c].spec = ctr[d].spec
=============================================================================

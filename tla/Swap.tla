-------------------------------- MODULE Swap --------------------------------
(***************************************************************************)
(* What an update promises, without how (swap, rollback and reconcileOne,  *)
(* seen from outside): a service always has a container that is known to   *)
(* work. An update replaces it in one step, by one that has come up and has*)
(* the same spec, and for a while can take that back. Only the user puts   *)
(* another spec in its place.                                              *)
(***************************************************************************)
CONSTANTS CID, Specs, None

VARIABLES
    cur,        \* the container that is known to work
    fallback,   \* the one it replaced, as long as that can be undone, or None
    spec,       \* their specs
    used,       \* the containers there have been
    unproved    \* those among them that nobody saw come up

swapVars == <<cur, fallback, spec, used, unproved>>

Init ==
    /\ cur \in CID /\ fallback = None /\ used = {cur} /\ unproved = {}
    /\ \E s \in Specs : spec = [cur |-> s, fallback |-> None]

\* A replacement with the same spec takes the place of the container,
Succeed(c) ==
    /\ c \in CID \ used /\ fallback = None
    /\ cur' = c /\ fallback' = cur /\ used' = used \cup {c}
    /\ spec' = [cur |-> spec.cur, fallback |-> spec.cur]

\* because it has come up, or, the exception, because an interrupted swap was passed
\* over and its replacement is now taken for the service's container.
Accept(c) == Succeed(c) /\ UNCHANGED unproved
TakeOver(c) == Succeed(c) /\ unproved' = unproved \cup {c}

\* The replaced container is dropped, or the replacement after all.
Discard ==
    /\ fallback # None
    /\ fallback' = None /\ spec' = [spec EXCEPT !.fallback = None]
    /\ UNCHANGED <<cur, used, unproved>>

Revert ==
    /\ fallback # None
    /\ cur' = fallback /\ fallback' = None
    /\ spec' = [cur |-> spec.fallback, fallback |-> None]
    /\ UNCHANGED <<used, unproved>>

\* The user makes the container anew; one that is parked stays until it is dropped.
Replace(c, s) ==
    /\ c \in CID \ used
    /\ cur' = c /\ used' = used \cup {c}
    /\ fallback' \in {fallback, cur}
    /\ spec' = [cur |-> s, fallback |-> IF fallback' = None THEN None
                                        ELSE IF fallback' = fallback THEN spec.fallback ELSE spec.cur]
    /\ UNCHANGED unproved

Next ==
    \/ Discard \/ Revert
    \/ \E c \in CID : Accept(c) \/ TakeOver(c) \/ \E s \in Specs : Replace(c, s)

Spec == Init /\ [][Next]_swapVars
=============================================================================

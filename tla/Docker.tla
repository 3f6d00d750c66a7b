------------------------------- MODULE Docker -------------------------------
(***************************************************************************)
(* The Docker daemon as internal/docker uses it: a table of containers     *)
(* that the manager changes one API call at a time.  The daemon is not     *)
(* part of the repository, so this module is modelled from the calls the   *)
(* manager makes and the errors it handles.                                *)
(*                                                                         *)
(* The module looks at ONE managed service.  Only the names its update     *)
(* code uses exist: the service's own name, and the name the old container *)
(* is parked under while an update is in flight (name + "__veery_old").    *)
(*                                                                         *)
(* Abstractions.  A container keeps the fields the code decides on: name,  *)
(* image id, the create-spec (an element of Specs) and the run state.      *)
(* Ports, networks and volumes are part of the spec.  The image store is   *)
(* left out: the daemon refuses to remove an image a container uses.       *)
(***************************************************************************)

CONSTANTS
    CID,        \* container ids; the daemon never hands one out twice
    Images,     \* image ids
    Good,       \* the images whose containers never fail by themselves
    Specs,      \* create-specs (what a snapshot stores)
    Healthcheck,\* do the service's containers have a health check?
    Faults,     \* the API calls that may fail for no reason of their own
    None        \* "no container"

Calls == {"list", "inspect", "pull", "create", "start", "stop", "rename", "remove", "restart"}

ASSUME NoneAssumption == None \notin CID
ASSUME ImagesAssumption == Good \subseteq Images
ASSUME HealthcheckAssumption == Healthcheck \in BOOLEAN
ASSUME FaultsAssumption == Faults \subseteq Calls

\* The service's name, and name + oldSuffix (update.go).
Names == {"svc", "old"}

\* Docker's State, as verifyHealthy and settled tell it apart.  "unused" and
\* "removed" are ids the daemon has not handed out yet, or has retired.
\* "stopped" exited with code 0, "crashed" with another code; "running" has no
\* health verdict (there is no check, or it is still starting).
Up == {"running", "healthy", "unhealthy", "restarting"}
States == {"unused", "removed", "created", "stopped", "crashed"} \cup Up

Container == [name : Names, image : Images, spec : Specs, state : States]
Table == [CID -> Container]

Exists(t, c) == t[c].state \notin {"unused", "removed"}

\* The container that answers to a name, as a set with at most one element.
Holder(t, n) == {c \in CID : Exists(t, c) /\ t[c].name = n}

CreateC(t, c, n, i, s) ==
    [t EXCEPT ![c] = [name |-> n, image |-> i, spec |-> s, state |-> "created"]]
SetState(t, c, s) == [t EXCEPT ![c].state = s]
RenameC(t, c, n) == [t EXCEPT ![c].name = n]
RemoveC(t, C) == [c \in CID |-> IF c \in C THEN [t[c] EXCEPT !.state = "removed"] ELSE t[c]]

\* Starting a container that is up already changes nothing.
StartC(t, c) == IF t[c].state \in Up THEN t ELSE SetState(t, c, "running")

MayFail(call) == call \in Faults

\* What a container does by itself.  A good image only ever gets healthy; any
\* other may fail its check, exit, or exit again and again under its restart
\* policy (restarting, and running again in between).
Drift(i, s) ==
    CASE s = "running" -> (IF Healthcheck THEN {"healthy"} ELSE {}) \cup
                          (IF i \in Good THEN {} ELSE {"crashed", "restarting"} \cup
                              (IF Healthcheck THEN {"unhealthy"} ELSE {}))
      [] s = "healthy" -> IF i \in Good THEN {} ELSE {"unhealthy", "crashed", "restarting"}
      [] s = "restarting" -> {"running", "crashed"}
      [] OTHER -> {}
=============================================================================

------------------------------ MODULE Statuses ------------------------------
(***************************************************************************)
(* The status notifications of one stack (internal/docker/notify.go): the  *)
(* goroutines that call BroadcastStacks (the poller, the end of a job, an  *)
(* update check), each of which lists the containers, reads which are      *)
(* managed and which are being updated, and only then takes statusMu,      *)
(* compares the listing with the last one and announces what changed.      *)
(*                                                                         *)
(* Abstractions.  A container's name stands for it; its Docker state and   *)
(* health are one member of HostStates; the text of a message is the       *)
(* status it reports.  An update is its effect on the listing: its job is  *)
(* registered, its container goes and comes back under the name (module    *)
(* Update), the job is forgotten.  The WebSocket push that ends            *)
(* BroadcastStacks is module Hub, what Notify does with a message is       *)
(* module EventLog.                                                        *)
(***************************************************************************)
EXTENDS Naturals, FiniteSets

CONSTANTS
    None,
    Containers,   \* the names of the containers of the stack
    Poller,       \* pollStacks, which calls BroadcastStacks at every interval
    Others,       \* the jobs and update checks that call it when they are done
    HostStates,   \* the Docker states of a container that the run tells apart
    MaxOthers,    \* bound: how often one of Others calls it
    MaxUpsets     \* bound: changes by hand, updates, failed queries and crashes

DockerStates == {"running", "unhealthy", "restarting", "dead", "crashed", "exited", "created", "gone"}

ASSUME BoundsAssumption == MaxOthers \in Nat /\ MaxUpsets \in Nat
ASSUME HostAssumption == HostStates \subseteq DockerStates /\ {"running", "gone"} \subseteq HostStates

Casters == {Poller} \cup Others
Plain == {"running", "stopped", "needs_attention", "missing"}
Status == Plain \cup {"updating"}

ASSUME NoneAssumption == None \notin Status \cup Casters

VARIABLES
    host,           \* the Docker state of each container
    managed,        \* the containers with a row in managed_containers
    updating,       \* the containers with an update job in the registry
    lastStatus,     \* Manager.lastStatus: the listing last compared with
    statusBaseline, \* Manager.statusBaseline: lastStatus was loaded
    saved,          \* the setting notify_last_statuses
    cast,           \* the call of BroadcastStacks each goroutine is in
    mu,             \* the holder of statusMu
    told,           \* history: what the user last heard of each container
    doubt,          \* history: told, but forgotten by a crash before it was saved
    others,         \* the calls made by Others so far
    upsets,         \* the upsets so far
    byHand          \* history: the host was changed by hand

world == <<host, managed, updating>>
memory == <<lastStatus, statusBaseline>>
history == <<told, doubt>>
bounds == <<others, upsets, byHand>>
vars == <<world, memory, saved, cast, mu, history, bounds>>

Opt(S) == S \cup {None}
Unseen == [c \in Containers |-> None]
Idle == [pc |-> "idle", host |-> [c \in Containers |-> "gone"], managed |-> {}, view |-> Unseen, todo |-> {}]

\* One more upset, within the bound.
Upset == upsets < MaxUpsets /\ upsets' = upsets + 1

Init ==
    /\ host = [c \in Containers |-> "running"]
    /\ managed = Containers
    /\ updating = {}
    /\ lastStatus = Unseen /\ statusBaseline = FALSE /\ saved = Unseen
    /\ cast = [k \in Casters |-> Idle]
    /\ mu = None
    /\ told = Unseen /\ doubt = {}
    /\ others = 0 /\ upsets = 0 /\ byHand = FALSE

-----------------------------------------------------------------------------
(* ListStacks.                                                             *)

\* A non-zero exit is a crash, a clean one an intentional stop (mapStatus, with
\* the health and exit code that buildContainer reads out of the summary).
MapStatus(state) ==
    CASE state = "running" -> "running"
      [] state \in {"unhealthy", "restarting", "dead", "crashed"} -> "needs_attention"
      [] OTHER -> "stopped"

StatusIn(listed, busy, c) ==
    IF c \in busy THEN "updating" ELSE IF listed[c] = "gone" THEN "missing" ELSE MapStatus(listed[c])

\* ContainerList.
List(k) ==
    /\ cast[k].pc = "idle"
    /\ k \in Others => others < MaxOthers
    /\ others' = IF k \in Others THEN others + 1 ELSE others
    /\ cast' = [cast EXCEPT ![k].pc = "managed", ![k].host = host]
    /\ UNCHANGED <<world, memory, saved, mu, history, upsets, byHand>>

\* AllManaged.
ReadManaged(k) ==
    /\ cast[k].pc = "managed"
    /\ cast' = [cast EXCEPT ![k].pc = "updating", ![k].managed = managed]
    /\ UNCHANGED <<world, memory, saved, mu, history, bounds>>

\* updatingContainers, and the statuses that follow from the three readings.
ReadUpdating(k) ==
    /\ cast[k].pc = "updating"
    /\ cast' = [cast EXCEPT ![k] = [Idle EXCEPT !.pc = "note", !.view = [c \in Containers |->
           IF c \in cast[k].managed THEN StatusIn(cast[k].host, updating, c) ELSE None]]]
    /\ UNCHANGED <<world, memory, saved, mu, history, bounds>>

-----------------------------------------------------------------------------
(* noteStatuses, under statusMu.                                           *)

\* The containers whose transition is worth a message: a newly seen one is only
\* recorded, and an update reports its own outcome.
Transitions(last, view) ==
    {c \in Containers : last[c] \in Plain /\ view[c] \in Plain /\ last[c] # view[c]}

\* One message for each container that changed, and then removalMessages: one
\* for the whole stack if every managed container of it went, else one each.
Messages(last, view) ==
    LET moved == Transitions(last, view)
        gone == {c \in moved : view[c] = "missing"}
        count == Cardinality({c \in Containers : view[c] # None})
    IN  {{c} : c \in moved \ gone} \cup
        IF Cardinality(gone) > 1 /\ Cardinality(gone) = count THEN {gone} ELSE {{c} : c \in gone}

Enter(k, last) ==
    /\ lastStatus' = last
    /\ statusBaseline' = TRUE
    /\ mu' = k
    /\ cast' = [cast EXCEPT ![k].pc = "announce", ![k].todo = Messages(last, cast[k].view)]

\* Mutant: the first listing after a start is recorded, not compared.
LockAfresh(k) ==
    /\ cast[k].pc = "note" /\ mu = None
    /\ Enter(k, IF statusBaseline THEN lastStatus ELSE Unseen)
    /\ UNCHANGED <<world, saved, history, bounds>>

\* The baseline is loaded by the first comparison of the process.
Lock(k) ==
    /\ cast[k].pc = "note" /\ mu = None
    /\ Enter(k, IF statusBaseline THEN lastStatus ELSE saved)
    /\ UNCHANGED <<world, saved, history, bounds>>

\* The baseline cannot be read: this listing announces nothing.
LoadFails(k) ==
    /\ cast[k].pc = "note" /\ mu = None /\ ~statusBaseline /\ Upset
    /\ cast' = [cast EXCEPT ![k] = Idle]
    /\ UNCHANGED <<world, memory, saved, mu, history, others, byHand>>

\* The messages of changes come before those of removals.
Announce(k, msg) ==
    /\ cast[k].pc = "announce" /\ msg \in cast[k].todo
    /\ (\E c \in msg : cast[k].view[c] = "missing") =>
           \A other \in cast[k].todo : \A c \in other : cast[k].view[c] = "missing"
    /\ cast' = [cast EXCEPT ![k].todo = @ \ {msg}]
    /\ told' = [c \in Containers |-> IF c \in msg THEN cast[k].view[c] ELSE told[c]]
    /\ doubt' = doubt \ msg
    /\ UNCHANGED <<world, memory, saved, mu, bounds>>

\* What the user is taken to know once a listing is the new baseline: what was
\* announced, or else the status a container was first recorded with.  An update
\* in flight reports its own outcome.
Heard(view) ==
    [c \in Containers |->
        IF view[c] \notin Plain THEN None ELSE IF told[c] = None THEN view[c] ELSE told[c]]

Leave(k) ==
    /\ mu' = None
    /\ cast' = [cast EXCEPT ![k] = Idle]
    /\ told' = Heard(cast[k].view)
    /\ doubt' = {c \in doubt : told'[c] = told[c]}

\* Mutant: sameStatuses compares the names only.
FinishSameNames(k) ==
    LET same == \A c \in Containers : (lastStatus[c] = None) <=> (cast[k].view[c] = None)
    IN  /\ cast[k].pc = "announce" /\ cast[k].todo = {}
        /\ lastStatus' = IF same THEN lastStatus ELSE cast[k].view
        /\ saved' = IF same THEN saved ELSE cast[k].view
        /\ Leave(k)
        /\ UNCHANGED <<world, statusBaseline, bounds>>

\* The listing becomes the baseline, in memory and in the database, if it differs.
Finish(k) ==
    /\ cast[k].pc = "announce" /\ cast[k].todo = {}
    /\ lastStatus' = cast[k].view
    /\ saved' = IF lastStatus = cast[k].view THEN saved ELSE cast[k].view
    /\ Leave(k)
    /\ UNCHANGED <<world, statusBaseline, bounds>>

SaveFails(k) ==
    /\ cast[k].pc = "announce" /\ cast[k].todo = {}
    /\ lastStatus # cast[k].view /\ Upset
    /\ lastStatus' = cast[k].view
    /\ Leave(k)
    /\ UNCHANGED <<world, statusBaseline, saved, others, byHand>>

-----------------------------------------------------------------------------
(* What happens around it.                                                 *)

\* External: a container crashes, is stopped, started or removed by hand.
HostChanges(c) ==
    /\ c \notin updating /\ Upset
    /\ \E state \in HostStates \ {host[c]} : host' = [host EXCEPT ![c] = state]
    /\ byHand' = TRUE
    /\ UNCHANGED <<managed, updating, memory, saved, cast, mu, history, others>>

\* The container is adopted, or forgotten.
AdoptOrForget(c) ==
    /\ Upset
    /\ managed' = (managed \ {c}) \cup ({c} \ managed)
    /\ byHand' = TRUE
    /\ UNCHANGED <<host, updating, memory, saved, cast, mu, history, others>>

\* jobWithID registers the job, and the update parks the old container: a listing
\* between the two reads as updating either way.
BeginUpdate(c) ==
    /\ c \in managed \ updating /\ host[c] # "gone" /\ Upset
    /\ updating' = updating \cup {c}
    /\ host' = [host EXCEPT ![c] = "gone"]
    /\ UNCHANGED <<managed, memory, saved, cast, mu, history, others, byHand>>

\* The new container, or the old one again, is up and the job is forgotten.
EndUpdate(c) ==
    /\ c \in updating
    /\ \E state \in HostStates \ {"gone"} : host' = [host EXCEPT ![c] = state]
    /\ updating' = updating \ {c}
    /\ UNCHANGED <<managed, memory, saved, cast, mu, history, bounds>>

\* Veery dies and starts again.  Recovery puts a parked container back before the
\* poller starts (module Update).
Crash ==
    /\ Upset
    /\ host' = [c \in Containers |-> IF c \in updating THEN "running" ELSE host[c]]
    /\ updating' = {}
    /\ lastStatus' = Unseen /\ statusBaseline' = FALSE
    /\ cast' = [k \in Casters |-> Idle]
    /\ mu' = None
    /\ doubt' = doubt \cup {c \in Containers :
           /\ told[c] \in Plain \ {saved[c]}
           /\ told[c] = lastStatus[c] \/ (mu # None /\ told[c] = cast[mu].view[c])}
    /\ UNCHANGED <<managed, saved, told, others, byHand>>

CasterStep(k) ==
    \/ ReadManaged(k)
    \/ ReadUpdating(k)
    \/ Lock(k)
    \/ LoadFails(k)
    \/ \E msg \in cast[k].todo : Announce(k, msg)
    \/ Finish(k)
    \/ SaveFails(k)

Next ==
    \/ \E k \in Casters : List(k) \/ CasterStep(k)
    \/ \E c \in Containers :
           HostChanges(c) \/ AdoptOrForget(c) \/ BeginUpdate(c) \/ EndUpdate(c)
    \/ Crash

Spec == Init /\ [][Next]_vars

\* pollStacks lists again at every interval and a call of BroadcastStacks runs
\* to its end; the mutex is handed on in turn (sync.Mutex does not starve); an
\* update ends (module Lifecycle, AllReturn).
Fairness ==
    /\ WF_vars(List(Poller))
    /\ \A k \in Casters : WF_vars(CasterStep(k)) /\ SF_vars(Lock(k))
    /\ \A c \in Containers : WF_vars(EndUpdate(c))

FairSpec == Spec /\ Fairness

-----------------------------------------------------------------------------
(* Properties.                                                             *)

Stages == [pc : {"idle", "managed", "updating", "note", "announce"}, host : [Containers -> HostStates],
          managed : SUBSET Containers, view : [Containers -> Opt(Status)], todo : SUBSET (SUBSET Containers)]

\* Every variable stays in its set, and exactly the goroutine that announces holds
\* statusMu (noteStatuses).
TypeOK ==
    /\ host \in [Containers -> HostStates]
    /\ managed \in SUBSET Containers /\ updating \in SUBSET Containers
    /\ lastStatus \in [Containers -> Opt(Status)] /\ statusBaseline \in BOOLEAN
    /\ saved \in [Containers -> Opt(Status)]
    /\ cast \in [Casters -> Stages]
    /\ {k \in Casters : cast[k].pc = "announce"} = {mu} \ {None}
    /\ told \in [Containers -> Opt(Plain)] /\ doubt \in SUBSET Containers

\* Every message tells the user something new, whichever goroutines compared their
\* listings in between and in whatever order; only what was announced and then
\* forgotten by a crash may be said again (noteStatuses: "Only transitions against
\* these are notified", store/notifications.go).
NothingRepeated ==
    \A k \in Casters : \A msg \in cast[k].todo : \A c \in msg :
        told[c] # cast[k].view[c] \/ c \in doubt

\* What the next comparison will be against.
Base == IF statusBaseline THEN lastStatus ELSE saved

\* Only the holder of statusMu has messages to send. They are about different
\* containers, each of which changed since the listing in lastStatus.
MessagesInv ==
    \A k \in Casters :
        /\ cast[k].pc # "announce" => cast[k].todo = {}
        /\ cast[k].pc = "announce" =>
               /\ statusBaseline
               /\ UNION cast[k].todo \subseteq Transitions(lastStatus, cast[k].view)
               /\ \A m, n \in cast[k].todo : m = n \/ m \cap n = {}

\* The containers whose message the holder of statusMu has sent.
Announced ==
    IF mu = None THEN {}
    ELSE Transitions(lastStatus, cast[mu].view) \ UNION cast[mu].todo

\* What the user last heard of a container is nothing or what the next listing is
\* compared with: neither a listing that was not saved nor a restart comes between
\* the two, save for what a crash forgot.
ToldInv ==
    \A c \in Containers \ doubt :
        IF c \in Announced THEN told[c] = cast[mu].view[c] ELSE told[c] \in {None, Base[c]}

\* NothingRepeated as an invariant that every step preserves.
StatusesInv == TypeOK /\ MessagesInv /\ ToldInv

\* Once the host is quiet, what the user last heard of a container is how it is: no
\* transition is swallowed by a listing taken earlier or by a restart, unless Veery
\* died between announcing it and saving it.  The status a container is first recorded
\* with, and the one it has after an update, which reports its own outcome, count as
\* heard (Heard); a message that was wrong when it was sent is made good by a later one.
LastWordTrue ==
    <>[](\A c \in managed \ doubt : told[c] = StatusIn(host, updating, c))

\* Without that exception: "a restart does not replay stale container statuses"
\* (store/notifications.go).  Fails when a container changes back while Veery,
\* killed between notifying and saving, is down.
LastWordAlways ==
    <>[](\A c \in managed : told[c] = StatusIn(host, updating, c))

\* "While its update is in flight that is expected, not a removal" (ListStacks):
\* no removal is announced of a container that only an update took away.  Fails:
\* the host is listed before the jobs are read, so an update that ends in between
\* leaves its parked container as missing.
NoFalseRemoval ==
    ~byHand => \A k \in Casters : \A msg \in cast[k].todo : \A c \in msg : cast[k].view[c] # "missing"
=============================================================================

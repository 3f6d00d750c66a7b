----------------------------- MODULE UpdateCheck -----------------------------
(***************************************************************************)
(* Update checks (internal/docker/updatecheck.go): the poller and the      *)
(* requests that ask the registries for newer images, the flags they keep  *)
(* in memory and in the database, and what else moves the flags: an update *)
(* (update.go), a container recreated by hand (reconcile.go, rerecord) and *)
(* a restart.                                                              *)
(*                                                                         *)
(* Abstractions.  The image of a container and the one its registry serves *)
(* are version numbers; they differ when no RepoDigest of the local image  *)
(* is the digest of the remote one.  A check ends with a stacks push       *)
(* (module Hub); its message is a row of module EventLog.                  *)
(***************************************************************************)
EXTENDS Naturals

CONSTANTS
    None,
    Containers,     \* the managed containers
    Poller,         \* UpdateCheckPoller
    Manual,         \* the requests that check on demand
    MaxVersion,     \* bound: the versions a registry publishes
    MaxUpdates,     \* bound: the updates that are applied
    MaxRecreates,   \* bound: recreations by hand
    MaxSwitches,    \* bound: how often auto-update is switched on or off
    MaxFaults,      \* bound: registry lookups that fail
    MaxCrashes      \* bound: how often Veery dies

Checkers == {Poller} \cup Manual
Bounds == [updates : 0..MaxUpdates, recreates : 0..MaxRecreates, switches : 0..MaxSwitches,
           faults : 0..MaxFaults, crashes : 0..MaxCrashes]

VARIABLES
    image,          \* the version each container runs
    remote,         \* the version the registry serves for it
    auto,           \* the containers that update by themselves
    updateAvail,    \* Manager.updateAvail
    availBaseline,  \* Manager.availBaseline
    availSaved,     \* the setting notify_last_update_available
    check,          \* the check each goroutine is in
    swapped,        \* containers an update replaced and whose flag it has yet to clear
    recreated,      \* containers recreated by hand and not recorded anew yet
    told,           \* history: containers whose pending update was announced
    left            \* what is left of each bound

images == <<image, remote, auto>>
flags == <<updateAvail, availBaseline, availSaved>>
vars == <<images, flags, check, swapped, recreated, told, left>>

Spend(what) == left[what] > 0 /\ left' = [left EXCEPT ![what] = @ - 1]

Down == [c \in Containers |-> FALSE]
Idle == [pc |-> "idle", todo |-> {}, auto |-> {}, of |-> None, digest |-> None, avail |-> FALSE,
         changed |-> FALSE, flags |-> Down]

Init ==
    /\ image = [c \in Containers |-> 0] /\ remote = [c \in Containers |-> 0]
    /\ auto = {}
    /\ updateAvail = Down /\ availBaseline = FALSE /\ availSaved = Down
    /\ check = [k \in Checkers |-> Idle]
    /\ swapped = {} /\ recreated = {}
    /\ told = {}
    /\ left = [updates |-> MaxUpdates, recreates |-> MaxRecreates, switches |-> MaxSwitches,
               faults |-> MaxFaults, crashes |-> MaxCrashes]

-----------------------------------------------------------------------------
(* checkUpdates.                                                           *)

\* The managed rows are read, with their auto-update switches, and the flags
\* that the last process saved are loaded, once (seedUpdateAvail).
BeginCheck(k, some) ==
    /\ check[k].pc = "idle" /\ some # {}
    /\ check' = [check EXCEPT ![k] = [Idle EXCEPT !.pc = "next", !.todo = some, !.auto = auto \cap some]]
    /\ updateAvail' = IF availBaseline THEN updateAvail ELSE availSaved
    /\ availBaseline' = TRUE
    /\ UNCHANGED <<images, availSaved, swapped, recreated, told, left>>

\* remoteHasNewImage asks the registry, and inspects the container after it.
DistributionInspect(k, c) ==
    /\ check[k].pc = "next" /\ c \in check[k].todo
    /\ check' = [check EXCEPT ![k].pc = "inspect", ![k].of = c, ![k].digest = remote[c]]
    /\ UNCHANGED <<images, flags, swapped, recreated, told, left>>

ContainerInspect(k) ==
    /\ check[k].pc = "inspect"
    /\ check' = [check EXCEPT ![k].pc = "compare", ![k].avail = (check[k].digest # image[check[k].of])]
    /\ UNCHANGED <<images, flags, swapped, recreated, told, left>>

\* The registry, or Docker, does not answer: unknown counts as no update.
LookupFails(k, c) ==
    /\ check[k].pc = "next" /\ c \in check[k].todo /\ Spend("faults")
    /\ check' = [check EXCEPT ![k].pc = "compare", ![k].of = c, ![k].avail = FALSE]
    /\ UNCHANGED <<images, flags, swapped, recreated, told>>

\* A flag that rises is announced, unless the row read at the start says that the
\* container updates by itself.
Compare(k) ==
    LET c == check[k].of
        differs == updateAvail[c] # check[k].avail
    IN  /\ check[k].pc = "compare"
        /\ check' = [check EXCEPT ![k].pc = "set", ![k].changed = @ \/ differs]
        /\ told' = IF differs /\ check[k].avail /\ c \notin check[k].auto THEN told \cup {c} ELSE told
        /\ UNCHANGED <<images, flags, swapped, recreated, left>>

SetUpdateAvailable(k) ==
    /\ check[k].pc = "set"
    /\ updateAvail' = [updateAvail EXCEPT ![check[k].of] = check[k].avail]
    /\ check' = [check EXCEPT ![k].pc = "next", ![k].todo = @ \ {check[k].of}]
    /\ UNCHANGED <<images, availBaseline, availSaved, swapped, recreated, told, left>>

\* persistUpdateAvail copies the flags under the lock and saves the copy after it.
EndCheck(k) ==
    /\ check[k].pc = "next" /\ check[k].todo = {}
    /\ check' = [check EXCEPT ![k] =
           IF check[k].changed THEN [Idle EXCEPT !.pc = "save", !.flags = updateAvail] ELSE Idle]
    /\ UNCHANGED <<images, flags, swapped, recreated, told, left>>

SaveNotifiedUpdates(k) ==
    /\ check[k].pc = "save"
    /\ availSaved' = check[k].flags
    /\ check' = [check EXCEPT ![k] = Idle]
    /\ UNCHANGED <<images, updateAvail, availBaseline, swapped, recreated, told, left>>

-----------------------------------------------------------------------------
(* What moves the images and the flags meanwhile.                          *)

\* External: a newer image is published.
Publish(c) ==
    /\ remote[c] < MaxVersion
    /\ remote' = [remote EXCEPT ![c] = @ + 1]
    /\ UNCHANGED <<image, auto, flags, check, swapped, recreated, told, left>>

\* swap puts a container of the pulled image in place; what is announced from now
\* on is about the next update.
UpdateLands(c) ==
    /\ image[c] # remote[c] /\ Spend("updates")
    /\ image' = [image EXCEPT ![c] = remote[c]]
    /\ swapped' = swapped \cup {c}
    /\ told' = told \ {c}
    /\ UNCHANGED <<remote, auto, flags, check, recreated>>

\* External: the container is recreated by hand from another image.
RecreateByHand(c) ==
    /\ Spend("recreates")
    /\ \E v \in 0..remote[c] : v # image[c] /\ image' = [image EXCEPT ![c] = v]
    /\ recreated' = recreated \cup {c}
    /\ told' = told \ {c}
    /\ UNCHANGED <<remote, auto, flags, check, swapped>>

\* swap clears the flag, in memory.
ClearFlag(c) ==
    /\ c \in swapped
    /\ swapped' = swapped \ {c}
    /\ updateAvail' = [updateAvail EXCEPT ![c] = FALSE]
    /\ UNCHANGED <<images, availBaseline, availSaved, check, recreated, told, left>>

\* rerecord sets the flag, in memory, and announces nothing.
Rerecord(c) ==
    /\ c \in recreated
    /\ recreated' = recreated \ {c}
    /\ updateAvail' = [updateAvail EXCEPT ![c] = (image[c] # remote[c])]
    /\ UNCHANGED <<images, availBaseline, availSaved, check, swapped, told, left>>

\* The user takes over what updates by itself, or hands it back.
SetAutoUpdate(c) ==
    /\ Spend("switches")
    /\ auto' = (auto \ {c}) \cup ({c} \ auto)
    /\ UNCHANGED <<image, remote, flags, check, swapped, recreated, told>>

\* Veery dies and starts again.
Crash ==
    /\ Spend("crashes")
    /\ updateAvail' = Down /\ availBaseline' = FALSE
    /\ check' = [k \in Checkers |-> Idle]
    /\ swapped' = {}
    /\ UNCHANGED <<images, availSaved, recreated, told>>

CheckStep(k) ==
    \/ \E c \in check[k].todo : DistributionInspect(k, c)
    \/ ContainerInspect(k)
    \/ Compare(k)
    \/ SetUpdateAvailable(k)
    \/ EndCheck(k)
    \/ SaveNotifiedUpdates(k)

Next ==
    \/ \E k \in Checkers :
        \/ \E some \in SUBSET Containers : BeginCheck(k, some)
        \/ CheckStep(k)
        \/ \E c \in check[k].todo : LookupFails(k, c)
    \/ \E c \in Containers :
        Publish(c) \/ UpdateLands(c) \/ RecreateByHand(c) \/ ClearFlag(c) \/ Rerecord(c) \/ SetAutoUpdate(c)
    \/ Crash

\* The poller checks every managed container at every interval, a check runs to
\* its end, and so does an update or a reconcile sweep.
Fairness ==
    /\ WF_vars(BeginCheck(Poller, Containers))
    /\ \A k \in Checkers : WF_vars(CheckStep(k))
    /\ \A c \in Containers : WF_vars(ClearFlag(c)) /\ WF_vars(Rerecord(c))

Spec == Init /\ [][Next]_vars /\ Fairness

-----------------------------------------------------------------------------
(* Properties.                                                             *)

\* The flag the user sees ends up right, whichever checks, updates and restarts
\* raced over it.
FlagConverges == <>[](\A c \in Containers : updateAvail[c] = (image[c] # remote[c]))

\* An update that stays available for a container that does not update by itself
\* has been announced: checkUpdates fires "a notification for each that newly
\* gained one (unless it auto-updates)".
UpdateAnnounced ==
    <>[](\A c \in Containers \ auto : image[c] # remote[c] => c \in told)
=============================================================================

----------------------------- MODULE Lifecycle -----------------------------
(***************************************************************************)
(* The lifecycle actions (docker/actions.go, lifecycle.go, jobs.go), the   *)
(* bring-up of a stack and the sweep's rerecord, composed with the updates *)
(* and the recovery of Update: they share the daemon's containers, the     *)
(* record of the service and the container locks (client.go).              *)
(*                                                                         *)
(* An action on one container finds out the container's name and takes the *)
(* lock of that name, rerecord tries the lock, and the actions on a stack  *)
(* take none. The stack is a compose project, so its containers are the    *)
(* service's and, in a swap, the parked one.                               *)
(*                                                                         *)
(* A container told to stop may be up for a while yet; the timeout of      *)
(* awaitNotRunning may strike at any time. Each actor does one thing.      *)
(***************************************************************************)
EXTENDS Update

CONSTANTS Actors        \* the goroutines of the actions, and the sweep

ASSUME ActorsAssumption == Actors \cap (Jobs \cup {None}) = {}

VARIABLES
    act,        \* the actors: program counter and locals
    locks,      \* the container locks of the other names
    stopping    \* containers that were told to stop and are still up

lifeVars == <<act, locks, stopping>>
allVars == <<vars, lifeVars>>

Kinds == {"start", "stop", "restart"}
Keys == {"svc", "old"} \cup CID

NoAct == [pc |-> "idle", kind |-> "none", ref |-> None, key |-> None, todo |-> {}, mc |-> None]

LInit ==
    /\ Init
    /\ act = [a \in Actors |-> NoAct]
    /\ locks = [k \in Keys \ {"svc"} |-> None]
    /\ stopping = {}

-----------------------------------------------------------------------------
Is(a, l) == act[a].pc = l
Set(a, r) == act' = [act EXCEPT ![a] = r]
To(a, l) == act' = [act EXCEPT ![a].pc = l]

\* What the steps below leave alone of Update's state, but for the containers.
rest == <<localTag, remoteTag, job, row, active, procVars, budget>>
quiet == <<rest, trusted, taken>>
Still == UNCHANGED <<quiet, ctr, rec, stopping>>
NoLocks == UNCHANGED <<lock, locks>>

\* The container an id or a name leads to.
Live == {c \in CID : Exists(ctr, c)}
Named(ref) == IF ref = "svc" THEN Holder(ctr, "svc") ELSE {c \in {ref} : Exists(ctr, c)}

\* StartJob, StopJob, RestartJob: the id of a container, or the service's name.
Request(a, kind, ref) ==
    /\ proc = "serving" /\ Is(a, "idle")
    /\ Set(a, [NoAct EXCEPT !.pc = "resolve", !.kind = kind, !.ref = ref])
    /\ Still /\ NoLocks

\* withContainerLock: whose lock? If the inspect fails, the reference is the key.
Resolve(a) ==
    /\ Is(a, "resolve")
    /\ \/ \E c \in Named(act[a].ref) :
            act' = [act EXCEPT ![a].pc = "lock", ![a].key = ctr[c].name]
       \/ /\ Named(act[a].ref) = {} \/ MayFail("inspect")
          /\ act' = [act EXCEPT ![a].pc = "lock", ![a].key = act[a].ref]
    /\ Still /\ NoLocks

FreeKey(k) == IF k = "svc" THEN lock = None ELSE locks[k] = None
HoldKey(k, v) == IF k = "svc" THEN lock' = v /\ UNCHANGED locks
                 ELSE locks' = [locks EXCEPT ![k] = v] /\ UNCHANGED lock

TakeLock(a) ==
    /\ Is(a, "lock") /\ FreeKey(act[a].key)
    /\ HoldKey(act[a].key, a)
    /\ To(a, "act")
    /\ Still

ReleaseLock(a) ==
    /\ Is(a, "unlock")
    /\ HoldKey(act[a].key, None)
    /\ To(a, "done")
    /\ Still

\* ContainerStart, ContainerStop and ContainerRestart of one container.
Call(kind, c) ==
    CASE kind = "start" -> ctr' = StartC(ctr, c) /\ UNCHANGED stopping
      [] kind = "stop" -> /\ stopping' = stopping \cup {d \in {c} : ctr[d].state \in Up}
                          /\ UNCHANGED ctr
      [] kind = "restart" -> ctr' = SetState(ctr, c, "running") /\ stopping' = stopping \ {c}

\* Start, Stop and Restart under the lock.
Act(a) ==
    /\ Is(a, "act")
    /\ \/ \E c \in Named(act[a].ref) :
            /\ Call(act[a].kind, c)
            /\ To(a, IF act[a].kind = "stop" THEN "await" ELSE "unlock")
       \/ /\ Named(act[a].ref) = {} \/ MayFail(act[a].kind)
          /\ To(a, "unlock")
          /\ UNCHANGED <<ctr, stopping>>
    /\ UNCHANGED <<quiet, rec>> /\ NoLocks

Waited(C) == \A c \in C : ctr[c].state \notin Up

\* Mutant: the wait has no timeout.
AwaitForever(a) ==
    /\ Is(a, "await") /\ Waited(Named(act[a].ref))
    /\ To(a, "unlock")
    /\ Still /\ NoLocks

\* awaitNotRunning: the container is down, or gone, or 30 seconds have passed.
Await(a) ==
    /\ Is(a, "await")
    /\ To(a, "unlock")
    /\ Still /\ NoLocks

-----------------------------------------------------------------------------
(* The actions on a stack                                                  *)

RequestStack(a, kind) ==
    /\ proc = "serving" /\ Is(a, "idle")
    /\ Set(a, [NoAct EXCEPT !.pc = "list", !.kind = kind])
    /\ Still /\ NoLocks

\* containerIDsInStack.
ListStack(a) ==
    /\ Is(a, "list")
    /\ \/ act' = [act EXCEPT ![a].pc = "each", ![a].todo = Live]
       \/ MayFail("list") /\ To(a, "done")
    /\ Still /\ NoLocks

\* StartStack, StopStack, RestartStack: the first error ends the loop.
Each(a) ==
    /\ Is(a, "each")
    /\ \/ \E c \in act[a].todo :
            \/ /\ Exists(ctr, c)
               /\ Call(act[a].kind, c)
               /\ act' = [act EXCEPT ![a].todo = @ \ {c}, ![a].ref = c,
                             ![a].pc = IF act[a].kind = "stop" THEN "awaiteach" ELSE "each"]
            \/ /\ ~Exists(ctr, c) \/ MayFail(act[a].kind)
               /\ To(a, "done")
               /\ UNCHANGED <<ctr, stopping>>
       \/ act[a].todo = {} /\ To(a, "done") /\ UNCHANGED <<ctr, stopping>>
    /\ UNCHANGED <<quiet, rec>> /\ NoLocks

\* Stop in StopStack: a container that does not go down in time ends the loop.
AwaitEach(a) ==
    /\ Is(a, "awaiteach")
    /\ To(a, IF Waited(Named(act[a].ref)) THEN "each" ELSE "done")
    /\ Still /\ NoLocks

\* BringUpStack: ManagedByStack.
BringUp(a) ==
    /\ proc = "serving" /\ Is(a, "idle")
    /\ Set(a, [NoAct EXCEPT !.pc = "look", !.kind = "bringup", !.mc = rec])
    /\ Still /\ NoLocks

\* A container that cannot be inspected counts as missing.
BringUpLook(a) ==
    /\ Is(a, "look")
    /\ \/ \E c \in Holder(ctr, "svc") :
            IF ctr[c].state \in Up THEN To(a, "done")
            ELSE act' = [act EXCEPT ![a].pc = "bstart", ![a].ref = c]
       \/ (Holder(ctr, "svc") = {} \/ MayFail("inspect")) /\ To(a, "bcreate")
    /\ Still /\ NoLocks

\* recreate, on the image the reference resolves to now: nobody verifies it, so it
\* counts as made by the user, like one made with compose.
BringUpCreate(a) ==
    /\ Is(a, "bcreate")
    /\ \/ /\ Holder(ctr, "svc") = {}
          /\ \E c \in Fresh :
               /\ ctr' = CreateC(ctr, c, "svc", localTag, act[a].mc.spec)
               /\ trusted' = trusted \cup {c}
               /\ act' = [act EXCEPT ![a].pc = "bstartnew", ![a].ref = c]
       \/ /\ Holder(ctr, "svc") # {} \/ MayFail("create")
          /\ To(a, "done") /\ UNCHANGED <<ctr, trusted>>
    /\ UNCHANGED <<rest, rec, stopping, taken>> /\ NoLocks

\* The start of a container that was made anew, or that was stopped.
BringUpStart(a) ==
    /\ Is(a, "bstart") \/ Is(a, "bstartnew")
    /\ \/ /\ Exists(ctr, act[a].ref)
          /\ ctr' = StartC(ctr, act[a].ref)
          /\ To(a, IF Is(a, "bstartnew") THEN "brecord" ELSE "done")
       \/ /\ ~Exists(ctr, act[a].ref) \/ MayFail("start")
          /\ To(a, "done") /\ UNCHANGED ctr
    /\ UNCHANGED <<quiet, rec, stopping>> /\ NoLocks

\* Mutant: the record as it is now, with the new container's id.
BringUpRecordId(a) ==
    /\ Is(a, "brecord")
    /\ rec' = [rec EXCEPT !.cid = act[a].ref]
    /\ To(a, "done")
    /\ UNCHANGED <<quiet, ctr, stopping>> /\ NoLocks

\* UpdateSnapshot: the spec that was read, and the container made from it.
BringUpRecord(a) ==
    /\ Is(a, "brecord")
    /\ rec' = [act[a].mc EXCEPT !.cid = act[a].ref]
    /\ To(a, "done")
    /\ UNCHANGED <<quiet, ctr, stopping>> /\ NoLocks

-----------------------------------------------------------------------------
(* The sweep, where it finds another container than the recorded one       *)

Sweep(a) ==
    /\ proc = "serving" /\ Is(a, "idle")
    /\ \E c \in Holder(ctr, "svc") \ {rec.cid} :
         Set(a, [NoAct EXCEPT !.pc = "trylock", !.kind = "rerecord", !.ref = c, !.key = "svc"])
    /\ Still /\ NoLocks

\* Mutant: the sweep does not ask for the lock.
TryLockNever(a) ==
    /\ Is(a, "trylock")
    /\ To(a, "reread")
    /\ Still /\ NoLocks

TryLock(a) ==
    /\ Is(a, "trylock")
    /\ IF lock = None THEN lock' = a /\ To(a, "reread") ELSE To(a, "done") /\ UNCHANGED lock
    /\ Still /\ UNCHANGED locks

\* settled: up and healthy, or not running without having crashed.
Settled(c) ==
    IF ctr[c].state \in Up \ {"restarting"}
    THEN IF Healthcheck THEN ctr[c].state = "healthy" ELSE TRUE
    ELSE ctr[c].state \in {"created", "stopped"}

\* rerecord: the row again, then the container, by its id.
Reread(a) ==
    /\ Is(a, "reread")
    /\ \/ rec.cid # act[a].ref /\ To(a, "inspect")
       \/ rec.cid = act[a].ref /\ To(a, "unlock")
    /\ Still /\ NoLocks

ReInspect(a) ==
    /\ Is(a, "inspect")
    /\ LET c == act[a].ref IN
         \/ /\ Exists(ctr, c) /\ Settled(c)
            /\ act' = [act EXCEPT ![a].pc = "record", ![a].mc = Spec_of(c)]
            /\ Rely(c)
         \/ /\ ~Exists(ctr, c) \/ ~Settled(c) \/ MayFail("inspect")
            /\ To(a, "unlock")
            /\ UNCHANGED <<trusted, taken>>
    /\ UNCHANGED <<rest, ctr, rec, stopping>> /\ NoLocks

Rerecord(a) ==
    /\ Is(a, "record")
    /\ rec' = act[a].mc
    /\ To(a, "unlock")
    /\ UNCHANGED <<quiet, ctr, stopping>> /\ NoLocks

-----------------------------------------------------------------------------
ActorStep(a) ==
    \/ Resolve(a) \/ TakeLock(a) \/ Act(a) \/ Await(a) \/ ReleaseLock(a)
    \/ ListStack(a) \/ Each(a) \/ AwaitEach(a)
    \/ BringUpLook(a) \/ BringUpCreate(a) \/ BringUpStart(a) \/ BringUpRecord(a)
    \/ TryLock(a) \/ Reread(a) \/ ReInspect(a) \/ Rerecord(a)

Ask(a) ==
    \/ \E k \in Kinds : RequestStack(a, k) \/ \E r \in Live \cup {"svc"} : Request(a, k, r)
    \/ BringUp(a) \/ Sweep(a)

\* A container goes down, in time or killed.
Stopped(c) ==
    /\ c \in stopping
    /\ \E s \in {"stopped", "crashed"} : ctr' = SetState(ctr, c, s)
    /\ stopping' = stopping \ {c}
    /\ UNCHANGED <<quiet, rec, act>> /\ NoLocks

\* A step of Update beside the actors; a crash takes them along.
Stay == UNCHANGED <<act, locks>> /\ stopping' = {c \in stopping : ctr'[c].state \in Up}
Beside ==
    \/ (\E j \in Jobs : Update(j) \/ JobStep(j)) /\ Stay
    \/ (Restart \/ RecoverStep \/ Publish) /\ Stay
    \/ (\E c \in CID : ContainerDrift(c)) /\ Stay
    \/ (\E c \in CID, s \in Specs : UserRecreate(c, s)) /\ Stay

Die ==
    /\ Crash
    /\ act' = [a \in Actors |-> [act[a] EXCEPT !.pc = IF @ \in {"idle", "done"} THEN @ ELSE "dead"]]
    /\ locks' = [k \in Keys \ {"svc"} |-> None]
    /\ UNCHANGED stopping

LNext ==
    \/ \E a \in Actors : Ask(a) \/ ActorStep(a)
    \/ \E c \in CID : Stopped(c)
    \/ Beside \/ Die

LSpec == LInit /\ [][LNext]_allVars

\* As in Update, and the actors' goroutines run; nothing makes a container stop.
LFairSpec ==
    /\ LSpec
    /\ \A a \in Actors : WF_allVars(ActorStep(a))
    /\ \A j \in Jobs : WF_allVars(JobStep(j) /\ Stay)
    /\ WF_allVars(Restart /\ Stay) /\ WF_allVars(RecoverStep /\ Stay)

-----------------------------------------------------------------------------
(* Properties.                                                             *)

Pcs == {"idle", "resolve", "lock", "act", "await", "unlock", "done", "dead", "list", "each",
        "awaiteach", "look", "bcreate", "bstart", "bstartnew", "brecord",
        "trylock", "reread", "inspect", "record"}

Actor == [pc : Pcs, kind : Kinds \cup {"none", "bringup", "rerecord"}, ref : CID \cup {"svc", None},
          key : Opt(Keys), todo : SUBSET CID, mc : Opt(Record)]

\* Where an actor acts under a lock.
Held == {"act", "await", "unlock", "reread", "inspect", "record"}

\* The type of the actors, and a lock is held by exactly those who act under it.
LTypeOK ==
    /\ act \in [Actors -> Actor]
    /\ lock \in Opt(Jobs \cup Actors) /\ locks \in [Keys \ {"svc"} -> Opt(Actors)]
    /\ \A a \in Actors :
          act[a].pc \in Held <=> (lock = a \/ \E k \in Keys \ {"svc"} : locks[k] = a)

\* The record never names a replacement that an update has still to verify: the
\* sweep cannot make an unproved container the one to fall back on (TryLock in
\* rerecord).
RecordNotTentative ==
    \A j \in Jobs : job[j].pc \in {"start", "verify", "rbremove"} => job[j].new # rec.cid

\* A bring-up takes no lock and may take the name while the container that had it
\* is parked. No unproved replacement keeps the name all the same
\* (NameHeldByVerified), the record stays one container's id and spec
\* (RecordVerified) and a replacement has the spec of what it replaces
\* (UpdateKeepsSpec); but what is parked may be left behind.
NoBringUp == \A a \in Actors : act[a].kind # "bringup"

\* No other action leaves a container parked, whatever it starts, stops or restarts
\* in the middle of a swap, or keeps the name from coming back.
NothingParked == NoBringUp => NoLeftoverParked
NameComesBack == []NoBringUp => NameRestored

\* Every action that was begun and every update comes to its end, though locks
\* are waited for and a container may refuse to stop (awaitStopTimeout).
AllReturn ==
    /\ \A a \in Actors : act[a].pc # "idle" ~> act[a].pc \in {"done", "dead"}
    /\ JobsFinish

\* "so updates, auto-updates and lifecycle actions never act on the same container
\* concurrently" (client.go): no action changes a container that an update is
\* swapping. This FAILS.
NeverTogether ==
    [][\A a \in Actors, j \in Jobs, c \in CID :
          (act'[a] # act[a] /\ ctr'[c] # ctr[c] /\ job[j].pc \in Body) =>
             c \notin {job[j].old, job[j].new}]_allVars

-----------------------------------------------------------------------------
(* The inductive invariants behind the proofs (UpdateProofs).              *)

\* An actor's locals are there when it uses them.
ActorOK(A) ==
    /\ A \in Actor
    /\ A.pc = "idle" => A.kind = "none"
    /\ A.pc \in {"look", "bcreate", "bstart", "bstartnew", "brecord"} => A.kind = "bringup"
    /\ A.pc \in {"resolve", "lock", "act", "list", "each", "awaiteach"} => A.kind \in Kinds
    /\ A.pc \in {"resolve", "lock", "act"} => A.ref \in CID \cup {"svc"}
    /\ A.pc \in {"lock"} \cup Held => A.key \in Keys
    /\ A.pc \in {"trylock", "reread", "inspect", "record"} => A.ref \in CID /\ A.key = "svc"
    /\ A.pc \in {"bstart", "bstartnew", "brecord"} => A.ref \in CID
    /\ A.pc \in {"look", "bcreate", "bstartnew", "brecord", "record"} => A.mc \in Record

\* An actor holds the lock of its key while it acts under it, and no other; only a
\* serving process has actors.
HeldInv ==
    \A a \in Actors :
        /\ lock = a <=> act[a].pc \in Held /\ act[a].key = "svc"
        /\ \A k \in Keys \ {"svc"} : locks[k] = a <=> act[a].pc \in Held /\ act[a].key = k
        /\ act[a].pc \notin {"idle", "done", "dead"} => proc = "serving"

\* This much holds whichever calls fail.
ActorInv ==
    /\ TypeInv
    /\ LockInv
    /\ act \in [Actors -> Actor] /\ \A a \in Actors : ActorOK(act[a])
    /\ lock \in Opt(Jobs \cup Actors) /\ locks \in [Keys \ {"svc"} -> Opt(Actors)]
    /\ HeldInv
    /\ \A c \in stopping : c \in CID /\ ctr[c].state \in Up

\* A replacement that is not proved yet is one that nobody made trusted.
Untried ==
    \A j \in Jobs : job[j].pc \in {"start", "verify", "rbremove"} =>
        /\ job[j].new \notin trusted
        /\ job[j].new # None => ctr[job[j].new].state # "unused"

\* What an actor is about to record is a trusted container's id and spec.
RecordingOf(A) ==
    /\ A.pc \in {"bstartnew", "brecord"} => A.ref \in trusted /\ A.mc.spec = ctr[A.ref].spec
    /\ A.pc = "record" => A.mc.cid \in trusted /\ A.mc.spec = ctr[A.mc.cid].spec

\* Update's invariant survives the actors, if removing does not fail.
LifeInv ==
    /\ ActorInv
    /\ IndInv
    /\ Untried
    /\ \A a \in Actors : RecordingOf(act[a])

\* Where the containers are in the course of a swap that no failing call, user or
\* bring-up disturbs.
Undisturbed == Faults = {} /\ MaxRecreates = 0

PlacesInv ==
    /\ \A c, d \in Holder(ctr, "old") : c = d
    /\ \A j \in Jobs :
          /\ job[j].pc = "park" => Holder(ctr, "old") = {}
          /\ job[j].pc \in {"stop", "create", "rbrename"} => Holder(ctr, "svc") = {}
          /\ job[j].pc \in {"start", "verify", "rbremove"} => Holder(ctr, "svc") \subseteq {job[j].new}
    /\ proc \in {"rename", "rbrename"} => Holder(ctr, "svc") = {}
    /\ proc \in {"verify", "rbremove"} => Holder(ctr, "svc") \subseteq {found.fresh}
    /\ proc \in {"restart", "rbstart"} => Holder(ctr, "old") = {}
    /\ NoLeftoverParked
=============================================================================

------------------------------- MODULE Update -------------------------------
(***************************************************************************)
(* The in-process update of a managed container (internal/docker/update.go)*)
(* and the recovery that runs when Veery starts again (recover.go), for    *)
(* one managed service.                                                    *)
(*                                                                         *)
(* An update is a job: a goroutine that takes the container's lock, pulls  *)
(* the image, parks the running container under a second name, creates the *)
(* replacement from the stored snapshot, watches it come up and then either*)
(* drops the parked container or restores it.  Every call to the daemon is *)
(* a step of its own, so other jobs, the user, the containers themselves   *)
(* and a crash of Veery come in between.                                   *)
(*                                                                         *)
(* Abstractions.                                                           *)
(*  - Database writes do not fail; each is a step.                         *)
(*  - The text of progress messages is dropped; a job row keeps its verdict*)
(*    only, and a failure keeps the three kinds rolledBack() tells apart.  *)
(*  - One image reference per service: localTag is what the daemon resolves*)
(*    it to, remoteTag what the registry does.                             *)
(*  - The 15s verify window may close at any poll.                         *)
(*  - Updating Veery's own container (handOff) is not in this module.      *)
(***************************************************************************)
EXTENDS Docker, Naturals

CONSTANTS
    Jobs,           \* update jobs, requested from the API or by auto-update
    InitImage,      \* the image the service runs at first
    InitStates,     \* the states its container may be in at first
    MaxCrashes,     \* bound: how often Veery crashes
    MaxRecreates    \* bound: how often the user recreates the container

ASSUME InitAssumption ==
    /\ InitImage \in Good
    /\ InitStates \subseteq {"running", "stopped"}
    /\ None \notin Jobs
    /\ MaxCrashes \in Nat
    /\ MaxRecreates \in Nat

VARIABLES
    ctr,        \* the daemon's containers
    localTag,   \* image id the reference resolves to locally
    remoteTag,  \* image id the registry serves for it
    rec,        \* the managed_containers row: container id and snapshot
    lock,       \* containerLock(name): its holder, or None
    job,        \* the job goroutines: program counter and locals
    row,        \* update_jobs: the verdict of each job
    active,     \* Manager.activeJobs
    proc,       \* where the Veery process is: down, starting up, serving
    found,      \* what reconcileParked listed: the parked and the fresh id
    budget,     \* crashes and user recreations left (bounds of the model)
    passed,     \* history: the last Recover passed over a parked container
    trusted,    \* history: containers that came up, that the user made, or taken
    taken       \* history: unproved containers that Recover passed over and that an
                \* update or the sweep then took for the service's own

dockerVars == <<ctr, localTag, remoteTag>>
jobVars    == <<lock, job, row, active>>
procVars   == <<proc, found, passed>>
vars == <<ctr, localTag, remoteTag, rec, lock, job, row, active, proc, found,
          passed, budget, trusted, taken>>

Opt(S) == S \cup {None}

\* The managed_containers row: the container it was taken from, and its spec.
Record == [cid : CID, spec : Specs]

\* Program counters of a job.  From "park" to "rbstart" is swap and rollback.
Body == {"inspect", "pull", "clear", "park", "stop", "create", "start", "verify",
         "drop", "record", "rbremove", "rbrename", "rbstart"}
Labels == {"idle", "lock", "unlock", "finish", "forget", "done", "dead"} \cup Body

\* "failed": the update stopped before, or in, parking; "rolledback" and
\* "down" are the two outcomes of rolledBack().
Failures == {"failed", "rolledback", "down"}
Verdicts == {"none", "active", "updated", "uptodate"} \cup Failures

Locals == [pc : Labels, mc : Record, old : Opt(CID), seen : States,
           new : Opt(CID), verdict : Verdicts]

\* Where the process is.  The values between "down" and "serving" are Recover.
Recovering == {"list", "rename", "restart", "verify", "drop",
               "rbremove", "rbrename", "rbstart", "resume"}

Init ==
    /\ \E c \in CID, s \in Specs, st \in InitStates :
        /\ ctr = [d \in CID |->
              [name |-> "svc", image |-> InitImage, spec |-> s,
               state |-> IF d = c THEN st ELSE "unused"]]
        /\ rec = [cid |-> c, spec |-> s]
        /\ trusted = {c}
        /\ job = [j \in Jobs |-> [pc |-> "idle", mc |-> rec, old |-> None,
                     seen |-> "unused", new |-> None, verdict |-> "none"]]
    /\ localTag = InitImage
    /\ remoteTag = InitImage
    /\ lock = None
    /\ row = [j \in Jobs |-> "none"]
    /\ active = {}
    /\ proc = "serving"
    /\ found = [parked |-> None, fresh |-> None]
    /\ passed = FALSE /\ taken = {}
    /\ budget = [crashes |-> MaxCrashes, recreates |-> MaxRecreates]

-----------------------------------------------------------------------------
(* Steps of a job.                                                         *)

At(j, l) == job[j].pc = l
Goto(j, l) == job' = [job EXCEPT ![j].pc = l]

\* The job's function returns: the deferred Unlock is next.
Return(j, v) == job' = [job EXCEPT ![j].pc = "unlock", ![j].verdict = v]

\* Update: load the record, insert the job row, announce the job.
Update(j) ==
    /\ proc = "serving"
    /\ At(j, "idle")
    /\ row' = [row EXCEPT ![j] = "active"]
    /\ active' = active \cup {j}
    /\ job' = [job EXCEPT ![j].pc = "lock", ![j].mc = rec]
    /\ UNCHANGED <<dockerVars, rec, lock, procVars, budget, trusted, taken>>

\* Mutant: the goroutine does not wait for the lock.
LockWithoutWaiting(j) ==
    /\ At(j, "lock")
    /\ lock' = j
    /\ Goto(j, "inspect")
    /\ UNCHANGED <<dockerVars, rec, row, active, procVars, budget, trusted, taken>>

\* doUpdate: lock.Lock().
Lock(j) ==
    /\ At(j, "lock")
    /\ lock = None
    /\ lock' = j
    /\ Goto(j, "inspect")
    /\ UNCHANGED <<dockerVars, rec, row, active, procVars, budget,
                   trusted, taken>>

\* recordSpec: snapshot a container and store it under its id.
Spec_of(c) == [cid |-> c, spec |-> ctr[c].spec]

\* Mutant: a recreated container is not noticed.
RefreshNever(mc, c) == mc

\* refreshIfRecreated: the record a recreate is built from.
RefreshIfRecreated(mc, c) == IF c # mc.cid THEN Spec_of(c) ELSE mc

\* (history) Whoever inspects the service's container from here on relies on it.
\* After a Recover that passed it over it may be one that never came up.
Rely(c) == IF passed THEN trusted' = trusted \cup {c} /\ taken' = taken \cup ({c} \ trusted)
           ELSE UNCHANGED <<trusted, taken>>

\* doUpdate: inspect the container and refresh its record.
Inspect(j) ==
    /\ At(j, "inspect")
    /\ \/ \E c \in Holder(ctr, "svc") :
            LET mc == RefreshIfRecreated(job[j].mc, c) IN
            /\ job' = [job EXCEPT ![j].pc = "pull", ![j].mc = mc, ![j].old = c,
                                  ![j].seen = ctr[c].state]
            /\ rec' = IF c # job[j].mc.cid THEN mc ELSE rec
            /\ Rely(c)
       \/ /\ Holder(ctr, "svc") = {} \/ MayFail("inspect")
          /\ Return(j, "failed")
          /\ UNCHANGED <<rec, trusted, taken>>
    /\ UNCHANGED <<dockerVars, lock, row, active, procVars, budget>>

\* pullImage, and doUpdate's test whether the image is newer than the one the
\* container was inspected with.
Pull(j) ==
    /\ At(j, "pull")
    /\ \/ /\ localTag' = remoteTag
          /\ IF remoteTag = ctr[job[j].old].image
             THEN Return(j, "uptodate")
             ELSE Goto(j, "clear")
       \/ /\ MayFail("pull")
          /\ Return(j, "failed")
          /\ UNCHANGED localTag
    /\ UNCHANGED <<ctr, remoteTag, rec, lock, row, active, procVars, budget, trusted, taken>>

\* swap: clear any leftover parked container (an error is ignored).
ClearParked(j) ==
    /\ At(j, "clear")
    /\ \/ ctr' = RemoveC(ctr, Holder(ctr, "old")) /\ passed' = FALSE
       \/ MayFail("remove") /\ UNCHANGED <<ctr, passed>>
    /\ Goto(j, "park")
    /\ UNCHANGED <<localTag, remoteTag, rec, lock, row, active, proc, found, budget, trusted, taken>>

\* A rename needs the container and a free name.
CanRename(c, n) == Exists(ctr, c) /\ Holder(ctr, n) = {}

\* swap: rename the old container out of the way.
Park(j) ==
    /\ At(j, "park")
    /\ \/ /\ CanRename(job[j].old, "old")
          /\ ctr' = RenameC(ctr, job[j].old, "old")
          /\ Goto(j, "stop")
       \/ /\ ~CanRename(job[j].old, "old") \/ MayFail("rename")
          /\ Return(j, "failed")
          /\ UNCHANGED ctr
    /\ UNCHANGED <<localTag, remoteTag, rec, lock, row, active, procVars, budget, trusted, taken>>

\* swap: stop it if it was running when it was inspected (an error is ignored).
StopOld(j) ==
    /\ At(j, "stop")
    /\ \/ /\ job[j].seen \in Up /\ Exists(ctr, job[j].old)
          /\ ctr' = SetState(ctr, job[j].old, "stopped")
       \/ /\ job[j].seen \notin Up \/ ~Exists(ctr, job[j].old) \/ MayFail("stop")
          /\ UNCHANGED ctr
    /\ Goto(j, "create")
    /\ UNCHANGED <<localTag, remoteTag, rec, lock, row, active, procVars, budget, trusted, taken>>

Fresh == {c \in CID : ctr[c].state = "unused"}

\* recreate: create the replacement from the snapshot, on the image the
\* reference resolves to now.
Create(j) ==
    /\ At(j, "create")
    /\ \/ /\ Holder(ctr, "svc") = {}
          /\ \E c \in Fresh :
               /\ ctr' = CreateC(ctr, c, "svc", localTag, job[j].mc.spec)
               /\ job' = [job EXCEPT ![j].pc = "start", ![j].new = c]
       \/ /\ Holder(ctr, "svc") # {} \/ MayFail("create")
          /\ Goto(j, "rbremove")
          /\ UNCHANGED ctr
    /\ UNCHANGED <<localTag, remoteTag, rec, lock, row, active, procVars, budget, trusted, taken>>

\* recreate: start it.
StartNew(j) ==
    /\ At(j, "start")
    /\ \/ /\ Exists(ctr, job[j].new)
          /\ ctr' = StartC(ctr, job[j].new)
          /\ Goto(j, "verify")
       \/ /\ ~Exists(ctr, job[j].new) \/ MayFail("start")
          /\ Goto(j, "rbremove")
          /\ UNCHANGED ctr
    /\ UNCHANGED <<localTag, remoteTag, rec, lock, row, active, procVars, budget, trusted, taken>>

\* verifyHealthy: one poll, with late telling whether the window has closed.
\* Docker keeps State.Running set while a container is restarting.
PollOk(c, late) ==
    /\ Exists(ctr, c)
    /\ \/ ctr[c].state = "healthy"
       \/ late /\ ~Healthcheck /\ ctr[c].state \in {"running", "restarting"}

PollError(c, late) ==
    \/ ~Exists(ctr, c) \/ MayFail("inspect")
    \/ ctr[c].state \in {"created", "stopped", "crashed", "unhealthy"}
    \/ late /\ Healthcheck /\ ctr[c].state \in {"running", "restarting"}

\* Mutant: swap goes on without waiting for the replacement to come up.
VerifySkipped(j) ==
    /\ At(j, "verify")
    /\ Goto(j, "drop")
    /\ UNCHANGED <<dockerVars, rec, lock, row, active, procVars, budget, trusted, taken>>

\* verifyHealthy in swap.
Verify(j) ==
    /\ At(j, "verify")
    /\ \E late \in BOOLEAN :
        \/ /\ PollOk(job[j].new, late)
           /\ trusted' = trusted \cup {job[j].new}
           /\ Goto(j, "drop")
        \/ /\ PollError(job[j].new, late)
           /\ Goto(j, "rbremove")
           /\ UNCHANGED trusted
    /\ UNCHANGED <<dockerVars, rec, lock, row, active, procVars, budget, taken>>

\* Mutant: the parked container is left behind.
DropOldForgotten(j) ==
    /\ At(j, "drop")
    /\ Goto(j, "record")
    /\ UNCHANGED <<dockerVars, rec, lock, row, active, procVars, budget, trusted, taken>>

\* swap succeeded: remove the parked container (an error is ignored).
DropOld(j) ==
    /\ At(j, "drop")
    /\ \/ ctr' = RemoveC(ctr, {job[j].old})
       \/ MayFail("remove") /\ UNCHANGED ctr
    /\ Goto(j, "record")
    /\ UNCHANGED <<localTag, remoteTag, rec, lock, row, active, procVars, budget, trusted, taken>>

\* swap succeeded: record the replacement's spec if it can be inspected.
RecordNew(j) ==
    /\ At(j, "record")
    /\ \/ Exists(ctr, job[j].new) /\ rec' = Spec_of(job[j].new)
       \/ (~Exists(ctr, job[j].new) \/ MayFail("inspect")) /\ UNCHANGED rec
    /\ Return(j, "updated")
    /\ UNCHANGED <<dockerVars, lock, row, active, procVars, budget,
                   trusted, taken>>

\* Mutant: the replacement is left behind.
RollbackRemoveForgotten(j) ==
    /\ At(j, "rbremove")
    /\ Goto(j, "rbrename")
    /\ UNCHANGED <<dockerVars, rec, lock, row, active, procVars, budget, trusted, taken>>

\* rollback: remove the replacement, if there is one (an error is ignored).
RollbackRemove(j) ==
    /\ At(j, "rbremove")
    /\ \/ ctr' = RemoveC(ctr, {job[j].new} \cap CID)
       \/ job[j].new # None /\ MayFail("remove") /\ UNCHANGED ctr
    /\ Goto(j, "rbrename")
    /\ UNCHANGED <<localTag, remoteTag, rec, lock, row, active, procVars, budget, trusted, taken>>

\* rollback: give the old container its name back.
RollbackRename(j) ==
    /\ At(j, "rbrename")
    /\ \/ /\ CanRename(job[j].old, "svc")
          /\ ctr' = RenameC(ctr, job[j].old, "svc")
          /\ Goto(j, "rbstart")
       \/ /\ ~CanRename(job[j].old, "svc") \/ MayFail("rename")
          /\ Return(j, "down")
          /\ UNCHANGED ctr
    /\ UNCHANGED <<localTag, remoteTag, rec, lock, row, active, procVars, budget, trusted, taken>>

\* rollback: start it.
RollbackStart(j) ==
    /\ At(j, "rbstart")
    /\ \/ /\ Exists(ctr, job[j].old)
          /\ ctr' = StartC(ctr, job[j].old)
          /\ Return(j, "rolledback")
       \/ /\ ~Exists(ctr, job[j].old) \/ MayFail("start")
          /\ Return(j, "down")
          /\ UNCHANGED ctr
    /\ UNCHANGED <<localTag, remoteTag, rec, lock, row, active, procVars, budget, trusted, taken>>

\* doUpdate: the deferred lock.Unlock().
Unlock(j) ==
    /\ At(j, "unlock")
    /\ lock' = None
    /\ Goto(j, "finish")
    /\ UNCHANGED <<dockerVars, rec, row, active, procVars, budget,
                   trusted, taken>>

\* Update: FinishUpdateJob with the verdict.
FinishUpdateJob(j) ==
    /\ At(j, "finish")
    /\ row' = [row EXCEPT ![j] = job[j].verdict]
    /\ Goto(j, "forget")
    /\ UNCHANGED <<dockerVars, rec, lock, active, procVars, budget,
                   trusted, taken>>

\* jobWithID: drop the job from activeJobs and publish its final message.
Forget(j) ==
    /\ At(j, "forget")
    /\ active' = active \ {j}
    /\ Goto(j, "done")
    /\ UNCHANGED <<dockerVars, rec, lock, row, procVars, budget,
                   trusted, taken>>

JobStep(j) ==
    \/ Lock(j) \/ Inspect(j) \/ Pull(j) \/ ClearParked(j) \/ Park(j) \/ StopOld(j)
    \/ Create(j) \/ StartNew(j) \/ Verify(j) \/ DropOld(j) \/ RecordNew(j)
    \/ RollbackRemove(j) \/ RollbackRename(j) \/ RollbackStart(j)
    \/ Unlock(j) \/ FinishUpdateJob(j) \/ Forget(j)

-----------------------------------------------------------------------------
(* Startup recovery: Recover runs to its end before Veery serves or polls. *)

\* The process dies: its goroutines, locks and activeJobs are gone.
Crash ==
    /\ proc # "down"
    /\ budget.crashes > 0
    /\ budget' = [budget EXCEPT !.crashes = @ - 1]
    /\ proc' = "down"
    /\ job' = [j \in Jobs |-> IF job[j].pc \in {"idle", "done"} THEN job[j]
                              ELSE [job[j] EXCEPT !.pc = "dead"]]
    /\ lock' = None
    /\ active' = {}
    /\ found' = [parked |-> None, fresh |-> None]
    /\ UNCHANGED <<dockerVars, rec, row, passed, trusted, taken>>

Restart ==
    /\ proc = "down"
    /\ proc' = "list"
    /\ UNCHANGED <<dockerVars, rec, jobVars, found, passed, budget, trusted, taken>>

\* What Recover leaves alone.
recoverFrame == <<localTag, remoteTag, rec, lock, job, active, budget, taken>>

\* Recover leaves whatever is parked where it is: the helper of a self-update is
\* running (this service's own update need not have anything to do with it), or a
\* listing failed. A failed first listing leaves the jobs alone too.
RecoverPass ==
    /\ proc = "list"
    /\ \/ proc' = "resume"
       \/ MayFail("list") /\ proc' = "serving"
    /\ passed' = (passed \/ Holder(ctr, "old") # {})
    /\ UNCHANGED <<ctr, recoverFrame, row, found, trusted>>

\* No helper is running. reconcileParked: list the containers and look at the
\* parked one.
RecoverList ==
    /\ proc = "list"
    /\ \/ \E p \in Holder(ctr, "old") :
            \/ /\ Holder(ctr, "svc") = {}
               /\ proc' = "rename"
               /\ found' = [parked |-> p, fresh |-> None]
            \/ \E f \in Holder(ctr, "svc") :
               /\ proc' = "verify"
               /\ found' = [parked |-> p, fresh |-> f]
       \/ Holder(ctr, "old") = {} /\ proc' = "resume" /\ UNCHANGED found
    /\ passed' = FALSE
    /\ UNCHANGED <<ctr, recoverFrame, row, trusted>>

\* Mutant: the parked container is started but does not get its name back.
RecoverRenameForgotten ==
    /\ proc = "rename"
    /\ proc' = "restart"
    /\ UNCHANGED <<ctr, recoverFrame, row, found, passed, trusted>>

\* reconcileOne, no replacement was created: restore the parked container.
RecoverRename ==
    /\ proc = "rename"
    /\ \/ /\ CanRename(found.parked, "svc")
          /\ ctr' = RenameC(ctr, found.parked, "svc")
          /\ proc' = "restart"
       \/ /\ ~CanRename(found.parked, "svc") \/ MayFail("rename")
          /\ proc' = "resume"
          /\ UNCHANGED ctr
    /\ UNCHANGED <<recoverFrame, row, found, passed, trusted>>

RecoverStart ==
    /\ proc = "restart"
    /\ \/ Exists(ctr, found.parked) /\ ctr' = StartC(ctr, found.parked)
       \/ (~Exists(ctr, found.parked) \/ MayFail("start")) /\ UNCHANGED ctr
    /\ proc' = "resume"
    /\ UNCHANGED <<recoverFrame, row, found, passed, trusted>>

\* reconcileOne, nobody trusted the replacement: verify it now.
RecoverVerify ==
    /\ proc = "verify"
    /\ \E late \in BOOLEAN :
        \/ /\ PollOk(found.fresh, late)
           /\ trusted' = trusted \cup {found.fresh}
           /\ proc' = "drop"
        \/ /\ PollError(found.fresh, late)
           /\ proc' = "rbremove"
           /\ UNCHANGED trusted
    /\ UNCHANGED <<ctr, recoverFrame, row, found, passed>>

\* reconcileOne, it is healthy: remove the parked container.
RecoverDrop ==
    /\ proc = "drop"
    /\ \/ ctr' = RemoveC(ctr, {found.parked})
       \/ MayFail("remove") /\ UNCHANGED ctr
    /\ proc' = "resume"
    /\ UNCHANGED <<recoverFrame, row, found, passed, trusted>>

\* reconcileOne, it is not: the three calls of rollback.
RecoverRollbackRemove ==
    /\ proc = "rbremove"
    /\ \/ ctr' = RemoveC(ctr, {found.fresh})
       \/ MayFail("remove") /\ UNCHANGED ctr
    /\ proc' = "rbrename"
    /\ UNCHANGED <<recoverFrame, row, found, passed, trusted>>

RecoverRollbackRename ==
    /\ proc = "rbrename"
    /\ \/ /\ CanRename(found.parked, "svc")
          /\ ctr' = RenameC(ctr, found.parked, "svc")
          /\ proc' = "rbstart"
       \/ /\ ~CanRename(found.parked, "svc") \/ MayFail("rename")
          /\ proc' = "resume"
          /\ UNCHANGED ctr
    /\ UNCHANGED <<recoverFrame, row, found, passed, trusted>>

RecoverRollbackStart ==
    /\ proc = "rbstart"
    /\ \/ Exists(ctr, found.parked) /\ ctr' = StartC(ctr, found.parked)
       \/ (~Exists(ctr, found.parked) \/ MayFail("start")) /\ UNCHANGED ctr
    /\ proc' = "resume"
    /\ UNCHANGED <<recoverFrame, row, found, passed, trusted>>

\* onSnapshotImage: does the container run the image its reference resolves to?
OnSnapshotImage == \E c \in Holder(ctr, "svc") : ctr[c].image = localTag

\* settleJob: close a job whose worker is gone.
SettleJob(j) ==
    /\ proc = "resume"
    /\ row[j] = "active"
    /\ \/ OnSnapshotImage /\ row' = [row EXCEPT ![j] = "updated"]
       \/ (~OnSnapshotImage \/ MayFail("inspect")) /\ row' = [row EXCEPT ![j] = "failed"]
    /\ UNCHANGED <<ctr, recoverFrame, procVars, trusted>>

\* resumeJobs is through: the server and the pollers start.
Serve ==
    /\ proc = "resume"
    /\ \A j \in Jobs : row[j] # "active"
    /\ proc' = "serving"
    /\ UNCHANGED <<ctr, recoverFrame, row, found, passed, trusted>>

RecoverStep ==
    \/ RecoverPass \/ RecoverList \/ RecoverRename \/ RecoverStart \/ RecoverVerify \/ RecoverDrop
    \/ RecoverRollbackRemove \/ RecoverRollbackRename \/ RecoverRollbackStart
    \/ (\E j \in Jobs : SettleJob(j)) \/ Serve

-----------------------------------------------------------------------------
(* The rest of the world.                                                  *)

\* The registry moves the tag to another image.
Publish ==
    /\ remoteTag' \in Images \ {remoteTag}
    /\ UNCHANGED <<ctr, localTag, rec, jobVars, procVars, budget, trusted, taken>>

\* A container changes state by itself.
ContainerDrift(c) ==
    /\ \E s \in Drift(ctr[c].image, ctr[c].state) : ctr' = SetState(ctr, c, s)
    /\ UNCHANGED <<localTag, remoteTag, rec, jobVars, procVars, budget, trusted, taken>>

\* The user recreates the service's container with another spec, as docker
\* compose up does: whatever holds the name is replaced.
UserRecreate(c, s) ==
    /\ budget.recreates > 0
    /\ budget' = [budget EXCEPT !.recreates = @ - 1]
    /\ ctr[c].state = "unused"
    /\ ctr' = StartC(CreateC(RemoveC(ctr, Holder(ctr, "svc")), c, "svc", localTag, s), c)
    /\ trusted' = trusted \cup {c}
    /\ UNCHANGED <<localTag, remoteTag, rec, jobVars, procVars, taken>>

\* Everything has happened: the bounds are used up and Veery is idle.
Done ==
    /\ proc = "serving"
    /\ \A j \in Jobs : job[j].pc \in {"done", "dead"}
    /\ UNCHANGED vars

Next ==
    \/ \E j \in Jobs : Update(j) \/ JobStep(j)
    \/ Crash \/ Restart \/ RecoverStep
    \/ Publish
    \/ \E c \in CID : ContainerDrift(c)
    \/ \E c \in CID, s \in Specs : UserRecreate(c, s)
    \/ Done

\* Goroutines are scheduled, a verify window closes, and a Veery that died is
\* started again by its restart policy.
Fairness ==
    /\ \A j \in Jobs : WF_vars(JobStep(j))
    /\ WF_vars(Restart)
    /\ WF_vars(RecoverStep)

Spec == Init /\ [][Next]_vars
FairSpec == Spec /\ Fairness

-----------------------------------------------------------------------------
(* Properties.                                                             *)

\* Every variable but the lock stays in its set.
StateOK ==
    /\ ctr \in Table
    /\ localTag \in Images
    /\ remoteTag \in Images
    /\ rec \in Record
    /\ job \in [Jobs -> Locals]
    /\ row \in [Jobs -> Verdicts]
    /\ active \subseteq Jobs
    /\ proc \in {"down", "serving"} \cup Recovering
    /\ found \in [parked : Opt(CID), fresh : Opt(CID)]
    /\ budget \in [crashes : 0 .. MaxCrashes, recreates : 0 .. MaxRecreates]
    /\ trusted \subseteq CID /\ taken \subseteq trusted
    /\ passed \in BOOLEAN

\* Every variable stays in its set. Here only jobs take the lock; in Lifecycle
\* others do too.
TypeOK == StateOK /\ lock \in Opt(Jobs)

\* The call whose failure swap, rollback and Recover ignore although the next
\* update relies on its effect.
Reliable == "remove" \notin Faults

\* Whatever crashes, fails or interleaves, a container that is known to work
\* (it came up once, or the user made it) still exists, running or parked: an
\* update never destroys the last thing a rollback could restore (swap,
\* rollback, reconcileOne). One case is excepted, and only it (taken): a Recover
\* passed over an interrupted swap because a helper was running, or a listing
\* failed, and an update or the sweep has since taken its unproved replacement
\* for the service's container.
KnownGoodKept == \E c \in trusted : Exists(ctr, c)

\* Once Recover has dealt with parked containers and while no update holds the
\* lock, the container that answers to the service's name is one that came up
\* (or was taken, as above): no interrupted or failed update leaves an unproved
\* replacement in its place. Only what Recover passed over may be one.
NameHeldByVerified ==
    (proc \in {"resume", "serving"} /\ lock = None /\ ~passed) => Holder(ctr, "svc") \subseteq trusted

\* The record that updates and bring-ups recreate the service from was taken
\* from a container that came up (or was taken, as above), and still agrees with
\* that container's spec (recordSpec, refreshIfRecreated).
RecordVerified == rec.cid \in trusted /\ rec.spec = ctr[rec.cid].spec

\* The replacement has the spec of the container it replaces, also when the
\* user recreated that one after the job read its record (refreshIfRecreated:
\* a recreate can never be built from a spec the user has since replaced).
UpdateKeepsSpec ==
    \A j \in Jobs : job[j].pc \in {"start", "verify", "drop", "record"} =>
        ctr[job[j].new].spec = ctr[job[j].old].spec

\* If no call fails and the user keeps out, a container is parked only while a
\* swap is in flight, Recover has yet to deal with it, or Recover passed it over.
NoLeftoverParked ==
    \/ Holder(ctr, "old") = {} \/ passed
    \/ proc \notin {"resume", "serving"}
    \/ \E j \in Jobs : job[j].pc \in {"stop", "create", "start", "verify", "drop",
                                      "rbremove", "rbrename"}

\* Every update that was announced is reported as finished, by itself or by the
\* Recover of a later start (resumeJobs, settleJob).
JobsFinish == \A j \in Jobs : row[j] = "active" ~> row[j] # "active"

\* In the end the service's name is held by a container that came up: neither a
\* crash nor a failed update leaves it free or in the hands of a bad replacement,
\* unless a Recover passed it over and nothing has come after.
NameRestored == <>[](passed \/ (Holder(ctr, "svc") # {} /\ Holder(ctr, "svc") \subseteq trusted))

\* In the end that container is running, if its image is good: "a bad image
\* therefore cannot leave a service down" (docs/updates.md).
ServiceRestored ==
    <>[](\E c \in Holder(ctr, "svc") :
            c \in trusted /\ (ctr[c].image \in Good => ctr[c].state \in Up))

\* "reporting the outcome the container actually ended up with" (settleJob): a
\* job is reported as updated only if its container was replaced.
SettleTruthful ==
    [][\A j \in Jobs : (row[j] = "active" /\ row'[j] = "updated") =>
            job[j].old \notin Holder(ctr', "svc")]_vars

\* "returning an error if it exits, crash-loops or becomes unhealthy"
\* (verifyHealthy): a replacement is not accepted while it is crash-looping.
NoCrashLoopAccepted ==
    [][\A c \in trusted' \ trusted : ctr[c].state # "restarting"]_vars

-----------------------------------------------------------------------------
(* The inductive invariants behind the proofs (UpdateProofs).              *)

\* Inductive strengthening of StateOK: ids are there before they are recorded.
TypeInv ==
    /\ StateOK
    /\ \A j \in Jobs : job[j].pc \in {"start", "verify", "drop", "record"} => job[j].new \in CID
    /\ proc \in {"verify", "rbremove"} => found.fresh \in CID

\* The rest holds when removing containers does not fail (Reliable).

Quiescent == {"idle", "lock", "finish", "forget", "done", "dead"}
Parked == {"stop", "create", "start", "verify", "drop", "rbremove", "rbrename"}

\* The lock has one holder, and only a serving process runs jobs.
LockInv ==
    \A j \in Jobs : /\ (lock = j) <=> (job[j].pc \notin Quiescent)
                    /\ job[j].pc \notin {"idle", "done", "dead"} => proc = "serving"

\* A job's locals: what it parked is trusted and out of the way, and what it
\* created is another container with the same spec.
JobInvOf(J) ==
    /\ J.mc.cid \in trusted /\ J.mc.spec = ctr[J.mc.cid].spec
    /\ J.pc \in {"pull", "clear", "park"} =>
           /\ J.old \in trusted /\ J.mc.cid = J.old
           /\ J.old \notin Holder(ctr, "old") /\ Holder(ctr, "svc") # {}
    /\ J.pc \in Parked => J.old \in Holder(ctr, "old") \cap trusted
    /\ J.pc \in {"stop", "create"} => J.mc.cid = J.old
    /\ J.pc \in {"idle", "lock", "inspect", "pull", "clear", "park", "stop", "create"} =>
           J.new = None
    /\ J.pc \in {"start", "verify", "rbremove"} => J.new # J.old
    /\ J.pc \in {"start", "verify"} => J.new \notin Holder(ctr, "old")
    /\ J.pc \in {"start", "verify", "drop", "record"} =>
           /\ J.new \in CID /\ ctr[J.new].state # "unused"
           /\ J.old \in trusted /\ ctr[J.new].spec = ctr[J.old].spec
    /\ J.pc \in {"drop", "record"} => J.new \in trusted
    /\ J.pc = "drop" => Holder(ctr, "svc") # {}
    /\ J.pc = "rbstart" => J.old \in trusted

JobInv == \A j \in Jobs : JobInvOf(job[j])

\* What Recover found: the parked container is still where it was.
FoundInv ==
    /\ proc \in {"rename", "verify", "drop", "rbremove", "rbrename"} =>
           found.parked \in Holder(ctr, "old")
    /\ proc \in {"restart", "rbstart"} => found.parked \in CID
    /\ proc \in {"verify", "rbremove"} => found.fresh \in CID \ Holder(ctr, "old")
    /\ proc = "drop" => Holder(ctr, "svc") # {}

\* A replacement that is still to be trusted.
Tentative(c) ==
    \/ \E j \in Jobs : job[j].pc \in {"start", "verify", "rbremove"} /\ job[j].new = c
    \/ proc \in {"verify", "rbremove"} /\ found.fresh = c

\* An interrupted swap may be as it was left: Recover has not come to it yet, or has
\* passed it over, and no update has looked at the container since.
Unsettled ==
    \/ proc \in {"down", "list"}
    \/ /\ passed /\ proc \in {"resume", "serving"}
       /\ \A j \in Jobs : job[j].pc \notin Body \ {"inspect"}

NamesProved == \A c \in Holder(ctr, "svc") : c \in trusted \/ Tentative(c)

\* Who may hold the two names.
NamesInv ==
    /\ \A c, d \in Holder(ctr, "svc") : c = d
    /\ Holder(ctr, "old") \subseteq trusted
    /\ NamesProved \/ (Unsettled /\ Holder(ctr, "old") # {})

\* The whole: every piece of state agrees about which container is known good.
IndInv ==
    /\ TypeInv
    /\ \A c \in trusted : ctr[c].state # "unused"
    /\ LockInv
    /\ JobInv
    /\ FoundInv
    /\ NamesInv
    /\ RecordVerified
    /\ KnownGoodKept
=============================================================================

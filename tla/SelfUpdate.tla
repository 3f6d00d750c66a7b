----------------------------- MODULE SelfUpdate -----------------------------
(***************************************************************************)
(* Veery updating its own container (internal/docker/selfupdate.go): the   *)
(* Veery that is asked to hands the swap to a helper container, which stops*)
(* it, starts the replacement and verifies that one; the replacement runs  *)
(* Recover while the helper is still at work.  The three share the daemon  *)
(* and the database and no lock.                                           *)
(*                                                                         *)
(* Abstractions.                                                           *)
(*  - The stored record is Update.tla's subject: here the spec is a part of*)
(*    every container and the same for all.                                *)
(*  - Veery publishes its port, so one Veery at a time is up: starting a   *)
(*    second one fails.  (reconcileOne's branch for a healthy Veery beside *)
(*    the one that recovers is left out for that reason.)                  *)
(*  - A helper is its program counter and locals; it has no restart policy.*)
(*  - A request hands off the container Veery runs in.  With one request it*)
(*    has no other (HandsOffItself in SelfUpdateProofs).  With several, and*)
(*    a stop that failed, one may find another helper's replacement under  *)
(*    the name, which doUpdate would swap in its own process: here it goes *)
(*    no further.                                                          *)
(*  - Veery's own containers have one: a process that dies by itself leaves*)
(*    its container "restarting".                                          *)
(***************************************************************************)
EXTENDS Docker, Naturals

CONSTANTS
    Jobs,           \* requests to update Veery
    InitImage,      \* the image Veery runs at first
    MaxCrashes,     \* bound: how often Veery is killed
    MaxKills        \* bound: how often a helper is

ASSUME InitAssumption ==
    /\ InitImage \in Good
    /\ None \notin Jobs
    /\ MaxCrashes \in Nat
    /\ MaxKills \in Nat

VARIABLES
    ctr,        \* the daemon's containers of Veery
    localTag,   \* image id the reference resolves to locally
    remoteTag,  \* image id the registry serves for it
    row,        \* update_jobs: the verdict of each job
    self,       \* the container in which Veery is up, or None
    proc,       \* what that Veery does: start up (Recover) or serve
    found,      \* what its reconcileParked listed
    lock,       \* its lock for its own container's name
    active,     \* its activeJobs
    watch,      \* its watchJob goroutines: off, about to read the row, or to list
    req,        \* the goroutines of Update up to the hand-off
    hlp,        \* the helper of each job: program counter and locals
    budget,     \* crashes and kills left (bounds), and whether calls may fail at all
    verified    \* history: containers that came up or took over by themselves

procVars == <<self, proc, found, lock, active, watch, req>>
tagVars  == <<localTag, remoteTag>>
vars == <<ctr, localTag, remoteTag, row, self, proc, found, lock, active, watch,
          req, hlp, budget, verified>>

Opt(S) == S \cup {None}
Nothing == [parked |-> None, fresh |-> None, updaters |-> {}]
NoWatch == [j \in Jobs |-> "off"]

Succeeded == {"updated", "uptodate"}
Failures == {"failed", "rolledback", "down"}
Verdicts == {"none", "active"} \cup Succeeded \cup Failures
ReqLabels == {"idle", "lock", "inspect", "pull", "handoff", "starthelper", "unlock",
              "finish", "forget", "done", "handed", "dead"}
HelperLabels == {"none", "created", "lookup", "image", "clear", "park", "stop", "create",
                 "start", "verify", "drop", "rbremove", "rbrename", "rbstart", "finish",
                 "exited"}

\* The states in which the process inside a container runs.
Alive == {"running", "healthy", "unhealthy"}

Init ==
    /\ \E c \in CID, s \in Specs :
        /\ ctr = [d \in CID |-> [name |-> "svc", image |-> InitImage, spec |-> s,
                                 state |-> IF d = c THEN "running" ELSE "unused"]]
        /\ self = c
        /\ verified = {c}
    /\ localTag = InitImage /\ remoteTag = InitImage
    /\ row = [j \in Jobs |-> "none"]
    /\ proc = "serving"
    /\ found = Nothing
    /\ lock = None
    /\ active = {} /\ watch = NoWatch
    /\ req = [j \in Jobs |-> [pc |-> "idle", old |-> None, verdict |-> "none"]]
    /\ hlp = [j \in Jobs |-> [pc |-> "none", old |-> None, seen |-> "unused",
                              new |-> None, verdict |-> "none"]]
    /\ budget \in [crashes : {MaxCrashes}, kills : {MaxKills}, faults : BOOLEAN]

-----------------------------------------------------------------------------
(* Containers and the Veery inside them.                                   *)

\* The process ends: its memory and its goroutines are gone.
ProcDies ==
    /\ self' = None /\ proc' = "down" /\ found' = Nothing
    /\ lock' = None /\ active' = {} /\ watch' = NoWatch
    /\ req' = [j \in Jobs |-> IF req[j].pc \in {"idle", "done"} THEN req[j]
                              ELSE [req[j] EXCEPT !.pc = "dead"]]

\* The daemon's table becomes t, and the Veery that is up ends with its container.
Become(t) ==
    /\ ctr' = t
    /\ IF self # None /\ t[self].state \notin Alive THEN ProcDies ELSE UNCHANGED procVars

CanStart(c) == Exists(ctr, c) /\ (self = None \/ ctr[c].state \in Up)

\* A container starts, and a Veery in it with Recover.
Boot(c) ==
    /\ ctr' = StartC(ctr, c)
    /\ IF ctr[c].state \in Up
       THEN UNCHANGED <<self, proc>>
       ELSE self' = c /\ proc' = "list"
    /\ UNCHANGED <<found, lock, active, watch, req>>

\* The behaviours with failing calls and those without start apart.
CallFails(call) == budget.faults /\ MayFail(call)
Disturbed == budget.faults \/ budget.kills < MaxKills

CanRename(c, n) == Exists(ctr, c) /\ Holder(ctr, n) = {}
Fresh == {c \in CID : ctr[c].state = "unused"}

-----------------------------------------------------------------------------
(* Update and doUpdate in Veery, up to the hand-off.                       *)

ReqAt(j, l) == req[j].pc = l
ReqGoto(j, l) == req' = [req EXCEPT ![j].pc = l]
ReqReturn(j, v) == req' = [req EXCEPT ![j].pc = "unlock", ![j].verdict = v]

\* Update: insert the job row and announce the job.
Update(j) ==
    /\ proc = "serving"
    /\ ReqAt(j, "idle")
    /\ row' = [row EXCEPT ![j] = "active"]
    /\ active' = active \cup {j}
    /\ ReqGoto(j, "lock")
    /\ UNCHANGED <<ctr, tagVars, self, proc, found, lock, watch, hlp, budget, verified>>

\* What the steps of doUpdate leave alone.
reqFrame == <<ctr, remoteTag, row, self, proc, found, active, watch, budget, verified>>

Lock(j) ==
    /\ ReqAt(j, "lock")
    /\ lock = None
    /\ lock' = j
    /\ ReqGoto(j, "inspect")
    /\ UNCHANGED <<reqFrame, localTag, hlp>>

Inspect(j) ==
    /\ ReqAt(j, "inspect")
    /\ \/ \E c \in Holder(ctr, "svc") :
            req' = [req EXCEPT ![j].pc = "pull", ![j].old = c]
       \/ /\ Holder(ctr, "svc") = {} \/ CallFails("inspect")
          /\ ReqReturn(j, "failed")
    /\ UNCHANGED <<reqFrame, localTag, lock, hlp>>

Pull(j) ==
    /\ ReqAt(j, "pull")
    /\ \/ /\ localTag' = remoteTag
          /\ IF remoteTag = ctr[req[j].old].image
             THEN ReqReturn(j, "uptodate")
             ELSE ReqGoto(j, "handoff")
       \/ /\ CallFails("pull")
          /\ ReqReturn(j, "failed")
          /\ UNCHANGED localTag
    /\ UNCHANGED <<reqFrame, lock, hlp>>

\* handOff, for Veery's own container (IsSelf): create the helper ...
HandOff(j) ==
    /\ ReqAt(j, "handoff")
    /\ req[j].old = self
    /\ \/ hlp' = [hlp EXCEPT ![j].pc = "created"] /\ ReqGoto(j, "starthelper")
       \/ CallFails("create") /\ ReqReturn(j, "failed") /\ UNCHANGED hlp
    /\ UNCHANGED <<reqFrame, localTag, lock>>

\* ... and start it, or remove it again.
StartHelper(j) ==
    /\ ReqAt(j, "starthelper")
    /\ \/ hlp' = [hlp EXCEPT ![j].pc = "lookup"] /\ ReqReturn(j, "active")
       \/ /\ CallFails("start")
          /\ hlp' = [hlp EXCEPT ![j].pc = "none"]
          /\ ReqReturn(j, "failed")
    /\ UNCHANGED <<reqFrame, localTag, lock>>

\* The deferred Unlock; a job that was handed off ends here (errHandedOff).
Unlock(j) ==
    /\ ReqAt(j, "unlock")
    /\ lock' = None
    /\ ReqGoto(j, IF req[j].verdict = "active" THEN "handed" ELSE "finish")
    /\ UNCHANGED <<reqFrame, localTag, hlp>>

ReqFinish(j) ==
    /\ ReqAt(j, "finish")
    /\ row' = [row EXCEPT ![j] = req[j].verdict]
    /\ ReqGoto(j, "forget")
    /\ UNCHANGED <<ctr, tagVars, self, proc, found, lock, active, watch, hlp, budget, verified>>

Forget(j) ==
    /\ ReqAt(j, "forget")
    /\ active' = active \ {j}
    /\ ReqGoto(j, "done")
    /\ UNCHANGED <<ctr, tagVars, row, self, proc, found, lock, watch, hlp, budget, verified>>

ReqStep(j) ==
    \/ Lock(j) \/ Inspect(j) \/ Pull(j) \/ HandOff(j) \/ StartHelper(j)
    \/ Unlock(j) \/ ReqFinish(j) \/ Forget(j)

-----------------------------------------------------------------------------
(* The helper: ApplyUpdate, swap and rollback, without a lock.             *)

HlpAt(j, l) == hlp[j].pc = l
HlpGoto(j, l) == hlp' = [hlp EXCEPT ![j].pc = l]
HlpReturn(j, v) == hlp' = [hlp EXCEPT ![j].pc = "finish", ![j].verdict = v]

\* A failing daemon call of the helper.
HlpFails(call) == CallFails(call) /\ UNCHANGED <<ctr, procVars>>

\* ApplyUpdate: inspect the container.  On an error it returns at once, and
\* nobody closes the job.
Lookup(j) ==
    /\ HlpAt(j, "lookup")
    /\ \/ \E c \in Holder(ctr, "svc") :
            hlp' = [hlp EXCEPT ![j].pc = "image", ![j].old = c, ![j].seen = ctr[c].state]
       \/ /\ Holder(ctr, "svc") = {} \/ CallFails("inspect")
          /\ HlpGoto(j, "exited")
    /\ UNCHANGED <<ctr, tagVars, row, procVars, budget, verified>>

\* ApplyUpdate: is the image that was pulled another one?  If it cannot be inspected it
\* is pulled again.
CompareImage(j) ==
    /\ HlpAt(j, "image")
    /\ \/ /\ UNCHANGED localTag \/ (CallFails("inspect") /\ localTag' = remoteTag)
          /\ IF localTag' = ctr[hlp[j].old].image
             THEN HlpReturn(j, "updated")
             ELSE HlpGoto(j, "clear")
       \/ /\ CallFails("inspect")
          /\ localTag' = remoteTag \/ (CallFails("pull") /\ UNCHANGED localTag)
          /\ HlpReturn(j, "failed")
    /\ UNCHANGED <<ctr, remoteTag, row, procVars, budget, verified>>

\* What the helper's daemon calls leave alone.
hlpFrame == <<tagVars, row, budget>>

ClearParked(j) ==
    /\ HlpAt(j, "clear")
    /\ Become(RemoveC(ctr, Holder(ctr, "old"))) \/ HlpFails("remove")
    /\ HlpGoto(j, "park")
    /\ UNCHANGED <<hlpFrame, verified>>

Park(j) ==
    /\ HlpAt(j, "park")
    /\ \/ /\ CanRename(hlp[j].old, "old")
          /\ ctr' = RenameC(ctr, hlp[j].old, "old")
          /\ HlpGoto(j, "stop")
       \/ /\ ~CanRename(hlp[j].old, "old") \/ CallFails("rename")
          /\ HlpReturn(j, "failed")
          /\ UNCHANGED ctr
    /\ UNCHANGED <<hlpFrame, procVars, verified>>

\* Stopping the old container ends the Veery that handed off.
StopOld(j) ==
    /\ HlpAt(j, "stop")
    /\ \/ /\ hlp[j].seen \in Up /\ Exists(ctr, hlp[j].old)
          /\ Become(SetState(ctr, hlp[j].old, "stopped"))
       \/ /\ hlp[j].seen \notin Up \/ ~Exists(ctr, hlp[j].old)
          /\ UNCHANGED <<ctr, procVars>>
       \/ HlpFails("stop")
    /\ HlpGoto(j, "create")
    /\ UNCHANGED <<hlpFrame, verified>>

Create(j) ==
    /\ HlpAt(j, "create")
    /\ \/ /\ Holder(ctr, "svc") = {}
          /\ \E c \in Fresh :
               /\ ctr' = CreateC(ctr, c, "svc", localTag, ctr[hlp[j].old].spec)
               /\ hlp' = [hlp EXCEPT ![j].pc = "start", ![j].new = c]
       \/ /\ Holder(ctr, "svc") # {} \/ CallFails("create")
          /\ HlpGoto(j, "rbremove")
          /\ UNCHANGED ctr
    /\ UNCHANGED <<hlpFrame, procVars, verified>>

\* Starting the replacement starts a Veery that recovers while the helper watches.
StartNew(j) ==
    /\ HlpAt(j, "start")
    /\ \/ CanStart(hlp[j].new) /\ Boot(hlp[j].new) /\ HlpGoto(j, "verify")
       \/ /\ ~CanStart(hlp[j].new) \/ CallFails("start")
          /\ HlpGoto(j, "rbremove")
          /\ UNCHANGED <<ctr, procVars>>
    /\ UNCHANGED <<hlpFrame, verified>>

\* verifyHealthy, as in Update.tla.
PollOk(c, late) ==
    /\ Exists(ctr, c)
    /\ \/ ctr[c].state = "healthy"
       \/ late /\ ~Healthcheck /\ ctr[c].state \in {"running", "restarting"}

PollError(c, late) ==
    \/ ~Exists(ctr, c) \/ CallFails("inspect")
    \/ ctr[c].state \in {"created", "stopped", "crashed", "unhealthy"}
    \/ late /\ Healthcheck /\ ctr[c].state \in {"running", "restarting"}

\* Mutant: the replacement is not waited for.
VerifySkipped(j) ==
    /\ HlpAt(j, "verify")
    /\ HlpGoto(j, "drop")
    /\ UNCHANGED <<ctr, procVars, hlpFrame, verified>>

Verify(j) ==
    /\ HlpAt(j, "verify")
    /\ \E late \in BOOLEAN :
        \/ /\ PollOk(hlp[j].new, late)
           /\ verified' = verified \cup {hlp[j].new}
           /\ HlpGoto(j, "drop")
        \/ /\ PollError(hlp[j].new, late)
           /\ HlpGoto(j, "rbremove")
           /\ UNCHANGED verified
    /\ UNCHANGED <<ctr, procVars, hlpFrame>>

DropOld(j) ==
    /\ HlpAt(j, "drop")
    /\ Become(RemoveC(ctr, {hlp[j].old})) \/ HlpFails("remove")
    /\ HlpReturn(j, "updated")
    /\ UNCHANGED <<hlpFrame, verified>>

\* Removing the replacement ends the Veery in it.
RollbackRemove(j) ==
    /\ HlpAt(j, "rbremove")
    /\ Become(RemoveC(ctr, {hlp[j].new} \cap CID)) \/ HlpFails("remove")
    /\ HlpGoto(j, "rbrename")
    /\ UNCHANGED <<hlpFrame, verified>>

RollbackRename(j) ==
    /\ HlpAt(j, "rbrename")
    /\ \/ /\ CanRename(hlp[j].old, "svc")
          /\ ctr' = RenameC(ctr, hlp[j].old, "svc")
          /\ HlpGoto(j, "rbstart")
       \/ /\ ~CanRename(hlp[j].old, "svc") \/ CallFails("rename")
          /\ HlpReturn(j, "down")
          /\ UNCHANGED ctr
    /\ UNCHANGED <<hlpFrame, procVars, verified>>

\* Mutant: the old Veery gets its name back but is not started.
RollbackStartForgotten(j) ==
    /\ HlpAt(j, "rbstart")
    /\ HlpReturn(j, "rolledback")
    /\ UNCHANGED <<ctr, procVars, hlpFrame, verified>>

RollbackStart(j) ==
    /\ HlpAt(j, "rbstart")
    /\ \/ CanStart(hlp[j].old) /\ Boot(hlp[j].old) /\ HlpReturn(j, "rolledback")
       \/ /\ ~CanStart(hlp[j].old) \/ CallFails("start")
          /\ HlpReturn(j, "down")
          /\ UNCHANGED <<ctr, procVars>>
    /\ UNCHANGED <<hlpFrame, verified>>

\* finishApply; the helper's process ends after it.
FinishApply(j) ==
    /\ HlpAt(j, "finish")
    /\ row' = [row EXCEPT ![j] = hlp[j].verdict]
    /\ HlpGoto(j, "exited")
    /\ UNCHANGED <<ctr, tagVars, procVars, budget, verified>>

HelperStep(j) ==
    \/ Lookup(j) \/ CompareImage(j) \/ ClearParked(j) \/ Park(j) \/ StopOld(j)
    \/ Create(j) \/ StartNew(j) \/ Verify(j) \/ DropOld(j)
    \/ RollbackRemove(j) \/ RollbackRename(j) \/ RollbackStart(j) \/ FinishApply(j)

-----------------------------------------------------------------------------
(* Recover and watchJob in the Veery that is up.                           *)

\* runningUpdaters.
Updaters == {j \in Jobs : hlp[j].pc \notin {"none", "created", "exited"}}

recoverFrame == <<tagVars, self, lock, req, budget>>

\* Mutant: parked containers are reconciled although a helper may be at work.
RecoverListAlways ==
    /\ proc = "list"
    /\ \/ Holder(ctr, "old") = {} /\ proc' = "resume" /\ UNCHANGED found
       \/ \E p \in Holder(ctr, "old") \ {self} :
            proc' = "retire" /\ found' = [Nothing EXCEPT !.parked = p]
    /\ UNCHANGED <<ctr, recoverFrame, row, active, watch, hlp, verified>>

\* Recover: with a helper at work nothing is reconciled; otherwise the parked
\* container is compared with the one Veery runs in.
RecoverList ==
    /\ proc = "list"
    /\ \/ /\ Updaters # {}
          /\ proc' = "resume"
          /\ found' = [Nothing EXCEPT !.updaters = Updaters]
       \/ /\ Updaters = {} /\ Holder(ctr, "old") = {}
          /\ proc' = "prune"
          /\ UNCHANGED found
       \/ /\ Updaters = {}
          /\ \E p \in Holder(ctr, "old") :
               \/ /\ p # self /\ self \in Holder(ctr, "svc")
                  /\ proc' = "retire"
                  /\ found' = [Nothing EXCEPT !.parked = p]
               \/ /\ p = self
                  /\ \/ /\ Holder(ctr, "svc") = {}
                        /\ proc' = "rename"
                        /\ UNCHANGED found
                     \/ \E f \in Holder(ctr, "svc") :
                        /\ proc' = "remove"
                        /\ found' = [Nothing EXCEPT !.fresh = f]
       \/ CallFails("list") /\ proc' = "serving" /\ UNCHANGED found
    /\ UNCHANGED <<ctr, recoverFrame, row, active, watch, hlp, verified>>

\* reconcileOne, Veery is the replacement: remove the parked container.
RecoverRetire ==
    /\ proc = "retire"
    /\ \/ ctr' = RemoveC(ctr, {found.parked}) /\ verified' = verified \cup {self}
       \/ CallFails("remove") /\ UNCHANGED <<ctr, verified>>
    /\ proc' = "prune"
    /\ UNCHANGED <<recoverFrame, found, row, active, watch, hlp>>

\* reconcileOne, Veery is the parked one: remove the replacement ...
RecoverRemove ==
    /\ proc = "remove"
    /\ \/ ctr' = RemoveC(ctr, {found.fresh}) /\ proc' = "rename"
       \/ CallFails("remove") /\ UNCHANGED ctr /\ proc' = "prune"
    /\ UNCHANGED <<recoverFrame, found, row, active, watch, hlp, verified>>

\* ... and take the name back.
RecoverRename ==
    /\ proc = "rename"
    /\ \/ CanRename(self, "svc") /\ ctr' = RenameC(ctr, self, "svc")
       \/ (~CanRename(self, "svc") \/ CallFails("rename")) /\ UNCHANGED ctr
    /\ proc' = "prune"
    /\ UNCHANGED <<recoverFrame, found, row, active, watch, hlp, verified>>

\* pruneUpdaters.
PruneUpdaters ==
    /\ proc = "prune"
    /\ \/ hlp' = [j \in Jobs |-> IF hlp[j].pc \in {"created", "exited"}
                                 THEN [hlp[j] EXCEPT !.pc = "none"] ELSE hlp[j]]
       \/ CallFails("list") /\ UNCHANGED hlp
    /\ proc' = "resume"
    /\ UNCHANGED <<ctr, recoverFrame, found, row, active, watch, verified>>

OnSnapshotImage == \E c \in Holder(ctr, "svc") : ctr[c].image = localTag

\* settleJob: close a job from what the container runs.
SettleJob(j) ==
    /\ active' = active \ {j}
    /\ \/ OnSnapshotImage /\ row' = [row EXCEPT ![j] = "updated"]
       \/ (~OnSnapshotImage \/ CallFails("inspect")) /\ row' = [row EXCEPT ![j] = "failed"]

\* Mutant: a job whose helper is gone is not settled.
ResumeWatchedOnly(j) ==
    /\ proc = "resume"
    /\ row[j] = "active" /\ watch[j] = "off"
    /\ j \in found.updaters
    /\ active' = active \cup {j}
    /\ watch' = [watch EXCEPT ![j] = "read"]
    /\ UNCHANGED <<ctr, recoverFrame, proc, found, row, hlp, verified>>

\* resumeJobs: watch a job whose helper was running, settle any other.
ResumeJob(j) ==
    /\ proc = "resume"
    /\ row[j] = "active" /\ watch[j] = "off"
    /\ \/ /\ j \in found.updaters
          /\ active' = active \cup {j}
          /\ watch' = [watch EXCEPT ![j] = "read"]
          /\ UNCHANGED row
       \/ j \notin found.updaters /\ SettleJob(j) /\ UNCHANGED watch
    /\ UNCHANGED <<ctr, recoverFrame, proc, found, hlp, verified>>

Serve ==
    /\ proc = "resume"
    /\ \A j \in Jobs : row[j] = "active" => watch[j] # "off"
    /\ proc' = "serving"
    /\ UNCHANGED <<ctr, recoverFrame, found, row, active, watch, hlp, verified>>

RecoverStep ==
    \/ RecoverList \/ RecoverRetire \/ RecoverRemove \/ RecoverRename \/ PruneUpdaters
    \/ (\E j \in Jobs : ResumeJob(j)) \/ Serve

\* Mutant: a finished job stays in activeJobs.
WatchReadKeeps(j) ==
    /\ watch[j] = "read"
    /\ watch' = [watch EXCEPT ![j] = IF row[j] = "active" THEN "list" ELSE "off"]
    /\ UNCHANGED <<ctr, recoverFrame, proc, found, row, active, hlp, verified>>

\* watchJob: read the row; a finished job is forgotten.
WatchRead(j) ==
    /\ watch[j] = "read"
    /\ \/ row[j] = "active" /\ watch' = [watch EXCEPT ![j] = "list"] /\ UNCHANGED active
       \/ row[j] # "active" /\ watch' = [watch EXCEPT ![j] = "off"] /\ active' = active \ {j}
    /\ UNCHANGED <<ctr, recoverFrame, proc, found, row, hlp, verified>>

\* Mutant: an unfinished row is settled without looking for the helper.
WatchSettlesAlways(j) ==
    /\ watch[j] = "list"
    /\ watch' = [watch EXCEPT ![j] = "off"]
    /\ SettleJob(j)
    /\ UNCHANGED <<ctr, recoverFrame, proc, found, hlp, verified>>

\* watchJob: the row was not finished; look for the helper.  The error of
\* updaterFor is dropped, so a failed listing reads as a helper that is gone.
WatchList(j) ==
    /\ watch[j] = "list"
    /\ \/ /\ j \in Updaters
          /\ watch' = [watch EXCEPT ![j] = "read"]
          /\ UNCHANGED <<row, active>>
       \/ /\ j \notin Updaters \/ CallFails("list")
          /\ watch' = [watch EXCEPT ![j] = "off"]
          /\ SettleJob(j)
    /\ UNCHANGED <<ctr, recoverFrame, proc, found, hlp, verified>>

WatchStep(j) == WatchRead(j) \/ WatchList(j)

-----------------------------------------------------------------------------
(* The rest of the world.                                                  *)

\* The registry moves the tag to another image.
Publish ==
    /\ remoteTag' \in Images \ {remoteTag}
    /\ UNCHANGED <<ctr, localTag, row, procVars, hlp, budget, verified>>

\* A container gets healthy, or one whose image is not good fails.
ContainerDrift(c) ==
    /\ \E s \in Drift(ctr[c].image, ctr[c].state) \ {"running"} :
        /\ ctr[c].image \notin Good \/ s = "healthy"
        /\ Become(SetState(ctr, c, s))
    /\ UNCHANGED <<tagVars, row, hlp, budget, verified>>

\* Veery is killed; its restart policy applies.
Crash ==
    /\ self # None
    /\ budget.crashes > 0
    /\ budget' = [budget EXCEPT !.crashes = @ - 1]
    /\ Become(SetState(ctr, self, "restarting"))
    /\ UNCHANGED <<tagVars, row, hlp, verified>>

\* The restart policy brings a Veery back.
Revive(c) ==
    /\ ctr[c].state = "restarting"
    /\ self = None
    /\ ctr' = SetState(ctr, c, "running")
    /\ self' = c /\ proc' = "list"
    /\ UNCHANGED <<tagVars, found, lock, active, watch, req, row, hlp, budget, verified>>

\* A helper is killed; it has no restart policy.
KillHelper(j) ==
    /\ j \in Updaters
    /\ budget.kills > 0
    /\ budget' = [budget EXCEPT !.kills = @ - 1]
    /\ HlpGoto(j, "exited")
    /\ UNCHANGED <<ctr, tagVars, row, procVars, verified>>

\* With Veery down and no helper left, the user starts one of its containers.
UserStart(c) ==
    /\ Updaters = {} /\ self = None
    /\ Exists(ctr, c) /\ ctr[c].state \notin Up
    /\ Boot(c)
    /\ UNCHANGED <<tagVars, row, hlp, budget, verified>>

Next ==
    \/ \E j \in Jobs : Update(j) \/ ReqStep(j) \/ HelperStep(j) \/ WatchStep(j) \/ KillHelper(j)
    \/ RecoverStep
    \/ Publish \/ Crash
    \/ \E c \in CID : ContainerDrift(c) \/ Revive(c) \/ UserStart(c)

\* Goroutines and the helper are scheduled, and Docker honours restart policies.
Fairness ==
    /\ \A j \in Jobs : WF_vars(ReqStep(j)) /\ WF_vars(HelperStep(j)) /\ WF_vars(WatchStep(j))
    /\ WF_vars(RecoverStep)
    /\ WF_vars(\E c \in CID : Revive(c))

Spec == Init /\ [][Next]_vars
FairSpec == Spec /\ Fairness

-----------------------------------------------------------------------------
(* Properties.                                                             *)

Procs == {"down", "list", "retire", "remove", "rename", "prune", "resume", "serving"}
Listing == [parked : Opt(CID), fresh : Opt(CID), updaters : SUBSET Jobs]
Request == [pc : ReqLabels, old : Opt(CID), verdict : Verdicts]
Helper == [pc : HelperLabels, old : Opt(CID), seen : States, new : Opt(CID), verdict : Verdicts]

\* Every variable stays in its set, and a helper that got past its inspect knows
\* the container it replaces (ApplyUpdate).
TypeOK ==
    /\ ctr \in Table
    /\ localTag \in Images /\ remoteTag \in Images
    /\ row \in [Jobs -> Verdicts]
    /\ self \in Opt(CID)
    /\ proc \in Procs
    /\ found \in Listing
    /\ lock \in Opt(Jobs)
    /\ active \subseteq Jobs
    /\ watch \in [Jobs -> {"off", "read", "list"}]
    /\ req \in [Jobs -> Request]
    /\ hlp \in [Jobs -> Helper]
    /\ \A j \in Jobs : hlp[j].pc \in HelperLabels \ {"none", "created", "lookup", "exited"} =>
           hlp[j].old \in CID
    /\ budget \in [crashes : 0 .. MaxCrashes, kills : 0 .. MaxKills, faults : BOOLEAN]
    /\ verified \subseteq CID

\* Wherever Veery or its helper is killed, a Veery that came up, or that took
\* over after the helper's death, still exists (swap, reconcileOne).  "The helper
\* is the only thing touching this container, so no lock is taken" (ApplyUpdate).
KnownGoodKept == \E c \in verified : Exists(ctr, c)

\* Recover acts on what it listed some steps earlier; while it removes or renames
\* a container no helper is at work that "still needs the parked container as its
\* rollback target" (docs/updates.md).
RecoverAlone == proc \in {"retire", "remove", "rename"} => Updaters = {}

\* A verdict that was reported is not taken back: a success never turns into a
\* failure, nor a failure into a success (FinishUpdateJob by helper and watchJob),
\* unless a call failed or the helper was killed.
VerdictKind ==
    [][~Disturbed' => \A j \in Jobs :
        /\ row[j] \in Succeeded => row'[j] \in Succeeded
        /\ row[j] \in Failures => row'[j] \in Failures]_vars

\* "The helper is gone but never finished the row" (watchJob): a job that has a
\* verdict keeps it.
VerdictFinal == [][\A j \in Jobs : row[j] \notin {"none", "active"} => row'[j] = row[j]]_vars

\* Every self-update that was announced is reported as finished, however often
\* Veery crashes, unless a call failed or the helper was killed.
JobsFinish == \A j \in Jobs : row[j] = "active" ~> row[j] # "active" \/ Disturbed

\* No client is left with a job that never ends: the helper "has taken ownership
\* of it and will report the outcome.  This process is about to be stopped"
\* (errHandedOff).
SpinnerResolves == \A j \in Jobs : j \in active ~> j \notin active \/ Disturbed

\* In the end Veery's name is held by a container that came up, and Veery runs
\* in it if its image is good.
VeeryReturns ==
    <>[](Disturbed \/ \E c \in Holder(ctr, "svc") : c \in verified /\ (ctr[c].image \in Good => self = c))
-----------------------------------------------------------------------------
(* The inductive invariants behind the proofs (SelfUpdateProofs).          *)

\* Where a request is before its helper runs, and where it has a goroutine.
Before == {"idle", "lock", "inspect", "pull", "handoff", "starthelper"}
Busy == (Before \ {"idle"}) \cup {"unlock", "finish", "forget"}

\* Where a helper has not made the replacement yet.
Early == {"lookup", "image", "clear", "park", "stop", "create"}

\* Who is up, and for whom Recover takes it.
ProcInv ==
    /\ self = None <=> proc = "down"
    /\ self # None => ctr[self].state \in Alive
    /\ \A j \in Jobs : req[j].pc \in Busy => proc = "serving"
    /\ proc = "retire" => found.parked # self
    /\ proc = "remove" => found.fresh # self

\* This much holds for any number of requests, whichever calls fail.
RunInv ==
    /\ TypeOK
    /\ \A j \in Jobs :
          /\ req[j].pc \in Before => hlp[j].pc \in {"none", "created"} /\ hlp[j].new = None
          /\ hlp[j].pc \in Early => hlp[j].new = None
          /\ hlp[j].pc \in {"start", "verify", "drop"} => hlp[j].new \in CID
    /\ ProcInv
    /\ RecoverAlone

\* At most one helper is at work, "the only thing touching this container".
OneHelper == \A i, j \in Updaters : i = j

\* One update.
Lone == \A i, j \in Jobs : i = j

Svc == Holder(ctr, "svc")
Old == Holder(ctr, "old")

\* Where the helper's containers are.
HelperInv(h) ==
    /\ h.pc = "lookup" => Svc \subseteq verified
    /\ h.pc \in {"image", "clear", "park"} => h.old \in Svc \cap verified
    /\ h.pc \in {"stop", "create", "start", "verify", "drop", "rbremove", "rbrename"} => h.old \in Old
    /\ h.pc \in {"stop", "create"} => Svc = {}
    /\ h.pc \in {"start", "verify"} => h.new \in Svc
    /\ h.pc = "drop" => h.new \in Svc \cap verified
    /\ h.pc = "rbremove" => h.new # h.old

\* A container that came up is parked, or has the name.
VeeryInv ==
    /\ \A c, d \in Svc : c = d
    /\ \A c, d \in Old : c = d
    /\ Old \subseteq verified
    /\ Old # {} \/ (Svc # {} /\ Svc \subseteq verified)
    /\ \A j \in Jobs : HelperInv(hlp[j])
    /\ proc = "retire" => self \in Svc
    /\ proc \in {"remove", "rename"} => self \in Old

\* Before the only helper runs nothing has touched the containers, and the request names
\* the one Veery runs in.
LoneInv ==
    \A j \in Jobs : req[j].pc \in Before =>
        /\ Svc \subseteq verified /\ Old = {}
        /\ req[j].pc \in {"pull", "handoff"} => req[j].old = self

\* A verdict that agrees with what settleJob would find.
Honest(v) == (v \in Succeeded /\ OnSnapshotImage) \/ (v \in Failures /\ ~OnSnapshotImage)

\* Where a request is the one that has to close its job.
Owns(r) == r.pc \in (Busy \ {"unlock", "forget"}) \/ (r.pc = "unlock" /\ r.verdict # "active")

\* One undisturbed update: where its containers and their images are,
CalmHelper(h) ==
    /\ h.pc \in {"lookup", "image", "clear", "park", "rbstart", "finish"} => Old = {}
    /\ h.pc \in {"clear", "park", "stop", "create", "start", "verify", "drop", "rbremove", "rbrename",
                 "rbstart"} => ctr[h.old].image # localTag
    /\ h.pc \in {"start", "verify", "drop"} => ctr[h.new].image = localTag
    /\ h.pc = "rbremove" => Svc \subseteq {h.new}
    /\ h.pc = "rbrename" => Svc = {}
    /\ h.pc = "rbstart" => h.old \in Svc
    /\ h.pc = "finish" => Honest(h.verdict)

\* whose its row is,
CalmRow(j) ==
    /\ hlp[j].pc = "exited" => Honest(row[j])
    /\ j \in Updaters => row[j] = "active"
    /\ Owns(req[j]) => row[j] = "active" /\ hlp[j].pc \in {"none", "created"}
    /\ req[j].pc = "idle" => row[j] = "none"
    /\ watch[j] # "off" \/ j \in found.updaters => hlp[j].pc \notin {"none", "created"}

\* and what Recover makes of it.
CalmProc ==
    /\ proc \notin {"resume", "serving"} => found.updaters = {} /\ watch = NoWatch
    /\ proc = "prune" => Updaters = {}
    /\ proc = "resume" => Updaters \subseteq found.updaters
    /\ proc \notin {"retire", "remove", "rename"}
    /\ Updaters = {} => Old = {}

CalmInv ==
    /\ \A j \in Jobs : CalmHelper(hlp[j]) /\ CalmRow(j)
    /\ CalmProc
=============================================================================

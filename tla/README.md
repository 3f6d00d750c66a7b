# Veery: a TLA+ verification project

Veery is a self-hosted dashboard that watches the containers of one Docker host
and updates them. It is one Go process (`cmd/veery`) with a SQLite database, a
Docker socket, a WebSocket hub for its clients, and a few pollers. This directory
holds TLA+ modules that model it, TLC configurations that check them on small
instances, and proofs that TLAPS checks.

## 1. The system

| Component | State it keeps | Operations | Hard behaviour | Modules |
|---|---|---|---|---|
| Transactional update (`internal/docker/update.go`, `snapshot.go`) | the daemon's containers, the `managed_containers` row, a lock per container name | `Update`, `doUpdate`, `pullImage`, `swap`, `recreate`, `verifyHealthy`, `rollback` | every daemon call can fail or be the last before a crash; two updates of one container; a user who recreates it meanwhile | `Update`, `Swap` |
| Startup recovery (`recover.go`) | none: it reads the daemon and `update_jobs` | `Recover`, `reconcileParked`, `resumeJobs`, `watchJob`, `settleJob` | finishes what a crash interrupted, from what is left of it | `Update`, `SelfUpdate` |
| Jobs (`jobs.go`, `store/update_jobs.go`) | `activeJobs` in memory, `update_jobs` on disk | `jobWithID`, `track`, `forget`, `JobSnapshot` | a row outlives the goroutine that would close it | `Update`, `SelfUpdate`, `Hub` |
| Self-update (`selfupdate.go`, `self.go`) | a helper container, labelled with the job | `handOff`, `ApplyUpdate`, `finishApply`, `pruneUpdaters` | three processes share the daemon and the database, and no lock | `SelfUpdate` |
| Lifecycle actions and stacks (`actions.go`, `lifecycle.go`, `jobs.go`) | none | `Start`, `Stop`, `Restart`, their stack-wide forms, `BringUpStack` | run beside updates; the stack-wide ones take no lock | `Lifecycle` |
| Reconcile and adoption (`reconcile.go`, `lifecycle.go`, `store/docker_store.go`) | `stacks`, `managed_containers` | `Reconcile`, `adoptNew`, `rerecord`, `forgetComposeTemp`, `Adopt`, forgetting | what was listed is stale by the time it is stored | `Fleet`, `Lifecycle` |
| Status notifications (`docker/notify.go`) | last status per container, in memory and stored | `ListStacks`, `noteStatuses` | listings compared out of order; a crash between telling and saving | `Statuses` |
| Update checks (`updatecheck.go`, `autoupdate.go`) | update flags, in memory and stored | `checkUpdates`, `remoteHasNewImage`, `seedUpdateAvail`, `persistUpdateAvail` | a check that began before an update ends after it | `UpdateCheck` |
| WebSocket hub and live pages (`server/ws.go`, `web/src/live`) | clients, a bounded queue each; a page's jobs and stacks | `Broadcast`, `add`, `replayJobs`, `remove`, `handleJob` | replay against live broadcasts, full queues, reconnects | `Hub` |
| Event log (`notify`, `store/events.go`, `web/src/routes/Events.tsx`) | the table `events` | `Notify`, `record`, `pruneEvents`, `ListEvents` | paging while the table grows and is pruned | `EventLog` |
| RAID watcher (`raidwatch`) | last states, schedules, failures | `sweep`, `checkTransitions`, `runSchedules`, `recordFailure`, `Start` | retries, restarts, manual starts beside scheduled ones | `RaidWatch` |
| Accounts (`auth`, `oidc`, `store/accessors.go`, `server/auth_handlers.go`, `oidc_handlers.go`) | users, passkeys, invites, sessions, pending ceremonies | registration, recovery, second device, login, OIDC, deletion | several statements per request and no transaction | `Accounts` |

The components call each other directly (handlers and pollers call the Docker
manager, which calls the store), share the daemon and the database (old Veery, helper
and new Veery in a self-update), and publish to the hub. The HTTP handlers run their
operations in goroutines with a context detached from the request, so any two
operations may interleave. `PROJECT.json` lists the hazards this leads to, each at its
line, with the properties that would catch it going wrong.

## 2. The modules

Every module but `Docker` and `Swap` is one state machine. A goroutine or a request is a
program counter with locals; each daemon call, and each database statement that
another actor could come before, is one action. A crash forgets what is in memory
and keeps the daemon and the database. The `MC*` modules give constants that a
cfg cannot (functions, sequences, symmetry). `TypeOK` is stated in each module and is the first
conjunct of an inductive invariant where there is one.

**`Docker`** (external: the daemon is not in the repository) is the daemon as Veery
uses it: a table of containers with name, image, spec and run state, the API calls
as operators on that table, and what containers do by themselves. It looks at one
managed service, so there are two names: the service's and the parked one.

**`Update`** is the in-process update of one service, the crash and restart of Veery and
`Recover`. State: the daemon's (`ctr`; `localTag`, `remoteTag`, what the image reference
resolves to), the database's (`rec`, the `managed_containers` row; `row`, the verdicts of
`update_jobs`), the process's (`lock`, `job`, `active`, and `proc` and `found` for
`Recover`), and the history `trusted`, `taken` and `passed`. `trusted` are the containers that came up
under `verifyHealthy` or were made by the user, and those in `taken`. A restart goes one of two
ways: `RecoverList` reconciles what is parked, `RecoverPass` leaves it, as the code does while the helper of a
self-update runs (recover.go:31, the helper need not have to do with this service) or when a
listing fails. Nothing comes back to what was passed over (`passed`): the next update or sweep that
inspects the service's container relies on it (`Rely`), and if it never came up it is `taken` from
then on. `swap` is `ClearParked` (update.go:167), `Park`, `StopOld`,
`Create`, `StartNew`, `Verify`, `DropOld`, `RecordNew`; `rollback` is `RollbackRemove`,
`RollbackRename`, `RollbackStart`. A call fails when it is in `Faults` or when the daemon has a
reason; errors the code ignores leave the state alone and go on. `Verify` is the poll
that ends `verifyHealthy`, and the window may close at any poll. Left out: progress
texts, `drainPull`, and the pruning of the old image (the daemon refuses to remove one
that is in use). Database writes do not fail.

**`Swap`** says what an update promises without saying how: a service always has a
container that is known to work; an update replaces it in one step, by one that came
up with the same spec, and for a while can undo that; only the user changes the spec. There is
one exception, `TakeOver`: the replacement of an interrupted swap that no restart reconciled
takes the container's place without having come up (it is `unproved` then, for good).
**`UpdateSwap`** gives the refinement mapping: the working container is the one with the
service's name once it is trusted, and the parked one until then; `taken` is `unproved`. `ImplementsSwap`
is `Swap`'s specification under that mapping.

**`Lifecycle`** extends `Update` with the other actors on the same container: start, stop and
restart (`Resolve` the name, `TakeLock`, `Act`, `Await`, `ReleaseLock`), their stack-wide forms
(`ListStack`, `Each`, `AwaitEach`, no lock), `BringUpStack` (`BringUpLook` to `BringUpRecord`, no
lock) and the sweep's `rerecord` (`TryLock`, `Reread`, `ReInspect`, `Rerecord`). They share `Update`'s
daemon, record and lock; `locks` are those of other names, since a reference to a parked
container resolves to another name and so to another lock. A container told to
stop may be up for a while (`stopping`).

**`SelfUpdate`** is a state machine of its own over the same daemon, because the actors
differ: `req`, the goroutine of `Update` up to `handOff`; `hlp`, the helper of each job
(`ApplyUpdate` with `swap` and `rollback`); and `self`, `proc`, `found`, `lock`, `active`, `watch`, the Veery
that is up, from its `Recover` to its `watchJob` goroutines. Stopping, removing or
killing Veery's container ends the process (`Become`), starting one begins a `Recover`
(`Boot`), so the helper's steps kill and start the other two actors. Veery publishes
its port, so one Veery is up at a time; the branch of `reconcileOne` for a healthy Veery
beside the recovering one (recover.go:83-86) cannot be reached then and is left out.
A request hands off the container Veery runs in, and with one request that is what it has
inspected (`HandsOffItself`). With several, and a stop that failed, one may find another helper's
replacement under the name, which `doUpdate` would swap in-process (update.go:120); the request
then goes no further here, so that what `SelfUpdate` says of several requests leaves that case out.
Whether daemon calls may fail is chosen once per behaviour (`budget.faults`); `Disturbed`
says that they may or that the helper was killed.

**`Fleet`** is what Veery manages. `ctr` are the host's containers, with the temporary names of
both kinds of compose (the old one parks what it replaces, the new one renames what it
made); `stacks` and `rows` are the tables; `sweep` is `Reconcile` (`SweepList`, `SweepRows`, then look
and write per container) and `adopt` is `Adopt`, statement by statement, in each of the goroutines that
serve adopt requests: the handler takes no lock. `asked` and `raced` are history: the stacks adopted and
not forgotten since, and the names whose first row came while somebody else who had looked
and found none was about to insert one.

**`RaidWatch`**: the kernel's arrays (`md`) and the clock change by themselves; the
database holds `schedules`, `lastRun`, `failures`, `baseline`, `lastScan`; the process has `mu`, the sweep's
locals (`sweep`) and those of each start by an admin (`man`). A sweep is `Scan`, `Announce`,
`SaveBaseline`, `SaveLastScan`, then under `mu` `LoadSchedules`, one of `Pass`, `Fire` and `Miss` per
array, `SaveLastRun`, `SaveFailures`. An RRULE is the set of its occurrences, an array has
one disk, `RollupState` is the code's, `/proc/mdstat` is not parsed. `sent`, `fired`, `tries` and
`savedAt` are history.

**`Statuses`**: each goroutine that calls `BroadcastStacks` (`cast`) lists the host, reads the managed
rows and then the jobs (the three reads of `ListStacks`), takes `statusMu`, compares with
`lastStatus`, announces and saves. `told` is what the user last heard, `doubt` what was
told and then forgotten by a crash before it was saved.

**`UpdateCheck`**: each check (`check`) asks the registry and then the daemon about one container after
another, sets `updateAvail`, and stores the flags if one changed; updates, recreations by
hand and a restart (`seedUpdateAvail`) move the same flags.

**`Hub`**: a broadcast stores the message as the last of its type and lists the clients
in one step under the lock, then sends to one client at a time without blocking (`cast`).
A connection registers, is pushed the last stack list outside the lock, and gets a job
picture read from the registry and from the database in two steps. `page` is the browser tab:
its stacks, spinners and reported outcomes. `quiet`, `watch` and `lost` are history.

**`EventLog`**: `Record` inserts and prunes, `Push` sends the row to the page, `Open` and `FetchNext`
are the page's queries; `ListEvents` is the paged query with its cursor and the limit's clamp.

**`Accounts`**: the tables (`users`, `admins`, `keyed`, `sessions`, `link`, `invite`), the ceremonies in
memory (`cer`), and each request (`req`) statement by statement. WebAuthn and the provider
are verdicts; which kinds of ceremony the library lets a creation finish is the constant `Creations`.
The ceremony and the invite's token reach `FinishRegistration` in two cookies that nothing binds, so
a finish pairs any creation with any invite; user id and admin flag are the ceremony's. A login
ceremony carries the empty id, `Empty`. `deleted`, `returned`, `enrolled` and `hist` are history.

## 3. Runs

| Run | Instance | Shows |
|---|---|---|
| `faults` | 2 jobs, 3 containers, a good and a bad image without health check, 2 specs, 1 crash, restarts with and without recovery, 1 recreation by the user, every call but remove may fail | `KnownGoodKept`, `NameHeldByVerified`, `IndInv`; `ImplementsSwap` |
| `lifecycle` | 1 job, 1 other actor doing any one thing, images with health check, 2 specs, 1 crash, 1 recreation by the user | `LTypeOK` (a lock is held by exactly those who act under it), `RecordNotTentative`, `RecordVerified`, `UpdateKeepsSpec`, `NameHeldByVerified` |
| `lifelive` | the same without health check, 1 spec, no recreation, fair | `NothingParked`; `AllReturn`, `NameComesBack` |
| `selfupdate` | 1 update of Veery, 2 crashes, 1 kill of the helper, with and without failing calls, fair | `KnownGoodKept`, `RecoverAlone`; `JobsFinish`, `SpinnerResolves`, `VeeryReturns`, `VerdictKind` |
| `schedule` | 2 arrays, 1 rule, 2 retries, 1 start by an admin, 1 edit, failing starts | `SweepCurrent`, `PendingRetryDue`, `OncePerOccurrence`, `ScheduleInv`, `AttemptsBounded` |
| `raidlive` | 1 array with every disturbance, 1 retry, 1 crash, failing starts, fair | `AnnouncedFirst`, `DueServed`, `WarningClears` |
| `fleet` | 1 stack with 1 service, 3 containers, 2 specs, 2 adopters beside the sweep, 2 adoptions, forgettings and crashes in all, 2 recreations, 4 rows, fair | `ForgottenStays`, `OneRowPerName`; `RecordFollows` |
| `hub` | 1 page, queues of 2, an update and another job, 1 lost connection or crash, fair | `ReplayClears`, `FinalSeen`; `StacksConverge` |
| `accounts` | 2 users and the empty id, 2 invites, 1 OIDC identity, 1 ceremony at a time, 2 requests, any number of crashes | `InviteOnce`, `AdminRemains`, `DeletedStaysDeleted`, `EntryOffered` |
| `statuses` | 2 containers, the poller and 2 other calls, 2 upsets, fair | `NothingRepeated`; `LastWordTrue` |
| `eventlog` | 3 events of 2 types over 3 ticks, pages of 1 and 2 rows, 1 lost push or crash | `PagesInOrder`, `NothingSkipped` |
| `silent` | 1 container, 2 later versions, 1 update, 1 crash, fair | `UpdateAnnounced` is violated |

`silent` is a fault of the code: `swap` clears the update flag in memory only, and the
flags are stored only by a check that changes one. If Veery restarts after an
update, and a yet newer image was published in between, it starts with the flag of
the update already applied, the first check finds nothing new, and the newer image is
never announced. What the user sees on the page is right all the same:
`FlagConverges` holds (1.8 million states, the same module).

### Bounds

Two jobs are the least at which the lock matters, and every property is about one
service; a job uses one new container, so three ids let both finish, or one beside
a recreation by the user. The proofs cover
any number of each. In `lifecycle` one actor beside one job meets every pair of operations, because
two actors that are not updates meet under the same lock the same way. One crash may happen at any
step, of a job or of a recovery an earlier state calls for, and after it the restart may recover or not; in `selfupdate` a second crash
and the helper's kill let the replacement die before and after the helper does. In the
runs of `RaidWatch` a rule has two occurrences, so that a set of retries can end, or not,
before the next one, and two arrays are the least at which a save can undo what was
recorded of another. Three containers let `Fleet` recreate a service twice, once with
each compose. Queues of two fill with a replay and one message. Two requests are the least that race over
an invite or over the last admin; two invites leave one for recovery, or one to finish a second
device's ceremony with. The run lets a creation finish the three ceremonies that ask for one; with
login ceremonies too its properties hold as well (5.1 million states). Two adopters race with each other, or one of
them with the sweep; with three calls instead of two `fleet` has 4.8 million states and holds. A page of one row
and an event more than two pages hold put a cursor between two rows of one second.
Where an id runs out, the action that needs it is disabled; that is also why `Deadlock` is
not checked where a system that has used up its bounds, or is idle, stops.

### Fairness

Weak fairness on the steps of goroutines (they are scheduled, daemon calls return, a
verify window closes, a stop is waited for no longer than `awaitStopTimeout`), on
timers (the pollers of stacks, updates, reconcile and RAID), on restarts (a restart
policy or an operator starts Veery again) and on the page's dialling (`ws.ts` dials until
it gets through). Strong fairness on taking `statusMu` in `Statuses`, since Go's
`sync.Mutex` hands over to a waiter that starves. Nothing is assumed of the registry, the
user, requests, kills, when a container stops, or when a scrub ends.

### What the runs do not hide

Each of these is stated in a module, or is a change of one constant, and TLC finds
it violated; no run repeats that. They say where the passing properties end.

| Property | What happens | The code or docs say |
|---|---|---|
| `ServiceRestored` (`Update`) | Veery dies between the rename and the start of a rollback; `Recover` looks for parked containers only and starts nothing | "a bad image therefore cannot leave a service down", docs/updates.md:28-29 |
| `SettleTruthful` (`Update`) | a job that died before its pull is settled as updated: its container does run what the reference resolves to, the old image | recover.go:204-205 |
| `NoCrashLoopAccepted` (`Update`) | without a health check a container that is restarting when the window closes counts as healthy | update.go:236-237 |
| `KnownGoodKept`, `RecordVerified` (`Update`) without `taken`, `NameHeldByVerified`, `NothingParked`, `NameComesBack` without `passed` | Veery is replaced by its own update while another service is mid-swap. The new Veery starts with the helper still running and reconciles nothing, then or later: the service keeps an unproved replacement or stays parked, and the next update of it removes the container that is parked, the last one known to work | "the same guarantee a completed update gives", recover.go:69; that nothing is done while a helper runs is deliberate, docs/updates.md:58-59 |
| `KnownGoodKept` with `"remove"` in `Faults` | the failed removal of a replacement is ignored; it keeps the name, and the next update removes what is parked | update.go:148-150, 167, 212 |
| `KnownGoodKept` with two jobs (`SelfUpdate`) | the lock is released at the hand-off, so a second helper removes what the first has parked. One after the other it takes a kill or a failed removal: the replacement under test keeps the name, the next helper takes it for the old Veery and first removes what is parked | "the only thing touching this container", selfupdate.go:104-105 |
| `SpinnerResolves`, `JobsFinish` without `Disturbed` | a helper that fails before it stops the old Veery leaves that one with the job in flight | jobs.go:13-15 |
| `VerdictFinal` (`SelfUpdate`) | `watchJob` reads an unfinished row, the helper writes its verdict and exits, `watchJob` writes its own; `VerdictKind` shows how far this goes | recover.go:169-170 |
| `NoLeftoverParked` with a bring-up (`Lifecycle`) | `BringUpStack` takes no lock: it takes the name of a container that is being swapped, and what the swap has parked stays behind. That the name is a trusted container's and the record too holds with bring-ups (`LifeSafety`) | client.go:42-44, lifecycle.go:339 |
| `NeverTogether` (`Lifecycle`) | a stack-wide action, or one on the parked container's id, changes a container an update is swapping | client.go:42-44 |
| `OneRowAlways` (`Fleet`) | an adoption and a sweep, or two adoptions, both find a container unmanaged and both insert it | docker_store.go:52 |
| `NoEmptyStack` (`Fleet`) | `Adopt` upserts the stack before it looks for containers that belong to it, and leaves it when there are none | docker_store.go:165-168 |
| `NotBeforeSaved` (`RaidWatch`) | a changed schedule is compared with the last run of the old one and fires for a time before it was saved | docs/mdadm.md:42-43 |
| `RecoveredMeansUp` (`RaidWatch`) | a degraded array counts as recovering while a scrub runs on it, announced as "healthy again" | raidwatch.go:156-157 |
| `OncePerOccurrence`, `PendingRetryDue` with a crash | Veery dies after it started a scrub and before it saved that; the occurrence fires again | schedule.go:74-75 |
| `NoStaleSpinner` (`Hub`) | a job ends between the reading of the job picture for a replay and its queueing: the final message comes first and the stale picture brings the spinner back, until the next connection. A final message that is dropped has the same effect; the comment speaks of "dropping slow clients", the code drops messages | ws.go:36-37 |
| `AdminAlways` (`Accounts`) | two removals both count two admins and both go ahead | auth_handlers.go:247, oidc_handlers.go:125, docs/oidc.md:62 |
| `DeletedForGood` (`Accounts`) | a second-device ceremony is begun, its user is deleted, and it is finished as a registration with an open invite: `CreateUser` runs with the deleted id. The invite is used up and `InviteOnce` holds, but which account a token yields, and whether it is an admin's, is not the invite's to say | "stores the credential, and consumes the invite. Returns the new user id", webauthn.go:162; no check of the ceremony's kind, webauthn.go:163-187 |
| `LastWordAlways` (`Statuses`) | Veery dies between telling and saving and the container changes back meanwhile | store/notifications.go:66-68 |
| `NoFalseRemoval` (`Statuses`) | the host is listed before the jobs are read; an update that ends in between shows its container as removed | lifecycle.go:98-100, jobs.go:72-75 |

## 4. Proofs

`UpdateProofs` proves, for every set of jobs, containers, images and specs and any
number of crashes:

* `TypeCorrect`: `Spec => []TypeOK`, whatever fails;
* under `Reliable` (removing containers does not fail; the table above says what happens
  otherwise), and whether restarts recover or not: `KnownGood`, `NameIsVerified`, `RecordIsVerified`, `SpecIsKept`, and
  `Invariance`, on which they rest.

None of the four is inductive. That dropping the parked container is harmless
depends on the replacement having come up, which depends on nobody else having
touched either, which depends on the lock; after a crash it depends on what
`Recover` found. `IndInv` says this: `LockInv` (one job at a time is between lock
and unlock, and only in a serving process), `JobInv` (what is parked is trusted,
the replacement is another container, made to the same spec), `FoundInv` (the same
for `Recover`), and `NamesInv` (whatever is parked is trusted; whoever holds the service's name is
trusted or is the replacement under test (`NamesProved`), or else a trusted container is parked and
the swap is as a crash left it (`Unsettled`): not yet reconciled, or passed over and not looked at since).
That last case is why an update that inspects a container must be said to rely on it. The proof has a lemma
per action. The lemmas at its start say who holds which name after each
operation of the daemon, so that the rest never looks inside the table.

It then proves `UpdateImplementsSwap`: under `Reliable`, `Update` implements `Swap`. `Swap`'s
state is read off who holds the two names and which containers are trusted, so each action of
`Update` is first shown to do one of a few things to those (`Effect`), from `IndInv`; each of them is
then a step of `Swap` or a stutter. `SwapInv` adds to `IndInv` what the mapping needs.

The last part of the module is about `Lifecycle`, with any number of actors beside the jobs:

* `LifeTypeCorrect` (`LTypeOK`), whatever fails. `ActorInv` says which lock an actor holds at which step
  (`HeldInv`) and what of its locals is set then.
* under `Reliable`: `SweepWaits` (`RecordNotTentative`), `LifeSafety` (the four results above, for `LSpec`) and
  `LifeImplementsSwap`, from `LifeInvariance`. `LifeInv` is `ActorInv`, `Update`'s `IndInv`, `Untried` (a
  replacement that is being tried is not trusted, also not by somebody else's step) and
  `RecordingOf` (what an actor is about to record is a trusted container's id and spec). Every
  action of an actor that takes no lock is shown to do to the daemon's table only what `IndInv` allows
  anyone at any time; the sweep, which writes the record, is shown to be alone by the lock.
* under `Undisturbed` (no call fails, the user recreates nothing): `LeavesNothingParked` for `Spec`, and
  `ActionsLeaveNothingParked` (`NothingParked`) for `LSpec`. `PlacesInv` says where the two containers of
  a swap are at each of its steps, unless a restart passed one over; it is kept by every action but a
  bring-up's.

`SelfUpdateProofs` is about three processes that share no lock.

* `RecoverActsAlone` (`RecoverAlone`, and the types): any number of jobs, crashes and kills, whichever
  calls fail. `RunInv` says who is up, that requests are made of a Veery that serves, and that a
  helper starts from a request only; a Veery that recovers therefore meets no helper it did not list.
* `OneUpdateKeepsVeery` (`KnownGoodKept` under `Lone`, one job): every call may fail, and Veery and the
  helper be killed at any step. `VeeryInv` places the verified container at each step of the helper
  and of `Recover`: parked, or the holder of the name. It is inductive if a helper finds a
  verified holder when it begins, which is `LoneInv`.
* `HandsOffItself` (under `Lone`): a request that reaches the hand-off has inspected the container Veery
  runs in, so the guard of `HandOff` leaves nothing out.
* `OneUpdateOneVerdict` (the action property `VerdictKind` under `Lone`). `CalmInv`, which holds as long as the
  behaviour is not `Disturbed`: where the images are at each step of the helper, so that the verdict it
  is about to report is what `settleJob` would find (`Honest`); who may still write the row; and that
  `Recover` finds nothing parked unless a helper is listed with it. So the late write of `watchJob`, which
  refutes `VerdictFinal`, is always of the same kind.

For more than one self-update `KnownGoodKept` has no theorem: the lock is released at the hand-off, and the
table in section 3 has the counterexamples for a second helper, a kill between two updates, and a
failing removal.

`RaidWatchProofs` proves, for every number of arrays, rules, delays and requests:

* `TypeCorrect` and `Serialised` (`Spec => []SweepCurrent`), with any number of crashes;
* under `Calm` (no crash): `FiresOnce` and `RetryIsDue`, from `Scheduling`
  (`Spec => []ScheduleInv`).

`ScheduleInv` adds to the two properties what makes them inductive: who holds `mu`
when (`LockInv`), that last runs are never later than the sweep (`ClockInv`), and that
both are read off the last run in force, which is the sweep's own copy while the loop
runs and the stored one otherwise (`Anchor`, `FiredInv`, `RetryInv`).

Two more theorems hold with any number of crashes. `RetriesBounded` (`AttemptsBounded`) rests on
`TriesInv`: the attempts made are never more than the failure in force counts, which is the
sweep's copy while it holds `mu` and the stored one otherwise. `NoTransitionLost` (the action
property `AnnouncedFirst`) rests on `SentInv`: when the baseline is about to be saved, all it moves
past has been announced.

`AccountsProofs` proves `EnrollsOnce`, `DeletionFinal`, `LastAdminStays` and `WayIn`, for any users, invites,
identities, ceremonies, requests and crashes. `AccountsInv` relates what each request has read to
the tables: `RedeemInv` (an invite that enrolled is spent, and one request at a time is between
redeeming it and storing the passkey), `AdminInv` (a count of admins a removal has read is still
covered by the admins there are, unless removals overlap), `BoundInv` (only a second-device or recovery
ceremony carries the id of a user that existed, and a recovery never creates one), and `FirstInv` (before the first
user there is nobody to recover).

`FleetProofs` proves `ForgottenForGood` and `OneRow`. A row is inserted under a name that was looked up
in an earlier step; `RowsInv` says that what the sweep and each adoption saw still holds unless another
came between (`raced`), `TodoInv` that the sweep takes each listed name once, and `NamesUnique` that this
is enough, because a name is one container's. That last one did not hold of an earlier `ParkOld`,
which let compose rename a container to a name already taken when it recreated a service three
times; the daemon refuses that, and the guard is now there.

`EventLogProofs` proves `InOrder` and `NoneSkipped`, for any sizes of pages, any retention and any number
of rows in one second. `LogInv` adds that ids are unique and never reused (`TableInv`), which makes
`Newer` a total order, and that a row not shown is after the cursor (`PageInv`). The page's rows are an
ordered list of a set (`Ordered`); that there is one for every finite set is proved by taking the
least size at which there is none.

`StatusesProofs` proves `NewsOnly` (`NothingRepeated`), for any containers, goroutines, updates, failed
saves and crashes. `ToldInv`: outside a comparison, what the user last heard of a container is
nothing or what the next listing is compared with; inside one, a container whose message is sent
has been told the new status and every other the old one. `MessagesInv` says that the messages are
about different containers and that only the holder of `statusMu` has any.

`HubProofs` proves `ReplayMakesUp` (`ReplayClears`) and `OutcomeSeen` (`FinalSeen`), for any pages, jobs, faults
and capacity. Both are about the order in which messages are handled, so `HubInv` is about the
queues: `QueueInv` (one replay, behind the progress of every job that had ended when it was read;
nothing about a job behind its final message), from `ServerInv` (no step of a job is taken before the
last send of its broadcast). `ReplayInv` ties the replay to what was read for it, and `WatchInv` says
where the outcome of a job the page saw begin is: not sent yet, in the queue, or reported.

Each of these invariants was checked with TLC before it was proved, on the instance of its run or
a larger one: `AccountsInv` (2.1 million states), `SwapInv` (1 million), `TriesInv` and `SentInv` (0.8 million,
with a crash), `FleetInv` (1.3 million), `LogInv` (0.3 million), `StatusesInv` (3 million, three
upsets), `HubInv` (0.9 million), `ActorInv` and `LifeInv` (6.4 million with failing calls; 8.3 million of two
actors, the search cut there), `PlacesInv` (15 million of two jobs and an actor, cut there), `RunInv` (6 million, two jobs), `VeeryInv` and `LoneInv` (0.1 million, two crashes and a kill),
`CalmInv` (0.1 million). They are not part of the runs: the theorems say more.

### Assumptions

The constants are arbitrary sets and numbers. The named assumptions say that bounds are natural
numbers, that `None` is not a value of the sets it is added to, that a queue has room for a message,
that at least one good image, service and container id exist in `Fleet`, and that `HostStates` has
"running" and "gone". `Reliable`, `Undisturbed`, `Calm` and `Lone` are hypotheses of the theorems that
need them; the table in section 3 shows what happens without.

### Only model-checked

The liveness properties, since TLAPS does not reason about fairness or `ENABLED`: `AllReturn`,
`NameComesBack`, `JobsFinish`, `SpinnerResolves`, `VeeryReturns`, `DueServed`, `WarningClears`, `RecordFollows`,
`StacksConverge` and `LastWordTrue`. `UpdateCheck`, whose only run shows a violation. `VerdictKind` for more than
one self-update at a time: a second one moves the tag by which the first is judged. Every other
property of a passing run is a theorem. In `LastWordTrue` the status a container has
after its update counts as told, since the update reports its own outcome: a change swallowed by the update is no violation.

## 5. Not modelled

* Host metrics: reads `/proc`, `/sys` and the daemon's counters; no other part depends on it.
* Schema and settings: a statement is an atomic step of the module that issues it, and
  foreign keys are part of the actions that write. Settings are constants.
* Parsing: `/proc/mdstat`, the pull's progress, the RRULE grammar, WebAuthn and OIDC
  messages. They are functions of their input with tests of their own.
* Delivery of notifications (shoutrrr), TLS, static files, flags and logging: I/O.
* The views of the web client other than the live data and the activity page: they keep
  no state that follows a protocol.

## 6. Where to go on

Every component that keeps state has a module, and every invariant and action property of the
runs a proof. What would say more:

1. Two changes of the code that the modules could try before it is written: one helper at a
   time (a hand-off that keeps others out until its job is closed), which would make `OneHelper` of
   `SelfUpdate` an invariant, and what it leaves out of `HandOff` unreachable; a `Recover` that reconciles the
   services no helper owns, after which `passed` and `taken` could go; and a `BringUpStack` that takes the container's lock, after which
   `NothingParked` should need no exception.
2. `Update` looks at one service. Services share no container and no lock, but a stack-wide
   action covers several, and a running helper of Veery's own update suspends the recovery of
   all of them (recover.go:31), which `Update` has as a choice of every restart. A module over a
   set of services and a helper would show when that choice is open, and that nothing else
   connects them.

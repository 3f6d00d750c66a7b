------------------------------ MODULE RaidWatch ------------------------------
(***************************************************************************)
(* The RAID watcher (internal/raidwatch): a poller that compares the md    *)
(* arrays with a stored baseline and announces what changed, starts the    *)
(* scrubs that are due and retries the ones that do not start, and the     *)
(* starts an admin asks for beside it.  The two share the stored failures, *)
(* under the mutex mu.                                                     *)
(*                                                                         *)
(* Abstractions.                                                           *)
(*  - An array has one member disk that may drop.                          *)
(*  - Time is a counter, an RRULE the set of its occurrences.              *)
(*  - Maps are saved whole; the code skips saving one that did not change, *)
(*    which is the same.  Database calls do not fail.                      *)
(*  - An empty scan ends the sweep at once: it is a stuttering step.       *)
(***************************************************************************)
EXTENDS Integers, Sequences, FiniteSets

CONSTANTS
    None,
    Arrays,         \* the md arrays
    Rules,          \* the RRULEs an admin may save
    Occ,            \* Occ[r]: the times at which rule r has an occurrence
    RetryDelays,    \* retryDelays
    Requests,       \* starts by an admin
    Disturb,        \* what happens to arrays by itself: "disk", "inactive", "vanish", "sync"
    StartFaults,    \* whether the kernel may refuse a start for no visible reason
    MaxTime,        \* bound: the clock
    MaxEdits,       \* bound: how often schedules are saved
    MaxCrashes      \* bound: crashes of Veery

ASSUME RaidAssumption ==
    /\ RetryDelays \in Seq(Nat \ {0})
    /\ Occ \in [Rules -> SUBSET Nat]
    /\ MaxTime \in Nat /\ MaxEdits \in Nat /\ MaxCrashes \in Nat
    /\ None \notin Arrays \cup Rules \cup Requests \cup Nat
    /\ StartFaults \in BOOLEAN

Poller == "poller"
ASSUME PollerAssumption == Poller \notin Requests \cup {None}

VARIABLES
    now,        \* the clock
    md,         \* the kernel's arrays, as ScanMdadm reports them
    schedules,  \* stored: the rule of each array
    lastRun,    \* stored: when the scheduler last fired
    failures,   \* stored: the outstanding failure to start a scrub
    baseline,   \* stored: what the last sweep saw
    lastScan,   \* stored: when a scrub was last seen to finish
    mu,         \* who holds Watcher.mu
    sweep,      \* the sweep under way: program counter and locals
    man,        \* the starts by an admin: program counter and locals
    sent,       \* history: what was announced since the sweep's scan
    fired,      \* history: how often each occurrence started a scrub (up to 2)
    tries,      \* history: attempts in a row that failed with a retry to come
    savedAt,    \* history: when an array's schedule was last saved
    budget      \* edits and crashes left (bounds)

kernelVars == <<now, md>>
storeVars  == <<schedules, lastRun, failures, baseline, lastScan>>
histVars   == <<sent, fired, tries, savedAt>>
vars == <<now, md, schedules, lastRun, failures, baseline, lastScan, mu, sweep, man,
          sent, fired, tries, savedAt, budget>>

Opt(S) == S \cup {None}
Time == 0 .. MaxTime
Limit == Len(RetryDelays)
Times == UNION {Occ[r] : r \in Rules}
Actions == {"idle", "check", "recover"}
Array == [listed : BOOLEAN, active : BOOLEAN, up : BOOLEAN, action : Actions]
MdStates == {"failed", "recovering", "degraded", "healthy"}

\* MdScanFailure; next = 0 means that there is no retry to come.
Failure ==
    {f \in [attempts : 1 .. Limit + 1, scheduled : BOOLEAN, next : Nat] :
        f.next > 0 => f.scheduled /\ f.attempts <= Limit}
ASSUME FailureAssumption == None \notin Failure

\* rollupState.
RollupState(m) ==
    IF ~m.active THEN "failed"
    ELSE IF m.action # "idle" THEN "recovering"
    ELSE IF ~m.up THEN "degraded"
    ELSE "healthy"

\* snapshot.
Snapshot(m) == [state |-> RollupState(m), action |-> m.action, up |-> m.up]
Baseline == [state : MdStates, action : Actions, up : BOOLEAN]

BadState(s) == s \in {"degraded", "failed"}

\* A sweep between two polls.
Resting == [pc |-> "idle", at |-> 0, seen |-> [a \in Arrays |-> None], finished |-> {},
            cfg |-> [a \in Arrays |-> None], run |-> [a \in Arrays |-> None],
            fail |-> [a \in Arrays |-> None], todo |-> {}]

Init ==
    /\ now = 0
    /\ md = [a \in Arrays |-> [listed |-> TRUE, active |-> TRUE, up |-> TRUE, action |-> "idle"]]
    /\ schedules \in [Arrays -> Opt(Rules)]
    /\ lastRun = [a \in Arrays |-> IF schedules[a] = None THEN None ELSE 0]
    /\ failures = [a \in Arrays |-> None]
    /\ baseline = [a \in Arrays |-> None]
    /\ lastScan = [a \in Arrays |-> None]
    /\ mu = None
    /\ sweep = Resting
    /\ man = [r \in Requests |-> [pc |-> "idle", array |-> None, failed |-> FALSE]]
    /\ sent = {}
    /\ fired = [a \in Arrays |-> [o \in Times |-> 0]]
    /\ tries = [a \in Arrays |-> 0]
    /\ savedAt = [a \in Arrays |-> 0]
    /\ budget = [edits |-> MaxEdits, crashes |-> MaxCrashes]

-----------------------------------------------------------------------------
(* sweep: scan and checkTransitions.                                       *)

SweepAt(l) == sweep.pc = l
SweepGoto(l) == sweep' = [sweep EXCEPT !.pc = l]

\* ScanMdadm, at the time the sweep goes by from here on.
Scan ==
    /\ SweepAt("idle")
    /\ \E a \in Arrays : md[a].listed
    /\ sweep' = [Resting EXCEPT
         !.pc = "announce", !.at = now,
         !.seen = [a \in Arrays |-> IF md[a].listed THEN md[a] ELSE None]]
    /\ sent' = {}
    /\ UNCHANGED <<kernelVars, storeVars, mu, man, fired, tries, savedAt, budget>>

\* Mutant: a scrub ends only when the array goes idle.
EventsIdleOnly(m, b) ==
    {e \in {"started"}  : b.action # "check" /\ m.action = "check"} \cup
    {e \in {"finished"} : b.action = "check" /\ m.action = "idle"} \cup
    {e \in {"dropped"}  : b.up /\ ~m.up}

\* notifyScan, notifyHealth and notifyDisks for an array seen as m that was b.
Events(m, b) ==
    LET was == BadState(b.state)
        is  == BadState(RollupState(m))
    IN  {e \in {"started"}   : b.action # "check" /\ m.action = "check"} \cup
        {e \in {"finished"}  : b.action = "check" /\ m.action # "check"} \cup
        {e \in {"unhealthy"} : ~was /\ is} \cup
        {e \in {"recovered"} : was /\ ~is} \cup
        {e \in {"dropped"}   : b.up /\ ~m.up} \cup
        {e \in {"rejoined"}  : ~b.up /\ m.up}

Known(a) == sweep.seen[a] # None /\ baseline[a] # None
NewEvents(a) == IF Known(a) THEN Events(sweep.seen[a], baseline[a]) ELSE {}

Announce ==
    /\ SweepAt("announce")
    /\ sent' = sent \cup UNION {{a} \X NewEvents(a) : a \in Arrays}
    /\ sweep' = [sweep EXCEPT !.pc = "savebaseline",
                              !.finished = {a \in Arrays : "finished" \in NewEvents(a)}]
    /\ UNCHANGED <<kernelVars, storeVars, mu, man, fired, tries, savedAt, budget>>

\* Arrays that were not seen leave the baseline.
SaveBaseline ==
    /\ SweepAt("savebaseline")
    /\ baseline' = [a \in Arrays |-> IF sweep.seen[a] = None THEN None ELSE Snapshot(sweep.seen[a])]
    /\ SweepGoto(IF sweep.finished = {} THEN "lock" ELSE "savelastscan")
    /\ UNCHANGED <<kernelVars, schedules, lastRun, failures, lastScan, mu, man, histVars, budget>>

SaveLastScan ==
    /\ SweepAt("savelastscan")
    /\ lastScan' = [a \in Arrays |-> IF a \in sweep.finished THEN sweep.at ELSE lastScan[a]]
    /\ SweepGoto("lock")
    /\ UNCHANGED <<kernelVars, schedules, lastRun, failures, baseline, mu, man, histVars, budget>>

-----------------------------------------------------------------------------
(* sweep: runSchedules, under mu.                                          *)

\* Lock, and load what is stored.
LoadSchedules ==
    /\ SweepAt("lock")
    /\ mu = None
    /\ mu' = Poller
    /\ sweep' = [sweep EXCEPT !.pc = "run", !.cfg = schedules, !.run = lastRun, !.fail = failures,
                              !.todo = {a \in Arrays : sweep.seen[a] # None}]
    /\ UNCHANGED <<kernelVars, storeVars, man, histVars, budget>>

\* dueSince.
DueSince(rule, since, t) == \E o \in Occ[rule] : since < o /\ o <= t
Window(rule, since, t) == {o \in Occ[rule] : since < o /\ o <= t}

\* StartMdadmCheck: the kernel starts a check on an idle array, or refuses.
StartOk(a) ==
    /\ md[a].listed /\ md[a].active /\ md[a].action = "idle"
    /\ md' = [md EXCEPT ![a].action = "check"]

StartRefused(a) ==
    /\ StartFaults \/ ~(md[a].listed /\ md[a].active /\ md[a].action = "idle")
    /\ UNCHANGED md

\* Mutant: every attempt counts as the first.
RecordFailureAnew(n, scheduled, t) ==
    [attempts |-> 1, scheduled |-> scheduled, next |-> IF scheduled THEN t + RetryDelays[1] ELSE 0]

\* recordFailure after n failed attempts.
RecordFailure(n, scheduled, t) ==
    [attempts  |-> n + 1,
     scheduled |-> scheduled,
     next      |-> IF scheduled /\ n + 1 <= Limit THEN t + RetryDelays[n + 1] ELSE 0]

\* recordFailure notifies of what an admin asked for, of the first attempt and of the last.
FailureEvents(f) ==
    IF ~f.scheduled \/ f.attempts = 1 \/ f.next = 0 THEN {"failed"} ELSE {}

\* Mutant: only the removal of its schedule clears a failure.
MootUnscheduled(a) ==
    LET f == sweep.fail[a]
    IN  f # None /\ f.scheduled /\ sweep.cfg[a] = None

\* A failure is moot once a scrub runs, a scheduled one also without its schedule.
Moot(a) ==
    LET f == sweep.fail[a]
    IN  f # None /\ (sweep.seen[a].action = "check" \/ (f.scheduled /\ sweep.cfg[a] = None))

\* The failure that is left ...
Left(a) == IF Moot(a) THEN None ELSE sweep.fail[a]

\* ... and whether it awaits a retry.
Retrying(a) == Left(a) # None /\ Left(a).scheduled /\ Left(a).next > 0

\* The array is scheduled, its schedule known from an earlier sweep, and it is idle.
MayRun(a) == sweep.cfg[a] # None /\ sweep.run[a] # None /\ sweep.seen[a].action = "idle"

\* Mutant: a retry waits until its time is past.
DueAfter(a) ==
    IF Retrying(a) THEN sweep.at > Left(a).next
    ELSE DueSince(sweep.cfg[a], sweep.run[a], sweep.at)

\* A retry or an occurrence is due.
Due(a) ==
    IF Retrying(a) THEN sweep.at >= Left(a).next
    ELSE DueSince(sweep.cfg[a], sweep.run[a], sweep.at)

\* What the loop over the arrays leaves alone.
runFrame == <<now, storeVars, mu, man, savedAt, budget>>

\* The loop's locals after array a, with the last run r and the failure f.
Done(a, r, f) ==
    sweep' = [sweep EXCEPT !.todo = @ \ {a}, !.run[a] = r, !.fail[a] = f]

Cleared(a) == IF Moot(a) THEN [tries EXCEPT ![a] = 0] ELSE tries

\* Nothing to do for the array; or a new schedule, which is anchored to now.
Pass(a) ==
    /\ SweepAt("run") /\ a \in sweep.todo
    /\ ~(MayRun(a) /\ Due(a))
    /\ Done(a, IF sweep.cfg[a] # None /\ sweep.run[a] = None THEN sweep.at ELSE sweep.run[a], Left(a))
    /\ tries' = Cleared(a)
    /\ UNCHANGED <<runFrame, md, sent, fired>>

\* Mutant: the last run is not updated.
FireForgets(a) ==
    /\ SweepAt("run") /\ a \in sweep.todo
    /\ MayRun(a) /\ Due(a)
    /\ StartOk(a)
    /\ Done(a, sweep.run[a], None)
    /\ fired' = [fired EXCEPT ![a] = [o \in Times |->
                    IF o \in Window(sweep.cfg[a], sweep.run[a], sweep.at) /\ @[o] < 2
                    THEN @[o] + 1 ELSE @[o]]]
    /\ UNCHANGED <<runFrame, sent, tries>>

\* The scrub starts: the occurrences up to now are served.
Fire(a) ==
    /\ SweepAt("run") /\ a \in sweep.todo
    /\ MayRun(a) /\ Due(a)
    /\ StartOk(a)
    /\ Done(a, sweep.at, None)
    /\ fired' = [fired EXCEPT ![a] = [o \in Times |->
                    IF o \in Window(sweep.cfg[a], sweep.run[a], sweep.at) /\ @[o] < 2
                    THEN @[o] + 1 ELSE @[o]]]
    /\ tries' = [tries EXCEPT ![a] = 0]
    /\ UNCHANGED <<runFrame, sent>>

\* Mutant: the first failure already consumes the occurrence.
MissConsumes(a) ==
    /\ SweepAt("run") /\ a \in sweep.todo
    /\ MayRun(a) /\ Due(a)
    /\ StartRefused(a)
    /\ Done(a, sweep.at, RecordFailure(IF Retrying(a) THEN Left(a).attempts ELSE 0, TRUE, sweep.at))
    /\ UNCHANGED <<runFrame, sent, fired, tries>>

\* It does not: retry later, or give the occurrence up.
Miss(a) ==
    /\ SweepAt("run") /\ a \in sweep.todo
    /\ MayRun(a) /\ Due(a)
    /\ StartRefused(a)
    /\ LET f == RecordFailure(IF Retrying(a) THEN Left(a).attempts ELSE 0, TRUE, sweep.at)
       IN  /\ Done(a, IF f.next = 0 THEN sweep.at ELSE sweep.run[a], f)
           /\ sent' = sent \cup ({a} \X FailureEvents(f))
           /\ tries' = [tries EXCEPT ![a] = IF f.next = 0 THEN 0 ELSE IF @ <= Limit THEN @ + 1 ELSE @]
    /\ UNCHANGED <<runFrame, fired>>

SaveLastRun ==
    /\ SweepAt("run") /\ sweep.todo = {}
    /\ lastRun' = sweep.run
    /\ SweepGoto("savefailures")
    /\ UNCHANGED <<kernelVars, schedules, failures, baseline, lastScan, mu, man, histVars, budget>>

\* The deferred Unlock follows.
SaveFailures ==
    /\ SweepAt("savefailures")
    /\ failures' = sweep.fail
    /\ mu' = None
    /\ SweepGoto("idle")
    /\ UNCHANGED <<kernelVars, schedules, lastRun, baseline, lastScan, man, histVars, budget>>

SweepStep ==
    \/ Scan \/ Announce \/ SaveBaseline \/ SaveLastScan
    \/ LoadSchedules \/ SaveLastRun \/ SaveFailures
    \/ \E a \in Arrays : Pass(a) \/ Fire(a) \/ Miss(a)

-----------------------------------------------------------------------------
(* Start: a scrub on behalf of an admin.                                   *)

\* The array must be one the kernel reports.
Ask(r, a) ==
    /\ man[r].pc = "idle"
    /\ md[a].listed
    /\ man' = [man EXCEPT ![r].pc = "start", ![r].array = a]
    /\ UNCHANGED <<kernelVars, storeVars, mu, sweep, histVars, budget>>

ManualStart(r) ==
    /\ man[r].pc = "start"
    /\ \/ StartOk(man[r].array) /\ man' = [man EXCEPT ![r].pc = "record", ![r].failed = FALSE]
       \/ StartRefused(man[r].array) /\ man' = [man EXCEPT ![r].pc = "record", ![r].failed = TRUE]
    /\ UNCHANGED <<now, storeVars, mu, sweep, histVars, budget>>

\* Mutant: without mu.
ManualRecordUnlocked(r) ==
    /\ man[r].pc = "record"
    /\ failures' = [failures EXCEPT ![man[r].array] =
                        IF man[r].failed THEN RecordFailure(0, FALSE, now) ELSE None]
    /\ man' = [man EXCEPT ![r].pc = "done"]
    /\ UNCHANGED <<kernelVars, schedules, lastRun, baseline, lastScan, mu, sweep, histVars, budget>>

\* Under mu: load the failures, set or delete the array's, save.
ManualRecord(r) ==
    /\ man[r].pc = "record"
    /\ mu = None
    /\ LET a == man[r].array
           f == RecordFailure(0, FALSE, now)
       IN  \/ /\ man[r].failed
              /\ failures' = [failures EXCEPT ![a] = f]
              /\ sent' = sent \cup ({a} \X FailureEvents(f))
           \/ /\ ~man[r].failed
              /\ failures' = [failures EXCEPT ![a] = None]
              /\ UNCHANGED sent
    /\ tries' = [tries EXCEPT ![man[r].array] = 0]
    /\ man' = [man EXCEPT ![r].pc = "done"]
    /\ UNCHANGED <<kernelVars, schedules, lastRun, baseline, lastScan, mu, sweep, fired, savedAt, budget>>

ManualStep(r) == ManualStart(r) \/ ManualRecord(r)

-----------------------------------------------------------------------------
(* The rest of the world.                                                  *)

\* handleSetMdadmSchedules: an admin saves a schedule or removes it, without mu.
SetSchedule(a, rule) ==
    /\ budget.edits > 0
    /\ rule # schedules[a]
    /\ budget' = [budget EXCEPT !.edits = @ - 1]
    /\ schedules' = [schedules EXCEPT ![a] = rule]
    /\ savedAt' = [savedAt EXCEPT ![a] = now]
    /\ UNCHANGED <<kernelVars, lastRun, failures, baseline, lastScan, mu, sweep, man, sent, fired, tries>>

Tick ==
    /\ now < MaxTime
    /\ now' = now + 1
    /\ UNCHANGED <<md, storeVars, mu, sweep, man, histVars, budget>>

\* What the kernel, the disks and the host's own scrubs do to an array.
KernelEvent(a) ==
    /\ md[a].listed
    /\ \/ "disk" \in Disturb /\ md' = [md EXCEPT ![a].up = ~@]
       \/ "inactive" \in Disturb /\ md' = [md EXCEPT ![a].active = ~@, ![a].action = "idle"]
       \/ /\ "sync" \in Disturb
          /\ md[a].active /\ md[a].action = "idle"
          /\ \/ md' = [md EXCEPT ![a].action = "check"]
             \/ ~md[a].up /\ md' = [md EXCEPT ![a].action = "recover"]
    /\ UNCHANGED <<now, storeVars, mu, sweep, man, histVars, budget>>

\* A scrub ends; so does a rebuild, with the disk back in the array or not.
SyncEnds(a) ==
    /\ md[a].action # "idle"
    /\ \E up \in BOOLEAN :
        /\ up # md[a].up => md[a].action = "recover"
        /\ md' = [md EXCEPT ![a].action = "idle", ![a].up = up]
    /\ UNCHANGED <<now, storeVars, mu, sweep, man, histVars, budget>>

\* An array is stopped or assembled.
Vanish(a) ==
    /\ "vanish" \in Disturb
    /\ md' = [md EXCEPT ![a].listed = ~@, ![a].action = "idle"]
    /\ UNCHANGED <<now, storeVars, mu, sweep, man, histVars, budget>>

\* Veery is killed and started again; what is stored survives.
Crash ==
    /\ budget.crashes > 0
    /\ budget' = [budget EXCEPT !.crashes = @ - 1]
    /\ mu' = None
    /\ sweep' = Resting
    /\ man' = [r \in Requests |-> [man[r] EXCEPT !.pc = IF @ = "idle" THEN @ ELSE "done"]]
    /\ tries' = [a \in Arrays |-> 0]
    /\ UNCHANGED <<kernelVars, storeVars, sent, fired, savedAt>>

Next ==
    \/ SweepStep \/ Tick \/ Crash
    \/ \E r \in Requests : ManualStep(r) \/ \E a \in Arrays : Ask(r, a)
    \/ \E a \in Arrays : KernelEvent(a) \/ SyncEnds(a) \/ Vanish(a)
    \/ \E a \in Arrays, rule \in Opt(Rules) : SetSchedule(a, rule)

\* The poller runs on a timer, a request runs to its end, and time goes on.
Fairness ==
    /\ WF_vars(SweepStep)
    /\ \A r \in Requests : WF_vars(ManualStep(r))
    /\ WF_vars(Tick)

Spec == Init /\ [][Next]_vars
FairSpec == Spec /\ Fairness

-----------------------------------------------------------------------------
(* Properties.                                                             *)

SweepLabels == {"idle", "announce", "savebaseline", "savelastscan", "lock", "run", "savefailures"}
EventNames == {"started", "finished", "unhealthy", "recovered", "dropped", "rejoined", "failed"}

SweepType ==
    [pc : SweepLabels, at : Time, seen : [Arrays -> Opt(Array)], finished : SUBSET Arrays,
     cfg : [Arrays -> Opt(Rules)], run : [Arrays -> Opt(Time)],
     fail : [Arrays -> Opt(Failure)], todo : SUBSET Arrays]

\* Every variable stays in its set; a failure counts at most one attempt more than
\* there are delays, so that retryDelays is never indexed past its end (recordFailure).
TypeOK ==
    /\ now \in Time
    /\ md \in [Arrays -> Array]
    /\ schedules \in [Arrays -> Opt(Rules)]
    /\ lastRun \in [Arrays -> Opt(Time)]
    /\ failures \in [Arrays -> Opt(Failure)]
    /\ baseline \in [Arrays -> Opt(Baseline)]
    /\ lastScan \in [Arrays -> Opt(Time)]
    /\ mu \in {None, Poller}
    /\ sweep \in SweepType
    /\ man \in [Requests -> [pc : {"idle", "start", "record", "done"}, array : Opt(Arrays),
                             failed : BOOLEAN]]
    /\ \A r \in Requests : man[r].pc \in {"start", "record"} => man[r].array \in Arrays
    /\ sent \subseteq Arrays \X EventNames
    /\ fired \in [Arrays -> [Times -> 0 .. 2]]
    /\ tries \in [Arrays -> 0 .. Limit + 1]
    /\ savedAt \in [Arrays -> Time]
    /\ budget \in [edits : 0 .. MaxEdits, crashes : 0 .. MaxCrashes]

\* "mu serialises the read-modify-write of the stored scan failures between the
\* poller and manual starts" (Watcher): what the poller is about to save differs
\* from what is stored only for arrays it has dealt with in this sweep.
SweepCurrent ==
    sweep.pc \in {"run", "savefailures"} =>
        \A a \in Arrays : sweep.fail[a] # failures[a] => sweep.seen[a] # None /\ a \notin sweep.todo

\* A retry that is stored belongs to an occurrence that has passed and that was
\* neither served nor given up (runSchedules keeps lastRun until then).
PendingRetryDue ==
    \A a \in Arrays :
        /\ failures[a] # None /\ failures[a].next > 0
        /\ sweep.pc # "savefailures"
        => lastRun[a] # None /\ \E o \in Times : lastRun[a] < o /\ o <= now

\* "That window is what makes a schedule fire once per occurrence" (dueSince).
OncePerOccurrence == \A a \in Arrays : \A o \in Times : fired[a][o] <= 1

\* A scheduled scrub that does not start is retried as often as there are delays
\* and "after that the scheduler gives up on this occurrence" (docs/mdadm.md), counted
\* from the last manual start or restart of Veery.
AttemptsBounded == \A a \in Arrays : tries[a] <= Limit

\* "A newly saved schedule anchors its last run to now, so it never fires for
\* occurrences already past" (docs/mdadm.md).  Sweeps that loaded the schedule before
\* it was saved are left aside.
NotBeforeSaved ==
    [][\A a \in Arrays : fired'[a] # fired[a] /\ sweep.cfg[a] = schedules[a] =>
        \E o \in Times : fired'[a][o] # fired[a][o] /\ o >= savedAt[a]]_vars

\* The "recovered" alert says of an array that it "is healthy again" (notifyHealth):
\* its disks are up.
RecoveredMeansUp ==
    \A a \in Arrays : <<a, "recovered">> \in sent /\ sweep.seen[a] # None => sweep.seen[a].up

\* No such transition is lost: the stored baseline moves into or out of a scrub, or
\* comes to hold that a disk dropped out, only after that was announced
\* (checkTransitions), whatever happens between two sweeps and wherever Veery is
\* killed.  (Alerts that fold into one another between two sweeps are not covered.)
AnnouncedFirst ==
    [][\A a \in Arrays : baseline[a] # None /\ baseline'[a] # None =>
        /\ baseline[a].action = "check" /\ baseline'[a].action # "check" => <<a, "finished">> \in sent
        /\ baseline[a].action # "check" /\ baseline'[a].action = "check" => <<a, "started">> \in sent
        /\ baseline[a].up /\ ~baseline'[a].up => <<a, "dropped">> \in sent]_vars

\* An occurrence that is due on an array that stays idle is dealt with: the scrub
\* is started or given up, or its next retry lies beyond the bound of the clock.
IsDue(a) ==
    /\ schedules[a] # None /\ lastRun[a] # None
    /\ DueSince(schedules[a], lastRun[a], now)
    /\ md[a].listed /\ md[a].action = "idle"
    /\ failures[a] # None => failures[a].next <= MaxTime
DueServed == \A a \in Arrays : IsDue(a) ~> ~IsDue(a)

\* "The warning clears once a start succeeds or Veery sees a scrub running on the
\* array, whoever started it" (docs/mdadm.md).
Warned(a) == failures[a] # None /\ md[a].listed /\ md[a].action = "check"
WarningClears == \A a \in Arrays : Warned(a) ~> ~Warned(a)

-----------------------------------------------------------------------------
(* The inductive invariants behind SweepCurrent, and, as long as Veery does*)
(* not crash, behind OncePerOccurrence and PendingRetryDue.                *)

\* The poller holds mu while it works on the schedules.
LockInv == mu = Poller <=> sweep.pc \in {"run", "savefailures"}

\* The arrays still to be dealt with were seen.
TodoInv == \A a \in sweep.todo : sweep.seen[a] # None

\* A sweep goes by a time that has passed, and no last run is later than it.
ClockInv ==
    /\ sweep.at <= now
    /\ \A a \in Arrays : lastRun[a] # None =>
         lastRun[a] <= now /\ (sweep.pc # "idle" => lastRun[a] <= sweep.at)
    /\ sweep.pc = "run" => \A a \in Arrays : sweep.run[a] # None => sweep.run[a] <= sweep.at

\* The last run in force, and no occurrence after it has fired.
Anchor(a) == IF sweep.pc = "run" THEN sweep.run[a] ELSE lastRun[a]
FiredInv ==
    \A a \in Arrays : \A o \in Times :
        fired[a][o] <= 1 /\ (fired[a][o] > 0 => Anchor(a) # None /\ o <= Anchor(a))

\* A failure in force with a retry to come belongs to an occurrence after the last run.
Pends(f, last) ==
    f # None /\ f.next > 0 => last # None /\ \E o \in Times : last < o /\ o <= now
RetryInv ==
    \A a \in Arrays :
        /\ sweep.pc # "savefailures" => Pends(failures[a], lastRun[a])
        /\ sweep.pc \in {"run", "savefailures"} => Pends(sweep.fail[a], Anchor(a))

\* The conjunction that every step preserves, without crashes.
ScheduleInv ==
    TypeOK /\ LockInv /\ TodoInv /\ SweepCurrent /\ ClockInv /\ FiredInv /\ RetryInv

\* The failure in force, and an array with attempts behind it awaits a retry after
\* at least as many of them.
InForce(a) == IF sweep.pc \in {"run", "savefailures"} THEN sweep.fail[a] ELSE failures[a]
Counted(f, n) == n > 0 => f # None /\ f.scheduled /\ f.next > 0 /\ n <= f.attempts
TriesInv == \A a \in Arrays : Counted(InForce(a), tries[a])

\* What the baseline is about to move past was announced.
SentInv == sweep.pc = "savebaseline" => \A a \in Arrays : {a} \X NewEvents(a) \subseteq sent
=============================================================================

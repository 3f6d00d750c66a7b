-------------------------------- MODULE Hub --------------------------------
(***************************************************************************)
(* The push stream: the jobs and the poller that broadcast (docker/jobs.go,*)
(* BroadcastStacks, pollStacks), the hub and its bounded queue per         *)
(* connection (server/ws.go), and the page at the other end                *)
(* (web/src/live/LiveData.tsx, web/src/api/ws.ts).                         *)
(*                                                                         *)
(* A broadcast is one step under the hub's lock, which stores the message  *)
(* as the last of its type and lists the clients, and then one             *)
(* non-blocking send per client. A connection registers, is pushed the last*)
(* message outside the lock, and then gets the job picture, which is read  *)
(* from the registry and from the database in two steps.                   *)
(*                                                                         *)
(* A stack list is a member of Lists; what the daemon would list now is    *)
(* `host'. A page is one browser tab: its connection comes and goes, its    *)
(* memory stays. Left out: the metrics message, which takes the path of the*)
(* stack list; event rows, which take the path of jobs to admins only; the *)
(* list a tab fetches when it opens.                                       *)
(***************************************************************************)
EXTENDS Naturals, Sequences, Functions

CONSTANTS Pages, UpdateJobs, OtherJobs, Lists, None,
          Cap,          \* capacity of a client's queue (32 in ws.go)
          \* bounds: changes of the list, lost connections and crashes together, jobs
          MaxChanges, MaxFaults, MaxJobs

Jobs == UpdateJobs \cup OtherJobs
Poller == "poller"
Casters == Jobs \cup {Poller}

ASSUME HubAssumption ==
    /\ Cap \in Nat \ {0}
    /\ UpdateJobs \cap OtherJobs = {}
    /\ Poller \notin Jobs
    /\ None \notin Lists /\ Lists # {}
    /\ MaxChanges \in Nat /\ MaxFaults \in Nat /\ MaxJobs \in Nat

StacksMsg(l)     == [type |-> "stacks", list |-> l]
JobMsg(j, done)  == [type |-> "job", job |-> j, done |-> done]
JobsMsg(on, off) == [type |-> "jobs", on |-> on, off |-> off]

Messages == [type : {"stacks"}, list : Lists]
            \cup [type : {"job"}, job : Jobs, done : BOOLEAN]
            \cup [type : {"jobs"}, on : SUBSET Jobs, off : SUBSET Jobs]

VARIABLES
    host,       \* the stack list the daemon would give now
    pc,         \* where each caster is
    seen,       \* the list a caster has read and not yet broadcast
    cast,       \* the broadcast of each caster: message and clients left
    active,     \* Manager.activeJobs
    recent,     \* finished rows of update_jobs within recentWindow
    last,       \* Hub.last for the stack list
    conn,       \* where the handler of each page's connection is
    snap,       \* what that handler has read for its replay
    queue,      \* wsClient.send
    page,       \* the tab: its stacks, spinners and reported outcomes
    budget,
    quiet,      \* history: jobs that had left the registry when the replay was read
    watch,      \* history: jobs that had not begun when the page got its replay
    lost        \* history: a message of this connection was dropped

vars == <<host, pc, seen, cast, active, recent, last, conn, snap, queue, page,
          budget, quiet, watch, lost>>
server == <<pc, seen, cast, active, recent, last>>
wire   == <<conn, snap, queue, lost>>
hist   == <<quiet, watch>>

ConnStates == {"off", "added", "replay", "rows", "push", "open"}
JobStates  == {"idle", "tracked", "running", "finished", "forgotten",
               "reported", "listed", "over"}
Ended      == {"forgotten", "reported", "listed", "over"}

Registered == {p \in Pages : conn[p] # "off"}

Init ==
    /\ host = CHOOSE l \in Lists : TRUE
    /\ pc = [b \in Casters |-> IF b \in Jobs THEN "idle" ELSE "wait"]
    /\ seen = [b \in Casters |-> None]
    /\ cast = [b \in Casters |-> [msg |-> JobsMsg({}, {}), left |-> {}]]
    /\ active = {} /\ recent = {} /\ last = None
    /\ conn = [p \in Pages |-> "off"]
    /\ snap = [p \in Pages |-> [list |-> None, on |-> {}, off |-> {}]]
    /\ queue = [p \in Pages |-> <<>>]
    /\ page = [p \in Pages |-> [stacks |-> None, synced |-> FALSE,
                                spinners |-> {}, reported |-> {}]]
    /\ budget = [changes |-> MaxChanges, faults |-> MaxFaults, jobs |-> MaxJobs]
    /\ quiet = [p \in Pages |-> {}]
    /\ watch = [p \in Pages |-> {}]
    /\ lost = [p \in Pages |-> FALSE]


(***************************************************************************)
(* The hub                                                                 *)
(***************************************************************************)
\* A send that does not block: a full queue loses the message.
Push(p, m) ==
    /\ queue' = IF Len(queue[p]) < Cap THEN [queue EXCEPT ![p] = Append(@, m)] ELSE queue
    /\ lost' = [lost EXCEPT ![p] = @ \/ Len(queue[p]) >= Cap]

\* Broadcast under the lock: caster b takes the clients of the moment.
Broadcast(b, m) ==
    /\ cast[b].left = {}
    /\ last' = IF m.type = "stacks" THEN m.list ELSE last
    /\ cast' = [cast EXCEPT ![b] = [msg |-> m, left |-> Registered]]

\* Broadcast after the lock: one client, in any order.
Send(b, p) ==
    /\ p \in cast[b].left
    /\ Push(p, cast[b].msg)
    /\ cast' = [cast EXCEPT ![b].left = @ \ {p}]
    /\ UNCHANGED <<host, pc, seen, active, recent, last, conn, snap, page, budget, hist>>

(***************************************************************************)
(* Jobs, the poller and the notifier                                       *)
(***************************************************************************)
Goto(b, from, to) ==
    /\ pc[b] = from /\ cast[b].left = {}
    /\ pc' = [pc EXCEPT ![b] = to]
    /\ UNCHANGED <<host, wire, page, hist>>

\* emit("start"), first half of track.
Track(j) ==
    /\ budget.jobs > 0
    /\ Goto(j, "idle", "tracked")
    /\ active' = active \cup {j}
    /\ budget' = [budget EXCEPT !.jobs = @ - 1]
    /\ UNCHANGED <<seen, cast, recent, last>>

\* The second half of track: publish.
PublishProgress(j) ==
    /\ Goto(j, "tracked", "running")
    /\ Broadcast(j, JobMsg(j, FALSE))
    /\ UNCHANGED <<budget, seen, active, recent>>

\* The job's function returns; an update has finished its row by then.
FnReturns(j) ==
    /\ Goto(j, "running", "finished")
    /\ recent' = recent \cup ({j} \cap UpdateJobs)
    /\ UNCHANGED <<budget, seen, cast, active, last>>

Forget(j) ==
    /\ Goto(j, "finished", "forgotten")
    /\ active' = active \ {j}
    /\ UNCHANGED <<budget, seen, cast, recent, last>>

PublishDone(j) ==
    /\ Goto(j, "forgotten", "reported")
    /\ Broadcast(j, JobMsg(j, TRUE))
    /\ UNCHANGED <<budget, seen, active, recent>>

\* A failed job ends here.
JobFailed(j) ==
    /\ Goto(j, "reported", "over")
    /\ UNCHANGED <<budget, seen, cast, active, recent, last>>

\* ListStacks of a caster: what the daemon says now.
List(b) ==
    /\ Goto(b, IF b = Poller THEN "wait" ELSE "reported", "listed")
    /\ seen' = [seen EXCEPT ![b] = host]
    /\ UNCHANGED <<budget, cast, active, recent, last>>

\* Mutant: a list equal to the last one is not sent again.
BroadcastStacksChanged(b) ==
    /\ Goto(b, "listed", IF b = Poller THEN "wait" ELSE "over")
    /\ IF seen[b] = last THEN UNCHANGED <<cast, last>> ELSE Broadcast(b, StacksMsg(seen[b]))
    /\ seen' = [seen EXCEPT ![b] = None]
    /\ UNCHANGED <<budget, active, recent>>

\* The rest of BroadcastStacks, which may be later.
BroadcastStacks(b) ==
    /\ Goto(b, "listed", IF b = Poller THEN "wait" ELSE "over")
    /\ Broadcast(b, StacksMsg(seen[b]))
    /\ seen' = [seen EXCEPT ![b] = None]
    /\ UNCHANGED <<budget, active, recent>>

JobStep(j) ==
    \/ Track(j) \/ PublishProgress(j) \/ FnReturns(j) \/ Forget(j) \/ PublishDone(j)
    \/ JobFailed(j) \/ List(j) \/ BroadcastStacks(j)

\* A finished update leaves recentWindow.
Age(j) ==
    /\ j \in recent /\ pc[j] = "over"
    /\ recent' = recent \ {j}
    /\ UNCHANGED <<host, pc, seen, cast, active, last, wire, page, budget, hist>>

(***************************************************************************)
(* A connection: handleWS                                                  *)
(***************************************************************************)
\* The page dials, the server accepts, and Hub.add registers the client.
Connect(p) ==
    /\ conn[p] = "off"
    /\ conn' = [conn EXCEPT ![p] = "added"]
    /\ snap' = [snap EXCEPT ![p] = [list |-> last, on |-> {}, off |-> {}]]
    /\ page' = [page EXCEPT ![p].synced = FALSE]
    /\ quiet' = [quiet EXCEPT ![p] = {}]
    /\ watch' = [watch EXCEPT ![p] = {}]
    /\ UNCHANGED <<host, server, queue, budget, lost>>

HandlerStep(p, from, to) ==
    /\ conn[p] = from
    /\ conn' = [conn EXCEPT ![p] = to]
    /\ UNCHANGED <<host, server, page, budget, watch>>

\* Hub.add after the lock.
ReplayLast(p) ==
    /\ HandlerStep(p, "added", "replay")
    /\ IF snap[p].list = None THEN UNCHANGED <<queue, lost>>
       ELSE Push(p, StacksMsg(snap[p].list))
    /\ UNCHANGED <<snap, quiet>>

\* JobSnapshot: ActiveJobs.
ReadActive(p) ==
    /\ HandlerStep(p, "replay", "rows")
    /\ snap' = [snap EXCEPT ![p].on = active]
    /\ quiet' = [quiet EXCEPT ![p] =
            {j \in Jobs : pc[j] \in Ended}]
    /\ UNCHANGED <<queue, lost>>

\* JobSnapshot: RecentUpdateJobs, less the ones still active.
ReadRecent(p) ==
    /\ HandlerStep(p, "rows", "push")
    /\ snap' = [snap EXCEPT ![p].off = recent \ snap[p].on]
    /\ UNCHANGED <<queue, lost, quiet>>

ReplayJobs(p) ==
    /\ HandlerStep(p, "push", "open")
    /\ Push(p, JobsMsg(snap[p].on, snap[p].off))
    /\ UNCHANGED <<snap, quiet>>

Handler(p) == ReplayLast(p) \/ ReadActive(p) \/ ReadRecent(p) \/ ReplayJobs(p)

\* The connections in ps end: their clients are removed, their queues with them.
Drop(ps) ==
    /\ conn' = [p \in Pages |-> IF p \in ps THEN "off" ELSE conn[p]]
    /\ queue' = [p \in Pages |-> IF p \in ps THEN <<>> ELSE queue[p]]
    /\ lost' = [p \in Pages |-> p \notin ps /\ lost[p]]
    /\ UNCHANGED <<snap, hist>>

\* A write, a ping or the network fails.
Disconnect(p) ==
    /\ conn[p] # "off" /\ budget.faults > 0
    /\ Drop({p})
    /\ cast' = [b \in Casters |-> [cast[b] EXCEPT !.left = @ \ {p}]]
    /\ budget' = [budget EXCEPT !.faults = @ - 1]
    /\ UNCHANGED <<host, pc, seen, active, recent, last, page>>

(***************************************************************************)
(* The page                                                                *)
(***************************************************************************)
\* Mutant: the final message leaves the spinner up.
HandleJobsSpinning(pg, on, off) ==
    [pg EXCEPT !.spinners = @ \cup on, !.reported = @ \cup off]

\* handleJob for a set of jobs in flight and a set of finished ones.
HandleJobs(pg, on, off) ==
    [pg EXCEPT !.spinners = (@ \cup on) \ (off \ pg.reported),
               !.reported = @ \cup off]

\* Mutant: the replay is read as so many single messages.
OnJobsKeeping(pg, on, off) == [HandleJobs(pg, on, off) EXCEPT !.synced = TRUE]

\* onJobs: also drop the spinners the server does not know.
OnJobs(pg, on, off) ==
    LET q == HandleJobs(pg, on, off)
    IN  [q EXCEPT !.spinners = @ \cap (on \cup off), !.synced = TRUE]

OnMessage(pg, m) ==
    CASE m.type = "stacks" -> [pg EXCEPT !.stacks = m.list]
      [] m.type = "job"    -> IF m.done THEN HandleJobs(pg, {}, {m.job})
                              ELSE HandleJobs(pg, {m.job}, {})
      [] m.type = "jobs"   -> OnJobs(pg, m.on, m.off)

\* The writer loop takes a message and the page handles it.
Deliver(p) ==
    /\ conn[p] = "open" /\ queue[p] # <<>>
    /\ queue' = [queue EXCEPT ![p] = Tail(@)]
    /\ page' = [page EXCEPT ![p] = OnMessage(@, Head(queue[p]))]
    /\ watch' = IF Head(queue[p]).type = "jobs"
                THEN [watch EXCEPT ![p] = {j \in Jobs : pc[j] = "idle"}] ELSE watch
    /\ UNCHANGED <<host, server, conn, snap, lost, budget, quiet>>

(***************************************************************************)
(* The world                                                               *)
(***************************************************************************)
HostChanges ==
    /\ budget.changes > 0
    /\ host' \in Lists \ {host}
    /\ budget' = [budget EXCEPT !.changes = @ - 1]
    /\ UNCHANGED <<server, wire, page, hist>>

\* Veery dies and starts again. Recovery finishes the rows of the updates that
\* were under way before the server listens; the other jobs are gone.
Crash ==
    /\ budget.faults > 0
    /\ pc' = [b \in Casters |-> CASE b \notin Jobs -> "wait"
                                  [] pc[b] = "idle" -> "idle"
                                  [] OTHER -> "over"]
    /\ recent' = recent \cup {j \in UpdateJobs : pc[j] \in {"tracked", "running"}}
    /\ seen' = [b \in Casters |-> None]
    /\ cast' = [b \in Casters |-> [cast[b] EXCEPT !.left = {}]]
    /\ active' = {} /\ last' = None
    /\ Drop(Pages)
    /\ budget' = [budget EXCEPT !.faults = @ - 1]
    /\ UNCHANGED <<host, page>>

PageStep(p) == Connect(p) \/ Handler(p) \/ Deliver(p)

Next ==
    \/ \E j \in Jobs : JobStep(j) \/ Age(j)
    \/ List(Poller) \/ BroadcastStacks(Poller)
    \/ \E b \in Casters, p \in Pages : Send(b, p)
    \/ \E p \in Pages : PageStep(p) \/ Disconnect(p)
    \/ HostChanges \/ Crash

Spec == Init /\ [][Next]_vars

(***************************************************************************)
(* Goroutines run, the poll timer fires, open connections are written to,  *)
(* and ws.ts dials again until it gets through. Nothing is assumed of      *)
(* requests, of the daemon or of how long a job takes to begin.            *)
(***************************************************************************)
Fairness ==
    /\ WF_vars(List(Poller)) /\ WF_vars(BroadcastStacks(Poller))
    /\ \A b \in Casters, p \in Pages : WF_vars(Send(b, p))
    /\ \A p \in Pages : WF_vars(Connect(p)) /\ WF_vars(Handler(p)) /\ WF_vars(Deliver(p))
    /\ \A j \in Jobs : WF_vars(BroadcastStacks(j))

LiveSpec == Spec /\ Fairness

(***************************************************************************)
(* Properties                                                              *)
(***************************************************************************)
Opt(S) == S \cup {None}
Cast == [msg : Messages, left : SUBSET Pages]
Snap == [list : Opt(Lists), on : SUBSET Jobs, off : SUBSET Jobs]
Page == [stacks : Opt(Lists), synced : BOOLEAN, spinners : SUBSET Jobs, reported : SUBSET Jobs]
Budget == [changes : Nat, faults : Nat, jobs : Nat]

\* Every variable stays in its set, and no queue grows past its capacity.
TypeOK ==
    /\ host \in Lists
    /\ pc \in [Casters -> JobStates \cup {"wait"}]
    /\ \A b \in Casters : pc[b] \in IF b \in Jobs THEN JobStates ELSE {"wait", "listed"}
    /\ seen \in [Casters -> Opt(Lists)] /\ \A b \in Casters : pc[b] = "listed" => seen[b] \in Lists
    /\ cast \in [Casters -> Cast]
    /\ active \in SUBSET Jobs /\ recent \in SUBSET UpdateJobs
    /\ last \in Opt(Lists)
    /\ conn \in [Pages -> ConnStates] /\ snap \in [Pages -> Snap]
    /\ queue \in [Pages -> Seq(Messages)] /\ \A p \in Pages : Len(queue[p]) <= Cap
    /\ page \in [Pages -> Page]
    /\ quiet \in [Pages -> SUBSET Jobs] /\ watch \in [Pages -> SUBSET Jobs]
    /\ lost \in [Pages -> BOOLEAN]
    /\ budget \in Budget

Synced(p) == conn[p] = "open" /\ page[p].synced

\* The page spins for no job that had ended when its replay was read, save one it
\* had reported before, and has reported every update of them that is still recent.
Cleared(p) ==
    /\ page[p].spinners \cap quiet[p] \subseteq page[p].reported
    /\ quiet[p] \cap recent \subseteq page[p].reported

\* The replay on connect makes up for what a page missed (replayJobs, onJobs): once
\* handled, no spinner is left of a job that ended without the page (the exception
\* is NoStaleSpinner) and its outcome is reported, also if a crash ended it.
ReplayClears == \A p \in Pages : Synced(p) => Cleared(p)

\* A page that was in step before a job began, kept its connection and lost no
\* message has, once the job is over and its queue is empty, reported the outcome
\* and stopped the spinner: no progress message arrives after the final one.
FinalSeen ==
    \A p \in Pages, j \in Jobs :
        (Synced(p) /\ j \in watch[p] /\ ~lost[p] /\ pc[j] = "over" /\ queue[p] = <<>>)
        => (j \in page[p].reported /\ j \notin page[p].spinners)

\* What the registry, the rows and the broadcasts under way say of the jobs: the
\* next step of a caster waits for the last send of its broadcast, so a progress
\* message is under way only while the job runs, a final one only after it.
ServerInv ==
    /\ active = {j \in Jobs : pc[j] \in {"tracked", "running", "finished"}}
    /\ \A j \in recent : pc[j] \in {"finished"} \cup Ended
    /\ \A b \in Casters : cast[b].left \subseteq Registered
    /\ \A b \in Casters : cast[b].left # {} =>
           \/ pc[b] = "running" /\ cast[b].msg = JobMsg(b, FALSE)
           \/ pc[b] = "reported" /\ cast[b].msg = JobMsg(b, TRUE)
           \/ pc[b] \in {"over", "wait"} /\ cast[b].msg.type = "stacks"

\* What the handler of a connection has read, and what the page makes of it.
ReplayInv(p) ==
    /\ conn[p] = "off" => queue[p] = <<>>
    /\ conn[p] \in ConnStates \ {"off", "open"} => ~page[p].synced
    /\ conn[p] \in {"added", "replay"} => quiet[p] = {}
    /\ \A j \in quiet[p] : pc[j] \in Ended
    /\ conn[p] \in {"rows", "push", "open"} => snap[p].on \cap quiet[p] = {}
    /\ conn[p] \in {"push", "open"} => quiet[p] \cap recent \subseteq snap[p].off
    /\ \A j \in snap[p].off \cup page[p].reported : pc[j] # "idle"

\* The final message of job j has been sent to page p, if to any.
Sent(p, j) == pc[j] \in {"listed", "over"} \/ (pc[j] = "reported" /\ p \notin cast[j].left)

\* The order in a queue: one replay, behind the progress of the jobs that had ended
\* when it was read, and nothing about a job behind the final message of it.
InOrder(q, ended) ==
    \A i, k \in DOMAIN q : i < k =>
        /\ q[i].type = "jobs" => q[k].type # "jobs" /\ \A j \in ended : q[k] # JobMsg(j, FALSE)
        /\ \A j \in Jobs : q[i] = JobMsg(j, TRUE) => \A d \in BOOLEAN : q[k] # JobMsg(j, d)

QueueInv(p) ==
    /\ InOrder(queue[p], quiet[p])
    /\ \A m \in Range(queue[p]) : m.type = "jobs" =>
           /\ conn[p] = "open" /\ ~page[p].synced
           /\ m = JobsMsg(snap[p].on, snap[p].off)
    /\ \A j \in Jobs : JobMsg(j, FALSE) \in Range(queue[p]) =>
           /\ pc[j] \notin {"idle", "tracked"}
           /\ j \in quiet[p] => ~page[p].synced
    /\ \A j \in Jobs : JobMsg(j, TRUE) \in Range(queue[p]) => Sent(p, j)

\* A job that a page saw begin is reported once: by the final message, which is in
\* the queue or has been handled.
WatchInv(p) ==
    (Synced(p) /\ ~lost[p]) => \A j \in watch[p] :
        IF j \in page[p].reported
        THEN /\ Sent(p, j) /\ j \notin page[p].spinners
             /\ \A d \in BOOLEAN : JobMsg(j, d) \notin Range(queue[p])
        ELSE Sent(p, j) => JobMsg(j, TRUE) \in Range(queue[p])

PageInv(p) == ReplayInv(p) /\ QueueInv(p) /\ (Synced(p) => Cleared(p)) /\ WatchInv(p)

\* ReplayClears and FinalSeen as an invariant that every step preserves.
HubInv == TypeOK /\ ServerInv /\ \A p \in Pages : PageInv(p)

\* Once the containers stop changing, every page comes to show them and goes on
\* showing them: stale lists broadcast late, dropped messages, lost connections
\* and a restart are all made up for by the poller and the reconnecting page.
StacksConverge == <>[](last = host /\ \A p \in Pages : page[p].stacks = host)

\* No spinner outlives its job on a page that is connected and has nothing left
\* to receive. This FAILS: see the README.
NoStaleSpinner ==
    \A p \in Pages : \A j \in page[p].spinners :
        (Synced(p) /\ ~lost[p] /\ queue[p] = <<>>) => pc[j] # "over"

=============================================================================

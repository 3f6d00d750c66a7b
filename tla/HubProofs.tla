----------------------------- MODULE HubProofs -----------------------------
(***************************************************************************)
(* ReplayClears and FinalSeen hold of every behaviour of the push stream,  *)
(* for any number of pages, jobs, faults and any capacity of the queues.   *)
(*                                                                         *)
(* Both rest on the order of the messages in a queue (QueueInv), and that  *)
(* on the jobs: no step of a job is taken before the last send of its      *)
(* broadcast (ServerInv), so whoever reads the registry after the job has  *)
(* left it queues its replay behind every progress message of the job.     *)
(***************************************************************************)
EXTENDS Hub, TLAPS

-----------------------------------------------------------------------------
(* Queues.                                                                 *)

LEMMA AppendRange ==
    ASSUME NEW q \in Seq(Messages), NEW m \in Messages
    PROVE  Range(Append(q, m)) = Range(q) \cup {m}
<1>1. DOMAIN Append(q, m) = DOMAIN q \cup {Len(q) + 1}
  OBVIOUS
<1>2. \A i \in DOMAIN q : Append(q, m)[i] = q[i]
  OBVIOUS
<1>3. Append(q, m)[Len(q) + 1] = m
  OBVIOUS
<1> QED
  BY <1>1, <1>2, <1>3 DEF Range

LEMMA HeadTail ==
    ASSUME NEW q \in Seq(Messages), q # <<>>
    PROVE  /\ Head(q) \in Messages /\ Tail(q) \in Seq(Messages)
           /\ Len(Tail(q)) = Len(q) - 1 /\ 1 \in DOMAIN q /\ q[1] = Head(q)
           /\ \A i \in DOMAIN Tail(q) : i + 1 \in DOMAIN q /\ 1 < i + 1 /\ Tail(q)[i] = q[i + 1]
OBVIOUS

LEMMA TailRange ==
    ASSUME NEW q \in Seq(Messages), q # <<>>
    PROVE  /\ Head(q) \in Range(q)
           /\ Range(q) \subseteq Range(Tail(q)) \cup {Head(q)}
           /\ Range(Tail(q)) \subseteq Range(q)
<1>1. Head(q) \in Range(q)
  BY HeadTail DEF Range
<1>2. Range(Tail(q)) \subseteq Range(q)
  BY HeadTail DEF Range
<1>3. ASSUME NEW i \in DOMAIN q PROVE q[i] \in Range(Tail(q)) \cup {Head(q)}
  <2>1. CASE i = 1
    BY <2>1, HeadTail
  <2>2. CASE i # 1
    <3>1. i - 1 \in DOMAIN Tail(q) /\ Tail(q)[i - 1] = q[i]
      BY <2>2
    <3> QED
      BY <3>1 DEF Range
  <2> QED
    BY <2>1, <2>2
<1> QED
  BY <1>1, <1>2, <1>3 DEF Range

\* A message may go behind a queue that holds no replay and nothing final about
\* its job, as far as the order asks for it.
LEMMA AppendOrder ==
    ASSUME NEW q \in Seq(Messages), NEW m \in Messages, NEW ended, InOrder(q, ended),
           (m.type = "jobs" \/ \E j \in ended : m = JobMsg(j, FALSE)) => \A n \in Range(q) : n.type # "jobs",
           \A j \in Jobs, d \in BOOLEAN : m = JobMsg(j, d) => JobMsg(j, TRUE) \notin Range(q)
    PROVE  InOrder(Append(q, m), ended)
<1> DEFINE r == Append(q, m)
<1> SUFFICES ASSUME NEW i \in DOMAIN r, NEW k \in DOMAIN r, i < k
             PROVE  /\ r[i].type = "jobs" => r[k].type # "jobs" /\ \A j \in ended : r[k] # JobMsg(j, FALSE)
                    /\ \A j \in Jobs : r[i] = JobMsg(j, TRUE) => \A d \in BOOLEAN : r[k] # JobMsg(j, d)
  BY DEF InOrder
<1>1. i \in DOMAIN q /\ r[i] = q[i]
  OBVIOUS
<1>2. q[i] \in Range(q)
  BY <1>1 DEF Range
<1>3. CASE k \in DOMAIN q
  <2>1. r[k] = q[k]
    BY <1>3
  <2> QED
    BY <1>1, <1>3, <2>1 DEF InOrder
<1>4. CASE k \notin DOMAIN q
  <2>1. r[k] = m
    BY <1>4
  <2> HIDE DEF r
  <2> QED
    BY <1>1, <1>2, <2>1
<1> QED
  BY <1>3, <1>4

LEMMA TailOrder ==
    ASSUME NEW q \in Seq(Messages), q # <<>>, NEW ended, InOrder(q, ended)
    PROVE  /\ InOrder(Tail(q), ended)
           /\ Head(q).type = "jobs" => \A n \in Range(Tail(q)) :
                  n.type # "jobs" /\ \A j \in ended : n # JobMsg(j, FALSE)
           /\ \A j \in Jobs : Head(q) = JobMsg(j, TRUE) =>
                  \A d \in BOOLEAN : JobMsg(j, d) \notin Range(Tail(q))
<1>1. InOrder(Tail(q), ended)
  <2> SUFFICES ASSUME NEW i \in DOMAIN Tail(q), NEW k \in DOMAIN Tail(q), i < k
               PROVE  /\ Tail(q)[i].type = "jobs" => Tail(q)[k].type # "jobs" /\ \A j \in ended : Tail(q)[k] # JobMsg(j, FALSE)
                      /\ \A j \in Jobs : Tail(q)[i] = JobMsg(j, TRUE) => \A d \in BOOLEAN : Tail(q)[k] # JobMsg(j, d)
    BY DEF InOrder
  <2>1. i + 1 \in DOMAIN q /\ k + 1 \in DOMAIN q /\ i + 1 < k + 1
    OBVIOUS
  <2>2. Tail(q)[i] = q[i + 1] /\ Tail(q)[k] = q[k + 1]
    BY HeadTail
  <2> QED
    BY <2>1, <2>2 DEF InOrder
<1>2. ASSUME NEW n \in Range(Tail(q))
      PROVE  /\ Head(q).type = "jobs" => n.type # "jobs" /\ \A j \in ended : n # JobMsg(j, FALSE)
             /\ \A j \in Jobs : Head(q) = JobMsg(j, TRUE) => \A d \in BOOLEAN : n # JobMsg(j, d)
  <2>1. PICK i \in DOMAIN Tail(q) : n = Tail(q)[i]
    BY DEF Range
  <2>2. 1 \in DOMAIN q /\ i + 1 \in DOMAIN q /\ 1 < i + 1 /\ Head(q) = q[1] /\ n = q[i + 1]
    BY <2>1, HeadTail
  <2> QED
    BY <2>2 DEF InOrder
<1> QED
  BY <1>1, <1>2

LEMMA EmptyQueue == <<>> \in Seq(Messages) /\ Len(<<>>) = 0 /\ Range(<<>>) = {} /\ \A ended : InOrder(<<>>, ended)
BY DEF Range, InOrder

\* The messages of one type differ from those of another and tell what they carry.
LEMMA Msgs ==
    /\ \A j \in Jobs, d \in BOOLEAN : JobMsg(j, d) \in Messages /\ JobMsg(j, d).type = "job"
    /\ \A j, k \in Jobs, d, e \in BOOLEAN : JobMsg(j, d) = JobMsg(k, e) => j = k /\ d = e
    /\ \A l \in Lists : StacksMsg(l) \in Messages
    /\ \A l : StacksMsg(l).type = "stacks" /\ StacksMsg(l).list = l
    /\ \A on, off \in SUBSET Jobs : JobsMsg(on, off) \in Messages
    /\ \A on, off : /\ JobsMsg(on, off).type = "jobs"
                    /\ JobsMsg(on, off).on = on /\ JobsMsg(on, off).off = off
<1>1. \A j \in Jobs, d \in BOOLEAN : JobMsg(j, d) \in Messages /\ JobMsg(j, d).type = "job"
  BY DEF JobMsg, Messages
<1>2. \A j, k \in Jobs, d, e \in BOOLEAN : JobMsg(j, d) = JobMsg(k, e) => j = k /\ d = e
  <2> SUFFICES ASSUME NEW j \in Jobs, NEW k \in Jobs, NEW d \in BOOLEAN, NEW e \in BOOLEAN,
                      JobMsg(j, d) = JobMsg(k, e)
               PROVE  j = k /\ d = e
    OBVIOUS
  <2>1. JobMsg(j, d).job = j /\ JobMsg(k, e).job = k
    BY DEF JobMsg
  <2>2. JobMsg(j, d).done = d /\ JobMsg(k, e).done = e
    BY Zenon DEF JobMsg
  <2> QED
    BY <2>1, <2>2
<1>3. \A l \in Lists : StacksMsg(l) \in Messages
  BY DEF StacksMsg, Messages
<1>4. \A l : StacksMsg(l).type = "stacks" /\ StacksMsg(l).list = l
  BY DEF StacksMsg
<1>5. \A on, off \in SUBSET Jobs : JobsMsg(on, off) \in Messages
  BY DEF JobsMsg, Messages
<1>6. \A on, off : /\ JobsMsg(on, off).type = "jobs"
                   /\ JobsMsg(on, off).on = on /\ JobsMsg(on, off).off = off
  BY DEF JobsMsg
<1> QED
  BY <1>1, <1>2, <1>3, <1>4, <1>5, <1>6

LEMMA SameJob ==
    /\ \A j, k \in Jobs : JobMsg(j, TRUE) # JobMsg(k, FALSE)
    /\ \A j, k \in Jobs : JobMsg(j, TRUE) = JobMsg(k, TRUE) => j = k
    /\ \A j, k \in Jobs : JobMsg(j, FALSE) = JobMsg(k, FALSE) => j = k
    /\ \A j, k \in Jobs, d \in BOOLEAN :
           JobMsg(j, d) = JobMsg(k, TRUE) \/ JobMsg(j, d) = JobMsg(k, FALSE) => j = k
<1>1. \A j, k \in Jobs, d, e \in BOOLEAN : JobMsg(j, d) = JobMsg(k, e) => j = k /\ d = e
  BY Msgs
<1>2. TRUE \in BOOLEAN /\ FALSE \in BOOLEAN /\ TRUE # FALSE
  OBVIOUS
<1> QED
  BY <1>1, <1>2, Zenon

LEMMA InitInv == Init => HubInv
<1> SUFFICES ASSUME Init PROVE HubInv
  OBVIOUS
<1>1. TypeOK
  <2>1. cast \in [Casters -> Cast]
    <3>1. JobsMsg({}, {}) \in Messages
      BY Msgs
    <3> QED
      BY <3>1 DEF Init, Cast
  <2>2. host \in Lists
    BY HubAssumption DEF Init
  <2>3. queue \in [Pages -> Seq(Messages)] /\ \A p \in Pages : Len(queue[p]) <= Cap
    BY HubAssumption, EmptyQueue DEF Init
  <2>4. page \in [Pages -> Page] /\ snap \in [Pages -> Snap]
    BY DEF Init, Page, Snap, Opt
  <2>5. budget \in Budget
    BY HubAssumption DEF Init, Budget
  <2>6. /\ pc \in [Casters -> JobStates \cup {"wait"}]
        /\ \A b \in Casters : pc[b] \in IF b \in Jobs THEN JobStates ELSE {"wait", "listed"}
        /\ \A b \in Casters : pc[b] # "listed"
    BY DEF Init, JobStates
  <2> QED
    BY <2>1, <2>2, <2>3, <2>4, <2>5, <2>6 DEF Init, TypeOK, Opt, ConnStates
<1>2. ServerInv
  BY HubAssumption DEF Init, ServerInv, Casters
<1>3. ASSUME NEW p \in Pages PROVE PageInv(p)
  BY EmptyQueue DEF Init, PageInv, ReplayInv, QueueInv, WatchInv, Synced
<1> QED
  BY <1>1, <1>2, <1>3 DEF HubInv

-----------------------------------------------------------------------------
(* The casters.                                                            *)

\* What the pages and their connections see of the jobs, when these move on.
JobsMove ==
    /\ \A j \in Jobs : /\ pc[j] # "idle" => pc'[j] # "idle"
                       /\ pc[j] \in Ended => pc'[j] \in Ended
                       /\ pc[j] \notin {"idle", "tracked"} => pc'[j] \notin {"idle", "tracked"}
                       /\ pc[j] \in Ended /\ j \in recent' => j \in recent
    /\ \A p \in Registered : \A j \in Jobs : Sent(p, j) <=> Sent(p, j)'

LEMMA JobsMoveInv ==
    ASSUME HubInv, TypeOK', ServerInv', JobsMove, UNCHANGED <<wire, page, hist>>
    PROVE  HubInv'
<1> USE DEF wire, hist
<1> SUFFICES ASSUME NEW p \in Pages PROVE PageInv(p)'
  BY DEF HubInv
<1>1. PageInv(p)
  BY DEF HubInv
<1>2. quiet[p] \subseteq Jobs /\ watch[p] \subseteq Jobs /\ snap[p].off \subseteq Jobs
      /\ page[p].reported \subseteq Jobs
  BY DEF HubInv, TypeOK, Snap, Page
<1>3. \A j \in quiet[p] : pc[j] \in Ended
  BY <1>1 DEF PageInv, ReplayInv
<1>4. ReplayInv(p)'
  BY <1>1, <1>2, <1>3 DEF PageInv, ReplayInv, JobsMove
<1>5. QueueInv(p)'
  <2>1. p \notin Registered => Range(queue[p]) = {}
    BY <1>1, EmptyQueue DEF PageInv, ReplayInv, Registered
  <2>2. \A j \in Jobs : /\ JobMsg(j, FALSE) \in Range(queue[p]) => pc'[j] \notin {"idle", "tracked"}
                        /\ JobMsg(j, TRUE) \in Range(queue[p]) => Sent(p, j)'
    BY <1>1, <2>1 DEF PageInv, QueueInv, JobsMove
  <2>3. conn' = conn /\ snap' = snap /\ queue' = queue /\ page' = page /\ quiet' = quiet
    OBVIOUS
  <2>4. QueueInv(p)
    BY <1>1 DEF PageInv
  <2> QED
    BY <2>2, <2>3, <2>4 DEF QueueInv
<1>6. Synced(p)' => Cleared(p)'
  BY <1>1, <1>2, <1>3 DEF PageInv, Cleared, JobsMove, Synced
<1>7. WatchInv(p)'
  <2>1. Synced(p) => \A j \in watch[p] : Sent(p, j) <=> Sent(p, j)'
    BY <1>2 DEF JobsMove, Synced, Registered
  <2> QED
    BY <1>1, <2>1 DEF PageInv, WatchInv, Synced
<1> QED
  BY <1>4, <1>5, <1>6, <1>7 DEF PageInv

LEMMA GotoFacts ==
    ASSUME TypeOK, NEW b \in Casters, NEW from, NEW to, Goto(b, from, to)
    PROVE  /\ pc[b] = from /\ cast[b].left = {} /\ pc'[b] = to
           /\ \A c \in Casters : c # b => pc'[c] = pc[c]
           /\ Registered' = Registered
           /\ UNCHANGED <<host, wire, page, hist>>
BY DEF TypeOK, Goto, Registered, wire

LEMMA GotoType ==
    ASSUME TypeOK, NEW b \in Casters, NEW from, NEW to, Goto(b, from, to),
           to \in (IF b \in Jobs THEN JobStates ELSE {"wait", "listed"}),
           seen' \in [Casters -> Opt(Lists)], to = "listed" => seen'[b] \in Lists,
           \A c \in Casters : c # b => seen'[c] = seen[c],
           cast' \in [Casters -> Cast], active' \subseteq Jobs, recent' \subseteq UpdateJobs,
           last' \in Opt(Lists), budget' \in Budget
    PROVE  TypeOK'
<1>1. pc' \in [Casters -> JobStates \cup {"wait"}]
  BY DEF TypeOK, Goto, JobStates
<1>2. \A c \in Casters : /\ pc'[c] \in IF c \in Jobs THEN JobStates ELSE {"wait", "listed"}
                         /\ pc'[c] = "listed" => seen'[c] \in Lists
  <2>1. pc'[b] = to /\ \A c \in Casters : c # b => pc'[c] = pc[c]
    BY GotoFacts
  <2>2. \A c \in Casters : /\ pc[c] \in IF c \in Jobs THEN JobStates ELSE {"wait", "listed"}
                           /\ pc[c] = "listed" => seen[c] \in Lists
    BY DEF TypeOK
  <2> QED
    BY <2>1, <2>2
<1>3. /\ host' \in Lists
      /\ conn' \in [Pages -> ConnStates] /\ snap' \in [Pages -> Snap]
      /\ queue' \in [Pages -> Seq(Messages)] /\ \A p \in Pages : Len(queue'[p]) <= Cap
      /\ page' \in [Pages -> Page]
      /\ quiet' \in [Pages -> SUBSET Jobs] /\ watch' \in [Pages -> SUBSET Jobs]
      /\ lost' \in [Pages -> BOOLEAN]
  BY DEF TypeOK, Goto, wire, hist
<1> QED
  BY <1>1, <1>2, <1>3 DEF TypeOK

LEMMA BroadcastFacts ==
    ASSUME TypeOK, NEW b \in Casters, NEW m \in Messages, Broadcast(b, m)
    PROVE  /\ cast' \in [Casters -> Cast]
           /\ cast'[b].msg = m /\ cast'[b].left = Registered
           /\ \A c \in Casters : c # b => cast'[c] = cast[c]
           /\ last' \in Opt(Lists)
<1>1. [msg |-> m, left |-> Registered] \in Cast
  BY DEF Cast, Registered
<1>2. cast \in [Casters -> Cast] /\ last \in Opt(Lists)
  BY DEF TypeOK
<1>3. m.type = "stacks" => m.list \in Lists
  BY DEF Messages
<1> QED
  BY <1>1, <1>2, <1>3 DEF Broadcast, Opt

Busy == {"tracked", "running", "finished"}

\* Where a job is, the registry and the rows say so.
LEMMA GotoFrom ==
    ASSUME HubInv, NEW j \in Jobs
    PROVE  /\ j \in active <=> pc[j] \in Busy
           /\ j \in recent => pc[j] \in {"finished"} \cup Ended
           /\ active \in SUBSET Jobs /\ recent \in SUBSET Jobs
BY DEF HubInv, ServerInv, TypeOK, Busy, Jobs

\* A caster moves on: what it leaves in the registry, the rows and its broadcast.
LEMMA GotoServer ==
    ASSUME HubInv, NEW b \in Casters, NEW from, NEW to, Goto(b, from, to),
           active' \in SUBSET Jobs, recent' \in SUBSET Jobs,
           \A c \in Jobs : c # b => (c \in active' <=> c \in active) /\ (c \in recent' => c \in recent),
           b \in Jobs => /\ b \in active' <=> to \in Busy
                         /\ b \in recent' => to \in {"finished"} \cup Ended,
           \A c \in Casters : c # b => cast'[c] = cast[c],
           cast'[b].left \subseteq Registered,
           cast'[b].left # {} =>
               \/ to = "running" /\ cast'[b].msg = JobMsg(b, FALSE)
               \/ to = "reported" /\ cast'[b].msg = JobMsg(b, TRUE)
               \/ to \in {"over", "wait"} /\ cast'[b].msg.type = "stacks"
    PROVE  ServerInv'
<1>1. /\ pc'[b] = to /\ Registered' = Registered
      /\ \A c \in Casters : c # b => pc'[c] = pc[c]
  BY GotoFacts DEF HubInv
<1>2. Jobs \subseteq Casters
  BY DEF Casters
<1>3. active' = {j \in Jobs : pc'[j] \in {"tracked", "running", "finished"}}
  <2>1. ASSUME NEW j \in Jobs PROVE j \in active' <=> pc'[j] \in Busy
    <3>1. CASE j = b
      BY <1>1, <3>1
    <3>2. CASE j # b
      BY <1>1, <1>2, <3>2, GotoFrom
    <3> QED
      BY <3>1, <3>2
  <2> QED
    BY <2>1 DEF Busy
<1>4. ASSUME NEW j \in recent' PROVE pc'[j] \in {"finished"} \cup Ended
  <2>1. CASE j = b
    BY <1>1, <2>1
  <2>2. CASE j # b
    BY <1>1, <1>2, <2>2, GotoFrom
  <2> QED
    BY <2>1, <2>2
<1>5. \A c \in Casters : cast'[c].left \subseteq Registered'
  BY <1>1 DEF HubInv, ServerInv
<1>6. \A c \in Casters : cast'[c].left # {} =>
           \/ pc'[c] = "running" /\ cast'[c].msg = JobMsg(c, FALSE)
           \/ pc'[c] = "reported" /\ cast'[c].msg = JobMsg(c, TRUE)
           \/ pc'[c] \in {"over", "wait"} /\ cast'[c].msg.type = "stacks"
  BY <1>1 DEF HubInv, ServerInv
<1> QED
  BY <1>3, <1>4, <1>5, <1>6 DEF ServerInv

LEMMA TrackStep ==
    ASSUME HubInv, NEW j \in Jobs, Track(j)
    PROVE  HubInv'
<1>1. TypeOK /\ j \in Casters /\ Goto(j, "idle", "tracked")
  BY DEF HubInv, Track, Casters
<1>2. TypeOK'
  <2>1. budget' \in Budget
    BY <1>1 DEF Track, TypeOK, Budget
  <2> QED
    BY <1>1, <2>1, GotoType DEF Track, TypeOK, JobStates
<1>3. ServerInv'
  <2>1. /\ pc[j] \notin Busy \cup Ended => j \notin recent
        /\ cast[j].left = {} /\ active \in SUBSET Jobs /\ recent \in SUBSET Jobs
        /\ j \in active <=> pc[j] \in Busy
    BY <1>1, GotoFacts, GotoFrom DEF Busy
  <2> QED
    BY <1>1, <2>1, GotoFacts, GotoFrom, GotoServer DEF Track, Busy, Ended
<1>4. JobsMove
  BY <1>1, GotoFacts DEF Track, JobsMove, Sent, Casters, Ended
<1> QED
  BY <1>1, <1>2, <1>3, <1>4, GotoFacts, JobsMoveInv

LEMMA PublishProgressStep ==
    ASSUME HubInv, NEW j \in Jobs, PublishProgress(j)
    PROVE  HubInv'
<1>1. TypeOK /\ j \in Casters /\ Goto(j, "tracked", "running")
  BY DEF HubInv, PublishProgress, Casters
<1>2. /\ cast' \in [Casters -> Cast] /\ last' \in Opt(Lists)
      /\ cast'[j].msg = JobMsg(j, FALSE) /\ cast'[j].left = Registered
      /\ \A c \in Casters : c # j => cast'[c] = cast[c]
  BY <1>1, Msgs, BroadcastFacts DEF PublishProgress
<1>3. TypeOK'
  BY <1>1, <1>2, GotoType DEF PublishProgress, TypeOK, JobStates
<1>4. ServerInv'
  <2>1. /\ pc[j] \notin Busy \cup Ended => j \notin recent
        /\ cast[j].left = {} /\ active \in SUBSET Jobs /\ recent \in SUBSET Jobs
        /\ j \in active <=> pc[j] \in Busy
    BY <1>1, GotoFacts, GotoFrom DEF Busy
  <2>2. active' = active /\ recent' = recent /\ j \in active /\ j \notin recent
    BY <1>1, <2>1, GotoFacts, GotoFrom DEF PublishProgress, Busy, Ended
  <2> QED
    BY <1>1, <1>2, <2>1, <2>2, GotoServer DEF Busy
<1>5. JobsMove
  BY <1>1, <1>2, GotoFacts DEF PublishProgress, JobsMove, Sent, Casters, Ended
<1> QED
  BY <1>1, <1>3, <1>4, <1>5, GotoFacts, JobsMoveInv

LEMMA FnReturnsStep ==
    ASSUME HubInv, NEW j \in Jobs, FnReturns(j)
    PROVE  HubInv'
<1>1. TypeOK /\ j \in Casters /\ Goto(j, "running", "finished")
  BY DEF HubInv, FnReturns, Casters
<1>2. TypeOK'
  BY <1>1, GotoType DEF FnReturns, TypeOK, JobStates
<1>3. ServerInv'
  <2>1. /\ pc[j] \notin Busy \cup Ended => j \notin recent
        /\ cast[j].left = {} /\ active \in SUBSET Jobs /\ recent \in SUBSET Jobs
        /\ j \in active <=> pc[j] \in Busy
    BY <1>1, GotoFacts, GotoFrom DEF Busy
  <2>2. /\ active' = active /\ j \in active /\ cast' = cast
        /\ recent' \in SUBSET Jobs /\ \A c \in Jobs : c # j /\ c \in recent' => c \in recent
    BY <1>1, <2>1, GotoFacts DEF FnReturns, Busy
  <2> QED
    BY <1>1, <2>1, <2>2, GotoServer DEF Busy
<1>4. JobsMove
  BY <1>1, GotoFacts DEF FnReturns, JobsMove, Sent, Casters, Ended
<1> QED
  BY <1>1, <1>2, <1>3, <1>4, GotoFacts, JobsMoveInv

LEMMA ForgetStep ==
    ASSUME HubInv, NEW j \in Jobs, Forget(j)
    PROVE  HubInv'
<1>1. TypeOK /\ j \in Casters /\ Goto(j, "finished", "forgotten")
  BY DEF HubInv, Forget, Casters
<1>2. TypeOK'
  BY <1>1, GotoType DEF Forget, TypeOK, JobStates
<1>3. ServerInv'
  <2>1. /\ pc[j] \notin Busy \cup Ended => j \notin recent
        /\ cast[j].left = {} /\ active \in SUBSET Jobs /\ recent \in SUBSET Jobs
        /\ j \in active <=> pc[j] \in Busy
    BY <1>1, GotoFacts, GotoFrom DEF Busy
  <2> QED
    BY <1>1, <2>1, GotoFacts, GotoFrom, GotoServer DEF Forget, Busy, Ended
<1>4. JobsMove
  BY <1>1, GotoFacts DEF Forget, JobsMove, Sent, Casters, Ended
<1> QED
  BY <1>1, <1>2, <1>3, <1>4, GotoFacts, JobsMoveInv

LEMMA PublishDoneStep ==
    ASSUME HubInv, NEW j \in Jobs, PublishDone(j)
    PROVE  HubInv'
<1>1. TypeOK /\ j \in Casters /\ Goto(j, "forgotten", "reported")
  BY DEF HubInv, PublishDone, Casters
<1>2. /\ cast' \in [Casters -> Cast] /\ last' \in Opt(Lists)
      /\ cast'[j].msg = JobMsg(j, TRUE) /\ cast'[j].left = Registered
      /\ \A c \in Casters : c # j => cast'[c] = cast[c]
  BY <1>1, Msgs, BroadcastFacts DEF PublishDone
<1>3. TypeOK'
  BY <1>1, <1>2, GotoType DEF PublishDone, TypeOK, JobStates
<1>4. ServerInv'
  <2>1. /\ pc[j] \notin Busy \cup Ended => j \notin recent
        /\ cast[j].left = {} /\ active \in SUBSET Jobs /\ recent \in SUBSET Jobs
        /\ j \in active <=> pc[j] \in Busy
    BY <1>1, GotoFacts, GotoFrom DEF Busy
  <2>2. active' = active /\ recent' = recent /\ j \notin active
    BY <1>1, <2>1, GotoFacts DEF PublishDone, Busy
  <2> QED
    BY <1>1, <1>2, <2>1, <2>2, GotoServer DEF Busy, Ended
<1>5. JobsMove
  BY <1>1, <1>2, GotoFacts DEF PublishDone, JobsMove, Sent, Casters, Ended
<1> QED
  BY <1>1, <1>3, <1>4, <1>5, GotoFacts, JobsMoveInv

LEMMA JobFailedStep ==
    ASSUME HubInv, NEW j \in Jobs, JobFailed(j)
    PROVE  HubInv'
<1>1. TypeOK /\ j \in Casters /\ Goto(j, "reported", "over")
  BY DEF HubInv, JobFailed, Casters
<1>2. TypeOK'
  BY <1>1, GotoType DEF JobFailed, TypeOK, JobStates
<1>3. ServerInv'
  <2>1. /\ pc[j] \notin Busy \cup Ended => j \notin recent
        /\ cast[j].left = {} /\ active \in SUBSET Jobs /\ recent \in SUBSET Jobs
        /\ j \in active <=> pc[j] \in Busy
    BY <1>1, GotoFacts, GotoFrom DEF Busy
  <2> QED
    BY <1>1, <2>1, GotoFacts, GotoFrom, GotoServer DEF JobFailed, Busy, Ended
<1>4. JobsMove
  BY <1>1, GotoFacts DEF JobFailed, JobsMove, Sent, Casters, Ended
<1> QED
  BY <1>1, <1>2, <1>3, <1>4, GotoFacts, JobsMoveInv

LEMMA ListStep ==
    ASSUME HubInv, NEW b \in Casters, List(b)
    PROVE  HubInv'
<1> DEFINE from == IF b = Poller THEN "wait" ELSE "reported"
<1>1. TypeOK /\ Goto(b, from, "listed")
  BY DEF HubInv, List
<1>2. b \in Jobs => from = "reported"
  BY HubAssumption
<1> HIDE DEF from
<1>3. TypeOK'
  <2>1. /\ seen' \in [Casters -> Opt(Lists)] /\ seen'[b] \in Lists
        /\ \A c \in Casters : c # b => seen'[c] = seen[c]
    BY <1>1 DEF List, TypeOK, Opt
  <2> QED
    BY <1>1, <2>1, GotoType DEF List, TypeOK, JobStates
<1>4. ServerInv'
  <2>1. cast[b].left = {} /\ pc[b] = from /\ active \in SUBSET Jobs /\ recent \in SUBSET Jobs
    BY <1>1, GotoFacts DEF TypeOK, Jobs
  <2>2. b \in Jobs => b \notin active
    BY <1>2, <2>1, GotoFrom DEF Busy
  <2> QED
    BY <1>1, <2>1, <2>2, GotoServer DEF List, Busy, Ended
<1>5. JobsMove
  BY <1>1, <1>2, GotoFacts DEF List, JobsMove, Sent, Casters, Ended
<1> QED
  BY <1>1, <1>3, <1>4, <1>5, GotoFacts, JobsMoveInv

LEMMA BroadcastStacksStep ==
    ASSUME HubInv, NEW b \in Casters, BroadcastStacks(b)
    PROVE  HubInv'
<1> DEFINE to == IF b = Poller THEN "wait" ELSE "over"
<1>1. TypeOK /\ Goto(b, "listed", to)
  BY DEF HubInv, BroadcastStacks
<1>2. (b \in Jobs => to = "over") /\ to \in {"wait", "over"} /\ (b \notin Jobs => to = "wait")
  BY HubAssumption DEF Casters
<1>3. StacksMsg(seen[b]) \in Messages
  BY <1>1, Msgs, GotoFacts DEF TypeOK
<1>4. /\ cast' \in [Casters -> Cast] /\ last' \in Opt(Lists)
      /\ cast'[b].msg.type = "stacks" /\ cast'[b].left = Registered
      /\ \A c \in Casters : c # b => cast'[c] = cast[c]
  BY <1>1, <1>3, Msgs, BroadcastFacts DEF BroadcastStacks
<1> HIDE DEF to
<1>5. TypeOK'
  <2>1. /\ seen' \in [Casters -> Opt(Lists)]
        /\ \A c \in Casters : c # b => seen'[c] = seen[c]
    BY <1>1 DEF BroadcastStacks, TypeOK, Opt
  <2> QED
    BY <1>1, <1>2, <1>4, <2>1, GotoType DEF BroadcastStacks, TypeOK, JobStates
<1>6. ServerInv'
  <2>1. pc[b] = "listed" /\ active \in SUBSET Jobs /\ recent \in SUBSET Jobs
    BY <1>1, GotoFacts DEF TypeOK, Jobs
  <2>2. b \in Jobs => b \notin active
    BY <2>1, GotoFrom DEF Busy
  <2> QED
    BY <1>1, <1>2, <1>4, <2>1, <2>2, GotoServer DEF BroadcastStacks, Busy, Ended
<1>7. JobsMove
  BY <1>1, <1>2, <1>4, GotoFacts DEF BroadcastStacks, JobsMove, Sent, Casters, Ended
<1> QED
  BY <1>1, <1>5, <1>6, <1>7, GotoFacts, JobsMoveInv

LEMMA AgeStep ==
    ASSUME HubInv, NEW j \in Jobs, Age(j)
    PROVE  HubInv'
<1>1. TypeOK' /\ UNCHANGED <<wire, page, hist>>
  BY DEF Age, HubInv, TypeOK, wire, hist
<1>2. Registered' = Registered
  BY DEF Age, wire, Registered
<1>3. ServerInv'
  BY <1>2 DEF Age, HubInv, ServerInv
<1>4. JobsMove
  BY DEF Age, JobsMove, Sent
<1> QED
  BY <1>1, <1>3, <1>4, JobsMoveInv

LEMMA HostStep ==
    ASSUME HubInv, HostChanges \/ UNCHANGED vars
    PROVE  HubInv'
<1>1. UNCHANGED <<server, wire, page, hist>> /\ host' \in Lists /\ budget' \in Budget
  BY DEF HostChanges, vars, server, wire, hist, HubInv, TypeOK, Budget
<1>2. TypeOK'
  BY <1>1 DEF HubInv, TypeOK, server, wire, hist
<1>3. Registered' = Registered
  BY <1>1 DEF wire, Registered
<1>4. ServerInv'
  BY <1>1, <1>3 DEF HubInv, ServerInv, server
<1>5. JobsMove
  BY <1>1 DEF JobsMove, Sent, server
<1> QED
  BY <1>1, <1>2, <1>4, <1>5, JobsMoveInv

-----------------------------------------------------------------------------
(* The connections.                                                        *)

\* A page of which nothing changed.
LEMMA OtherPage ==
    ASSUME HubInv, NEW q \in Pages,
           UNCHANGED <<pc, recent, conn[q], snap[q], queue[q], page[q], quiet[q], watch[q], lost[q]>>,
           \A j \in Jobs : Sent(q, j) <=> Sent(q, j)'
    PROVE  PageInv(q)'
<1>1. PageInv(q) /\ watch[q] \subseteq Jobs
  BY DEF HubInv, TypeOK
<1>2. ReplayInv(q)'
  BY <1>1 DEF PageInv, ReplayInv
<1>3. QueueInv(q)'
  BY <1>1 DEF PageInv, QueueInv
<1>4. Synced(q)' => Cleared(q)'
  BY <1>1 DEF PageInv, Synced, Cleared
<1>5. WatchInv(q)'
  BY <1>1 DEF PageInv, WatchInv, Synced
<1> QED
  BY <1>2, <1>3, <1>4, <1>5 DEF PageInv

\* A send puts the message at the end or loses it.
LEMMA PushFacts ==
    ASSUME TypeOK, NEW p \in Pages, NEW m \in Messages, Push(p, m)
    PROVE  /\ queue' \in [Pages -> Seq(Messages)] /\ lost' \in [Pages -> BOOLEAN]
           /\ \A q \in Pages : Len(queue'[q]) <= Cap
           /\ \A q \in Pages : q # p => queue'[q] = queue[q] /\ lost'[q] = lost[q]
           /\ \/ queue'[p] = queue[p] /\ lost'[p]
              \/ queue'[p] = Append(queue[p], m) /\ (lost'[p] <=> lost[p])
<1>1. queue \in [Pages -> Seq(Messages)] /\ lost \in [Pages -> BOOLEAN] /\ Cap \in Nat
  BY HubAssumption DEF TypeOK
<1>2. lost' \in [Pages -> BOOLEAN] /\ \A q \in Pages : q # p => lost'[q] = lost[q]
  BY <1>1 DEF Push
<1>3. lost'[p] <=> lost[p] \/ Len(queue[p]) >= Cap
  BY <1>1 DEF Push
<1>4. CASE Len(queue[p]) < Cap
  <2>1. queue' = [queue EXCEPT ![p] = Append(queue[p], m)]
    BY <1>1, <1>4 DEF Push
  <2>2. Append(queue[p], m) \in Seq(Messages) /\ Len(Append(queue[p], m)) <= Cap
    BY <1>1, <1>4
  <2>3. lost'[p] <=> lost[p]
    BY <1>1, <1>3, <1>4
  <2> QED
    BY <1>1, <1>2, <2>1, <2>2, <2>3 DEF TypeOK
<1>5. CASE ~(Len(queue[p]) < Cap)
  BY <1>1, <1>2, <1>3, <1>5 DEF Push, TypeOK
<1> QED
  BY <1>4, <1>5

LEMMA PushRange ==
    ASSUME TypeOK, NEW p \in Pages, NEW m \in Messages, Push(p, m), NEW ended, InOrder(queue[p], ended),
           (m.type = "jobs" \/ \E j \in ended : m = JobMsg(j, FALSE)) => \A n \in Range(queue[p]) : n.type # "jobs",
           \A j \in Jobs, d \in BOOLEAN : m = JobMsg(j, d) => JobMsg(j, TRUE) \notin Range(queue[p])
    PROVE  /\ InOrder(queue'[p], ended)
           /\ Range(queue'[p]) \subseteq Range(queue[p]) \cup {m}
           /\ Range(queue[p]) \subseteq Range(queue'[p])
           /\ ~lost'[p] => ~lost[p] /\ m \in Range(queue'[p])
<1>1. queue[p] \in Seq(Messages)
  BY DEF TypeOK
<1>2. CASE queue'[p] = queue[p] /\ lost'[p]
  BY <1>2
<1>3. CASE queue'[p] = Append(queue[p], m) /\ (lost'[p] <=> lost[p])
  <2>1. InOrder(Append(queue[p], m), ended)
    BY <1>1, AppendOrder
  <2>2. Range(Append(queue[p], m)) = Range(queue[p]) \cup {m}
    BY <1>1, AppendRange
  <2> QED
    BY <1>3, <2>1, <2>2
<1> QED
  BY <1>2, <1>3, PushFacts

\* A step of the handler of page p, which leaves the casters alone.
LEMMA HandlerInv ==
    ASSUME HubInv, NEW p \in Pages, UNCHANGED <<server, page, budget, host>>, TypeOK',
           \A q \in Pages : q # p => UNCHANGED <<conn[q], snap[q], queue[q], quiet[q], watch[q], lost[q]>>,
           conn'[p] # "off", PageInv(p)'
    PROVE  HubInv'
<1> USE DEF server
<1>1. ServerInv'
  <2>1. Registered \subseteq Registered'
    BY DEF Registered
  <2> QED
    BY <2>1 DEF HubInv, ServerInv
<1>2. ASSUME NEW q \in Pages, q # p PROVE PageInv(q)'
  BY <1>2, OtherPage DEF Sent
<1> QED
  BY <1>1, <1>2 DEF HubInv

LEMMA ConnectStep ==
    ASSUME HubInv, NEW p \in Pages, Connect(p)
    PROVE  HubInv'
<1> USE DEF server
<1>1. TypeOK /\ PageInv(p)
  BY DEF HubInv
<1>2. /\ conn \in [Pages -> ConnStates] /\ snap \in [Pages -> Snap] /\ page \in [Pages -> Page]
      /\ quiet \in [Pages -> SUBSET Jobs] /\ watch \in [Pages -> SUBSET Jobs]
  BY <1>1 DEF TypeOK
<1>3. /\ conn'[p] = "added" /\ quiet'[p] = {} /\ watch'[p] = {} /\ snap'[p].off = {}
      /\ page'[p].synced = FALSE /\ page'[p].reported = page[p].reported
      /\ queue' = queue /\ queue[p] = <<>>
  BY <1>1, <1>2 DEF Connect, PageInv, ReplayInv, Page
<1>4. \A q \in Pages : q # p =>
          UNCHANGED <<conn[q], snap[q], queue[q], page[q], quiet[q], watch[q], lost[q]>>
  BY <1>2 DEF Connect
<1>5. TypeOK'
  <2>1. /\ conn' \in [Pages -> ConnStates] /\ quiet' \in [Pages -> SUBSET Jobs]
        /\ watch' \in [Pages -> SUBSET Jobs]
    BY <1>2 DEF Connect, ConnStates
  <2>2. snap' \in [Pages -> Snap]
    BY <1>1, <1>2 DEF Connect, Snap, TypeOK
  <2>3. page' \in [Pages -> Page]
    BY <1>2 DEF Connect, Page
  <2>4. lost' \in [Pages -> BOOLEAN] /\ queue' \in [Pages -> Seq(Messages)]
    BY <1>1, <1>3 DEF Connect, TypeOK
  <2> QED
    BY <1>1, <2>1, <2>2, <2>3, <2>4 DEF Connect, TypeOK
<1>6. ServerInv'
  <2>1. Registered \subseteq Registered'
    BY <1>3, <1>4 DEF Registered
  <2> QED
    BY <2>1 DEF HubInv, ServerInv, Connect
<1>7. PageInv(p)'
  <2>1. ReplayInv(p)'
    BY <1>1, <1>3 DEF PageInv, ReplayInv, Connect
  <2>2. QueueInv(p)'
    BY <1>3, EmptyQueue DEF QueueInv
  <2>3. ~Synced(p)'
    BY <1>3 DEF Synced
  <2> QED
    BY <2>1, <2>2, <2>3 DEF PageInv, WatchInv
<1>8. ASSUME NEW q \in Pages, q # p PROVE PageInv(q)'
  BY <1>4, <1>8, OtherPage DEF Sent, Connect
<1> QED
  BY <1>5, <1>6, <1>7, <1>8 DEF HubInv

LEMMA ReplayLastStep ==
    ASSUME HubInv, NEW p \in Pages, ReplayLast(p)
    PROVE  HubInv'
<1> USE DEF server, HandlerStep
<1>1. TypeOK /\ PageInv(p)
  BY DEF HubInv
<1>2. /\ conn[p] = "added" /\ conn'[p] = "replay" /\ conn' \in [Pages -> ConnStates]
      /\ \A q \in Pages : q # p => conn'[q] = conn[q]
  BY <1>1 DEF ReplayLast, TypeOK, ConnStates
<1>3. /\ queue' \in [Pages -> Seq(Messages)] /\ lost' \in [Pages -> BOOLEAN]
      /\ \A q \in Pages : Len(queue'[q]) <= Cap
      /\ \A q \in Pages : q # p => queue'[q] = queue[q] /\ lost'[q] = lost[q]
      /\ InOrder(queue'[p], quiet[p])
      /\ \A n \in Range(queue'[p]) : n \in Range(queue[p]) \/ n.type = "stacks"
  <2>1. InOrder(queue[p], quiet[p])
    BY <1>1 DEF PageInv, QueueInv
  <2>2. CASE snap[p].list = None
    BY <1>1, <2>1, <2>2 DEF ReplayLast, TypeOK
  <2>3. CASE snap[p].list # None
    <3> DEFINE m == StacksMsg(snap[p].list)
    <3>1. m \in Messages /\ m.type = "stacks" /\ Push(p, m)
      BY <1>1, <2>3, Msgs DEF ReplayLast, TypeOK, Snap, Opt
    <3>2. \A j \in Jobs, d \in BOOLEAN : m # JobMsg(j, d)
      BY <3>1, Msgs
    <3>3. quiet[p] \subseteq Jobs
      BY <1>1 DEF TypeOK
    <3> HIDE DEF m
    <3>4. InOrder(queue'[p], quiet[p]) /\ Range(queue'[p]) \subseteq Range(queue[p]) \cup {m}
      BY <1>1, <2>1, <3>1, <3>2, <3>3, PushRange
    <3> QED
      BY <1>1, <3>1, <3>4, PushFacts
  <2> QED
    BY <2>2, <2>3
<1>4. TypeOK'
  BY <1>1, <1>2, <1>3 DEF ReplayLast, TypeOK
<1>5. PageInv(p)'
  <2>1. ReplayInv(p)'
    BY <1>1, <1>2 DEF PageInv, ReplayInv, ReplayLast, ConnStates
  <2>2. QueueInv(p)'
    <3>1. /\ \A n \in Range(queue'[p]) : n.type = "jobs" => n \in Range(queue[p])
          /\ \A j \in Jobs, d \in BOOLEAN : JobMsg(j, d) \in Range(queue'[p]) => JobMsg(j, d) \in Range(queue[p])
      BY <1>3, Msgs
    <3>2. \A j \in Jobs : Sent(p, j) <=> Sent(p, j)'
      BY DEF ReplayLast, Sent
    <3> QED
      BY <1>1, <1>2, <1>3, <3>1, <3>2 DEF PageInv, QueueInv, ReplayLast
  <2>3. ~Synced(p)'
    BY <1>2 DEF Synced
  <2> QED
    BY <2>1, <2>2, <2>3 DEF PageInv, WatchInv
<1> QED
  BY <1>2, <1>3, <1>4, <1>5, HandlerInv DEF ReplayLast

LEMMA ReadActiveStep ==
    ASSUME HubInv, NEW p \in Pages, ReadActive(p)
    PROVE  HubInv'
<1> USE DEF server, HandlerStep
<1>1. TypeOK /\ PageInv(p) /\ ServerInv
  BY DEF HubInv
<1>2. /\ conn \in [Pages -> ConnStates] /\ snap \in [Pages -> Snap] /\ quiet \in [Pages -> SUBSET Jobs]
  BY <1>1 DEF TypeOK
<1>3. /\ conn[p] = "replay" /\ conn'[p] = "rows" /\ conn' \in [Pages -> ConnStates]
      /\ snap'[p].on = active /\ snap'[p].off = snap[p].off
      /\ quiet'[p] = {j \in Jobs : pc[j] \in Ended}
  BY <1>2 DEF ReadActive, ConnStates, Snap
<1>4. \A q \in Pages : q # p => UNCHANGED <<conn[q], snap[q], queue[q], quiet[q], watch[q], lost[q]>>
  BY <1>2 DEF ReadActive
<1>5. TypeOK'
  <2>1. active \in SUBSET Jobs
    BY <1>1 DEF TypeOK
  <2>2. snap' \in [Pages -> Snap]
    BY <1>2, <2>1 DEF ReadActive, Snap
  <2>3. quiet' \in [Pages -> SUBSET Jobs]
    BY <1>2 DEF ReadActive
  <2> QED
    BY <1>1, <1>3, <2>2, <2>3 DEF ReadActive, TypeOK
<1>6. PageInv(p)'
  <2>1. ReplayInv(p)'
    <3>1. active \cap quiet'[p] = {}
      BY <1>1, <1>3 DEF ServerInv, Ended
    <3> QED
      BY <1>1, <1>3, <3>1 DEF PageInv, ReplayInv, ReadActive, ConnStates
  <2>2. QueueInv(p)'
    <3>1. queue' = queue /\ \A n \in Range(queue[p]) : n.type # "jobs"
      BY <1>1, <1>3 DEF PageInv, QueueInv, ReadActive
    <3>2. InOrder(queue[p], quiet'[p])
      BY <1>1, <3>1 DEF PageInv, QueueInv, InOrder, Range
    <3>3. \A j \in Jobs : Sent(p, j) <=> Sent(p, j)'
      BY DEF ReadActive, Sent
    <3>4. ~page'[p].synced
      BY <1>1, <1>3 DEF PageInv, ReplayInv, ReadActive, ConnStates
    <3> QED
      BY <1>1, <3>1, <3>2, <3>3, <3>4 DEF PageInv, QueueInv, ReadActive
  <2>3. ~Synced(p)'
    BY <1>3 DEF Synced
  <2> QED
    BY <2>1, <2>2, <2>3 DEF PageInv, WatchInv
<1> QED
  BY <1>3, <1>4, <1>5, <1>6, HandlerInv DEF ReadActive

LEMMA ReadRecentStep ==
    ASSUME HubInv, NEW p \in Pages, ReadRecent(p)
    PROVE  HubInv'
<1> USE DEF server, HandlerStep
<1>1. TypeOK /\ PageInv(p) /\ ServerInv
  BY DEF HubInv
<1>2. /\ conn \in [Pages -> ConnStates] /\ snap \in [Pages -> Snap] /\ recent \subseteq Jobs
  BY <1>1 DEF TypeOK, Jobs
<1>3. /\ conn[p] = "rows" /\ conn'[p] = "push" /\ conn' \in [Pages -> ConnStates]
      /\ snap'[p].on = snap[p].on /\ snap'[p].off = recent \ snap[p].on
  BY <1>2 DEF ReadRecent, ConnStates, Snap
<1>4. \A q \in Pages : q # p => UNCHANGED <<conn[q], snap[q], queue[q], quiet[q], watch[q], lost[q]>>
  BY <1>2 DEF ReadRecent
<1>5. TypeOK'
  <2>1. snap' \in [Pages -> Snap]
    BY <1>2 DEF ReadRecent, Snap
  <2> QED
    BY <1>1, <1>3, <2>1 DEF ReadRecent, TypeOK
<1>6. PageInv(p)'
  <2>1. ReplayInv(p)'
    <3>1. \A j \in recent : pc[j] # "idle"
      BY <1>1 DEF ServerInv, Ended
    <3> QED
      BY <1>1, <1>3, <3>1 DEF PageInv, ReplayInv, ReadRecent, ConnStates
  <2>2. QueueInv(p)'
    <3>1. queue' = queue /\ \A n \in Range(queue[p]) : n.type # "jobs"
      BY <1>1, <1>3 DEF PageInv, QueueInv, ReadRecent
    <3>2. \A j \in Jobs : Sent(p, j) <=> Sent(p, j)'
      BY DEF ReadRecent, Sent
    <3> QED
      BY <1>1, <3>1, <3>2 DEF PageInv, QueueInv, ReadRecent
  <2>3. ~Synced(p)'
    BY <1>3 DEF Synced
  <2> QED
    BY <2>1, <2>2, <2>3 DEF PageInv, WatchInv
<1> QED
  BY <1>3, <1>4, <1>5, <1>6, HandlerInv DEF ReadRecent

LEMMA ReplayJobsStep ==
    ASSUME HubInv, NEW p \in Pages, ReplayJobs(p)
    PROVE  HubInv'
<1> DEFINE m == JobsMsg(snap[p].on, snap[p].off)
<1> USE DEF server, HandlerStep
<1>1. TypeOK /\ PageInv(p)
  BY DEF HubInv
<1>2. /\ conn[p] = "push" /\ conn'[p] = "open" /\ conn' \in [Pages -> ConnStates]
      /\ \A q \in Pages : q # p => conn'[q] = conn[q]
  BY <1>1 DEF ReplayJobs, TypeOK, ConnStates
<1>3. m \in Messages /\ m.type = "jobs" /\ Push(p, m)
  <2>1. snap[p] \in Snap
    BY <1>1 DEF TypeOK
  <2>2. snap[p].on \in SUBSET Jobs /\ snap[p].off \in SUBSET Jobs
    BY <2>1 DEF Snap
  <2>3. JobsMsg(snap[p].on, snap[p].off) \in Messages
    BY <2>2, Msgs
  <2>4. JobsMsg(snap[p].on, snap[p].off).type = "jobs"
    BY Msgs
  <2>5. Push(p, JobsMsg(snap[p].on, snap[p].off))
    BY DEF ReplayJobs
  <2> QED
    BY <2>3, <2>4, <2>5
<1>4. \A j \in Jobs, d \in BOOLEAN : m # JobMsg(j, d)
  BY <1>3, Msgs
<1>5. InOrder(queue[p], quiet[p]) /\ \A n \in Range(queue[p]) : n.type # "jobs"
  BY <1>1, <1>2 DEF PageInv, QueueInv
<1>6. /\ InOrder(queue'[p], quiet[p])
      /\ Range(queue'[p]) \subseteq Range(queue[p]) \cup {m}
  <2> HIDE DEF m
  <2> QED
    BY <1>1, <1>3, <1>4, <1>5, PushRange
<1>7. /\ queue' \in [Pages -> Seq(Messages)] /\ lost' \in [Pages -> BOOLEAN]
      /\ \A q \in Pages : Len(queue'[q]) <= Cap
      /\ \A q \in Pages : q # p => queue'[q] = queue[q] /\ lost'[q] = lost[q]
  <2> HIDE DEF m
  <2> QED
    BY <1>1, <1>3, PushFacts
<1>8. TypeOK'
  BY <1>1, <1>2, <1>7 DEF ReplayJobs, TypeOK
<1>9. ~page'[p].synced
  BY <1>1, <1>2 DEF PageInv, ReplayInv, ConnStates, ReplayJobs
<1>10. PageInv(p)'
  <2>1. ReplayInv(p)'
    BY <1>1, <1>2 DEF PageInv, ReplayInv, ReplayJobs, ConnStates
  <2>2. QueueInv(p)'
    <3>1. \A j \in Jobs, d \in BOOLEAN : JobMsg(j, d) \in Range(queue'[p]) => JobMsg(j, d) \in Range(queue[p])
      BY <1>4, <1>6
    <3>2. \A n \in Range(queue'[p]) : n.type = "jobs" => n = m
      BY <1>5, <1>6
    <3>3. \A j \in Jobs : Sent(p, j) <=> Sent(p, j)'
      BY DEF ReplayJobs, Sent
    <3>4. snap' = snap /\ quiet' = quiet /\ pc' = pc
      BY DEF ReplayJobs
    <3> QED
      BY <1>1, <1>2, <1>6, <1>9, <3>1, <3>2, <3>3, <3>4 DEF PageInv, QueueInv
  <2>3. ~Synced(p)'
    BY <1>9 DEF Synced
  <2> QED
    BY <2>1, <2>2, <2>3 DEF PageInv, WatchInv
<1> QED
  BY <1>2, <1>7, <1>8, <1>10, HandlerInv DEF ReplayJobs

\* The casters are at work on the message of their state.
LEMMA SendingWhat ==
    ASSUME HubInv, NEW b \in Casters, NEW p \in cast[b].left
    PROVE  /\ p \in Pages /\ conn[p] # "off" /\ cast[b].msg \in Messages
           /\ \/ /\ b \in Jobs /\ pc[b] = "running" /\ cast[b].msg = JobMsg(b, FALSE)
              \/ /\ b \in Jobs /\ pc[b] = "reported" /\ cast[b].msg = JobMsg(b, TRUE)
              \/ pc[b] \in {"over", "wait"} /\ cast[b].msg.type = "stacks"
<1>1. cast[b].left \subseteq Registered /\ cast[b].msg \in Messages
  BY DEF HubInv, ServerInv, TypeOK, Cast
<1>2. \/ pc[b] = "running" /\ cast[b].msg = JobMsg(b, FALSE)
      \/ pc[b] = "reported" /\ cast[b].msg = JobMsg(b, TRUE)
      \/ pc[b] \in {"over", "wait"} /\ cast[b].msg.type = "stacks"
  BY DEF HubInv, ServerInv
<1>3. pc[b] \in {"running", "reported"} => b \in Jobs
  BY DEF HubInv, TypeOK
<1> QED
  BY <1>1, <1>2, <1>3 DEF Registered

LEMMA SendStep ==
    ASSUME HubInv, NEW b \in Casters, NEW p \in Pages, Send(b, p)
    PROVE  HubInv'
<1> DEFINE m == cast[b].msg
<1>1. TypeOK /\ PageInv(p) /\ p \in cast[b].left /\ Push(p, m) /\ conn[p] # "off" /\ m \in Messages
  BY SendingWhat DEF HubInv, Send
<1>2. \/ b \in Jobs /\ pc[b] = "running" /\ m = JobMsg(b, FALSE)
      \/ b \in Jobs /\ pc[b] = "reported" /\ m = JobMsg(b, TRUE)
      \/ pc[b] \in {"over", "wait"} /\ m.type = "stacks"
  BY <1>1, SendingWhat
<1>3. cast \in [Casters -> Cast] /\ quiet[p] \subseteq Jobs /\ watch[p] \subseteq Jobs
  BY <1>1 DEF TypeOK
<1>4. /\ cast' \in [Casters -> Cast] /\ cast'[b].msg = m /\ cast'[b].left = cast[b].left \ {p}
      /\ \A c \in Casters : c # b => cast'[c] = cast[c]
  BY <1>3 DEF Send, Cast
<1>5. UNCHANGED <<host, pc, seen, active, recent, last, conn, snap, page, budget, quiet, watch>>
  BY DEF Send, hist
<1> HIDE DEF m
<1>6. \A j \in Jobs, d \in BOOLEAN : m = JobMsg(j, d) => j = b /\ b \in Jobs /\ ~Sent(p, b)
  <2> SUFFICES ASSUME NEW j \in Jobs, NEW d \in BOOLEAN, m = JobMsg(j, d)
               PROVE  j = b /\ b \in Jobs /\ ~Sent(p, b)
    OBVIOUS
  <2>1. m.type # "stacks"
    BY Msgs
  <2>2. j = b /\ b \in Jobs /\ pc[b] \in {"running", "reported"}
    BY <1>2, <2>1, SameJob
  <2> QED
    BY <1>1, <2>2 DEF Sent
<1>7. /\ InOrder(queue'[p], quiet[p])
      /\ Range(queue'[p]) \subseteq Range(queue[p]) \cup {m}
      /\ Range(queue[p]) \subseteq Range(queue'[p])
      /\ ~lost'[p] => ~lost[p] /\ m \in Range(queue'[p])
  <2>1. m.type # "jobs"
    BY <1>2, Msgs
  <2>2. \A j \in quiet[p] : m # JobMsg(j, FALSE)
    <3>1. \A j \in Jobs : m = JobMsg(j, FALSE) => j = b /\ pc[b] = "running"
      BY <1>2, <1>6, SameJob, Msgs
    <3>2. pc[b] = "running" => b \notin quiet[p]
      BY <1>1 DEF PageInv, ReplayInv, Ended
    <3> QED
      BY <1>3, <3>1, <3>2
  <2>3. \A j \in Jobs, d \in BOOLEAN : m = JobMsg(j, d) => JobMsg(j, TRUE) \notin Range(queue[p])
    BY <1>1, <1>6 DEF PageInv, QueueInv
  <2>4. InOrder(queue[p], quiet[p])
    BY <1>1 DEF PageInv, QueueInv
  <2> QED
    BY <1>1, <2>1, <2>2, <2>3, <2>4, PushRange
<1>8. /\ queue' \in [Pages -> Seq(Messages)] /\ lost' \in [Pages -> BOOLEAN]
      /\ \A q \in Pages : Len(queue'[q]) <= Cap
      /\ \A q \in Pages : q # p => queue'[q] = queue[q] /\ lost'[q] = lost[q]
  BY <1>1, PushFacts
<1>9. TypeOK'
  BY <1>1, <1>4, <1>5, <1>8 DEF TypeOK
<1>10. ServerInv'
  <2>1. Registered' = Registered
    BY <1>5 DEF Registered
  <2>2. \A c \in Casters : cast'[c].left \subseteq cast[c].left /\ cast'[c].msg = cast[c].msg
    BY <1>4 DEF m
  <2> QED
    BY <1>5, <2>1, <2>2 DEF HubInv, ServerInv
<1>11. Jobs \subseteq Casters
  BY DEF Casters
<1>12. ASSUME NEW q \in Pages, q # p PROVE PageInv(q)'
  <2>1. \A j \in Jobs : Sent(q, j) <=> Sent(q, j)'
    BY <1>4, <1>5, <1>11, <1>12 DEF Sent
  <2> QED
    BY <1>5, <1>8, <1>12, <2>1, OtherPage
<1>13. /\ \A j \in Jobs : j # b => (Sent(p, j) <=> Sent(p, j)')
       /\ b \in Jobs /\ m # JobMsg(b, TRUE) => (Sent(p, b) <=> Sent(p, b)')
       /\ b \in Jobs /\ m = JobMsg(b, TRUE) => Sent(p, b)'
  <2>1. b \in Jobs /\ m # JobMsg(b, TRUE) => pc[b] # "reported"
    BY <1>2
  <2>2. b \in Jobs /\ m = JobMsg(b, TRUE) => pc[b] = "reported"
    BY <1>2, Msgs
  <2> QED
    BY <1>4, <1>5, <1>11, <2>1, <2>2 DEF Sent
<1>14. \A j \in Jobs : Sent(p, j) => Sent(p, j)'
  BY <1>13
<1>15. PageInv(p)'
  <2>1. ReplayInv(p)'
    BY <1>1, <1>5 DEF PageInv, ReplayInv
  <2>2. QueueInv(p)'
    <3>1. \A n \in Range(queue'[p]) : n.type = "jobs" => n \in Range(queue[p])
      <4>1. m.type # "jobs"
        BY <1>2, Msgs
      <4> QED
        BY <1>7, <4>1
    <3>2. \A j \in Jobs : JobMsg(j, FALSE) \in Range(queue'[p]) =>
              JobMsg(j, FALSE) \in Range(queue[p]) \/ (j = b /\ pc[b] = "running")
      <4> SUFFICES ASSUME NEW j \in Jobs, JobMsg(j, FALSE) \in Range(queue'[p]),
                          JobMsg(j, FALSE) \notin Range(queue[p])
                   PROVE  j = b /\ pc[b] = "running"
        OBVIOUS
      <4>1. m = JobMsg(j, FALSE)
        BY <1>7
      <4>2. j = b /\ b \in Jobs
        BY <1>6, <4>1
      <4>3. m.type # "stacks" /\ m # JobMsg(b, TRUE)
        BY <4>1, <4>2, SameJob, Msgs
      <4> QED
        BY <1>2, <4>2, <4>3
    <3>3. pc[b] = "running" => b \notin quiet[p]
      BY <1>1 DEF PageInv, ReplayInv, Ended
    <3>4. \A j \in Jobs : JobMsg(j, TRUE) \in Range(queue'[p]) =>
              JobMsg(j, TRUE) \in Range(queue[p]) \/ (j = b /\ m = JobMsg(b, TRUE))
      BY <1>6, <1>7
    <3>5. \A j \in Jobs : JobMsg(j, TRUE) \in Range(queue'[p]) => Sent(p, j)'
      BY <1>1, <1>13, <1>14, <3>4 DEF PageInv, QueueInv
    <3> QED
      BY <1>1, <1>5, <1>7, <3>1, <3>2, <3>3, <3>5 DEF PageInv, QueueInv
  <2>3. Synced(p)' => Cleared(p)'
    BY <1>1, <1>5 DEF PageInv, Synced, Cleared
  <2>4. WatchInv(p)'
    <3> SUFFICES ASSUME Synced(p), ~lost'[p], NEW j \in watch[p]
                 PROVE  IF j \in page[p].reported
                        THEN /\ Sent(p, j)' /\ j \notin page[p].spinners
                             /\ \A d \in BOOLEAN : JobMsg(j, d) \notin Range(queue'[p])
                        ELSE Sent(p, j)' => JobMsg(j, TRUE) \in Range(queue'[p])
      BY <1>5 DEF WatchInv, Synced
    <3>1. j \in Jobs /\ ~lost[p] /\ m \in Range(queue'[p])
      BY <1>3, <1>7
    <3>2. IF j \in page[p].reported
          THEN /\ Sent(p, j) /\ j \notin page[p].spinners
               /\ \A d \in BOOLEAN : JobMsg(j, d) \notin Range(queue[p])
          ELSE Sent(p, j) => JobMsg(j, TRUE) \in Range(queue[p])
      BY <1>1, <3>1 DEF PageInv, WatchInv
    <3>3. CASE \E d \in BOOLEAN : m = JobMsg(j, d)
      <4>1. j = b /\ ~Sent(p, j) /\ j \notin page[p].reported
        BY <1>6, <3>1, <3>2, <3>3
      <4>2. CASE m = JobMsg(j, TRUE)
        BY <3>1, <4>1, <4>2
      <4>3. CASE m # JobMsg(j, TRUE)
        BY <1>13, <3>1, <4>1, <4>3
      <4> QED
        BY <4>2, <4>3
    <3>4. CASE \A d \in BOOLEAN : m # JobMsg(j, d)
      <4>1. \A d \in BOOLEAN : JobMsg(j, d) \in Range(queue'[p]) <=> JobMsg(j, d) \in Range(queue[p])
        BY <1>7, <3>4
      <4>2. Sent(p, j) <=> Sent(p, j)'
        BY <1>13, <3>1, <3>4
      <4> QED
        BY <3>2, <4>1, <4>2
    <3> QED
      BY <3>3, <3>4
  <2> QED
    BY <2>1, <2>2, <2>3, <2>4 DEF PageInv
<1> QED
  BY <1>9, <1>10, <1>12, <1>15 DEF HubInv

-----------------------------------------------------------------------------
(* The page.                                                               *)

LEMMA MessageCases ==
    ASSUME NEW m \in Messages
    PROVE  \/ m.type = "stacks" /\ m.list \in Lists
           \/ \E j \in Jobs : m = JobMsg(j, TRUE)
           \/ \E j \in Jobs : m = JobMsg(j, FALSE)
           \/ m.type = "jobs" /\ m.on \in SUBSET Jobs /\ m.off \in SUBSET Jobs
<1>1. CASE m \in [type : {"stacks"}, list : Lists]
  BY <1>1
<1>2. CASE m \in [type : {"job"}, job : Jobs, done : BOOLEAN]
  <2>1. m = [type |-> "job", job |-> m.job, done |-> m.done] /\ m.job \in Jobs /\ m.done \in BOOLEAN
    BY <1>2
  <2>2. m = JobMsg(m.job, m.done)
    BY <2>1 DEF JobMsg
  <2>3. m.done = TRUE \/ m.done = FALSE
    BY <2>1
  <2> QED
    BY <2>1, <2>2, <2>3, Zenon
<1>3. CASE m \in [type : {"jobs"}, on : SUBSET Jobs, off : SUBSET Jobs]
  BY <1>3
<1> QED
  BY <1>1, <1>2, <1>3 DEF Messages

\* What a page makes of a message of each kind.
LEMMA OnStacks ==
    ASSUME NEW pg \in Page, NEW m, m.type = "stacks", m.list \in Lists
    PROVE  /\ OnMessage(pg, m) \in Page
           /\ OnMessage(pg, m).spinners = pg.spinners /\ OnMessage(pg, m).reported = pg.reported
           /\ OnMessage(pg, m).synced = pg.synced
<1>1. OnMessage(pg, m) = [pg EXCEPT !.stacks = m.list]
  BY DEF OnMessage
<1> QED
  BY <1>1 DEF Page, Opt

LEMMA OnFinal ==
    ASSUME NEW pg \in Page, NEW j \in Jobs
    PROVE  /\ OnMessage(pg, JobMsg(j, TRUE)) \in Page
           /\ OnMessage(pg, JobMsg(j, TRUE)).spinners = pg.spinners \ ({j} \ pg.reported)
           /\ OnMessage(pg, JobMsg(j, TRUE)).reported = pg.reported \cup {j}
           /\ OnMessage(pg, JobMsg(j, TRUE)).synced = pg.synced
<1>1. OnMessage(pg, JobMsg(j, TRUE)) = HandleJobs(pg, {}, {j})
  BY DEF OnMessage, JobMsg
<1> QED
  BY <1>1 DEF HandleJobs, Page

LEMMA OnProgress ==
    ASSUME NEW pg \in Page, NEW j \in Jobs
    PROVE  /\ OnMessage(pg, JobMsg(j, FALSE)) \in Page
           /\ OnMessage(pg, JobMsg(j, FALSE)).spinners = pg.spinners \cup {j}
           /\ OnMessage(pg, JobMsg(j, FALSE)).reported = pg.reported
           /\ OnMessage(pg, JobMsg(j, FALSE)).synced = pg.synced
<1>1. OnMessage(pg, JobMsg(j, FALSE)) = HandleJobs(pg, {j}, {})
  BY DEF OnMessage, JobMsg
<1> QED
  BY <1>1 DEF HandleJobs, Page

LEMMA OnReplay ==
    ASSUME NEW pg \in Page, NEW m, m.type = "jobs", m.on \in SUBSET Jobs, m.off \in SUBSET Jobs
    PROVE  /\ OnMessage(pg, m) \in Page
           /\ OnMessage(pg, m).spinners \subseteq (m.on \cup m.off) \ (m.off \ pg.reported)
           /\ OnMessage(pg, m).reported = pg.reported \cup m.off
           /\ OnMessage(pg, m).synced = TRUE
<1>1. OnMessage(pg, m) = OnJobs(pg, m.on, m.off)
  BY DEF OnMessage
<1> DEFINE h == HandleJobs(pg, m.on, m.off)
<1>2. /\ h \in Page /\ h.spinners = (pg.spinners \cup m.on) \ (m.off \ pg.reported)
      /\ h.reported = pg.reported \cup m.off
  BY DEF HandleJobs, Page
<1>3. OnMessage(pg, m) = [h EXCEPT !.spinners = h.spinners \cap (m.on \cup m.off), !.synced = TRUE]
  BY <1>1 DEF OnJobs
<1> HIDE DEF h
<1>4. /\ OnMessage(pg, m) \in Page /\ OnMessage(pg, m).reported = h.reported
      /\ OnMessage(pg, m).spinners = h.spinners \cap (m.on \cup m.off)
  BY <1>2, <1>3 DEF Page
<1>5. OnMessage(pg, m).synced = TRUE
  BY <1>2, <1>3 DEF Page
<1> QED
  BY <1>2, <1>4, <1>5

LEMMA DeliverStep ==
    ASSUME HubInv, NEW p \in Pages, Deliver(p)
    PROVE  HubInv'
<1> DEFINE q == queue[p]
           m == Head(queue[p])
           pg == page'[p]
<1>1. TypeOK /\ PageInv(p) /\ conn[p] = "open" /\ q # <<>> /\ q \in Seq(Messages)
  BY DEF HubInv, TypeOK, Deliver
<1>2. /\ queue \in [Pages -> Seq(Messages)] /\ page \in [Pages -> Page] /\ watch \in [Pages -> SUBSET Jobs]
      /\ page[p] \in Page /\ quiet[p] \subseteq Jobs
  BY <1>1 DEF TypeOK
<1>3. /\ m \in Messages /\ m \in Range(q) /\ Tail(q) \in Seq(Messages) /\ Len(Tail(q)) = Len(q) - 1
      /\ Range(q) \subseteq Range(Tail(q)) \cup {m} /\ Range(Tail(q)) \subseteq Range(q)
  BY <1>1, HeadTail, TailRange
<1>4. /\ InOrder(Tail(q), quiet[p])
      /\ m.type = "jobs" => \A n \in Range(Tail(q)) :
             n.type # "jobs" /\ \A j \in quiet[p] : n # JobMsg(j, FALSE)
      /\ \A j \in Jobs : m = JobMsg(j, TRUE) =>
             \A d \in BOOLEAN : JobMsg(j, d) \notin Range(Tail(q))
  <2>1. InOrder(q, quiet[p])
    BY <1>1 DEF PageInv, QueueInv
  <2> QED
    BY <1>1, <2>1, TailOrder
<1>5. /\ UNCHANGED <<host, pc, seen, cast, active, recent, last, conn, snap, lost, budget, quiet>>
      /\ queue'[p] = Tail(q) /\ pg = OnMessage(page[p], m)
      /\ \A r \in Pages : r # p => queue'[r] = queue[r] /\ page'[r] = page[r] /\ watch'[r] = watch[r]
  BY <1>2 DEF Deliver, server
<1>6. /\ m.type # "jobs" => watch'[p] = watch[p]
      /\ m.type = "jobs" => watch'[p] = {j \in Jobs : pc[j] = "idle"}
  BY <1>2 DEF Deliver
<1>7. \A r \in Pages, j \in Jobs : Sent(r, j) <=> Sent(r, j)'
  BY <1>5 DEF Sent
<1>8. \/ m.type = "stacks" /\ m.list \in Lists
      \/ \E j \in Jobs : m = JobMsg(j, TRUE)
      \/ \E j \in Jobs : m = JobMsg(j, FALSE)
      \/ m.type = "jobs" /\ m.on \in SUBSET Jobs /\ m.off \in SUBSET Jobs
  BY <1>3, MessageCases
<1> HIDE DEF m, q, pg
<1>stacks. ASSUME m.type = "stacks", m.list \in Lists
       PROVE  /\ pg \in Page /\ pg.synced = page[p].synced
              /\ pg.spinners = page[p].spinners /\ pg.reported = page[p].reported
  BY <1>2, <1>5, <1>stacks, OnStacks
<1>final. ASSUME NEW j \in Jobs, m = JobMsg(j, TRUE)
       PROVE  /\ pg \in Page /\ pg.synced = page[p].synced
              /\ pg.spinners = page[p].spinners \ ({j} \ page[p].reported)
              /\ pg.reported = page[p].reported \cup {j}
  <2>1. pg = OnMessage(page[p], JobMsg(j, TRUE))
    BY <1>5, <1>final
  <2> QED
    BY <1>2, <2>1, OnFinal
<1>progress. ASSUME NEW j \in Jobs, m = JobMsg(j, FALSE)
       PROVE  /\ pg \in Page /\ pg.synced = page[p].synced
              /\ pg.spinners = page[p].spinners \cup {j} /\ pg.reported = page[p].reported
  <2>1. pg = OnMessage(page[p], JobMsg(j, FALSE))
    BY <1>5, <1>progress
  <2> QED
    BY <1>2, <2>1, OnProgress
<1>replay. ASSUME m.type = "jobs", m.on \in SUBSET Jobs, m.off \in SUBSET Jobs
       PROVE  /\ pg \in Page /\ pg.synced = TRUE
              /\ pg.spinners \subseteq (m.on \cup m.off) \ (m.off \ page[p].reported)
              /\ pg.reported = page[p].reported \cup m.off
  BY <1>2, <1>5, <1>replay, OnReplay
<1>9. pg \in Page
  BY <1>8, <1>stacks, <1>final, <1>progress, <1>replay
<1>10. TypeOK'
  <2>1. queue' \in [Pages -> Seq(Messages)] /\ \A r \in Pages : Len(queue'[r]) <= Cap
    <3>1. queue' \in [Pages -> Seq(Messages)]
      BY <1>2, <1>3 DEF Deliver
    <3>2. Len(Tail(q)) <= Cap
      BY <1>1, <1>3, HubAssumption DEF TypeOK, q
    <3> QED
      BY <1>1, <1>5, <3>1, <3>2 DEF TypeOK
  <2>2. page' \in [Pages -> Page]
    <3>1. page' = [page EXCEPT ![p] = pg]
      BY <1>2, <1>5 DEF Deliver, m
    <3> QED
      BY <1>2, <1>9, <3>1
  <2>3. watch' \in [Pages -> SUBSET Jobs]
    BY <1>2 DEF Deliver
  <2> QED
    BY <1>1, <1>5, <2>1, <2>2, <2>3 DEF TypeOK
<1>11. ServerInv'
  BY <1>5 DEF HubInv, ServerInv, Registered
<1>12. ASSUME NEW r \in Pages, r # p PROVE PageInv(r)'
  BY <1>5, <1>7, <1>12, OtherPage
<1>13. ASSUME m.type = "jobs" PROVE PageInv(p)'
  <2>1. /\ m = JobsMsg(snap[p].on, snap[p].off) /\ m.on = snap[p].on /\ m.off = snap[p].off
        /\ ~page[p].synced
    BY <1>1, <1>3, <1>13, Msgs DEF PageInv, QueueInv, q
  <2>2. m.on \in SUBSET Jobs /\ m.off \in SUBSET Jobs
    BY <1>1, <2>1 DEF TypeOK, Snap
  <2>3. /\ pg.spinners \subseteq (m.on \cup m.off) \ (m.off \ page[p].reported)
        /\ pg.reported = page[p].reported \cup m.off /\ pg.synced = TRUE
    BY <1>13, <1>replay, <2>2
  <2> HIDE DEF m, q, pg
  <2>4. ReplayInv(p)'
    BY <1>1, <1>5, <2>1, <2>3 DEF PageInv, ReplayInv, pg
  <2>5. QueueInv(p)'
    BY <1>1, <1>3, <1>4, <1>5, <1>7, <1>13 DEF PageInv, QueueInv, q
  <2>6. Cleared(p)'
    BY <1>1, <1>5, <2>1, <2>3 DEF PageInv, ReplayInv, Cleared, pg
  <2>7. WatchInv(p)'
    <3>1. \A j \in Jobs : pc[j] = "idle" => j \notin page'[p].reported /\ ~Sent(p, j)'
      BY <1>1, <1>5, <2>1, <2>3 DEF PageInv, ReplayInv, Sent, pg
    <3> QED
      BY <1>6, <1>13, <3>1 DEF WatchInv
  <2> QED
    BY <2>4, <2>5, <2>6, <2>7 DEF PageInv
<1>14. ASSUME m.type # "jobs" PROVE PageInv(p)'
  <2>1. pg.synced = page[p].synced
    BY <1>8, <1>14, <1>stacks, <1>final, <1>progress
  <2>2. \/ pg.spinners = page[p].spinners /\ pg.reported = page[p].reported /\ m.type = "stacks"
        \/ \E j \in Jobs : /\ m = JobMsg(j, TRUE) /\ pg.reported = page[p].reported \cup {j}
                           /\ pg.spinners = page[p].spinners \ ({j} \ page[p].reported)
        \/ \E j \in Jobs : /\ m = JobMsg(j, FALSE) /\ pg.reported = page[p].reported
                           /\ pg.spinners = page[p].spinners \cup {j}
    BY <1>8, <1>14, <1>stacks, <1>final, <1>progress
  <2> HIDE DEF m, q, pg
  <2>3. ReplayInv(p)'
    <3>1. \A j \in pg.reported : pc[j] # "idle"
      <4>1. \A j \in page[p].reported : pc[j] # "idle"
        BY <1>1 DEF PageInv, ReplayInv
      <4>2. \A j \in Jobs : m = JobMsg(j, TRUE) => pc[j] # "idle"
        BY <1>1, <1>3 DEF PageInv, QueueInv, Sent, q
      <4> QED
        BY <2>2, <4>1, <4>2
    <3> QED
      BY <1>1, <1>5, <3>1 DEF PageInv, ReplayInv, pg
  <2>4. QueueInv(p)'
    BY <1>1, <1>3, <1>4, <1>5, <1>7, <2>1 DEF PageInv, QueueInv, q, pg
  <2>5. Synced(p)' => Cleared(p)'
    <3>1. \A j \in Jobs : m = JobMsg(j, FALSE) /\ page[p].synced => j \notin quiet[p]
      BY <1>1, <1>3 DEF PageInv, QueueInv, q
    <3> QED
      BY <1>1, <1>5, <2>1, <2>2, <3>1 DEF PageInv, Synced, Cleared, pg
  <2>6. WatchInv(p)'
    <3> SUFFICES ASSUME Synced(p), ~lost[p], NEW j \in watch[p]
                 PROVE  IF j \in pg.reported
                        THEN /\ Sent(p, j) /\ j \notin pg.spinners
                             /\ \A d \in BOOLEAN : JobMsg(j, d) \notin Range(Tail(q))
                        ELSE Sent(p, j) => JobMsg(j, TRUE) \in Range(Tail(q))
      <4>1. watch[p] \subseteq Jobs
        BY <1>2
      <4> QED
        BY <1>5, <1>6, <1>7, <1>14, <2>1, <4>1 DEF WatchInv, Synced, pg
    <3>1. j \in Jobs
      BY <1>2
    <3>2. IF j \in page[p].reported
          THEN /\ Sent(p, j) /\ j \notin page[p].spinners
               /\ \A d \in BOOLEAN : JobMsg(j, d) \notin Range(q)
          ELSE Sent(p, j) => JobMsg(j, TRUE) \in Range(q)
      BY <1>1 DEF PageInv, WatchInv, q
    <3>3. CASE m = JobMsg(j, TRUE)
      <4>1. j \notin page[p].reported /\ Sent(p, j)
        BY <1>1, <1>3, <3>1, <3>2, <3>3 DEF PageInv, QueueInv, q
      <4>2. /\ pg.reported = page[p].reported \cup {j}
            /\ pg.spinners = page[p].spinners \ ({j} \ page[p].reported)
        BY <2>2, <3>1, <3>3, SameJob, Msgs
      <4> QED
        BY <1>4, <3>1, <3>3, <4>1, <4>2
    <3>4. CASE m = JobMsg(j, FALSE)
      <4>1. j \notin page[p].reported
        BY <1>3, <3>2, <3>4
      <4>2. pg.reported = page[p].reported
        BY <2>2, <3>1, <3>4, SameJob, Msgs
      <4>3. JobMsg(j, TRUE) # m
        BY <3>1, <3>4, SameJob
      <4> QED
        BY <1>3, <3>2, <4>1, <4>2, <4>3
    <3>5. CASE m # JobMsg(j, TRUE) /\ m # JobMsg(j, FALSE)
      <4>1. /\ j \in pg.reported <=> j \in page[p].reported
            /\ j \in pg.spinners <=> j \in page[p].spinners
        BY <2>2, <3>5
      <4> QED
        BY <1>3, <3>2, <3>5, <4>1
    <3> QED
      BY <3>3, <3>4, <3>5
  <2> QED
    BY <2>3, <2>4, <2>5, <2>6 DEF PageInv
<1> QED
  BY <1>10, <1>11, <1>12, <1>13, <1>14 DEF HubInv

-----------------------------------------------------------------------------
(* Lost connections and crashes.                                           *)

\* A page whose connection has ended, whatever became of the jobs meanwhile.
LEMMA OffPage ==
    ASSUME HubInv, NEW p \in Pages, conn'[p] = "off", queue'[p] = <<>>,
           UNCHANGED <<snap, page, hist>>,
           \A j \in Jobs : /\ pc[j] # "idle" => pc'[j] # "idle"
                           /\ pc[j] \in Ended => pc'[j] \in Ended
    PROVE  PageInv(p)'
<1>1. /\ PageInv(p) /\ quiet[p] \subseteq Jobs
      /\ snap[p].off \subseteq Jobs /\ page[p].reported \subseteq Jobs
  BY DEF HubInv, TypeOK, Snap, Page
<1>2. ReplayInv(p)'
  BY <1>1 DEF PageInv, ReplayInv, hist
<1>3. QueueInv(p)'
  BY EmptyQueue DEF QueueInv
<1>4. ~Synced(p)'
  BY DEF Synced
<1> QED
  BY <1>2, <1>3, <1>4 DEF PageInv, WatchInv

LEMMA DropType ==
    ASSUME TypeOK, NEW ps \in SUBSET Pages, Drop(ps)
    PROVE  /\ conn' \in [Pages -> ConnStates] /\ lost' \in [Pages -> BOOLEAN]
           /\ queue' \in [Pages -> Seq(Messages)] /\ \A p \in Pages : Len(queue'[p]) <= Cap
           /\ snap' \in [Pages -> Snap]
           /\ quiet' \in [Pages -> SUBSET Jobs] /\ watch' \in [Pages -> SUBSET Jobs]
<1>1. queue' \in [Pages -> Seq(Messages)]
  BY EmptyQueue DEF TypeOK, Drop
<1>2. \A p \in Pages : Len(queue'[p]) <= Cap
  BY EmptyQueue, HubAssumption DEF TypeOK, Drop
<1>3. lost' \in [Pages -> BOOLEAN]
  BY DEF TypeOK, Drop
<1> QED
  BY <1>1, <1>2, <1>3 DEF TypeOK, Drop, ConnStates, hist

LEMMA DisconnectStep ==
    ASSUME HubInv, NEW p \in Pages, Disconnect(p)
    PROVE  HubInv'
<1>1. TypeOK /\ Drop({p}) /\ cast \in [Casters -> Cast]
  BY DEF HubInv, Disconnect, TypeOK
<1>2. /\ cast' \in [Casters -> Cast]
      /\ \A b \in Casters : cast'[b].left = cast[b].left \ {p} /\ cast'[b].msg = cast[b].msg
  BY <1>1 DEF Disconnect, Cast
<1>3. UNCHANGED <<host, pc, seen, active, recent, last, page, snap, quiet, watch>>
  BY <1>1 DEF Disconnect, Drop, hist
<1>4. TypeOK'
  <2>1. budget' \in Budget
    <3>1. budget \in Budget /\ budget.faults > 0 /\ budget' = [budget EXCEPT !.faults = @ - 1]
      BY <1>1 DEF Disconnect, TypeOK
    <3> QED
      BY <3>1 DEF Budget
  <2> QED
    BY <1>1, <1>2, <1>3, <2>1, DropType DEF TypeOK
<1>5. \A q \in Pages : IF q = p THEN conn'[q] = "off" /\ queue'[q] = <<>>
                       ELSE conn'[q] = conn[q] /\ queue'[q] = queue[q] /\ (lost'[q] <=> lost[q])
  BY <1>1 DEF Drop
<1>6. ServerInv'
  <2>1. Registered' = Registered \ {p}
    BY <1>5 DEF Registered
  <2> QED
    BY <1>2, <1>3, <2>1 DEF HubInv, ServerInv
<1>7. PageInv(p)'
  BY <1>3, <1>5, OffPage DEF hist
<1>8. ASSUME NEW q \in Pages, q # p PROVE PageInv(q)'
  <2>1. \A j \in Jobs : Sent(q, j) <=> Sent(q, j)'
    BY <1>2, <1>3, <1>8 DEF Sent, Casters
  <2>2. lost'[q] = lost[q]
    BY <1>1, <1>4, <1>5, <1>8 DEF TypeOK
  <2> QED
    BY <1>3, <1>5, <1>8, <2>1, <2>2, OtherPage
<1> QED
  BY <1>4, <1>6, <1>7, <1>8 DEF HubInv

LEMMA CrashStep ==
    ASSUME HubInv, Crash
    PROVE  HubInv'
<1>1. TypeOK /\ ServerInv /\ Drop(Pages) /\ cast \in [Casters -> Cast] /\ pc \in [Casters -> JobStates \cup {"wait"}]
  BY DEF HubInv, Crash, TypeOK
<1>2. /\ cast' \in [Casters -> Cast] /\ \A b \in Casters : cast'[b].left = {}
  BY <1>1 DEF Crash, Cast
<1>3. Jobs \subseteq Casters
  BY DEF Casters
<1>4. /\ \A j \in Jobs : pc'[j] = IF pc[j] = "idle" THEN "idle" ELSE "over"
      /\ \A b \in Casters : b \notin Jobs => pc'[b] = "wait"
      /\ pc' \in [Casters -> JobStates \cup {"wait"}]
  <2>1. ASSUME NEW b \in Casters
        PROVE  pc'[b] = IF b \notin Jobs THEN "wait" ELSE IF pc[b] = "idle" THEN "idle" ELSE "over"
    <3>1. pc'[b] = CASE b \notin Jobs -> "wait" [] pc[b] = "idle" -> "idle" [] OTHER -> "over"
      BY DEF Crash
    <3>2. b \notin Jobs => pc[b] # "idle"
      BY <1>1 DEF TypeOK
    <3> QED
      BY <3>1, <3>2
  <2>2. DOMAIN pc' = Casters /\ pc' = [b \in Casters |-> pc'[b]]
    BY DEF Crash
  <2> QED
    BY <1>3, <2>1, <2>2 DEF JobStates
<1>5. TypeOK'
  <2>1. budget' \in Budget
    <3>1. budget \in Budget /\ budget.faults > 0 /\ budget' = [budget EXCEPT !.faults = @ - 1]
      BY <1>1 DEF Crash, TypeOK
    <3> QED
      BY <3>1 DEF Budget
  <2>2. \A b \in Casters : /\ pc'[b] \in IF b \in Jobs THEN JobStates ELSE {"wait", "listed"}
                           /\ pc'[b] # "listed"
    BY <1>4 DEF JobStates
  <2>3. seen' \in [Casters -> Opt(Lists)] /\ last' \in Opt(Lists)
    BY DEF Crash, Opt
  <2>4. recent' \in SUBSET UpdateJobs /\ active' \in SUBSET Jobs
    BY <1>1 DEF Crash, TypeOK
  <2>5. host' \in Lists /\ page' \in [Pages -> Page]
    BY <1>1 DEF Crash, TypeOK
  <2> QED
    BY <1>1, <1>2, <1>4, <2>1, <2>2, <2>3, <2>4, <2>5, DropType DEF TypeOK
<1>6. ServerInv'
  <2>1. active' = {j \in Jobs : pc'[j] \in {"tracked", "running", "finished"}}
    BY <1>4 DEF Crash
  <2>2. \A j \in recent' : j \in Jobs /\ pc[j] # "idle"
    BY <1>1 DEF Crash, ServerInv, TypeOK, Jobs, Ended
  <2>3. \A j \in recent' : pc'[j] \in {"finished"} \cup Ended
    BY <1>4, <2>2 DEF Ended
  <2> QED
    BY <1>2, <2>1, <2>3 DEF ServerInv
<1>7. ASSUME NEW p \in Pages PROVE PageInv(p)'
  <2>1. conn'[p] = "off" /\ queue'[p] = <<>> /\ UNCHANGED <<snap, page, hist>>
    BY <1>1 DEF Drop, Crash
  <2>2. \A j \in Jobs : /\ pc[j] # "idle" => pc'[j] # "idle"
                        /\ pc[j] \in Ended => pc'[j] \in Ended
    BY <1>4 DEF Ended
  <2> QED
    BY <2>1, <2>2, OffPage
<1> QED
  BY <1>5, <1>6, <1>7 DEF HubInv

-----------------------------------------------------------------------------
(* The theorems.                                                           *)

LEMMA NextStep == HubInv /\ [Next]_vars => HubInv'
<1> SUFFICES ASSUME HubInv, [Next]_vars PROVE HubInv'
  OBVIOUS
<1>1. Jobs \subseteq Casters /\ Poller \in Casters
  BY DEF Casters
<1>2. ASSUME NEW j \in Jobs, JobStep(j) \/ Age(j) PROVE HubInv'
  BY <1>1, <1>2, TrackStep, PublishProgressStep, FnReturnsStep, ForgetStep, PublishDoneStep,
     JobFailedStep, ListStep, BroadcastStacksStep, AgeStep DEF JobStep
<1>3. CASE List(Poller) \/ BroadcastStacks(Poller)
  BY <1>1, <1>3, ListStep, BroadcastStacksStep
<1>4. ASSUME NEW b \in Casters, NEW p \in Pages, Send(b, p) PROVE HubInv'
  BY <1>4, SendStep
<1>5. ASSUME NEW p \in Pages, PageStep(p) \/ Disconnect(p) PROVE HubInv'
  BY <1>5, ConnectStep, ReplayLastStep, ReadActiveStep, ReadRecentStep, ReplayJobsStep,
     DeliverStep, DisconnectStep DEF PageStep, Handler
<1>6. CASE HostChanges \/ UNCHANGED vars
  BY <1>6, HostStep
<1>7. CASE Crash
  BY <1>7, CrashStep
<1> QED
  BY <1>2, <1>3, <1>4, <1>5, <1>6, <1>7 DEF Next

\* The order of the messages in every queue, and what it means for the pages, hold
\* in every reachable state (Hub.Broadcast, handleWS, LiveData.tsx).
THEOREM Invariance == Spec => []HubInv
BY InitInv, NextStep, PTL DEF Spec

\* No queue grows past its capacity, and every variable stays in its set.
THEOREM TypeCorrect == Spec => []TypeOK
<1>1. HubInv => TypeOK
  BY DEF HubInv
<1> QED
  BY <1>1, Invariance, PTL

\* A page that has handled its replay keeps no spinner of a job that had ended when
\* the replay was read, and has reported its outcome (replayJobs, onJobs).
THEOREM ReplayMakesUp == Spec => []ReplayClears
<1>1. HubInv => ReplayClears
  BY DEF HubInv, PageInv, ReplayClears
<1> QED
  BY <1>1, Invariance, PTL

\* A page that saw a job begin and lost no message ends up with its outcome and
\* without its spinner (docker/jobs.go, Hub.Broadcast, handleJob).
THEOREM OutcomeSeen == Spec => []FinalSeen
<1>1. HubInv => FinalSeen
  <2> SUFFICES ASSUME HubInv, NEW p \in Pages, NEW j \in Jobs, Synced(p), j \in watch[p],
                      ~lost[p], pc[j] = "over", queue[p] = <<>>
               PROVE  j \in page[p].reported /\ j \notin page[p].spinners
    BY DEF FinalSeen
  <2>1. WatchInv(p) /\ Sent(p, j)
    BY DEF HubInv, PageInv, Sent
  <2>2. JobMsg(j, TRUE) \notin Range(queue[p])
    BY EmptyQueue
  <2> QED
    BY <2>1, <2>2 DEF WatchInv
<1> QED
  BY <1>1, Invariance, PTL
=============================================================================

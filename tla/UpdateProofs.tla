---------------------------- MODULE UpdateProofs ----------------------------
(***************************************************************************)
(* Proofs about Update.tla, about Lifecycle.tla, which composes it with the*)
(* other actions on containers, and that both implement Swap.tla: for every*)
(* set of jobs, actors, containers, images and specs and every number of   *)
(* crashes and recreations.                                                *)
(*                                                                         *)
(* TypeCorrect and LifeTypeCorrect need no assumption on the daemon.  The  *)
(* safety theorems assume Reliable: removing containers does not fail.     *)
(* Their inductive invariant, IndInv, says which containers may hold the   *)
(* two names at every step of a job and of Recover, and that only a swap   *)
(* Recover has not dealt with leaves an unproved one there (Unsettled);    *)
(* LifeInv adds who holds which lock, and what an actor is about to record.*)
(* That nothing is left parked assumes Undisturbed (no call fails, the user*)
(* keeps out) and rests on PlacesInv.                                      *)
(***************************************************************************)
EXTENDS Lifecycle, UpdateSwap, TLAPS

-----------------------------------------------------------------------------
(* What the daemon's operations do to the table, and to who holds a name.  *)

\* A table stays well-formed when a container changes its state,
LEMMA TableSet ==
    ASSUME NEW t \in Table, NEW c, NEW st \in States
    PROVE  SetState(t, c, st) \in Table
  BY DEF Table, Container, SetState

\* or starts,
LEMMA TableStart == ASSUME NEW t \in Table, NEW c PROVE StartC(t, c) \in Table
  BY TableSet DEF StartC, States, Up

\* or takes another name,
LEMMA TableRename ==
    ASSUME NEW t \in Table, NEW c, NEW n \in Names
    PROVE  RenameC(t, c, n) \in Table
  BY DEF Table, Container, RenameC

\* or is removed.
LEMMA TableRemove == ASSUME NEW t \in Table, NEW C PROVE RemoveC(t, C) \in Table
  BY DEF Table, Container, RemoveC, States

\* The container a create call adds is well-formed.
LEMMA TableCreate ==
    ASSUME NEW t \in Table, NEW c \in CID, NEW i \in Images, NEW s \in Specs
    PROVE  CreateC(t, c, "svc", i, s) \in Table
  BY DEF Table, Container, CreateC, States, Names

\* A container exists when it holds one of the two names, and never both.
LEMMA ExistsH ==
    ASSUME NEW t \in Table, NEW c \in CID
    PROVE  /\ Exists(t, c) <=> (c \in Holder(t, "svc") \/ c \in Holder(t, "old"))
           /\ ~(c \in Holder(t, "svc") /\ c \in Holder(t, "old"))
           /\ Exists(t, c) => t[c].state # "unused"
  BY DEF Holder, Exists, Table, Container, Names

\* A rename moves one container from whatever name it had to the new one.
LEMMA RenameH ==
    ASSUME NEW t \in Table, NEW c \in CID, Exists(t, c), NEW n \in Names
    PROVE  \A m \in Names : Holder(RenameC(t, c, n), m) =
                IF m = n THEN Holder(t, m) \cup {c} ELSE Holder(t, m) \ {c}
  BY DEF Holder, Exists, RenameC, Table, Container, Names

\* Removing takes exactly the removed containers away from both names.
LEMMA RemoveH ==
    ASSUME NEW t \in Table, NEW C, NEW n
    PROVE  Holder(RemoveC(t, C), n) = Holder(t, n) \ C
  BY DEF Holder, Exists, RemoveC, Table, Container

\* A container that changes its run state keeps its name.
LEMMA SetStateH ==
    ASSUME NEW t \in Table, NEW c \in CID, Exists(t, c),
           NEW s \in States \ {"unused", "removed"}, NEW n
    PROVE  Holder(SetState(t, c, s), n) = Holder(t, n)
  BY DEF Holder, Exists, SetState, Table, Container

\* Starting a container changes nobody's name.
LEMMA StartH ==
    ASSUME NEW t \in Table, NEW c \in CID, Exists(t, c), NEW n
    PROVE  Holder(StartC(t, c), n) = Holder(t, n)
  BY SetStateH DEF StartC, States, Up

\* Creating a container under the service's name adds it, and it alone, to
\* the name's holders.
LEMMA CreateH ==
    ASSUME NEW t \in Table, NEW c \in CID, t[c].state = "unused", NEW i \in Images, NEW s \in Specs
    PROVE  /\ Holder(CreateC(t, c, "svc", i, s), "svc") = Holder(t, "svc") \cup {c}
           /\ Holder(CreateC(t, c, "svc", i, s), "old") = Holder(t, "old")
           /\ CreateC(t, c, "svc", i, s)[c].spec = s
           /\ CreateC(t, c, "svc", i, s)[c].state = "created"
  BY DEF Holder, Exists, CreateC, Table, Container

\* The daemon never hands an id out twice: an id in use keeps its spec.
KeepsId(t, u) ==
    \A c \in CID : t[c].state # "unused" => u[c].state # "unused" /\ u[c].spec = t[c].spec

\* No operation changes a container's spec, or makes a used id unused again.
LEMMA KeepsOps ==
    ASSUME NEW t \in Table, NEW c, NEW n, NEW C
    PROVE  /\ KeepsId(t, t)
           /\ KeepsId(t, RenameC(t, c, n))
           /\ KeepsId(t, RemoveC(t, C))
           /\ KeepsId(t, StartC(t, c))
           /\ \A s \in States \ {"unused"} : KeepsId(t, SetState(t, c, s))
           /\ \A i, s : t[c].state = "unused" => KeepsId(t, CreateC(t, c, "svc", i, s))
  BY DEF KeepsId, RenameC, SetState, StartC, RemoveC, CreateC, Table, Container

-----------------------------------------------------------------------------
(* What a step of a job does to its locals.                                *)

\* The labels, listed one by one.
LEMMA LabelFacts ==
    {"idle", "lock", "inspect", "pull", "clear", "park", "stop", "create", "start",
     "verify", "drop", "record", "rbremove", "rbrename", "rbstart", "unlock",
     "finish", "forget", "done", "dead"} = Labels
  BY DEF Labels, Body

\* The labels that actions which set more than the label lead to.
LEMMA LabelIn == "lock" \in Labels /\ "pull" \in Labels /\ "start" \in Labels /\ "unlock" \in Labels
  BY DEF Labels, Body

\* What a job's locals are made of.
LEMMA LocalsFacts ==
    ASSUME job \in [Jobs -> Locals], NEW j \in Jobs
    PROVE  /\ job[j].pc \in Labels /\ job[j].mc \in Record
           /\ job[j].old \in Opt(CID) /\ job[j].new \in Opt(CID)
           /\ job[j].verdict \in Verdicts
  BY DEF Locals

\* Job j goes to label l; nothing else changes that the invariant looks at.
Moves(j, l) ==
    /\ job' \in [Jobs -> Locals]
    /\ \A k \in Jobs : k # j => job'[k] = job[k]
    /\ job'[j].pc = l
    /\ job'[j].mc = job[j].mc
    /\ job'[j].old = job[j].old
    /\ job'[j].new = job[j].new

\* Goto changes the program counter of one job and nothing else.
LEMMA GotoMoves ==
    ASSUME job \in [Jobs -> Locals], NEW j \in Jobs, NEW l \in Labels, Goto(j, l)
    PROVE  Moves(j, l)
  BY DEF Goto, Locals, Moves

\* Return sends one job to the deferred Unlock with its verdict.
LEMMA ReturnMoves ==
    ASSUME job \in [Jobs -> Locals], NEW j \in Jobs, NEW v \in Verdicts, Return(j, v)
    PROVE  Moves(j, "unlock")
<1>1. \A k \in Jobs : k # j => job'[k] = job[k]
  BY DEF Return, Locals
<1>2. /\ job'[j].pc = "unlock" /\ job'[j].mc = job[j].mc /\ job'[j].old = job[j].old
      /\ job'[j].new = job[j].new
  BY DEF Return, Locals
<1>3. job'[j] \in Locals
  BY LabelIn DEF Return, Locals
<1>4. job' \in [Jobs -> Locals]
  BY <1>1, <1>3 DEF Return
<1> QED
  BY <1>1, <1>2, <1>4 DEF Moves

\* The three steps that set other locals too.
LEMMA BeginMoves ==
    ASSUME job \in [Jobs -> Locals], NEW j \in Jobs, NEW mc \in Record,
           job' = [job EXCEPT ![j].pc = "lock", ![j].mc = mc]
    PROVE  /\ job' \in [Jobs -> Locals]
           /\ \A k \in Jobs : k # j => job'[k] = job[k]
           /\ job'[j].pc = "lock" /\ job'[j].mc = mc /\ job'[j].new = job[j].new
<1>1. \A k \in Jobs : k # j => job'[k] = job[k]
  BY DEF Locals
<1>2. job'[j].pc = "lock" /\ job'[j].mc = mc /\ job'[j].new = job[j].new
  BY DEF Locals
<1>3. job'[j] \in Locals
  BY LabelIn DEF Locals
<1> QED
  BY <1>1, <1>2, <1>3

\* Inspect sets the record, the container and what was seen of it.
LEMMA InspectMoves ==
    ASSUME job \in [Jobs -> Locals], NEW j \in Jobs, NEW mc \in Record, NEW c \in CID,
           ctr \in Table,
           job' = [job EXCEPT ![j].pc = "pull", ![j].mc = mc, ![j].old = c,
                              ![j].seen = ctr[c].state]
    PROVE  /\ job' \in [Jobs -> Locals]
           /\ \A k \in Jobs : k # j => job'[k] = job[k]
           /\ job'[j].pc = "pull" /\ job'[j].mc = mc /\ job'[j].old = c
           /\ job'[j].new = job[j].new
<1>1. \A k \in Jobs : k # j => job'[k] = job[k]
  BY DEF Locals
<1>2. job'[j].pc = "pull" /\ job'[j].mc = mc /\ job'[j].old = c /\ job'[j].new = job[j].new
  BY DEF Locals
<1>3. job'[j] \in Locals
  <2>1. ctr[c].state \in States
    BY DEF Table, Container
  <2> QED
    BY <2>1, LabelIn DEF Locals, Opt
<1> QED
  BY <1>1, <1>2, <1>3

\* Create stores the replacement's id.
LEMMA CreateMoves ==
    ASSUME job \in [Jobs -> Locals], NEW j \in Jobs, NEW c \in CID,
           job' = [job EXCEPT ![j].pc = "start", ![j].new = c]
    PROVE  /\ job' \in [Jobs -> Locals]
           /\ \A k \in Jobs : k # j => job'[k] = job[k]
           /\ job'[j].pc = "start" /\ job'[j].new = c
           /\ job'[j].mc = job[j].mc /\ job'[j].old = job[j].old
<1>1. \A k \in Jobs : k # j => job'[k] = job[k]
  BY DEF Locals
<1>2. job'[j].pc = "start" /\ job'[j].new = c /\ job'[j].mc = job[j].mc /\ job'[j].old = job[j].old
  BY DEF Locals
<1>3. job'[j] \in Locals
  BY LabelIn DEF Locals, Opt
<1> QED
  BY <1>1, <1>2, <1>3

-----------------------------------------------------------------------------
(* Type correctness.                                                       *)

\* The first state is well-typed.
LEMMA TypeInit == Init => TypeInv
<1> SUFFICES ASSUME Init PROVE TypeInv
  OBVIOUS
<1>1. passed \in BOOLEAN /\ taken \subseteq trusted /\ trusted \subseteq CID
  BY DEF Init
<1> QED
  BY <1>1, ImagesAssumption, InitAssumption
     DEF Init, TypeInv, StateOK, Table, Container, Names, States, Up, Record, Opt,
         Locals, Labels, Body, Verdicts, Failures, Recovering

\* The labels a job's step leads to.
LEMMA JobMoves ==
    ASSUME TypeInv, NEW j \in Jobs
    PROVE  /\ Lock(j) => Moves(j, "inspect")
           /\ Pull(j) => Moves(j, "unlock") \/ Moves(j, "clear")
           /\ ClearParked(j) => Moves(j, "park")
           /\ Park(j) => Moves(j, "stop") \/ Moves(j, "unlock")
           /\ StopOld(j) => Moves(j, "create")
           /\ StartNew(j) => Moves(j, "verify") \/ Moves(j, "rbremove")
           /\ Verify(j) => Moves(j, "drop") \/ Moves(j, "rbremove")
           /\ DropOld(j) => Moves(j, "record")
           /\ RecordNew(j) => Moves(j, "unlock")
           /\ RollbackRemove(j) => Moves(j, "rbrename")
           /\ RollbackRename(j) => Moves(j, "rbstart") \/ Moves(j, "unlock")
           /\ RollbackStart(j) => Moves(j, "unlock")
           /\ Unlock(j) => Moves(j, "finish")
           /\ FinishUpdateJob(j) => Moves(j, "forget")
           /\ Forget(j) => Moves(j, "done")
<1> USE DEF TypeInv, StateOK
<1>1. Lock(j) => Moves(j, "inspect")
  BY GotoMoves, ReturnMoves, LabelFacts DEF Lock, Verdicts, Failures
<1>2. Pull(j) => Moves(j, "unlock") \/ Moves(j, "clear")
  BY GotoMoves, ReturnMoves, LabelFacts DEF Pull, Verdicts, Failures
<1>3. ClearParked(j) => Moves(j, "park")
  BY GotoMoves, ReturnMoves, LabelFacts DEF ClearParked, Verdicts, Failures
<1>4. Park(j) => Moves(j, "stop") \/ Moves(j, "unlock")
  BY GotoMoves, ReturnMoves, LabelFacts DEF Park, Verdicts, Failures
<1>5. StopOld(j) => Moves(j, "create")
  BY GotoMoves, ReturnMoves, LabelFacts DEF StopOld, Verdicts, Failures
<1>6. StartNew(j) => Moves(j, "verify") \/ Moves(j, "rbremove")
  BY GotoMoves, ReturnMoves, LabelFacts DEF StartNew, Verdicts, Failures
<1>7. Verify(j) => Moves(j, "drop") \/ Moves(j, "rbremove")
  BY GotoMoves, ReturnMoves, LabelFacts DEF Verify, Verdicts, Failures
<1>8. DropOld(j) => Moves(j, "record")
  BY GotoMoves, ReturnMoves, LabelFacts DEF DropOld, Verdicts, Failures
<1>9. RecordNew(j) => Moves(j, "unlock")
  BY GotoMoves, ReturnMoves, LabelFacts DEF RecordNew, Verdicts, Failures
<1>10. RollbackRemove(j) => Moves(j, "rbrename")
  BY GotoMoves, ReturnMoves, LabelFacts DEF RollbackRemove, Verdicts, Failures
<1>11. RollbackRename(j) => Moves(j, "rbstart") \/ Moves(j, "unlock")
  BY GotoMoves, ReturnMoves, LabelFacts DEF RollbackRename, Verdicts, Failures
<1>12. RollbackStart(j) => Moves(j, "unlock")
  BY GotoMoves, ReturnMoves, LabelFacts DEF RollbackStart, Verdicts, Failures
<1>13. Unlock(j) => Moves(j, "finish")
  BY GotoMoves, ReturnMoves, LabelFacts DEF Unlock, Verdicts, Failures
<1>14. FinishUpdateJob(j) => Moves(j, "forget")
  BY GotoMoves, ReturnMoves, LabelFacts DEF FinishUpdateJob, Verdicts, Failures
<1>15. Forget(j) => Moves(j, "done")
  BY GotoMoves, ReturnMoves, LabelFacts DEF Forget, Verdicts, Failures
<1> QED
  BY <1>1, <1>2, <1>3, <1>4, <1>5, <1>6, <1>7, <1>8, <1>9, <1>10, <1>11, <1>12, <1>13, <1>14, <1>15

\* Every action keeps the types.
LEMMA TypeJobStep ==
    ASSUME TypeInv, NEW j \in Jobs, Update(j) \/ JobStep(j) PROVE TypeInv'
<1> USE DEF TypeInv, StateOK
<1>1. CASE Update(j)
  <2>1. job' \in [Jobs -> Locals] /\ \A k \in Jobs : k # j => job'[k] = job[k]
    BY <1>1, BeginMoves DEF Update
  <2>2. job'[j].pc = "lock"
    BY <1>1, BeginMoves DEF Update
  <2> QED
    BY <1>1, <2>1, <2>2 DEF Update, dockerVars, procVars, Verdicts
<1>2. CASE Lock(j)
  <2> QED
    BY <1>2, JobMoves DEF Lock, Moves, At, dockerVars, procVars, Opt
<1>3. CASE Inspect(j)
  <2>1. CASE Return(j, "failed") /\ UNCHANGED <<rec, trusted, taken>>
    BY <1>3, <2>1, ReturnMoves DEF Inspect, Moves, dockerVars, procVars, Verdicts, Failures
  <2>2. ASSUME NEW c \in CID, NEW mc \in Record, rec' = rec \/ rec' = mc, Rely(c),
               job' = [job EXCEPT ![j].pc = "pull", ![j].mc = mc, ![j].old = c,
                                  ![j].seen = ctr[c].state]
        PROVE  TypeInv'
    <3>1. job' \in [Jobs -> Locals] /\ \A k \in Jobs : k # j => job'[k] = job[k]
      BY <2>2, InspectMoves
    <3>2. job'[j].pc = "pull"
      BY <2>2, InspectMoves
    <3>3. trusted' \subseteq CID /\ taken' \subseteq trusted'
      BY <2>2 DEF Rely
    <3>4. UNCHANGED <<ctr, localTag, remoteTag, row, active, proc, found, passed, budget>>
      BY <1>3 DEF Inspect, dockerVars, procVars
    <3> QED
      BY <2>2, <3>1, <3>2, <3>3, <3>4
  <2>3. \A c \in CID : Spec_of(c) \in Record
    BY DEF Spec_of, Record, Table, Container
  <2> QED
    BY <1>3, <2>1, <2>2, <2>3, LocalsFacts DEF Inspect, Holder, RefreshIfRecreated
<1>4. CASE Pull(j)
  <2> QED
    BY <1>4, JobMoves DEF Pull, Moves, At, dockerVars, procVars
<1>5. CASE ClearParked(j)
  <2>1. ctr' \in Table
    BY <1>5, TableRemove DEF ClearParked
  <2> QED
    BY <1>5, <2>1, JobMoves DEF ClearParked, Moves, At, dockerVars, procVars
<1>6. CASE Park(j)
  <2>1. ctr' \in Table
    BY <1>6, TableRename DEF Park, Names
  <2> QED
    BY <1>6, <2>1, JobMoves DEF Park, Moves, At, dockerVars, procVars
<1>7. CASE StopOld(j)
  <2>1. ctr' \in Table
    BY <1>7, TableSet DEF StopOld, States
  <2> QED
    BY <1>7, <2>1, JobMoves DEF StopOld, Moves, At, dockerVars, procVars
<1>8. CASE Create(j)
  <2>1. CASE Goto(j, "rbremove") /\ UNCHANGED ctr
    BY <1>8, <2>1, GotoMoves, LabelFacts DEF Create, Moves, procVars
  <2>2. ASSUME NEW c \in CID, ctr' = CreateC(ctr, c, "svc", localTag, job[j].mc.spec),
               job' = [job EXCEPT ![j].pc = "start", ![j].new = c]
        PROVE  TypeInv'
    <3>1. ctr' \in Table
      BY <2>2, TableCreate, LocalsFacts DEF Record
    <3>2. /\ job' \in [Jobs -> Locals]
          /\ \A k \in Jobs : k # j => job'[k] = job[k]
          /\ job'[j].new = c
      BY <2>2, CreateMoves
    <3>3. UNCHANGED <<localTag, remoteTag, rec, lock, row, active, proc, found, passed, budget,
                      trusted, taken>>
      BY <1>8 DEF Create, procVars
    <3> QED
      BY <2>2, <3>1, <3>2, <3>3
  <2> QED
    BY <1>8, <2>1, <2>2 DEF Create, Fresh
<1>9. CASE StartNew(j)
  <2>1. ctr' \in Table
    BY <1>9, TableStart DEF StartNew
  <2> QED
    BY <1>9, <2>1, JobMoves DEF StartNew, Moves, At, dockerVars, procVars
<1>10. CASE Verify(j)
  <2> QED
    BY <1>10, JobMoves DEF Verify, Moves, At, dockerVars, procVars
<1>11. CASE DropOld(j)
  <2>1. ctr' \in Table
    BY <1>11, TableRemove DEF DropOld
  <2> QED
    BY <1>11, <2>1, JobMoves DEF DropOld, Moves, At, dockerVars, procVars
<1>12. CASE RecordNew(j)
  <2> QED
    BY <1>12, JobMoves DEF RecordNew, Moves, At, dockerVars, procVars, Spec_of, Record, Table, Container
<1>13. CASE RollbackRemove(j)
  <2>1. ctr' \in Table
    BY <1>13, TableRemove DEF RollbackRemove
  <2> QED
    BY <1>13, <2>1, JobMoves DEF RollbackRemove, Moves, At, dockerVars, procVars
<1>14. CASE RollbackRename(j)
  <2>1. ctr' \in Table
    BY <1>14, TableRename DEF RollbackRename, Names
  <2> QED
    BY <1>14, <2>1, JobMoves DEF RollbackRename, Moves, At, dockerVars, procVars
<1>15. CASE RollbackStart(j)
  <2>1. ctr' \in Table
    BY <1>15, TableStart DEF RollbackStart
  <2> QED
    BY <1>15, <2>1, JobMoves DEF RollbackStart, Moves, At, dockerVars, procVars
<1>16. CASE Unlock(j)
  <2> QED
    BY <1>16, JobMoves DEF Unlock, Moves, At, dockerVars, procVars, Opt
<1>17. CASE FinishUpdateJob(j)
  <2> QED
    BY <1>17, LocalsFacts, JobMoves DEF FinishUpdateJob, Moves, At, dockerVars, procVars
<1>18. CASE Forget(j)
  <2> QED
    BY <1>18, JobMoves DEF Forget, Moves, At, dockerVars, procVars
<1> QED
  BY <1>1, <1>2, <1>3, <1>4, <1>5, <1>6, <1>7, <1>8, <1>9, <1>10, <1>11, <1>12, <1>13, <1>14, <1>15, <1>16, <1>17, <1>18 DEF JobStep

\* The same for the steps of Recover.
LEMMA TypeRecoverStep ==
    ASSUME TypeInv, Crash \/ Restart \/ RecoverStep PROVE TypeInv'
<1> USE DEF TypeInv, StateOK
<1>1. CASE Crash
  <2>1. \A k \in Jobs : job[k] \in Locals /\ [job[k] EXCEPT !.pc = "dead"] \in Locals
    BY LabelFacts DEF Locals
  <2>2. job' \in [Jobs -> Locals]
    BY <1>1, <2>1 DEF Crash
  <2>3. \A k \in Jobs : job'[k].pc \in {"idle", "done", "dead"}
    BY <1>1, <2>1 DEF Crash, Locals
  <2>4. budget' \in [crashes : 0 .. MaxCrashes, recreates : 0 .. MaxRecreates]
    BY <1>1, InitAssumption DEF Crash
  <2> QED
    BY <1>1, <2>2, <2>3, <2>4 DEF Crash, dockerVars, Opt
<1>2. CASE Restart
  BY <1>2 DEF Restart, recoverFrame, dockerVars, jobVars, Recovering, Holder, Opt
<1>3. CASE RecoverPass \/ RecoverList
  <2>1. passed' \in BOOLEAN
    BY <1>3 DEF RecoverPass, RecoverList
  <2> QED
    BY <1>3, <2>1 DEF RecoverPass, RecoverList, recoverFrame, dockerVars, jobVars, Recovering, Holder, Opt
<1>4. CASE RecoverRename
  <2>1. ctr' \in Table
    BY <1>4, TableRename DEF RecoverRename, Names
  <2> QED
    BY <1>4, <2>1 DEF RecoverRename, recoverFrame, Recovering
<1>5. CASE RecoverStart
  <2>1. ctr' \in Table
    BY <1>5, TableStart DEF RecoverStart
  <2> QED
    BY <1>5, <2>1 DEF RecoverStart, recoverFrame, Recovering
<1>6. CASE RecoverVerify
  BY <1>6 DEF RecoverVerify, recoverFrame, dockerVars, jobVars, Recovering, Holder, Opt
<1>7. CASE RecoverDrop
  <2>1. ctr' \in Table
    BY <1>7, TableRemove DEF RecoverDrop
  <2> QED
    BY <1>7, <2>1 DEF RecoverDrop, recoverFrame, Recovering
<1>8. CASE RecoverRollbackRemove
  <2>1. ctr' \in Table
    BY <1>8, TableRemove DEF RecoverRollbackRemove
  <2> QED
    BY <1>8, <2>1 DEF RecoverRollbackRemove, recoverFrame, Recovering
<1>9. CASE RecoverRollbackRename
  <2>1. ctr' \in Table
    BY <1>9, TableRename DEF RecoverRollbackRename, Names
  <2> QED
    BY <1>9, <2>1 DEF RecoverRollbackRename, recoverFrame, Recovering
<1>10. CASE RecoverRollbackStart
  <2>1. ctr' \in Table
    BY <1>10, TableStart DEF RecoverRollbackStart
  <2> QED
    BY <1>10, <2>1 DEF RecoverRollbackStart, recoverFrame, Recovering
<1>11. ASSUME NEW j \in Jobs, SettleJob(j) PROVE TypeInv'
  BY <1>11 DEF SettleJob, recoverFrame, procVars, Verdicts, Failures
<1>12. CASE Serve
  BY <1>12 DEF Serve, recoverFrame
<1> QED
  BY <1>1, <1>2, <1>3, <1>4, <1>5, <1>6, <1>7, <1>8, <1>9, <1>10, <1>11, <1>12 DEF RecoverStep

\* What a container does by itself leads to a state that the daemon knows.
LEMMA DriftStates ==
    ASSUME NEW i, NEW s, NEW d \in Drift(i, s)
    PROVE  d \in States \ {"unused", "removed"} /\ s \in Up
<1>1. CASE s \in {"running", "healthy", "restarting"}
  BY <1>1 DEF Drift, States, Up
<1>2. CASE s \notin {"running", "healthy", "restarting"}
  BY <1>2 DEF Drift
<1> QED
  BY <1>1, <1>2

\* The same for crashes, the registry, the containers and the user.
LEMMA TypeEnvStep ==
    ASSUME TypeInv,
           \/ Publish
           \/ \E c \in CID : ContainerDrift(c)
           \/ \E c \in CID, s \in Specs : UserRecreate(c, s)
           \/ UNCHANGED vars
    PROVE  TypeInv'
<1> USE DEF TypeInv, StateOK
<1>1. CASE Publish
  BY <1>1 DEF Publish, jobVars, procVars
<1>2. ASSUME NEW c \in CID, ContainerDrift(c) PROVE TypeInv'
  <2>1. PICK s \in Drift(ctr[c].image, ctr[c].state) : ctr' = SetState(ctr, c, s)
    BY <1>2 DEF ContainerDrift
  <2>2. ctr' \in Table
    BY <2>1, TableSet, DriftStates
  <2> QED
    BY <1>2, <2>2 DEF ContainerDrift, jobVars, procVars
<1>3. ASSUME NEW c \in CID, NEW s \in Specs, UserRecreate(c, s) PROVE TypeInv'
  <2>1. ctr' \in Table
    BY <1>3, TableStart, TableRemove, TableCreate DEF UserRecreate, Names, States
  <2>2. budget' \in [crashes : 0 .. MaxCrashes, recreates : 0 .. MaxRecreates]
    BY <1>3, InitAssumption DEF UserRecreate
  <2> QED
    BY <1>3, <2>1, <2>2 DEF UserRecreate, jobVars, procVars
<1>4. CASE UNCHANGED vars
  BY <1>4 DEF vars
<1> QED
  BY <1>1, <1>2, <1>3, <1>4

\* Together: every step keeps the types.
LEMMA TypeStep == TypeInv /\ [Next]_vars => TypeInv'
  BY TypeJobStep, TypeRecoverStep, TypeEnvStep DEF Next, Done

\* Every variable keeps its type, whichever calls to the daemon fail.
THEOREM TypeCorrect == Spec => []TypeOK
<1> DEFINE LockOK == lock \in Opt(Jobs)
<1>1. Init => LockOK
  BY DEF Init, Opt
<1>2. LockOK /\ [Next]_vars => LockOK'
  <2> SUFFICES ASSUME LockOK, [Next]_vars PROVE LockOK'
    OBVIOUS
  <2>1. ASSUME NEW j \in Jobs, Update(j) \/ JobStep(j) PROVE lock' \in {lock, j, None}
    BY <2>1 DEF Update, JobStep, Lock, Inspect, Pull, ClearParked, Park, StopOld, Create,
       StartNew, Verify, DropOld, RecordNew, RollbackRemove, RollbackRename, RollbackStart,
       Unlock, FinishUpdateJob, Forget
  <2>2. ASSUME RecoverStep PROVE lock' = lock
    BY <2>2 DEF RecoverStep, RecoverPass, RecoverList, RecoverRename, RecoverStart, RecoverVerify, RecoverDrop,
       RecoverRollbackRemove, RecoverRollbackRename, RecoverRollbackStart, SettleJob, Serve,
       recoverFrame
  <2> QED
    BY <2>1, <2>2 DEF Next, Crash, Restart, Publish, ContainerDrift, UserRecreate, Done, vars,
       jobVars, Opt
<1>3. TypeInv /\ LockOK => TypeOK
  BY DEF TypeInv, TypeOK
<1> HIDE DEF LockOK
<1> QED
  BY <1>1, <1>2, <1>3, TypeInit, TypeStep, PTL DEF Spec

-----------------------------------------------------------------------------
(* The safety invariant.                                                   *)

\* No step changes the spec of a container, or hands out an id again.
LEMMA KeepsStep == TypeInv /\ [Next]_vars => KeepsId(ctr, ctr')
<1> SUFFICES ASSUME TypeInv, [Next]_vars PROVE KeepsId(ctr, ctr')
  OBVIOUS
<1>1. ctr \in Table
  BY DEF TypeInv, StateOK
<1>2. ASSUME NEW j \in Jobs, Update(j) \/ JobStep(j) PROVE KeepsId(ctr, ctr')
  <2>1. CASE Create(j)
    <3>1. ASSUME NEW c \in Fresh, ctr' = CreateC(ctr, c, "svc", localTag, job[j].mc.spec)
          PROVE  KeepsId(ctr, ctr')
      BY <1>1, <3>1, KeepsOps DEF Fresh
    <3> QED
      BY <1>1, <2>1, <3>1, KeepsOps DEF Create
  <2>2. CASE UNCHANGED ctr
    BY <2>2, <1>1, KeepsOps
  <2>3. CASE ClearParked(j) \/ Park(j) \/ StartNew(j) \/ DropOld(j) \/ RollbackRemove(j)
             \/ RollbackRename(j) \/ RollbackStart(j)
    BY <2>3, <1>1, KeepsOps DEF ClearParked, Park, StartNew, DropOld, RollbackRemove,
       RollbackRename, RollbackStart
  <2>4. CASE StopOld(j)
    BY <2>4, <1>1, KeepsOps DEF StopOld, States, Up
  <2> QED
    BY <1>2, <2>1, <2>2, <2>3, <2>4 DEF JobStep, Update, Lock, Inspect, Pull, Verify,
       RecordNew, Unlock, FinishUpdateJob, Forget, dockerVars
<1>3. CASE Crash \/ Restart \/ RecoverStep
  BY <1>1, <1>3, KeepsOps DEF Crash, Restart, RecoverStep, RecoverPass, RecoverList, RecoverRename,
     RecoverStart, RecoverVerify, RecoverDrop, RecoverRollbackRemove,
     RecoverRollbackRename, RecoverRollbackStart, SettleJob, Serve, dockerVars
<1>4. CASE Publish \/ UNCHANGED vars
  BY <1>1, <1>4, KeepsOps DEF Publish, vars
<1>5. ASSUME NEW c \in CID, ContainerDrift(c) PROVE KeepsId(ctr, ctr')
  BY <1>1, <1>5, KeepsOps, DriftStates DEF ContainerDrift
<1>6. ASSUME NEW c \in CID, NEW s \in Specs, UserRecreate(c, s) PROVE KeepsId(ctr, ctr')
  <2> DEFINE t == RemoveC(ctr, Holder(ctr, "svc"))
             u == CreateC(t, c, "svc", localTag, s)
  <2>1. t \in Table /\ u \in Table /\ t[c].state = "unused"
    BY <1>1, <1>6, TableStart, TableRemove, TableCreate DEF UserRecreate, TypeInv, StateOK, Names, States,
       RemoveC, Holder, Exists
  <2>2. KeepsId(ctr, t) /\ KeepsId(t, u) /\ KeepsId(u, StartC(u, c))
    BY <1>1, <2>1, KeepsOps
  <2>3. ctr' = StartC(u, c)
    BY <1>6 DEF UserRecreate
  <2> HIDE DEF t, u
  <2> QED
    BY <2>2, <2>3 DEF KeepsId
<1> QED
  BY <1>2, <1>3, <1>4, <1>5, <1>6 DEF Next, Done

\* What is known of every step: types and ids are kept, and what was trusted
\* stays so.
IndFrame == TypeInv' /\ KeepsId(ctr, ctr') /\ trusted \subseteq trusted'

\* Holding the lock means being the only job in its critical section, in a
\* serving process.
LEMMA Alone ==
    ASSUME IndInv, NEW j \in Jobs, job[j].pc \notin Quiescent
    PROVE  /\ proc = "serving"
           /\ lock = j
           /\ \A k \in Jobs \ {j} : job[k].pc \in Quiescent
  BY DEF IndInv, LockInv, Quiescent

\* A job past its Inspect has looked at what holds the name.
LEMMA AtWork ==
    ASSUME IndInv, NEW j \in Jobs, job[j].pc \in Body \ {"inspect"}
    PROVE  NamesProved
<1>1. job[j].pc \notin Quiescent
  BY DEF Body, Quiescent
<1> QED
  BY <1>1, Alone DEF IndInv, NamesInv, Unsettled

\* A job outside the critical section relies on its record alone.
LEMMA QuietJob ==
    ASSUME IndInv, IndFrame, NEW k \in Jobs, job'[k].pc \in Quiescent \cup {"unlock"},
           job'[k].mc = job[k].mc,
           job'[k].pc \in {"idle", "lock"} => job'[k].new = None
    PROVE  JobInvOf(job[k])'
  BY LocalsFacts DEF IndInv, IndFrame, JobInv, JobInvOf, KeepsId, Quiescent, Parked, TypeInv, StateOK, Record

\* The same step for all the other jobs while j moves alone.
LEMMA OtherJobs ==
    ASSUME IndInv, IndFrame, NEW j \in Jobs, job[j].pc \notin Quiescent,
           \A k \in Jobs : k # j => job'[k] = job[k]
    PROVE  \A k \in Jobs : k # j => JobInvOf(job[k])'
  BY Alone, QuietJob DEF JobInv, JobInvOf, Quiescent, IndInv

\* A known-good container is one that holds a name.
LEMMA GoodH ==
    ASSUME NEW t \in Table, NEW V \in SUBSET CID
    PROVE  (\E c \in V : Exists(t, c)) <=>
           (\E c \in V : c \in Holder(t, "svc") \/ c \in Holder(t, "old"))
  BY ExistsH

\* Pulling the image: the table does not change.
LEMMA IndPull ==
    ASSUME IndInv, Reliable, IndFrame, NEW j \in Jobs, Pull(j)
    PROVE  IndInv'
<1>0. NamesProved
  BY AtWork DEF Pull, At, Body
<1>1. /\ proc = "serving" /\ lock = j /\ \A k \in Jobs \ {j} : job[k].pc \in Quiescent
      /\ proc' = proc /\ lock' = lock /\ trusted' = trusted /\ rec' = rec
  BY Alone DEF Pull, At, Quiescent, procVars
<1>2. Moves(j, "unlock") \/ Moves(j, "clear")
  BY JobMoves DEF IndInv
<1>3. LockInv'
  BY <1>1, <1>2 DEF LockInv, Moves, IndInv, Quiescent
<1>4. Holder(ctr', "svc") = Holder(ctr, "svc") /\ Holder(ctr', "old") = Holder(ctr, "old")
  BY DEF Pull
<1>5. JobInv'
  <2>1. \A k \in Jobs : k # j => JobInvOf(job[k])'
    BY <1>2, OtherJobs DEF Pull, At, Quiescent, Moves
  <2>2. JobInvOf(job[j])'
    <3>1. CASE Moves(j, "unlock")
      BY <3>1, QuietJob DEF Moves
    <3>2. CASE Moves(j, "clear")
      BY <1>1, <1>4, <3>2, NoneAssumption DEF Moves, JobInv, JobInvOf, IndInv, IndFrame, KeepsId, Pull, At,
         Parked, TypeInv, StateOK, Tentative, Quiescent
    <3> QED
      BY <1>2, <3>1, <3>2
  <2> QED
    BY <2>1, <2>2 DEF JobInv
<1>6. FoundInv'
  BY <1>1 DEF FoundInv
<1>7. NamesInv'
  BY <1>0, <1>1, <1>2, <1>4 DEF NamesInv, NamesProved, Tentative, IndInv, Moves, JobInv, JobInvOf, Pull, At, Parked, Quiescent
<1>8. RecordVerified' /\ \A c \in trusted' : ctr'[c].state # "unused"
  BY <1>1 DEF IndInv, IndFrame, RecordVerified, KeepsId, TypeInv, StateOK
<1>9. KnownGoodKept'
  BY <1>0, <1>1, <1>2, <1>4, GoodH DEF IndInv, IndFrame, KnownGoodKept, TypeInv, StateOK, JobInv, JobInvOf, Pull, At, NamesProved, Tentative, Quiescent, Parked
<1> QED
  BY <1>3, <1>5, <1>6, <1>7, <1>8, <1>9 DEF IndInv, IndFrame

\* Removing a leftover: the service's own container is trusted and stays.
LEMMA IndClearParked ==
    ASSUME IndInv, Reliable, IndFrame, NEW j \in Jobs, ClearParked(j)
    PROVE  IndInv'
<1>0. NamesProved
  BY AtWork DEF ClearParked, At, Body
<1>1. /\ proc = "serving" /\ lock = j /\ \A k \in Jobs \ {j} : job[k].pc \in Quiescent
      /\ proc' = proc /\ lock' = lock /\ trusted' = trusted /\ rec' = rec
  BY Alone DEF ClearParked, At, Quiescent, procVars
<1>2. Moves(j, "park")
  BY JobMoves DEF IndInv
<1>3. LockInv'
  BY <1>1, <1>2 DEF LockInv, Moves, IndInv, Quiescent
<1>4. Holder(ctr', "svc") = Holder(ctr, "svc") /\ Holder(ctr', "old") = {}
  <2>1. ctr' = RemoveC(ctr, Holder(ctr, "old")) /\ ctr \in Table
    BY DEF ClearParked, Reliable, MayFail, IndInv, TypeInv, StateOK
  <2>2. Holder(ctr', "svc") = Holder(ctr, "svc") \ Holder(ctr, "old")
        /\ Holder(ctr', "old") = Holder(ctr, "old") \ Holder(ctr, "old")
    BY <2>1, RemoveH
  <2>3. Holder(ctr, "svc") \cap Holder(ctr, "old") = {}
    BY <2>1, ExistsH DEF Holder
  <2> QED
    BY <2>2, <2>3
<1>5. JobInv'
  <2>1. \A k \in Jobs : k # j => JobInvOf(job[k])'
    BY <1>2, OtherJobs DEF ClearParked, At, Quiescent, Moves
  <2>2. JobInvOf(job[j])'
    <3>1. CASE Moves(j, "park")
      BY <1>1, <1>4, <3>1, NoneAssumption DEF Moves, JobInv, JobInvOf, IndInv, IndFrame, KeepsId, ClearParked, At,
         Parked, TypeInv, StateOK, Tentative, Quiescent
    <3> QED
      BY <1>2, <3>1
  <2> QED
    BY <2>1, <2>2 DEF JobInv
<1>6. FoundInv'
  BY <1>1 DEF FoundInv
<1>7. NamesInv'
  BY <1>0, <1>1, <1>2, <1>4 DEF NamesInv, NamesProved, Tentative, IndInv, Moves, JobInv, JobInvOf, ClearParked, At, Parked, Quiescent
<1>8. RecordVerified' /\ \A c \in trusted' : ctr'[c].state # "unused"
  BY <1>1 DEF IndInv, IndFrame, RecordVerified, KeepsId, TypeInv, StateOK
<1>9. KnownGoodKept'
  <2>1. Holder(ctr, "svc") # {} /\ Holder(ctr, "svc") \subseteq trusted
    BY <1>0, <1>1 DEF IndInv, JobInv, JobInvOf, NamesProved, Tentative, Quiescent, ClearParked, At
  <2>2. Holder(ctr', "svc") = Holder(ctr, "svc")
    BY <1>4
  <2> QED
    BY <1>1, <2>1, <2>2, GoodH DEF IndFrame, KnownGoodKept, TypeInv, StateOK
<1> QED
  BY <1>3, <1>5, <1>6, <1>7, <1>8, <1>9 DEF IndInv, IndFrame

\* Parking: the trusted container moves from one name to the other.
LEMMA IndPark ==
    ASSUME IndInv, Reliable, IndFrame, NEW j \in Jobs, Park(j)
    PROVE  IndInv'
<1>0. NamesProved
  BY AtWork DEF Park, At, Body
<1>1. /\ proc = "serving" /\ lock = j /\ \A k \in Jobs \ {j} : job[k].pc \in Quiescent
      /\ proc' = proc /\ lock' = lock /\ trusted' = trusted /\ rec' = rec
  BY Alone DEF Park, At, Quiescent, procVars
<1>2. Moves(j, "stop") \/ Moves(j, "unlock")
  BY JobMoves DEF IndInv
<1>3. LockInv'
  BY <1>1, <1>2 DEF LockInv, Moves, IndInv, Quiescent
<1>4. \/ Moves(j, "stop") /\ job[j].old \in Holder(ctr, "svc")
         /\ Holder(ctr', "old") = {job[j].old}
         /\ Holder(ctr', "svc") = Holder(ctr, "svc") \ {job[j].old}
      \/ Moves(j, "unlock") /\ Holder(ctr', "svc") = Holder(ctr, "svc") /\ Holder(ctr', "old") = Holder(ctr, "old")
  <2>1. job[j].old \in CID /\ job[j].old \notin Holder(ctr, "old") /\ ctr \in Table
    BY DEF IndInv, TypeInv, StateOK, JobInv, JobInvOf, Park, At
  <2>2. CASE CanRename(job[j].old, "old") /\ ctr' = RenameC(ctr, job[j].old, "old") /\ Goto(j, "stop")
    BY <2>1, <2>2, RenameH, ExistsH, GotoMoves, LabelFacts DEF CanRename, Names, IndInv, TypeInv, StateOK
  <2>3. CASE Return(j, "failed") /\ UNCHANGED ctr
    BY <2>3, ReturnMoves DEF IndInv, TypeInv, StateOK, Verdicts, Failures
  <2> QED
    BY <2>2, <2>3 DEF Park
<1>5. JobInv'
  <2>1. \A k \in Jobs : k # j => JobInvOf(job[k])'
    BY <1>2, OtherJobs DEF Park, At, Quiescent, Moves
  <2>2. JobInvOf(job[j])'
    <3>1. CASE Moves(j, "stop")
      BY <1>1, <1>4, <3>1, NoneAssumption DEF Moves, JobInv, JobInvOf, IndInv, IndFrame, KeepsId, Park, At,
         Parked, TypeInv, StateOK, Tentative, Quiescent
    <3>2. CASE Moves(j, "unlock")
      BY <3>2, QuietJob DEF Moves
    <3> QED
      BY <1>2, <3>1, <3>2
  <2> QED
    BY <2>1, <2>2 DEF JobInv
<1>6. FoundInv'
  BY <1>1 DEF FoundInv
<1>7. NamesInv'
  BY <1>0, <1>1, <1>2, <1>4 DEF NamesInv, NamesProved, Tentative, IndInv, Moves, JobInv, JobInvOf, Park, At, Parked, Quiescent
<1>8. RecordVerified' /\ \A c \in trusted' : ctr'[c].state # "unused"
  BY <1>1 DEF IndInv, IndFrame, RecordVerified, KeepsId, TypeInv, StateOK
<1>9. KnownGoodKept'
  BY <1>0, <1>1, <1>2, <1>4, GoodH DEF IndInv, IndFrame, KnownGoodKept, TypeInv, StateOK, JobInv, JobInvOf, Park, At, NamesProved, Tentative, Quiescent, Parked
<1> QED
  BY <1>3, <1>5, <1>6, <1>7, <1>8, <1>9 DEF IndInv, IndFrame

\* Stopping it changes no name.
LEMMA IndStopOld ==
    ASSUME IndInv, Reliable, IndFrame, NEW j \in Jobs, StopOld(j)
    PROVE  IndInv'
<1>0. NamesProved
  BY AtWork DEF StopOld, At, Body
<1>1. /\ proc = "serving" /\ lock = j /\ \A k \in Jobs \ {j} : job[k].pc \in Quiescent
      /\ proc' = proc /\ lock' = lock /\ trusted' = trusted /\ rec' = rec
  BY Alone DEF StopOld, At, Quiescent, procVars
<1>2. Moves(j, "create")
  BY JobMoves DEF IndInv
<1>3. LockInv'
  BY <1>1, <1>2 DEF LockInv, Moves, IndInv, Quiescent
<1>4. Holder(ctr', "svc") = Holder(ctr, "svc") /\ Holder(ctr', "old") = Holder(ctr, "old")
  <2>1. ctr \in Table /\ job[j].old \in CID
    BY DEF IndInv, TypeInv, StateOK, JobInv, JobInvOf, StopOld, At, Parked, Holder
  <2> QED
    BY <2>1, SetStateH DEF StopOld, States, Up
<1>5. JobInv'
  <2>1. \A k \in Jobs : k # j => JobInvOf(job[k])'
    BY <1>2, OtherJobs DEF StopOld, At, Quiescent, Moves
  <2>2. JobInvOf(job[j])'
    <3>1. CASE Moves(j, "create")
      BY <1>1, <1>4, <3>1, NoneAssumption DEF Moves, JobInv, JobInvOf, IndInv, IndFrame, KeepsId, StopOld, At,
         Parked, TypeInv, StateOK, Tentative, Quiescent
    <3> QED
      BY <1>2, <3>1
  <2> QED
    BY <2>1, <2>2 DEF JobInv
<1>6. FoundInv'
  BY <1>1 DEF FoundInv
<1>7. NamesInv'
  BY <1>0, <1>1, <1>2, <1>4 DEF NamesInv, NamesProved, Tentative, IndInv, Moves, JobInv, JobInvOf, StopOld, At, Parked, Quiescent
<1>8. RecordVerified' /\ \A c \in trusted' : ctr'[c].state # "unused"
  BY <1>1 DEF IndInv, IndFrame, RecordVerified, KeepsId, TypeInv, StateOK
<1>9. KnownGoodKept'
  BY <1>0, <1>1, <1>2, <1>4, GoodH DEF IndInv, IndFrame, KnownGoodKept, TypeInv, StateOK, JobInv, JobInvOf, StopOld, At, NamesProved, Tentative, Quiescent, Parked
<1> QED
  BY <1>3, <1>5, <1>6, <1>7, <1>8, <1>9 DEF IndInv, IndFrame

\* Starting the replacement changes no name.
LEMMA IndStartNew ==
    ASSUME IndInv, Reliable, IndFrame, NEW j \in Jobs, StartNew(j)
    PROVE  IndInv'
<1>0. NamesProved
  BY AtWork DEF StartNew, At, Body
<1>1. /\ proc = "serving" /\ lock = j /\ \A k \in Jobs \ {j} : job[k].pc \in Quiescent
      /\ proc' = proc /\ lock' = lock /\ trusted' = trusted /\ rec' = rec
  BY Alone DEF StartNew, At, Quiescent, procVars
<1>2. Moves(j, "verify") \/ Moves(j, "rbremove")
  BY JobMoves DEF IndInv
<1>3. LockInv'
  BY <1>1, <1>2 DEF LockInv, Moves, IndInv, Quiescent
<1>4. Holder(ctr', "svc") = Holder(ctr, "svc") /\ Holder(ctr', "old") = Holder(ctr, "old")
  <2>1. ctr \in Table /\ job[j].new \in CID
    BY DEF IndInv, TypeInv, StateOK, JobInv, JobInvOf, StartNew, At
  <2> QED
    BY <2>1, StartH DEF StartNew
<1>5. JobInv'
  <2>1. \A k \in Jobs : k # j => JobInvOf(job[k])'
    BY <1>2, OtherJobs DEF StartNew, At, Quiescent, Moves
  <2>2. JobInvOf(job[j])'
    <3>1. CASE Moves(j, "verify")
      BY <1>1, <1>4, <3>1, NoneAssumption DEF Moves, JobInv, JobInvOf, IndInv, IndFrame, KeepsId, StartNew, At,
         Parked, TypeInv, StateOK, Tentative, Quiescent
    <3>2. CASE Moves(j, "rbremove")
      BY <1>1, <1>4, <3>2, NoneAssumption DEF Moves, JobInv, JobInvOf, IndInv, IndFrame, KeepsId, StartNew, At,
         Parked, TypeInv, StateOK, Tentative, Quiescent
    <3> QED
      BY <1>2, <3>1, <3>2
  <2> QED
    BY <2>1, <2>2 DEF JobInv
<1>6. FoundInv'
  BY <1>1 DEF FoundInv
<1>7. NamesInv'
  BY <1>0, <1>1, <1>2, <1>4 DEF NamesInv, NamesProved, Tentative, IndInv, Moves, JobInv, JobInvOf, StartNew, At, Parked, Quiescent
<1>8. RecordVerified' /\ \A c \in trusted' : ctr'[c].state # "unused"
  BY <1>1 DEF IndInv, IndFrame, RecordVerified, KeepsId, TypeInv, StateOK
<1>9. KnownGoodKept'
  BY <1>0, <1>1, <1>2, <1>4, GoodH DEF IndInv, IndFrame, KnownGoodKept, TypeInv, StateOK, JobInv, JobInvOf, StartNew, At, NamesProved, Tentative, Quiescent, Parked
<1> QED
  BY <1>3, <1>5, <1>6, <1>7, <1>8, <1>9 DEF IndInv, IndFrame

\* Verifying: either the replacement becomes trusted or the rollback begins.
LEMMA IndVerify ==
    ASSUME IndInv, Reliable, IndFrame, NEW j \in Jobs, Verify(j)
    PROVE  IndInv'
<1>0. NamesProved
  BY AtWork DEF Verify, At, Body
<1>1. /\ proc = "serving" /\ lock = j /\ \A k \in Jobs \ {j} : job[k].pc \in Quiescent
      /\ proc' = proc /\ lock' = lock /\ rec' = rec
  BY Alone DEF Verify, At, Quiescent, procVars
<1>2. Moves(j, "drop") \/ Moves(j, "rbremove")
  BY JobMoves DEF IndInv
<1>3. LockInv'
  BY <1>1, <1>2 DEF LockInv, Moves, IndInv, Quiescent
<1>4. \/ Moves(j, "drop") /\ Holder(ctr', "svc") = Holder(ctr, "svc") /\ Holder(ctr', "old") = Holder(ctr, "old")
         /\ job[j].new \in Holder(ctr, "svc") \cup Holder(ctr, "old") /\ trusted' = trusted \cup {job[j].new}
      \/ Moves(j, "rbremove") /\ Holder(ctr', "svc") = Holder(ctr, "svc") /\ Holder(ctr', "old") = Holder(ctr, "old") /\ trusted' = trusted
  <2>1. ctr \in Table /\ job[j].new \in CID /\ job \in [Jobs -> Locals]
    BY DEF IndInv, TypeInv, StateOK, JobInv, JobInvOf, Verify, At
  <2>2. ASSUME NEW late \in BOOLEAN, PollOk(job[j].new, late), Goto(j, "drop")
        PROVE  Moves(j, "drop") /\ job[j].new \in Holder(ctr, "svc") \cup Holder(ctr, "old")
    BY <2>1, <2>2, GotoMoves, LabelFacts, ExistsH DEF PollOk
  <2>3. Goto(j, "rbremove") => Moves(j, "rbremove")
    BY <2>1, GotoMoves, LabelFacts
  <2> QED
    BY <2>2, <2>3 DEF Verify, dockerVars
<1>5. JobInv'
  <2>1. \A k \in Jobs : k # j => JobInvOf(job[k])'
    BY <1>2, OtherJobs DEF Verify, At, Quiescent, Moves
  <2>2. JobInvOf(job[j])'
    <3>1. CASE Moves(j, "drop")
      BY <1>1, <1>4, <3>1, NoneAssumption DEF Moves, JobInv, JobInvOf, IndInv, IndFrame, KeepsId, Verify, At,
         Parked, TypeInv, StateOK, Tentative, Quiescent
    <3>2. CASE Moves(j, "rbremove")
      BY <1>1, <1>4, <3>2, NoneAssumption DEF Moves, JobInv, JobInvOf, IndInv, IndFrame, KeepsId, Verify, At,
         Parked, TypeInv, StateOK, Tentative, Quiescent
    <3> QED
      BY <1>2, <3>1, <3>2
  <2> QED
    BY <2>1, <2>2 DEF JobInv
<1>6. FoundInv'
  BY <1>1 DEF FoundInv
<1>7. NamesInv'
  BY <1>0, <1>1, <1>2, <1>4 DEF NamesInv, NamesProved, Tentative, IndInv, Moves, JobInv, JobInvOf, Verify, At, Parked, Quiescent
<1>8. RecordVerified' /\ \A c \in trusted' : ctr'[c].state # "unused"
  BY <1>1, <1>4 DEF IndInv, IndFrame, RecordVerified, KeepsId, TypeInv, StateOK, Verify, At, JobInv, JobInvOf
<1>9. KnownGoodKept'
  BY <1>0, <1>1, <1>2, <1>4, GoodH DEF IndInv, IndFrame, KnownGoodKept, TypeInv, StateOK, JobInv, JobInvOf, Verify, At, NamesProved, Tentative, Quiescent, Parked
<1> QED
  BY <1>3, <1>5, <1>6, <1>7, <1>8, <1>9 DEF IndInv, IndFrame

\* Dropping the parked container: the trusted replacement, or what the user put in its place, holds the name.
LEMMA IndDropOld ==
    ASSUME IndInv, Reliable, IndFrame, NEW j \in Jobs, DropOld(j)
    PROVE  IndInv'
<1>0. NamesProved
  BY AtWork DEF DropOld, At, Body
<1>1. /\ proc = "serving" /\ lock = j /\ \A k \in Jobs \ {j} : job[k].pc \in Quiescent
      /\ proc' = proc /\ lock' = lock /\ trusted' = trusted /\ rec' = rec
  BY Alone DEF DropOld, At, Quiescent, procVars
<1>2. Moves(j, "record")
  BY JobMoves DEF IndInv
<1>3. LockInv'
  BY <1>1, <1>2 DEF LockInv, Moves, IndInv, Quiescent
<1>4. Holder(ctr', "svc") = Holder(ctr, "svc") \ {job[j].old}
      /\ Holder(ctr', "old") = Holder(ctr, "old") \ {job[j].old}
      /\ job[j].old \notin Holder(ctr, "svc")
  <2>1. ctr \in Table /\ job[j].old \in CID
    BY DEF IndInv, TypeInv, StateOK, JobInv, JobInvOf, DropOld, At, Parked, Holder
  <2>2. ctr' = RemoveC(ctr, {job[j].old})
    BY DEF DropOld, Reliable, MayFail
  <2>3. job[j].old \in Holder(ctr, "old")
    BY DEF IndInv, JobInv, JobInvOf, DropOld, At, Parked
  <2> QED
    BY <2>1, <2>2, <2>3, RemoveH, ExistsH
<1>5. JobInv'
  <2>1. \A k \in Jobs : k # j => JobInvOf(job[k])'
    BY <1>2, OtherJobs DEF DropOld, At, Quiescent, Moves
  <2>2. JobInvOf(job[j])'
    <3>1. CASE Moves(j, "record")
      BY <1>1, <1>4, <3>1, NoneAssumption DEF Moves, JobInv, JobInvOf, IndInv, IndFrame, KeepsId, DropOld, At,
         Parked, TypeInv, StateOK, Tentative, Quiescent
    <3> QED
      BY <1>2, <3>1
  <2> QED
    BY <2>1, <2>2 DEF JobInv
<1>6. FoundInv'
  BY <1>1 DEF FoundInv
<1>7. NamesInv'
  BY <1>0, <1>1, <1>2, <1>4 DEF NamesInv, NamesProved, Tentative, IndInv, Moves, JobInv, JobInvOf, DropOld, At, Parked, Quiescent
<1>8. RecordVerified' /\ \A c \in trusted' : ctr'[c].state # "unused"
  BY <1>1 DEF IndInv, IndFrame, RecordVerified, KeepsId, TypeInv, StateOK
<1>9. KnownGoodKept'
  <2>1. Holder(ctr, "svc") # {} /\ Holder(ctr, "svc") \subseteq trusted
    BY <1>0, <1>1 DEF IndInv, JobInv, JobInvOf, NamesProved, Tentative, Quiescent, DropOld, At
  <2>2. Holder(ctr', "svc") = Holder(ctr, "svc")
    BY <1>4
  <2> QED
    BY <1>1, <2>1, <2>2, GoodH DEF IndFrame, KnownGoodKept, TypeInv, StateOK
<1> QED
  BY <1>3, <1>5, <1>6, <1>7, <1>8, <1>9 DEF IndInv, IndFrame

\* Recording the replacement, which is trusted.
LEMMA IndRecordNew ==
    ASSUME IndInv, Reliable, IndFrame, NEW j \in Jobs, RecordNew(j)
    PROVE  IndInv'
<1>0. NamesProved
  BY AtWork DEF RecordNew, At, Body
<1>1. /\ proc = "serving" /\ lock = j /\ \A k \in Jobs \ {j} : job[k].pc \in Quiescent
      /\ proc' = proc /\ lock' = lock /\ trusted' = trusted
  BY Alone DEF RecordNew, At, Quiescent, procVars
<1>2. Moves(j, "unlock")
  BY JobMoves DEF IndInv
<1>3. LockInv'
  BY <1>1, <1>2 DEF LockInv, Moves, IndInv, Quiescent
<1>4. Holder(ctr', "svc") = Holder(ctr, "svc") /\ Holder(ctr', "old") = Holder(ctr, "old")
  BY DEF RecordNew, dockerVars
<1>5. JobInv'
  <2>1. \A k \in Jobs : k # j => JobInvOf(job[k])'
    BY <1>2, OtherJobs DEF RecordNew, At, Quiescent, Moves
  <2>2. JobInvOf(job[j])'
    <3>1. CASE Moves(j, "unlock")
      BY <3>1, QuietJob DEF Moves
    <3> QED
      BY <1>2, <3>1
  <2> QED
    BY <2>1, <2>2 DEF JobInv
<1>6. FoundInv'
  BY <1>1 DEF FoundInv
<1>7. NamesInv'
  BY <1>0, <1>1, <1>2, <1>4 DEF NamesInv, NamesProved, Tentative, IndInv, Moves, JobInv, JobInvOf, RecordNew, At, Parked, Quiescent
<1>8. RecordVerified' /\ \A c \in trusted' : ctr'[c].state # "unused"
  BY <1>1 DEF IndInv, IndFrame, RecordVerified, KeepsId, TypeInv, StateOK, RecordNew, At, Spec_of, JobInv, JobInvOf
<1>9. KnownGoodKept'
  BY <1>0, <1>1, <1>2, <1>4, GoodH DEF IndInv, IndFrame, KnownGoodKept, TypeInv, StateOK, JobInv, JobInvOf, RecordNew, At, NamesProved, Tentative, Quiescent, Parked
<1> QED
  BY <1>3, <1>5, <1>6, <1>7, <1>8, <1>9 DEF IndInv, IndFrame

\* Rolling back: the replacement goes, the parked container is another one.
LEMMA IndRollbackRemove ==
    ASSUME IndInv, Reliable, IndFrame, NEW j \in Jobs, RollbackRemove(j)
    PROVE  IndInv'
<1>0. NamesProved
  BY AtWork DEF RollbackRemove, At, Body
<1>1. /\ proc = "serving" /\ lock = j /\ \A k \in Jobs \ {j} : job[k].pc \in Quiescent
      /\ proc' = proc /\ lock' = lock /\ trusted' = trusted /\ rec' = rec
  BY Alone DEF RollbackRemove, At, Quiescent, procVars
<1>2. Moves(j, "rbrename")
  BY JobMoves DEF IndInv
<1>3. LockInv'
  BY <1>1, <1>2 DEF LockInv, Moves, IndInv, Quiescent
<1>4. Holder(ctr', "svc") = Holder(ctr, "svc") \ {job[j].new}
      /\ Holder(ctr', "old") = Holder(ctr, "old") \ {job[j].new}
  <2>1. ctr' = RemoveC(ctr, {job[j].new} \cap CID) /\ ctr \in Table
    BY DEF RollbackRemove, Reliable, MayFail, IndInv, TypeInv, StateOK
  <2>2. \A n : Holder(ctr', n) = Holder(ctr, n) \ ({job[j].new} \cap CID)
    BY <2>1, RemoveH
  <2>3. \A n : Holder(ctr, n) \subseteq CID
    BY DEF Holder
  <2> QED
    BY <2>2, <2>3
<1>5. JobInv'
  <2>1. \A k \in Jobs : k # j => JobInvOf(job[k])'
    BY <1>2, OtherJobs DEF RollbackRemove, At, Quiescent, Moves
  <2>2. JobInvOf(job[j])'
    <3>1. CASE Moves(j, "rbrename")
      BY <1>1, <1>4, <3>1, NoneAssumption DEF Moves, JobInv, JobInvOf, IndInv, IndFrame, KeepsId, RollbackRemove, At,
         Parked, TypeInv, StateOK, Tentative, Quiescent
    <3> QED
      BY <1>2, <3>1
  <2> QED
    BY <2>1, <2>2 DEF JobInv
<1>6. FoundInv'
  BY <1>1 DEF FoundInv
<1>7. NamesInv'
  BY <1>0, <1>1, <1>2, <1>4 DEF NamesInv, NamesProved, Tentative, IndInv, Moves, JobInv, JobInvOf, RollbackRemove, At, Parked, Quiescent
<1>8. RecordVerified' /\ \A c \in trusted' : ctr'[c].state # "unused"
  BY <1>1 DEF IndInv, IndFrame, RecordVerified, KeepsId, TypeInv, StateOK
<1>9. KnownGoodKept'
  BY <1>0, <1>1, <1>2, <1>4, GoodH DEF IndInv, IndFrame, KnownGoodKept, TypeInv, StateOK, JobInv, JobInvOf, RollbackRemove, At, NamesProved, Tentative, Quiescent, Parked
<1> QED
  BY <1>3, <1>5, <1>6, <1>7, <1>8, <1>9 DEF IndInv, IndFrame

\* Rolling back: the parked container takes the name again.
LEMMA IndRollbackRename ==
    ASSUME IndInv, Reliable, IndFrame, NEW j \in Jobs, RollbackRename(j)
    PROVE  IndInv'
<1>0. NamesProved
  BY AtWork DEF RollbackRename, At, Body
<1>1. /\ proc = "serving" /\ lock = j /\ \A k \in Jobs \ {j} : job[k].pc \in Quiescent
      /\ proc' = proc /\ lock' = lock /\ trusted' = trusted /\ rec' = rec
  BY Alone DEF RollbackRename, At, Quiescent, procVars
<1>2. Moves(j, "rbstart") \/ Moves(j, "unlock")
  BY JobMoves DEF IndInv
<1>3. LockInv'
  BY <1>1, <1>2 DEF LockInv, Moves, IndInv, Quiescent
<1>4. \/ Moves(j, "rbstart") /\ Holder(ctr', "svc") = {job[j].old}
         /\ Holder(ctr', "old") = Holder(ctr, "old") \ {job[j].old}
      \/ Moves(j, "unlock") /\ Holder(ctr', "svc") = Holder(ctr, "svc") /\ Holder(ctr', "old") = Holder(ctr, "old")
  <2>1. ctr \in Table /\ job[j].old \in CID
    BY DEF IndInv, TypeInv, StateOK, JobInv, JobInvOf, RollbackRename, At, Parked, Holder
  <2>2. CASE CanRename(job[j].old, "svc") /\ ctr' = RenameC(ctr, job[j].old, "svc") /\ Goto(j, "rbstart")
    BY <2>1, <2>2, RenameH, GotoMoves, LabelFacts DEF CanRename, Names, IndInv, TypeInv, StateOK
  <2>3. CASE Return(j, "down") /\ UNCHANGED ctr
    BY <2>3, ReturnMoves DEF IndInv, TypeInv, StateOK, Verdicts, Failures
  <2> QED
    BY <2>2, <2>3 DEF RollbackRename
<1>5. JobInv'
  <2>1. \A k \in Jobs : k # j => JobInvOf(job[k])'
    BY <1>2, OtherJobs DEF RollbackRename, At, Quiescent, Moves
  <2>2. JobInvOf(job[j])'
    <3>1. CASE Moves(j, "rbstart")
      BY <1>1, <1>4, <3>1, NoneAssumption DEF Moves, JobInv, JobInvOf, IndInv, IndFrame, KeepsId, RollbackRename, At,
         Parked, TypeInv, StateOK, Tentative, Quiescent
    <3>2. CASE Moves(j, "unlock")
      BY <3>2, QuietJob DEF Moves
    <3> QED
      BY <1>2, <3>1, <3>2
  <2> QED
    BY <2>1, <2>2 DEF JobInv
<1>6. FoundInv'
  BY <1>1 DEF FoundInv
<1>7. NamesInv'
  BY <1>0, <1>1, <1>2, <1>4 DEF NamesInv, NamesProved, Tentative, IndInv, Moves, JobInv, JobInvOf, RollbackRename, At, Parked, Quiescent
<1>8. RecordVerified' /\ \A c \in trusted' : ctr'[c].state # "unused"
  BY <1>1 DEF IndInv, IndFrame, RecordVerified, KeepsId, TypeInv, StateOK
<1>9. KnownGoodKept'
  BY <1>0, <1>1, <1>2, <1>4, GoodH DEF IndInv, IndFrame, KnownGoodKept, TypeInv, StateOK, JobInv, JobInvOf, RollbackRename, At, NamesProved, Tentative, Quiescent, Parked
<1> QED
  BY <1>3, <1>5, <1>6, <1>7, <1>8, <1>9 DEF IndInv, IndFrame

\* Rolling back: starting it changes no name.
LEMMA IndRollbackStart ==
    ASSUME IndInv, Reliable, IndFrame, NEW j \in Jobs, RollbackStart(j)
    PROVE  IndInv'
<1>0. NamesProved
  BY AtWork DEF RollbackStart, At, Body
<1>1. /\ proc = "serving" /\ lock = j /\ \A k \in Jobs \ {j} : job[k].pc \in Quiescent
      /\ proc' = proc /\ lock' = lock /\ trusted' = trusted /\ rec' = rec
  BY Alone DEF RollbackStart, At, Quiescent, procVars
<1>2. Moves(j, "unlock")
  BY JobMoves DEF IndInv
<1>3. LockInv'
  BY <1>1, <1>2 DEF LockInv, Moves, IndInv, Quiescent
<1>4. Holder(ctr', "svc") = Holder(ctr, "svc") /\ Holder(ctr', "old") = Holder(ctr, "old")
  <2>1. ctr \in Table /\ job[j].old \in CID
    BY DEF IndInv, TypeInv, StateOK, JobInv, JobInvOf, RollbackStart, At
  <2> QED
    BY <2>1, StartH DEF RollbackStart
<1>5. JobInv'
  <2>1. \A k \in Jobs : k # j => JobInvOf(job[k])'
    BY <1>2, OtherJobs DEF RollbackStart, At, Quiescent, Moves
  <2>2. JobInvOf(job[j])'
    <3>1. CASE Moves(j, "unlock")
      BY <3>1, QuietJob DEF Moves
    <3> QED
      BY <1>2, <3>1
  <2> QED
    BY <2>1, <2>2 DEF JobInv
<1>6. FoundInv'
  BY <1>1 DEF FoundInv
<1>7. NamesInv'
  BY <1>0, <1>1, <1>2, <1>4 DEF NamesInv, NamesProved, Tentative, IndInv, Moves, JobInv, JobInvOf, RollbackStart, At, Parked, Quiescent
<1>8. RecordVerified' /\ \A c \in trusted' : ctr'[c].state # "unused"
  BY <1>1 DEF IndInv, IndFrame, RecordVerified, KeepsId, TypeInv, StateOK
<1>9. KnownGoodKept'
  BY <1>0, <1>1, <1>2, <1>4, GoodH DEF IndInv, IndFrame, KnownGoodKept, TypeInv, StateOK, JobInv, JobInvOf, RollbackStart, At, NamesProved, Tentative, Quiescent, Parked
<1> QED
  BY <1>3, <1>5, <1>6, <1>7, <1>8, <1>9 DEF IndInv, IndFrame

\* A step outside the critical section: no container, name or record changes.
LEMMA IndOutside ==
    ASSUME IndInv, IndFrame, NEW j \in Jobs,
           ctr' = ctr, trusted' = trusted, rec' = rec, proc' = proc, found' = found,
           passed' = passed,
           \A k \in Jobs : k # j => job'[k] = job[k],
           job[j].pc \in Quiescent \cup {"unlock"}, job'[j].pc \in Quiescent,
           JobInvOf(job[j])', LockInv'
    PROVE  IndInv'
<1>1. JobInv'
  <2>1. \A k \in Jobs : k # j => JobInvOf(job[k])'
    BY DEF IndInv, JobInv, JobInvOf
  <2> QED
    BY <2>1 DEF JobInv
<1>2. NamesInv' /\ FoundInv'
  BY DEF IndInv, NamesInv, NamesProved, Unsettled, FoundInv, Tentative, Quiescent, Body
<1>3. RecordVerified' /\ KnownGoodKept' /\ \A c \in trusted' : ctr'[c].state # "unused"
  BY DEF IndInv, RecordVerified, KnownGoodKept
<1> QED
  BY <1>1, <1>2, <1>3 DEF IndInv, IndFrame

\* Announcing a job: it reads the record, which is trusted.
LEMMA IndUpdate ==
    ASSUME IndInv, IndFrame, NEW j \in Jobs, Update(j)
    PROVE  IndInv'
<1>1. /\ \A k \in Jobs : k # j => job'[k] = job[k]
      /\ job'[j].pc = "lock" /\ job'[j].mc = rec /\ job'[j].new = job[j].new
  BY BeginMoves DEF Update, IndInv, TypeInv, StateOK
<1>2. /\ ctr' = ctr /\ trusted' = trusted /\ rec' = rec /\ proc' = proc /\ found' = found
      /\ passed' = passed
      /\ lock' = lock /\ proc = "serving" /\ job[j].pc = "idle"
  BY DEF Update, At, dockerVars, procVars
<1>3. JobInvOf(job[j])'
  BY <1>1, <1>2 DEF IndInv, JobInv, JobInvOf, RecordVerified, Parked
<1>4. LockInv'
  BY <1>1, <1>2 DEF IndInv, LockInv, Quiescent
<1> QED
  BY <1>1, <1>2, <1>3, <1>4, IndOutside DEF Quiescent

\* Steps that release the lock or close the job: the names are settled.
LEMMA IndUnlock ==
    ASSUME IndInv, IndFrame, NEW j \in Jobs, Unlock(j) \/ FinishUpdateJob(j) \/ Forget(j)
    PROVE  IndInv'
<1>1. PICK l \in {"finish", "forget", "done"} : Moves(j, l)
  BY JobMoves DEF IndInv
<1>2. /\ ctr' = ctr /\ trusted' = trusted /\ rec' = rec /\ proc' = proc /\ found' = found
      /\ passed' = passed
      /\ job[j].pc \in {"unlock", "finish", "forget"}
  BY DEF Unlock, FinishUpdateJob, Forget, At, dockerVars, procVars
<1>3. JobInvOf(job[j])'
  BY <1>1, QuietJob DEF Moves, Quiescent
<1>4. LockInv'
  <2>1. CASE Unlock(j)
    <3>1. Moves(j, "finish") /\ lock = j /\ lock' = None /\ job[j].pc = "unlock"
      BY <2>1, JobMoves DEF Unlock, At, IndInv, LockInv, Quiescent
    <3> QED
      BY <1>2, <3>1, InitAssumption DEF IndInv, LockInv, Moves, Quiescent
  <2>2. CASE FinishUpdateJob(j)
    <3>1. Moves(j, "forget") /\ lock' = lock /\ job[j].pc = "finish"
      BY <2>2, JobMoves DEF FinishUpdateJob, At, IndInv
    <3> QED
      BY <1>2, <3>1 DEF IndInv, LockInv, Moves, Quiescent
  <2>3. CASE Forget(j)
    <3>1. Moves(j, "done") /\ lock' = lock /\ job[j].pc = "forget"
      BY <2>3, JobMoves DEF Forget, At, IndInv
    <3> QED
      BY <1>2, <3>1 DEF IndInv, LockInv, Moves, Quiescent
  <2> QED
    BY <2>1, <2>2, <2>3
<1> QED
  BY <1>1, <1>2, <1>3, <1>4, IndOutside DEF Moves, Quiescent

\* Taking the lock: it was free, so no other job is in its critical section.
LEMMA IndLock ==
    ASSUME IndInv, IndFrame, NEW j \in Jobs, Lock(j)
    PROVE  IndInv'
<1>1. Moves(j, "inspect")
  BY JobMoves DEF IndInv
<1>2. /\ ctr' = ctr /\ trusted' = trusted /\ rec' = rec /\ proc' = proc /\ found' = found
      /\ passed' = passed
      /\ lock = None /\ lock' = j /\ job[j].pc = "lock" /\ proc = "serving"
  BY DEF Lock, At, dockerVars, procVars, IndInv, LockInv
<1>3. \A k \in Jobs : job[k].pc \in Quiescent
  BY <1>2, InitAssumption DEF IndInv, LockInv
<1>4. LockInv'
  BY <1>1, <1>2, <1>3 DEF IndInv, LockInv, Moves, Quiescent
<1>5. JobInv'
  <2>1. \A k \in Jobs : k # j => JobInvOf(job[k])'
    BY <1>1, <1>2 DEF IndInv, JobInv, JobInvOf, Moves
  <2>2. JobInvOf(job[j])'
    BY <1>1, <1>2 DEF IndInv, JobInv, JobInvOf, Moves, Parked
  <2> QED
    BY <2>1, <2>2 DEF JobInv
<1>6. NamesInv' /\ FoundInv'
  BY <1>1, <1>2, <1>3 DEF IndInv, NamesInv, NamesProved, Unsettled, FoundInv, Tentative, Quiescent, Body, Moves
<1>7. RecordVerified' /\ KnownGoodKept' /\ \A c \in trusted' : ctr'[c].state # "unused"
  BY <1>2 DEF IndInv, RecordVerified, KnownGoodKept
<1> QED
  BY <1>4, <1>5, <1>6, <1>7 DEF IndInv, IndFrame

\* Inspecting: with the lock held and nothing created yet, whoever holds the
\* name is trusted, so the refreshed record is too.
LEMMA IndInspect ==
    ASSUME IndInv, IndFrame, NEW j \in Jobs, Inspect(j)
    PROVE  IndInv'
<1>1. /\ proc = "serving" /\ lock = j /\ \A k \in Jobs \ {j} : job[k].pc \in Quiescent
      /\ proc' = proc /\ lock' = lock /\ passed' = passed /\ found' = found /\ ctr' = ctr
      /\ job[j].pc = "inspect" /\ job[j].new = None
  BY Alone DEF Inspect, At, Quiescent, procVars, dockerVars, IndInv, JobInv, JobInvOf
<1>2. passed \/ Holder(ctr, "svc") \subseteq trusted
  BY <1>1 DEF IndInv, NamesInv, NamesProved, Unsettled, Tentative, Quiescent
<1>3. CASE Return(j, "failed") /\ UNCHANGED <<rec, trusted, taken>>
  <2>1. Moves(j, "unlock")
    BY <1>3, ReturnMoves DEF IndInv, TypeInv, StateOK, Verdicts, Failures
  <2>2. LockInv'
    BY <1>1, <2>1 DEF IndInv, LockInv, Moves, Quiescent
  <2>3. JobInv'
    <3>1. \A k \in Jobs : k # j => JobInvOf(job[k])'
      BY <1>1, <2>1, OtherJobs DEF Moves, Quiescent
    <3>2. JobInvOf(job[j])'
      BY <2>1, QuietJob DEF Moves
    <3> QED
      BY <3>1, <3>2 DEF JobInv
  <2>4. NamesInv'
    BY <1>1, <1>3, <2>1 DEF IndInv, NamesInv, NamesProved, Unsettled, Tentative, Body, Quiescent, Moves
  <2>5. FoundInv' /\ RecordVerified' /\ KnownGoodKept'
    BY <1>1, <1>3 DEF IndInv, FoundInv, RecordVerified, KnownGoodKept
  <2> QED
    BY <1>1, <1>3, <2>2, <2>3, <2>4, <2>5 DEF IndInv, IndFrame
<1>4. ASSUME NEW c \in CID, c \in Holder(ctr, "svc"), NEW mc \in Record,
             mc = RefreshIfRecreated(job[j].mc, c),
             job' = [job EXCEPT ![j].pc = "pull", ![j].mc = mc, ![j].old = c,
                                ![j].seen = ctr[c].state],
             rec' = IF c # job[j].mc.cid THEN mc ELSE rec,
             Rely(c)
      PROVE  IndInv'
  <2>1. /\ c \in CID /\ c \in Holder(ctr, "svc") /\ c \notin Holder(ctr, "old")
        /\ trusted' = trusted \cup {c} /\ ctr[c].state # "unused"
    BY <1>2, <1>4, ExistsH DEF IndInv, TypeInv, StateOK, Rely
  <2>2. mc.cid = c /\ mc.spec = ctr[c].spec
    BY <1>4 DEF RefreshIfRecreated, Spec_of, IndInv, JobInv, JobInvOf
  <2>3. /\ \A k \in Jobs : k # j => job'[k] = job[k]
        /\ job'[j].pc = "pull" /\ job'[j].mc = mc /\ job'[j].old = c /\ job'[j].new = job[j].new
    <3>1. job \in [Jobs -> Locals] /\ ctr \in Table /\ mc \in Record
      BY <1>4 DEF IndInv, TypeInv, StateOK
    <3>2. job' = [job EXCEPT ![j].pc = "pull", ![j].mc = mc, ![j].old = c, ![j].seen = ctr[c].state]
      BY <1>4
    <3>3. \A k \in Jobs : k # j => job'[k] = job[k]
      BY <3>1, <3>2 DEF Locals
    <3>4. job'[j].pc = "pull" /\ job'[j].mc = mc /\ job'[j].old = c /\ job'[j].new = job[j].new
      BY <3>1, <3>2 DEF Locals
    <3> QED
      BY <3>3, <3>4
  <2>4. LockInv'
    BY <1>1, <2>3 DEF IndInv, LockInv, Quiescent
  <2>5. JobInv'
    <3>1. \A k \in Jobs : k # j => JobInvOf(job[k])'
      BY <1>1, <2>3, OtherJobs DEF Quiescent
    <3>2. JobInvOf(job[j])'
      BY <1>1, <2>1, <2>2, <2>3 DEF JobInvOf, Parked
    <3> QED
      BY <3>1, <3>2 DEF JobInv
  <2>6. RecordVerified' /\ \A d \in trusted' : ctr'[d].state # "unused"
    BY <1>1, <1>4, <2>1, <2>2 DEF IndInv, RecordVerified
  <2>7. NamesInv' /\ FoundInv' /\ KnownGoodKept'
    BY <1>1, <2>1 DEF IndInv, NamesInv, NamesProved, FoundInv, KnownGoodKept
  <2> QED
    BY <1>1, <2>4, <2>5, <2>6, <2>7 DEF IndInv, IndFrame
<1>5. \A c \in Holder(ctr, "svc") : c \in CID /\ RefreshIfRecreated(job[j].mc, c) \in Record
  BY LocalsFacts DEF RefreshIfRecreated, Spec_of, Record, Holder, IndInv, TypeInv, StateOK, Table, Container
<1> QED
  BY <1>3, <1>4, <1>5 DEF Inspect

\* Creating the replacement: a fresh id takes the free name.
LEMMA IndCreate ==
    ASSUME IndInv, IndFrame, NEW j \in Jobs, Create(j)
    PROVE  IndInv'
<1>1. /\ proc = "serving" /\ lock = j /\ \A k \in Jobs \ {j} : job[k].pc \in Quiescent
      /\ proc' = proc /\ lock' = lock /\ trusted' = trusted /\ rec' = rec
      /\ job[j].pc = "create" /\ job[j].new = None /\ job[j].mc.cid = job[j].old
      /\ job[j].old \in Holder(ctr, "old") \cap trusted /\ job[j].mc.spec = ctr[job[j].old].spec
  BY Alone DEF Create, At, Quiescent, Parked, procVars, IndInv, JobInv, JobInvOf
<1>2. Holder(ctr, "svc") \subseteq trusted
  <2>1. NamesProved
    BY <1>1, AtWork DEF Body
  <2> QED
    BY <1>1, <2>1 DEF NamesProved, Tentative, Quiescent
<1>3. RecordVerified' /\ \A c \in trusted' : ctr'[c].state # "unused"
  BY <1>1 DEF IndInv, IndFrame, RecordVerified, KeepsId, TypeInv, StateOK
<1>4. FoundInv'
  BY <1>1 DEF FoundInv
<1>5. CASE Goto(j, "rbremove") /\ UNCHANGED ctr
  <2>1. Moves(j, "rbremove")
    BY <1>5, GotoMoves, LabelFacts DEF IndInv, TypeInv, StateOK
  <2>2. LockInv'
    BY <1>1, <2>1 DEF IndInv, LockInv, Moves, Quiescent
  <2>3. JobInv'
    <3>1. \A k \in Jobs : k # j => JobInvOf(job[k])'
      BY <1>1, <2>1, OtherJobs DEF Moves, Quiescent
    <3>2. JobInvOf(job[j])'
      BY <1>1, <1>5, <2>1, NoneAssumption DEF IndInv, JobInv, JobInvOf, Moves, Parked, Holder
    <3> QED
      BY <3>1, <3>2 DEF JobInv
  <2>4. NamesInv' /\ KnownGoodKept'
    BY <1>1, <1>2, <1>5 DEF IndInv, NamesInv, NamesProved, KnownGoodKept
  <2> QED
    BY <1>3, <1>4, <2>2, <2>3, <2>4 DEF IndInv, IndFrame
<1>6. ASSUME NEW c \in Fresh, Holder(ctr, "svc") = {},
             ctr' = CreateC(ctr, c, "svc", localTag, job[j].mc.spec),
             job' = [job EXCEPT ![j].pc = "start", ![j].new = c]
      PROVE  IndInv'
  <2>1. /\ c \in CID /\ c \notin Holder(ctr, "old") /\ c # job[j].old
        /\ Holder(ctr', "svc") = {c} /\ Holder(ctr', "old") = Holder(ctr, "old")
        /\ ctr'[c].spec = job[j].mc.spec /\ ctr'[c].state # "unused"
    <3>1. c \in CID /\ ctr[c].state = "unused" /\ ctr \in Table
          /\ localTag \in Images /\ job[j].mc.spec \in Specs
      BY LocalsFacts DEF Fresh, IndInv, TypeInv, StateOK, Record
    <3>2. c \notin Holder(ctr, "old")
      BY <3>1 DEF Holder, Exists
    <3> QED
      BY <1>1, <1>6, <3>1, <3>2, CreateH
  <2>2. /\ \A k \in Jobs : k # j => job'[k] = job[k]
        /\ job'[j].pc = "start" /\ job'[j].new = c
        /\ job'[j].mc = job[j].mc /\ job'[j].old = job[j].old
    BY <1>6, <2>1, CreateMoves DEF IndInv, TypeInv, StateOK
  <2>3. LockInv'
    BY <1>1, <2>2 DEF IndInv, LockInv, Quiescent
  <2>4. JobInv'
    <3>1. \A k \in Jobs : k # j => JobInvOf(job[k])'
      BY <1>1, <2>2, OtherJobs DEF Quiescent
    <3>2. job[j].old \in CID /\ ctr'[job[j].old].spec = ctr[job[j].old].spec
      BY <1>1 DEF IndInv, IndFrame, KeepsId, TypeInv, StateOK
    <3>3. JobInvOf(job[j])'
      BY <1>1, <2>1, <2>2, <3>2 DEF JobInvOf, Parked
    <3> QED
      BY <3>1, <3>3 DEF JobInv
  <2>5. NamesInv'
    BY <1>1, <2>1, <2>2 DEF IndInv, NamesInv, NamesProved, Unsettled, Tentative
  <2>6. KnownGoodKept'
    BY <1>1, <2>1, GoodH DEF IndFrame, KnownGoodKept, TypeInv, StateOK
  <2> QED
    BY <1>3, <1>4, <2>3, <2>4, <2>5, <2>6 DEF IndInv, IndFrame
<1> QED
  BY <1>5, <1>6 DEF Create

\* While Veery recovers no job runs, so what the jobs rely on is their record.
LEMMA RecoverJobs ==
    ASSUME IndInv, IndFrame, proc # "serving", job' = job, lock' = lock
    PROVE  LockInv' /\ JobInv'
<1>1. \A j \in Jobs : job[j].pc \in {"idle", "done", "dead"}
  BY DEF IndInv, LockInv
<1>2. \A j \in Jobs : JobInvOf(job[j])'
  BY <1>1, QuietJob DEF Quiescent, IndInv, JobInv, JobInvOf
<1> QED
  BY <1>1, <1>2 DEF IndInv, LockInv, JobInv

\* Listing: the parked container is trusted, and at most one container has the name.
LEMMA IndRecoverList ==
    ASSUME IndInv, Reliable, IndFrame, RecoverList
    PROVE  IndInv'
<1>1. proc # "serving" /\ rec' = rec /\ job' = job /\ lock' = lock /\ trusted' = trusted
  BY DEF RecoverList, recoverFrame
<1>2. LockInv' /\ JobInv'
  BY <1>1, RecoverJobs
<1>3. Holder(ctr', "svc") = Holder(ctr, "svc") /\ Holder(ctr', "old") = Holder(ctr, "old")
      /\ \/ proc' = "rename" /\ found'.parked \in Holder(ctr, "old") /\ Holder(ctr, "svc") = {}
         \/ proc' = "verify" /\ found'.parked \in Holder(ctr, "old") /\ Holder(ctr, "svc") = {found'.fresh}
            /\ found'.fresh \in CID \ Holder(ctr, "old")
         \/ proc' = "resume" /\ Holder(ctr, "old") = {}
  <2>1. ctr' = ctr
    BY DEF RecoverList
  <2>2. \A f \in Holder(ctr, "svc") : Holder(ctr, "svc") = {f} /\ f \in CID \ Holder(ctr, "old")
    BY ExistsH DEF IndInv, TypeInv, StateOK, NamesInv, Holder
  <2> QED
    BY <2>1, <2>2 DEF RecoverList
<1>4. FoundInv'
  BY <1>1, <1>3 DEF IndInv, FoundInv, NamesInv, NamesProved, Unsettled, Tentative, LockInv, RecoverList
<1>5. NamesInv'
  BY <1>1, <1>3 DEF IndInv, FoundInv, NamesInv, NamesProved, Unsettled, Tentative, LockInv, RecoverList
<1>6. RecordVerified' /\ \A c \in trusted' : ctr'[c].state # "unused"
  BY <1>1 DEF IndInv, IndFrame, RecordVerified, KeepsId, TypeInv, StateOK
<1>7. KnownGoodKept'
  BY <1>1, <1>3, GoodH DEF IndInv, IndFrame, KnownGoodKept, TypeInv, StateOK, FoundInv, NamesInv, NamesProved, Unsettled, Tentative, LockInv, RecoverList
<1> QED
  BY <1>2, <1>4, <1>5, <1>6, <1>7 DEF IndInv, IndFrame

\* Restoring: the parked container takes the name again.
LEMMA IndRecoverRename ==
    ASSUME IndInv, Reliable, IndFrame, RecoverRename
    PROVE  IndInv'
<1>1. proc # "serving" /\ rec' = rec /\ job' = job /\ lock' = lock /\ trusted' = trusted /\ found' = found
  BY DEF RecoverRename, recoverFrame
<1>2. LockInv' /\ JobInv'
  BY <1>1, RecoverJobs
<1>3. \/ proc' = "restart" /\ found.parked \in CID /\ Holder(ctr', "svc") = {found.parked}
         /\ Holder(ctr', "old") = Holder(ctr, "old") \ {found.parked}
      \/ proc' = "resume" /\ Holder(ctr', "svc") = Holder(ctr, "svc") /\ Holder(ctr', "old") = Holder(ctr, "old")
  <2>1. ctr \in Table /\ found.parked \in CID
    BY DEF IndInv, TypeInv, StateOK, FoundInv, RecoverRename, Holder
  <2> QED
    BY <2>1, RenameH DEF RecoverRename, CanRename, Names
<1>4. FoundInv'
  BY <1>1, <1>3 DEF IndInv, FoundInv, NamesInv, NamesProved, Unsettled, Tentative, LockInv, RecoverRename
<1>5. NamesInv'
  BY <1>1, <1>3 DEF IndInv, FoundInv, NamesInv, NamesProved, Unsettled, Tentative, LockInv, RecoverRename
<1>6. RecordVerified' /\ \A c \in trusted' : ctr'[c].state # "unused"
  BY <1>1 DEF IndInv, IndFrame, RecordVerified, KeepsId, TypeInv, StateOK
<1>7. KnownGoodKept'
  BY <1>1, <1>3, GoodH DEF IndInv, IndFrame, KnownGoodKept, TypeInv, StateOK, FoundInv, NamesInv, NamesProved, Unsettled, Tentative, LockInv, RecoverRename
<1> QED
  BY <1>2, <1>4, <1>5, <1>6, <1>7 DEF IndInv, IndFrame

\* Restoring: starting it changes no name.
LEMMA IndRecoverStart ==
    ASSUME IndInv, Reliable, IndFrame, RecoverStart
    PROVE  IndInv'
<1>1. proc # "serving" /\ rec' = rec /\ job' = job /\ lock' = lock /\ trusted' = trusted /\ found' = found
  BY DEF RecoverStart, recoverFrame
<1>2. LockInv' /\ JobInv'
  BY <1>1, RecoverJobs
<1>3. proc' = "resume" /\ Holder(ctr', "svc") = Holder(ctr, "svc") /\ Holder(ctr', "old") = Holder(ctr, "old")
  <2>1. ctr \in Table /\ found.parked \in CID
    BY DEF IndInv, TypeInv, StateOK, FoundInv, RecoverStart, Holder
  <2> QED
    BY <2>1, StartH DEF RecoverStart
<1>4. FoundInv'
  BY <1>1, <1>3 DEF IndInv, FoundInv, NamesInv, NamesProved, Unsettled, Tentative, LockInv, RecoverStart
<1>5. NamesInv'
  BY <1>1, <1>3 DEF IndInv, FoundInv, NamesInv, NamesProved, Unsettled, Tentative, LockInv, RecoverStart
<1>6. RecordVerified' /\ \A c \in trusted' : ctr'[c].state # "unused"
  BY <1>1 DEF IndInv, IndFrame, RecordVerified, KeepsId, TypeInv, StateOK
<1>7. KnownGoodKept'
  BY <1>1, <1>3, GoodH DEF IndInv, IndFrame, KnownGoodKept, TypeInv, StateOK, FoundInv, NamesInv, NamesProved, Unsettled, Tentative, LockInv, RecoverStart
<1> QED
  BY <1>2, <1>4, <1>5, <1>6, <1>7 DEF IndInv, IndFrame

\* Verifying a replacement that an interrupted update left behind.
LEMMA IndRecoverVerify ==
    ASSUME IndInv, Reliable, IndFrame, RecoverVerify
    PROVE  IndInv'
<1>1. proc # "serving" /\ rec' = rec /\ job' = job /\ lock' = lock /\ found' = found
  BY DEF RecoverVerify, recoverFrame
<1>2. LockInv' /\ JobInv'
  BY <1>1, RecoverJobs
<1>3. Holder(ctr', "svc") = Holder(ctr, "svc") /\ Holder(ctr', "old") = Holder(ctr, "old")
      /\ \/ proc' = "drop" /\ found.fresh \in Holder(ctr, "svc") /\ trusted' = trusted \cup {found.fresh}
         \/ proc' = "rbremove" /\ trusted' = trusted
  <2>1. ctr \in Table /\ found.fresh \in CID \ Holder(ctr, "old") /\ ctr' = ctr
    BY DEF IndInv, TypeInv, StateOK, FoundInv, RecoverVerify
  <2>2. Exists(ctr, found.fresh) => found.fresh \in Holder(ctr, "svc")
    BY <2>1, ExistsH
  <2> QED
    BY <2>1, <2>2 DEF RecoverVerify, PollOk
<1>4. FoundInv'
  BY <1>1, <1>3 DEF IndInv, FoundInv, NamesInv, NamesProved, Unsettled, Tentative, LockInv, RecoverVerify
<1>5. NamesInv'
  BY <1>1, <1>3 DEF IndInv, FoundInv, NamesInv, NamesProved, Unsettled, Tentative, LockInv, RecoverVerify
<1>6. RecordVerified' /\ \A c \in trusted' : ctr'[c].state # "unused"
  BY <1>1, <1>3, ExistsH DEF IndInv, IndFrame, RecordVerified, KeepsId, TypeInv, StateOK, FoundInv
<1>7. KnownGoodKept'
  BY <1>1, <1>3, GoodH DEF IndInv, IndFrame, KnownGoodKept, TypeInv, StateOK, FoundInv, NamesInv, NamesProved, Unsettled, Tentative, LockInv, RecoverVerify
<1> QED
  BY <1>2, <1>4, <1>5, <1>6, <1>7 DEF IndInv, IndFrame

\* Retiring the parked container: a trusted one holds the name.
LEMMA IndRecoverDrop ==
    ASSUME IndInv, Reliable, IndFrame, RecoverDrop
    PROVE  IndInv'
<1>1. proc # "serving" /\ rec' = rec /\ job' = job /\ lock' = lock /\ trusted' = trusted /\ found' = found
  BY DEF RecoverDrop, recoverFrame
<1>2. LockInv' /\ JobInv'
  BY <1>1, RecoverJobs
<1>3. proc' = "resume" /\ Holder(ctr', "svc") = Holder(ctr, "svc")
      /\ Holder(ctr', "old") = Holder(ctr, "old") \ {found.parked}
  <2>1. ctr \in Table /\ found.parked \in CID
    BY DEF IndInv, TypeInv, StateOK, FoundInv, RecoverDrop, Holder
  <2>2. ctr' = RemoveC(ctr, {found.parked}) /\ found.parked \in Holder(ctr, "old")
    BY DEF RecoverDrop, Reliable, MayFail, IndInv, FoundInv
  <2>3. \A n : Holder(ctr', n) = Holder(ctr, n) \ {found.parked}
    BY <2>1, <2>2, RemoveH
  <2>4. found.parked \notin Holder(ctr, "svc")
    BY <2>1, <2>2, ExistsH
  <2> QED
    BY <2>3, <2>4 DEF RecoverDrop
<1>4. FoundInv'
  BY <1>1, <1>3 DEF IndInv, FoundInv, NamesInv, NamesProved, Unsettled, Tentative, LockInv, RecoverDrop
<1>5. NamesInv'
  BY <1>1, <1>3 DEF IndInv, FoundInv, NamesInv, NamesProved, Unsettled, Tentative, LockInv, RecoverDrop
<1>6. RecordVerified' /\ \A c \in trusted' : ctr'[c].state # "unused"
  BY <1>1 DEF IndInv, IndFrame, RecordVerified, KeepsId, TypeInv, StateOK
<1>7. KnownGoodKept'
  <2>1. PICK c \in CID : c \in Holder(ctr, "svc")
    BY DEF IndInv, FoundInv, RecoverDrop, Holder
  <2>2. c \in trusted
    BY <1>1, <2>1 DEF IndInv, NamesInv, NamesProved, Unsettled, Tentative, LockInv, RecoverDrop
  <2>3. Exists(ctr', c)
    BY <1>3, <2>1 DEF Holder
  <2> QED
    BY <1>1, <2>2, <2>3 DEF KnownGoodKept
<1> QED
  BY <1>2, <1>4, <1>5, <1>6, <1>7 DEF IndInv, IndFrame

\* Rolling back: the unverified replacement goes, the parked container stays.
LEMMA IndRecoverRollbackRemove ==
    ASSUME IndInv, Reliable, IndFrame, RecoverRollbackRemove
    PROVE  IndInv'
<1>1. proc # "serving" /\ rec' = rec /\ job' = job /\ lock' = lock /\ trusted' = trusted /\ found' = found
  BY DEF RecoverRollbackRemove, recoverFrame
<1>2. LockInv' /\ JobInv'
  BY <1>1, RecoverJobs
<1>3. proc' = "rbrename" /\ Holder(ctr', "svc") = Holder(ctr, "svc") \ {found.fresh}
      /\ Holder(ctr', "old") = Holder(ctr, "old")
  <2>1. ctr \in Table /\ found.fresh \in CID \ Holder(ctr, "old") /\ ctr' = RemoveC(ctr, {found.fresh})
    BY DEF IndInv, TypeInv, StateOK, FoundInv, RecoverRollbackRemove, Reliable, MayFail
  <2>2. \A n : Holder(ctr', n) = Holder(ctr, n) \ {found.fresh}
    BY <2>1, RemoveH
  <2> QED
    BY <2>1, <2>2 DEF RecoverRollbackRemove
<1>4. FoundInv'
  BY <1>1, <1>3 DEF IndInv, FoundInv, NamesInv, NamesProved, Unsettled, Tentative, LockInv, RecoverRollbackRemove
<1>5. NamesInv'
  BY <1>1, <1>3 DEF IndInv, FoundInv, NamesInv, NamesProved, Unsettled, Tentative, LockInv, RecoverRollbackRemove
<1>6. RecordVerified' /\ \A c \in trusted' : ctr'[c].state # "unused"
  BY <1>1 DEF IndInv, IndFrame, RecordVerified, KeepsId, TypeInv, StateOK
<1>7. KnownGoodKept'
  BY <1>1, <1>3, GoodH DEF IndInv, IndFrame, KnownGoodKept, TypeInv, StateOK, FoundInv, NamesInv, NamesProved, Unsettled, Tentative, LockInv, RecoverRollbackRemove
<1> QED
  BY <1>2, <1>4, <1>5, <1>6, <1>7 DEF IndInv, IndFrame

\* Rolling back: the parked container takes the name again.
LEMMA IndRecoverRollbackRename ==
    ASSUME IndInv, Reliable, IndFrame, RecoverRollbackRename
    PROVE  IndInv'
<1>1. proc # "serving" /\ rec' = rec /\ job' = job /\ lock' = lock /\ trusted' = trusted /\ found' = found
  BY DEF RecoverRollbackRename, recoverFrame
<1>2. LockInv' /\ JobInv'
  BY <1>1, RecoverJobs
<1>3. \/ proc' = "rbstart" /\ found.parked \in CID /\ Holder(ctr', "svc") = {found.parked}
         /\ Holder(ctr', "old") = Holder(ctr, "old") \ {found.parked}
      \/ proc' = "resume" /\ Holder(ctr', "svc") = Holder(ctr, "svc") /\ Holder(ctr', "old") = Holder(ctr, "old")
  <2>1. ctr \in Table /\ found.parked \in CID
    BY DEF IndInv, TypeInv, StateOK, FoundInv, RecoverRollbackRename, Holder
  <2> QED
    BY <2>1, RenameH DEF RecoverRollbackRename, CanRename, Names
<1>4. FoundInv'
  BY <1>1, <1>3 DEF IndInv, FoundInv, NamesInv, NamesProved, Unsettled, Tentative, LockInv, RecoverRollbackRename
<1>5. NamesInv'
  BY <1>1, <1>3 DEF IndInv, FoundInv, NamesInv, NamesProved, Unsettled, Tentative, LockInv, RecoverRollbackRename
<1>6. RecordVerified' /\ \A c \in trusted' : ctr'[c].state # "unused"
  BY <1>1 DEF IndInv, IndFrame, RecordVerified, KeepsId, TypeInv, StateOK
<1>7. KnownGoodKept'
  BY <1>1, <1>3, GoodH DEF IndInv, IndFrame, KnownGoodKept, TypeInv, StateOK, FoundInv, NamesInv, NamesProved, Unsettled, Tentative, LockInv, RecoverRollbackRename
<1> QED
  BY <1>2, <1>4, <1>5, <1>6, <1>7 DEF IndInv, IndFrame

\* Rolling back: starting it changes no name.
LEMMA IndRecoverRollbackStart ==
    ASSUME IndInv, Reliable, IndFrame, RecoverRollbackStart
    PROVE  IndInv'
<1>1. proc # "serving" /\ rec' = rec /\ job' = job /\ lock' = lock /\ trusted' = trusted /\ found' = found
  BY DEF RecoverRollbackStart, recoverFrame
<1>2. LockInv' /\ JobInv'
  BY <1>1, RecoverJobs
<1>3. proc' = "resume" /\ Holder(ctr', "svc") = Holder(ctr, "svc") /\ Holder(ctr', "old") = Holder(ctr, "old")
  <2>1. ctr \in Table /\ found.parked \in CID
    BY DEF IndInv, TypeInv, StateOK, FoundInv, RecoverRollbackStart, Holder
  <2> QED
    BY <2>1, StartH DEF RecoverRollbackStart
<1>4. FoundInv'
  BY <1>1, <1>3 DEF IndInv, FoundInv, NamesInv, NamesProved, Unsettled, Tentative, LockInv, RecoverRollbackStart
<1>5. NamesInv'
  BY <1>1, <1>3 DEF IndInv, FoundInv, NamesInv, NamesProved, Unsettled, Tentative, LockInv, RecoverRollbackStart
<1>6. RecordVerified' /\ \A c \in trusted' : ctr'[c].state # "unused"
  BY <1>1 DEF IndInv, IndFrame, RecordVerified, KeepsId, TypeInv, StateOK
<1>7. KnownGoodKept'
  BY <1>1, <1>3, GoodH DEF IndInv, IndFrame, KnownGoodKept, TypeInv, StateOK, FoundInv, NamesInv, NamesProved, Unsettled, Tentative, LockInv, RecoverRollbackStart
<1> QED
  BY <1>2, <1>4, <1>5, <1>6, <1>7 DEF IndInv, IndFrame

\* The steps of Veery's process that touch no container.
LEMMA IndProcess ==
    ASSUME IndInv, IndFrame,
           Crash \/ Restart \/ RecoverPass \/ (\E j \in Jobs : SettleJob(j)) \/ Serve
    PROVE  IndInv'
<1>1. ctr' = ctr /\ trusted' = trusted /\ rec' = rec
  BY DEF Crash, Restart, RecoverPass, SettleJob, Serve, dockerVars, recoverFrame
<1>2. RecordVerified' /\ KnownGoodKept' /\ \A c \in trusted' : ctr'[c].state # "unused"
  BY <1>1 DEF IndInv, RecordVerified, KnownGoodKept
<1>3. CASE Crash
  <2>1. \A k \in Jobs : /\ job'[k].pc \in {"idle", "done", "dead"}
                        /\ job'[k].pc = "idle" => job[k].pc = "idle"
                        /\ job'[k].mc = job[k].mc /\ job'[k].new = job[k].new
    BY <1>3 DEF Crash, Locals, IndInv, TypeInv, StateOK
  <2>2. \A k \in Jobs : JobInvOf(job[k])'
    BY <2>1, QuietJob DEF Quiescent, IndInv, JobInv, JobInvOf
  <2>3. LockInv'
    BY <1>3, <2>1, InitAssumption DEF Crash, LockInv, Quiescent
  <2>4. NamesInv' /\ FoundInv'
    <3>1. Holder(ctr, "svc") \subseteq trusted \/ Holder(ctr, "old") # {}
      BY DEF IndInv, NamesInv, NamesProved, Tentative, JobInv, JobInvOf, Parked, FoundInv
    <3> QED
      BY <1>1, <1>3, <3>1 DEF Crash, IndInv, NamesInv, NamesProved, Unsettled, FoundInv
  <2> QED
    BY <1>2, <2>2, <2>3, <2>4 DEF IndInv, IndFrame, JobInv
<1>4. CASE Restart \/ RecoverPass \/ (\E j \in Jobs : SettleJob(j)) \/ Serve
  <2>1. proc # "serving" /\ job' = job /\ lock' = lock
    BY <1>4 DEF Restart, RecoverPass, SettleJob, Serve, jobVars, recoverFrame
  <2>2. LockInv' /\ JobInv'
    BY <2>1, RecoverJobs
  <2>3. /\ found' = found
        /\ \/ proc = "down" /\ proc' = "list"
           \/ /\ proc = "list" /\ proc' \in {"resume", "serving"}
              /\ passed' = (passed \/ Holder(ctr, "old") # {})
           \/ proc = "resume" /\ proc' \in {"resume", "serving"} /\ passed' = passed
    BY <1>4 DEF Restart, RecoverPass, SettleJob, Serve, procVars
  <2>4. \A j \in Jobs : job[j].pc \in {"idle", "done", "dead"}
    BY <2>1 DEF IndInv, LockInv
  <2>5. NamesInv' /\ FoundInv'
    BY <1>1, <2>1, <2>3, <2>4 DEF IndInv, NamesInv, NamesProved, Unsettled, FoundInv, Tentative, Body
  <2> QED
    BY <1>2, <2>2, <2>5 DEF IndInv, IndFrame
<1> QED
  BY <1>3, <1>4

\* A step that changes neither a name, nor a job, nor the process.
LEMMA IndKeeps ==
    ASSUME IndInv, IndFrame, LockInv', RecordVerified', UNCHANGED <<job, procVars>>,
           \A c \in trusted' : c \in trusted \/ Exists(ctr, c),
           \A n : Holder(ctr', n) = Holder(ctr, n)
    PROVE  IndInv'
<1>1. FoundInv' /\ NamesInv'
  BY DEF IndInv, IndFrame, FoundInv, NamesInv, NamesProved, Unsettled, Tentative, procVars
<1>2. \A c \in trusted' : ctr'[c].state # "unused"
  BY DEF IndInv, IndFrame, KeepsId, TypeInv, StateOK, Exists
<1>3. KnownGoodKept'
  BY GoodH DEF IndInv, IndFrame, KnownGoodKept, TypeInv, StateOK
<1>4. JobInv'
  <2> SUFFICES ASSUME NEW k \in Jobs PROVE JobInvOf(job[k])'
    BY DEF JobInv
  <2>1. JobInvOf(job[k]) /\ job' = job /\ trusted \subseteq trusted' /\ job[k].mc.cid \in CID
    BY LocalsFacts DEF IndInv, IndFrame, JobInv, TypeInv, StateOK, Record
  <2> QED
    BY <2>1 DEF JobInvOf, IndInv, IndFrame, KeepsId, TypeInv, StateOK
<1> QED
  BY <1>1, <1>2, <1>3, <1>4 DEF IndInv, IndFrame

\* Nor the record or the lock.
LEMMA IndNames ==
    ASSUME IndInv, IndFrame, UNCHANGED <<rec, jobVars, procVars, trusted>>,
           \A n : Holder(ctr', n) = Holder(ctr, n)
    PROVE  IndInv'
<1>1. LockInv'
  BY DEF IndInv, LockInv, jobVars, procVars
<1>2. RecordVerified'
  BY DEF IndInv, IndFrame, RecordVerified, KeepsId, TypeInv, StateOK
<1> QED
  BY <1>1, <1>2, IndKeeps DEF jobVars

\* A container that nobody has to verify takes the name: what is parked stays parked.
LEMMA IndMade ==
    ASSUME IndInv, IndFrame, NEW c \in CID,
           Holder(ctr', "svc") = {c}, Holder(ctr', "old") = Holder(ctr, "old"),
           c \notin Holder(ctr, "old"), ctr'[c].state # "unused",
           trusted' = trusted \cup {c}, UNCHANGED <<rec, jobVars, procVars>>
    PROVE  IndInv'
<1>1. rec' = rec /\ job' = job /\ lock' = lock /\ proc' = proc /\ found' = found
  BY DEF jobVars, procVars
<1>2. LockInv'
  BY <1>1 DEF IndInv, LockInv
<1>3. FoundInv'
  BY <1>1 DEF IndInv, FoundInv
<1>4. NamesInv'
  BY <1>1 DEF IndInv, NamesInv, NamesProved
<1>5. RecordVerified' /\ \A d \in trusted' : ctr'[d].state # "unused"
  BY <1>1 DEF IndInv, IndFrame, RecordVerified, KeepsId, TypeInv, StateOK
<1>6. KnownGoodKept'
  BY GoodH DEF IndFrame, KnownGoodKept, TypeInv, StateOK
<1>7. JobInv'
  <2> SUFFICES ASSUME NEW k \in Jobs PROVE JobInvOf(job[k])'
    BY DEF JobInv
  <2>1. JobInvOf(job[k]) /\ job[k].mc.cid \in CID
    BY LocalsFacts DEF IndInv, JobInv, TypeInv, StateOK, Record
  <2> QED
    BY <1>1, <2>1 DEF JobInvOf, IndInv, IndFrame, KeepsId, TypeInv, StateOK
<1> QED
  BY <1>2, <1>3, <1>4, <1>5, <1>6, <1>7 DEF IndInv, IndFrame

\* The user replaces whatever holds the name: what is parked stays parked.
LEMMA IndUserRecreate ==
    ASSUME IndInv, IndFrame, NEW c \in CID, NEW s \in Specs, UserRecreate(c, s)
    PROVE  IndInv'
<1> DEFINE t == RemoveC(ctr, Holder(ctr, "svc"))
           u == CreateC(t, c, "svc", localTag, s)
<1>1. /\ Holder(ctr', "svc") = {c} /\ Holder(ctr', "old") = Holder(ctr, "old")
      /\ c \notin Holder(ctr, "old") /\ ctr'[c].state # "unused"
  <2>1. ctr \in Table /\ ctr[c].state = "unused" /\ localTag \in Images
    BY DEF UserRecreate, IndInv, TypeInv, StateOK
  <2>2. t \in Table
    BY <2>1, TableRemove
  <2>3. Holder(t, "svc") = {} /\ Holder(t, "old") = Holder(ctr, "old")
    <3>1. \A n : Holder(t, n) = Holder(ctr, n) \ Holder(ctr, "svc")
      BY <2>1, RemoveH
    <3>2. Holder(ctr, "svc") \cap Holder(ctr, "old") = {}
      BY <2>1, ExistsH DEF Holder
    <3> QED
      BY <3>1, <3>2
  <2>4. t[c].state = "unused" /\ c \notin Holder(ctr, "old")
    BY <2>1 DEF RemoveC, Holder, Exists
  <2>5. u \in Table /\ Holder(u, "svc") = {c} /\ Holder(u, "old") = Holder(ctr, "old") /\ u[c].state = "created"
    BY <2>1, <2>2, <2>3, <2>4, CreateH, TableCreate
  <2>6. Exists(u, c)
    BY <2>5 DEF Exists
  <2>7. ctr' = StartC(u, c) /\ ctr' \in Table
    BY DEF UserRecreate, IndFrame, TypeInv, StateOK
  <2> HIDE DEF t, u
  <2>8. Holder(ctr', "svc") = {c} /\ Holder(ctr', "old") = Holder(ctr, "old")
    BY <2>5, <2>6, <2>7, StartH
  <2>9. ctr'[c].state # "unused"
    BY <2>7, <2>8, ExistsH
  <2> QED
    BY <2>4, <2>8, <2>9
<1> HIDE DEF t, u
<1> QED
  BY <1>1, IndMade DEF UserRecreate

\* The first state: one container holds the name, and it is trusted.
LEMMA IndInit == Init => IndInv
<1> SUFFICES ASSUME Init PROVE IndInv
  OBVIOUS
<1>1. TypeInv
  BY TypeInit
<1>2. PICK c \in CID, s \in Specs, st \in InitStates :
        /\ ctr = [d \in CID |-> [name |-> "svc", image |-> InitImage, spec |-> s,
                                 state |-> IF d = c THEN st ELSE "unused"]]
        /\ rec = [cid |-> c, spec |-> s]
        /\ trusted = {c}
        /\ job = [j \in Jobs |-> [pc |-> "idle", mc |-> rec, old |-> None,
                     seen |-> "unused", new |-> None, verdict |-> "none"]]
  BY DEF Init
<1>3. Holder(ctr, "svc") = {c} /\ Holder(ctr, "old") = {} /\ ctr[c].state # "unused"
      /\ ctr[c].spec = s
  BY <1>2, InitAssumption DEF Holder, Exists
<1>4. \A j \in Jobs : job[j].pc = "idle" /\ job[j].mc = rec /\ job[j].new = None
  BY <1>2
<1>5. proc = "serving" /\ lock = None
  BY DEF Init
<1>6. LockInv
  BY <1>4, <1>5, InitAssumption DEF LockInv, Quiescent
<1>7. JobInv
  BY <1>2, <1>3, <1>4 DEF JobInv, JobInvOf, Parked
<1>8. FoundInv /\ NamesInv
  BY <1>2, <1>3, <1>5 DEF FoundInv, NamesInv, NamesProved
<1>9. RecordVerified /\ KnownGoodKept /\ \A d \in trusted : ctr[d].state # "unused"
  BY <1>1, <1>2, <1>3, GoodH DEF RecordVerified, KnownGoodKept, TypeInv, StateOK
<1> QED
  BY <1>1, <1>6, <1>7, <1>8, <1>9 DEF IndInv

\* Every step keeps the invariant, if removing does not fail.
LEMMA IndStep == ASSUME Reliable PROVE IndInv /\ [Next]_vars => IndInv'
<1> SUFFICES ASSUME IndInv, [Next]_vars PROVE IndInv'
  OBVIOUS
<1>1. IndFrame
  <2>1. TypeInv' /\ KeepsId(ctr, ctr')
    BY TypeStep, KeepsStep DEF IndInv
  <2>2. ASSUME NEW j \in Jobs, Update(j) \/ JobStep(j) PROVE trusted \subseteq trusted'
    BY <2>2 DEF Update, JobStep, Lock, Inspect, Rely, Pull, ClearParked, Park, StopOld, Create,
       StartNew, Verify, DropOld, RecordNew, RollbackRemove, RollbackRename, RollbackStart,
       Unlock, FinishUpdateJob, Forget
  <2>3. ASSUME RecoverStep PROVE trusted \subseteq trusted'
    BY <2>3 DEF RecoverStep, RecoverPass, RecoverList, RecoverRename, RecoverStart, RecoverVerify, RecoverDrop,
       RecoverRollbackRemove, RecoverRollbackRename, RecoverRollbackStart, SettleJob, Serve
  <2>4. trusted \subseteq trusted'
    BY <2>2, <2>3 DEF Next, Crash, Restart, Publish, ContainerDrift, UserRecreate, Done, vars
  <2> QED
    BY <2>1, <2>4 DEF IndFrame
<1>2. ASSUME NEW j \in Jobs, Update(j) \/ JobStep(j) PROVE IndInv'
  BY <1>1, <1>2, IndUpdate, IndLock, IndInspect, IndPull, IndClearParked, IndPark, IndStopOld,
     IndCreate, IndStartNew, IndVerify, IndDropOld, IndRecordNew, IndRollbackRemove,
     IndRollbackRename, IndRollbackStart, IndUnlock DEF JobStep
<1>3. CASE Crash \/ Restart \/ RecoverStep
  BY <1>1, <1>3, IndProcess, IndRecoverList, IndRecoverRename, IndRecoverStart,
     IndRecoverVerify, IndRecoverDrop, IndRecoverRollbackRemove, IndRecoverRollbackRename,
     IndRecoverRollbackStart DEF RecoverStep
<1>4. CASE Publish
  BY <1>1, <1>4, IndNames DEF Publish
<1>5. ASSUME NEW c \in CID, ContainerDrift(c) PROVE IndInv'
  <2>1. PICK s \in Drift(ctr[c].image, ctr[c].state) : ctr' = SetState(ctr, c, s)
    BY <1>5 DEF ContainerDrift
  <2>2. s \in States \ {"unused", "removed"} /\ Exists(ctr, c) /\ ctr \in Table
    BY DriftStates DEF Exists, Up, IndInv, TypeInv, StateOK
  <2>3. \A n : Holder(ctr', n) = Holder(ctr, n)
    BY <2>1, <2>2, SetStateH
  <2> QED
    BY <1>1, <1>5, <2>3, IndNames DEF ContainerDrift
<1>6. ASSUME NEW c \in CID, NEW s \in Specs, UserRecreate(c, s) PROVE IndInv'
  BY <1>1, <1>6, IndUserRecreate
<1>7. CASE UNCHANGED vars
  BY <1>1, <1>7, IndNames DEF vars, jobVars, procVars
<1> QED
  BY <1>2, <1>3, <1>4, <1>5, <1>6, <1>7 DEF Next, Done

\* The inductive invariant holds in every reachable state, provided that removing
\* containers does not fail: at each step of an update and of Recover
\* the two names, the locals and the stored record agree on what is known good.
THEOREM Invariance == Reliable => (Spec => []IndInv)
<1> SUFFICES ASSUME Reliable PROVE Spec => []IndInv
  OBVIOUS
<1>1. IndInv /\ [Next]_vars => IndInv'
  BY IndStep
<1> QED
  BY <1>1, IndInit, PTL DEF Spec

\* If removing containers does not fail, an update never destroys the last
\* container that is known to work, wherever Veery crashes and whatever else fails
\* or interleaves. The exception is in trusted: a replacement that Recover passed
\* over counts once an update or the sweep has taken it for the service's own.
THEOREM KnownGood == Reliable => (Spec => []KnownGoodKept)
<1>1. IndInv => KnownGoodKept
  BY DEF IndInv
<1> QED
  BY <1>1, Invariance, PTL

\* Under the same assumption, whoever answers to the service's name while no
\* update is in flight is trusted, unless the last Recover passed it over.
THEOREM NameIsVerified == Reliable => (Spec => []NameHeldByVerified)
<1>1. IndInv => NameHeldByVerified
  BY InitAssumption DEF IndInv, NameHeldByVerified, NamesInv, NamesProved, Unsettled, Tentative, LockInv, Quiescent
<1> QED
  BY <1>1, Invariance, PTL

\* Under the same assumption, the stored record is a trusted container's.
THEOREM RecordIsVerified == Reliable => (Spec => []RecordVerified)
<1>1. IndInv => RecordVerified
  BY DEF IndInv
<1> QED
  BY <1>1, Invariance, PTL

\* Under the same assumption, an update keeps the spec of the container it replaces.
THEOREM SpecIsKept == Reliable => (Spec => []UpdateKeepsSpec)
<1>1. IndInv => UpdateKeepsSpec
  BY DEF IndInv, JobInv, JobInvOf, UpdateKeepsSpec
<1> QED
  BY <1>1, Invariance, PTL

-----------------------------------------------------------------------------
(* Update implements Swap. *)

Svc == Holder(ctr, "svc")
Old == Holder(ctr, "old")

-----------------------------------------------------------------------------
(* What a step does to the two names.                                      *)

SameTrust == trusted' = trusted /\ taken' = taken

Stays == Svc' = Svc /\ Old' = Old /\ SameTrust
\* Parked containers are dropped while a trusted one has the name.
Drops == Proved # {} /\ Svc' = Svc /\ Old' \subseteq Old /\ SameTrust
\* The trusted holder of the name is parked, or a parked container gets the name back.
Parks(c) == c \in Proved /\ Old = {} /\ Svc' = Svc \ {c} /\ Old' = {c} /\ SameTrust
Unparks(c) == c \in Old /\ Svc = {} /\ Svc' = {c} /\ Old' = Old \ {c} /\ SameTrust
\* A replacement is created beside a parked container, comes up, or is removed.
Creates(c) == /\ c \notin trusted /\ Svc = {} /\ Svc' = {c} /\ Old' = Old /\ SameTrust
              /\ \A d \in Old : ctr'[c].spec = ctr[d].spec
ComesUp(c) == /\ c \in Svc /\ Old # {} /\ Svc' = Svc /\ Old' = Old
              /\ trusted' = trusted \cup {c} /\ taken' = taken
Removes(c) == Old # {} /\ Svc' = Svc \ {c} /\ Old' = Old /\ SameTrust
\* One that Recover passed over is taken for the service's own.
TakesOver(c) == /\ c \in Svc \ trusted /\ Old # {} /\ Svc' = Svc /\ Old' = Old
                /\ trusted' = trusted \cup {c} /\ taken' = taken \cup {c}
\* The user makes the container anew.
Recreates(c, s) == /\ c \notin trusted /\ Svc' = {c} /\ Old' = Old
                   /\ trusted' = trusted \cup {c} /\ taken' = taken
                   /\ ctr'[c].spec = s

Effect ==
    \/ Stays \/ Drops
    \/ \E c \in CID : \/ Parks(c) \/ Unparks(c) \/ Creates(c) \/ ComesUp(c) \/ Removes(c)
                      \/ TakesOver(c)
                      \/ \E s \in Specs : Recreates(c, s)

\* Without a replacement in the making, whoever has the name is trusted.
LEMMA NoTentative ==
    ASSUME NamesProved, Svc # {}, proc \notin {"verify", "rbremove"},
           \A k \in Jobs : job[k].pc \notin {"start", "verify", "rbremove"}
    PROVE  Proved # {}
  BY DEF NamesProved, Tentative, Proved, Svc

\* The steps of an update, up to the replacement's creation.
LEMMA SwapEffects ==
    ASSUME SwapInv, Reliable, NEW j \in Jobs,
           ClearParked(j) \/ Park(j) \/ StopOld(j) \/ Create(j) \/ StartNew(j)
    PROVE  Effect
<1>0. /\ IndInv /\ ctr \in Table /\ JobInvOf(job[j]) /\ job[j] \in Locals
      /\ localTag \in Images
  BY DEF SwapInv, IndInv, TypeInv, StateOK, JobInv
<1>1. CASE ClearParked(j)
  <2>1. /\ proc = "serving" /\ job[j].pc = "clear"
        /\ \A k \in Jobs \ {j} : job[k].pc \in Quiescent
    BY <1>0, <1>1, Alone DEF ClearParked, At, Quiescent
  <2>2. Proved # {}
    BY <1>0, <2>1, AtWork, NoTentative DEF JobInvOf, Quiescent, Svc, Body
  <2>3. ctr' = RemoveC(ctr, Old) /\ SameTrust
    BY <1>1 DEF ClearParked, Reliable, MayFail, Old, SameTrust
  <2>4. Svc' = Svc \ Old /\ Old' = Old \ Old
    BY <1>0, <2>3, RemoveH DEF Svc, Old
  <2>5. Svc \cap Old = {}
    BY <1>0, ExistsH DEF Svc, Old, Holder
  <2>6. Drops
    BY <2>2, <2>3, <2>4, <2>5 DEF Drops, SameTrust
  <2> QED
    BY <2>6 DEF Effect
<1>2. CASE Park(j)
  <2>1. CASE ctr' = ctr
    BY <1>2, <2>1 DEF Park, Effect, Stays, SameTrust, Svc, Old
  <2>2. CASE CanRename(job[j].old, "old") /\ ctr' = RenameC(ctr, job[j].old, "old")
    <3>1. PICK c \in CID : c = job[j].old
      BY <1>0, <1>2 DEF JobInvOf, Park, At, SwapInv, IndInv, TypeInv, StateOK
    <3>2. Exists(ctr, c) /\ Old = {} /\ c \in trusted
      BY <1>0, <1>2, <2>2, <3>1 DEF CanRename, Old, JobInvOf, Park, At
    <3>3. c \in Svc
      BY <1>0, <3>2, ExistsH DEF Old, Svc
    <3>4. Svc' = Svc \ {c} /\ Old' = {c}
      BY <1>0, <2>2, <3>1, <3>2, RenameH DEF Svc, Old, Names
    <3>5. Parks(c)
      BY <1>2, <3>2, <3>3, <3>4 DEF Parks, SameTrust, Proved, Svc, Park
    <3> QED
      BY <3>5 DEF Effect
  <2> QED
    BY <1>2, <2>1, <2>2 DEF Park
<1>3. CASE StopOld(j)
  <2>1. CASE ctr' = ctr
    BY <1>3, <2>1 DEF StopOld, Effect, Stays, SameTrust, Svc, Old
  <2>2. CASE Exists(ctr, job[j].old) /\ ctr' = SetState(ctr, job[j].old, "stopped")
    <3>1. job[j].old \in CID
      BY <1>0, <1>3 DEF JobInvOf, StopOld, At, Parked, Holder
    <3>2. Svc' = Svc /\ Old' = Old
      BY <1>0, <2>2, <3>1, SetStateH DEF Svc, Old, States, Up
    <3> QED
      BY <1>3, <3>2 DEF StopOld, Effect, Stays, SameTrust
  <2> QED
    BY <1>3, <2>1, <2>2 DEF StopOld
<1>4. CASE Create(j)
  <2>1. CASE ctr' = ctr
    BY <1>4, <2>1 DEF Create, Effect, Stays, SameTrust, Svc, Old
  <2>2. ASSUME Svc = {}, NEW c \in Fresh, ctr' = CreateC(ctr, c, "svc", localTag, job[j].mc.spec)
        PROVE  Effect
    <3>1. c \in CID /\ ctr[c].state = "unused" /\ job[j].mc.spec \in Specs /\ c \notin trusted
      BY <1>0, <2>2 DEF Fresh, Locals, Record, IndInv
    <3>2. Svc' = {c} /\ Old' = Old /\ ctr'[c].spec = job[j].mc.spec
      BY <1>0, <2>2, <3>1, CreateH DEF Svc, Old
    <3>3. job[j].mc.spec = ctr[job[j].old].spec /\ job[j].old \in Old
      BY <1>0, <1>4 DEF Create, At, JobInvOf, Parked, Old
    <3>4. \A d \in Old : d = job[j].old
      BY <3>3 DEF SwapInv, Old
    <3>5. Creates(c)
      BY <1>4, <2>2, <3>1, <3>2, <3>3, <3>4 DEF Create, Creates, SameTrust
    <3> QED
      BY <3>1, <3>5 DEF Effect
  <2> QED
    BY <1>4, <2>1, <2>2 DEF Create, Svc
<1>5. CASE StartNew(j)
  <2>1. CASE ctr' = ctr
    BY <1>5, <2>1 DEF StartNew, Effect, Stays, SameTrust, Svc, Old
  <2>2. CASE Exists(ctr, job[j].new) /\ ctr' = StartC(ctr, job[j].new)
    <3>1. job[j].new \in CID
      BY <1>0, <1>5 DEF JobInvOf, StartNew, At
    <3>2. Svc' = Svc /\ Old' = Old
      BY <1>0, <2>2, <3>1, StartH DEF Svc, Old
    <3> QED
      BY <1>5, <3>2 DEF StartNew, Effect, Stays, SameTrust
  <2> QED
    BY <1>5, <2>1, <2>2 DEF StartNew
<1> QED
  BY <1>1, <1>2, <1>3, <1>4, <1>5

\* The rest of an update: verify, drop the parked container, or roll back.
LEMMA OutcomeEffects ==
    ASSUME SwapInv, Reliable, NEW j \in Jobs,
           Verify(j) \/ DropOld(j) \/ RollbackRemove(j) \/ RollbackRename(j) \/ RollbackStart(j)
    PROVE  Effect
<1>0. /\ IndInv /\ ctr \in Table /\ JobInvOf(job[j]) /\ job[j] \in Locals
  BY DEF SwapInv, IndInv, TypeInv, StateOK, JobInv
<1>1. CASE Verify(j)
  <2>1. CASE trusted' = trusted
    BY <1>1, <2>1 DEF Verify, Effect, Stays, SameTrust, Svc, Old, dockerVars
  <2>2. CASE Exists(ctr, job[j].new) /\ trusted' = trusted \cup {job[j].new}
    <3>1. job[j].new \in CID /\ job[j].new \notin Old /\ Old # {}
      BY <1>0, <1>1 DEF Verify, At, JobInvOf, Parked, Old
    <3>2. job[j].new \in Svc
      BY <1>0, <2>2, <3>1, ExistsH DEF Svc, Old
    <3>3. ComesUp(job[j].new)
      BY <1>1, <2>2, <3>1, <3>2 DEF ComesUp, Verify, Svc, Old, dockerVars
    <3> QED
      BY <3>1, <3>3 DEF Effect
  <2> QED
    BY <1>1, <2>1, <2>2 DEF Verify, PollOk
<1>2. CASE DropOld(j)
  <2>1. /\ proc = "serving" /\ job[j].pc = "drop"
        /\ \A k \in Jobs \ {j} : job[k].pc \in Quiescent
    BY <1>0, <1>2, Alone DEF DropOld, At, Quiescent
  <2>2. Proved # {}
    BY <1>0, <2>1, AtWork, NoTentative DEF JobInvOf, Quiescent, Svc, Body
  <2>3. ctr' = RemoveC(ctr, {job[j].old}) /\ SameTrust
    BY <1>2 DEF DropOld, Reliable, MayFail, SameTrust
  <2>4. Svc' = Svc \ {job[j].old} /\ Old' = Old \ {job[j].old}
    BY <1>0, <2>3, RemoveH DEF Svc, Old
  <2>5. job[j].old \notin Svc
    BY <1>0, <2>1, ExistsH DEF Svc, JobInvOf, Parked, Holder
  <2>6. Drops
    BY <2>2, <2>3, <2>4, <2>5 DEF Drops, SameTrust
  <2> QED
    BY <2>6 DEF Effect
<1>3. CASE RollbackRemove(j)
  <2>1. Old # {} /\ job[j].old \in Old /\ job[j].new # job[j].old
    BY <1>0, <1>3 DEF RollbackRemove, At, JobInvOf, Parked, Old
  <2>2. ctr' = RemoveC(ctr, {job[j].new} \cap CID) /\ SameTrust
    BY <1>3 DEF RollbackRemove, Reliable, MayFail, SameTrust
  <2>3. Svc' = Svc \ ({job[j].new} \cap CID) /\ Old' = Old \ ({job[j].new} \cap CID)
    BY <1>0, <2>2, RemoveH DEF Svc, Old
  <2>4. CASE job[j].new \in CID
    <3>1. job[j].new \notin Old
      BY <2>1 DEF SwapInv, Old
    <3>2. Removes(job[j].new)
      BY <2>1, <2>2, <2>3, <2>4, <3>1 DEF Removes, SameTrust
    <3> QED
      BY <2>4, <3>2 DEF Effect
  <2>5. CASE job[j].new \notin CID
    BY <2>2, <2>3, <2>5 DEF Effect, Stays, SameTrust
  <2> QED
    BY <2>4, <2>5
<1>4. CASE RollbackRename(j)
  <2>1. CASE ctr' = ctr
    BY <1>4, <2>1 DEF RollbackRename, Effect, Stays, SameTrust, Svc, Old
  <2>2. CASE CanRename(job[j].old, "svc") /\ ctr' = RenameC(ctr, job[j].old, "svc")
    <3>1. job[j].old \in Old /\ job[j].old \in CID
      BY <1>0, <1>4 DEF RollbackRename, At, JobInvOf, Parked, Old, Holder
    <3>2. Svc = {} /\ Svc' = {job[j].old} /\ Old' = Old \ {job[j].old}
      BY <1>0, <2>2, <3>1, RenameH DEF CanRename, Svc, Old, Names
    <3>3. Unparks(job[j].old)
      BY <1>4, <3>1, <3>2 DEF Unparks, SameTrust, RollbackRename
    <3> QED
      BY <3>1, <3>3 DEF Effect
  <2> QED
    BY <1>4, <2>1, <2>2 DEF RollbackRename
<1>5. CASE RollbackStart(j)
  <2>1. CASE ctr' = ctr
    BY <1>5, <2>1 DEF RollbackStart, Effect, Stays, SameTrust, Svc, Old
  <2>2. CASE Exists(ctr, job[j].old) /\ ctr' = StartC(ctr, job[j].old)
    <3>1. job[j].old \in CID
      BY <1>0, <1>5 DEF JobInvOf, RollbackStart, At, IndInv, TypeInv, StateOK
    <3>2. Svc' = Svc /\ Old' = Old
      BY <1>0, <2>2, <3>1, StartH DEF Svc, Old
    <3> QED
      BY <1>5, <3>2 DEF RollbackStart, Effect, Stays, SameTrust
  <2> QED
    BY <1>5, <2>1, <2>2 DEF RollbackStart
<1> QED
  BY <1>1, <1>2, <1>3, <1>4, <1>5

\* The steps of Recover do the same to what it found.
LEMMA RecoverEffects ==
    ASSUME SwapInv, Reliable, RecoverStep
    PROVE  Effect
<1>0. /\ IndInv /\ ctr \in Table /\ FoundInv
  BY DEF SwapInv, IndInv, TypeInv, StateOK
<1>1. ASSUME UNCHANGED <<ctr, trusted, taken>> PROVE Effect
  BY <1>1 DEF Effect, Stays, SameTrust, Svc, Old
<1>2. CASE RecoverRename \/ RecoverRollbackRename
  <2>1. CASE ctr' = ctr
    BY <1>1, <1>2, <2>1 DEF RecoverRename, RecoverRollbackRename, recoverFrame
  <2>2. CASE CanRename(found.parked, "svc") /\ ctr' = RenameC(ctr, found.parked, "svc")
    <3>1. found.parked \in Old /\ found.parked \in CID
      BY <1>0, <1>2 DEF RecoverRename, RecoverRollbackRename, FoundInv, Old, Holder
    <3>2. Svc = {} /\ Svc' = {found.parked} /\ Old' = Old \ {found.parked}
      BY <1>0, <2>2, <3>1, RenameH DEF CanRename, Svc, Old, Names
    <3>3. Unparks(found.parked)
      BY <1>2, <3>1, <3>2 DEF Unparks, SameTrust, RecoverRename, RecoverRollbackRename, recoverFrame
    <3> QED
      BY <3>1, <3>3 DEF Effect
  <2> QED
    BY <1>2, <2>1, <2>2 DEF RecoverRename, RecoverRollbackRename, recoverFrame
<1>3. CASE RecoverStart \/ RecoverRollbackStart
  <2>1. CASE ctr' = ctr
    BY <1>1, <1>3, <2>1 DEF RecoverStart, RecoverRollbackStart, recoverFrame
  <2>2. CASE Exists(ctr, found.parked) /\ ctr' = StartC(ctr, found.parked)
    <3>1. found.parked \in CID
      BY <1>0, <1>3 DEF RecoverStart, RecoverRollbackStart, FoundInv
    <3>2. Svc' = Svc /\ Old' = Old
      BY <1>0, <2>2, <3>1, StartH DEF Svc, Old
    <3> QED
      BY <1>3, <3>2 DEF RecoverStart, RecoverRollbackStart, recoverFrame, Effect, Stays, SameTrust
  <2> QED
    BY <1>3, <2>1, <2>2 DEF RecoverStart, RecoverRollbackStart, recoverFrame
<1>4. CASE RecoverVerify
  <2>1. CASE trusted' = trusted
    BY <1>1, <1>4, <2>1 DEF RecoverVerify, recoverFrame
  <2>2. CASE Exists(ctr, found.fresh) /\ trusted' = trusted \cup {found.fresh}
    <3>1. found.fresh \in CID /\ found.fresh \notin Old /\ Old # {}
      BY <1>0, <1>4 DEF RecoverVerify, FoundInv, Old
    <3>2. found.fresh \in Svc
      BY <1>0, <2>2, <3>1, ExistsH DEF Svc, Old
    <3>3. ComesUp(found.fresh)
      BY <1>4, <2>2, <3>1, <3>2 DEF ComesUp, RecoverVerify, recoverFrame, Svc, Old
    <3> QED
      BY <3>1, <3>3 DEF Effect
  <2> QED
    BY <1>4, <2>1, <2>2 DEF RecoverVerify, PollOk
<1>5. CASE RecoverDrop
  <2>1. proc = "drop" /\ Svc # {} /\ found.parked \in Old
    BY <1>0, <1>5 DEF RecoverDrop, FoundInv, Svc, Old
  <2>2. Proved # {}
    <3>1. NamesProved
      BY <1>0, <2>1 DEF IndInv, NamesInv, Unsettled
    <3> QED
      BY <1>0, <2>1, <3>1, NoTentative DEF IndInv, LockInv
  <2>3. ctr' = RemoveC(ctr, {found.parked}) /\ SameTrust
    BY <1>5 DEF RecoverDrop, Reliable, MayFail, SameTrust, recoverFrame
  <2>4. Svc' = Svc \ {found.parked} /\ Old' = Old \ {found.parked}
    BY <1>0, <2>3, RemoveH DEF Svc, Old
  <2>5. found.parked \notin Svc
    BY <1>0, <2>1, ExistsH DEF Svc, Old, Holder
  <2>6. Drops
    BY <2>2, <2>3, <2>4, <2>5 DEF Drops, SameTrust
  <2> QED
    BY <2>6 DEF Effect
<1>6. CASE RecoverRollbackRemove
  <2>1. found.fresh \in CID /\ found.fresh \notin Old /\ Old # {}
    BY <1>0, <1>6 DEF RecoverRollbackRemove, FoundInv, Old
  <2>2. ctr' = RemoveC(ctr, {found.fresh}) /\ SameTrust
    BY <1>6 DEF RecoverRollbackRemove, Reliable, MayFail, SameTrust, recoverFrame
  <2>3. Svc' = Svc \ {found.fresh} /\ Old' = Old \ {found.fresh}
    BY <1>0, <2>2, RemoveH DEF Svc, Old
  <2>4. Removes(found.fresh)
    BY <2>1, <2>2, <2>3 DEF Removes, SameTrust
  <2> QED
    BY <2>1, <2>4 DEF Effect
<1>7. CASE RecoverPass \/ RecoverList \/ (\E j \in Jobs : SettleJob(j)) \/ Serve
  BY <1>1, <1>7 DEF RecoverPass, RecoverList, SettleJob, Serve, recoverFrame
<1> QED
  BY <1>2, <1>3, <1>4, <1>5, <1>6, <1>7 DEF RecoverStep

\* The user's recreation takes the name from whoever has it.
LEMMA RecreateEffect ==
    ASSUME SwapInv, NEW c \in CID, NEW s \in Specs, UserRecreate(c, s)
    PROVE  Recreates(c, s)
<1> DEFINE t == RemoveC(ctr, Holder(ctr, "svc"))
           u == CreateC(t, c, "svc", localTag, s)
<1>1. ctr \in Table /\ ctr[c].state = "unused" /\ localTag \in Images /\ c \notin trusted
  BY DEF UserRecreate, SwapInv, IndInv, TypeInv, StateOK
<1>2. t \in Table /\ t[c].state = "unused"
  BY <1>1, TableRemove DEF RemoveC, Holder, Exists
<1>3. Holder(t, "svc") = {} /\ Holder(t, "old") = Old
  <2>1. \A n : Holder(t, n) = Holder(ctr, n) \ Holder(ctr, "svc")
    BY <1>1, RemoveH
  <2>2. Holder(ctr, "svc") \cap Holder(ctr, "old") = {}
    BY <1>1, ExistsH DEF Holder
  <2> QED
    BY <2>1, <2>2 DEF Old
<1>4. /\ u \in Table /\ Holder(u, "svc") = {c} /\ Holder(u, "old") = Old
      /\ u[c].state = "created" /\ u[c].spec = s
  BY <1>1, <1>2, <1>3, CreateH, TableCreate
<1>5. Exists(u, c) /\ ctr' = StartC(u, c)
  BY <1>4 DEF Exists, UserRecreate
<1> HIDE DEF t, u
<1>6. Holder(ctr', "svc") = {c} /\ Holder(ctr', "old") = Old
  BY <1>4, <1>5, StartH
<1>7. ctr'[c].spec = s
  BY <1>4, <1>5 DEF StartC, SetState, Table, Container
<1> QED
  BY <1>1, <1>6, <1>7 DEF Recreates, Svc, Old, UserRecreate

\* Every step has one of the effects.
LEMMA StepEffect ==
    ASSUME SwapInv, Reliable, [Next]_vars
    PROVE  Effect
<1>1. ASSUME UNCHANGED <<ctr, trusted, taken>> PROVE Effect
  BY <1>1 DEF Effect, Stays, SameTrust, Svc, Old
<1>2. ASSUME NEW j \in Jobs, Update(j) \/ JobStep(j) PROVE Effect
  <2>0. CASE Inspect(j)
    <3>1. CASE UNCHANGED <<trusted, taken>>
      BY <1>1, <2>0, <3>1 DEF Inspect, dockerVars
    <3>2. CASE passed /\ \E c \in Svc : trusted' = trusted \cup {c} /\ taken' = taken \cup ({c} \ trusted)
      <4>1. PICK c \in Svc : trusted' = trusted \cup {c} /\ taken' = taken \cup ({c} \ trusted)
        BY <3>2
      <4>2. UNCHANGED ctr
        BY <2>0 DEF Inspect, dockerVars
      <4>3. CASE c \in trusted
        BY <1>1, <4>1, <4>2, <4>3
      <4>4. CASE c \notin trusted
        <5>1. /\ proc = "serving" /\ job[j].pc = "inspect"
              /\ \A k \in Jobs \ {j} : job[k].pc \in Quiescent
          BY <2>0, Alone DEF Inspect, At, Quiescent, SwapInv
        <5>2. ~NamesProved
          BY <4>4, <5>1 DEF NamesProved, Tentative, Svc, Quiescent
        <5>3. Old # {}
          BY <5>2 DEF SwapInv, IndInv, NamesInv, Old
        <5>4. c \in CID /\ TakesOver(c)
          BY <4>1, <4>2, <4>4, <5>3 DEF TakesOver, Svc, Old, Holder
        <5> QED
          BY <5>4 DEF Effect
      <4> QED
        BY <4>3, <4>4
    <3> QED
      BY <2>0, <3>1, <3>2 DEF Inspect, Rely, Svc
  <2>1. CASE Update(j) \/ Lock(j) \/ Pull(j) \/ RecordNew(j) \/ Unlock(j)
             \/ FinishUpdateJob(j) \/ Forget(j)
    BY <1>1, <2>1 DEF Update, Lock, Pull, RecordNew, Unlock, FinishUpdateJob, Forget,
                      dockerVars
  <2> QED
    BY <1>2, <2>0, <2>1, SwapEffects, OutcomeEffects DEF JobStep
<1>3. ASSUME NEW c \in CID, ContainerDrift(c) PROVE Effect
  <2>1. PICK s \in Drift(ctr[c].image, ctr[c].state) : ctr' = SetState(ctr, c, s)
    BY <1>3 DEF ContainerDrift
  <2>2. s \in States \ {"unused", "removed"} /\ Exists(ctr, c) /\ ctr \in Table
    BY DriftStates DEF Exists, Up, SwapInv, IndInv, TypeInv, StateOK
  <2>3. Svc' = Svc /\ Old' = Old
    BY <2>1, <2>2, SetStateH DEF Svc, Old
  <2> QED
    BY <1>3, <2>3 DEF ContainerDrift, Effect, Stays, SameTrust
<1>4. ASSUME NEW c \in CID, NEW s \in Specs, UserRecreate(c, s) PROVE Effect
  BY <1>4, RecreateEffect DEF Effect
<1>5. CASE Crash \/ Restart \/ Publish \/ Done \/ UNCHANGED vars
  BY <1>1, <1>5 DEF Crash, Restart, Publish, Done, vars, dockerVars
<1> QED
  BY <1>2, <1>3, <1>4, <1>5, RecoverEffects DEF Next

-----------------------------------------------------------------------------
(* The invariant.                                                          *)

\* Initially one container has the name and nothing is parked.
LEMMA SwapInit == Init => SwapInv
<1> SUFFICES ASSUME Init PROVE SwapInv
  OBVIOUS
<1>0. PICK c \in CID, s \in Specs, st \in InitStates :
        ctr = [d \in CID |-> [name |-> "svc", image |-> InitImage, spec |-> s,
                              state |-> IF d = c THEN st ELSE "unused"]]
  BY DEF Init
<1>1. \A d \in CID : ctr[d].name = "svc"
  BY <1>0
<1>2. Holder(ctr, "old") = {}
  BY <1>1 DEF Holder
<1> QED
  BY <1>2, IndInit DEF SwapInv

\* A container is parked only when none is, and a replacement is created from the spec
\* of the parked one.
LEMMA EffectKeeps ==
    ASSUME SwapInv, IndInv', KeepsId(ctr, ctr'), Effect PROVE SwapInv'
<1>1. /\ \A c, d \in Old : c = d
      /\ \A c, d \in Svc : c = d
      /\ \A c \in Svc \ trusted, d \in Old : ctr[c].spec = ctr[d].spec
      /\ Old \subseteq trusted
  BY DEF SwapInv, IndInv, NamesInv, Svc, Old
<1>2. \A c \in Svc \cup Old : ctr'[c].spec = ctr[c].spec
  BY DEF KeepsId, Svc, Old, Holder, Exists
<1>3. /\ \A c, d \in Old' : c = d
      /\ \A c \in Svc' \ trusted', d \in Old' : ctr'[c].spec = ctr'[d].spec
  <2>1. CASE Stays \/ Drops
    BY <1>1, <1>2, <2>1 DEF Stays, SameTrust, Drops, SameTrust
  <2>2. ASSUME NEW c \in CID,
               \/ Parks(c) \/ Unparks(c) \/ Creates(c) \/ ComesUp(c) \/ Removes(c)
               \/ TakesOver(c)
               \/ \E s \in Specs : Recreates(c, s)
        PROVE  /\ \A a, d \in Old' : a = d
               /\ \A a \in Svc' \ trusted', d \in Old' : ctr'[a].spec = ctr'[d].spec
    <3>1. CASE Parks(c)
      BY <1>1, <1>2, <3>1 DEF Parks, SameTrust, Proved, Svc
    <3>2. CASE Unparks(c)
      BY <1>1, <1>2, <3>2 DEF Unparks, SameTrust
    <3>3. CASE Creates(c)
      BY <1>1, <1>2, <3>3 DEF Creates, SameTrust
    <3>4. CASE ComesUp(c)
      BY <1>1, <1>2, <3>4 DEF ComesUp
    <3>5. CASE Removes(c)
      BY <1>1, <1>2, <3>5 DEF Removes, SameTrust
    <3>6. ASSUME NEW s \in Specs, Recreates(c, s)
          PROVE  /\ \A a, d \in Old' : a = d
                 /\ \A a \in Svc' \ trusted', d \in Old' : ctr'[a].spec = ctr'[d].spec
      BY <1>1, <1>2, <3>6 DEF Recreates
    <3>7. CASE TakesOver(c)
      BY <1>1, <1>2, <3>7 DEF TakesOver
    <3> QED
      BY <2>2, <3>1, <3>2, <3>3, <3>4, <3>5, <3>6, <3>7
  <2> QED
    BY <2>1, <2>2 DEF Effect
<1> QED
  BY <1>3 DEF SwapInv, Svc, Old

\* Every step keeps that, if removing does not fail.
LEMMA SwapInvStep == ASSUME Reliable PROVE SwapInv /\ [Next]_vars => SwapInv'
  BY IndStep, KeepsStep, StepEffect, EffectKeeps DEF SwapInv, IndInv

-----------------------------------------------------------------------------
(* The steps of Swap.                                                      *)

\* The member of a set that has one.
LEMMA TheOne == The({}) = None /\ \A c : The({c}) = c
  BY DEF The

\* The two values Swap sees, from who holds the names.
LEMMA CurProved ==
    ASSUME NEW c, Proved = {c}
    PROVE  Cur = c /\ Fallback = The(Old)
  BY TheOne DEF Cur, Fallback, Old

LEMMA CurParked ==
    ASSUME NEW d, Proved = {}, Old = {d}
    PROVE  Cur = d /\ Fallback = None
  BY TheOne DEF Cur, Fallback, Old

\* The same after a step.
LEMMA CurProvedNext ==
    ASSUME NEW c, Proved' = {c}
    PROVE  Cur' = c /\ Fallback' = The(Old')
  BY TheOne DEF Cur, Fallback, Old

LEMMA CurParkedNext ==
    ASSUME NEW d, Proved' = {}, Old' = {d}
    PROVE  Cur' = d /\ Fallback' = None
  BY TheOne DEF Cur, Fallback, Old

\* Neither value changes while the holders stay.
LEMMA CurStays ==
    ASSUME Proved' = Proved, Old' = Old
    PROVE  Cur' = Cur /\ Fallback' = Fallback
  BY DEF Cur, Fallback, Old

\* At most one trusted container has the name, at most one is parked, and there is
\* one of the two.
LEMMA TwoHolders ==
    ASSUME SwapInv
    PROVE  /\ Proved \subseteq CID /\ Old \subseteq CID /\ Proved \cap Old = {}
           /\ Proved \subseteq trusted /\ Old \subseteq trusted
           /\ Proved = {} \/ \E c \in CID : Proved = {c}
           /\ Old = {} \/ \E d \in CID : Old = {d}
           /\ Proved # {} \/ Old # {}
           /\ \A c \in Proved \cup Old : ctr[c].state # "unused"
<1>1. ctr \in Table /\ trusted \subseteq CID
  BY DEF SwapInv, IndInv, TypeInv, StateOK
<1>2. /\ Proved \subseteq CID /\ Old \subseteq CID /\ Proved \subseteq trusted
      /\ \A c, d \in Proved : c = d
      /\ \A c, d \in Old : c = d
      /\ Old \subseteq trusted
  BY DEF Proved, Old, Holder, SwapInv, IndInv, NamesInv
<1>3. Proved \cap Old = {} /\ \A c \in Proved \cup Old : ctr[c].state # "unused"
  BY <1>1, ExistsH DEF Proved, Old, Holder
<1>4. Proved # {} \/ Old # {}
  BY <1>1, GoodH DEF SwapInv, IndInv, KnownGoodKept, Proved, Old
<1>5. Proved = {} \/ \E c \in CID : Proved = {c}
  BY <1>2
<1>6. Old = {} \/ \E d \in CID : Old = {d}
  BY <1>2
<1> QED
  BY <1>2, <1>3, <1>4, <1>5, <1>6

\* A step that leaves both values and the trusted containers alone is none of Swap's.
LEMMA Stutter ==
    ASSUME SwapInv, KeepsId(ctr, ctr'), Cur' = Cur, Fallback' = Fallback, SameTrust
    PROVE  UNCHANGED Abstract!swapVars
<1>1. /\ Cur \in Proved \cup Old
      /\ Fallback \in Proved \cup Old \cup {None}
  <2>1. ASSUME NEW c \in CID, Proved = {c}
        PROVE  Cur \in Proved \cup Old /\ Fallback \in Proved \cup Old \cup {None}
    <3>1. Cur = c /\ Fallback = The(Old)
      BY <2>1, CurProved
    <3>2. The(Old) \in Old \cup {None}
      BY TwoHolders, TheOne
    <3> QED
      BY <2>1, <3>1, <3>2
  <2>2. ASSUME NEW d \in CID, Proved = {}, Old = {d}
        PROVE  Cur \in Proved \cup Old /\ Fallback \in Proved \cup Old \cup {None}
    <3>1. Cur = d /\ Fallback = None
      BY <2>2, CurParked
    <3> QED
      BY <2>2, <3>1
  <2> QED
    BY <2>1, <2>2, TwoHolders
<1>2. \A c \in Proved \cup Old : ctr'[c].spec = ctr[c].spec
  BY TwoHolders DEF KeepsId
<1>3. SpecOf(Cur)' = SpecOf(Cur) /\ SpecOf(Fallback)' = SpecOf(Fallback)
  BY <1>1, <1>2 DEF SpecOf
<1> QED
  BY <1>3 DEF Abstract!swapVars, SameTrust

\* Each effect is a step of Swap, or none.
LEMMA EffectMaps ==
    ASSUME SwapInv, SwapInv', KeepsId(ctr, ctr'), Effect
    PROVE  [Abstract!Next]_(Abstract!swapVars)
<1> USE NoneAssumption
<1>0. /\ \A c \in Proved \cup Old : ctr'[c].spec = ctr[c].spec
      /\ \A c \in Proved \cup Old : c # None /\ c \in CID
  BY TwoHolders DEF KeepsId
<1>1. CASE Stays
  <2>1. Proved' = Proved /\ Old' = Old
    BY <1>1 DEF Stays, SameTrust, Proved, Svc
  <2>2. Cur' = Cur /\ Fallback' = Fallback
    BY <2>1, CurStays
  <2> QED
    BY <1>1, <2>2, Stutter DEF Stays, SameTrust
<1>2. CASE Drops
  <2>1. PICK c \in CID : Proved = {c} /\ Proved' = {c}
    BY <1>2, TwoHolders DEF Drops, SameTrust, Proved, Svc
  <2>2. CASE Old' = Old
    <3>1. Cur' = Cur /\ Fallback' = Fallback
      BY <2>1, <2>2, CurStays
    <3> QED
      BY <1>2, <3>1, Stutter DEF Drops, SameTrust
  <2>3. CASE Old' # Old
    <3>1. PICK d \in CID : Old = {d} /\ Old' = {}
      BY <1>2, <2>3, TwoHolders DEF Drops, SameTrust
    <3>2. /\ Cur = c /\ Fallback = d /\ Cur' = c /\ Fallback' = None
          /\ c # None /\ d # None
      <4>1. Cur = c /\ Fallback = The(Old)
        BY <2>1, CurProved
      <4>2. Cur' = c /\ Fallback' = The(Old')
        BY <2>1, CurProvedNext
      <4> QED
        BY <3>1, <4>1, <4>2, TheOne
    <3>3. /\ SpecOf(Cur) = ctr[c].spec /\ SpecOf(Fallback) = ctr[d].spec
          /\ SpecOf(Cur)' = ctr[c].spec /\ SpecOf(Fallback)' = None
      BY <1>0, <2>1, <3>2 DEF SpecOf
    <3>4. Abstract!Discard
      BY <1>2, <3>2, <3>3 DEF Abstract!Discard, Drops, SameTrust
    <3> QED
      BY <3>4 DEF Abstract!Next
  <2> QED
    BY <2>2, <2>3
<1>3. ASSUME NEW c \in CID, Parks(c) PROVE [Abstract!Next]_(Abstract!swapVars)
  <2>1. Proved = {c} /\ Old = {} /\ Proved' = {} /\ Old' = {c}
    BY <1>3, TwoHolders DEF Parks, SameTrust, Proved, Svc
  <2>2. Cur' = Cur /\ Fallback' = Fallback
    <3>1. Cur = c /\ Fallback = The({})
      BY <2>1, CurProved
    <3>2. Cur' = c /\ Fallback' = None
      BY <2>1, CurParkedNext
    <3> QED
      BY <3>1, <3>2, TheOne
  <2> QED
    BY <1>3, <2>2, Stutter DEF Parks, SameTrust
<1>4. ASSUME NEW c \in CID, Unparks(c) PROVE [Abstract!Next]_(Abstract!swapVars)
  <2>1. Proved = {} /\ Old = {c} /\ Proved' = {c} /\ Old' = {}
    BY <1>4, TwoHolders DEF Unparks, SameTrust, Proved, Svc
  <2>2. Cur' = Cur /\ Fallback' = Fallback
    <3>1. Cur = c /\ Fallback = None
      BY <2>1, CurParked
    <3>2. Cur' = c /\ Fallback' = The({})
      BY <2>1, CurProvedNext
    <3> QED
      BY <3>1, <3>2, TheOne
  <2> QED
    BY <1>4, <2>2, Stutter DEF Unparks, SameTrust
<1>5. ASSUME NEW c \in CID, Creates(c) PROVE [Abstract!Next]_(Abstract!swapVars)
  <2>1. Proved = {} /\ Proved' = {} /\ Old' = Old
    BY <1>5 DEF Creates, SameTrust, Proved, Svc
  <2>2. Cur' = Cur /\ Fallback' = Fallback
    BY <2>1, CurStays
  <2> QED
    BY <1>5, <2>2, Stutter DEF Creates, SameTrust
<1>6. ASSUME NEW c \in CID, ComesUp(c) PROVE [Abstract!Next]_(Abstract!swapVars)
  <2>1. CASE c \in trusted
    <3>1. SameTrust /\ Proved' = Proved /\ Old' = Old
      BY <1>6, <2>1 DEF ComesUp, SameTrust, Proved, Svc
    <3>2. Cur' = Cur /\ Fallback' = Fallback
      BY <3>1, CurStays
    <3> QED
      BY <3>1, <3>2, Stutter
  <2>2. CASE c \notin trusted
    <3>1. Svc = {c}
      BY <1>6 DEF ComesUp, Svc, SwapInv, IndInv, NamesInv
    <3>2. Proved = {} /\ Proved' = {c} /\ Old' = Old
      BY <1>6, <2>2, <3>1 DEF ComesUp, Proved, Svc
    <3>3. PICK d \in CID : Old = {d}
      BY <3>2, TwoHolders
    <3>4. Cur = d /\ Fallback = None /\ Cur' = c /\ Fallback' = d
      <4>1. Cur = d /\ Fallback = None
        BY <3>2, <3>3, CurParked
      <4>2. Cur' = c /\ Fallback' = The({d})
        BY <3>2, <3>3, CurProvedNext
      <4> QED
        BY <4>1, <4>2, TheOne
    <3>5. ctr[c].spec = ctr[d].spec /\ ctr'[c].spec = ctr[c].spec /\ ctr'[d].spec = ctr[d].spec
      <4>1. ctr[c].spec = ctr[d].spec
        BY <2>2, <3>1, <3>3 DEF SwapInv, Svc, Old
      <4>2. ctr[c].state # "unused"
        BY <3>1 DEF Svc, Holder, Exists
      <4> QED
        BY <1>0, <3>3, <4>1, <4>2 DEF KeepsId
    <3>6. /\ SpecOf(Cur) = ctr[d].spec /\ SpecOf(Fallback) = None
          /\ SpecOf(Cur)' = ctr[d].spec /\ SpecOf(Fallback)' = ctr[d].spec
      BY <3>4, <3>5 DEF SpecOf
    <3>7. Abstract!Accept(c)
      BY <1>6, <2>2, <3>4, <3>6 DEF Abstract!Accept, Abstract!Succeed, ComesUp
    <3> QED
      BY <3>7 DEF Abstract!Next
  <2> QED
    BY <2>1, <2>2
<1>7. ASSUME NEW c \in CID, Removes(c) PROVE [Abstract!Next]_(Abstract!swapVars)
  <2>1. CASE c \notin Proved
    <3>1. Proved' = Proved /\ Old' = Old
      BY <1>7, <2>1 DEF Removes, SameTrust, Proved, Svc
    <3>2. Cur' = Cur /\ Fallback' = Fallback
      BY <3>1, CurStays
    <3> QED
      BY <1>7, <3>2, Stutter DEF Removes, SameTrust
  <2>2. CASE c \in Proved
    <3>1. PICK d \in CID : Old = {d} /\ Old' = {d}
      BY <1>7, TwoHolders DEF Removes, SameTrust
    <3>2. Proved = {c} /\ Proved' = {}
      BY <1>7, <2>2, TwoHolders DEF Removes, SameTrust, Proved, Svc
    <3>3. Cur = c /\ Fallback = d /\ Cur' = d /\ Fallback' = None
      <4>1. Cur = c /\ Fallback = The({d})
        BY <3>1, <3>2, CurProved
      <4>2. Cur' = d /\ Fallback' = None
        BY <3>1, <3>2, CurParkedNext
      <4> QED
        BY <4>1, <4>2, TheOne
    <3>4. /\ SpecOf(Cur) = ctr[c].spec /\ SpecOf(Fallback) = ctr[d].spec
          /\ SpecOf(Cur)' = ctr[d].spec /\ SpecOf(Fallback)' = None
      BY <1>0, <3>1, <3>2, <3>3 DEF SpecOf
    <3>5. Abstract!Revert
      BY <1>0, <1>7, <3>1, <3>3, <3>4 DEF Abstract!Revert, Removes, SameTrust
    <3> QED
      BY <3>5 DEF Abstract!Next
  <2> QED
    BY <2>1, <2>2
<1>8. ASSUME NEW c \in CID, NEW s \in Specs, Recreates(c, s)
      PROVE  [Abstract!Next]_(Abstract!swapVars)
  <2>1. Proved' = {c} /\ Old' = Old /\ trusted' = trusted \cup {c}
    BY <1>8 DEF Recreates, Proved, Svc
  <2>2. Cur' = c /\ Fallback' = The(Old) /\ SpecOf(Cur)' = s
    BY <1>8, <2>1, CurProvedNext DEF SpecOf, Recreates
  <2>3. Abstract!Replace(c, s)
    <3>1. CASE Old = {}
      <4>1. PICK p \in CID : Proved = {p}
        BY <3>1, TwoHolders
      <4>2. /\ Fallback = None /\ Fallback' = None
            /\ SpecOf(Fallback)' = None
        BY <2>2, <3>1, <4>1, CurProved, TheOne DEF SpecOf
      <4> QED
        BY <1>8, <2>1, <2>2, <4>2 DEF Abstract!Replace, Recreates
    <3>2. ASSUME NEW d \in CID, Old = {d} PROVE Abstract!Replace(c, s)
      <4>1. Fallback' = d /\ SpecOf(Fallback)' = ctr[d].spec /\ d # None
        BY <1>0, <2>2, <3>2, TheOne DEF SpecOf
      <4>2. CASE Proved = {}
        <5>1. Cur = d /\ Fallback = None /\ SpecOf(Cur) = ctr[d].spec
          BY <3>2, <4>1, <4>2, CurParked DEF SpecOf
        <5> QED
          BY <1>8, <2>1, <2>2, <4>1, <5>1 DEF Abstract!Replace, Recreates
      <4>3. CASE Proved # {}
        <5>1. PICK p \in CID : Proved = {p}
          BY <4>3, TwoHolders
        <5>2. Fallback = d
          BY <3>2, <5>1, CurProved, TheOne
        <5>3. SpecOf(Fallback) = ctr[d].spec
          BY <4>1, <5>2 DEF SpecOf
        <5> QED
          BY <1>8, <2>1, <2>2, <4>1, <5>2, <5>3 DEF Abstract!Replace, Recreates
      <4> QED
        BY <4>2, <4>3
    <3> QED
      BY <3>1, <3>2, TwoHolders
  <2> QED
    BY <2>3 DEF Abstract!Next
<1>9. ASSUME NEW c \in CID, TakesOver(c) PROVE [Abstract!Next]_(Abstract!swapVars)
  <2>1. Svc = {c}
    BY <1>9 DEF TakesOver, Svc, SwapInv, IndInv, NamesInv
  <2>2. Proved = {} /\ Proved' = {c} /\ Old' = Old
    BY <1>9, <2>1 DEF TakesOver, Proved, Svc
  <2>3. PICK d \in CID : Old = {d}
    BY <2>2, TwoHolders
  <2>4. Cur = d /\ Fallback = None /\ Cur' = c /\ Fallback' = d
    <3>1. Cur = d /\ Fallback = None
      BY <2>2, <2>3, CurParked
    <3>2. Cur' = c /\ Fallback' = The({d})
      BY <2>2, <2>3, CurProvedNext
    <3> QED
      BY <3>1, <3>2, TheOne
  <2>5. ctr[c].spec = ctr[d].spec /\ ctr'[c].spec = ctr[c].spec /\ ctr'[d].spec = ctr[d].spec
    <3>1. ctr[c].spec = ctr[d].spec
      BY <1>9, <2>1, <2>3 DEF TakesOver, SwapInv, Svc, Old
    <3>2. ctr[c].state # "unused"
      BY <2>1 DEF Svc, Holder, Exists
    <3> QED
      BY <1>0, <2>3, <3>1, <3>2 DEF KeepsId
  <2>6. /\ SpecOf(Cur) = ctr[d].spec /\ SpecOf(Fallback) = None
        /\ SpecOf(Cur)' = ctr[d].spec /\ SpecOf(Fallback)' = ctr[d].spec
    BY <2>4, <2>5 DEF SpecOf
  <2>7. Abstract!TakeOver(c)
    BY <1>9, <2>4, <2>6 DEF Abstract!TakeOver, Abstract!Succeed, TakesOver
  <2> QED
    BY <2>7 DEF Abstract!Next
<1> QED
  BY <1>1, <1>2, <1>3, <1>4, <1>5, <1>6, <1>7, <1>8, <1>9 DEF Effect

\* The first state of Update is one of Swap's.
LEMMA InitMaps == Init => Abstract!Init
<1> SUFFICES ASSUME Init PROVE Abstract!Init
  OBVIOUS
<1>1. PICK c \in CID, s \in Specs, st \in InitStates :
        /\ ctr = [d \in CID |->
              [name |-> "svc", image |-> InitImage, spec |-> s,
               state |-> IF d = c THEN st ELSE "unused"]]
        /\ trusted = {c} /\ taken = {}
  BY DEF Init
<1>2. Holder(ctr, "svc") = {c} /\ Holder(ctr, "old") = {} /\ ctr[c].spec = s
  BY <1>1, InitAssumption DEF Holder, Exists
<1>3. Proved = {c} /\ Old = {}
  BY <1>1, <1>2 DEF Proved, Old
<1>4. Cur = c /\ Fallback = None
  BY <1>3, CurProved, TheOne
<1>5. SpecOf(Cur) = s /\ SpecOf(Fallback) = None
  BY <1>2, <1>4, NoneAssumption DEF SpecOf
<1> QED
  BY <1>1, <1>4, <1>5 DEF Abstract!Init

\* Seen from outside, an update is one step: whatever crashes, fails or interleaves, the
\* container that is known to work changes only by a replacement that came up with the
\* same spec (or was taken for the service's own after Recover passed it over), by taking
\* that back, or by the user (swap, rollback, reconcileOne), if removing containers does
\* not fail.
THEOREM UpdateImplementsSwap == Reliable => (Spec => ImplementsSwap)
<1> SUFFICES ASSUME Reliable PROVE Spec => Abstract!Spec
  BY DEF ImplementsSwap
<1>1. SwapInv /\ [Next]_vars => SwapInv'
  BY SwapInvStep
<1>2. SwapInv /\ SwapInv' /\ [Next]_vars => [Abstract!Next]_(Abstract!swapVars)
  <2> SUFFICES ASSUME SwapInv, SwapInv', [Next]_vars
               PROVE  [Abstract!Next]_(Abstract!swapVars)
    OBVIOUS
  <2> QED
    BY StepEffect, EffectMaps, KeepsStep DEF SwapInv, IndInv
<1> QED
  BY <1>1, <1>2, SwapInit, InitMaps, PTL DEF Spec, Abstract!Spec

\* What is trusted stays so.
LEMMA VerifiedGrows == [Next]_vars => trusted \subseteq trusted'
<1> SUFFICES ASSUME [Next]_vars PROVE trusted \subseteq trusted'
  OBVIOUS
<1>1. ASSUME NEW j \in Jobs, Update(j) \/ JobStep(j) PROVE trusted \subseteq trusted'
  BY <1>1 DEF Update, JobStep, Lock, Inspect, Rely, Pull, ClearParked, Park, StopOld, Create,
     StartNew, Verify, DropOld, RecordNew, RollbackRemove, RollbackRename, RollbackStart,
     Unlock, FinishUpdateJob, Forget
<1>2. ASSUME RecoverStep PROVE trusted \subseteq trusted'
  BY <1>2 DEF RecoverStep, RecoverPass, RecoverList, RecoverRename, RecoverStart, RecoverVerify, RecoverDrop,
     RecoverRollbackRemove, RecoverRollbackRename, RecoverRollbackStart, SettleJob, Serve
<1> QED
  BY <1>1, <1>2 DEF Next, Crash, Restart, Publish, ContainerDrift, UserRecreate, Done, vars

-----------------------------------------------------------------------------
(* Lifecycle: the actors beside the updates. What a step of an update does *)
(* to the lock.                                                            *)

\* A job takes the lock when it is free and gives its own back, in a process that
\* stays where it is.
LocksOf(j) ==
    /\ \A k \in Jobs : k # j => job'[k] = job[k]
    /\ proc' = proc
    /\ \/ job[j].pc = "idle" /\ job'[j].pc = "lock" /\ lock' = lock /\ proc = "serving"
       \/ job[j].pc = "lock" /\ job'[j].pc = "inspect" /\ lock = None /\ lock' = j
       \/ job[j].pc \notin Quiescent /\ job'[j].pc \notin Quiescent /\ lock' = lock
       \/ job[j].pc = "unlock" /\ job'[j].pc = "finish" /\ lock' = None
       \/ job[j].pc \in {"finish", "forget"} /\ job'[j].pc \in {"forget", "done"} /\ lock' = lock

\* That is what every step of a job does, whichever calls fail.
LEMMA JobLocks ==
    ASSUME TypeInv, NEW j \in Jobs, Update(j) \/ JobStep(j)
    PROVE  LocksOf(j)
<1>0. job \in [Jobs -> Locals] /\ ctr \in Table
  BY DEF TypeInv, StateOK
<1>1. CASE Update(j)
  <2>1. (\A k \in Jobs : k # j => job'[k] = job[k]) /\ job'[j].pc = "lock"
    BY <1>0, <1>1, BeginMoves DEF Update, TypeInv, StateOK
  <2> QED
    BY <1>1, <2>1 DEF Update, At, LocksOf, procVars
<1>2. CASE Lock(j)
  BY <1>2, JobMoves DEF Lock, At, Moves, LocksOf, procVars
<1>3. CASE Inspect(j)
  <2>1. (\A k \in Jobs : k # j => job'[k] = job[k]) /\ job'[j].pc \in {"pull", "unlock"}
    <3>1. CASE Return(j, "failed")
      BY <1>0, <3>1, ReturnMoves DEF Moves, Verdicts, Failures
    <3>2. ASSUME NEW c \in Holder(ctr, "svc"), NEW mc,
                 job' = [job EXCEPT ![j].pc = "pull", ![j].mc = mc, ![j].old = c,
                                    ![j].seen = ctr[c].state]
          PROVE  (\A k \in Jobs : k # j => job'[k] = job[k]) /\ job'[j].pc = "pull"
      BY <1>0, <3>2 DEF Locals
    <3> QED
      BY <1>3, <3>1, <3>2 DEF Inspect
  <2> QED
    BY <1>3, <2>1 DEF Inspect, At, LocksOf, Quiescent, procVars
<1>4. CASE Create(j)
  <2>1. (\A k \in Jobs : k # j => job'[k] = job[k]) /\ job'[j].pc \in {"start", "rbremove"}
    <3>1. CASE Goto(j, "rbremove")
      BY <1>0, <3>1, GotoMoves, LabelFacts DEF Moves
    <3>2. ASSUME NEW c \in CID, job' = [job EXCEPT ![j].pc = "start", ![j].new = c]
          PROVE  (\A k \in Jobs : k # j => job'[k] = job[k]) /\ job'[j].pc = "start"
      BY <1>0, <3>2 DEF Locals
    <3> QED
      BY <1>4, <3>1, <3>2 DEF Create, Fresh
  <2> QED
    BY <1>4, <2>1 DEF Create, At, LocksOf, Quiescent, procVars
<1>5. CASE Pull(j) \/ ClearParked(j) \/ Park(j) \/ StopOld(j) \/ StartNew(j) \/ Verify(j)
           \/ DropOld(j) \/ RecordNew(j) \/ RollbackRemove(j) \/ RollbackRename(j) \/ RollbackStart(j)
  <2>1. job[j].pc \in Body \ {"inspect"} /\ lock' = lock /\ proc' = proc
    BY <1>5 DEF Pull, ClearParked, Park, StopOld, StartNew, Verify, DropOld, RecordNew,
       RollbackRemove, RollbackRename, RollbackStart, At, Body, procVars
  <2>2. \E l \in {"unlock", "clear", "park", "stop", "create", "verify", "rbremove", "drop",
                  "record", "rbrename", "rbstart"} : Moves(j, l)
    BY <1>5, JobMoves
  <2> QED
    BY <2>1, <2>2 DEF Moves, LocksOf, Quiescent, Body
<1>6. CASE Unlock(j)
  BY <1>6, JobMoves DEF Unlock, At, Moves, LocksOf, procVars
<1>7. CASE FinishUpdateJob(j)
  BY <1>7, JobMoves DEF FinishUpdateJob, At, Moves, LocksOf, procVars
<1>8. CASE Forget(j)
  BY <1>8, JobMoves DEF Forget, At, Moves, LocksOf, procVars
<1> QED
  BY <1>1, <1>2, <1>3, <1>4, <1>5, <1>6, <1>7, <1>8 DEF JobStep

\* A step of the process leaves the jobs and the lock alone, and one of the world the
\* process too.
LEMMA RestLocks ==
    /\ Restart \/ RecoverStep => job' = job /\ lock' = lock /\ proc # "serving"
    /\ (Publish \/ (\E c \in CID : ContainerDrift(c)) \/ (\E c \in CID, s \in Specs : UserRecreate(c, s)))
           => job' = job /\ lock' = lock /\ proc' = proc
<1>1. Restart => job' = job /\ lock' = lock /\ proc # "serving"
  BY DEF Restart, jobVars
<1>2. RecoverStep => job' = job /\ lock' = lock /\ proc # "serving"
  BY DEF RecoverStep, RecoverPass, RecoverList, RecoverRename, RecoverStart, RecoverVerify, RecoverDrop,
     RecoverRollbackRemove, RecoverRollbackRename, RecoverRollbackStart, SettleJob, Serve,
     recoverFrame
<1> QED
  BY <1>1, <1>2 DEF Publish, ContainerDrift, UserRecreate, jobVars, procVars

\* So the jobs keep to the lock, and do not take an actor's.
LEMMA BesideLocks ==
    ASSUME TypeInv, LockInv, Beside
    PROVE  /\ LockInv'
           /\ lock' = lock \/ (lock = None /\ lock' \in Jobs) \/ (lock \in Jobs /\ lock' = None)
           /\ proc = "serving" => proc' = "serving"
<1>1. ASSUME NEW j \in Jobs, Update(j) \/ JobStep(j)
      PROVE  /\ LockInv'
             /\ lock' = lock \/ (lock = None /\ lock' \in Jobs) \/ (lock \in Jobs /\ lock' = None)
             /\ proc' = proc
  <2>1. LocksOf(j)
    BY <1>1, JobLocks
  <2> QED
    BY <2>1, InitAssumption DEF LocksOf, LockInv, Quiescent
<1>2. ASSUME Restart \/ RecoverStep PROVE LockInv' /\ lock' = lock /\ proc # "serving"
  BY <1>2, RestLocks DEF LockInv
<1>3. ASSUME \/ Publish \/ \E c \in CID : ContainerDrift(c)
             \/ \E c \in CID, s \in Specs : UserRecreate(c, s)
      PROVE  LockInv' /\ lock' = lock /\ proc' = proc
  BY <1>3, RestLocks DEF LockInv
<1> QED
  BY <1>1, <1>2, <1>3 DEF Beside

-----------------------------------------------------------------------------
(* What an actor's step does to the daemon.                                *)

\* A container that stays up, or goes down, or starts, keeps its name.
Keeps == ctr' \in Table /\ KeepsId(ctr, ctr') /\ \A n : Holder(ctr', n) = Holder(ctr, n)

\* A container is made under the free name, and counts as trusted.
Makes(c, s) ==
    /\ ctr' \in Table /\ KeepsId(ctr, ctr')
    /\ ctr[c].state = "unused" /\ Holder(ctr, "svc") = {}
    /\ Holder(ctr', "svc") = {c} /\ Holder(ctr', "old") = Holder(ctr, "old")
    /\ ctr'[c].state # "unused" /\ ctr'[c].spec = s
    /\ trusted' = trusted \cup {c} /\ taken' = taken

\* Every container that was told to stop is up still.
UpStill == \A c \in stopping : c \in CID /\ ctr[c].state \in Up

\* Nothing happens to the containers.
LEMMA KeepsSame == ASSUME ctr \in Table, ctr' = ctr PROVE Keeps
  BY KeepsOps DEF Keeps

\* A container starts.
LEMMA KeepsStart ==
    ASSUME ctr \in Table, NEW c \in CID, Exists(ctr, c), ctr' = StartC(ctr, c), UpStill,
           stopping' = stopping
    PROVE  Keeps /\ UpStill'
<1>1. Keeps
  BY KeepsOps, TableStart, StartH DEF Keeps
<1>2. UpStill'
  BY DEF UpStill, StartC, SetState, Table, Container, Up
<1> QED
  BY <1>1, <1>2

\* Start, Stop and Restart of a container that exists: it keeps its name.
LEMMA KeepsCall ==
    ASSUME ctr \in Table, NEW c \in CID, Exists(ctr, c), NEW kind \in Kinds, Call(kind, c), UpStill
    PROVE  Keeps /\ UpStill'
<1>1. CASE kind = "start"
  <2>1. ctr' = StartC(ctr, c) /\ stopping' = stopping
    BY <1>1 DEF Call
  <2> QED
    BY <2>1, KeepsStart
<1>2. CASE kind = "stop"
  <2>1. ctr' = ctr /\ stopping' = stopping \cup {d \in {c} : ctr[d].state \in Up}
    BY <1>2 DEF Call
  <2> QED
    BY <2>1, KeepsSame DEF UpStill
<1>3. CASE kind = "restart"
  <2>1. ctr' = SetState(ctr, c, "running") /\ stopping' = stopping \ {c}
    BY <1>3 DEF Call
  <2>2. Keeps
    BY <2>1, KeepsOps, TableSet, SetStateH DEF Keeps, States, Up
  <2>3. UpStill'
    BY <2>1 DEF UpStill, SetState, Table, Container, Up
  <2> QED
    BY <2>2, <2>3
<1> QED
  BY <1>1, <1>2, <1>3 DEF Kinds

\* A container goes down.
LEMMA KeepsStopped ==
    ASSUME ctr \in Table, UpStill, NEW c \in CID, Stopped(c)
    PROVE  Keeps /\ UpStill'
<1>1. PICK s \in {"stopped", "crashed"} : ctr' = SetState(ctr, c, s)
  BY DEF Stopped
<1>2. Exists(ctr, c) /\ s \in States \ {"unused", "removed"} /\ stopping' = stopping \ {c}
  BY DEF Stopped, UpStill, Exists, States, Up
<1>3. Keeps
  BY <1>1, <1>2, KeepsOps, TableSet, SetStateH DEF Keeps
<1>4. UpStill'
  BY <1>1, <1>2 DEF UpStill, SetState, Table, Container
<1> QED
  BY <1>3, <1>4

\* What a reference leads to is a container that exists.
LEMMA NamedExist ==
    ASSUME NEW ref \in CID \cup {"svc"}, NEW c \in Named(ref)
    PROVE  c \in CID /\ Exists(ctr, c)
  BY DEF Named, Holder

\* The sweep relies, under the lock, on a container that Recover passed over.
Relies(a) ==
    /\ act[a].pc = "inspect" /\ act[a].ref \in CID /\ Exists(ctr, act[a].ref)
    /\ UNCHANGED <<rec, lock>>
    /\ trusted' = trusted \cup {act[a].ref} /\ taken' = taken \cup ({act[a].ref} \ trusted)

\* What an actor's step does to the state it shares with the updates.
Shared(a) ==
    /\ UNCHANGED rest
    /\ UpStill'
    /\ \/ Keeps /\ SameTrust
       \/ Keeps /\ Relies(a)
       \/ /\ UNCHANGED <<rec, lock>> /\ act[a].kind = "bringup"
          /\ \E c \in CID : Makes(c, act[a].mc.spec)
    /\ rec' = rec \/ rec' \in Record

\* A step that leaves all that alone.
LEMMA SharedStill ==
    ASSUME ctr \in Table, UpStill, Still, NEW a \in Actors
    PROVE  Shared(a)
<1>1. ctr' = ctr /\ SameTrust /\ rec' = rec /\ stopping' = stopping /\ UNCHANGED rest
  BY DEF Still, quiet, SameTrust
<1> QED
  BY <1>1, KeepsSame DEF Shared, UpStill

\* Every step of an actor is of that kind.
LEMMA ActorShared ==
    ASSUME ActorInv, NEW a \in Actors, Ask(a) \/ ActorStep(a)
    PROVE  Shared(a)
<1>0. ctr \in Table /\ UpStill /\ ActorOK(act[a]) /\ localTag \in Images
  BY DEF ActorInv, TypeInv, StateOK, UpStill
<1>1. CASE Ask(a) \/ Resolve(a) \/ TakeLock(a) \/ Await(a) \/ ReleaseLock(a) \/ ListStack(a)
           \/ AwaitEach(a) \/ BringUpLook(a) \/ TryLock(a) \/ Reread(a)
  <2>1. Still
    BY <1>1 DEF Ask, Request, RequestStack, BringUp, Sweep, Resolve, TakeLock, Await, ReleaseLock,
       ListStack, AwaitEach, BringUpLook, TryLock, Reread
  <2> QED
    BY <1>0, <2>1, SharedStill
<1>2. CASE Act(a)
  <2>1. SameTrust /\ rec' = rec /\ UNCHANGED rest
    BY <1>2 DEF Act, quiet, SameTrust
  <2>2. act[a].kind \in Kinds /\ act[a].ref \in CID \cup {"svc"}
    BY <1>0, <1>2 DEF ActorOK, Act, Is
  <2>3. Keeps /\ UpStill'
    <3>1. CASE UNCHANGED <<ctr, stopping>>
      BY <1>0, <3>1, KeepsSame DEF UpStill
    <3>2. ASSUME NEW c \in Named(act[a].ref), Call(act[a].kind, c) PROVE Keeps /\ UpStill'
      BY <1>0, <2>2, <3>2, NamedExist, KeepsCall
    <3> QED
      BY <1>2, <3>1, <3>2 DEF Act
  <2> QED
    BY <2>1, <2>3 DEF Shared
<1>3. CASE Each(a)
  <2>1. SameTrust /\ rec' = rec /\ UNCHANGED rest
    BY <1>3 DEF Each, quiet, SameTrust
  <2>2. act[a].kind \in Kinds /\ act[a].todo \subseteq CID
    BY <1>0, <1>3 DEF ActorOK, Actor, Each, Is
  <2>3. Keeps /\ UpStill'
    <3>1. CASE UNCHANGED <<ctr, stopping>>
      BY <1>0, <3>1, KeepsSame DEF UpStill
    <3>2. ASSUME NEW c \in act[a].todo, Exists(ctr, c), Call(act[a].kind, c)
          PROVE  Keeps /\ UpStill'
      BY <1>0, <2>2, <3>2, KeepsCall
    <3> QED
      BY <1>3, <3>1, <3>2 DEF Each
  <2> QED
    BY <2>1, <2>3 DEF Shared
<1>4. CASE BringUpCreate(a)
  <2>1. rec' = rec /\ lock' = lock /\ stopping' = stopping /\ UNCHANGED rest
    BY <1>4 DEF BringUpCreate, NoLocks
  <2>2. act[a].mc.spec \in Specs /\ act[a].kind = "bringup"
    BY <1>0, <1>4 DEF ActorOK, BringUpCreate, Is, Record
  <2>3. CASE UNCHANGED <<ctr, trusted>>
    BY <1>0, <1>4, <2>1, <2>3, KeepsSame DEF BringUpCreate, UpStill, Shared, SameTrust
  <2>4. ASSUME Holder(ctr, "svc") = {}, NEW c \in Fresh,
               ctr' = CreateC(ctr, c, "svc", localTag, act[a].mc.spec),
               trusted' = trusted \cup {c}
        PROVE  Shared(a)
    <3>1. c \in CID /\ ctr[c].state = "unused"
      BY <2>4 DEF Fresh
    <3>2. ctr' \in Table /\ KeepsId(ctr, ctr')
      BY <1>0, <2>2, <2>4, <3>1, TableCreate, KeepsOps
    <3>3. /\ Holder(ctr', "svc") = {c} /\ Holder(ctr', "old") = Holder(ctr, "old")
          /\ ctr'[c].spec = act[a].mc.spec /\ ctr'[c].state # "unused"
      BY <1>0, <2>2, <2>4, <3>1, CreateH
    <3>4. Makes(c, act[a].mc.spec)
      BY <1>4, <2>4, <3>1, <3>2, <3>3 DEF BringUpCreate, Makes
    <3>5. UpStill'
      BY <1>0, <2>1, <2>4, <3>1 DEF UpStill, CreateC, Table, Up
    <3> QED
      BY <2>1, <2>2, <3>1, <3>4, <3>5 DEF Shared
  <2> QED
    BY <1>4, <2>3, <2>4 DEF BringUpCreate
<1>5. CASE BringUpStart(a)
  <2>1. SameTrust /\ rec' = rec /\ stopping' = stopping /\ UNCHANGED rest
    BY <1>5 DEF BringUpStart, quiet, SameTrust
  <2>2. act[a].ref \in CID
    BY <1>0, <1>5 DEF ActorOK, BringUpStart, Is
  <2>3. Keeps /\ UpStill'
    <3>1. CASE ctr' = ctr
      BY <1>0, <2>1, <3>1, KeepsSame DEF UpStill
    <3>2. CASE Exists(ctr, act[a].ref) /\ ctr' = StartC(ctr, act[a].ref)
      BY <1>0, <2>1, <2>2, <3>2, KeepsStart
    <3> QED
      BY <1>5, <3>1, <3>2 DEF BringUpStart
  <2> QED
    BY <2>1, <2>3 DEF Shared
<1>6. CASE BringUpRecord(a) \/ Rerecord(a)
  <2>1. ctr' = ctr /\ SameTrust /\ stopping' = stopping /\ UNCHANGED rest
    BY <1>6 DEF BringUpRecord, Rerecord, quiet, SameTrust
  <2>2. rec' \in Record
    BY <1>0, <1>6 DEF BringUpRecord, Rerecord, ActorOK, Is, Record
  <2> QED
    BY <1>0, <2>1, <2>2, KeepsSame DEF Shared, UpStill
<1>7. CASE ReInspect(a)
  <2>1. UNCHANGED <<rest, ctr, rec, lock, stopping>>
    BY <1>7 DEF ReInspect, NoLocks
  <2>2. act[a].pc = "inspect" /\ act[a].ref \in CID
    BY <1>0, <1>7 DEF ReInspect, Is, ActorOK
  <2>3. SameTrust \/ Relies(a)
    BY <1>7, <2>1, <2>2 DEF ReInspect, Rely, SameTrust, Relies
  <2> QED
    BY <1>0, <2>1, <2>3, KeepsSame DEF Shared, UpStill
<1> QED
  BY <1>1, <1>2, <1>3, <1>4, <1>5, <1>6, <1>7 DEF ActorStep

-----------------------------------------------------------------------------
(* The actors and their locks.                                             *)

\* Actor a, and no other, changes: to r.
Turns(a, r) ==
    /\ act' \in [Actors -> Actor]
    /\ act'[a] = r
    /\ \A b \in Actors : b # a => act'[b] = act[b]

\* An actor that goes on to another label keeps its locals.
LEMMA ToTurns ==
    ASSUME act \in [Actors -> Actor], NEW a \in Actors, NEW l \in Pcs, To(a, l)
    PROVE  Turns(a, [act[a] EXCEPT !.pc = l])
<1>1. [act[a] EXCEPT !.pc = l] \in Actor
  BY DEF Actor
<1>2. act' = [act EXCEPT ![a] = [act[a] EXCEPT !.pc = l]]
  BY DEF To
<1> QED
  BY <1>1, <1>2 DEF Turns

\* An actor that begins has its locals anew.
LEMMA SetTurns ==
    ASSUME act \in [Actors -> Actor], NEW a \in Actors, NEW r \in Actor, Set(a, r)
    PROVE  Turns(a, r)
  BY DEF Set, Turns

\* What an actor's step does to the locks: nothing, take the lock of its key, which is
\* free, or give it back.
Locking(a) ==
    \/ /\ NoLocks
       /\ act[a].pc \in Held <=> act'[a].pc \in Held
       /\ act'[a].pc \in Held => act'[a].key = act[a].key
    \/ /\ act[a].pc \notin Held /\ act'[a].pc \in Held
       /\ FreeKey(act'[a].key) /\ HoldKey(act'[a].key, a)
    \/ /\ act[a].pc \in Held /\ act'[a].pc \notin Held
       /\ HoldKey(act[a].key, None)

\* Then everyone still holds the locks they act under.
LEMMA LockingKeeps ==
    ASSUME ActorInv, NEW a \in Actors, act' \in [Actors -> Actor],
           \A b \in Actors : b # a => act'[b] = act[b],
           ActorOK(act'[a]), Locking(a), proc' = proc,
           act'[a].pc \notin {"idle", "done", "dead"} => proc = "serving"
    PROVE  /\ lock' \in Opt(Jobs \cup Actors) /\ locks' \in [Keys \ {"svc"} -> Opt(Actors)]
           /\ HeldInv'
           /\ \A j \in Jobs : lock' = j <=> lock = j
<1>0. /\ HeldInv /\ lock \in Opt(Jobs \cup Actors) /\ locks \in [Keys \ {"svc"} -> Opt(Actors)]
      /\ a \notin Jobs /\ a # None /\ \A b \in Actors : b # None
      /\ act[a].pc \in Held => act[a].key \in Keys
      /\ act'[a].pc \in Held => act'[a].key \in Keys
      /\ "svc" \in Keys
      /\ None \notin Jobs
  BY ActorsAssumption, InitAssumption DEF ActorInv, ActorOK, Keys
<1>1. CASE /\ NoLocks
           /\ act[a].pc \in Held <=> act'[a].pc \in Held
           /\ act'[a].pc \in Held => act'[a].key = act[a].key
  <2>1. lock' = lock /\ locks' = locks
    BY <1>1 DEF NoLocks
  <2>2. HeldInv'
    <3> SUFFICES ASSUME NEW b \in Actors
                 PROVE /\ lock = b <=> act'[b].pc \in Held /\ act'[b].key = "svc"
                       /\ \A k \in Keys \ {"svc"} : locks[k] = b <=> act'[b].pc \in Held /\ act'[b].key = k
                       /\ act'[b].pc \notin {"idle", "done", "dead"} => proc' = "serving"
      BY <2>1 DEF HeldInv
    <3>1. CASE b # a
      BY <1>0, <3>1 DEF HeldInv
    <3>2. CASE b = a
      BY <1>0, <1>1, <3>2 DEF HeldInv
    <3> QED
      BY <3>1, <3>2
  <2> QED
    BY <1>0, <2>1, <2>2
<1>2. CASE /\ act[a].pc \notin Held /\ act'[a].pc \in Held
           /\ FreeKey(act'[a].key) /\ HoldKey(act'[a].key, a)
  <2>1. \/ act'[a].key = "svc" /\ lock = None /\ lock' = a /\ locks' = locks
        \/ /\ act'[a].key \in Keys \ {"svc"} /\ locks[act'[a].key] = None
           /\ locks' = [locks EXCEPT ![act'[a].key] = a] /\ lock' = lock
    BY <1>0, <1>2 DEF FreeKey, HoldKey
  <2>2. \A b \in Actors \ {a} : /\ lock' = b <=> lock = b
                                /\ \A k \in Keys \ {"svc"} : locks'[k] = b <=> locks[k] = b
    BY <1>0, <2>1
  <2>3. /\ lock' = a <=> act'[a].key = "svc"
        /\ \A k \in Keys \ {"svc"} : locks'[k] = a <=> act'[a].key = k
    BY <1>0, <1>2, <2>1 DEF HeldInv
  <2>4. HeldInv'
    BY <1>0, <1>2, <2>2, <2>3 DEF HeldInv
  <2>5. lock' \in Opt(Jobs \cup Actors) /\ locks' \in [Keys \ {"svc"} -> Opt(Actors)]
    BY <1>0, <2>1 DEF Opt
  <2> QED
    BY <1>0, <2>1, <2>4, <2>5
<1>3. CASE /\ act[a].pc \in Held /\ act'[a].pc \notin Held
           /\ HoldKey(act[a].key, None)
  <2>1. \/ act[a].key = "svc" /\ lock = a /\ lock' = None /\ locks' = locks
        \/ /\ act[a].key \in Keys \ {"svc"} /\ locks[act[a].key] = a
           /\ locks' = [locks EXCEPT ![act[a].key] = None] /\ lock' = lock
    BY <1>0, <1>3 DEF HoldKey, HeldInv
  <2>2. \A b \in Actors \ {a} : /\ lock' = b <=> lock = b
                                /\ \A k \in Keys \ {"svc"} : locks'[k] = b <=> locks[k] = b
    BY <1>0, <2>1
  <2>3. lock' # a /\ \A k \in Keys \ {"svc"} : locks'[k] # a
    BY <1>0, <1>3, <2>1 DEF HeldInv
  <2>4. HeldInv'
    BY <1>0, <1>3, <2>2, <2>3 DEF HeldInv
  <2>5. lock' \in Opt(Jobs \cup Actors) /\ locks' \in [Keys \ {"svc"} -> Opt(Actors)]
    BY <1>0, <2>1 DEF Opt
  <2> QED
    BY <1>0, <2>1, <2>4, <2>5
<1> QED
  BY <1>1, <1>2, <1>3 DEF Locking

\* What is to be shown of an actor's step.
Proper(a) ==
    /\ act' \in [Actors -> Actor]
    /\ \A b \in Actors : b # a => act'[b] = act[b]
    /\ ActorOK(act'[a])
    /\ Locking(a)
    /\ act'[a].pc \notin {"idle", "done", "dead"} => proc = "serving"

\* Where an actor can be.
LEMMA PcFacts ==
    {"idle", "resolve", "lock", "act", "await", "unlock", "done", "dead", "list", "each",
     "awaiteach", "look", "bcreate", "bstart", "bstartnew", "brecord",
     "trylock", "reread", "inspect", "record"} = Pcs
  BY DEF Pcs

\* The next label is one whose locals are there.
LEMMA ProperTo ==
    ASSUME ActorInv, NEW a \in Actors, NEW l \in Pcs, To(a, l),
           act[a].pc \notin {"idle", "done", "dead"},
           ActorOK([act[a] EXCEPT !.pc = l]),
           \/ NoLocks /\ (act[a].pc \in Held <=> l \in Held)
           \/ act[a].pc \notin Held /\ l \in Held /\ FreeKey(act[a].key) /\ HoldKey(act[a].key, a)
           \/ act[a].pc \in Held /\ l \notin Held /\ HoldKey(act[a].key, None)
    PROVE  Proper(a)
<1>1. Turns(a, [act[a] EXCEPT !.pc = l])
  BY ToTurns DEF ActorInv
<1>2. act'[a].pc = l /\ act'[a].key = act[a].key
  BY <1>1 DEF Turns, ActorInv, Actor
<1>3. Locking(a)
  BY <1>2 DEF Locking
<1>4. proc = "serving"
  BY DEF ActorInv, HeldInv
<1> QED
  BY <1>1, <1>3, <1>4 DEF Turns, Proper

\* The same for a step that sets other locals and leaves the locks alone.
LEMMA ProperSet ==
    ASSUME ActorInv, NEW a \in Actors, NEW r, Turns(a, r), NoLocks, ActorOK(r),
           act[a].pc \in Held <=> r.pc \in Held,
           r.pc \in Held => r.key = act[a].key,
           proc = "serving" \/ act[a].pc \notin {"idle", "done", "dead"}
    PROVE  Proper(a)
<1>1. Locking(a)
  BY DEF Turns, Locking
<1>2. proc = "serving"
  BY DEF ActorInv, HeldInv
<1> QED
  BY <1>1, <1>2 DEF Turns, Proper

\* The requests.
LEMMA ProperAsk ==
    ASSUME ActorInv, NEW a \in Actors, Ask(a) PROVE Proper(a)
<1> USE DEF Actor, ActorOK, NoAct, Pcs, Opt, Held, Kinds, Keys
<1>0. act \in [Actors -> Actor] /\ rec \in Record
  BY DEF ActorInv, TypeInv, StateOK
<1>1. ASSUME NEW r, ActorOK(r), r.pc \notin Held, Set(a, r), NoLocks, proc = "serving", Is(a, "idle")
      PROVE  Proper(a)
  <2>1. Turns(a, r)
    BY <1>0, <1>1, SetTurns
  <2> QED
    BY <1>1, <2>1, ProperSet DEF Is
<1>2. ASSUME NEW k \in Kinds, RequestStack(a, k) PROVE Proper(a)
  <2>1. ActorOK([NoAct EXCEPT !.pc = "list", !.kind = k])
    OBVIOUS
  <2> QED
    BY <1>1, <1>2, <2>1 DEF RequestStack
<1>3. ASSUME NEW k \in Kinds, NEW r \in Live \cup {"svc"}, Request(a, k, r) PROVE Proper(a)
  <2>1. ActorOK([NoAct EXCEPT !.pc = "resolve", !.kind = k, !.ref = r])
    BY DEF Live
  <2> QED
    BY <1>1, <1>3, <2>1 DEF Request
<1>4. CASE BringUp(a)
  <2>1. ActorOK([NoAct EXCEPT !.pc = "look", !.kind = "bringup", !.mc = rec])
    BY <1>0
  <2> QED
    BY <1>1, <1>4, <2>1 DEF BringUp
<1>5. CASE Sweep(a)
  <2>1. PICK c \in Holder(ctr, "svc") :
          Set(a, [NoAct EXCEPT !.pc = "trylock", !.kind = "rerecord", !.ref = c, !.key = "svc"])
    BY <1>5 DEF Sweep
  <2>2. ActorOK([NoAct EXCEPT !.pc = "trylock", !.kind = "rerecord", !.ref = c, !.key = "svc"])
    BY DEF Holder
  <2> QED
    BY <1>1, <1>5, <2>1, <2>2 DEF Sweep
<1> QED
  BY <1>2, <1>3, <1>4, <1>5 DEF Ask

\* Start, stop and restart, of a container and of a stack.
LEMMA ProperAct ==
    ASSUME ActorInv, NEW a \in Actors,
           \/ Resolve(a) \/ TakeLock(a) \/ Act(a) \/ Await(a) \/ ReleaseLock(a)
           \/ ListStack(a) \/ Each(a) \/ AwaitEach(a)
    PROVE  Proper(a)
<1> USE DEF ActorOK, Held
<1>0. act \in [Actors -> Actor] /\ act[a] \in Actor /\ ActorOK(act[a]) /\ ctr \in Table
  BY DEF ActorInv, TypeInv, StateOK
<1>1. CASE Resolve(a)
  <2>1. PICK k : act' = [act EXCEPT ![a].pc = "lock", ![a].key = k] /\ k \in Keys
    <3>1. \A c \in Named(act[a].ref) : ctr[c].name \in Keys
      BY <1>0, <1>1, NamedExist DEF Resolve, Is, Table, Container, Names, Keys
    <3>2. act[a].ref \in Keys
      BY <1>0, <1>1 DEF Resolve, Is, Keys
    <3> QED
      BY <1>1, <3>1, <3>2 DEF Resolve
  <2> DEFINE r == [act[a] EXCEPT !.pc = "lock", !.key = k]
  <2>2. ActorOK(r)
    BY <1>0, <1>1, <2>1, PcFacts DEF Actor, Opt, Resolve, Is
  <2>3. Turns(a, r)
    BY <1>0, <2>1, <2>2 DEF Turns
  <2>4. r.pc = "lock"
    BY <1>0 DEF Actor
  <2> QED
    BY <1>1, <2>2, <2>3, <2>4, ProperSet DEF Resolve, Is
<1>2. CASE TakeLock(a)
  <2>1. ActorOK([act[a] EXCEPT !.pc = "act"])
    BY <1>0, <1>2, PcFacts DEF Actor, TakeLock, Is
  <2> QED
    BY <1>2, <2>1, ProperTo, PcFacts DEF TakeLock, Is
<1>3. CASE Act(a)
  <2>1. PICK l \in {"await", "unlock"} : To(a, l)
    BY <1>3 DEF Act
  <2>2. ActorOK([act[a] EXCEPT !.pc = l])
    BY <1>0, <1>3, PcFacts DEF Actor, Act, Is
  <2> QED
    BY <1>3, <2>1, <2>2, ProperTo, PcFacts DEF Act, Is
<1>4. CASE Await(a)
  <2>1. ActorOK([act[a] EXCEPT !.pc = "unlock"])
    BY <1>0, <1>4, PcFacts DEF Actor, Await, Is
  <2> QED
    BY <1>4, <2>1, ProperTo, PcFacts DEF Await, Is
<1>5. CASE ReleaseLock(a)
  <2>1. ActorOK([act[a] EXCEPT !.pc = "done"])
    BY <1>0, <1>5, PcFacts DEF Actor, ReleaseLock, Is
  <2> QED
    BY <1>5, <2>1, ProperTo, PcFacts DEF ReleaseLock, Is
<1>6. CASE ListStack(a)
  <2>1. CASE To(a, "done")
    <3>1. ActorOK([act[a] EXCEPT !.pc = "done"])
      BY <1>0, PcFacts DEF Actor
    <3> QED
      BY <1>6, <2>1, <3>1, ProperTo, PcFacts DEF ListStack, Is
  <2>2. CASE act' = [act EXCEPT ![a].pc = "each", ![a].todo = Live]
    <3> DEFINE r == [act[a] EXCEPT !.pc = "each", !.todo = Live]
    <3>1. ActorOK(r)
      BY <1>0, <1>6, PcFacts DEF Actor, ListStack, Is, Live
    <3>2. Turns(a, r)
      BY <1>0, <2>2, <3>1 DEF Turns
    <3>3. r.pc = "each"
      BY <1>0 DEF Actor
    <3> QED
      BY <1>6, <3>1, <3>2, <3>3, ProperSet DEF ListStack, Is
  <2> QED
    BY <1>6, <2>1, <2>2 DEF ListStack
<1>7. CASE Each(a)
  <2>1. CASE To(a, "done")
    <3>1. ActorOK([act[a] EXCEPT !.pc = "done"])
      BY <1>0, PcFacts DEF Actor
    <3> QED
      BY <1>7, <2>1, <3>1, ProperTo, PcFacts DEF Each, Is
  <2>2. ASSUME NEW c \in act[a].todo, NEW l \in {"awaiteach", "each"},
               act' = [act EXCEPT ![a].todo = @ \ {c}, ![a].ref = c, ![a].pc = l]
        PROVE  Proper(a)
    <3> DEFINE r == [act[a] EXCEPT !.todo = @ \ {c}, !.ref = c, !.pc = l]
    <3>1. ActorOK(r)
      BY <1>0, <1>7, PcFacts DEF Actor, Each, Is
    <3>2. Turns(a, r)
      BY <1>0, <2>2, <3>1 DEF Turns
    <3>3. r.pc = l
      BY <1>0 DEF Actor
    <3> QED
      BY <1>7, <3>1, <3>2, <3>3, ProperSet DEF Each, Is
  <2> QED
    BY <1>7, <2>1, <2>2 DEF Each
<1>8. CASE AwaitEach(a)
  <2>1. PICK l \in {"each", "done"} : To(a, l)
    BY <1>8 DEF AwaitEach
  <2>2. ActorOK([act[a] EXCEPT !.pc = l])
    BY <1>0, <1>8, PcFacts DEF Actor, AwaitEach, Is
  <2> QED
    BY <1>8, <2>1, <2>2, ProperTo, PcFacts DEF AwaitEach, Is
<1> QED
  BY <1>1, <1>2, <1>3, <1>4, <1>5, <1>6, <1>7, <1>8

\* A bring-up takes no lock.
LEMMA ProperBringUp ==
    ASSUME ActorInv, NEW a \in Actors,
           BringUpLook(a) \/ BringUpCreate(a) \/ BringUpStart(a) \/ BringUpRecord(a)
    PROVE  Proper(a)
<1> USE DEF ActorOK, Held
<1>0. act \in [Actors -> Actor] /\ act[a] \in Actor /\ ActorOK(act[a])
  BY DEF ActorInv
<1>1. act[a].pc \in {"look", "bcreate", "bstart", "bstartnew", "brecord"} /\ NoLocks
  BY DEF BringUpLook, BringUpCreate, BringUpStart, BringUpRecord, Is
<1>2. CASE To(a, "done")
  <2>1. ActorOK([act[a] EXCEPT !.pc = "done"])
    BY <1>0, PcFacts DEF Actor
  <2> QED
    BY <1>1, <1>2, <2>1, ProperTo, PcFacts
<1>3. CASE To(a, "bcreate") /\ Is(a, "look")
  <2>1. ActorOK([act[a] EXCEPT !.pc = "bcreate"])
    BY <1>0, <1>3, PcFacts DEF Actor, Is
  <2> QED
    BY <1>1, <1>3, <2>1, ProperTo, PcFacts
<1>4. CASE To(a, "brecord") /\ Is(a, "bstartnew")
  <2>1. ActorOK([act[a] EXCEPT !.pc = "brecord"])
    BY <1>0, <1>4, PcFacts DEF Actor, Is
  <2> QED
    BY <1>1, <1>4, <2>1, ProperTo, PcFacts
<1>5. ASSUME NEW c \in CID, NEW l, act' = [act EXCEPT ![a].pc = l, ![a].ref = c],
             \/ Is(a, "look") /\ l = "bstart"
             \/ Is(a, "bcreate") /\ l = "bstartnew"
      PROVE  Proper(a)
  <2> DEFINE r == [act[a] EXCEPT !.pc = l, !.ref = c]
  <2>1. ActorOK(r)
    BY <1>0, <1>5, PcFacts DEF Actor, Is
  <2>2. Turns(a, r)
    BY <1>0, <1>5, <2>1 DEF Turns
  <2>3. r.pc = l
    BY <1>0 DEF Actor
  <2> QED
    BY <1>1, <1>5, <2>1, <2>2, <2>3, ProperSet
<1> QED
  BY <1>2, <1>3, <1>4, <1>5 DEF BringUpLook, BringUpCreate, BringUpStart, BringUpRecord, Holder,
     Fresh, Is

\* The sweep's rerecord holds the service's lock, if it gets it.
LEMMA ProperSweep ==
    ASSUME ActorInv, NEW a \in Actors, TryLock(a) \/ Reread(a) \/ ReInspect(a) \/ Rerecord(a)
    PROVE  Proper(a)
<1> USE DEF ActorOK, Held
<1>0. act \in [Actors -> Actor] /\ act[a] \in Actor /\ ActorOK(act[a]) /\ ctr \in Table
  BY DEF ActorInv, TypeInv, StateOK
<1>1. CASE TryLock(a)
  <2>0. act[a].pc = "trylock" /\ act[a].key = "svc"
    BY <1>0, <1>1 DEF TryLock, Is
  <2>1. CASE lock = None /\ lock' = a /\ UNCHANGED locks /\ To(a, "reread")
    <3>1. ActorOK([act[a] EXCEPT !.pc = "reread"])
      BY <1>0, <2>0, PcFacts DEF Actor, Keys
    <3>2. FreeKey(act[a].key) /\ HoldKey(act[a].key, a)
      BY <2>0, <2>1 DEF FreeKey, HoldKey
    <3> QED
      BY <2>0, <2>1, <3>1, <3>2, ProperTo, PcFacts
  <2>2. CASE NoLocks /\ To(a, "done")
    <3>1. ActorOK([act[a] EXCEPT !.pc = "done"])
      BY <1>0, PcFacts DEF Actor
    <3> QED
      BY <2>0, <2>2, <3>1, ProperTo, PcFacts
  <2> QED
    BY <1>1, <2>1, <2>2 DEF TryLock, NoLocks
<1>2. CASE Reread(a)
  <2>1. PICK l \in {"inspect", "unlock"} : To(a, l)
    BY <1>2 DEF Reread
  <2>2. ActorOK([act[a] EXCEPT !.pc = l])
    BY <1>0, <1>2, PcFacts DEF Actor, Reread, Is
  <2> QED
    BY <1>2, <2>1, <2>2, ProperTo, PcFacts DEF Reread, Is
<1>3. CASE ReInspect(a)
  <2>1. CASE To(a, "unlock")
    <3>1. ActorOK([act[a] EXCEPT !.pc = "unlock"])
      BY <1>0, <1>3, PcFacts DEF Actor, ReInspect, Is
    <3> QED
      BY <1>3, <2>1, <3>1, ProperTo, PcFacts DEF ReInspect, Is
  <2>2. CASE act' = [act EXCEPT ![a].pc = "record", ![a].mc = Spec_of(act[a].ref)]
    <3> DEFINE r == [act[a] EXCEPT !.pc = "record", !.mc = Spec_of(act[a].ref)]
    <3>1. Spec_of(act[a].ref) \in Record
      BY <1>0, <1>3 DEF ReInspect, Is, Spec_of, Record, Table, Container
    <3>2. ActorOK(r)
      BY <1>0, <1>3, <3>1, PcFacts DEF Actor, Opt, ReInspect, Is
    <3>3. Turns(a, r)
      BY <1>0, <2>2, <3>2 DEF Turns
    <3>4. r.pc = "record" /\ r.key = act[a].key
      BY <1>0 DEF Actor
    <3> QED
      BY <1>3, <3>2, <3>3, <3>4, ProperSet DEF ReInspect, Is
  <2> QED
    BY <1>3, <2>1, <2>2 DEF ReInspect
<1>4. CASE Rerecord(a)
  <2>1. ActorOK([act[a] EXCEPT !.pc = "unlock"])
    BY <1>0, <1>4, PcFacts DEF Actor, Rerecord, Is
  <2> QED
    BY <1>4, <2>1, ProperTo, PcFacts DEF Rerecord, Is
<1> QED
  BY <1>1, <1>2, <1>3, <1>4

-----------------------------------------------------------------------------
(* The first invariant: types, and who holds which lock. *)

\* The steps beside the actors, and a crash, are steps of Update.
LEMMA BesideNext == (Beside => Next) /\ (Die => Next)
  BY DEF Beside, Die, Next

\* What an actor's step shares with the updates keeps its type.
LEMMA SharedTypes ==
    ASSUME TypeInv, NEW a \in Actors, Shared(a)
    PROVE  TypeInv' /\ KeepsId(ctr, ctr') /\ trusted \subseteq trusted'
<1>1. ctr' \in Table /\ KeepsId(ctr, ctr')
  BY DEF Shared, Keeps, Makes
<1>2. /\ rec' \in Record /\ trusted' \subseteq CID /\ trusted \subseteq trusted'
      /\ taken' \subseteq trusted'
  BY DEF Shared, Makes, Relies, SameTrust, TypeInv, StateOK
<1>3. UNCHANGED <<localTag, remoteTag, job, row, active, proc, found, passed, budget>>
  BY DEF Shared, rest, procVars
<1> QED
  BY <1>1, <1>2, <1>3 DEF TypeInv, StateOK

\* The first state.
LEMMA ActorInit == LInit => ActorInv
<1> SUFFICES ASSUME LInit PROVE ActorInv
  OBVIOUS
<1>1. TypeInv /\ LockInv /\ lock = None
  BY TypeInit, IndInit DEF LInit, IndInv, Init
<1>2. ActorOK(NoAct) /\ NoAct.pc = "idle"
  BY PcFacts DEF NoAct, ActorOK, Actor, Opt, Held
<1>3. \A a \in Actors : act[a] = NoAct /\ a # None
  BY ActorsAssumption DEF LInit
<1>4. HeldInv
  BY <1>1, <1>2, <1>3 DEF LInit, HeldInv, Held
<1>5. act \in [Actors -> Actor] /\ \A a \in Actors : ActorOK(act[a])
  BY <1>2 DEF LInit, ActorOK
<1> QED
  BY <1>1, <1>4, <1>5 DEF LInit, ActorInv, Opt

\* Every step keeps it.
LEMMA ActorInvStep == ActorInv /\ [LNext]_allVars => ActorInv'
<1> SUFFICES ASSUME ActorInv, [LNext]_allVars PROVE ActorInv'
  OBVIOUS
<1>0. TypeInv /\ LockInv /\ UpStill
  BY DEF ActorInv, UpStill
<1>1. ASSUME NEW a \in Actors, Ask(a) \/ ActorStep(a) PROVE ActorInv'
  <2>1. Shared(a)
    BY <1>1, ActorShared
  <2>2. Proper(a)
    BY <1>1, ProperAsk, ProperAct, ProperBringUp, ProperSweep DEF ActorStep
  <2>3. TypeInv' /\ UpStill' /\ proc' = proc /\ job' = job
    BY <1>0, <2>1, SharedTypes DEF Shared, rest, procVars
  <2>4. /\ lock' \in Opt(Jobs \cup Actors) /\ locks' \in [Keys \ {"svc"} -> Opt(Actors)]
        /\ HeldInv'
        /\ \A j \in Jobs : lock' = j <=> lock = j
    BY <2>2, <2>3, LockingKeeps DEF Proper
  <2>5. LockInv'
    BY <1>0, <2>3, <2>4 DEF LockInv
  <2>6. \A b \in Actors : ActorOK(act'[b])
    BY <2>2 DEF Proper, ActorInv
  <2> QED
    BY <2>2, <2>3, <2>4, <2>5, <2>6 DEF ActorInv, Proper, UpStill, ActorOK
<1>2. ASSUME NEW c \in CID, Stopped(c) PROVE ActorInv'
  <2>1. UNCHANGED <<rest, rec, trusted, taken, act, lock, locks>>
    BY <1>2 DEF Stopped, quiet, NoLocks
  <2>2. Keeps /\ UpStill'
    BY <1>0, <1>2, KeepsStopped DEF TypeInv, StateOK
  <2>3. UNCHANGED <<localTag, remoteTag, job, row, active, proc, found, passed, budget>>
    BY <2>1 DEF rest, procVars
  <2>4. TypeInv' /\ LockInv'
    BY <1>0, <2>1, <2>2, <2>3 DEF TypeInv, StateOK, Keeps, LockInv
  <2> QED
    BY <2>1, <2>2, <2>3, <2>4 DEF ActorInv, HeldInv, ActorOK, UpStill
<1>3. CASE Beside
  <2>1. TypeInv'
    BY <1>0, <1>3, BesideNext, TypeStep
  <2>2. /\ LockInv'
        /\ lock' = lock \/ (lock = None /\ lock' \in Jobs) \/ (lock \in Jobs /\ lock' = None)
        /\ proc = "serving" => proc' = "serving"
    BY <1>0, <1>3, BesideLocks
  <2>3. act' = act /\ locks' = locks /\ stopping' = {c \in stopping : ctr'[c].state \in Up}
    BY <1>3 DEF Beside, Stay
  <2>4. HeldInv'
    BY <2>2, <2>3, ActorsAssumption DEF ActorInv, HeldInv
  <2>5. lock' \in Opt(Jobs \cup Actors)
    BY <2>2 DEF ActorInv, Opt
  <2> QED
    BY <2>1, <2>2, <2>3, <2>4, <2>5 DEF ActorInv, ActorOK
<1>4. CASE Die
  <2>1. TypeInv'
    BY <1>0, <1>4, BesideNext, TypeStep
  <2>2. \A k \in Jobs : job'[k].pc \in {"idle", "done", "dead"}
    BY <1>0, <1>4 DEF Die, Crash, TypeInv, StateOK, Locals
  <2>3. ctr' = ctr /\ lock' = None /\ proc' = "down"
    BY <1>4 DEF Die, Crash, dockerVars
  <2>4. LockInv'
    BY <2>2, <2>3, InitAssumption DEF LockInv, Quiescent
  <2>5. \A a \in Actors : ActorOK(act'[a]) /\ act'[a].pc \in {"idle", "done", "dead"}
    BY <1>4, PcFacts DEF Die, ActorInv, ActorOK, Actor, Held
  <2>6. act' \in [Actors -> Actor]
    BY <1>4, <2>5 DEF Die, ActorOK
  <2>7. HeldInv' /\ locks' \in [Keys \ {"svc"} -> Opt(Actors)]
    BY <1>4, <2>3, <2>5, ActorsAssumption DEF Die, HeldInv, Held, Opt
  <2> QED
    BY <1>4, <2>1, <2>3, <2>4, <2>5, <2>6, <2>7 DEF Die, ActorInv, Opt
<1>5. CASE UNCHANGED allVars
  <2>1. UNCHANGED vars /\ UNCHANGED <<act, locks, stopping>>
    BY <1>5 DEF allVars, lifeVars
  <2>2. TypeInv'
    BY <1>0, <2>1, TypeStep
  <2> QED
    BY <2>1, <2>2 DEF ActorInv, LockInv, HeldInv, ActorOK, vars
<1> QED
  BY <1>1, <1>2, <1>3, <1>4, <1>5 DEF LNext

\* Whichever calls fail and whenever Veery crashes, the actors keep their types, and a
\* container lock is held by exactly the job or the actor that acts under it
\* (withContainerLock, rerecord).
THEOREM LifeTypeCorrect == LSpec => []LTypeOK
<1>1. ActorInv => LTypeOK
  BY DEF ActorInv, HeldInv, ActorOK, LTypeOK
<1> QED
  BY <1>1, ActorInit, ActorInvStep, PTL DEF LSpec

-----------------------------------------------------------------------------
(* The second invariant: Update's, beside the actors. *)

\* A replacement that an update has yet to prove stays one that nobody made: the ids
\* it might be confused with were used before it.
LEMMA UntriedStep == IndInv /\ Untried /\ [Next]_vars => Untried'
<1> SUFFICES ASSUME IndInv, Untried, [Next]_vars, NEW k \in Jobs,
                    job'[k].pc \in {"start", "verify", "rbremove"}
             PROVE  /\ job'[k].new \notin trusted'
                    /\ job'[k].new # None => ctr'[job'[k].new].state # "unused"
  BY DEF Untried
<1>0. /\ TypeInv /\ job \in [Jobs -> Locals] /\ ctr \in Table /\ trusted \subseteq CID
      /\ \A c \in trusted : ctr[c].state # "unused"
      /\ KeepsId(ctr, ctr') /\ job'[k].new \in Opt(CID)
  BY KeepsStep, TypeStep DEF IndInv, TypeInv, StateOK, Locals
<1> DEFINE New == job[k].new
<1>1. ASSUME job[k].pc \in {"start", "verify", "rbremove"}, job'[k].new = New, New \notin trusted'
      PROVE  /\ job'[k].new \notin trusted'
             /\ job'[k].new # None => ctr'[job'[k].new].state # "unused"
  BY <1>0, <1>1 DEF Untried, KeepsId, Opt
<1>2. ASSUME UNCHANGED <<job, trusted>>
      PROVE  /\ job'[k].new \notin trusted'
             /\ job'[k].new # None => ctr'[job'[k].new].state # "unused"
  BY <1>1, <1>2 DEF Untried
<1>3. ASSUME NEW j \in Jobs, Update(j) \/ JobStep(j)
      PROVE  /\ job'[k].new \notin trusted'
             /\ job'[k].new # None => ctr'[job'[k].new].state # "unused"
  <2>1. CASE Create(j) /\ j = k
    <3>1. CASE Goto(j, "rbremove")
      <4>1. job'[k].new = job[k].new /\ job[k].new = None /\ trusted' = trusted
        BY <1>0, <2>1, <3>1, GotoMoves, LabelFacts DEF Moves, Create, At, IndInv, JobInv, JobInvOf
      <4> QED
        BY <1>0, <4>1, NoneAssumption
    <3>2. ASSUME NEW c \in Fresh, ctr' = CreateC(ctr, c, "svc", localTag, job[j].mc.spec),
                 job' = [job EXCEPT ![j].pc = "start", ![j].new = c]
          PROVE  /\ job'[k].new \notin trusted'
                 /\ job'[k].new # None => ctr'[job'[k].new].state # "unused"
      <4>1. c \in CID /\ ctr[c].state = "unused" /\ trusted' = trusted
        BY <2>1, <3>2 DEF Fresh, Create
      <4>2. job'[k].new = c
        BY <1>0, <2>1, <3>2, <4>1, CreateMoves
      <4>3. ctr'[c].state = "created"
        BY <1>0, <3>2, <4>1 DEF CreateC, Table
      <4> QED
        BY <1>0, <4>1, <4>2, <4>3
    <3> QED
      BY <2>1, <3>1, <3>2 DEF Create
  <2>2. CASE Verify(j) /\ j = k
    <3>1. CASE Goto(j, "drop")
      BY <1>0, <2>2, <3>1, GotoMoves, LabelFacts DEF Moves
    <3>2. CASE Goto(j, "rbremove") /\ trusted' = trusted
      <4>1. job'[k].new = job[k].new /\ job[k].pc = "verify"
        BY <1>0, <2>2, <3>2, GotoMoves, LabelFacts DEF Moves, Verify, At
      <4> QED
        BY <1>1, <3>2, <4>1 DEF Untried
    <3> QED
      BY <2>2, <3>1, <3>2 DEF Verify
  <2>3. CASE j = k /\ ~Create(j) /\ ~Verify(j)
    <3>2. CASE StartNew(j)
      <4>1. job'[k].new = job[k].new /\ job[k].pc = "start" /\ trusted' = trusted
        BY <2>3, <3>2, <1>0, JobMoves DEF Moves, StartNew, At
      <4> QED
        BY <1>1, <4>1 DEF Untried
    <3>3. CASE ~StartNew(j)
      <4>1. CASE Update(j)
        BY <1>0, <2>3, <4>1, BeginMoves DEF Update, TypeInv, StateOK
      <4>2. CASE Inspect(j)
        <5>1. job'[k].pc \in {"pull", "unlock"}
          <6>1. CASE Return(j, "failed")
            BY <1>0, <2>3, <6>1, ReturnMoves DEF Moves, Verdicts, Failures
          <6>2. ASSUME NEW c \in Holder(ctr, "svc"), NEW mc,
                       job' = [job EXCEPT ![j].pc = "pull", ![j].mc = mc, ![j].old = c,
                                          ![j].seen = ctr[c].state]
                PROVE  job'[k].pc = "pull"
            BY <1>0, <2>3, <6>2 DEF Locals
          <6> QED
            BY <4>2, <6>1, <6>2 DEF Inspect
        <5> QED
          BY <5>1
      <4>3. CASE ~Update(j) /\ ~Inspect(j)
        BY <1>0, <1>3, <2>3, <3>3, <4>3, JobMoves DEF JobStep, Moves
      <4> QED
        BY <4>1, <4>2, <4>3
    <3> QED
      BY <3>2, <3>3
  <2>4. CASE j # k
    <3>1. job'[k] = job[k]
      BY <1>0, <1>3, <2>4, JobLocks DEF LocksOf
    <3>2. job[j].pc \in Quiescent
      BY <2>4, <3>1 DEF IndInv, LockInv, Quiescent
    <3>3. trusted' = trusted
      BY <1>3, <3>2 DEF Update, JobStep, Lock, Inspect, Pull, ClearParked, Park, StopOld, Create,
         StartNew, Verify, DropOld, RecordNew, RollbackRemove, RollbackRename, RollbackStart,
         Unlock, FinishUpdateJob, Forget, At, Quiescent
    <3> QED
      BY <1>1, <3>1, <3>3 DEF Untried
  <2> QED
    BY <2>1, <2>2, <2>3, <2>4
<1>4. CASE Crash
  BY <1>0, <1>4 DEF Crash, Locals
<1>5. CASE Restart \/ RecoverStep
  <2>1. job' = job /\ proc # "serving"
    BY <1>5, RestLocks
  <2> QED
    BY <2>1 DEF IndInv, LockInv
<1>6. ASSUME NEW c \in CID, NEW s \in Specs, UserRecreate(c, s)
      PROVE  /\ job'[k].new \notin trusted'
             /\ job'[k].new # None => ctr'[job'[k].new].state # "unused"
  <2>1. trusted' = trusted \cup {c} /\ ctr[c].state = "unused" /\ job' = job
    BY <1>6 DEF UserRecreate, jobVars
  <2>2. New \notin trusted'
    BY <2>1, NoneAssumption DEF Untried
  <2> QED
    BY <1>1, <2>1, <2>2
<1>7. CASE Publish \/ (\E c \in CID : ContainerDrift(c)) \/ UNCHANGED vars
  BY <1>2, <1>7 DEF Publish, ContainerDrift, vars, jobVars
<1> QED
  BY <1>3, <1>4, <1>5, <1>6, <1>7 DEF Next, Done

\* With the service's lock in an actor's hands, no update has a replacement in the
\* making: what exists is trusted, unless Recover passed over what is parked.
LEMMA LockedOut ==
    ASSUME ActorInv, IndInv, NEW a \in Actors, lock = a, proc = "serving",
           NEW c \in CID, Exists(ctr, c)
    PROVE  c \in trusted \/ (passed /\ c \in Svc /\ Old # {})
<1>1. \A j \in Jobs : job[j].pc \notin {"start", "verify", "rbremove"}
  BY ActorsAssumption DEF IndInv, LockInv, Quiescent
<1>2. c \in Holder(ctr, "svc") \/ c \in Holder(ctr, "old")
  BY ExistsH DEF IndInv, TypeInv, StateOK
<1> QED
  BY <1>1, <1>2 DEF IndInv, NamesInv, NamesProved, Unsettled, Tentative, Svc, Old

\* What an actor is going to record is a trusted container's spec.
LEMMA RecordingStep ==
    ASSUME LifeInv, NEW a \in Actors, Ask(a) \/ ActorStep(a), Shared(a)
    PROVE  RecordingOf(act[a])'
<1>0. /\ ActorInv /\ IndInv /\ act \in [Actors -> Actor] /\ act[a] \in Actor
      /\ ActorOK(act[a]) /\ RecordingOf(act[a])
      /\ ctr \in Table /\ trusted \subseteq CID
      /\ \A c \in trusted : ctr[c].state # "unused"
  BY DEF LifeInv, ActorInv, IndInv, TypeInv, StateOK
<1>1. ASSUME act'[a].pc \notin {"bstartnew", "brecord", "record"} PROVE RecordingOf(act[a])'
  BY <1>1 DEF RecordingOf
<1>2. CASE Ask(a)
  <2>1. ASSUME NEW k, RequestStack(a, k) PROVE RecordingOf(act[a])'
    BY <1>0, <1>1, <2>1 DEF RequestStack, Set, NoAct
  <2>2. ASSUME NEW k, NEW r, Request(a, k, r) PROVE RecordingOf(act[a])'
    BY <1>0, <1>1, <2>2 DEF Request, Set, NoAct
  <2>3. CASE BringUp(a)
    BY <1>0, <1>1, <2>3 DEF BringUp, Set, NoAct
  <2>4. CASE Sweep(a)
    BY <1>0, <1>1, <2>4 DEF Sweep, Set, NoAct
  <2> QED
    BY <1>2, <2>1, <2>2, <2>3, <2>4 DEF Ask
<1>3. CASE Resolve(a) \/ TakeLock(a) \/ Act(a) \/ Await(a) \/ ReleaseLock(a)
  <2>1. CASE Resolve(a) \/ TakeLock(a)
    BY <1>0, <1>1, <2>1 DEF Resolve, TakeLock, To, Actor
  <2>2. CASE Act(a)
    BY <1>0, <1>1, <2>2 DEF Act, To, Actor
  <2>3. CASE Await(a) \/ ReleaseLock(a)
    BY <1>0, <1>1, <2>3 DEF Await, ReleaseLock, To, Actor
  <2> QED
    BY <1>3, <2>1, <2>2, <2>3
<1>4. CASE ListStack(a) \/ Each(a) \/ AwaitEach(a)
  <2>1. CASE ListStack(a) \/ AwaitEach(a)
    BY <1>0, <1>1, <2>1 DEF ListStack, AwaitEach, To, Actor
  <2>2. ASSUME NEW c, NEW l \in {"awaiteach", "each"},
               act' = [act EXCEPT ![a].todo = @ \ {c}, ![a].ref = c, ![a].pc = l]
        PROVE  act'[a].pc = l
    BY <1>0, <2>2 DEF Actor
  <2>3. To(a, "done") => act'[a].pc = "done"
    BY <1>0 DEF To, Actor
  <2>4. CASE Each(a)
    BY <1>1, <2>2, <2>3, <2>4 DEF Each
  <2> QED
    BY <1>4, <2>1, <2>4
<1>5. CASE BringUpLook(a) \/ BringUpRecord(a)
  BY <1>0, <1>1, <1>5 DEF BringUpLook, BringUpRecord, To, Actor
<1>6. CASE TryLock(a) \/ Reread(a) \/ Rerecord(a)
  BY <1>0, <1>1, <1>6 DEF TryLock, Reread, Rerecord, To, Actor
<1>7. CASE BringUpCreate(a)
  <2>1. CASE To(a, "done")
    BY <1>0, <1>1, <2>1 DEF To, Actor
  <2>2. ASSUME NEW c \in Fresh, ctr' = CreateC(ctr, c, "svc", localTag, act[a].mc.spec),
               trusted' = trusted \cup {c},
               act' = [act EXCEPT ![a].pc = "bstartnew", ![a].ref = c]
        PROVE  RecordingOf(act[a])'
    <3>1. act'[a].pc = "bstartnew" /\ act'[a].ref = c /\ act'[a].mc = act[a].mc
      BY <1>0, <2>2 DEF Actor
    <3>2. ctr'[c].spec = act[a].mc.spec
      BY <1>0, <2>2 DEF CreateC, Table, Fresh
    <3> QED
      BY <2>2, <3>1, <3>2 DEF RecordingOf
  <2> QED
    BY <1>7, <2>1, <2>2 DEF BringUpCreate
<1>8. CASE BringUpStart(a)
  <2>1. KeepsId(ctr, ctr') /\ trusted' = trusted
    BY <1>0, <1>8, SharedTypes DEF BringUpStart, quiet, IndInv
  <2>2. act'[a].ref = act[a].ref /\ act'[a].mc = act[a].mc
    BY <1>0, <1>8 DEF BringUpStart, To, Actor
  <2>3. act'[a].pc = "done" \/ (act'[a].pc = "brecord" /\ act[a].pc = "bstartnew")
    BY <1>0, <1>8 DEF BringUpStart, To, Is, Actor
  <2> QED
    BY <1>0, <2>1, <2>2, <2>3 DEF RecordingOf, KeepsId
<1>9. CASE ReInspect(a)
  <2>1. CASE To(a, "unlock")
    BY <1>0, <1>1, <2>1 DEF To, Actor
  <2>2. CASE /\ Exists(ctr, act[a].ref)
             /\ act' = [act EXCEPT ![a].pc = "record", ![a].mc = Spec_of(act[a].ref)]
    <3>1. act[a].ref \in CID /\ lock = a /\ proc = "serving"
      BY <1>0, <1>9 DEF ReInspect, Is, ActorOK, ActorInv, HeldInv, Held
    <3>2. act[a].ref \in trusted'
      <4>1. CASE passed
        BY <1>9, <2>2, <4>1, <1>0 DEF ReInspect, Rely, To, Actor
      <4>2. CASE ~passed
        BY <1>0, <1>9, <2>2, <3>1, <4>2, LockedOut, SharedTypes DEF IndInv
      <4> QED
        BY <4>1, <4>2
    <3>3. act'[a].pc = "record" /\ act'[a].mc.cid = act[a].ref /\ act'[a].mc.spec = ctr[act[a].ref].spec
      BY <1>0, <2>2 DEF Actor, Spec_of
    <3>4. ctr' = ctr
      BY <1>9 DEF ReInspect
    <3> QED
      BY <3>2, <3>3, <3>4 DEF RecordingOf
  <2> QED
    BY <1>9, <2>1, <2>2 DEF ReInspect
<1> QED
  BY <1>2, <1>3, <1>4, <1>5, <1>6, <1>7, <1>8, <1>9 DEF ActorStep

\* So the record stays that of a trusted container.
LEMMA RecordsVerified ==
    ASSUME LifeInv, NEW a \in Actors, Ask(a) \/ ActorStep(a), Shared(a)
    PROVE  RecordVerified'
<1>0. /\ TypeInv /\ RecordVerified /\ RecordingOf(act[a]) /\ ActorOK(act[a])
      /\ \A c \in trusted : ctr[c].state # "unused" /\ c \in CID
  BY DEF LifeInv, ActorInv, IndInv, TypeInv, StateOK
<1>1. KeepsId(ctr, ctr') /\ trusted \subseteq trusted'
  BY <1>0, SharedTypes
<1>2. CASE BringUpRecord(a)
  BY <1>0, <1>1, <1>2 DEF BringUpRecord, Is, RecordingOf, RecordVerified, ActorOK, Record, KeepsId
<1>3. CASE Rerecord(a)
  BY <1>0, <1>1, <1>3 DEF Rerecord, Is, RecordingOf, RecordVerified, KeepsId
<1>4. CASE rec' = rec
  BY <1>0, <1>1, <1>4 DEF RecordVerified, KeepsId
<1>5. CASE Ask(a)
  BY <1>4, <1>5 DEF Ask, RequestStack, Request, BringUp, Sweep, Still
<1>6. CASE \/ Resolve(a) \/ TakeLock(a) \/ Act(a) \/ Await(a) \/ ReleaseLock(a)
           \/ ListStack(a) \/ Each(a) \/ AwaitEach(a)
           \/ BringUpLook(a) \/ BringUpCreate(a) \/ BringUpStart(a)
           \/ TryLock(a) \/ Reread(a) \/ ReInspect(a)
  BY <1>4, <1>6 DEF Resolve, TakeLock, Act, Await, ReleaseLock, ListStack, Each, AwaitEach,
     BringUpLook, BringUpCreate, BringUpStart, TryLock, Reread, ReInspect, Still
<1> QED
  BY <1>2, <1>3, <1>5, <1>6 DEF ActorStep

\* What others are going to record stays trusted, too.
LEMMA RecordingKept ==
    ASSUME LifeInv, NEW b \in Actors, act'[b] = act[b], KeepsId(ctr, ctr'), trusted \subseteq trusted'
    PROVE  RecordingOf(act[b])'
<1>1. RecordingOf(act[b]) /\ \A c \in trusted : c \in CID /\ ctr[c].state # "unused"
  BY DEF LifeInv, IndInv, TypeInv, StateOK
<1> QED
  BY <1>1 DEF RecordingOf, KeepsId

\* The first state.
LEMMA LifeInit == LInit => LifeInv
<1> SUFFICES ASSUME LInit PROVE LifeInv
  OBVIOUS
<1>1. ActorInv /\ IndInv
  BY ActorInit, IndInit DEF LInit
<1>2. \A a \in Actors : act[a].pc = "idle"
  BY DEF LInit, NoAct
<1>3. \A j \in Jobs : job[j].pc = "idle"
  BY DEF LInit, Init
<1> QED
  BY <1>1, <1>2, <1>3 DEF LifeInv, Untried, RecordingOf

\* Every step keeps the invariant, if removing does not fail.
LEMMA LifeInvStep == ASSUME Reliable PROVE LifeInv /\ [LNext]_allVars => LifeInv'
<1> SUFFICES ASSUME LifeInv, [LNext]_allVars PROVE LifeInv'
  OBVIOUS
<1>0. /\ ActorInv /\ ActorInv' /\ LockInv' /\ IndInv /\ TypeInv /\ Untried
      /\ \A c \in trusted : ctr[c].state # "unused" /\ c \in CID
  BY ActorInvStep DEF LifeInv, ActorInv, IndInv, TypeInv, StateOK
<1>1. ASSUME NEW a \in Actors, Ask(a) \/ ActorStep(a) PROVE LifeInv'
  <2>1. Shared(a) /\ IndFrame
    BY <1>0, <1>1, ActorShared, SharedTypes DEF IndFrame
  <2>2. UNCHANGED <<job, procVars>>
    BY <2>1 DEF Shared, rest
  <2>3. RecordVerified' /\ RecordingOf(act[a])'
    BY <1>1, <2>1, RecordsVerified, RecordingStep
  <2>4. \A b \in Actors : RecordingOf(act[b])'
    <3>1. \A b \in Actors : b # a => act'[b] = act[b]
      BY <1>0, <1>1, ProperAsk, ProperAct, ProperBringUp, ProperSweep DEF ActorStep, Proper
    <3> QED
      BY <2>1, <2>3, <3>1, RecordingKept DEF IndFrame
  <2>5. CASE Keeps /\ SameTrust
    <3>1. IndInv'
      BY <1>0, <2>1, <2>2, <2>3, <2>5, IndKeeps DEF Keeps, SameTrust
    <3>2. Untried'
      <4>1. \A j \in Jobs : job[j].new \in Opt(CID)
        BY <1>0, LocalsFacts DEF TypeInv, StateOK
      <4> QED
        BY <1>0, <2>2, <2>5, <4>1 DEF Untried, Keeps, KeepsId, Opt, SameTrust
    <3> QED
      BY <1>0, <2>4, <3>1, <3>2 DEF LifeInv
  <2>7. CASE Keeps /\ Relies(a)
    <3>1. IndInv'
      BY <1>0, <2>1, <2>2, <2>3, <2>7, IndKeeps DEF Keeps, Relies
    <3>2. lock = a /\ a \notin Jobs
      BY <1>0, <2>7, ActorsAssumption DEF Relies, ActorInv, ActorOK, HeldInv, Held
    <3>3. \A j \in Jobs : job[j].pc \in Quiescent
      BY <1>0, <3>2 DEF IndInv, LockInv
    <3>4. Untried'
      BY <2>2, <3>3 DEF Untried, Quiescent
    <3> QED
      BY <1>0, <2>4, <3>1, <3>4 DEF LifeInv
  <2>6. ASSUME UNCHANGED <<rec, lock>>, NEW c \in CID, Makes(c, act[a].mc.spec) PROVE LifeInv'
    <3>1. UNCHANGED jobVars
      BY <2>1, <2>6 DEF Shared, rest, jobVars
    <3>2. c \notin Holder(ctr, "old")
      BY <2>6 DEF Makes, Holder, Exists
    <3>3. IndInv'
      BY <1>0, <2>1, <2>2, <2>6, <3>1, <3>2, IndMade DEF Makes
    <3>4. Untried'
      <4>1. \A j \in Jobs : job[j].new \in Opt(CID)
        BY <1>0, LocalsFacts DEF TypeInv, StateOK
      <4> QED
        BY <1>0, <2>2, <2>6, <4>1, NoneAssumption DEF Untried, Makes, KeepsId, Opt
    <3> QED
      BY <1>0, <2>4, <3>3, <3>4 DEF LifeInv
  <2> QED
    BY <2>1, <2>5, <2>6, <2>7 DEF Shared
<1>2. ASSUME NEW c \in CID, Stopped(c) PROVE LifeInv'
  <2>1. UNCHANGED <<rec, job, procVars, trusted, act>>
    BY <1>2 DEF Stopped, quiet, rest
  <2>2. Keeps
    BY <1>0, <1>2, KeepsStopped DEF ActorInv, UpStill, TypeInv, StateOK
  <2>3. IndFrame
    BY <1>0, <2>1, <2>2 DEF IndFrame, Keeps, ActorInv
  <2>4. RecordVerified'
    BY <1>0, <2>1, <2>3 DEF IndFrame, IndInv, RecordVerified, KeepsId
  <2>5. IndInv'
    BY <1>0, <2>1, <2>2, <2>3, <2>4, IndKeeps DEF Keeps
  <2>6. Untried'
    <3>1. \A j \in Jobs : job[j].new \in Opt(CID)
      BY <1>0, LocalsFacts DEF TypeInv, StateOK
    <3> QED
      BY <1>0, <2>1, <2>2, <3>1 DEF Untried, Keeps, KeepsId, Opt
  <2>7. \A b \in Actors : RecordingOf(act[b])'
    BY <2>1, <2>3, RecordingKept DEF IndFrame
  <2> QED
    BY <1>0, <2>5, <2>6, <2>7 DEF LifeInv
<1>3. ASSUME [Next]_vars, \A b \in Actors : act'[b] = act[b] \/ act'[b].pc \in {"idle", "done", "dead"}
      PROVE  LifeInv'
  <2>1. IndInv' /\ Untried' /\ KeepsId(ctr, ctr')
    BY <1>0, <1>3, IndStep, UntriedStep, KeepsStep
  <2>2. trusted \subseteq trusted'
    BY <1>3, VerifiedGrows
  <2>3. \A b \in Actors : RecordingOf(act[b])'
    <3> SUFFICES ASSUME NEW b \in Actors PROVE RecordingOf(act[b])'
      OBVIOUS
    <3>1. CASE act'[b] = act[b]
      BY <2>1, <2>2, <3>1, RecordingKept
    <3>2. CASE act'[b].pc \in {"idle", "done", "dead"}
      BY <3>2 DEF RecordingOf
    <3> QED
      BY <1>3, <3>1, <3>2
  <2> QED
    BY <1>0, <2>1, <2>3 DEF LifeInv
<1>4. CASE Beside
  BY <1>3, <1>4, BesideNext DEF Beside, Stay
<1>5. CASE Die
  <2>1. \A b \in Actors : act'[b].pc \in {"idle", "done", "dead"}
    BY <1>0, <1>5 DEF Die, ActorInv, Actor
  <2> QED
    BY <1>3, <1>5, <2>1, BesideNext
<1>6. CASE UNCHANGED allVars
  BY <1>3, <1>6 DEF allVars, lifeVars
<1> QED
  BY <1>1, <1>2, <1>4, <1>5, <1>6 DEF LNext

\* Beside every action on a container or a stack, the sweep and bring-ups, Update's
\* invariant holds in every reachable state, if removing containers does not fail.
THEOREM LifeInvariance == Reliable => (LSpec => []LifeInv)
<1> SUFFICES ASSUME Reliable PROVE LSpec => []LifeInv
  OBVIOUS
<1>1. LifeInv /\ [LNext]_allVars => LifeInv'
  BY LifeInvStep
<1> QED
  BY <1>1, LifeInit, PTL DEF LSpec

\* Under the same assumption, the sweep and a bring-up never record a replacement that
\* an update has still to verify (rerecord, BringUpStack).
THEOREM SweepWaits == Reliable => (LSpec => []RecordNotTentative)
<1>1. LifeInv => RecordNotTentative
  BY DEF LifeInv, IndInv, RecordVerified, Untried, RecordNotTentative
<1> QED
  BY <1>1, LifeInvariance, PTL

\* Under the same assumption, with actions, stacks, bring-ups and the sweep beside the
\* updates: the last container that is known to work is never destroyed, none but a
\* trusted one has the name while no update runs and Recover passed nothing over, the
\* record is a trusted container's and an update keeps the spec of what it replaces.
THEOREM LifeSafety ==
    Reliable => (LSpec => [](KnownGoodKept /\ NameHeldByVerified /\ RecordVerified /\ UpdateKeepsSpec))
<1>1. LifeInv => KnownGoodKept /\ NameHeldByVerified /\ RecordVerified /\ UpdateKeepsSpec
  <2> SUFFICES ASSUME LifeInv
               PROVE  KnownGoodKept /\ NameHeldByVerified /\ RecordVerified /\ UpdateKeepsSpec
    OBVIOUS
  <2>1. IndInv
    BY DEF LifeInv
  <2>2. KnownGoodKept /\ RecordVerified
    BY <2>1 DEF IndInv
  <2>3. NameHeldByVerified
    BY <2>1, InitAssumption DEF IndInv, NameHeldByVerified, NamesInv, NamesProved, Unsettled, Tentative, LockInv, Quiescent
  <2>4. UpdateKeepsSpec
    BY <2>1 DEF IndInv, JobInv, JobInvOf, UpdateKeepsSpec
  <2> QED
    BY <2>2, <2>3, <2>4
<1> QED
  BY <1>1, LifeInvariance, PTL

\* Also beside all of them, every step is one of Swap or none: starting, stopping and
\* restarting is none, and a bring-up that makes the container anew is the user's
\* Replace.
THEOREM LifeImplementsSwap == Reliable => (LSpec => ImplementsSwap)
<1> SUFFICES ASSUME Reliable PROVE LSpec => Abstract!Spec
  BY DEF ImplementsSwap
<1>1. LifeInv /\ LifeInv' /\ SwapInv /\ [LNext]_allVars =>
          SwapInv' /\ [Abstract!Next]_(Abstract!swapVars)
  <2> SUFFICES ASSUME LifeInv, LifeInv', SwapInv, [LNext]_allVars
               PROVE  SwapInv' /\ [Abstract!Next]_(Abstract!swapVars)
    OBVIOUS
  <2>0. ActorInv /\ TypeInv /\ UpStill /\ IndInv'
    BY DEF LifeInv, ActorInv, UpStill
  <2>1. ASSUME KeepsId(ctr, ctr'), Effect
        PROVE  SwapInv' /\ [Abstract!Next]_(Abstract!swapVars)
    BY <2>0, <2>1, EffectKeeps, EffectMaps
  <2>2. ASSUME Keeps, SameTrust
        PROVE  SwapInv' /\ [Abstract!Next]_(Abstract!swapVars)
    BY <2>1, <2>2 DEF Keeps, Effect, Stays, Svc, Old
  <2>3. ASSUME NEW a \in Actors, Ask(a) \/ ActorStep(a)
        PROVE  SwapInv' /\ [Abstract!Next]_(Abstract!swapVars)
    <3>1. Shared(a)
      BY <2>0, <2>3, ActorShared
    <3>2. ASSUME NEW c \in CID, Makes(c, act[a].mc.spec)
          PROVE  SwapInv' /\ [Abstract!Next]_(Abstract!swapVars)
      <4>1. c \notin trusted /\ act[a].mc.spec \in Specs
        BY <2>0, <3>2 DEF Makes, LifeInv, IndInv, TypeInv, StateOK, Table, Container
      <4>2. Recreates(c, act[a].mc.spec) /\ KeepsId(ctr, ctr')
        BY <3>2, <4>1 DEF Makes, Recreates, Svc, Old
      <4> QED
        BY <2>1, <4>1, <4>2 DEF Effect
    <3>3. CASE Keeps /\ Relies(a)
      <4> DEFINE c == act[a].ref
      <4>1. CASE c \in trusted
        BY <2>2, <3>3, <4>1 DEF Relies, SameTrust
      <4>2. CASE c \notin trusted
        <5>1. lock = a /\ proc = "serving" /\ c \in CID /\ Exists(ctr, c) /\ IndInv
          BY <2>0, <3>3 DEF Relies, ActorInv, ActorOK, HeldInv, Held, LifeInv
        <5>2. c \in Svc /\ Old # {}
          BY <2>0, <4>2, <5>1, LockedOut
        <5>3. TakesOver(c) /\ KeepsId(ctr, ctr')
          BY <3>3, <4>2, <5>2 DEF TakesOver, Relies, Keeps, Svc, Old
        <5> QED
          BY <2>1, <5>1, <5>3 DEF Effect
      <4> QED
        BY <4>1, <4>2
    <3> QED
      BY <2>2, <3>1, <3>2, <3>3 DEF Shared
  <2>4. ASSUME NEW c \in CID, Stopped(c)
        PROVE  SwapInv' /\ [Abstract!Next]_(Abstract!swapVars)
    <3>1. Keeps /\ SameTrust
      BY <2>0, <2>4, KeepsStopped DEF TypeInv, StateOK, Stopped, quiet, SameTrust
    <3> QED
      BY <2>2, <3>1
  <2>5. ASSUME [Next]_vars PROVE SwapInv' /\ [Abstract!Next]_(Abstract!swapVars)
    BY <2>0, <2>1, <2>5, StepEffect, KeepsStep
  <2> QED
    BY <2>3, <2>4, <2>5, BesideNext DEF LNext, allVars
<1>2. LInit => SwapInv /\ Abstract!Init
  BY SwapInit, InitMaps DEF LInit
<1>3. LSpec => []LifeInv
  BY LifeInvariance
<1> QED
  BY <1>1, <1>2, <1>3, PTL DEF LSpec, Abstract!Spec

-----------------------------------------------------------------------------
(* Nothing is left parked.                                                 *)

\* While a job is in its critical section, where the containers are is its business
\* alone.
LEMMA PlacesJob ==
    ASSUME IndInv, NEW j \in Jobs, job[j].pc \notin Quiescent,
           \A k \in Jobs : k # j => job'[k] = job[k],
           proc' = proc,
           \A c, d \in Old' : c = d,
           job'[j].pc = "park" => Old' = {},
           job'[j].pc \in {"stop", "create", "rbrename"} => Svc' = {},
           job'[j].pc \in {"start", "verify", "rbremove"} => Svc' \subseteq {job'[j].new},
           Old' = {} \/ job'[j].pc \in Parked \/ passed'
    PROVE  PlacesInv'
<1>1. proc = "serving" /\ \A k \in Jobs \ {j} : job[k].pc \in Quiescent
  BY Alone
<1>2. \A k \in Jobs \ {j} : job'[k].pc \in Quiescent
  BY <1>1
<1>3. NoLeftoverParked'
  BY DEF NoLeftoverParked, Parked, Old
<1> QED
  BY <1>1, <1>2, <1>3 DEF PlacesInv, Quiescent, Svc, Old

\* What it knows of them before a step.
LEMMA PlacesKnown ==
    ASSUME IndInv, PlacesInv, NEW j \in Jobs, job[j].pc \notin Quiescent
    PROVE  /\ ctr \in Table /\ job \in [Jobs -> Locals] /\ Svc \subseteq CID /\ Old \subseteq CID
           /\ \A c, d \in Old : c = d
           /\ \A c, d \in Svc : c = d
           /\ job[j].pc = "park" => Old = {}
           /\ job[j].pc \in {"stop", "create", "rbrename"} => Svc = {}
           /\ job[j].pc \in {"start", "verify", "rbremove"} => Svc \subseteq {job[j].new}
           /\ Old = {} \/ job[j].pc \in Parked \/ passed
           /\ job[j].pc \in Parked => job[j].old \in Old /\ Old = {job[j].old}
<1>1. proc = "serving" /\ \A k \in Jobs \ {j} : job[k].pc \in Quiescent
  BY Alone
<1>2. Old = {} \/ job[j].pc \in Parked \/ passed
  BY <1>1 DEF PlacesInv, NoLeftoverParked, Parked, Quiescent, Old
<1>3. job[j].pc \in Parked => job[j].old \in Old
  BY DEF IndInv, JobInv, JobInvOf, Old
<1>4. \A c, d \in Old : c = d
  BY DEF PlacesInv, Old
<1> QED
  BY <1>2, <1>3, <1>4 DEF IndInv, TypeInv, StateOK, NamesInv, PlacesInv, Svc, Old, Holder

\* The steps of an update up to the replacement's creation.
LEMMA PlacesSwap ==
    ASSUME Undisturbed, IndInv, PlacesInv, NEW j \in Jobs,
           Inspect(j) \/ Pull(j) \/ ClearParked(j) \/ Park(j) \/ StopOld(j) \/ Create(j)
    PROVE  PlacesInv'
<1>0. job[j].pc \notin Quiescent /\ proc' = proc /\ LocksOf(j)
  BY JobLocks DEF IndInv, JobStep, Inspect, Pull, ClearParked, Park, StopOld, Create, At,
     Quiescent, procVars
<1>1. \A k \in Jobs : k # j => job'[k] = job[k]
  BY <1>0 DEF LocksOf
<1>2. TypeInv /\ \A c : ~MayFail(c)
  BY DEF IndInv, Undisturbed, MayFail
<1>3. CASE Inspect(j) \/ Pull(j)
  <2>1. job'[j].pc \in {"pull", "clear", "unlock"}
    <3>1. CASE Pull(j)
      BY <1>2, <3>1, JobMoves DEF Moves
    <3>2. CASE Inspect(j) /\ Return(j, "failed")
      BY <1>2, <3>2, ReturnMoves DEF Moves, TypeInv, StateOK, Verdicts, Failures
    <3>3. ASSUME NEW c \in Holder(ctr, "svc"), NEW mc,
                 job' = [job EXCEPT ![j].pc = "pull", ![j].mc = mc, ![j].old = c,
                                    ![j].seen = ctr[c].state]
          PROVE  job'[j].pc = "pull"
      BY <1>2, <3>3 DEF TypeInv, StateOK, Locals
    <3> QED
      BY <1>3, <3>1, <3>2, <3>3 DEF Inspect
  <2>2. Svc' = Svc /\ Old' = Old
    BY <1>3 DEF Inspect, Pull, Svc, Old, dockerVars
  <2>3. (Old = {} \/ passed') /\ \A c, d \in Old : c = d
    <3>1. job[j].pc \in {"inspect", "pull"} /\ passed' = passed
      BY <1>3 DEF Inspect, Pull, At, procVars
    <3>2. job[j].pc \notin Parked
      BY <3>1 DEF Parked
    <3> QED
      BY <1>0, <3>1, <3>2, PlacesKnown
  <2> QED
    BY <1>0, <1>1, <2>1, <2>2, <2>3, PlacesJob
<1>4. CASE ClearParked(j)
  <2>1. job'[j].pc = "park"
    BY <1>2, <1>4, JobMoves DEF Moves
  <2>2. ctr' = RemoveC(ctr, Old)
    BY <1>2, <1>4 DEF ClearParked, Old
  <2>3. Old' = {}
    BY <1>2, <2>2, RemoveH DEF Old, TypeInv, StateOK
  <2> QED
    BY <1>0, <1>1, <2>1, <2>3, PlacesJob
<1>5. CASE Park(j)
  <2>0. Old = {} /\ job[j].old \in CID
    BY <1>0, <1>2, <1>5, PlacesKnown DEF Park, At, IndInv, JobInv, JobInvOf, TypeInv, StateOK
  <2>1. CASE Return(j, "failed") /\ ctr' = ctr
    <3>1. job'[j].pc = "unlock" /\ Old' = {}
      BY <1>2, <2>0, <2>1, ReturnMoves DEF Moves, TypeInv, StateOK, Verdicts, Failures, Old
    <3> QED
      BY <1>0, <1>1, <3>1, PlacesJob
  <2>2. CASE CanRename(job[j].old, "old") /\ ctr' = RenameC(ctr, job[j].old, "old") /\ Goto(j, "stop")
    <3>1. job'[j].pc = "stop"
      BY <1>2, <2>2, GotoMoves, LabelFacts DEF Moves, TypeInv, StateOK
    <3>2. job[j].old \in Svc
      BY <1>2, <2>0, <2>2, ExistsH DEF CanRename, Svc, Old, TypeInv, StateOK
    <3>3. Svc' = Svc \ {job[j].old} /\ Old' = {job[j].old}
      BY <1>2, <2>0, <2>2, RenameH DEF CanRename, Svc, Old, TypeInv, StateOK, Names
    <3>4. Svc' = {}
      BY <1>0, <3>2, <3>3, PlacesKnown
    <3> QED
      BY <1>0, <1>1, <3>1, <3>3, <3>4, PlacesJob DEF Parked
  <2> QED
    BY <1>5, <2>1, <2>2 DEF Park
<1>6. CASE StopOld(j)
  <2>1. job'[j].pc = "create"
    BY <1>2, <1>6, JobMoves DEF Moves
  <2>2. Svc = {} /\ job[j].old \in CID /\ \A c, d \in Old : c = d
    BY <1>0, <1>6, PlacesKnown DEF StopOld, At, Parked
  <2>3. Svc' = Svc /\ Old' = Old
    BY <1>2, <1>6, <2>2, SetStateH DEF StopOld, Svc, Old, TypeInv, StateOK, States, Up
  <2> QED
    BY <1>0, <1>1, <2>1, <2>2, <2>3, PlacesJob DEF Parked
<1>7. CASE Create(j)
  <2>1. Svc = {} /\ \A c, d \in Old : c = d
    BY <1>0, <1>7, PlacesKnown DEF Create, At
  <2>2. PICK c \in Fresh : /\ ctr' = CreateC(ctr, c, "svc", localTag, job[j].mc.spec)
                           /\ job' = [job EXCEPT ![j].pc = "start", ![j].new = c]
    BY <1>2, <1>7, <2>1 DEF Create, Svc
  <2>3. job'[j].pc = "start" /\ job'[j].new = c
    BY <1>2, <2>2 DEF TypeInv, StateOK, Locals
  <2>4. c \in CID /\ ctr[c].state = "unused" /\ job[j].mc.spec \in Specs
    BY <1>2, <2>2, LocalsFacts DEF Fresh, TypeInv, StateOK, Record
  <2>5. Svc' = {c} /\ Old' = Old
    BY <1>2, <2>1, <2>2, <2>4, CreateH DEF Svc, Old, TypeInv, StateOK
  <2> QED
    BY <1>0, <1>1, <2>1, <2>3, <2>5, PlacesJob DEF Parked
<1> QED
  BY <1>3, <1>4, <1>5, <1>6, <1>7

\* The rest of an update.
LEMMA PlacesOutcome ==
    ASSUME Undisturbed, IndInv, PlacesInv, NEW j \in Jobs,
           \/ StartNew(j) \/ Verify(j) \/ DropOld(j) \/ RecordNew(j)
           \/ RollbackRemove(j) \/ RollbackRename(j) \/ RollbackStart(j)
    PROVE  PlacesInv'
<1>0. job[j].pc \notin Quiescent /\ proc' = proc /\ LocksOf(j)
  BY JobLocks DEF IndInv, JobStep, StartNew, Verify, DropOld, RecordNew, RollbackRemove,
     RollbackRename, RollbackStart, At, Quiescent, procVars
<1>1. \A k \in Jobs : k # j => job'[k] = job[k]
  BY <1>0 DEF LocksOf
<1>2. TypeInv /\ ctr \in Table /\ \A c : ~MayFail(c)
  BY DEF IndInv, TypeInv, StateOK, Undisturbed, MayFail
<1>3. CASE StartNew(j) \/ Verify(j)
  <2>1. job'[j].pc \in {"verify", "drop", "rbremove"} /\ job'[j].new = job[j].new
    BY <1>2, <1>3, JobMoves DEF Moves
  <2>2. /\ Svc \subseteq {job[j].new} /\ job[j].new \in CID
        /\ \A c, d \in Old : c = d
    BY <1>0, <1>3, PlacesKnown DEF StartNew, Verify, At, IndInv, JobInv, JobInvOf
  <2>3. Svc' = Svc /\ Old' = Old
    BY <1>2, <1>3, <2>2, StartH DEF StartNew, Verify, Svc, Old, dockerVars
  <2> QED
    BY <1>0, <1>1, <2>1, <2>2, <2>3, PlacesJob DEF Parked
<1>4. CASE DropOld(j)
  <2>1. job'[j].pc = "record"
    BY <1>2, <1>4, JobMoves DEF Moves
  <2>2. Old = {job[j].old} /\ ctr' = RemoveC(ctr, {job[j].old})
    BY <1>0, <1>2, <1>4, PlacesKnown DEF DropOld, At, Parked
  <2>3. Old' = {}
    BY <1>2, <2>2, RemoveH DEF Old
  <2> QED
    BY <1>0, <1>1, <2>1, <2>3, PlacesJob
<1>5. CASE RecordNew(j) \/ RollbackStart(j)
  <2>1. job'[j].pc = "unlock"
    BY <1>2, <1>5, JobMoves DEF Moves
  <2>2. /\ Old = {} \/ passed'
        /\ \A c, d \in Old : c = d
        /\ RollbackStart(j) => job[j].old \in CID
    BY <1>0, <1>2, <1>5, PlacesKnown DEF RecordNew, RollbackStart, At, Parked, IndInv, JobInv,
       JobInvOf, TypeInv, StateOK, procVars
  <2>3. Old' = Old
    BY <1>2, <1>5, <2>2, StartH DEF RecordNew, RollbackStart, Old, dockerVars
  <2> QED
    BY <1>0, <1>1, <2>1, <2>2, <2>3, PlacesJob
<1>6. CASE RollbackRemove(j)
  <2>1. job'[j].pc = "rbrename"
    BY <1>2, <1>6, JobMoves DEF Moves
  <2>2. Svc \subseteq {job[j].new} /\ Svc \subseteq CID /\ \A c, d \in Old : c = d
    BY <1>0, <1>6, PlacesKnown DEF RollbackRemove, At
  <2>3. ctr' = RemoveC(ctr, {job[j].new} \cap CID)
    BY <1>2, <1>6 DEF RollbackRemove
  <2>4. Svc' = Svc \ ({job[j].new} \cap CID) /\ Old' = Old \ ({job[j].new} \cap CID)
    BY <1>2, <2>3, RemoveH DEF Svc, Old
  <2> QED
    BY <1>0, <1>1, <2>1, <2>2, <2>4, PlacesJob DEF Parked
<1>7. CASE RollbackRename(j)
  <2>1. Svc = {} /\ Old = {job[j].old} /\ job[j].old \in CID
    BY <1>0, <1>7, PlacesKnown DEF RollbackRename, At, Parked
  <2>2. Exists(ctr, job[j].old)
    BY <1>2, <2>1, ExistsH DEF Old
  <2>3. ctr' = RenameC(ctr, job[j].old, "svc") /\ Goto(j, "rbstart")
    BY <1>2, <1>7, <2>1, <2>2 DEF RollbackRename, CanRename, Svc
  <2>4. job'[j].pc = "rbstart"
    BY <1>2, <2>3, GotoMoves, LabelFacts DEF Moves, TypeInv, StateOK
  <2>5. Old' = {}
    BY <1>2, <2>1, <2>2, <2>3, RenameH DEF Old, Names
  <2> QED
    BY <1>0, <1>1, <2>4, <2>5, PlacesJob
<1> QED
  BY <1>3, <1>4, <1>5, <1>6, <1>7

\* While no job runs: what Recover does.
LEMMA PlacesRecover ==
    ASSUME Undisturbed, IndInv, PlacesInv, Restart \/ RecoverStep
    PROVE  PlacesInv'
<1>0. job' = job /\ proc # "serving" /\ \A j \in Jobs : job[j].pc \in {"idle", "done", "dead"}
  BY RestLocks DEF IndInv, LockInv
<1>1. TypeInv /\ ctr \in Table /\ \A c : ~MayFail(c)
  BY DEF IndInv, TypeInv, StateOK, Undisturbed, MayFail
<1>2. /\ \A c, d \in Old : c = d
      /\ \A c, d \in Svc : c = d
      /\ proc \in {"rename", "rbrename"} => Svc = {}
      /\ proc \in {"verify", "rbremove"} => Svc \subseteq {found.fresh}
      /\ proc \in {"restart", "rbstart"} => Old = {}
      /\ proc = "resume" => Old = {} \/ passed
      /\ proc \in {"rename", "verify", "drop", "rbremove", "rbrename"} =>
             found.parked \in Old /\ Old = {found.parked} /\ found.parked \in CID
      /\ proc \in {"restart", "rbstart"} => found.parked \in CID
  BY <1>0 DEF IndInv, NamesInv, FoundInv, PlacesInv, NoLeftoverParked, Svc, Old, Holder
<1>3. ASSUME \A c, d \in Old' : c = d,
             proc' \in {"rename", "rbrename"} => Svc' = {},
             proc' \in {"verify", "rbremove"} => Svc' \subseteq {found'.fresh},
             proc' \in {"restart", "rbstart"} => Old' = {},
             proc' \in {"resume", "serving"} => Old' = {} \/ passed'
      PROVE  PlacesInv'
  BY <1>0, <1>3 DEF PlacesInv, NoLeftoverParked, Svc, Old
<1>4. CASE Restart
  BY <1>2, <1>3, <1>4 DEF Restart, dockerVars, Svc, Old
<1>5. CASE RecoverList
  BY <1>1, <1>2, <1>3, <1>5 DEF RecoverList, Svc, Old
<1>12. CASE RecoverPass
  <2>1. proc' \in {"resume", "serving"} /\ ctr' = ctr
    BY <1>12 DEF RecoverPass
  <2>2. Old = {} \/ passed'
    BY <1>12 DEF RecoverPass, Old
  <2> QED
    BY <1>2, <1>3, <2>1, <2>2 DEF Old
<1>6. CASE RecoverRename \/ RecoverRollbackRename
  <2>1. Exists(ctr, found.parked) /\ Svc = {} /\ Old = {found.parked} /\ found.parked \in CID
    BY <1>1, <1>2, <1>6, ExistsH DEF RecoverRename, RecoverRollbackRename, Old
  <2>2. ctr' = RenameC(ctr, found.parked, "svc") /\ proc' \in {"restart", "rbstart"}
    BY <1>1, <1>6, <2>1 DEF RecoverRename, RecoverRollbackRename, CanRename, Svc
  <2>3. Old' = {}
    BY <1>1, <2>1, <2>2, RenameH DEF Old, Names
  <2> QED
    BY <1>3, <2>2, <2>3
<1>7. CASE RecoverStart \/ RecoverRollbackStart
  <2>1. Old = {} /\ found.parked \in CID /\ proc' = "resume"
    BY <1>2, <1>7 DEF RecoverStart, RecoverRollbackStart
  <2>2. Old' = Old
    BY <1>1, <1>7, <2>1, StartH DEF RecoverStart, RecoverRollbackStart, Old
  <2> QED
    BY <1>3, <2>1, <2>2
<1>8. CASE RecoverVerify
  BY <1>2, <1>3, <1>8 DEF RecoverVerify, Svc, Old
<1>9. CASE RecoverDrop
  <2>1. ctr' = RemoveC(ctr, {found.parked}) /\ Old = {found.parked} /\ proc' = "resume"
    BY <1>1, <1>2, <1>9 DEF RecoverDrop
  <2>2. Old' = {}
    BY <1>1, <2>1, RemoveH DEF Old
  <2> QED
    BY <1>3, <2>1, <2>2
<1>10. CASE RecoverRollbackRemove
  <2>1. ctr' = RemoveC(ctr, {found.fresh}) /\ proc' = "rbrename" /\ Svc \subseteq {found.fresh}
    BY <1>1, <1>2, <1>10 DEF RecoverRollbackRemove
  <2>2. Svc' = Svc \ {found.fresh} /\ Old' = Old \ {found.fresh}
    BY <1>1, <2>1, RemoveH DEF Svc, Old
  <2> QED
    BY <1>2, <1>3, <2>1, <2>2
<1>11. CASE (\E j \in Jobs : SettleJob(j)) \/ Serve
  <2>1. proc = "resume" /\ proc' \in {"resume", "serving"} /\ UNCHANGED <<ctr, passed>>
    BY <1>11 DEF SettleJob, Serve, procVars
  <2> QED
    BY <1>2, <1>3, <2>1 DEF Old
<1> QED
  BY <1>4, <1>5, <1>6, <1>7, <1>8, <1>9, <1>10, <1>11, <1>12 DEF RecoverStep

\* A step that changes no name, and no job but outside its critical section.
LEMMA PlacesStays ==
    ASSUME IndInv, PlacesInv, Svc' = Svc, Old' = Old, UNCHANGED procVars,
           \A k \in Jobs : \/ job'[k] = job[k]
                           \/ /\ job[k].pc \in Quiescent \cup {"unlock"}
                              /\ job'[k].pc \in Quiescent \cup {"inspect"}
    PROVE  PlacesInv'
<1>1. NoLeftoverParked'
  <2>1. NoLeftoverParked
    BY DEF PlacesInv
  <2> QED
    BY <2>1 DEF NoLeftoverParked, Old, Quiescent, procVars
<1> QED
  BY <1>1 DEF PlacesInv, Svc, Old, Quiescent, procVars

\* Every step of Update keeps the containers in their places, if no call fails and
\* the user keeps out.
LEMMA PlacesStep ==
    ASSUME Undisturbed PROVE IndInv /\ PlacesInv /\ [Next]_vars => PlacesInv'
<1> SUFFICES ASSUME IndInv, PlacesInv, [Next]_vars PROVE PlacesInv'
  OBVIOUS
<1>0. TypeInv /\ ctr \in Table /\ job \in [Jobs -> Locals]
  BY DEF IndInv, TypeInv, StateOK
<1>1. ASSUME NEW j \in Jobs, Update(j) \/ JobStep(j) PROVE PlacesInv'
  <2>1. CASE Update(j) \/ Lock(j) \/ Unlock(j) \/ FinishUpdateJob(j) \/ Forget(j)
    <3>1. ctr' = ctr /\ UNCHANGED procVars
      BY <2>1 DEF Update, Lock, Unlock, FinishUpdateJob, Forget, dockerVars
    <3>2. /\ job[j].pc \in {"idle", "lock", "unlock", "finish", "forget"}
          /\ LocksOf(j)
      BY <1>0, <1>1, <2>1, JobLocks DEF Update, Lock, Unlock, FinishUpdateJob, Forget, At
    <3>3. job'[j].pc \in Quiescent \cup {"inspect"}
      <4>1. CASE Update(j)
        BY <1>0, <4>1, BeginMoves DEF Update, Quiescent, TypeInv, StateOK
      <4>2. CASE ~Update(j)
        BY <1>0, <2>1, <4>2, JobMoves DEF Moves, Quiescent
      <4> QED
        BY <4>1, <4>2
    <3> QED
      BY <3>1, <3>2, <3>3, PlacesStays DEF LocksOf, Quiescent, Svc, Old
  <2> QED
    BY <1>1, <2>1, PlacesSwap, PlacesOutcome DEF JobStep
<1>2. CASE Crash
  <2>1. proc' = "down" /\ ctr' = ctr /\ \A k \in Jobs : job'[k].pc \in {"idle", "done", "dead"}
    BY <1>0, <1>2 DEF Crash, dockerVars, Locals
  <2> QED
    BY <2>1 DEF PlacesInv, NoLeftoverParked
<1>3. ASSUME NEW c \in CID, NEW s \in Specs, UserRecreate(c, s) PROVE FALSE
  <2>1. budget.recreates \in 0 .. 0 /\ budget.recreates > 0
    BY <1>0, <1>3 DEF Undisturbed, TypeInv, StateOK, UserRecreate
  <2> QED
    BY <2>1
<1>4. ASSUME NEW c \in CID, ContainerDrift(c) PROVE PlacesInv'
  <2>1. PICK s \in Drift(ctr[c].image, ctr[c].state) : ctr' = SetState(ctr, c, s)
    BY <1>4 DEF ContainerDrift
  <2>2. s \in States \ {"unused", "removed"} /\ Exists(ctr, c)
    BY DriftStates DEF Exists, Up
  <2>3. Svc' = Svc /\ Old' = Old
    BY <1>0, <2>1, <2>2, SetStateH DEF Svc, Old
  <2> QED
    BY <1>4, <2>3, PlacesStays DEF ContainerDrift, jobVars
<1>5. CASE Publish \/ UNCHANGED vars
  BY <1>5, PlacesStays DEF Publish, vars, jobVars, procVars, Svc, Old
<1> QED
  BY <1>1, <1>2, <1>3, <1>4, <1>5, PlacesRecover DEF Next, Done

\* The first state: nothing is parked.
LEMMA PlacesInit == Init => PlacesInv
<1> SUFFICES ASSUME Init PROVE PlacesInv
  OBVIOUS
<1>1. Holder(ctr, "old") = {}
  <2>1. \A c \in CID : ctr[c].name = "svc"
    BY DEF Init
  <2> QED
    BY <2>1 DEF Holder
<1>2. \A j \in Jobs : job[j].pc = "idle"
  BY DEF Init
<1> QED
  BY <1>1, <1>2 DEF Init, PlacesInv, NoLeftoverParked

\* No call fails, so removing does not.
LEMMA UndisturbedReliable == Undisturbed => Reliable
  BY DEF Undisturbed, Reliable

\* If no call fails and the user keeps out, a container is parked only while its swap
\* is in flight, Recover has yet to deal with it, or Recover passed it over (swap,
\* Recover).
THEOREM LeavesNothingParked == Undisturbed => (Spec => []NoLeftoverParked)
<1> SUFFICES ASSUME Undisturbed PROVE Spec => []NoLeftoverParked
  OBVIOUS
<1>1. IndInv /\ PlacesInv /\ [Next]_vars => IndInv' /\ PlacesInv'
  BY UndisturbedReliable, IndStep, PlacesStep
<1>2. PlacesInv => NoLeftoverParked
  BY DEF PlacesInv
<1> QED
  BY <1>1, <1>2, IndInit, PlacesInit, PTL DEF Spec

\* An actor that is not a bring-up never was one.
LEMMA NoBringUpBack ==
    ASSUME ActorInv, [LNext]_allVars, NoBringUp' PROVE NoBringUp
<1>0. /\ act \in [Actors -> Actor]
      /\ \A a \in Actors : act[a].pc = "idle" => act[a].kind = "none"
  BY DEF ActorInv, ActorOK
<1>1. ASSUME NEW a \in Actors, Ask(a) PROVE NoBringUp
  <2>1. Is(a, "idle") /\ \E b : act' = [act EXCEPT ![a] = b]
    BY <1>1 DEF Ask, Request, RequestStack, BringUp, Sweep, Set
  <2>2. act[a].kind = "none" /\ \A b \in Actors : b # a => act'[b] = act[b]
    BY <1>0, <2>1 DEF Is
  <2> QED
    BY <2>2 DEF NoBringUp
<1>2. ASSUME NEW a \in Actors, ActorStep(a) PROVE NoBringUp
  <2>1. \A b \in Actors : act'[b].kind = act[b].kind
    <3>1. CASE Resolve(a) \/ TakeLock(a) \/ Act(a) \/ Await(a) \/ ReleaseLock(a)
      BY <1>0, <3>1 DEF Resolve, TakeLock, Act, Await, ReleaseLock, To, Actor
    <3>2. CASE ListStack(a) \/ AwaitEach(a)
      BY <1>0, <3>2 DEF ListStack, AwaitEach, To, Actor
    <3>3. CASE Each(a)
      <4>1. CASE To(a, "done")
        BY <1>0, <4>1 DEF To, Actor
      <4>2. ASSUME NEW c \in act[a].todo,
                   act' = [act EXCEPT ![a].todo = @ \ {c}, ![a].ref = c,
                              ![a].pc = IF act[a].kind = "stop" THEN "awaiteach" ELSE "each"]
            PROVE  \A b \in Actors : act'[b].kind = act[b].kind
        BY <1>0, <4>2 DEF Actor
      <4> QED
        BY <3>3, <4>1, <4>2 DEF Each
    <3>4. CASE BringUpLook(a) \/ BringUpCreate(a) \/ BringUpStart(a) \/ BringUpRecord(a)
      BY <1>0, <3>4 DEF BringUpLook, BringUpCreate, BringUpStart, BringUpRecord, To, Actor
    <3>5. CASE TryLock(a) \/ Reread(a) \/ ReInspect(a) \/ Rerecord(a)
      BY <1>0, <3>5 DEF TryLock, Reread, ReInspect, Rerecord, To, Actor
    <3> QED
      BY <1>2, <3>1, <3>2, <3>4, <3>5, <3>3 DEF ActorStep
  <2> QED
    BY <2>1 DEF NoBringUp
<1>3. CASE Beside \/ (\E c \in CID : Stopped(c)) \/ UNCHANGED allVars
  BY <1>3 DEF Beside, Stay, Stopped, NoBringUp, allVars, lifeVars
<1>4. CASE Die
  BY <1>0, <1>4 DEF Die, NoBringUp, Actor
<1> QED
  BY <1>1, <1>2, <1>3, <1>4 DEF LNext

\* Every step keeps the containers in their places as long as there is no bring-up.
LEMMA LifePlacesStep ==
    ASSUME Undisturbed
    PROVE  LifeInv /\ (NoBringUp => PlacesInv) /\ [LNext]_allVars => (NoBringUp => PlacesInv)'
<1> SUFFICES ASSUME LifeInv, NoBringUp => PlacesInv, [LNext]_allVars, NoBringUp' PROVE PlacesInv'
  OBVIOUS
<1>0. ActorInv /\ IndInv /\ TypeInv
  BY DEF LifeInv, ActorInv
<1>1. NoBringUp /\ PlacesInv
  BY <1>0, NoBringUpBack
<1>2. ASSUME NEW a \in Actors, Ask(a) \/ ActorStep(a) PROVE PlacesInv'
  <2>1. Shared(a) /\ act[a].kind # "bringup"
    BY <1>0, <1>1, <1>2, ActorShared DEF NoBringUp
  <2>2. Keeps /\ UNCHANGED procVars /\ job' = job
    BY <2>1 DEF Shared, rest
  <2> QED
    BY <1>0, <1>1, <2>2, PlacesStays DEF Keeps, Svc, Old
<1>3. ASSUME NEW c \in CID, Stopped(c) PROVE PlacesInv'
  <2>1. Keeps
    BY <1>0, <1>3, KeepsStopped DEF ActorInv, UpStill, TypeInv, StateOK
  <2>2. UNCHANGED procVars /\ job' = job
    BY <1>3 DEF Stopped, quiet, rest
  <2> QED
    BY <1>0, <1>1, <2>1, <2>2, PlacesStays DEF Keeps, Svc, Old
<1>4. CASE Beside \/ Die \/ UNCHANGED allVars
  <2>1. [Next]_vars
    BY <1>4, BesideNext DEF allVars
  <2> QED
    BY <1>0, <1>1, <2>1, PlacesStep
<1> QED
  BY <1>2, <1>3, <1>4 DEF LNext

\* The same beside every action on containers and stacks but a bring-up: whatever they
\* start, stop or restart in the middle of a swap, nothing is left parked but what
\* Recover passed over.
THEOREM ActionsLeaveNothingParked == Undisturbed => (LSpec => []NothingParked)
<1> SUFFICES ASSUME Undisturbed PROVE LSpec => []NothingParked
  OBVIOUS
<1>1. LSpec => []LifeInv
  BY UndisturbedReliable, LifeInvariance
<1>2. LifeInv /\ (NoBringUp => PlacesInv) /\ [LNext]_allVars => (NoBringUp => PlacesInv)'
  BY LifePlacesStep
<1>3. LInit => (NoBringUp => PlacesInv)
  BY PlacesInit DEF LInit
<1>4. (NoBringUp => PlacesInv) => NothingParked
  BY DEF NothingParked, PlacesInv
<1> QED
  BY <1>1, <1>2, <1>3, <1>4, PTL DEF LSpec
=============================================================================

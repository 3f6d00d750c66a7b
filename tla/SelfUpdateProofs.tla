-------------------------- MODULE SelfUpdateProofs --------------------------
(***************************************************************************)
(* Proofs about SelfUpdate.tla, for every set of containers, images and    *)
(* specs and every number of crashes.                                      *)
(*                                                                         *)
(* Types, and that Recover acts on no container while a helper is at work, *)
(* need no assumption (RunInv).  That a Veery which came up is kept rests  *)
(* on VeeryInv, where the containers are at every step of a helper.  That  *)
(* one is inductive if a helper finds a verified container when it starts, *)
(* which it does for one update with every fault and kill (LoneInv).       *)
(*                                                                         *)
(* That a verdict keeps its kind is proved for one update that nothing     *)
(* disturbs: CalmInv says where the containers' images are, so that what   *)
(* the helper reports is what settleJob would find, and who may still      *)
(* write the row.                                                          *)
(***************************************************************************)
EXTENDS SelfUpdate, TLAPS

-----------------------------------------------------------------------------
(* What the daemon's operations do to the table, and to who holds a name.  *)

\* A container's state changes; if it exists, it keeps its name.
LEMMA SetStateT ==
    ASSUME NEW t \in Table, NEW c, NEW st \in States PROVE SetState(t, c, st) \in Table
  BY DEF Table, Container, SetState

LEMMA SetStateH ==
    ASSUME NEW t \in Table, NEW c \in CID, Exists(t, c), NEW st \in States \ {"unused", "removed"},
           NEW n
    PROVE  Holder(SetState(t, c, st), n) = Holder(t, n)
  BY DEF Holder, Exists, SetState, Table, Container

\* A start is such a change, or none.
LEMMA StartT == ASSUME NEW t \in Table, NEW c PROVE StartC(t, c) \in Table
  BY SetStateT DEF StartC, States, Up

LEMMA StartH ==
    ASSUME NEW t \in Table, NEW c \in CID, Exists(t, c), NEW n
    PROVE  Holder(StartC(t, c), n) = Holder(t, n)
  BY SetStateH DEF StartC, States, Up

\* A rename moves a container from the name it had to the new one.
LEMMA RenameT ==
    ASSUME NEW t \in Table, NEW c, NEW n \in Names PROVE RenameC(t, c, n) \in Table
  BY DEF Table, Container, RenameC

LEMMA RenameH ==
    ASSUME NEW t \in Table, NEW c \in CID, Exists(t, c), NEW n \in Names
    PROVE  \A m \in Names : Holder(RenameC(t, c, n), m) =
                IF m = n THEN Holder(t, m) \cup {c} ELSE Holder(t, m) \ {c}
  BY DEF Holder, Exists, RenameC, Table, Container, Names

\* What is removed has no name any more.
LEMMA RemoveT == ASSUME NEW t \in Table, NEW C PROVE RemoveC(t, C) \in Table
  BY DEF Table, Container, RemoveC, States

LEMMA RemoveH ==
    ASSUME NEW t \in Table, NEW C, NEW n
    PROVE  Holder(RemoveC(t, C), n) = Holder(t, n) \ C
  BY DEF Holder, Exists, RemoveC, Table, Container

LEMMA RemoveKeeps ==
    ASSUME NEW t \in Table, NEW C, NEW c \in CID, c \notin C PROVE RemoveC(t, C)[c] = t[c]
  BY DEF RemoveC

\* A new container has the name, and it alone if the name was free.
LEMMA CreateT ==
    ASSUME NEW t \in Table, NEW c \in CID, NEW i \in Images, NEW s \in Specs
    PROVE  CreateC(t, c, "svc", i, s) \in Table
  BY DEF Table, Container, CreateC, States, Names

LEMMA CreateH ==
    ASSUME NEW t \in Table, NEW c \in CID, t[c].state = "unused", NEW i \in Images, NEW s \in Specs
    PROVE  /\ Holder(CreateC(t, c, "svc", i, s), "svc") = Holder(t, "svc") \cup {c}
           /\ Holder(CreateC(t, c, "svc", i, s), "old") = Holder(t, "old")
  BY DEF Holder, Exists, CreateC, Table, Container, Names

\* A container exists when it holds one of the two names, and never both.
LEMMA ExistsH ==
    ASSUME NEW t \in Table, NEW c \in CID
    PROVE  /\ Exists(t, c) <=> (c \in Holder(t, "svc") \/ c \in Holder(t, "old"))
           /\ ~(c \in Holder(t, "svc") /\ c \in Holder(t, "old"))
  BY DEF Holder, Exists, Table, Container, Names

-----------------------------------------------------------------------------
(* Types, and who is up.                                                   *)

\* The types of what Veery has in memory.
ProcTypes ==
    /\ self \in Opt(CID) /\ proc \in Procs /\ found \in Listing
    /\ lock \in Opt(Jobs) /\ active \subseteq Jobs
    /\ watch \in [Jobs -> {"off", "read", "list"}]
    /\ req \in [Jobs -> Request]

\* The types of the rest, but for the containers.
RestTypes ==
    /\ localTag \in Images /\ remoteTag \in Images
    /\ row \in [Jobs -> Verdicts]
    /\ budget \in [crashes : 0 .. MaxCrashes, kills : 0 .. MaxKills, faults : BOOLEAN]
    /\ verified \subseteq CID

\* A helper's locals are there when it uses them.
HelperOK(h) ==
    /\ h \in Helper
    /\ h.pc \in HelperLabels \ {"none", "created", "lookup", "exited"} => h.old \in CID
    /\ h.pc \in Early => h.new = None
    /\ h.pc \in {"start", "verify", "drop"} => h.new \in CID

\* A helper that has not been started.
Unbegun(h) == h.pc \in {"none", "created"} /\ h.new = None

\* The parts of RunInv.
LEMMA RunParts ==
    RunInv <=> /\ ctr \in Table /\ RestTypes /\ ProcTypes
               /\ hlp \in [Jobs -> Helper] /\ \A j \in Jobs : HelperOK(hlp[j])
               /\ \A j \in Jobs : req[j].pc \in Before => Unbegun(hlp[j])
               /\ ProcInv
               /\ RecoverAlone
  BY DEF RunInv, TypeOK, RestTypes, ProcTypes, HelperOK, Unbegun

LEMMA RunPartsNext ==
    ASSUME ctr' \in Table, RestTypes', ProcTypes',
           hlp' \in [Jobs -> Helper], \A j \in Jobs : HelperOK(hlp'[j]),
           \A j \in Jobs : req'[j].pc \in Before => Unbegun(hlp'[j]),
           ProcInv', RecoverAlone'
    PROVE  RunInv'
  BY DEF RunInv, TypeOK, RestTypes, ProcTypes, HelperOK, Unbegun

\* The process ends: its goroutines are gone, and nothing else depends on it.
LEMMA DiesRun ==
    ASSUME ProcTypes, ProcDies
    PROVE  /\ ProcTypes' /\ ProcInv' /\ proc' = "down"
           /\ \A j \in Jobs : req'[j].pc \in Before => req'[j] = req[j]
<1>1. req' \in [Jobs -> Request] /\ \A j \in Jobs : req'[j].pc \notin Busy /\
          (req'[j].pc \in Before => req'[j] = req[j])
  <2>1. \A j \in Jobs : /\ req'[j] \in Request /\ req'[j].pc \notin Busy
                        /\ req'[j].pc \in Before => req'[j] = req[j]
    BY DEF ProcDies, ProcTypes, Request, ReqLabels, Busy, Before
  <2> QED
    BY <2>1 DEF ProcDies
<1>2. found' \in Listing /\ watch' \in [Jobs -> {"off", "read", "list"}]
  BY DEF ProcDies, Nothing, NoWatch, Listing, Opt
<1> QED
  BY <1>1, <1>2 DEF ProcDies, ProcTypes, ProcInv, Procs, Opt

\* The daemon's table changes, and the Veery that is up with it.
LEMMA BecomeRun ==
    ASSUME ProcTypes, ProcInv, NEW t, Become(t)
    PROVE  /\ ProcTypes' /\ ProcInv' /\ ctr' = t
           /\ proc' = "down" \/ UNCHANGED procVars
           /\ \A j \in Jobs : req'[j].pc \in Before => req'[j] = req[j]
<1>1. CASE self # None /\ t[self].state \notin Alive
  BY <1>1, DiesRun DEF Become
<1>2. CASE ~(self # None /\ t[self].state \notin Alive)
  <2>1. ctr' = t /\ UNCHANGED <<self, proc, found, lock, active, watch, req>>
    BY <1>2 DEF Become, procVars
  <2> QED
    BY <1>2, <2>1 DEF ProcTypes, ProcInv, procVars
<1> QED
  BY <1>1, <1>2

\* A container starts: a Veery comes up in it only if there was none.
LEMMA BootRun ==
    ASSUME ctr \in Table, ProcTypes, ProcInv, NEW c \in CID, self = None \/ ctr[c].state \in Up, Boot(c)
    PROVE  /\ ctr' \in Table /\ ProcTypes' /\ ProcInv'
           /\ (proc' = "list" /\ proc = "down") \/ UNCHANGED procVars
           /\ req' = req
<1>1. ctr' \in Table
  BY StartT DEF Boot
<1>2. CASE ctr[c].state \in Up
  <2>1. ctr' = ctr /\ UNCHANGED <<self, proc, found, lock, active, watch, req>>
    BY <1>2 DEF Boot, StartC
  <2> QED
    BY <1>1, <2>1 DEF ProcTypes, ProcInv, procVars
<1>3. CASE ctr[c].state \notin Up
  <2>1. /\ ctr' = SetState(ctr, c, "running") /\ self' = c /\ proc' = "list"
        /\ UNCHANGED <<found, lock, active, watch, req>>
    BY <1>3 DEF Boot, StartC
  <2>2. self = None /\ proc = "down" /\ \A j \in Jobs : req[j].pc \notin Busy
    BY <1>3 DEF ProcInv
  <2>3. ctr'[c].state \in Alive
    BY <2>1 DEF SetState, Table, Container, Alive
  <2> QED
    BY <1>1, <2>1, <2>2, <2>3, NoneAssumption DEF ProcTypes, ProcInv, Procs, Opt
<1> QED
  BY <1>2, <1>3

\* A helper goes on to another label,
LEMMA HlpGoes ==
    ASSUME hlp \in [Jobs -> Helper], NEW j \in Jobs, NEW l \in HelperLabels, HlpGoto(j, l)
    PROVE  /\ hlp' \in [Jobs -> Helper] /\ hlp'[j].pc = l
           /\ hlp'[j].old = hlp[j].old /\ hlp'[j].new = hlp[j].new
           /\ \A k \in Jobs : k # j => hlp'[k] = hlp[k]
  BY DEF HlpGoto, Helper

\* or returns with a verdict.
LEMMA HlpReturns ==
    ASSUME hlp \in [Jobs -> Helper], NEW j \in Jobs, NEW v \in Verdicts, HlpReturn(j, v)
    PROVE  /\ hlp' \in [Jobs -> Helper] /\ hlp'[j].pc = "finish"
           /\ hlp'[j].old = hlp[j].old /\ hlp'[j].new = hlp[j].new
           /\ \A k \in Jobs : k # j => hlp'[k] = hlp[k]
  BY DEF HlpReturn, Helper, HelperLabels

LEMMA LabelFacts ==
    /\ {"none", "created", "lookup", "image", "clear", "park", "stop", "create", "start", "verify",
        "drop", "rbremove", "rbrename", "rbstart", "finish", "exited"} = HelperLabels
    /\ {"updated", "uptodate", "failed", "rolledback", "down", "active", "none"} = Verdicts
  BY DEF HelperLabels, Verdicts, Succeeded, Failures

\* A helper at work keeps Recover out.
LEMMA HelperAlone ==
    ASSUME RunInv, NEW j \in Jobs, hlp[j].pc \notin {"none", "created", "exited"}
    PROVE  j \in Updaters /\ proc \notin {"retire", "remove", "rename"}
  BY DEF RunInv, RecoverAlone, Updaters

\* What a step of a helper has to keep.
LEMMA HelperFrame ==
    ASSUME RunInv, NEW j \in Jobs, hlp[j].pc \notin {"none", "created", "exited"},
           ctr' \in Table, RestTypes', ProcTypes', ProcInv',
           proc' = proc \/ proc' \in {"down", "list"},
           \A k \in Jobs : req'[k].pc \in Before => req'[k] = req[k],
           hlp' \in [Jobs -> Helper], \A k \in Jobs : k # j => hlp'[k] = hlp[k],
           HelperOK(hlp'[j])
    PROVE  RunInv' /\ proc' \notin {"retire", "remove", "rename"}
<1>1. RecoverAlone' /\ proc' \notin {"retire", "remove", "rename"}
  BY HelperAlone DEF RecoverAlone
<1>2. \A k \in Jobs : HelperOK(hlp'[k])
  BY RunParts
<1>3. \A k \in Jobs : req'[k].pc \in Before => Unbegun(hlp'[k])
  BY RunParts DEF Unbegun
<1> QED
  BY <1>1, <1>2, <1>3, RunPartsNext

\* Every step of a helper keeps RunInv.
LEMMA HelperRun ==
    ASSUME RunInv, NEW j \in Jobs, HelperStep(j)
    PROVE  /\ RunInv' /\ \A k \in Jobs : k # j => hlp'[k] = hlp[k]
           /\ hlp[j].pc \notin {"none", "created", "exited"}
           /\ proc' \notin {"retire", "remove", "rename"}
<1>0. /\ ctr \in Table /\ RestTypes /\ ProcTypes /\ ProcInv
      /\ hlp \in [Jobs -> Helper] /\ HelperOK(hlp[j])
  BY RunParts
<1>1. hlp[j].pc \in HelperLabels /\ hlp[j].pc \notin {"none", "created", "exited"}
  BY <1>0 DEF HelperOK, Helper, HelperStep, HlpAt, Lookup, CompareImage, ClearParked, Park, StopOld, Create, StartNew,
     Verify, DropOld, RollbackRemove, RollbackRename, RollbackStart, FinishApply
<1>2. ASSUME UNCHANGED procVars, ctr' \in Table, self = None \/ ctr'[self].state = ctr[self].state
      PROVE  ProcTypes' /\ ProcInv' /\ proc' = proc /\ req' = req
  BY <1>0, <1>2 DEF ProcTypes, ProcInv, procVars
<1>3. ASSUME UNCHANGED <<ctr, procVars>>
      PROVE  ctr' \in Table /\ ProcTypes' /\ ProcInv' /\ proc' = proc /\ req' = req
  BY <1>0, <1>2, <1>3
<1>4. ASSUME NEW t \in Table, Become(t)
      PROVE  /\ ctr' \in Table /\ ProcTypes' /\ ProcInv'
             /\ proc' = proc \/ proc' = "down"
             /\ \A k \in Jobs : req'[k].pc \in Before => req'[k] = req[k]
  BY <1>0, <1>4, BecomeRun DEF procVars
<1>5. UNCHANGED hlpFrame /\ verified' \subseteq CID => RestTypes'
  BY <1>0 DEF RestTypes, hlpFrame, tagVars
<1>6. ASSUME NEW l \in {"exited", "clear", "park", "stop", "create", "rbremove", "rbrename", "rbstart"},
             HlpGoto(j, l), hlp[j].pc # "lookup" \/ l = "exited",
             l \in {"clear", "park", "stop", "create"} => hlp[j].pc \in {"image", "clear", "park", "stop"}
      PROVE  /\ hlp' \in [Jobs -> Helper] /\ HelperOK(hlp'[j])
             /\ \A k \in Jobs : k # j => hlp'[k] = hlp[k]
  BY <1>0, <1>1, <1>6, HlpGoes, LabelFacts DEF HelperOK, Early
<1>7. ASSUME NEW v \in Verdicts, HlpReturn(j, v), hlp[j].pc # "lookup"
      PROVE  /\ hlp' \in [Jobs -> Helper] /\ HelperOK(hlp'[j])
             /\ \A k \in Jobs : k # j => hlp'[k] = hlp[k]
  BY <1>0, <1>1, <1>7, HlpReturns, LabelFacts DEF HelperOK, Early
<1>8. verified \subseteq CID
  BY <1>0 DEF RestTypes
<1>9. ASSUME hlp[j].pc # "lookup", NEW n \in Names, ctr' = RenameC(ctr, hlp[j].old, n)
      PROVE  ctr' \in Table /\ (self = None \/ ctr'[self].state = ctr[self].state)
  <2>1. ctr' \in Table
    BY <1>0, <1>9, RenameT
  <2>2. hlp[j].old \in CID /\ self \in Opt(CID)
    BY <1>0, <1>1, <1>9 DEF HelperOK, ProcTypes
  <2> QED
    BY <1>0, <1>9, <2>1, <2>2 DEF RenameC, Opt, Table, Container
<1>a. CASE Lookup(j)
  <2>1. UNCHANGED <<ctr, procVars, hlpFrame, verified>>
    BY <1>a DEF Lookup, hlpFrame
  <2>2. /\ hlp' \in [Jobs -> Helper] /\ HelperOK(hlp'[j])
        /\ \A k \in Jobs : k # j => hlp'[k] = hlp[k]
    <3>1. ASSUME NEW c \in CID,
                 hlp' = [hlp EXCEPT ![j].pc = "image", ![j].old = c, ![j].seen = ctr[c].state]
          PROVE  /\ hlp' \in [Jobs -> Helper] /\ HelperOK(hlp'[j])
                 /\ \A k \in Jobs : k # j => hlp'[k] = hlp[k]
      BY <1>0, <1>a, <3>1 DEF Lookup, HlpAt, HelperOK, Early, Helper, HelperLabels, Table, Container, Opt
    <3> QED
      BY <1>6, <1>a, <3>1 DEF Lookup, Holder
  <2> QED
    BY <1>0, <1>1, <1>3, <1>5, <1>8, <2>1, <2>2, HelperFrame
<1>b. CASE CompareImage(j)
  <2>1. UNCHANGED <<ctr, procVars, verified>> /\ hlp[j].pc = "image" /\ RestTypes'
    <3>1. UNCHANGED <<ctr, procVars, verified, remoteTag, row, budget>> /\ hlp[j].pc = "image"
          /\ localTag' \in {localTag, remoteTag}
      BY <1>b DEF CompareImage, HlpAt
    <3> QED
      BY <1>0, <3>1 DEF RestTypes
  <2>2. /\ hlp' \in [Jobs -> Helper] /\ HelperOK(hlp'[j])
        /\ \A k \in Jobs : k # j => hlp'[k] = hlp[k]
    BY <1>6, <1>7, <1>b, <2>1, LabelFacts DEF CompareImage
  <2> QED
    BY <1>1, <1>3, <1>8, <2>1, <2>2, HelperFrame
<1>c. CASE ClearParked(j)
  <2>1. /\ UNCHANGED <<hlpFrame, verified>> /\ hlp[j].pc = "clear"
        /\ UNCHANGED <<ctr, procVars>> \/ \E t \in Table : Become(t)
    BY <1>0, <1>c, RemoveT DEF ClearParked, HlpAt, HlpFails
  <2>2. /\ hlp' \in [Jobs -> Helper] /\ HelperOK(hlp'[j])
        /\ \A k \in Jobs : k # j => hlp'[k] = hlp[k]
    BY <1>6, <1>c, <2>1 DEF ClearParked
  <2> QED
    BY <1>1, <1>3, <1>4, <1>5, <1>8, <2>1, <2>2, HelperFrame
<1>d. CASE Park(j)
  <2>1. UNCHANGED <<procVars, hlpFrame, verified>> /\ hlp[j].pc = "park"
    BY <1>d DEF Park, HlpAt
  <2>2. ctr' \in Table /\ (self = None \/ ctr'[self].state = ctr[self].state)
    <3>1. CASE ctr' = ctr
      BY <1>0, <3>1
    <3>2. CASE ctr' = RenameC(ctr, hlp[j].old, "old")
      BY <1>9, <2>1, <3>2 DEF Names
    <3> QED
      BY <1>d, <3>1, <3>2 DEF Park
  <2>3. /\ hlp' \in [Jobs -> Helper] /\ HelperOK(hlp'[j])
        /\ \A k \in Jobs : k # j => hlp'[k] = hlp[k]
    BY <1>6, <1>7, <1>d, <2>1, LabelFacts DEF Park
  <2> QED
    BY <1>1, <1>2, <1>5, <1>8, <2>1, <2>2, <2>3, HelperFrame
<1>e. CASE StopOld(j)
  <2>1. /\ UNCHANGED <<hlpFrame, verified>> /\ hlp[j].pc = "stop"
        /\ UNCHANGED <<ctr, procVars>> \/ \E t \in Table : Become(t)
    BY <1>0, <1>e, SetStateT DEF StopOld, HlpAt, HlpFails, States
  <2>2. /\ hlp' \in [Jobs -> Helper] /\ HelperOK(hlp'[j])
        /\ \A k \in Jobs : k # j => hlp'[k] = hlp[k]
    BY <1>6, <1>e, <2>1 DEF StopOld
  <2> QED
    BY <1>1, <1>3, <1>4, <1>5, <1>8, <2>1, <2>2, HelperFrame
<1>f. CASE Create(j)
  <2>1. UNCHANGED <<procVars, hlpFrame, verified>> /\ hlp[j].pc = "create"
    BY <1>f DEF Create, HlpAt
  <2>2. CASE ctr' = ctr /\ HlpGoto(j, "rbremove")
    BY <1>1, <1>3, <1>5, <1>6, <1>8, <2>1, <2>2, HelperFrame
  <2>3. ASSUME NEW c \in Fresh, ctr' = CreateC(ctr, c, "svc", localTag, ctr[hlp[j].old].spec),
               hlp' = [hlp EXCEPT ![j].pc = "start", ![j].new = c]
        PROVE  /\ RunInv' /\ \A k \in Jobs : k # j => hlp'[k] = hlp[k]
           /\ hlp[j].pc \notin {"none", "created", "exited"}
           /\ proc' \notin {"retire", "remove", "rename"}
    <3>1. c \in CID /\ ctr[c].state = "unused"
      BY <2>3 DEF Fresh
    <3>2. ctr' \in Table
      <4>1. ctr[hlp[j].old].spec \in Specs /\ localTag \in Images
        BY <1>0, <2>1, LabelFacts DEF HelperOK, Table, Container, RestTypes
      <4> QED
        BY <1>0, <2>3, <3>1, <4>1, CreateT
    <3>3. self = None \/ ctr'[self].state = ctr[self].state
      BY <1>0, <2>3, <3>1 DEF CreateC, ProcInv, Alive, ProcTypes, Opt, Table
    <3>4. /\ hlp' \in [Jobs -> Helper] /\ HelperOK(hlp'[j])
          /\ \A k \in Jobs : k # j => hlp'[k] = hlp[k]
      BY <1>0, <2>1, <2>3, <3>1 DEF HelperOK, Early, Helper, HelperLabels, Opt
    <3> QED
      BY <1>1, <1>2, <1>5, <1>8, <2>1, <3>2, <3>3, <3>4, HelperFrame
  <2> QED
    BY <1>f, <2>2, <2>3 DEF Create
<1>g. CASE StartNew(j)
  <2>1. UNCHANGED <<hlpFrame, verified>> /\ hlp[j].pc = "start" /\ hlp[j].new \in CID
    BY <1>0, <1>g DEF StartNew, HlpAt, HelperOK
  <2>2. CASE UNCHANGED <<ctr, procVars>> /\ HlpGoto(j, "rbremove")
    BY <1>1, <1>3, <1>5, <1>6, <1>8, <2>1, <2>2, HelperFrame
  <2>3. CASE CanStart(hlp[j].new) /\ Boot(hlp[j].new) /\ HlpGoto(j, "verify")
    <3>1. /\ hlp' \in [Jobs -> Helper] /\ HelperOK(hlp'[j])
          /\ \A k \in Jobs : k # j => hlp'[k] = hlp[k]
      BY <1>0, <2>1, <2>3, HlpGoes, LabelFacts DEF HelperOK, Early
    <3>2. /\ ctr' \in Table /\ ProcTypes' /\ ProcInv'
          /\ proc' = proc \/ proc' = "list"
          /\ req' = req
      BY <1>0, <2>1, <2>3, BootRun DEF CanStart, procVars
    <3> QED
      BY <1>1, <1>5, <1>8, <2>1, <3>1, <3>2, HelperFrame
  <2> QED
    BY <1>g, <2>2, <2>3 DEF StartNew
<1>h. CASE Verify(j)
  <2>1. UNCHANGED <<ctr, procVars, hlpFrame>> /\ hlp[j].pc = "verify" /\ hlp[j].new \in CID
    BY <1>0, <1>h DEF Verify, HlpAt, HelperOK
  <2>2. HlpGoto(j, "drop") \/ HlpGoto(j, "rbremove")
    BY <1>h DEF Verify
  <2>3. /\ hlp' \in [Jobs -> Helper] /\ HelperOK(hlp'[j])
        /\ \A k \in Jobs : k # j => hlp'[k] = hlp[k]
    BY <1>0, <2>1, <2>2, HlpGoes, LabelFacts DEF HelperOK, Early
  <2>4. verified' \subseteq CID
    BY <1>8, <1>h, <2>1 DEF Verify
  <2> QED
    BY <1>1, <1>3, <1>5, <2>1, <2>3, <2>4, HelperFrame
<1>i. CASE DropOld(j) \/ RollbackRemove(j)
  <2>1. /\ UNCHANGED <<hlpFrame, verified>> /\ hlp[j].pc # "lookup"
        /\ UNCHANGED <<ctr, procVars>> \/ \E t \in Table : Become(t)
    BY <1>0, <1>i, RemoveT DEF DropOld, RollbackRemove, HlpAt, HlpFails
  <2>2. /\ hlp' \in [Jobs -> Helper] /\ HelperOK(hlp'[j])
        /\ \A k \in Jobs : k # j => hlp'[k] = hlp[k]
    BY <1>6, <1>7, <1>i, <2>1, LabelFacts DEF DropOld, RollbackRemove
  <2> QED
    BY <1>1, <1>3, <1>4, <1>5, <1>8, <2>1, <2>2, HelperFrame
<1>j. CASE RollbackRename(j)
  <2>1. UNCHANGED <<procVars, hlpFrame, verified>> /\ hlp[j].pc # "lookup"
    BY <1>j DEF RollbackRename, HlpAt
  <2>2. ctr' \in Table /\ (self = None \/ ctr'[self].state = ctr[self].state)
    <3>1. CASE ctr' = ctr
      BY <1>0, <3>1
    <3>2. CASE ctr' = RenameC(ctr, hlp[j].old, "svc")
      BY <1>9, <2>1, <3>2 DEF Names
    <3> QED
      BY <1>j, <3>1, <3>2 DEF RollbackRename
  <2>3. /\ hlp' \in [Jobs -> Helper] /\ HelperOK(hlp'[j])
        /\ \A k \in Jobs : k # j => hlp'[k] = hlp[k]
    BY <1>6, <1>7, <1>j, <2>1, LabelFacts DEF RollbackRename
  <2> QED
    BY <1>1, <1>2, <1>5, <1>8, <2>1, <2>2, <2>3, HelperFrame
<1>k. CASE RollbackStart(j)
  <2>1. UNCHANGED <<hlpFrame, verified>> /\ hlp[j].pc = "rbstart" /\ hlp[j].old \in CID
    BY <1>0, <1>k, LabelFacts DEF RollbackStart, HlpAt, HelperOK
  <2>2. /\ hlp' \in [Jobs -> Helper] /\ HelperOK(hlp'[j])
        /\ \A k \in Jobs : k # j => hlp'[k] = hlp[k]
    BY <1>7, <1>k, <2>1, LabelFacts DEF RollbackStart
  <2>3. CASE UNCHANGED <<ctr, procVars>>
    BY <1>1, <1>3, <1>5, <1>8, <2>1, <2>2, <2>3, HelperFrame
  <2>4. CASE CanStart(hlp[j].old) /\ Boot(hlp[j].old)
    <3>1. /\ ctr' \in Table /\ ProcTypes' /\ ProcInv'
          /\ proc' = proc \/ proc' = "list"
          /\ req' = req
      BY <1>0, <2>1, <2>4, BootRun DEF CanStart, procVars
    <3> QED
      BY <1>1, <1>5, <1>8, <2>1, <2>2, <3>1, HelperFrame
  <2> QED
    BY <1>k, <2>3, <2>4 DEF RollbackStart
<1>l. CASE FinishApply(j)
  <2>1. UNCHANGED <<ctr, tagVars, procVars, budget, verified>> /\ HlpGoto(j, "exited")
    BY <1>l DEF FinishApply
  <2>2. row' \in [Jobs -> Verdicts]
    BY <1>0, <1>l DEF FinishApply, RestTypes, HelperOK, Helper
  <2>3. RestTypes'
    BY <1>0, <2>1, <2>2 DEF RestTypes, tagVars
  <2>4. /\ hlp' \in [Jobs -> Helper] /\ HelperOK(hlp'[j])
        /\ \A k \in Jobs : k # j => hlp'[k] = hlp[k]
    BY <1>6, <2>1
  <2> QED
    BY <1>1, <1>3, <2>1, <2>3, <2>4, HelperFrame
<1> QED
  BY <1>a, <1>b, <1>c, <1>d, <1>e, <1>f, <1>g, <1>h, <1>i, <1>j, <1>k, <1>l DEF HelperStep

\* What a step of a request has to keep: a request is made of a Veery that serves.
LEMMA ReqKeeps ==
    ASSUME RunInv, NEW j \in Jobs, proc = "serving",
           UNCHANGED <<ctr, remoteTag, self, proc, found, watch, budget, verified>>,
           localTag' \in Images, row' \in [Jobs -> Verdicts], lock' \in Opt(Jobs), active' \subseteq Jobs,
           req' \in [Jobs -> Request], \A k \in Jobs : k # j => req'[k] = req[k],
           hlp' \in [Jobs -> Helper], \A k \in Jobs : k # j => hlp'[k] = hlp[k], HelperOK(hlp'[j]),
           req'[j].pc \in Before => Unbegun(hlp'[j])
    PROVE  RunInv'
<1>0. /\ ctr \in Table /\ RestTypes /\ ProcTypes /\ ProcInv
      /\ \A k \in Jobs : HelperOK(hlp[k]) /\ (req[k].pc \in Before => Unbegun(hlp[k]))
  BY RunParts
<1>1. RestTypes' /\ ProcTypes'
  BY <1>0 DEF RestTypes, ProcTypes
<1>2. ProcInv' /\ RecoverAlone'
  BY <1>0 DEF ProcInv, RecoverAlone
<1>3. \A k \in Jobs : HelperOK(hlp'[k]) /\ (req'[k].pc \in Before => Unbegun(hlp'[k]))
  BY <1>0
<1> QED
  BY <1>0, <1>1, <1>2, <1>3, RunPartsNext

\* A request goes on to another label,
LEMMA ReqGoes ==
    ASSUME req \in [Jobs -> Request], NEW j \in Jobs, NEW l \in ReqLabels, ReqGoto(j, l)
    PROVE  /\ req' \in [Jobs -> Request] /\ req'[j].pc = l
           /\ \A k \in Jobs : k # j => req'[k] = req[k]
  BY DEF ReqGoto, Request

\* or returns with a verdict.
LEMMA ReqReturns ==
    ASSUME req \in [Jobs -> Request], NEW j \in Jobs, NEW v \in Verdicts, ReqReturn(j, v)
    PROVE  /\ req' \in [Jobs -> Request] /\ req'[j].pc = "unlock"
           /\ \A k \in Jobs : k # j => req'[k] = req[k]
  BY DEF ReqReturn, Request, ReqLabels

LEMMA ReqFacts ==
    /\ {"idle", "lock", "inspect", "pull", "handoff", "starthelper", "unlock", "finish", "forget",
        "done", "handed", "dead"} = ReqLabels
    /\ {"lock", "inspect", "pull", "handoff", "starthelper", "unlock", "finish", "forget"} = Busy
    /\ {"idle", "lock", "inspect", "pull", "handoff", "starthelper"} = Before
  BY DEF ReqLabels, Busy, Before

\* Every step of a request keeps RunInv.
LEMMA RequestRun ==
    ASSUME RunInv, NEW j \in Jobs, Update(j) \/ ReqStep(j)
    PROVE  /\ RunInv'
           /\ UNCHANGED <<ctr, verified, proc, self, budget>>
           /\ hlp' = hlp \/ (req[j].pc \in Before /\ \A k \in Jobs : k # j => hlp'[k] = hlp[k])
           /\ \A k \in Jobs : req'[k].pc \in Before => req[k].pc \in Before
<1>0. /\ ctr \in Table /\ RestTypes /\ ProcTypes /\ ProcInv
      /\ hlp \in [Jobs -> Helper] /\ HelperOK(hlp[j])
      /\ req[j].pc \in Before => Unbegun(hlp[j])
  BY RunParts
<1>1. req \in [Jobs -> Request] /\ localTag \in Images /\ remoteTag \in Images
      /\ row \in [Jobs -> Verdicts] /\ lock \in Opt(Jobs) /\ active \subseteq Jobs
  BY <1>0 DEF ProcTypes, RestTypes
<1>2. ASSUME req[j].pc \in Busy, UNCHANGED reqFrame, localTag' \in Images, lock' \in Opt(Jobs),
             hlp' = hlp \/ (req[j].pc \in Before /\ \A k \in Jobs : k # j => hlp'[k] = hlp[k]),
             req' \in [Jobs -> Request], \A k \in Jobs : k # j => req'[k] = req[k],
             req'[j].pc \in Before => req[j].pc \in Before,
             hlp' \in [Jobs -> Helper], HelperOK(hlp'[j]),
             req'[j].pc \in Before => Unbegun(hlp'[j])
      PROVE  /\ RunInv' /\ UNCHANGED <<ctr, verified, proc, self, budget>>
             /\ hlp' = hlp \/ (req[j].pc \in Before /\ \A k \in Jobs : k # j => hlp'[k] = hlp[k])
             /\ \A k \in Jobs : req'[k].pc \in Before => req[k].pc \in Before
  <2>1. proc = "serving"
    BY <1>0, <1>2 DEF ProcInv
  <2>2. UNCHANGED <<ctr, remoteTag, row, self, proc, found, active, watch, budget, verified>>
    BY <1>2 DEF reqFrame
  <2>3. \A k \in Jobs : k # j => hlp'[k] = hlp[k]
    BY <1>2
  <2>4. RunInv'
    BY <1>1, <1>2, <2>1, <2>2, <2>3, ReqKeeps
  <2> QED
    BY <1>2, <2>2, <2>4
<1>3. ASSUME req[j].pc \in Busy, UNCHANGED <<reqFrame, hlp>>, localTag' \in Images, lock' \in Opt(Jobs),
             req' \in [Jobs -> Request], \A k \in Jobs : k # j => req'[k] = req[k],
             req'[j].pc \in Before => req[j].pc \in Before
      PROVE  /\ RunInv' /\ UNCHANGED <<ctr, verified, proc, self, budget, hlp>>
             /\ \A k \in Jobs : req'[k].pc \in Before => req[k].pc \in Before
  <2>1. hlp' \in [Jobs -> Helper] /\ HelperOK(hlp'[j]) /\ hlp' = hlp
    BY <1>0, <1>3
  <2> QED
    BY <1>0, <1>2, <1>3, <2>1
<1>a. CASE Update(j) \/ ReqFinish(j) \/ Forget(j)
  <2>1. /\ UNCHANGED <<ctr, tagVars, self, proc, found, lock, watch, hlp, budget, verified>>
        /\ req[j].pc \in {"idle", "finish", "forget"} /\ proc = "serving"
    BY <1>0, <1>a, ReqFacts DEF Update, ReqFinish, Forget, ReqAt, ProcInv
  <2>2. row' \in [Jobs -> Verdicts] /\ active' \subseteq Jobs
    BY <1>1, <1>a, LabelFacts DEF Update, ReqFinish, Forget, Request
  <2>3. /\ req' \in [Jobs -> Request] /\ \A k \in Jobs : k # j => req'[k] = req[k]
        /\ req'[j].pc \in Before => req[j].pc \in Before
    BY <1>1, <1>a, ReqGoes, ReqFacts DEF Update, ReqAt, ReqFinish, Forget
  <2>4. RunInv'
    BY <1>0, <1>1, <2>1, <2>2, <2>3, ReqKeeps DEF tagVars
  <2> QED
    BY <2>1, <2>3, <2>4
<1>b. CASE Lock(j) \/ Unlock(j)
  <2>1. /\ UNCHANGED <<reqFrame, localTag, hlp>> /\ req[j].pc \in {"lock", "unlock"}
        /\ lock' \in Opt(Jobs)
    BY <1>b DEF Lock, Unlock, ReqAt, Opt
  <2>2. /\ req' \in [Jobs -> Request] /\ \A k \in Jobs : k # j => req'[k] = req[k]
        /\ req'[j].pc \in Before => req[j].pc \in Before
    BY <1>1, <1>b, ReqGoes, ReqFacts DEF Lock, Unlock, ReqAt
  <2> QED
    BY <1>1, <1>3, <2>1, <2>2, ReqFacts
<1>c. CASE Inspect(j)
  <2>1. UNCHANGED <<reqFrame, localTag, lock, hlp>> /\ req[j].pc = "inspect"
    BY <1>c DEF Inspect, ReqAt
  <2>2. req' \in [Jobs -> Request] /\ \A k \in Jobs : k # j => req'[k] = req[k]
    <3>1. ASSUME NEW c \in CID, req' = [req EXCEPT ![j].pc = "pull", ![j].old = c]
          PROVE  req' \in [Jobs -> Request] /\ \A k \in Jobs : k # j => req'[k] = req[k]
      BY <1>1, <3>1 DEF Request, ReqLabels, Opt
    <3> QED
      BY <1>1, <1>c, <3>1, ReqReturns, LabelFacts DEF Inspect, Holder
  <2> QED
    BY <1>1, <1>3, <2>1, <2>2, ReqFacts
<1>d. CASE Pull(j)
  <2>1. UNCHANGED <<reqFrame, lock, hlp>> /\ req[j].pc = "pull" /\ localTag' \in Images
    BY <1>1, <1>d DEF Pull, ReqAt
  <2>2. req' \in [Jobs -> Request] /\ \A k \in Jobs : k # j => req'[k] = req[k]
    BY <1>1, <1>d, ReqGoes, ReqReturns, ReqFacts, LabelFacts DEF Pull
  <2> QED
    BY <1>1, <1>3, <2>1, <2>2, ReqFacts
<1>e. CASE HandOff(j) \/ StartHelper(j)
  <2>1. /\ UNCHANGED <<reqFrame, localTag, lock>> /\ req[j].pc \in {"handoff", "starthelper"}
        /\ \/ hlp' = hlp
           \/ \E l \in {"none", "created", "lookup"} :
                 /\ hlp' = [hlp EXCEPT ![j].pc = l]
                 /\ l = "lookup" => ReqReturn(j, "active")
    BY <1>e DEF HandOff, StartHelper, ReqAt
  <2>2. req' \in [Jobs -> Request] /\ \A k \in Jobs : k # j => req'[k] = req[k]
    BY <1>1, <1>e, ReqGoes, ReqReturns, ReqFacts, LabelFacts DEF HandOff, StartHelper
  <2>3. req[j].pc \in Before /\ req[j].pc \in Busy
    BY <2>1, ReqFacts
  <2>4. /\ hlp' \in [Jobs -> Helper] /\ HelperOK(hlp'[j])
        /\ \A k \in Jobs : k # j => hlp'[k] = hlp[k]
        /\ req'[j].pc \in Before => Unbegun(hlp'[j])
    <3>1. CASE hlp' = hlp
      BY <1>0, <2>3, <3>1
    <3>2. ASSUME NEW l \in {"none", "created", "lookup"}, hlp' = [hlp EXCEPT ![j].pc = l],
                 l = "lookup" => ReqReturn(j, "active")
          PROVE  /\ hlp' \in [Jobs -> Helper] /\ HelperOK(hlp'[j])
                 /\ \A k \in Jobs : k # j => hlp'[k] = hlp[k]
                 /\ req'[j].pc \in Before => Unbegun(hlp'[j])
      <4>1. HlpGoto(j, l) /\ l \in HelperLabels
        BY <3>2, LabelFacts DEF HlpGoto
      <4>2. /\ hlp' \in [Jobs -> Helper] /\ hlp'[j].pc = l /\ hlp'[j].new = hlp[j].new
            /\ \A k \in Jobs : k # j => hlp'[k] = hlp[k]
        BY <1>0, <4>1, HlpGoes
      <4>3. l = "lookup" => req'[j].pc \notin Before
        BY <1>1, <3>2, ReqReturns, ReqFacts, LabelFacts
      <4> QED
        BY <1>0, <2>3, <3>2, <4>2, <4>3 DEF HelperOK, Unbegun, Early
    <3> QED
      BY <2>1, <3>1, <3>2
  <2> QED
    BY <1>1, <1>2, <2>1, <2>2, <2>3, <2>4
<1> QED
  BY <1>a, <1>b, <1>c, <1>d, <1>e DEF ReqStep

\* Every step of Recover keeps RunInv.
LEMMA RecoverRun ==
    ASSUME RunInv, RecoverStep
    PROVE  RunInv'
<1>0. /\ ctr \in Table /\ RestTypes /\ ProcTypes /\ ProcInv /\ RecoverAlone
      /\ hlp \in [Jobs -> Helper]
      /\ \A k \in Jobs : HelperOK(hlp[k]) /\ (req[k].pc \in Before => Unbegun(hlp[k]))
  BY RunParts
<1>1. /\ UNCHANGED <<localTag, remoteTag, self, lock, req, budget>>
      /\ proc \in {"list", "retire", "remove", "rename", "prune", "resume"}
      /\ proc' \in {"retire", "remove", "rename", "prune", "resume", "serving"}
  BY DEF RecoverStep, RecoverList, RecoverRetire, RecoverRemove, RecoverRename, PruneUpdaters,
     ResumeJob, Serve, recoverFrame, tagVars
<1>2. /\ self \in CID /\ ctr[self].state \in Alive
      /\ \A k \in Jobs : req[k].pc \notin Busy
  BY <1>0, <1>1 DEF ProcInv, ProcTypes, Opt
<1>3. /\ hlp' \in [Jobs -> Helper]
      /\ \A k \in Jobs : HelperOK(hlp'[k]) /\ (req'[k].pc \in Before => Unbegun(hlp'[k]))
      /\ hlp' = hlp \/ (proc = "prune" /\ proc' = "resume")
  <2>1. CASE hlp' = hlp
    BY <1>0, <1>1, <2>1
  <2>2. CASE /\ PruneUpdaters
             /\ hlp' = [j \in Jobs |-> IF hlp[j].pc \in {"created", "exited"}
                                       THEN [hlp[j] EXCEPT !.pc = "none"] ELSE hlp[j]]
    <3>1. \A k \in Jobs : /\ hlp'[k] \in Helper /\ HelperOK(hlp'[k])
                          /\ hlp'[k] = hlp[k] \/ (hlp'[k].pc = "none" /\ hlp'[k].new = hlp[k].new)
      BY <1>0, <2>2, LabelFacts DEF Helper, HelperOK, Early
    <3>2. hlp' \in [Jobs -> Helper] /\ proc = "prune" /\ proc' = "resume"
      BY <2>2, <3>1 DEF PruneUpdaters
    <3> QED
      BY <1>0, <1>1, <3>1, <3>2 DEF Unbegun
  <2> QED
    BY <2>1, <2>2 DEF RecoverStep, RecoverList, RecoverRetire, RecoverRemove, RecoverRename,
       PruneUpdaters, ResumeJob, Serve
<1>4. /\ found' \in Listing
      /\ proc' = "retire" => found'.parked # self
      /\ proc' = "remove" => found'.fresh # self
      /\ RecoverAlone'
  <2>1. CASE RecoverList
    <3>1. hlp' = hlp
      BY <2>1 DEF RecoverList
    <3>2. CASE UNCHANGED found /\ proc' \in {"prune", "serving"}
      BY <1>0, <3>2 DEF ProcTypes, RecoverAlone
    <3>3. CASE Updaters # {} /\ proc' = "resume" /\ found' = [Nothing EXCEPT !.updaters = Updaters]
      BY <3>3 DEF Nothing, Listing, Opt, Updaters, RecoverAlone
    <3>4. ASSUME Updaters = {}, NEW p \in Holder(ctr, "old"),
                 \/ /\ p # self /\ proc' = "retire" /\ found' = [Nothing EXCEPT !.parked = p]
                 \/ /\ p = self /\ proc' = "rename" /\ UNCHANGED found
                 \/ /\ p = self /\ proc' = "remove"
                    /\ \E f \in Holder(ctr, "svc") : found' = [Nothing EXCEPT !.fresh = f]
          PROVE  /\ found' \in Listing
                 /\ proc' = "retire" => found'.parked # self
                 /\ proc' = "remove" => found'.fresh # self
                 /\ RecoverAlone'
      <4>1. Updaters' = {}
        BY <3>1, <3>4 DEF Updaters
      <4>2. \A f \in Holder(ctr, "svc") : f \in CID /\ f # p
        BY DEF Holder
      <4>3. p \in CID
        BY DEF Holder
      <4> QED
        BY <1>0, <3>4, <4>1, <4>2, <4>3 DEF Nothing, Listing, Opt, ProcTypes, RecoverAlone
    <3> QED
      BY <2>1, <3>2, <3>3, <3>4 DEF RecoverList
  <2>2. CASE ~RecoverList
    <3>1. found' = found /\ proc' \in {"rename", "prune", "resume", "serving"}
      BY <2>2 DEF RecoverStep, RecoverRetire, RecoverRemove, RecoverRename, PruneUpdaters,
         ResumeJob, Serve
    <3>2. proc' = "rename" => proc = "remove" /\ hlp' = hlp
      BY <2>2 DEF RecoverStep, RecoverRetire, RecoverRemove, RecoverRename, PruneUpdaters,
         ResumeJob, Serve
    <3> QED
      BY <1>0, <3>1, <3>2 DEF ProcTypes, RecoverAlone, Updaters
  <2> QED
    BY <2>1, <2>2
<1>5. ctr' \in Table /\ ctr'[self].state = ctr[self].state /\ verified' \subseteq CID
  <2>1. CASE RecoverRetire
    <3>1. ctr' = ctr \/ ctr' = RemoveC(ctr, {found.parked})
      BY <2>1 DEF RecoverRetire
    <3>2. verified' \subseteq verified \cup {self} /\ found.parked # self
      BY <1>0, <2>1 DEF RecoverRetire, ProcInv
    <3> QED
      BY <1>0, <1>2, <3>1, <3>2, RemoveT, RemoveKeeps DEF RestTypes
  <2>2. CASE RecoverRemove
    <3>1. (ctr' = ctr \/ ctr' = RemoveC(ctr, {found.fresh})) /\ verified' = verified
      BY <2>2 DEF RecoverRemove
    <3>2. found.fresh # self
      BY <1>0, <2>2 DEF RecoverRemove, ProcInv
    <3> QED
      BY <1>0, <1>2, <3>1, <3>2, RemoveT, RemoveKeeps DEF RestTypes
  <2>3. CASE RecoverRename
    <3>1. (ctr' = ctr \/ ctr' = RenameC(ctr, self, "svc")) /\ verified' = verified
      BY <2>3 DEF RecoverRename
    <3>2. ctr' \in Table
      BY <1>0, <3>1, RenameT DEF Names
    <3> QED
      BY <1>0, <1>2, <3>1, <3>2 DEF RenameC, RestTypes, Table, Container
  <2>4. CASE RecoverList \/ PruneUpdaters \/ (\E j \in Jobs : ResumeJob(j)) \/ Serve
    BY <1>0, <2>4 DEF RecoverList, PruneUpdaters, ResumeJob, Serve, RestTypes
  <2> QED
    BY <2>1, <2>2, <2>3, <2>4 DEF RecoverStep
<1>6. row' \in [Jobs -> Verdicts] /\ active' \subseteq Jobs /\ watch' \in [Jobs -> {"off", "read", "list"}]
  <2>1. ASSUME NEW j \in Jobs, ResumeJob(j)
        PROVE  /\ row' \in [Jobs -> Verdicts] /\ active' \subseteq Jobs
               /\ watch' \in [Jobs -> {"off", "read", "list"}]
    BY <1>0, <2>1, LabelFacts DEF ResumeJob, SettleJob, RestTypes, ProcTypes
  <2>2. CASE UNCHANGED <<row, active, watch>>
    BY <1>0, <2>2 DEF RestTypes, ProcTypes
  <2> QED
    BY <2>1, <2>2 DEF RecoverStep, RecoverList, RecoverRetire, RecoverRemove, RecoverRename,
       PruneUpdaters, Serve
<1>7. RestTypes' /\ ProcTypes'
  BY <1>0, <1>1, <1>4, <1>5, <1>6 DEF RestTypes, ProcTypes, Procs
<1>8. ProcInv'
  BY <1>1, <1>2, <1>4, <1>5, NoneAssumption DEF ProcInv
<1> QED
  BY <1>3, <1>4, <1>5, <1>7, <1>8, RunPartsNext

\* Nothing that RunInv depends on is watchJob's.
LEMMA WatchRun ==
    ASSUME RunInv, NEW j \in Jobs, WatchStep(j)
    PROVE  RunInv' /\ UNCHANGED <<ctr, verified, proc, self, req, hlp, budget>>
<1>0. /\ ctr \in Table /\ RestTypes /\ ProcTypes /\ ProcInv /\ RecoverAlone
      /\ hlp \in [Jobs -> Helper]
      /\ \A k \in Jobs : HelperOK(hlp[k]) /\ (req[k].pc \in Before => Unbegun(hlp[k]))
  BY RunParts
<1>1. UNCHANGED <<ctr, localTag, remoteTag, self, lock, req, budget, proc, found, hlp, verified>>
  BY DEF WatchStep, WatchRead, WatchList, recoverFrame, tagVars
<1>2. /\ row' \in [Jobs -> Verdicts] /\ active' \subseteq Jobs
      /\ watch' \in [Jobs -> {"off", "read", "list"}]
  BY <1>0, LabelFacts DEF WatchStep, WatchRead, WatchList, SettleJob, RestTypes, ProcTypes
<1>3. RestTypes' /\ ProcTypes' /\ ProcInv' /\ RecoverAlone'
  BY <1>0, <1>1, <1>2 DEF RestTypes, ProcTypes, ProcInv, RecoverAlone, Updaters
<1>4. /\ ctr' \in Table /\ hlp' \in [Jobs -> Helper]
      /\ \A k \in Jobs : HelperOK(hlp'[k]) /\ (req'[k].pc \in Before => Unbegun(hlp'[k]))
  BY <1>0, <1>1
<1> QED
  BY <1>1, <1>3, <1>4, RunPartsNext

\* The rest of the world keeps it as well.
LEMMA WorldRun ==
    ASSUME RunInv,
           \/ Publish \/ Crash \/ \E j \in Jobs : KillHelper(j)
           \/ \E c \in CID : ContainerDrift(c) \/ Revive(c) \/ UserStart(c)
    PROVE  /\ RunInv' /\ verified' = verified
           /\ hlp' = hlp \/ \E j \in Jobs : KillHelper(j)
           /\ proc' \in {"down", "list"} \/ UNCHANGED procVars
           /\ \A k \in Jobs : req'[k].pc \in Before => req'[k] = req[k]
<1>0. /\ ctr \in Table /\ RestTypes /\ ProcTypes /\ ProcInv /\ RecoverAlone
      /\ hlp \in [Jobs -> Helper]
      /\ \A k \in Jobs : HelperOK(hlp[k]) /\ (req[k].pc \in Before => Unbegun(hlp[k]))
  BY RunParts
<1>1. ASSUME ctr' \in Table, UNCHANGED <<tagVars, row, hlp, verified>>, ProcTypes', ProcInv',
             budget' \in [crashes : 0 .. MaxCrashes, kills : 0 .. MaxKills, faults : BOOLEAN],
             proc' \in {"down", "list"} \/ UNCHANGED procVars,
             \A k \in Jobs : req'[k].pc \in Before => req'[k] = req[k]
      PROVE  RunInv'
  <2>1. RestTypes'
    BY <1>0, <1>1 DEF RestTypes, tagVars
  <2>2. RecoverAlone'
    BY <1>0, <1>1 DEF RecoverAlone, Updaters, procVars
  <2>3. /\ hlp' \in [Jobs -> Helper]
        /\ \A k \in Jobs : HelperOK(hlp'[k]) /\ (req'[k].pc \in Before => Unbegun(hlp'[k]))
    BY <1>0, <1>1
  <2> QED
    BY <1>1, <2>1, <2>2, <2>3, RunPartsNext
<1>2. budget \in [crashes : 0 .. MaxCrashes, kills : 0 .. MaxKills, faults : BOOLEAN]
  BY <1>0 DEF RestTypes
<1>a. CASE Publish
  <2>1. /\ UNCHANGED <<ctr, localTag, row, self, proc, found, lock, active, watch, req, hlp, budget, verified>>
        /\ remoteTag' \in Images
    BY <1>a DEF Publish, procVars
  <2>2. RestTypes' /\ ProcTypes' /\ ProcInv' /\ RecoverAlone'
    BY <1>0, <2>1 DEF RestTypes, ProcTypes, ProcInv, RecoverAlone, Updaters
  <2>3. /\ ctr' \in Table /\ hlp' \in [Jobs -> Helper]
        /\ \A k \in Jobs : HelperOK(hlp'[k]) /\ (req'[k].pc \in Before => Unbegun(hlp'[k]))
    BY <1>0, <2>1
  <2>4. RunInv'
    BY <2>2, <2>3, RunPartsNext
  <2> QED
    BY <2>1, <2>4 DEF procVars
<1>b. CASE Crash
  <2>1. /\ UNCHANGED <<tagVars, row, hlp, verified>>
        /\ Become(SetState(ctr, self, "restarting"))
        /\ budget' = [budget EXCEPT !.crashes = @ - 1] /\ budget.crashes > 0
    BY <1>b DEF Crash
  <2>2. budget' \in [crashes : 0 .. MaxCrashes, kills : 0 .. MaxKills, faults : BOOLEAN]
    BY <1>2, <2>1, InitAssumption
  <2>3. SetState(ctr, self, "restarting") \in Table
    BY <1>0, SetStateT DEF States, Up
  <2>4. /\ ProcTypes' /\ ProcInv' /\ ctr' \in Table
        /\ proc' = "down" \/ UNCHANGED procVars
        /\ \A k \in Jobs : req'[k].pc \in Before => req'[k] = req[k]
    BY <1>0, <2>1, <2>3, BecomeRun
  <2> QED
    BY <1>1, <2>1, <2>2, <2>4
<1>c. ASSUME NEW j \in Jobs, KillHelper(j)
      PROVE  RunInv' /\ UNCHANGED <<verified, procVars>>
  <2>1. /\ UNCHANGED <<ctr, tagVars, row, self, proc, found, lock, active, watch, req, verified>>
        /\ HlpGoto(j, "exited") /\ j \in Updaters
        /\ budget' = [budget EXCEPT !.kills = @ - 1] /\ budget.kills > 0
    BY <1>c DEF KillHelper, procVars
  <2>2. budget' \in [crashes : 0 .. MaxCrashes, kills : 0 .. MaxKills, faults : BOOLEAN]
    BY <1>2, <2>1, InitAssumption
  <2>3. RestTypes' /\ ProcTypes' /\ ProcInv'
    BY <1>0, <2>1, <2>2 DEF RestTypes, ProcTypes, ProcInv, tagVars
  <2>4. /\ hlp' \in [Jobs -> Helper] /\ HelperOK(hlp'[j])
        /\ \A k \in Jobs : k # j => hlp'[k] = hlp[k]
    BY <1>0, <2>1, HlpGoes, LabelFacts DEF HelperOK, Early
  <2>5. RunInv'
    BY <1>0, <2>1, <2>3, <2>4, HelperFrame DEF Updaters
  <2> QED
    BY <2>1, <2>5 DEF procVars
<1>d. ASSUME NEW c \in CID, ContainerDrift(c)
      PROVE  /\ RunInv' /\ UNCHANGED <<verified, hlp>>
             /\ proc' = "down" \/ UNCHANGED procVars
             /\ \A k \in Jobs : req'[k].pc \in Before => req'[k] = req[k]
  <2>1. PICK s \in Drift(ctr[c].image, ctr[c].state) \ {"running"} : Become(SetState(ctr, c, s))
    BY <1>d DEF ContainerDrift
  <2>2. s \in States
    BY DEF Drift, States, Up
  <2>3. SetState(ctr, c, s) \in Table
    BY <1>0, <2>2, SetStateT
  <2>4. /\ ProcTypes' /\ ProcInv' /\ ctr' \in Table
        /\ proc' = "down" \/ UNCHANGED procVars
        /\ \A k \in Jobs : req'[k].pc \in Before => req'[k] = req[k]
    BY <1>0, <2>1, <2>3, BecomeRun
  <2>5. UNCHANGED <<tagVars, row, hlp, budget, verified>>
    BY <1>d DEF ContainerDrift
  <2> QED
    BY <1>1, <1>2, <2>4, <2>5
<1>e. ASSUME NEW c \in CID, Revive(c)
      PROVE  RunInv' /\ UNCHANGED <<verified, hlp, req>> /\ proc' = "list"
  <2>1. /\ UNCHANGED <<tagVars, found, lock, active, watch, req, row, hlp, budget, verified>>
        /\ self = None /\ self' = c /\ proc' = "list" /\ ctr' = SetState(ctr, c, "running")
    BY <1>e DEF Revive
  <2>2. ctr' \in Table
    BY <1>0, <2>1, SetStateT DEF States, Up
  <2>3. ctr'[c].state \in Alive
    BY <1>0, <2>1 DEF SetState, Table, Container, Alive
  <2>4. ProcTypes' /\ ProcInv'
    BY <1>0, <2>1, <2>3, NoneAssumption DEF ProcTypes, ProcInv, Procs, Opt
  <2> QED
    BY <1>1, <1>2, <2>1, <2>2, <2>4
<1>f. ASSUME NEW c \in CID, UserStart(c)
      PROVE  /\ RunInv' /\ UNCHANGED <<verified, hlp, req>>
             /\ proc' = "list" \/ UNCHANGED procVars
  <2>1. UNCHANGED <<tagVars, row, hlp, budget, verified>> /\ self = None /\ Boot(c)
    BY <1>f DEF UserStart
  <2>2. /\ ctr' \in Table /\ ProcTypes' /\ ProcInv'
        /\ proc' = "list" \/ UNCHANGED procVars
        /\ req' = req
    BY <1>0, <2>1, BootRun
  <2> QED
    BY <1>1, <1>2, <2>1, <2>2
<1> QED
  BY <1>a, <1>b, <1>c, <1>d, <1>e, <1>f DEF procVars

\* The first state.
LEMMA RunInit == Init => RunInv
<1> SUFFICES ASSUME Init PROVE RunInv
  OBVIOUS
<1>0. PICK c \in CID, s \in Specs :
          /\ ctr = [d \in CID |-> [name |-> "svc", image |-> InitImage, spec |-> s,
                                   state |-> IF d = c THEN "running" ELSE "unused"]]
          /\ self = c /\ verified = {c}
  BY DEF Init
<1>1. ctr \in Table /\ ctr[c].state = "running"
  BY <1>0, InitAssumption, ImagesAssumption DEF Table, Container, Names, States, Up
<1>2. RestTypes
  BY <1>0, InitAssumption, ImagesAssumption DEF Init, RestTypes, Verdicts
<1>3. ProcTypes
  BY <1>0 DEF Init, ProcTypes, Procs, Nothing, NoWatch, Listing, Opt, Request, ReqLabels, Verdicts
<1>4. hlp \in [Jobs -> Helper] /\ \A j \in Jobs : HelperOK(hlp[j]) /\ Unbegun(hlp[j])
  BY DEF Init, HelperOK, Unbegun, Early, Helper, HelperLabels, Verdicts, States, Opt
<1>5. ProcInv /\ RecoverAlone
  BY <1>0, <1>1, NoneAssumption, ReqFacts DEF Init, ProcInv, RecoverAlone, Alive
<1> QED
  BY <1>1, <1>2, <1>3, <1>4, <1>5, RunParts

\* Every step.
LEMMA RunStep == RunInv /\ [Next]_vars => RunInv'
<1> SUFFICES ASSUME RunInv, [Next]_vars PROVE RunInv'
  OBVIOUS
<1>1. CASE UNCHANGED vars
  BY <1>1 DEF vars, RunInv, TypeOK, ProcInv, RecoverAlone, Updaters
<1>2. CASE Next
  BY <1>2, HelperRun, RequestRun, RecoverRun, WatchRun, WorldRun DEF Next
<1> QED
  BY <1>1, <1>2

\* For any number of requests, whichever calls fail and whoever is killed, the types
\* hold, and while Recover removes or renames a container no helper is at work
\* (runningUpdaters in Recover).
THEOREM RecoverActsAlone == Spec => [](TypeOK /\ RecoverAlone)
<1>1. RunInv => TypeOK /\ RecoverAlone
  BY DEF RunInv
<1> QED
  BY <1>1, RunInit, RunStep, PTL DEF Spec

-----------------------------------------------------------------------------
(* Where the containers are.                                               *)

\* The part of VeeryInv that is about no process.
Placed ==
    /\ \A c, d \in Svc : c = d
    /\ \A c, d \in Old : c = d
    /\ Old \subseteq verified
    /\ Old # {} \/ (Svc # {} /\ Svc \subseteq verified)

\* A helper that is not at work knows nothing of them.
LEMMA HelperOff == \A h : h.pc \in {"none", "created", "exited"} => HelperInv(h)
  BY DEF HelperInv

LEMMA HelperOffNext ==
    \A j \in Jobs : hlp'[j].pc \in {"none", "created", "exited"} => HelperInv(hlp[j])'
  BY DEF HelperInv

\* What a step of the only helper has to keep.
LEMMA HelperPlaces ==
    ASSUME OneHelper, NEW j \in Jobs, hlp[j].pc \notin {"none", "created", "exited"},
           \A k \in Jobs : k # j => hlp'[k] = hlp[k],
           proc' \notin {"retire", "remove", "rename"},
           Placed', HelperInv(hlp[j])', hlp'[j].pc \notin {"none", "created"}
    PROVE  /\ VeeryInv' /\ hlp'[j].pc \notin {"none", "created"}
<1>1. \A k \in Jobs : k # j => hlp'[k].pc \in {"none", "created", "exited"}
  BY DEF OneHelper, Updaters
<1>2. \A k \in Jobs : k # j => HelperInv(hlp[k])'
  BY <1>1, HelperOffNext
<1>3. \A k \in Jobs : HelperInv(hlp[k])'
  BY <1>2
<1> QED
  BY <1>3 DEF VeeryInv, Placed

\* The steps of a helper up to the replacement's creation.
LEMMA HelperSwaps ==
    ASSUME RunInv, OneHelper, VeeryInv, NEW j \in Jobs, HelperStep(j),
           Lookup(j) \/ CompareImage(j) \/ ClearParked(j) \/ Park(j) \/ StopOld(j) \/ Create(j)
    PROVE  /\ VeeryInv' /\ hlp'[j].pc \notin {"none", "created"}
<1>0. /\ ctr \in Table /\ hlp \in [Jobs -> Helper] /\ HelperOK(hlp[j]) /\ verified \subseteq CID
      /\ Placed /\ HelperInv(hlp[j])
      /\ Svc \subseteq CID /\ Old \subseteq CID /\ \A c \in Svc : c \notin Old
  BY RunParts, ExistsH DEF VeeryInv, Placed, RestTypes, Svc, Old, Holder
<1>1. /\ \A k \in Jobs : k # j => hlp'[k] = hlp[k]
      /\ hlp[j].pc \notin {"none", "created", "exited"}
      /\ proc' \notin {"retire", "remove", "rename"}
  BY HelperRun
<1>2. ASSUME Placed', HelperInv(hlp[j])', hlp'[j].pc \notin {"none", "created"}
      PROVE  VeeryInv' /\ hlp'[j].pc \notin {"none", "created"}
  BY <1>1, <1>2, HelperPlaces
<1>3. ctr' = ctr /\ verified' = verified => Svc' = Svc /\ Old' = Old /\ Placed'
  BY <1>0 DEF Svc, Old, Placed
<1>a. CASE Lookup(j)
  <2>0. ctr' = ctr /\ verified' = verified /\ Svc \subseteq verified
    BY <1>0, <1>a DEF Lookup, HlpAt, HelperInv
  <2>1. \/ hlp'[j].pc = "exited"
        \/ hlp'[j].pc = "image" /\ hlp'[j].old \in Svc
    <3>1. CASE HlpGoto(j, "exited")
      BY <1>0, <3>1, HlpGoes, LabelFacts
    <3>2. ASSUME NEW c \in Svc,
                 hlp' = [hlp EXCEPT ![j].pc = "image", ![j].old = c, ![j].seen = ctr[c].state]
          PROVE  hlp'[j].pc = "image" /\ hlp'[j].old \in Svc
      BY <1>0, <3>2 DEF Helper
    <3> QED
      BY <1>a, <3>1, <3>2 DEF Lookup, Svc
  <2>2. Placed' /\ HelperInv(hlp[j])'
    BY <1>3, <2>0, <2>1 DEF HelperInv
  <2> QED
    BY <1>2, <1>3, <2>0, <2>1, <2>2
<1>b. CASE CompareImage(j)
  <2>0. ctr' = ctr /\ verified' = verified /\ hlp[j].old \in Svc \cap verified
    BY <1>0, <1>b DEF CompareImage, HlpAt, HelperInv
  <2>1. hlp'[j].pc \in {"finish", "clear"} /\ hlp'[j].old = hlp[j].old
    BY <1>0, <1>b, HlpGoes, HlpReturns, LabelFacts DEF CompareImage
  <2>2. Svc \subseteq verified
    BY <1>0, <2>0 DEF Placed
  <2>3. Placed' /\ HelperInv(hlp[j])'
    BY <1>3, <2>0, <2>1, <2>2 DEF HelperInv
  <2> QED
    BY <1>2, <2>1, <2>3
<1>c. CASE ClearParked(j)
  <2>0. verified' = verified /\ hlp[j].old \in Svc \cap verified
    BY <1>0, <1>c DEF ClearParked, HlpAt, HelperInv
  <2>1. hlp'[j].pc = "park" /\ hlp'[j].old = hlp[j].old
    BY <1>0, <1>c, HlpGoes, LabelFacts DEF ClearParked
  <2>2. ctr' = ctr \/ ctr' = RemoveC(ctr, Old)
    BY <1>c DEF ClearParked, HlpFails, Become, Old
  <2>3. Svc' = Svc /\ Old' \subseteq Old
    <3>1. CASE ctr' = ctr
      BY <3>1 DEF Svc, Old
    <3>2. CASE ctr' = RemoveC(ctr, Old)
      <4>1. Svc' = Svc \ Old /\ Old' = Old \ Old
        BY <1>0, <3>2, RemoveH DEF Svc, Old
      <4> QED
        BY <1>0, <4>1
    <3> QED
      BY <2>2, <3>1, <3>2
  <2>4. Placed'
    BY <1>0, <2>0, <2>3 DEF Placed
  <2>5. HelperInv(hlp[j])'
    BY <2>0, <2>1, <2>3 DEF HelperInv
  <2> QED
    BY <1>2, <2>1, <2>4, <2>5
<1>d. CASE Park(j)
  <2>0. verified' = verified /\ hlp[j].old \in Svc \cap verified /\ Svc = {hlp[j].old}
    BY <1>0, <1>d DEF Park, HlpAt, HelperInv, Placed
  <2>1. CASE ctr' = ctr /\ HlpReturn(j, "failed")
    <3>1. hlp'[j].pc = "finish"
      BY <1>0, <2>1, HlpReturns, LabelFacts
    <3>2. Placed' /\ HelperInv(hlp[j])'
      BY <1>3, <2>0, <2>1, <3>1 DEF HelperInv
    <3> QED
      BY <1>2, <3>1, <3>2
  <2>2. CASE CanRename(hlp[j].old, "old") /\ ctr' = RenameC(ctr, hlp[j].old, "old") /\ HlpGoto(j, "stop")
    <3>1. hlp'[j].pc = "stop" /\ hlp'[j].old = hlp[j].old
      BY <1>0, <2>2, HlpGoes, LabelFacts
    <3>2. Svc' = Svc \ {hlp[j].old} /\ Old' = {hlp[j].old}
      BY <1>0, <2>0, <2>2, RenameH DEF CanRename, Svc, Old, Names
    <3>3. Placed' /\ HelperInv(hlp[j])'
      BY <2>0, <3>1, <3>2 DEF Placed, HelperInv
    <3> QED
      BY <1>2, <3>1, <3>3
  <2> QED
    BY <1>d, <2>1, <2>2 DEF Park
<1>e. CASE StopOld(j)
  <2>0. verified' = verified /\ hlp[j].old \in Old /\ Svc = {}
    BY <1>0, <1>e DEF StopOld, HlpAt, HelperInv
  <2>1. hlp'[j].pc = "create" /\ hlp'[j].old = hlp[j].old
    BY <1>0, <1>e, HlpGoes, LabelFacts DEF StopOld
  <2>2. ctr' = ctr \/ ctr' = SetState(ctr, hlp[j].old, "stopped")
    BY <1>e DEF StopOld, HlpFails, Become
  <2>3. Svc' = Svc /\ Old' = Old
    BY <1>0, <2>0, <2>2, ExistsH, SetStateH DEF Svc, Old, States
  <2>4. Placed' /\ HelperInv(hlp[j])'
    BY <1>0, <2>0, <2>1, <2>3 DEF Placed, HelperInv
  <2> QED
    BY <1>2, <2>1, <2>4
<1>f. CASE Create(j)
  <2>0. /\ verified' = verified /\ hlp[j].old \in Old /\ Svc = {} /\ hlp[j].new = None
    BY <1>0, <1>f DEF Create, HlpAt, HelperInv, HelperOK, Early
  <2>1. CASE ctr' = ctr /\ HlpGoto(j, "rbremove")
    <3>1. hlp'[j].pc = "rbremove" /\ hlp'[j].old = hlp[j].old /\ hlp'[j].new = None
      BY <1>0, <2>0, <2>1, HlpGoes, LabelFacts
    <3>2. Placed' /\ HelperInv(hlp[j])'
      BY <1>0, <1>3, <2>0, <2>1, <3>1, NoneAssumption DEF HelperInv
    <3> QED
      BY <1>2, <3>1, <3>2
  <2>2. ASSUME NEW c \in Fresh, ctr' = CreateC(ctr, c, "svc", localTag, ctr[hlp[j].old].spec),
               hlp' = [hlp EXCEPT ![j].pc = "start", ![j].new = c]
        PROVE  VeeryInv' /\ hlp'[j].pc \notin {"none", "created"}
    <3>1. hlp'[j].pc = "start" /\ hlp'[j].old = hlp[j].old /\ hlp'[j].new = c
      BY <1>0, <2>2 DEF Helper
    <3>2. Svc' = {c} /\ Old' = Old
      <4>1. /\ c \in CID /\ ctr[c].state = "unused" /\ localTag \in Images
            /\ ctr[hlp[j].old].spec \in Specs
        BY <1>0, <2>0, <2>2, RunParts DEF Fresh, RestTypes, Table, Container
      <4> QED
        BY <1>0, <2>0, <2>2, <4>1, CreateH DEF Svc, Old
    <3>3. Placed' /\ HelperInv(hlp[j])'
      BY <1>0, <2>0, <3>1, <3>2 DEF Placed, HelperInv
    <3> QED
      BY <1>2, <3>1, <3>3
  <2> QED
    BY <1>f, <2>1, <2>2 DEF Create
<1> QED
  BY <1>a, <1>b, <1>c, <1>d, <1>e, <1>f

\* The rest of them.
LEMMA HelperEnds ==
    ASSUME RunInv, OneHelper, VeeryInv, NEW j \in Jobs, HelperStep(j),
           \/ StartNew(j) \/ Verify(j) \/ DropOld(j)
           \/ RollbackRemove(j) \/ RollbackRename(j) \/ RollbackStart(j) \/ FinishApply(j)
    PROVE  /\ VeeryInv' /\ hlp'[j].pc \notin {"none", "created"}
<1>0. /\ ctr \in Table /\ hlp \in [Jobs -> Helper] /\ HelperOK(hlp[j]) /\ verified \subseteq CID
      /\ Placed /\ HelperInv(hlp[j])
      /\ Svc \subseteq CID /\ Old \subseteq CID /\ \A c \in Svc : c \notin Old
  BY RunParts, ExistsH DEF VeeryInv, Placed, RestTypes, Svc, Old, Holder
<1>1. /\ \A k \in Jobs : k # j => hlp'[k] = hlp[k]
      /\ hlp[j].pc \notin {"none", "created", "exited"}
      /\ proc' \notin {"retire", "remove", "rename"}
  BY HelperRun
<1>2. ASSUME Placed', HelperInv(hlp[j])', hlp'[j].pc \notin {"none", "created"}
      PROVE  VeeryInv' /\ hlp'[j].pc \notin {"none", "created"}
  BY <1>1, <1>2, HelperPlaces
<1>g. CASE StartNew(j)
  <2>0. verified' = verified /\ hlp[j].old \in Old /\ hlp[j].new \in Svc /\ hlp[j].new \in CID
    BY <1>0, <1>g DEF StartNew, HlpAt, HelperInv
  <2>1. /\ hlp'[j].pc \in {"verify", "rbremove"}
        /\ hlp'[j].old = hlp[j].old /\ hlp'[j].new = hlp[j].new
    BY <1>0, <1>g, HlpGoes, LabelFacts DEF StartNew
  <2>2. ctr' = ctr \/ ctr' = StartC(ctr, hlp[j].new)
    BY <1>g DEF StartNew, Boot
  <2>3. Svc' = Svc /\ Old' = Old
    BY <1>0, <2>0, <2>2, ExistsH, StartH DEF Svc, Old
  <2>4. Placed' /\ HelperInv(hlp[j])'
    BY <1>0, <2>0, <2>1, <2>3 DEF Placed, HelperInv
  <2> QED
    BY <1>2, <2>1, <2>4
<1>h. CASE Verify(j)
  <2>0. ctr' = ctr /\ hlp[j].old \in Old /\ hlp[j].new \in Svc
    BY <1>0, <1>h DEF Verify, HlpAt, HelperInv
  <2>1. \/ HlpGoto(j, "drop") /\ verified' = verified \cup {hlp[j].new}
        \/ HlpGoto(j, "rbremove") /\ verified' = verified
    BY <1>h DEF Verify
  <2>2. /\ \/ hlp'[j].pc = "drop" /\ hlp[j].new \in verified'
           \/ hlp'[j].pc = "rbremove"
        /\ hlp'[j].old = hlp[j].old /\ hlp'[j].new = hlp[j].new
        /\ verified \subseteq verified'
    BY <1>0, <2>1, HlpGoes, LabelFacts
  <2>3. Svc' = Svc /\ Old' = Old
    BY <2>0 DEF Svc, Old
  <2>4. Placed' /\ HelperInv(hlp[j])'
    BY <1>0, <2>0, <2>2, <2>3 DEF Placed, HelperInv
  <2> QED
    BY <1>2, <2>2, <2>4
<1>i. CASE DropOld(j)
  <2>0. verified' = verified /\ hlp[j].old \in Old /\ hlp[j].new \in Svc \cap verified
    BY <1>0, <1>i DEF DropOld, HlpAt, HelperInv
  <2>1. hlp'[j].pc = "finish"
    BY <1>0, <1>i, HlpReturns, LabelFacts DEF DropOld
  <2>2. ctr' = ctr \/ ctr' = RemoveC(ctr, {hlp[j].old})
    BY <1>i DEF DropOld, HlpFails, Become
  <2>3. Svc' = Svc /\ Old' \subseteq Old
    <3>1. CASE ctr' = ctr
      BY <3>1 DEF Svc, Old
    <3>2. CASE ctr' = RemoveC(ctr, {hlp[j].old})
      <4>1. Svc' = Svc \ {hlp[j].old} /\ Old' = Old \ {hlp[j].old}
        BY <1>0, <3>2, RemoveH DEF Svc, Old
      <4> QED
        BY <1>0, <2>0, <4>1
    <3> QED
      BY <2>2, <3>1, <3>2
  <2>4. Svc \subseteq verified
    BY <1>0, <2>0 DEF Placed
  <2>5. Placed' /\ HelperInv(hlp[j])'
    BY <1>0, <2>0, <2>1, <2>3, <2>4 DEF Placed, HelperInv
  <2> QED
    BY <1>2, <2>1, <2>5
<1>j. CASE RollbackRemove(j)
  <2>0. verified' = verified /\ hlp[j].old \in Old /\ hlp[j].new # hlp[j].old
    BY <1>0, <1>j DEF RollbackRemove, HlpAt, HelperInv
  <2>1. hlp'[j].pc = "rbrename" /\ hlp'[j].old = hlp[j].old
    BY <1>0, <1>j, HlpGoes, LabelFacts DEF RollbackRemove
  <2>2. ctr' = RemoveC(ctr, {hlp[j].new} \cap CID) \/ ctr' = ctr
    BY <1>j DEF RollbackRemove, HlpFails, Become
  <2>3. Svc' \subseteq Svc /\ Old' \subseteq Old /\ hlp[j].old \in Old'
    BY <1>0, <2>0, <2>2, RemoveH DEF Svc, Old
  <2>4. Placed' /\ HelperInv(hlp[j])'
    BY <1>0, <2>0, <2>1, <2>3 DEF Placed, HelperInv
  <2> QED
    BY <1>2, <2>1, <2>4
<1>k. CASE RollbackRename(j)
  <2>0. verified' = verified /\ hlp[j].old \in Old
    BY <1>0, <1>k DEF RollbackRename, HlpAt, HelperInv
  <2>1. CASE ctr' = ctr /\ HlpReturn(j, "down")
    <3>1. hlp'[j].pc = "finish"
      BY <1>0, <2>1, HlpReturns, LabelFacts
    <3>2. Svc' = Svc /\ Old' = Old
      BY <2>1 DEF Svc, Old
    <3>3. Placed' /\ HelperInv(hlp[j])'
      BY <1>0, <2>0, <3>1, <3>2 DEF Placed, HelperInv
    <3> QED
      BY <1>2, <3>1, <3>3
  <2>2. CASE CanRename(hlp[j].old, "svc") /\ ctr' = RenameC(ctr, hlp[j].old, "svc") /\ HlpGoto(j, "rbstart")
    <3>1. hlp'[j].pc = "rbstart"
      BY <1>0, <2>2, HlpGoes, LabelFacts
    <3>2. Svc' = {hlp[j].old} /\ Old' = Old \ {hlp[j].old}
      BY <1>0, <2>0, <2>2, RenameH DEF CanRename, Svc, Old, Names
    <3>3. Placed' /\ HelperInv(hlp[j])'
      BY <1>0, <2>0, <3>1, <3>2 DEF Placed, HelperInv
    <3> QED
      BY <1>2, <3>1, <3>3
  <2> QED
    BY <1>k, <2>1, <2>2 DEF RollbackRename
<1>l. CASE RollbackStart(j)
  <2>0. verified' = verified /\ hlp[j].old \in CID
    BY <1>0, <1>l, LabelFacts DEF RollbackStart, HlpAt, HelperOK
  <2>1. hlp'[j].pc = "finish"
    BY <1>0, <1>l, HlpReturns, LabelFacts DEF RollbackStart
  <2>2. ctr' = ctr \/ (Exists(ctr, hlp[j].old) /\ ctr' = StartC(ctr, hlp[j].old))
    BY <1>l DEF RollbackStart, CanStart, Boot
  <2>3. Svc' = Svc /\ Old' = Old
    BY <1>0, <2>0, <2>2, StartH DEF Svc, Old
  <2>4. Placed' /\ HelperInv(hlp[j])'
    BY <1>0, <2>0, <2>1, <2>3 DEF Placed, HelperInv
  <2> QED
    BY <1>2, <2>1, <2>4
<1>m. CASE FinishApply(j)
  <2>0. ctr' = ctr /\ verified' = verified
    BY <1>m DEF FinishApply, HlpAt
  <2>1. hlp'[j].pc = "exited"
    BY <1>0, <1>m, HlpGoes, LabelFacts DEF FinishApply
  <2>2. Svc' = Svc /\ Old' = Old
    BY <2>0 DEF Svc, Old
  <2>3. Placed' /\ HelperInv(hlp[j])'
    BY <1>0, <2>0, <2>1, <2>2 DEF Placed, HelperInv
  <2> QED
    BY <1>2, <2>0, <2>1, <2>2, <2>3
<1> QED
  BY <1>g, <1>h, <1>i, <1>j, <1>k, <1>l, <1>m

\* A step that leaves the names alone, and starts no helper.
LEMMA PlacesStay ==
    ASSUME VeeryInv, Svc' = Svc, Old' = Old, verified' = verified,
           proc' \notin {"retire", "remove", "rename"} \/ (proc' = proc /\ self' = self),
           \A k \in Jobs : \/ hlp'[k] = hlp[k]
                           \/ /\ hlp[k].pc \in {"none", "created", "exited"}
                              /\ hlp'[k].pc \in {"none", "created", "exited"}
    PROVE  VeeryInv'
<1>1. \A k \in Jobs : HelperInv(hlp[k])'
  <2> SUFFICES ASSUME NEW k \in Jobs PROVE HelperInv(hlp[k])'
    OBVIOUS
  <2>1. CASE hlp'[k] = hlp[k]
    <3>1. HelperInv(hlp[k])
      BY DEF VeeryInv
    <3> QED
      BY <2>1, <3>1 DEF HelperInv
  <2>2. CASE hlp'[k].pc \in {"none", "created", "exited"}
    BY <2>2, HelperOffNext
  <2> QED
    BY <2>1, <2>2
<1> QED
  BY <1>1 DEF VeeryInv

\* The steps of a request: starting the helper is safe if the name is a verified
\* container's.
LEMMA RequestPlaces ==
    ASSUME RunInv, VeeryInv, NEW j \in Jobs, Update(j) \/ ReqStep(j),
           StartHelper(j) /\ hlp'[j].pc = "lookup" => Svc \subseteq verified
    PROVE  VeeryInv' /\ Svc' = Svc /\ Old' = Old
<1>0. /\ ctr' = ctr /\ verified' = verified /\ proc' = proc /\ self' = self
      /\ hlp \in [Jobs -> Helper]
      /\ req[j].pc \in Before => Unbegun(hlp[j])
  BY RequestRun, RunParts
<1>1. Svc' = Svc /\ Old' = Old
  BY <1>0 DEF Svc, Old
<1>2. CASE hlp' = hlp
  BY <1>0, <1>1, <1>2, PlacesStay
<1>3. ASSUME NEW l \in {"none", "created"}, hlp' = [hlp EXCEPT ![j].pc = l], req[j].pc \in Before
      PROVE  VeeryInv'
  <2>1. hlp'[j].pc = l /\ \A k \in Jobs : k # j => hlp'[k] = hlp[k]
    BY <1>0, <1>3, HlpGoes, LabelFacts DEF HlpGoto
  <2> QED
    BY <1>0, <1>1, <1>3, <2>1, PlacesStay DEF Unbegun
<1>4. CASE StartHelper(j) /\ hlp' = [hlp EXCEPT ![j].pc = "lookup"]
  <2>1. hlp'[j].pc = "lookup" /\ \A k \in Jobs : k # j => hlp'[k] = hlp[k]
    BY <1>0, <1>4, HlpGoes, LabelFacts DEF HlpGoto
  <2>2. \A k \in Jobs : k # j => HelperInv(hlp[k])'
    <3>1. \A k \in Jobs : HelperInv(hlp[k])
      BY DEF VeeryInv
    <3> QED
      BY <1>0, <1>1, <2>1, <3>1 DEF HelperInv
  <2>3. HelperInv(hlp[j])'
    BY <1>0, <1>1, <1>4, <2>1 DEF HelperInv
  <2> QED
    BY <1>0, <1>1, <2>2, <2>3 DEF VeeryInv
<1>5. \/ hlp' = hlp
      \/ req[j].pc \in Before /\ \E l \in {"none", "created"} : hlp' = [hlp EXCEPT ![j].pc = l]
      \/ StartHelper(j) /\ hlp' = [hlp EXCEPT ![j].pc = "lookup"]
  <2>1. CASE Update(j) \/ Lock(j) \/ Inspect(j) \/ Pull(j) \/ Unlock(j) \/ ReqFinish(j) \/ Forget(j)
    BY <2>1 DEF Update, Lock, Inspect, Pull, Unlock, ReqFinish, Forget
  <2>2. CASE HandOff(j) \/ StartHelper(j)
    BY <2>2, ReqFacts DEF HandOff, StartHelper, ReqAt
  <2> QED
    BY <2>1, <2>2 DEF ReqStep
<1> QED
  BY <1>1, <1>2, <1>3, <1>4, <1>5

\* The steps of Recover.
LEMMA RecoverPlaces ==
    ASSUME RunInv, VeeryInv, RecoverStep
    PROVE  /\ VeeryInv' /\ Old' \subseteq Old
           /\ Svc \subseteq verified => Svc' \subseteq verified'
<1>0. /\ ctr \in Table /\ verified \subseteq CID /\ Placed /\ ProcInv
      /\ Svc \subseteq CID /\ Old \subseteq CID /\ \A c \in Svc : c \notin Old
      /\ proc = "retire" => self \in Svc
      /\ proc \in {"remove", "rename"} => self \in Old
  BY RunParts, ExistsH DEF VeeryInv, Placed, RestTypes, Svc, Old, Holder
<1>1. self' = self
  BY DEF RecoverStep, RecoverList, RecoverRetire, RecoverRemove, RecoverRename, PruneUpdaters,
     ResumeJob, Serve, recoverFrame
<1>2. ASSUME Updaters = {}, hlp' = hlp, Placed', Old' \subseteq Old,
             Svc \subseteq verified => Svc' \subseteq verified',
             proc' = "retire" => self \in Svc',
             proc' \in {"remove", "rename"} => self \in Old'
      PROVE  /\ VeeryInv' /\ Old' \subseteq Old
             /\ Svc \subseteq verified => Svc' \subseteq verified'
  <2>1. \A k \in Jobs : hlp'[k].pc \in {"none", "created", "exited"}
    BY <1>2 DEF Updaters
  <2>2. \A k \in Jobs : HelperInv(hlp[k])'
    BY <2>1, HelperOffNext
  <2>3. VeeryInv'
    BY <1>1, <1>2, <2>2 DEF VeeryInv, Placed
  <2> QED
    BY <1>2, <2>3
<1>3. proc \in {"retire", "remove", "rename"} => Updaters = {}
  BY DEF RunInv, RecoverAlone
<1>a. CASE RecoverList
  <2>0. ctr' = ctr /\ verified' = verified /\ hlp' = hlp
    BY <1>a DEF RecoverList
  <2>1. Svc' = Svc /\ Old' = Old /\ Placed'
    BY <1>0, <2>0 DEF Svc, Old, Placed
  <2>2. CASE proc' \notin {"retire", "remove", "rename"}
    BY <2>0, <2>1, <2>2, PlacesStay
  <2>3. CASE proc' \in {"retire", "remove", "rename"}
    <3>1. /\ Updaters = {}
          /\ proc' = "retire" => self \in Svc
          /\ proc' \in {"remove", "rename"} => self \in Old
      BY <1>a, <2>3 DEF RecoverList, Svc, Old
    <3> QED
      BY <1>2, <2>0, <2>1, <3>1
  <2> QED
    BY <2>2, <2>3
<1>b. CASE RecoverRetire
  <2>0. hlp' = hlp /\ proc' = "prune" /\ Updaters = {} /\ self \in Svc /\ found.parked # self
    BY <1>0, <1>3, <1>b DEF RecoverRetire, ProcInv
  <2>1. CASE ctr' = ctr /\ verified' = verified
    BY <2>0, <2>1, PlacesStay DEF Svc, Old
  <2>2. CASE ctr' = RemoveC(ctr, {found.parked}) /\ verified' = verified \cup {self}
    <3>1. Svc' = Svc \ {found.parked} /\ Old' = Old \ {found.parked}
      BY <1>0, <2>2, RemoveH DEF Svc, Old
    <3>2. Svc' = {self} /\ Svc' \subseteq verified'
      BY <1>0, <2>0, <2>2, <3>1 DEF Placed
    <3>3. Placed'
      BY <1>0, <2>2, <3>1, <3>2 DEF Placed
    <3> QED
      BY <1>2, <2>0, <3>1, <3>2, <3>3
  <2> QED
    BY <1>b, <2>1, <2>2 DEF RecoverRetire
<1>c. CASE RecoverRemove
  <2>0. /\ hlp' = hlp /\ verified' = verified /\ Updaters = {} /\ self \in Old /\ found.fresh # self
    BY <1>0, <1>3, <1>c DEF RecoverRemove, ProcInv
  <2>1. CASE ctr' = ctr /\ proc' = "prune"
    BY <2>0, <2>1, PlacesStay DEF Svc, Old
  <2>2. CASE ctr' = RemoveC(ctr, {found.fresh}) /\ proc' = "rename"
    <3>1. Svc' = Svc \ {found.fresh} /\ Old' = Old \ {found.fresh}
      BY <1>0, <2>2, RemoveH DEF Svc, Old
    <3>2. self \in Old' /\ Placed'
      BY <1>0, <2>0, <3>1 DEF Placed
    <3> QED
      BY <1>2, <2>0, <2>2, <3>1, <3>2
  <2> QED
    BY <1>c, <2>1, <2>2 DEF RecoverRemove
<1>d. CASE RecoverRename
  <2>0. hlp' = hlp /\ verified' = verified /\ Updaters = {} /\ self \in Old /\ proc' = "prune"
    BY <1>0, <1>3, <1>d DEF RecoverRename
  <2>1. CASE ctr' = ctr
    BY <2>0, <2>1, PlacesStay DEF Svc, Old
  <2>2. CASE CanRename(self, "svc") /\ ctr' = RenameC(ctr, self, "svc")
    <3>1. Svc' = {self} /\ Old' = Old \ {self}
      BY <1>0, <2>0, <2>2, RenameH DEF CanRename, Svc, Old, Names
    <3>2. Placed' /\ Svc' \subseteq verified'
      BY <1>0, <2>0, <3>1 DEF Placed
    <3> QED
      BY <1>2, <2>0, <3>1, <3>2
  <2> QED
    BY <1>d, <2>1, <2>2 DEF RecoverRename
<1>e. CASE PruneUpdaters \/ (\E j \in Jobs : ResumeJob(j)) \/ Serve
  <2>0. ctr' = ctr /\ verified' = verified /\ proc' \in {"resume", "serving"}
    BY <1>e DEF PruneUpdaters, ResumeJob, Serve
  <2>1. \A k \in Jobs : \/ hlp'[k] = hlp[k]
                        \/ /\ hlp[k].pc \in {"none", "created", "exited"}
                           /\ hlp'[k].pc \in {"none", "created", "exited"}
    <3>1. \A k \in Jobs : hlp[k] \in Helper
      BY RunParts
    <3> QED
      BY <1>e, <3>1 DEF PruneUpdaters, ResumeJob, Serve, Helper
  <2>2. Svc' = Svc /\ Old' = Old
    BY <2>0 DEF Svc, Old
  <2> QED
    BY <2>0, <2>1, <2>2, PlacesStay
<1> QED
  BY <1>a, <1>b, <1>c, <1>d, <1>e DEF RecoverStep

\* The rest of the world moves no container; a kill is for one update only.
LEMMA WorldPlaces ==
    ASSUME RunInv, VeeryInv,
           \/ Publish \/ Crash \/ \E j \in Jobs : KillHelper(j)
           \/ \E c \in CID : ContainerDrift(c) \/ Revive(c) \/ UserStart(c)
    PROVE  VeeryInv' /\ Svc' = Svc /\ Old' = Old
<1>0. /\ ctr \in Table /\ hlp \in [Jobs -> Helper] /\ ProcInv /\ self \in Opt(CID)
      /\ verified' = verified
      /\ proc' \notin {"retire", "remove", "rename"} \/ (proc' = proc /\ self' = self)
      /\ hlp' = hlp \/ \E j \in Jobs : KillHelper(j)
  BY RunParts, WorldRun DEF ProcTypes, procVars
<1>1. Svc' = Svc /\ Old' = Old
  <2>1. CASE Publish \/ \E j \in Jobs : KillHelper(j)
    BY <2>1 DEF Publish, KillHelper, Svc, Old
  <2>2. ASSUME NEW c \in CID, Exists(ctr, c), NEW s \in States \ {"unused", "removed"},
               ctr' = SetState(ctr, c, s)
        PROVE  Svc' = Svc /\ Old' = Old
    BY <1>0, <2>2, SetStateH DEF Svc, Old
  <2>3. CASE Crash
    <3>1. self \in CID /\ Exists(ctr, self) /\ ctr' = SetState(ctr, self, "restarting")
      BY <1>0, <2>3 DEF Crash, Become, ProcInv, Alive, Exists, Opt
    <3> QED
      BY <2>2, <3>1 DEF States, Up
  <2>4. ASSUME NEW c \in CID, ContainerDrift(c) PROVE Svc' = Svc /\ Old' = Old
    <3>1. PICK s \in Drift(ctr[c].image, ctr[c].state) : ctr' = SetState(ctr, c, s)
      BY <2>4 DEF ContainerDrift, Become
    <3>2. Exists(ctr, c) /\ s \in States \ {"unused", "removed"}
      BY DEF Drift, States, Up, Exists
    <3> QED
      BY <2>2, <3>1, <3>2
  <2>5. ASSUME NEW c \in CID, Revive(c) PROVE Svc' = Svc /\ Old' = Old
    BY <2>2, <2>5 DEF Revive, Exists, States, Up
  <2>6. ASSUME NEW c \in CID, UserStart(c) PROVE Svc' = Svc /\ Old' = Old
    BY <1>0, <2>6, StartH DEF UserStart, Boot, Svc, Old
  <2> QED
    BY <2>1, <2>3, <2>4, <2>5, <2>6
<1>2. CASE hlp' = hlp
  BY <1>0, <1>1, <1>2, PlacesStay
<1>3. ASSUME NEW j \in Jobs, KillHelper(j) PROVE VeeryInv'
  <2>1. hlp'[j].pc = "exited" /\ \A k \in Jobs : k # j => hlp'[k] = hlp[k]
    BY <1>0, <1>3, HlpGoes, LabelFacts DEF KillHelper
  <2>2. \A k \in Jobs : HelperInv(hlp[k])'
    <3>1. \A k \in Jobs : HelperInv(hlp[k])
      BY DEF VeeryInv
    <3> QED
      BY <1>0, <1>1, <2>1, <3>1 DEF HelperInv
  <2>3. UNCHANGED <<proc, self>>
    BY <1>3 DEF KillHelper, procVars
  <2> QED
    BY <1>0, <1>1, <2>2, <2>3 DEF VeeryInv
<1> QED
  BY <1>0, <1>1, <1>2, <1>3

\* A request that got past its inspect names the container of the Veery it runs in, as
\* long as nothing has touched the containers.
LEMMA RequestNames ==
    ASSUME RunInv, VeeryInv, NEW j \in Jobs, Update(j) \/ ReqStep(j)
    PROVE  /\ \A k \in Jobs : k # j => req'[k] = req[k]
           /\ req'[j].pc \in {"pull", "handoff"} /\ LoneInv => req'[j].old = self
<1>0. req \in [Jobs -> Request] /\ ctr \in Table /\ ProcInv /\ self \in Opt(CID)
  BY RunParts DEF ProcTypes
<1>1. \A k \in Jobs : k # j => req'[k] = req[k]
  BY <1>0 DEF Update, ReqStep, Lock, Inspect, Pull, HandOff, StartHelper, Unlock, ReqFinish, Forget,
         ReqGoto, ReqReturn
<1>2. ASSUME req[j].pc = "pull", req'[j].old = req[j].old, LoneInv PROVE req'[j].old = self
  BY <1>2, ReqFacts DEF LoneInv
<1>3. ASSUME NEW c \in Svc, req[j].pc = "inspect", LoneInv PROVE c = self
  <2>1. proc = "serving" /\ Old = {}
    BY <1>0, <1>3, ReqFacts DEF ProcInv, LoneInv
  <2>2. self \in CID /\ Exists(ctr, self)
    BY <1>0, <2>1 DEF ProcInv, Alive, Exists, Opt
  <2>3. self \in Svc
    BY <1>0, <2>1, <2>2, ExistsH DEF Svc, Old
  <2> QED
    BY <1>3, <2>3 DEF VeeryInv
<1>4. CASE Inspect(j)
  <2>1. CASE ReqReturn(j, "failed")
    BY <1>0, <1>1, <2>1, ReqReturns, LabelFacts
  <2>2. ASSUME NEW c \in Svc, req' = [req EXCEPT ![j].pc = "pull", ![j].old = c]
        PROVE  LoneInv => req'[j].old = self
    BY <1>0, <1>3, <1>4, <2>2 DEF Inspect, ReqAt, Request
  <2> QED
    BY <1>1, <1>4, <2>1, <2>2 DEF Inspect, Svc
<1>a. ASSUME NEW l, ReqGoto(j, l) PROVE req'[j].pc = l /\ req'[j].old = req[j].old
  BY <1>0, <1>a DEF ReqGoto, Request
<1>b. ASSUME NEW v, ReqReturn(j, v) PROVE req'[j].pc = "unlock"
  BY <1>0, <1>b DEF ReqReturn, Request
<1>5. CASE Pull(j)
  <2>1. req[j].pc = "pull" /\ (ReqGoto(j, "handoff") \/ \E v : ReqReturn(j, v))
    BY <1>5 DEF Pull, ReqAt
  <2> QED
    BY <1>1, <1>2, <1>a, <1>b, <2>1
<1>6. CASE Update(j) \/ Lock(j) \/ HandOff(j) \/ StartHelper(j) \/ Unlock(j) \/ ReqFinish(j) \/ Forget(j)
  <2>1. req'[j].pc \notin {"pull", "handoff"}
    <3>1. (\E v : ReqReturn(j, v)) \/ \E l : ReqGoto(j, l) /\ l \notin {"pull", "handoff"}
      BY <1>6 DEF Update, Lock, HandOff, StartHelper, Unlock, ReqFinish, Forget
    <3> QED
      BY <1>a, <1>b, <3>1
  <2> QED
    BY <1>1, <2>1
<1> QED
  BY <1>4, <1>5, <1>6 DEF ReqStep

\* Every step keeps VeeryInv, if a helper that starts finds a verified container.
LEMMA VeeryStep ==
    ASSUME RunInv, OneHelper, VeeryInv, [Next]_vars,
           \A j \in Jobs : StartHelper(j) /\ hlp'[j].pc = "lookup" => Svc \subseteq verified
    PROVE  /\ VeeryInv'
           /\ Lone /\ LoneInv => LoneInv'
<1>0. RunInv'
  BY RunStep
<1>1. ASSUME Svc \subseteq verified => Svc' \subseteq verified', Old' \subseteq Old,
             \A k \in Jobs : req'[k].pc \in Before =>
                 \/ req'[k] = req[k] /\ (req[k].pc \in {"pull", "handoff"} => self' = self)
                 \/ /\ req[k].pc \in Before
                    /\ req'[k].pc \in {"pull", "handoff"} /\ LoneInv => req'[k].old = self'
      PROVE  LoneInv => LoneInv'
  BY <1>1 DEF LoneInv
<1>2. ASSUME NEW j \in Jobs, HelperStep(j)
      PROVE  VeeryInv' /\ (Lone => LoneInv')
  <2>1. VeeryInv' /\ hlp'[j].pc \notin {"none", "created"}
    BY <1>2, HelperSwaps, HelperEnds DEF HelperStep
  <2>2. req'[j].pc \notin Before
    BY <1>0, <2>1 DEF RunInv
  <2> QED
    BY <2>1, <2>2 DEF Lone, LoneInv
<1>3. ASSUME NEW j \in Jobs, Update(j) \/ ReqStep(j)
      PROVE  VeeryInv' /\ (LoneInv => LoneInv')
  <2>1. VeeryInv' /\ Svc' = Svc /\ Old' = Old
    BY <1>3, RequestPlaces
  <2>2. /\ verified' = verified /\ self' = self
        /\ \A k \in Jobs : k # j => req'[k] = req[k]
        /\ req'[j].pc \in Before => req[j].pc \in Before
        /\ req'[j].pc \in {"pull", "handoff"} /\ LoneInv => req'[j].old = self
    BY <1>3, RequestRun, RequestNames
  <2> QED
    BY <1>1, <2>1, <2>2
<1>4. ASSUME NEW j \in Jobs, WatchStep(j)
      PROVE  VeeryInv' /\ (LoneInv => LoneInv')
  <2>1. UNCHANGED <<ctr, verified, proc, self, req, hlp>>
    BY <1>4, WatchRun
  <2>2. Svc' = Svc /\ Old' = Old
    BY <2>1 DEF Svc, Old
  <2> QED
    BY <1>1, <2>1, <2>2, PlacesStay
<1>5. CASE RecoverStep
  <2>1. req' = req /\ self' = self
    BY <1>5 DEF RecoverStep, RecoverList, RecoverRetire, RecoverRemove, RecoverRename,
       PruneUpdaters, ResumeJob, Serve, recoverFrame
  <2> QED
    BY <1>1, <1>5, <2>1, RecoverPlaces
<1>6. CASE \/ Publish \/ Crash \/ \E j \in Jobs : KillHelper(j)
           \/ \E c \in CID : ContainerDrift(c) \/ Revive(c) \/ UserStart(c)
  <2>1. /\ verified' = verified /\ \A k \in Jobs : req'[k].pc \in Before => req'[k] = req[k]
        /\ proc' \in {"down", "list"} \/ self' = self
    BY <1>6, WorldRun DEF procVars
  <2>2. \A k \in Jobs : req'[k].pc \in {"pull", "handoff"} => proc' = "serving"
    BY <1>0, ReqFacts DEF RunInv, ProcInv
  <2>3. VeeryInv' /\ Svc' = Svc /\ Old' = Old
    BY <1>6, WorldPlaces
  <2> QED
    BY <1>1, <2>1, <2>2, <2>3
<1>7. CASE UNCHANGED vars
  <2>1. UNCHANGED <<ctr, verified, proc, self, req, hlp>>
    BY <1>7 DEF vars
  <2>2. Svc' = Svc /\ Old' = Old
    BY <2>1 DEF Svc, Old
  <2> QED
    BY <1>1, <2>1, <2>2, PlacesStay
<1> QED
  BY <1>2, <1>3, <1>4, <1>5, <1>6, <1>7 DEF Next

\* The first state.
LEMMA VeeryInit == Init => VeeryInv /\ LoneInv
<1> SUFFICES ASSUME Init PROVE VeeryInv /\ LoneInv
  OBVIOUS
<1>0. PICK c \in CID, s \in Specs :
          /\ ctr = [d \in CID |-> [name |-> "svc", image |-> InitImage, spec |-> s,
                                   state |-> IF d = c THEN "running" ELSE "unused"]]
          /\ verified = {c}
  BY DEF Init
<1>1. Svc = {c} /\ Old = {}
  BY <1>0 DEF Svc, Old, Holder, Exists
<1>2. \A j \in Jobs : hlp[j].pc = "none"
  BY DEF Init
<1>3. proc = "serving"
  BY DEF Init
<1>4. \A j \in Jobs : HelperInv(hlp[j])
  BY <1>2, HelperOff
<1>5. \A j \in Jobs : req[j].pc = "idle"
  BY DEF Init
<1> QED
  BY <1>0, <1>1, <1>3, <1>4, <1>5 DEF VeeryInv, LoneInv

\* A Veery that came up exists wherever the containers are in their places.
LEMMA VeeryKept == VeeryInv => KnownGoodKept
<1> SUFFICES ASSUME VeeryInv PROVE KnownGoodKept
  OBVIOUS
<1>1. \E c \in verified : c \in Svc \/ c \in Old
  BY DEF VeeryInv
<1> QED
  BY <1>1 DEF KnownGoodKept, Svc, Old, Holder

\* With one update the containers are always in their places.
LEMMA LoneInvariance == Lone => (Spec => [](RunInv /\ VeeryInv /\ LoneInv))
<1> SUFFICES ASSUME Lone PROVE Spec => [](RunInv /\ VeeryInv /\ LoneInv)
  OBVIOUS
<1>1. RunInv /\ VeeryInv /\ LoneInv /\ [Next]_vars => (RunInv /\ VeeryInv /\ LoneInv)'
  <2> SUFFICES ASSUME RunInv, VeeryInv, LoneInv, [Next]_vars
               PROVE  (RunInv /\ VeeryInv /\ LoneInv)'
    OBVIOUS
  <2>1. OneHelper
    BY DEF Lone, OneHelper, Updaters
  <2>2. \A j \in Jobs : StartHelper(j) => Svc \subseteq verified
    BY ReqFacts DEF StartHelper, ReqAt, LoneInv
  <2> QED
    BY <2>1, <2>2, RunStep, VeeryStep
<1>2. Init => RunInv /\ VeeryInv /\ LoneInv
  BY RunInit, VeeryInit
<1> QED
  BY <1>1, <1>2, PTL DEF Spec

\* One update of Veery, whichever calls fail, whenever Veery and the helper are killed
\* and whichever container is started again: a Veery that came up, or that took over,
\* still exists (ApplyUpdate, swap, rollback, reconcileOne).
THEOREM OneUpdateKeepsVeery == Lone => (Spec => []KnownGoodKept)
<1> SUFFICES ASSUME Lone PROVE Spec => []KnownGoodKept
  OBVIOUS
<1> QED
  BY LoneInvariance, VeeryKept, PTL

\* One update of Veery, whatever fails or is killed: the request that reaches the hand-off
\* names the container Veery runs in, so doUpdate takes the branch that hands it off
\* (IsSelf) and not the one that would swap Veery's container in its own process.
THEOREM HandsOffItself ==
    Lone => (Spec => [](\A j \in Jobs : req[j].pc = "handoff" => req[j].old = self))
<1> SUFFICES ASSUME Lone
             PROVE  Spec => [](\A j \in Jobs : req[j].pc = "handoff" => req[j].old = self)
  OBVIOUS
<1>1. LoneInv => \A j \in Jobs : req[j].pc = "handoff" => req[j].old = self
  BY ReqFacts DEF LoneInv
<1> QED
  BY <1>1, LoneInvariance, PTL

-----------------------------------------------------------------------------
(* An update that nothing disturbs.                                        *)

\* Every container there was keeps its image.
SameImages == \A d \in CID : ctr'[d].image = ctr[d].image

\* Veery's memory is as it was, or it is another process's.
MemStay ==
    /\ \A k \in Jobs : req'[k] = req[k] \/ req'[k].pc = "dead"
    /\ \/ UNCHANGED <<proc, found, watch>>
       \/ proc' \in {"down", "list"} /\ found'.updaters = {} /\ watch' = NoWatch

\* No verdict becomes one of the other kind.
KindKept ==
    \A j \in Jobs : /\ row[j] \in Succeeded => row'[j] \in Succeeded
                    /\ row[j] \in Failures => row'[j] \in Failures

LEMMA ImagesKept ==
    ASSUME NEW t \in Table, NEW d \in CID
    PROVE  /\ \A c, s : SetState(t, c, s)[d].image = t[d].image
           /\ \A c : StartC(t, c)[d].image = t[d].image
           /\ \A c, n : RenameC(t, c, n)[d].image = t[d].image
           /\ \A C : RemoveC(t, C)[d].image = t[d].image
<1>1. t[d] \in Container
  BY DEF Table
<1>2. \A c, s : SetState(t, c, s)[d].image = t[d].image
  BY <1>1 DEF Table, Container, SetState
<1>3. \A c, n : RenameC(t, c, n)[d].image = t[d].image
  BY <1>1 DEF Table, Container, RenameC
<1>4. \A C : RemoveC(t, C)[d].image = t[d].image
  BY <1>1 DEF Table, Container, RemoveC
<1> QED
  BY <1>2, <1>3, <1>4 DEF StartC

LEMMA SnapshotStay ==
    ASSUME Svc' = Svc, SameImages, localTag' = localTag
    PROVE  OnSnapshotImage' = OnSnapshotImage
<1>1. Svc \subseteq CID
  BY DEF Svc, Holder
<1>2. OnSnapshotImage <=> \E c \in Svc : ctr[c].image = localTag
  BY DEF OnSnapshotImage, Svc
<1>3. OnSnapshotImage' <=> \E c \in Svc' : ctr'[c].image = localTag'
  BY DEF OnSnapshotImage, Svc
<1>4. OnSnapshotImage' <=> OnSnapshotImage
  BY <1>1, <1>2, <1>3 DEF SameImages
<1> QED
  BY <1>4 DEF OnSnapshotImage

LEMMA BecomeMem ==
    ASSUME ProcTypes, NEW t, Become(t) PROVE MemStay
<1>1. CASE ProcDies
  <2>1. \A k \in Jobs : req'[k] = req[k] \/ req'[k].pc = "dead"
    BY <1>1 DEF ProcDies, ProcTypes, Request
  <2> QED
    BY <1>1, <2>1 DEF MemStay, ProcDies, Nothing
<1>2. CASE UNCHANGED procVars
  BY <1>2 DEF MemStay, procVars
<1> QED
  BY <1>1, <1>2 DEF Become

LEMMA BootMem ==
    ASSUME ProcInv, CalmProc, NEW c, self = None \/ ctr[c].state \in Up, Boot(c) PROVE MemStay
  BY DEF Boot, MemStay, ProcInv, CalmProc

\* Nothing but memory has changed.
LEMMA CalmStay ==
    ASSUME RunInv, CalmInv, UNCHANGED <<hlp, row, localTag>>, Svc' = Svc, Old' = Old,
           SameImages, MemStay
    PROVE  CalmInv' /\ KindKept
<1>1. OnSnapshotImage' = OnSnapshotImage
  BY SnapshotStay
<1>2. Updaters' = Updaters
  BY DEF Updaters
<1>3. ASSUME NEW k \in Jobs PROVE CalmHelper(hlp[k])' /\ CalmRow(k)'
  <2>1. CalmHelper(hlp[k]) /\ CalmRow(k) /\ HelperOK(hlp[k]) /\ hlp[k].pc \in HelperLabels
    BY RunParts DEF CalmInv, HelperOK, Helper
  <2>2. \A v : Honest(v)' <=> Honest(v)
    BY <1>1 DEF Honest
  <2>3. CalmHelper(hlp[k])'
    BY <1>1, <2>1, LabelFacts DEF CalmHelper, HelperOK, SameImages, Honest
  <2>4. req'[k] = req[k] \/ (~Owns(req'[k]) /\ req'[k].pc # "idle")
    BY ReqFacts DEF MemStay, Owns
  <2>5. watch'[k] # "off" \/ k \in found'.updaters => hlp[k].pc \notin {"none", "created"}
    BY <2>1 DEF MemStay, CalmRow, NoWatch
  <2> QED
    BY <1>1, <1>2, <2>1, <2>3, <2>4, <2>5 DEF CalmRow, Honest
<1>4. CalmProc'
  BY <1>2 DEF CalmInv, CalmProc, MemStay
<1> QED
  BY <1>3, <1>4 DEF CalmInv, KindKept

\* What a step of the helper has to keep.
LEMMA CalmHelperStep ==
    ASSUME Lone, RunInv, CalmInv, NEW j \in Jobs, j \in Updaters, hlp'[j].pc \notin {"none", "created"},
           CalmHelper(hlp[j])', MemStay,
           \/ row' = row /\ hlp'[j].pc # "exited"
           \/ \E v : Honest(v)' /\ row' = [row EXCEPT ![j] = v] /\ Old' = {} /\ hlp'[j].pc = "exited"
    PROVE  CalmInv' /\ KindKept
<1>0. /\ \A k \in Jobs : k = j
      /\ CalmRow(j) /\ CalmProc /\ row[j] = "active" /\ row \in [Jobs -> Verdicts]
      /\ req[j].pc \notin Before /\ ~Owns(req[j])
  BY RunParts DEF Lone, CalmInv, CalmRow, Updaters, Unbegun, RestTypes
<1>1. hlp'[j].pc = "exited" => Honest(row[j])' /\ Old' = {}
  BY <1>0
<1>2. j \in Updaters' => row'[j] = "active"
  BY <1>0 DEF Updaters
<1>3. ~Owns(req'[j]) /\ req'[j].pc # "idle"
  BY <1>0, ReqFacts DEF MemStay, Owns
<1>4. CalmRow(j)'
  BY <1>1, <1>2, <1>3 DEF CalmRow
<1>5. CalmProc'
  <2>1. Updaters' \subseteq Updaters /\ proc # "prune"
    BY <1>0 DEF Updaters, CalmProc
  <2>2. Updaters' = {} => Old' = {}
    BY <1>1 DEF Updaters
  <2> QED
    BY <1>0, <2>1, <2>2 DEF CalmProc, MemStay
<1>6. KindKept
  BY <1>0 DEF KindKept, Succeeded, Failures
<1> QED
  BY <1>0, <1>4, <1>5, <1>6 DEF CalmInv

\* The steps of the helper.
LEMMA CalmHelps ==
    ASSUME Lone, RunInv, VeeryInv, CalmInv, ~budget.faults, NEW j \in Jobs, HelperStep(j)
    PROVE  CalmInv' /\ KindKept
<1>0. /\ ctr \in Table /\ ProcTypes /\ ProcInv /\ hlp \in [Jobs -> Helper] /\ HelperOK(hlp[j])
      /\ HelperInv(hlp[j]) /\ CalmHelper(hlp[j]) /\ CalmProc
      /\ \A c, d \in Svc : c = d
      /\ \A c, d \in Old : c = d
      /\ Old # {} \/ Svc # {}
      /\ Svc \subseteq CID /\ Old \subseteq CID /\ \A c \in Svc : c \notin Old
  BY RunParts, ExistsH DEF VeeryInv, CalmInv, Svc, Old, Holder
<1>1. hlp[j].pc \notin {"none", "created", "exited"} /\ j \in Updaters
  BY HelperRun, HelperAlone
<1>2. \A call : ~CallFails(call)
  BY DEF CallFails
<1>3. ASSUME CalmHelper(hlp[j])', MemStay, row' = row, hlp'[j].pc \notin {"none", "created", "exited"}
      PROVE  CalmInv' /\ KindKept
  BY <1>1, <1>3, CalmHelperStep
<1>4. UNCHANGED procVars => MemStay
  BY DEF MemStay, procVars
<1>5. ctr' = ctr => Svc' = Svc /\ Old' = Old
  BY DEF Svc, Old
<1>6. /\ OnSnapshotImage <=> \E c \in Svc : ctr[c].image = localTag
      /\ OnSnapshotImage' <=> \E c \in Svc' : ctr'[c].image = localTag'
  BY DEF OnSnapshotImage, Svc
<1>a. CASE Lookup(j)
  <2>0. Old = {} /\ Holder(ctr, "svc") # {}
    BY <1>0, <1>a DEF Lookup, HlpAt, CalmHelper, Svc
  <2>1. PICK c \in Svc : hlp' = [hlp EXCEPT ![j].pc = "image", ![j].old = c, ![j].seen = ctr[c].state]
    BY <1>2, <1>a, <2>0 DEF Lookup, Svc
  <2>2. hlp'[j].pc = "image"
    BY <1>0, <2>1 DEF Helper
  <2>3. ctr' = ctr /\ row' = row /\ UNCHANGED procVars
    BY <1>a DEF Lookup
  <2>4. CalmHelper(hlp[j])'
    BY <1>5, <2>0, <2>2, <2>3 DEF CalmHelper
  <2> QED
    BY <1>3, <1>4, <2>2, <2>3, <2>4
<1>b. CASE CompareImage(j)
  <2>0. Old = {} /\ Svc = {hlp[j].old} /\ hlp[j].old \in CID
    BY <1>0, <1>b DEF CompareImage, HlpAt, CalmHelper, HelperInv
  <2>1. UNCHANGED <<ctr, localTag, row>> /\ UNCHANGED procVars
    BY <1>2, <1>b DEF CompareImage
  <2>2. CASE localTag = ctr[hlp[j].old].image
    <3>1. hlp'[j].pc = "finish" /\ hlp'[j].verdict = "updated"
      BY <1>0, <1>2, <1>b, <2>1, <2>2 DEF CompareImage, HlpReturn, Helper
    <3>2. Honest("updated")'
      BY <1>5, <1>6, <2>0, <2>1, <2>2 DEF Honest, Succeeded
    <3>3. CalmHelper(hlp[j])'
      BY <1>5, <2>0, <2>1, <3>1, <3>2 DEF CalmHelper
    <3> QED
      BY <1>3, <1>4, <2>1, <3>1, <3>3
  <2>3. CASE localTag # ctr[hlp[j].old].image
    <3>1. hlp'[j].pc = "clear" /\ hlp'[j].old = hlp[j].old
      BY <1>0, <1>2, <1>b, <2>1, <2>3, HlpGoes, LabelFacts DEF CompareImage
    <3>2. CalmHelper(hlp[j])'
      BY <1>5, <2>0, <2>1, <2>3, <3>1 DEF CalmHelper
    <3> QED
      BY <1>3, <1>4, <2>1, <3>1, <3>2
  <2> QED
    BY <2>2, <2>3
<1>c. CASE ClearParked(j)
  <2>0. Old = {} /\ ctr[hlp[j].old].image # localTag /\ hlp[j].old \in CID
    BY <1>0, <1>c, LabelFacts DEF ClearParked, HlpAt, CalmHelper, HelperOK
  <2>1. localTag' = localTag /\ row' = row /\ Become(RemoveC(ctr, Old)) /\ ctr' = RemoveC(ctr, Old)
    BY <1>2, <1>c DEF ClearParked, HlpFails, Become, hlpFrame, tagVars, Old
  <2>2. hlp'[j].pc = "park" /\ hlp'[j].old = hlp[j].old
    BY <1>0, <1>c, HlpGoes, LabelFacts DEF ClearParked
  <2>3. Old' = {} /\ ctr'[hlp[j].old].image = ctr[hlp[j].old].image
    BY <1>0, <2>0, <2>1, RemoveH, ImagesKept DEF Old
  <2>4. CalmHelper(hlp[j])'
    BY <2>0, <2>1, <2>2, <2>3 DEF CalmHelper
  <2> QED
    BY <1>0, <1>3, <2>1, <2>2, <2>4, BecomeMem
<1>d. CASE Park(j)
  <2>0. Old = {} /\ hlp[j].old \in Svc /\ ctr[hlp[j].old].image # localTag
    BY <1>0, <1>d DEF Park, HlpAt, CalmHelper, HelperInv
  <2>1. CanRename(hlp[j].old, "old")
    BY <1>0, <2>0, ExistsH DEF CanRename, Svc, Old
  <2>2. ctr' = RenameC(ctr, hlp[j].old, "old") /\ HlpGoto(j, "stop") /\ UNCHANGED <<localTag, row>>
        /\ UNCHANGED procVars
    BY <1>2, <1>d, <2>1 DEF Park, hlpFrame, tagVars
  <2>3. hlp'[j].pc = "stop" /\ hlp'[j].old = hlp[j].old
    BY <1>0, <2>2, HlpGoes, LabelFacts
  <2>4. ctr'[hlp[j].old].image = ctr[hlp[j].old].image
    BY <1>0, <2>0, <2>2, ImagesKept
  <2>5. CalmHelper(hlp[j])'
    BY <2>0, <2>2, <2>3, <2>4 DEF CalmHelper
  <2> QED
    BY <1>3, <1>4, <2>2, <2>3, <2>5
<1>e. CASE StopOld(j)
  <2>0. ctr[hlp[j].old].image # localTag /\ hlp[j].old \in CID
    BY <1>0, <1>e, LabelFacts DEF StopOld, HlpAt, CalmHelper, HelperOK
  <2>1. hlp'[j].pc = "create" /\ hlp'[j].old = hlp[j].old /\ UNCHANGED <<localTag, row>>
    BY <1>0, <1>e, HlpGoes, LabelFacts DEF StopOld, hlpFrame, tagVars
  <2>2. \/ Become(SetState(ctr, hlp[j].old, "stopped")) /\ ctr' = SetState(ctr, hlp[j].old, "stopped")
        \/ ctr' = ctr /\ UNCHANGED procVars
    BY <1>2, <1>e DEF StopOld, HlpFails, Become
  <2>3. MemStay /\ ctr'[hlp[j].old].image = ctr[hlp[j].old].image
    BY <1>0, <1>4, <2>0, <2>2, BecomeMem, ImagesKept
  <2>4. CalmHelper(hlp[j])'
    BY <2>0, <2>1, <2>3 DEF CalmHelper
  <2> QED
    BY <1>3, <2>1, <2>3, <2>4
<1>f. CASE Create(j)
  <2>0. /\ ctr[hlp[j].old].image # localTag /\ hlp[j].old \in Old /\ Svc = {}
    BY <1>0, <1>f DEF Create, HlpAt, CalmHelper, HelperInv
  <2>1. PICK c \in Fresh : /\ ctr' = CreateC(ctr, c, "svc", localTag, ctr[hlp[j].old].spec)
                           /\ hlp' = [hlp EXCEPT ![j].pc = "start", ![j].new = c]
    BY <1>2, <1>f, <2>0 DEF Create, Svc
  <2>2. UNCHANGED <<localTag, row>> /\ UNCHANGED procVars
    BY <1>f DEF Create, hlpFrame, tagVars
  <2>3. hlp'[j].pc = "start" /\ hlp'[j].old = hlp[j].old /\ hlp'[j].new = c
    BY <1>0, <2>1 DEF Helper
  <2>4. c # hlp[j].old /\ c \in CID
    BY <1>0, <2>0 DEF Fresh, Old, Holder, Exists
  <2>5. ctr'[hlp[j].old].image = ctr[hlp[j].old].image /\ ctr'[c].image = localTag
    BY <1>0, <2>0, <2>1, <2>4 DEF CreateC, Table, Container
  <2>6. CalmHelper(hlp[j])'
    BY <2>0, <2>2, <2>3, <2>5 DEF CalmHelper
  <2> QED
    BY <1>3, <1>4, <2>2, <2>3, <2>6
<1>g. CASE StartNew(j)
  <2>0. /\ ctr[hlp[j].old].image # localTag /\ ctr[hlp[j].new].image = localTag
        /\ hlp[j].new \in Svc /\ hlp[j].old \in Old
    BY <1>0, <1>g DEF StartNew, HlpAt, CalmHelper, HelperInv
  <2>1. /\ hlp'[j].pc \in {"verify", "rbremove"} /\ hlp'[j].old = hlp[j].old
        /\ hlp'[j].new = hlp[j].new /\ UNCHANGED <<localTag, row>>
    BY <1>0, <1>g, HlpGoes, LabelFacts DEF StartNew, hlpFrame, tagVars
  <2>2. \/ CanStart(hlp[j].new) /\ Boot(hlp[j].new)
        \/ ctr' = ctr /\ UNCHANGED procVars
    BY <1>g DEF StartNew
  <2>3. ctr' = ctr \/ ctr' = StartC(ctr, hlp[j].new)
    BY <2>2 DEF Boot
  <2>4. Svc' = Svc /\ SameImages
    BY <1>0, <2>0, <2>3, ExistsH, StartH, ImagesKept DEF Svc, SameImages
  <2>5. MemStay
    BY <1>0, <1>4, <2>2, BootMem DEF CanStart
  <2>6. CalmHelper(hlp[j])'
    BY <1>0, <2>0, <2>1, <2>4 DEF CalmHelper, SameImages
  <2> QED
    BY <1>3, <2>1, <2>5, <2>6
<1>h. CASE Verify(j)
  <2>0. /\ ctr[hlp[j].old].image # localTag /\ ctr[hlp[j].new].image = localTag
        /\ hlp[j].new \in Svc
    BY <1>0, <1>h DEF Verify, HlpAt, CalmHelper, HelperInv
  <2>1. /\ hlp'[j].pc \in {"drop", "rbremove"} /\ hlp'[j].old = hlp[j].old
        /\ hlp'[j].new = hlp[j].new /\ UNCHANGED <<ctr, localTag, row>> /\ UNCHANGED procVars
    BY <1>0, <1>h, HlpGoes, LabelFacts DEF Verify, hlpFrame, tagVars
  <2>2. CalmHelper(hlp[j])'
    BY <1>0, <1>5, <2>0, <2>1 DEF CalmHelper
  <2> QED
    BY <1>3, <1>4, <2>1, <2>2
<1>i. CASE DropOld(j)
  <2>0. ctr[hlp[j].new].image = localTag /\ hlp[j].new \in Svc /\ hlp[j].old \in Old
    BY <1>0, <1>i DEF DropOld, HlpAt, CalmHelper, HelperInv
  <2>1. /\ Become(RemoveC(ctr, {hlp[j].old})) /\ ctr' = RemoveC(ctr, {hlp[j].old})
        /\ HlpReturn(j, "updated") /\ UNCHANGED <<localTag, row>>
    BY <1>2, <1>i DEF DropOld, HlpFails, Become, hlpFrame, tagVars
  <2>2. hlp'[j].pc = "finish" /\ hlp'[j].verdict = "updated"
    BY <1>0, <2>1 DEF HlpReturn, Helper
  <2>3. Svc' = Svc \ {hlp[j].old} /\ Old' = Old \ {hlp[j].old}
    BY <1>0, <2>1, RemoveH DEF Svc, Old
  <2>4. ctr'[hlp[j].new].image = localTag
    BY <1>0, <2>0, <2>1, ImagesKept
  <2>5. Honest("updated")'
    BY <1>0, <1>6, <2>0, <2>1, <2>3, <2>4 DEF Honest, Succeeded
  <2>6. Old' = {}
    BY <1>0, <2>0, <2>3
  <2>7. CalmHelper(hlp[j])'
    BY <2>2, <2>5, <2>6 DEF CalmHelper
  <2> QED
    BY <1>0, <1>3, <2>1, <2>2, <2>7, BecomeMem
<1>j. CASE RollbackRemove(j)
  <2>0. ctr[hlp[j].old].image # localTag /\ hlp[j].old \in CID /\ Svc \subseteq {hlp[j].new}
    BY <1>0, <1>j, LabelFacts DEF RollbackRemove, HlpAt, CalmHelper, HelperOK
  <2>1. /\ Become(RemoveC(ctr, {hlp[j].new} \cap CID)) /\ ctr' = RemoveC(ctr, {hlp[j].new} \cap CID)
        /\ UNCHANGED <<localTag, row>>
    BY <1>2, <1>j DEF RollbackRemove, HlpFails, Become, hlpFrame, tagVars
  <2>2. hlp'[j].pc = "rbrename" /\ hlp'[j].old = hlp[j].old
    BY <1>0, <1>j, HlpGoes, LabelFacts DEF RollbackRemove
  <2>3. Svc' = Svc \ ({hlp[j].new} \cap CID)
    BY <1>0, <2>1, RemoveH DEF Svc
  <2>4. ctr'[hlp[j].old].image = ctr[hlp[j].old].image
    BY <1>0, <2>0, <2>1, ImagesKept
  <2>5. Svc' = {}
    BY <1>0, <2>0, <2>3
  <2>6. CalmHelper(hlp[j])'
    BY <2>0, <2>1, <2>2, <2>4, <2>5 DEF CalmHelper
  <2> QED
    BY <1>0, <1>3, <2>1, <2>2, <2>6, BecomeMem
<1>k. CASE RollbackRename(j)
  <2>0. ctr[hlp[j].old].image # localTag /\ hlp[j].old \in Old /\ Svc = {}
    BY <1>0, <1>k DEF RollbackRename, HlpAt, CalmHelper, HelperInv
  <2>1. CanRename(hlp[j].old, "svc") /\ Exists(ctr, hlp[j].old)
    BY <1>0, <2>0, ExistsH DEF CanRename, Svc, Old
  <2>2. /\ ctr' = RenameC(ctr, hlp[j].old, "svc") /\ HlpGoto(j, "rbstart")
        /\ UNCHANGED <<localTag, row>> /\ UNCHANGED procVars
    BY <1>2, <1>k, <2>1 DEF RollbackRename, hlpFrame, tagVars
  <2>3. hlp'[j].pc = "rbstart" /\ hlp'[j].old = hlp[j].old
    BY <1>0, <2>2, HlpGoes, LabelFacts
  <2>4. Svc' = {hlp[j].old} /\ Old' = Old \ {hlp[j].old}
    BY <1>0, <2>0, <2>1, <2>2, RenameH DEF Svc, Old, Names
  <2>5. ctr'[hlp[j].old].image = ctr[hlp[j].old].image
    BY <1>0, <2>0, <2>2, ImagesKept
  <2>6. CalmHelper(hlp[j])'
    BY <1>0, <2>0, <2>2, <2>3, <2>4, <2>5 DEF CalmHelper
  <2> QED
    BY <1>3, <1>4, <2>2, <2>3, <2>6
<1>l. CASE RollbackStart(j)
  <2>0. Old = {} /\ ctr[hlp[j].old].image # localTag /\ hlp[j].old \in Svc
    BY <1>0, <1>l DEF RollbackStart, HlpAt, CalmHelper
  <2>1. /\ hlp'[j].pc = "finish" /\ hlp'[j].verdict \in {"rolledback", "down"}
        /\ UNCHANGED <<localTag, row>>
    BY <1>0, <1>l DEF RollbackStart, HlpReturn, Helper, hlpFrame, tagVars
  <2>2. \/ CanStart(hlp[j].old) /\ Boot(hlp[j].old)
        \/ ctr' = ctr /\ UNCHANGED procVars
    BY <1>l DEF RollbackStart
  <2>3. ctr' = ctr \/ ctr' = StartC(ctr, hlp[j].old)
    BY <2>2 DEF Boot
  <2>4. Svc' = Svc /\ Old' = Old /\ SameImages
    BY <1>0, <2>0, <2>3, ExistsH, StartH, ImagesKept DEF Svc, Old, SameImages
  <2>5. MemStay
    BY <1>0, <1>4, <2>2, BootMem DEF CanStart
  <2>6. Honest(hlp[j].verdict)'
    BY <1>0, <1>6, <2>0, <2>1, <2>4 DEF Honest, Failures, SameImages
  <2>7. CalmHelper(hlp[j])'
    BY <2>0, <2>1, <2>4, <2>6 DEF CalmHelper
  <2> QED
    BY <1>3, <2>1, <2>5, <2>7
<1>m. CASE FinishApply(j)
  <2>0. Old = {} /\ Honest(hlp[j].verdict)
    BY <1>0, <1>m DEF FinishApply, HlpAt, CalmHelper
  <2>1. /\ UNCHANGED <<ctr, localTag>> /\ UNCHANGED procVars /\ hlp'[j].pc = "exited"
        /\ row' = [row EXCEPT ![j] = hlp[j].verdict]
    BY <1>0, <1>m, HlpGoes, LabelFacts DEF FinishApply, tagVars
  <2>2. Old' = {} /\ OnSnapshotImage' = OnSnapshotImage
    BY <1>5, <2>0, <2>1, SnapshotStay DEF SameImages
  <2>3. \E v : Honest(v)' /\ v = hlp[j].verdict
    BY <2>0, <2>2 DEF Honest
  <2>4. CalmHelper(hlp[j])'
    BY <2>1 DEF CalmHelper
  <2> QED
    BY <1>1, <1>4, <2>1, <2>2, <2>3, <2>4, CalmHelperStep
<1> QED
  BY <1>a, <1>b, <1>c, <1>d, <1>e, <1>f, <1>g, <1>h, <1>i, <1>j, <1>k, <1>l, <1>m DEF HelperStep

\* The steps of a request.
LEMMA CalmRequests ==
    ASSUME Lone, RunInv, CalmInv, ~budget.faults, NEW j \in Jobs, Update(j) \/ ReqStep(j)
    PROVE  CalmInv' /\ KindKept
<1>0. /\ \A k \in Jobs : k = j
      /\ req \in [Jobs -> Request] /\ hlp \in [Jobs -> Helper] /\ row \in [Jobs -> Verdicts]
      /\ CalmHelper(hlp[j]) /\ CalmRow(j) /\ CalmProc /\ ProcInv
      /\ req[j].pc \in Before => hlp[j].pc \in {"none", "created"}
  BY RunParts DEF Lone, CalmInv, ProcTypes, RestTypes, Unbegun
<1>1. UNCHANGED <<ctr, proc, found, watch>> /\ Svc' = Svc /\ Old' = Old /\ SameImages
  BY DEF Update, ReqStep, Lock, Inspect, Pull, HandOff, StartHelper, Unlock, ReqFinish, Forget,
     reqFrame, Svc, Old, SameImages
<1>2. \A call : ~CallFails(call)
  BY DEF CallFails
\* The request goes on, and the job is still its own, or never was.
<1>3. ASSUME localTag' = localTag \/ hlp[j].pc \in {"none", "created"}, row' = row,
             hlp' = hlp \/ (hlp[j].pc \in {"none", "created"} /\ hlp'[j].pc \in {"none", "created"}),
             req'[j].pc # "idle", Owns(req'[j]) => Owns(req[j])
      PROVE  CalmInv' /\ KindKept
  <2>1. CASE hlp' = hlp /\ localTag' = localTag
    <3>1. OnSnapshotImage' = OnSnapshotImage
      BY <1>1, <2>1, SnapshotStay
    <3>2. CalmHelper(hlp[j])' /\ Updaters' = Updaters
      BY <1>0, <1>1, <2>1, <3>1 DEF CalmHelper, Honest, Updaters
    <3>3. CalmRow(j)'
      BY <1>0, <1>1, <1>3, <2>1, <3>1, <3>2 DEF CalmRow, Honest
    <3>4. CalmProc'
      BY <1>0, <1>1, <3>2 DEF CalmProc
    <3> QED
      BY <1>0, <1>3, <3>2, <3>3, <3>4 DEF CalmInv, KindKept
  <2>2. CASE hlp[j].pc \in {"none", "created"} /\ hlp'[j].pc \in {"none", "created"}
    <3>1. CalmHelper(hlp[j])' /\ Updaters' = {} /\ Updaters = {}
      BY <1>0, <2>2 DEF CalmHelper, Updaters
    <3>2. CalmRow(j)'
      BY <1>0, <1>1, <1>3, <2>2, <3>1 DEF CalmRow
    <3>3. CalmProc'
      BY <1>0, <1>1, <3>1 DEF CalmProc
    <3> QED
      BY <1>0, <1>3, <3>1, <3>2, <3>3 DEF CalmInv, KindKept
  <2> QED
    BY <1>3, <2>1, <2>2
<1>a. CASE Update(j)
  <2>1. /\ req[j].pc = "idle" /\ req'[j].pc = "lock" /\ row' = [row EXCEPT ![j] = "active"]
        /\ UNCHANGED <<hlp, localTag>>
    BY <1>0, <1>a, ReqGoes, ReqFacts DEF Update, ReqAt, tagVars
  <2>2. row[j] = "none" /\ row'[j] = "active" /\ hlp[j].pc \in {"none", "created"}
    BY <1>0, <2>1, ReqFacts DEF CalmRow
  <2>3. CalmHelper(hlp[j])' /\ Updaters' = Updaters
    BY <2>1, <2>2 DEF CalmHelper, Updaters
  <2>4. CalmRow(j)'
    BY <1>0, <1>1, <2>1, <2>2, <2>3 DEF CalmRow
  <2>5. CalmProc'
    BY <1>0, <1>1, <2>3 DEF CalmProc
  <2> QED
    BY <1>0, <2>2, <2>3, <2>4, <2>5 DEF CalmInv, KindKept, Succeeded, Failures
<1>b. CASE Lock(j) \/ Inspect(j) \/ Pull(j) \/ HandOff(j)
  <2>0. req[j].pc \in {"lock", "inspect", "pull", "handoff"} /\ row' = row
    BY <1>b DEF Lock, Inspect, Pull, HandOff, ReqAt, reqFrame
  <2>1. hlp[j].pc \in {"none", "created"} /\ Owns(req[j])
    BY <1>0, <2>0, ReqFacts DEF Owns
  <2>2. req'[j].pc # "idle"
    BY <1>0, <1>b, ReqGoes, ReqReturns, ReqFacts, LabelFacts DEF Lock, Inspect, Pull, HandOff, Request
  <2>3. hlp' = hlp \/ hlp'[j].pc \in {"none", "created"}
    BY <1>0, <1>b, HlpGoes, LabelFacts DEF Lock, Inspect, Pull, HandOff, HlpGoto
  <2> QED
    BY <1>3, <2>0, <2>1, <2>2, <2>3
<1>c. CASE StartHelper(j)
  <2>0. /\ req[j].pc = "starthelper" /\ UNCHANGED <<row, localTag>>
        /\ HlpGoto(j, "lookup") /\ ReqReturn(j, "active")
    BY <1>2, <1>c DEF StartHelper, ReqAt, reqFrame, HlpGoto
  <2>1. /\ row[j] = "active" /\ hlp[j].pc \in {"none", "created"} /\ proc = "serving"
    BY <1>0, <2>0, ReqFacts DEF CalmRow, Owns, ProcInv
  <2>2. hlp'[j].pc = "lookup" /\ req'[j].pc = "unlock" /\ req'[j].verdict = "active"
    BY <1>0, <2>0, HlpGoes, LabelFacts DEF ReqReturn, Request
  <2>3. Updaters = {}
    BY <1>0, <2>1 DEF Updaters
  <2>4. Old' = {}
    BY <1>0, <1>1, <2>3 DEF CalmProc
  <2>5. CalmHelper(hlp[j])'
    BY <2>2, <2>4 DEF CalmHelper
  <2>6. CalmRow(j)'
    BY <1>0, <1>1, <2>0, <2>1, <2>2, ReqFacts DEF CalmRow, Owns
  <2>7. CalmProc'
    BY <1>0, <1>1, <2>1, <2>4 DEF CalmProc
  <2> QED
    BY <1>0, <2>0, <2>5, <2>6, <2>7 DEF CalmInv, KindKept
<1>d. CASE Unlock(j)
  <2>0. /\ req[j].pc = "unlock" /\ UNCHANGED <<row, localTag, hlp>>
        /\ req'[j].pc = IF req[j].verdict = "active" THEN "handed" ELSE "finish"
    BY <1>0, <1>d, ReqGoes, ReqFacts DEF Unlock, ReqAt, reqFrame
  <2>1. Owns(req'[j]) => Owns(req[j])
    BY <2>0, ReqFacts DEF Owns
  <2> QED
    BY <1>3, <2>0, <2>1
<1>e. CASE ReqFinish(j)
  <2>0. /\ req[j].pc = "finish" /\ UNCHANGED <<localTag, hlp>>
        /\ row' = [row EXCEPT ![j] = req[j].verdict] /\ req'[j].pc = "forget"
    BY <1>0, <1>e, ReqGoes, ReqFacts DEF ReqFinish, ReqAt, tagVars
  <2>1. row[j] = "active" /\ hlp[j].pc \in {"none", "created"}
    BY <1>0, <2>0, ReqFacts DEF CalmRow, Owns
  <2>2. CalmHelper(hlp[j])' /\ Updaters' = Updaters /\ Updaters = {}
    BY <1>0, <2>0, <2>1 DEF CalmHelper, Updaters
  <2>3. CalmRow(j)'
    BY <1>0, <1>1, <2>0, <2>1, <2>2, ReqFacts DEF CalmRow, Owns
  <2>4. CalmProc'
    BY <1>0, <1>1, <2>2 DEF CalmProc
  <2> QED
    BY <1>0, <2>1, <2>2, <2>3, <2>4 DEF CalmInv, KindKept, Succeeded, Failures
<1>f. CASE Forget(j)
  <2>0. req'[j].pc = "done" /\ UNCHANGED <<row, localTag, hlp>>
    BY <1>0, <1>f, ReqGoes, ReqFacts DEF Forget, tagVars
  <2>1. ~Owns(req'[j])
    BY <2>0, ReqFacts DEF Owns
  <2> QED
    BY <1>3, <2>0, <2>1
<1> QED
  BY <1>a, <1>b, <1>c, <1>d, <1>e, <1>f DEF ReqStep

\* The steps of Recover: there is nothing parked to reconcile, and only a job that no
\* helper has is settled.
LEMMA CalmRecovers ==
    ASSUME Lone, RunInv, CalmInv, ~budget.faults, RecoverStep
    PROVE  CalmInv' /\ KindKept
<1>0. /\ hlp \in [Jobs -> Helper] /\ row \in [Jobs -> Verdicts] /\ CalmProc /\ ProcInv
      /\ watch \in [Jobs -> {"off", "read", "list"}] /\ found \in Listing
      /\ \A k \in Jobs : CalmHelper(hlp[k]) /\ CalmRow(k) /\ (req[k].pc \notin Busy)
  BY RunParts DEF CalmInv, ProcTypes, RestTypes, ProcInv, RecoverStep, RecoverList, RecoverRetire,
     RecoverRemove, RecoverRename, PruneUpdaters, ResumeJob, Serve
<1>1. UNCHANGED <<ctr, localTag, req>> /\ Svc' = Svc /\ Old' = Old /\ SameImages
  BY <1>0 DEF RecoverStep, RecoverList, RecoverRetire, RecoverRemove, RecoverRename, PruneUpdaters,
     ResumeJob, Serve, recoverFrame, tagVars, Svc, Old, SameImages, CalmProc
<1>2. OnSnapshotImage' = OnSnapshotImage
  BY <1>1, SnapshotStay
<1>3. \A call : ~CallFails(call)
  BY DEF CallFails
<1>4. \A k \in Jobs : ~Owns(req[k])
  BY <1>0, ReqFacts DEF Owns
<1>5. ASSUME hlp' = hlp PROVE Updaters' = Updaters /\ \A k \in Jobs : CalmHelper(hlp[k])'
  BY <1>0, <1>1, <1>2, <1>5 DEF CalmHelper, Honest, Updaters
<1>a. CASE RecoverList
  <2>0. proc = "list" /\ UNCHANGED <<row, watch, hlp>>
    BY <1>a DEF RecoverList
  <2>1. found.updaters = {} /\ watch = NoWatch
    BY <1>0, <2>0 DEF CalmProc
  <2>2. \/ Updaters # {} /\ proc' = "resume" /\ found' = [Nothing EXCEPT !.updaters = Updaters]
        \/ Updaters = {} /\ proc' = "prune" /\ found' = found
    BY <1>0, <1>3, <1>a DEF RecoverList, CalmProc, Old
  <2>3. found'.updaters = IF Updaters = {} THEN {} ELSE Updaters
    BY <2>1, <2>2 DEF Nothing
  <2>4. CalmProc'
    BY <1>0, <1>1, <1>5, <2>0, <2>1, <2>2, <2>3 DEF CalmProc
  <2>5. \A k \in Jobs : CalmRow(k)'
    BY <1>0, <1>1, <1>2, <1>5, <2>0, <2>1, <2>3 DEF CalmRow, Honest, NoWatch, Updaters
  <2> QED
    BY <1>5, <2>0, <2>4, <2>5 DEF CalmInv, KindKept
<1>b. CASE PruneUpdaters
  <2>0. /\ proc = "prune" /\ proc' = "resume" /\ UNCHANGED <<row, watch, found>>
        /\ hlp' = [k \in Jobs |-> IF hlp[k].pc \in {"created", "exited"}
                                  THEN [hlp[k] EXCEPT !.pc = "none"] ELSE hlp[k]]
    BY <1>3, <1>b DEF PruneUpdaters
  <2>1. Updaters = {} /\ found.updaters = {} /\ watch = NoWatch
    BY <1>0, <2>0 DEF CalmProc
  <2>2. \A k \in Jobs : hlp'[k].pc = "none"
    BY <1>0, <2>0, <2>1 DEF Updaters, Helper
  <2>3. Updaters' = {} /\ \A k \in Jobs : CalmHelper(hlp[k])'
    BY <2>2 DEF Updaters, CalmHelper
  <2>4. \A k \in Jobs : CalmRow(k)'
    BY <1>0, <1>1, <1>4, <2>0, <2>1, <2>2, <2>3 DEF CalmRow, NoWatch
  <2>5. CalmProc'
    BY <1>0, <1>1, <2>0, <2>1, <2>3 DEF CalmProc
  <2> QED
    BY <2>0, <2>3, <2>4, <2>5 DEF CalmInv, KindKept
<1>c. ASSUME NEW j \in Jobs, ResumeJob(j) PROVE CalmInv' /\ KindKept
  <2>0. /\ proc = "resume" /\ row[j] = "active" /\ UNCHANGED <<proc, found, hlp>>
        /\ \/ j \in found.updaters /\ watch' = [watch EXCEPT ![j] = "read"] /\ row' = row
           \/ j \notin found.updaters /\ SettleJob(j) /\ watch' = watch
    BY <1>c DEF ResumeJob
  <2>1. CalmProc'
    BY <1>0, <1>1, <1>5, <2>0 DEF CalmProc
  <2>2. CASE j \in found.updaters /\ watch' = [watch EXCEPT ![j] = "read"] /\ row' = row
    <3>1. hlp[j].pc \notin {"none", "created"}
      BY <1>0, <2>2 DEF CalmRow
    <3>2. \A k \in Jobs : watch'[k] = watch[k] \/ k = j
      BY <1>0, <2>2
    <3>3. \A k \in Jobs : CalmRow(k)'
      BY <1>0, <1>1, <1>2, <1>5, <2>0, <2>2, <3>1, <3>2 DEF CalmRow, Honest
    <3> QED
      BY <1>5, <2>0, <2>1, <2>2, <3>3 DEF CalmInv, KindKept
  <2>3. CASE j \notin found.updaters /\ SettleJob(j) /\ watch' = watch
    <3>1. j \notin Updaters
      BY <1>0, <2>0, <2>3 DEF CalmProc
    <3>2. hlp[j].pc # "exited"
      BY <1>0, <2>0 DEF CalmRow, Honest, Succeeded, Failures
    <3>3. \A k \in Jobs : k = j
      BY DEF Lone
    <3>4. req[j].pc # "idle"
      BY <1>0, <2>0 DEF CalmRow
    <3>5. CalmRow(j)'
      BY <1>0, <1>1, <1>4, <1>5, <2>0, <2>3, <3>1, <3>2, <3>4 DEF CalmRow
    <3>6. KindKept
      BY <2>0, <3>3 DEF KindKept, Succeeded, Failures
    <3> QED
      BY <1>5, <2>0, <2>1, <3>3, <3>5, <3>6 DEF CalmInv
  <2> QED
    BY <2>0, <2>2, <2>3
<1>d. CASE Serve
  <2>0. proc' = "serving" /\ UNCHANGED <<row, watch, found, hlp>>
    BY <1>d DEF Serve
  <2>1. \A k \in Jobs : CalmRow(k)'
    BY <1>0, <1>1, <1>2, <1>5, <2>0 DEF CalmRow, Honest
  <2>2. CalmProc'
    BY <1>0, <1>1, <1>5, <2>0 DEF CalmProc
  <2> QED
    BY <1>5, <2>0, <2>1, <2>2 DEF CalmInv, KindKept
<1>e. CASE RecoverRetire \/ RecoverRemove \/ RecoverRename
  BY <1>0, <1>e DEF RecoverRetire, RecoverRemove, RecoverRename, CalmProc
<1> QED
  BY <1>a, <1>b, <1>c, <1>d, <1>e DEF RecoverStep

\* watchJob: a job it settles had its helper's verdict, of the same kind.
LEMMA CalmWatches ==
    ASSUME RunInv, CalmInv, ~budget.faults, NEW j \in Jobs, WatchStep(j)
    PROVE  CalmInv' /\ KindKept
<1>0. /\ row \in [Jobs -> Verdicts] /\ CalmProc /\ watch \in [Jobs -> {"off", "read", "list"}]
      /\ hlp \in [Jobs -> Helper]
      /\ \A k \in Jobs : CalmHelper(hlp[k]) /\ CalmRow(k)
  BY RunParts DEF CalmInv, ProcTypes, RestTypes
<1>1. /\ UNCHANGED <<ctr, localTag, req, proc, found, hlp>> /\ Svc' = Svc /\ Old' = Old
      /\ SameImages /\ watch[j] # "off"
  BY DEF WatchStep, WatchRead, WatchList, recoverFrame, tagVars, Svc, Old, SameImages
<1>2. OnSnapshotImage' = OnSnapshotImage /\ Updaters' = Updaters
  BY <1>1, SnapshotStay DEF Updaters
<1>3. \A k \in Jobs : CalmHelper(hlp[k])'
  BY <1>0, <1>1, <1>2 DEF CalmHelper, Honest
<1>4. \A k \in Jobs : watch'[k] # "off" => watch[k] # "off"
  BY <1>0, <1>1 DEF WatchStep, WatchRead, WatchList
<1>5. CalmProc'
  <2>1. proc \in {"resume", "serving"}
    BY <1>0, <1>1 DEF CalmProc, NoWatch
  <2> QED
    BY <1>0, <1>1, <1>2, <2>1 DEF CalmProc
<1>6. CASE row' = row
  <2>1. \A k \in Jobs : CalmRow(k)'
    BY <1>0, <1>1, <1>2, <1>4, <1>6 DEF CalmRow, Honest
  <2> QED
    BY <1>3, <1>5, <1>6, <2>1 DEF CalmInv, KindKept
<1>7. CASE j \notin Updaters /\ SettleJob(j)
  <2>1. hlp[j].pc = "exited" /\ Honest(row[j])
    BY <1>0, <1>1, <1>7 DEF CalmRow, Updaters
  <2>2. /\ \A k \in Jobs : k # j => row'[k] = row[k]
        /\ \/ OnSnapshotImage /\ row'[j] = "updated"
           \/ ~OnSnapshotImage /\ row'[j] = "failed"
    BY <1>0, <1>7 DEF SettleJob, CallFails
  <2>3. /\ Honest(row'[j])
        /\ row[j] \in Succeeded => row'[j] \in Succeeded
        /\ row[j] \in Failures => row'[j] \in Failures
    BY <2>1, <2>2 DEF Honest, Succeeded, Failures
  <2>4. CalmRow(j)'
    <3>1. ~Owns(req[j]) /\ req[j].pc # "idle"
      BY <1>0, <2>1 DEF CalmRow, Honest, Succeeded, Failures
    <3> QED
      BY <1>1, <1>2, <1>7, <2>1, <2>3, <3>1 DEF CalmRow, Honest
  <2>5. \A k \in Jobs : k # j => CalmRow(k)'
    BY <1>0, <1>1, <1>2, <1>4, <2>2 DEF CalmRow, Honest
  <2>6. KindKept
    BY <2>2, <2>3 DEF KindKept
  <2> QED
    BY <1>3, <1>5, <2>4, <2>5, <2>6 DEF CalmInv
<1> QED
  BY <1>6, <1>7 DEF WatchStep, WatchRead, WatchList, CallFails

\* The rest of the world, but for a kill of the helper.
LEMMA CalmWorld ==
    ASSUME RunInv, VeeryInv, CalmInv,
           Publish \/ Crash \/ \E c \in CID : ContainerDrift(c) \/ Revive(c) \/ UserStart(c)
    PROVE  CalmInv' /\ KindKept
<1>0. ctr \in Table /\ ProcTypes /\ ProcInv /\ CalmProc
  BY RunParts DEF CalmInv
<1>1. Svc' = Svc
  BY WorldPlaces
<1>2. UNCHANGED <<hlp, row, localTag>>
  BY DEF Publish, Crash, ContainerDrift, Revive, UserStart, tagVars
<1>3. ASSUME MemStay, Old' = Old, SameImages PROVE CalmInv' /\ KindKept
  BY <1>1, <1>2, <1>3, CalmStay
<1>4. ASSUME NEW c \in CID, Exists(ctr, c), NEW s \in States \ {"unused", "removed"},
             ctr' = SetState(ctr, c, s)
      PROVE  Old' = Old /\ SameImages
  BY <1>0, <1>4, SetStateH, ImagesKept DEF Old, SameImages
<1>a. CASE Publish
  BY <1>3, <1>a DEF Publish, MemStay, SameImages, Old, procVars
<1>b. CASE Crash
  <2>1. self \in CID /\ Exists(ctr, self) /\ ctr' = SetState(ctr, self, "restarting")
    BY <1>0, <1>b DEF Crash, Become, ProcInv, ProcTypes, Alive, Exists, Opt
  <2>2. MemStay
    BY <1>0, <1>b, BecomeMem DEF Crash
  <2> QED
    BY <1>3, <1>4, <2>1, <2>2 DEF States, Up
<1>c. ASSUME NEW c \in CID, ContainerDrift(c) PROVE CalmInv' /\ KindKept
  <2>1. PICK s \in Drift(ctr[c].image, ctr[c].state) : Become(SetState(ctr, c, s))
    BY <1>c DEF ContainerDrift
  <2>2. Exists(ctr, c) /\ s \in States \ {"unused", "removed"} /\ ctr' = SetState(ctr, c, s)
    BY <2>1 DEF Drift, States, Up, Exists, Become
  <2> QED
    BY <1>0, <1>3, <1>4, <2>1, <2>2, BecomeMem
<1>d. ASSUME NEW c \in CID, Revive(c) PROVE CalmInv' /\ KindKept
  <2>1. Old' = Old /\ SameImages
    BY <1>4, <1>d DEF Revive, Exists, States, Up
  <2>2. MemStay
    BY <1>0, <1>d DEF Revive, MemStay, ProcInv, CalmProc
  <2> QED
    BY <1>3, <2>1, <2>2
<1>e. ASSUME NEW c \in CID, UserStart(c) PROVE CalmInv' /\ KindKept
  <2>1. Old' = Old /\ SameImages
    BY <1>0, <1>e, StartH, ImagesKept DEF UserStart, Boot, Old, SameImages
  <2>2. MemStay
    BY <1>0, <1>e, BootMem DEF UserStart
  <2> QED
    BY <1>3, <2>1, <2>2
<1> QED
  BY <1>a, <1>b, <1>c, <1>d, <1>e

\* What is undisturbed was so before.
LEMMA CalmBudget ==
    ASSUME RunInv, [Next]_vars, ~Disturbed'
    PROVE  ~Disturbed /\ ~budget.faults /\ \A j \in Jobs : ~KillHelper(j)
<1>0. budget \in [crashes : 0 .. MaxCrashes, kills : 0 .. MaxKills, faults : BOOLEAN] /\ MaxKills \in Nat
  BY RunParts, InitAssumption DEF RestTypes
<1>1. ~budget'.faults /\ ~(budget'.kills < MaxKills)
  BY DEF Disturbed
<1>2. \A j \in Jobs : ~KillHelper(j)
  <2> SUFFICES ASSUME NEW j \in Jobs, KillHelper(j) PROVE FALSE
    OBVIOUS
  <2>1. budget' = [budget EXCEPT !.kills = budget.kills - 1]
    BY DEF KillHelper
  <2> QED
    BY <1>0, <1>1, <2>1
<1>3. CASE Crash
  <2>1. budget' = [budget EXCEPT !.crashes = budget.crashes - 1]
    BY <1>3 DEF Crash
  <2>2. budget'.kills = budget.kills /\ budget'.faults = budget.faults
    BY <1>0, <2>1
  <2> QED
    BY <1>1, <1>2, <2>2 DEF Disturbed
<1>4. CASE budget' = budget
  BY <1>1, <1>2, <1>4 DEF Disturbed
<1>5. Crash \/ budget' = budget
  <2>1. ASSUME NEW j \in Jobs, HelperStep(j) PROVE budget' = budget
    BY <2>1 DEF HelperStep, Lookup, CompareImage, ClearParked, Park, StopOld, Create, StartNew, Verify,
       DropOld, RollbackRemove, RollbackRename, RollbackStart, FinishApply, hlpFrame
  <2>2. ASSUME RecoverStep PROVE budget' = budget
    BY <2>2 DEF RecoverStep, RecoverList, RecoverRetire, RecoverRemove, RecoverRename, PruneUpdaters,
       ResumeJob, Serve, recoverFrame
  <2>3. ASSUME NEW c \in CID, ContainerDrift(c) \/ Revive(c) \/ UserStart(c) PROVE budget' = budget
    BY <2>3 DEF ContainerDrift, Revive, UserStart
  <2>4. UNCHANGED vars => budget' = budget
    BY DEF vars
  <2>5. Publish => budget' = budget
    BY DEF Publish
  <2> QED
    BY <1>2, <2>1, <2>2, <2>3, <2>4, <2>5, RequestRun, WatchRun DEF Next
<1> QED
  BY <1>3, <1>4, <1>5

\* Every step of an update that nothing disturbs.
LEMMA CalmStep ==
    ASSUME Lone, RunInv, VeeryInv, CalmInv, [Next]_vars, ~Disturbed'
    PROVE  CalmInv' /\ KindKept
<1>0. ~budget.faults /\ \A j \in Jobs : ~KillHelper(j)
  BY CalmBudget
<1>1. CASE UNCHANGED vars
  BY <1>1, CalmStay DEF vars, Svc, Old, SameImages, MemStay
<1>2. CASE Next
  BY <1>0, <1>2, CalmHelps, CalmRequests, CalmRecovers, CalmWatches, CalmWorld DEF Next
<1> QED
  BY <1>1, <1>2

\* The first state.
LEMMA CalmInit == Init => CalmInv
<1> SUFFICES ASSUME Init PROVE CalmInv
  OBVIOUS
<1>0. PICK c \in CID, s \in Specs :
          ctr = [d \in CID |-> [name |-> "svc", image |-> InitImage, spec |-> s,
                                state |-> IF d = c THEN "running" ELSE "unused"]]
  BY DEF Init
<1>1. Old = {}
  BY <1>0 DEF Old, Holder
<1>2. /\ proc = "serving" /\ found = Nothing /\ watch = NoWatch
      /\ \A j \in Jobs : hlp[j].pc = "none" /\ req[j].pc = "idle" /\ row[j] = "none"
  BY DEF Init
<1>3. \A j \in Jobs : CalmHelper(hlp[j]) /\ CalmRow(j)
  BY <1>2, ReqFacts DEF CalmHelper, CalmRow, Updaters, Owns, NoWatch, Nothing
<1>4. CalmProc
  BY <1>1, <1>2 DEF CalmProc, Updaters
<1> QED
  BY <1>3, <1>4 DEF CalmInv

\* One update of Veery, however often Veery is killed: as long as no call fails and the
\* helper is not killed, neither the helper nor a watchJob that settles the job turns a
\* verdict that was reported into one of the other kind (FinishUpdateJob, settleJob).
THEOREM OneUpdateOneVerdict == Lone => (Spec => VerdictKind)
<1> SUFFICES ASSUME Lone PROVE Spec => VerdictKind
  OBVIOUS
<1> DEFINE I == RunInv /\ VeeryInv /\ LoneInv /\ (~Disturbed => CalmInv)
<1>1. I /\ [Next]_vars => I' /\ (~Disturbed' => KindKept)
  <2> SUFFICES ASSUME I, [Next]_vars PROVE I' /\ (~Disturbed' => KindKept)
    OBVIOUS
  <2>1. OneHelper
    BY DEF Lone, OneHelper, Updaters
  <2>2. \A j \in Jobs : StartHelper(j) => Svc \subseteq verified
    BY ReqFacts DEF StartHelper, ReqAt, LoneInv
  <2>3. (RunInv /\ VeeryInv /\ LoneInv)'
    BY <2>1, <2>2, RunStep, VeeryStep
  <2>4. ~Disturbed' => CalmInv' /\ KindKept
    BY CalmBudget, CalmStep
  <2> QED
    BY <2>3, <2>4
<1>2. Init => I
  BY RunInit, VeeryInit, CalmInit
<1>3. I /\ [Next]_vars /\ I' => [~Disturbed' => \A j \in Jobs :
          /\ row[j] \in Succeeded => row'[j] \in Succeeded
          /\ row[j] \in Failures => row'[j] \in Failures]_vars
  BY <1>1 DEF KindKept
<1> QED
  BY <1>1, <1>2, <1>3, PTL DEF Spec, VerdictKind
=============================================================================

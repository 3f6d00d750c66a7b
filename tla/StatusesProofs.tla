--------------------------- MODULE StatusesProofs ---------------------------
(***************************************************************************)
(* NothingRepeated holds of every behaviour, for any set of containers and *)
(* of goroutines, any number of calls of BroadcastStacks, of updates and of*)
(* crashes.                                                                *)
(*                                                                         *)
(* The argument is ToldInv: outside a comparison, what the user last heard *)
(* of a container is nothing or what the next listing will be compared     *)
(* with.  The comparison itself (Lock to Finish, under statusMu) takes it  *)
(* from the old baseline to the new one: a container that did not change   *)
(* keeps both, one that changed is in exactly one message.                 *)
(***************************************************************************)
EXTENDS Statuses, TLAPS

-----------------------------------------------------------------------------
(* Types.                                                                  *)

LEMMA IdleType == Idle \in Stages /\ Idle.pc = "idle" /\ Idle.todo = {}
BY HostAssumption DEF Idle, Stages, Unseen, Opt

LEMMA StatusType ==
    ASSUME NEW listed \in [Containers -> HostStates], NEW busy, NEW c \in Containers
    PROVE  StatusIn(listed, busy, c) \in Status
BY DEF StatusIn, MapStatus, Status, Plain

\* The messages are about containers that changed, and no two about the same.
LEMMA MessagesShape ==
    ASSUME NEW last, NEW view
    PROVE  /\ Messages(last, view) \in SUBSET (SUBSET Containers)
           /\ UNION Messages(last, view) = Transitions(last, view)
           /\ \A m, n \in Messages(last, view) : m = n \/ m \cap n = {}
<1> DEFINE moved == Transitions(last, view)
           gone == {c \in moved : view[c] = "missing"}
           single == {{c} : c \in moved \ gone}
           each == {{c} : c \in gone}
<1>1. Messages(last, view) \in {single \cup {gone}, single \cup each}
  BY DEF Messages
<1>2. moved \subseteq Containers
  BY DEF Transitions
<1>3. CASE Messages(last, view) = single \cup {gone}
  <2>1. UNION Messages(last, view) = moved
    BY <1>3
  <2>2. \A m \in single : m \cap gone = {}
    OBVIOUS
  <2>3. \A m, n \in single : m = n \/ m \cap n = {}
    OBVIOUS
  <2>4. gone \in SUBSET Containers /\ single \in SUBSET (SUBSET Containers)
    BY <1>2
  <2> HIDE DEF single, gone, moved
  <2>5. Messages(last, view) \in SUBSET (SUBSET Containers)
    BY <1>3, <2>4
  <2>6. \A m, n \in Messages(last, view) : m = n \/ m \cap n = {}
    BY <1>3, <2>2, <2>3
  <2> QED
    BY <2>1, <2>5, <2>6 DEF moved
<1>4. CASE Messages(last, view) = single \cup each
  <2>1. single \cup each = {{c} : c \in moved}
    OBVIOUS
  <2> HIDE DEF single, gone, each, moved
  <2> DEFINE ones == {{c} : c \in moved}
  <2>2. Messages(last, view) = ones
    BY <1>4, <2>1
  <2>3. UNION ones = moved
    OBVIOUS
  <2>4. ones \in SUBSET (SUBSET Containers)
    BY <1>2
  <2>5. ASSUME NEW m \in ones, NEW n \in ones PROVE m = n \/ m \cap n = {}
    <3>1. PICK c \in moved : m = {c}
      OBVIOUS
    <3>2. PICK d \in moved : n = {d}
      OBVIOUS
    <3> QED
      BY <3>1, <3>2
  <2> HIDE DEF ones
  <2> QED
    BY <2>2, <2>3, <2>4, <2>5 DEF moved
<1>5. QED
  BY <1>1, <1>3, <1>4

\* Who announces is who holds statusMu.
LEMMA HolderIs ==
    ASSUME TypeOK
    PROVE  /\ mu # None => mu \in Casters /\ cast[mu].pc = "announce"
           /\ \A k \in Casters : cast[k].pc = "announce" => mu = k /\ mu # None
BY NoneAssumption DEF TypeOK

LEMMA InitInv == Init => StatusesInv
<1> SUFFICES ASSUME Init PROVE StatusesInv
  OBVIOUS
<1>1. \A k \in Casters : cast[k] = Idle
  BY DEF Init
<1>2. TypeOK
  BY <1>1, IdleType, HostAssumption DEF Init, TypeOK, Unseen, Opt
<1>3. MessagesInv
  BY <1>1, IdleType DEF MessagesInv
<1>4. ToldInv
  BY DEF Init, ToldInv, Unseen, Announced
<1> QED
  BY <1>2, <1>3, <1>4 DEF StatusesInv

-----------------------------------------------------------------------------
(* The steps that compare nothing.                                         *)

\* The host, the rows and the jobs may change as they like.
LEMMA WorldStep ==
    ASSUME StatusesInv, UNCHANGED <<memory, saved, cast, mu, history>>,
           host' \in [Containers -> HostStates],
           managed' \in SUBSET Containers, updating' \in SUBSET Containers
    PROVE  StatusesInv'
<1> USE DEF memory, history
<1>1. TypeOK'
  BY DEF StatusesInv, TypeOK
<1>2. MessagesInv'
  BY DEF StatusesInv, MessagesInv
<1>3. Announced' = Announced /\ Base' = Base
  BY DEF Announced, Base
<1>4. ToldInv'
  BY <1>3 DEF StatusesInv, ToldInv
<1> QED
  BY <1>1, <1>2, <1>4 DEF StatusesInv

\* A goroutine moves on outside statusMu.
LEMMA OutsideStep ==
    ASSUME StatusesInv, NEW k \in Casters, cast[k].pc # "announce",
           NEW stage \in Stages, stage.pc # "announce", stage.todo = {},
           cast' = [cast EXCEPT ![k] = stage],
           UNCHANGED <<world, memory, saved, mu, history>>
    PROVE  StatusesInv'
<1> USE DEF world, memory, history
<1>1. cast \in [Casters -> Stages] /\ cast' \in [Casters -> Stages]
  BY DEF StatusesInv, TypeOK
<1>2. \A j \in Casters : j # k => cast'[j] = cast[j]
  BY <1>1
<1>3. cast'[k] = stage
  BY <1>1
<1>4. {j \in Casters : cast'[j].pc = "announce"} = {j \in Casters : cast[j].pc = "announce"}
  BY <1>2, <1>3
<1>5. TypeOK'
  BY <1>1, <1>4 DEF StatusesInv, TypeOK
<1>6. MessagesInv'
  BY <1>2, <1>3 DEF StatusesInv, MessagesInv
<1>7. mu # None => mu \in Casters /\ mu # k
  BY HolderIs DEF StatusesInv
<1>8. Announced' = Announced /\ Base' = Base
  BY <1>2, <1>7 DEF Announced, Base
<1>9. ToldInv'
  BY <1>2, <1>7, <1>8 DEF StatusesInv, ToldInv, Announced
<1> QED
  BY <1>5, <1>6, <1>9 DEF StatusesInv

LEMMA ListStep ==
    ASSUME StatusesInv, NEW k \in Casters, List(k)
    PROVE  StatusesInv'
<1> DEFINE stage == [cast[k] EXCEPT !.pc = "managed", !.host = host]
<1>1. cast \in [Casters -> Stages] /\ cast[k] \in Stages /\ host \in [Containers -> HostStates]
  BY DEF StatusesInv, TypeOK
<1>2. stage \in Stages /\ stage.pc # "announce" /\ stage.todo = cast[k].todo
  BY <1>1 DEF Stages
<1>3. cast[k].pc # "announce" /\ cast[k].todo = {}
  BY DEF List, StatusesInv, MessagesInv
<1>4. cast' = [cast EXCEPT ![k] = stage]
  BY <1>1 DEF List
<1> HIDE DEF stage
<1> QED
  BY <1>2, <1>3, <1>4, OutsideStep DEF List

LEMMA ReadManagedStep ==
    ASSUME StatusesInv, NEW k \in Casters, ReadManaged(k)
    PROVE  StatusesInv'
<1> DEFINE stage == [cast[k] EXCEPT !.pc = "updating", !.managed = managed]
<1>1. cast \in [Casters -> Stages] /\ cast[k] \in Stages /\ managed \in SUBSET Containers
  BY DEF StatusesInv, TypeOK
<1>2. stage \in Stages /\ stage.pc # "announce" /\ stage.todo = cast[k].todo
  BY <1>1 DEF Stages
<1>3. cast[k].pc # "announce" /\ cast[k].todo = {}
  BY DEF ReadManaged, StatusesInv, MessagesInv
<1>4. cast' = [cast EXCEPT ![k] = stage]
  BY <1>1 DEF ReadManaged
<1> HIDE DEF stage
<1> QED
  BY <1>2, <1>3, <1>4, OutsideStep DEF ReadManaged

LEMMA ReadUpdatingStep ==
    ASSUME StatusesInv, NEW k \in Casters, ReadUpdating(k)
    PROVE  StatusesInv'
<1> DEFINE view == [c \in Containers |->
               IF c \in cast[k].managed THEN StatusIn(cast[k].host, updating, c) ELSE None]
           stage == [Idle EXCEPT !.pc = "note", !.view = view]
<1>1. cast[k].host \in [Containers -> HostStates]
  BY DEF StatusesInv, TypeOK, Stages
<1>2. view \in [Containers -> Opt(Status)]
  BY <1>1, StatusType DEF Opt
<1>3. stage \in Stages /\ stage.pc # "announce" /\ stage.todo = {}
  <2> HIDE DEF view
  <2> QED
    BY <1>2, IdleType DEF Stages
<1>4. cast' = [cast EXCEPT ![k] = stage] /\ cast[k].pc # "announce"
  BY DEF ReadUpdating
<1> HIDE DEF stage
<1> QED
  BY <1>3, <1>4, OutsideStep DEF ReadUpdating

LEMMA LoadFailsStep ==
    ASSUME StatusesInv, NEW k \in Casters, LoadFails(k)
    PROVE  StatusesInv'
BY IdleType, OutsideStep DEF LoadFails

-----------------------------------------------------------------------------
(* The comparison.                                                         *)

LEMMA LockStep ==
    ASSUME StatusesInv, NEW k \in Casters, Lock(k)
    PROVE  StatusesInv'
<1> DEFINE todo == Messages(Base, cast[k].view)
           stage == [cast[k] EXCEPT !.pc = "announce", !.todo = todo]
<1> USE DEF world, history
<1>1. cast \in [Casters -> Stages] /\ cast[k] \in Stages /\ mu = None
  BY DEF StatusesInv, TypeOK, Lock
<1>2. todo \in SUBSET (SUBSET Containers)
  BY MessagesShape
<1>3. lastStatus' = Base /\ statusBaseline' = TRUE /\ mu' = k
  BY DEF Lock, Enter, Base
<1>4. cast' = [cast EXCEPT ![k] = stage]
  BY <1>1 DEF Lock, Enter, Base
<1>5. stage \in Stages /\ stage.pc = "announce" /\ stage.todo = todo /\ stage.view = cast[k].view
  <2> HIDE DEF todo
  <2> QED
    BY <1>1, <1>2 DEF Stages
<1>6. /\ UNION todo = Transitions(Base, cast[k].view)
      /\ \A m, n \in todo : m = n \/ m \cap n = {}
  BY MessagesShape
<1> HIDE DEF stage, todo
<1>7. cast'[k] = stage /\ \A j \in Casters : j # k => cast'[j] = cast[j]
  BY <1>1, <1>4
<1>8. \A j \in Casters : cast[j].pc # "announce"
  BY <1>1, HolderIs DEF StatusesInv
<1>9. k # None
  BY NoneAssumption
<1>10. TypeOK'
  <2>1. {j \in Casters : cast'[j].pc = "announce"} = {mu'} \ {None}
    BY <1>3, <1>5, <1>7, <1>8, <1>9
  <2>2. cast' \in [Casters -> Stages]
    BY <1>1, <1>4, <1>5
  <2>3. Base \in [Containers -> Opt(Status)]
    BY DEF StatusesInv, TypeOK, Base
  <2> QED
    BY <1>3, <2>1, <2>2, <2>3 DEF StatusesInv, TypeOK, Lock
<1>11. MessagesInv'
  <2>1. \A j \in Casters : j # k => cast'[j].todo = {}
    BY <1>7, <1>8 DEF StatusesInv, MessagesInv
  <2> QED
    BY <1>3, <1>5, <1>6, <1>7, <1>8, <2>1 DEF MessagesInv
<1>12. ToldInv'
  <2>1. Announced' = {} /\ Announced = {}
    BY <1>1, <1>3, <1>5, <1>6, <1>7, <1>9 DEF Announced
  <2>2. Base' = Base
    BY <1>3 DEF Base
  <2> QED
    BY <2>1, <2>2 DEF StatusesInv, ToldInv, Lock
<1> QED
  BY <1>10, <1>11, <1>12 DEF StatusesInv

LEMMA AnnounceStep ==
    ASSUME StatusesInv, NEW k \in Casters, NEW msg \in cast[k].todo, Announce(k, msg)
    PROVE  StatusesInv'
<1> DEFINE stage == [cast[k] EXCEPT !.todo = @ \ {msg}]
<1> USE DEF world, memory
<1>1. cast \in [Casters -> Stages] /\ cast[k] \in Stages
  BY DEF StatusesInv, TypeOK
<1>2. cast' = [cast EXCEPT ![k] = stage]
  BY <1>1 DEF Announce
<1>3. /\ stage \in Stages /\ stage.pc = cast[k].pc /\ stage.view = cast[k].view
      /\ stage.todo = cast[k].todo \ {msg}
  BY <1>1 DEF Stages
<1> HIDE DEF stage
<1>4. cast'[k] = stage /\ \A j \in Casters : j # k => cast'[j] = cast[j]
  BY <1>1, <1>2
<1>5. cast[k].pc = "announce" /\ mu = k /\ mu # None /\ mu' = mu
  BY HolderIs DEF StatusesInv, Announce
<1>6. /\ UNION cast[k].todo \subseteq Transitions(lastStatus, cast[k].view)
      /\ \A m, n \in cast[k].todo : m = n \/ m \cap n = {}
      /\ statusBaseline
  BY <1>5 DEF StatusesInv, MessagesInv
<1>7. msg \subseteq Containers /\ \A c \in msg : cast[k].view[c] \in Plain
  BY <1>6 DEF Transitions
<1>8. TypeOK'
  <2>1. {j \in Casters : cast'[j].pc = "announce"} = {j \in Casters : cast[j].pc = "announce"}
    BY <1>3, <1>4
  <2>2. cast' \in [Casters -> Stages]
    BY <1>1, <1>2, <1>3
  <2>3. told' \in [Containers -> Opt(Plain)]
    BY <1>7 DEF Announce, StatusesInv, TypeOK, Opt
  <2> QED
    BY <1>5, <2>1, <2>2, <2>3 DEF StatusesInv, TypeOK, Announce
<1>9. MessagesInv'
  BY <1>3, <1>4, <1>5, <1>6 DEF StatusesInv, MessagesInv, Announce
<1>10. Announced' = Announced \cup msg
  <2>1. Announced = Transitions(lastStatus, cast[k].view) \ UNION cast[k].todo
    BY <1>5 DEF Announced
  <2>2. Announced' = Transitions(lastStatus, cast[k].view) \ UNION (cast[k].todo \ {msg})
    BY <1>3, <1>4, <1>5 DEF Announced, Announce
  <2>3. UNION (cast[k].todo \ {msg}) = (UNION cast[k].todo) \ msg
    BY <1>6
  <2> QED
    BY <1>6, <2>1, <2>2, <2>3
<1>11. ToldInv'
  <2> SUFFICES ASSUME NEW c \in Containers, c \notin doubt'
               PROVE  IF c \in Announced' THEN told'[c] = cast'[mu'].view[c] ELSE told'[c] \in {None, Base'[c]}
    BY DEF ToldInv
  <2>1. cast'[mu'].view = cast[mu].view /\ Base' = Base
    BY <1>3, <1>4, <1>5 DEF Base, Announce
  <2>2. CASE c \in msg
    BY <1>5, <1>10, <2>1, <2>2 DEF Announce
  <2>3. CASE c \notin msg
    BY <1>5, <1>10, <2>1, <2>3 DEF Announce, StatusesInv, ToldInv
  <2> QED
    BY <2>2, <2>3
<1> QED
  BY <1>8, <1>9, <1>11 DEF StatusesInv

\* The end of a comparison, whether or not the new baseline is saved.
LEMMA LeaveStep ==
    ASSUME StatusesInv, NEW k \in Casters, cast[k].pc = "announce", cast[k].todo = {},
           Leave(k), lastStatus' = cast[k].view, saved' \in [Containers -> Opt(Status)],
           UNCHANGED <<world, statusBaseline>>
    PROVE  StatusesInv'
<1> DEFINE view == cast[k].view
<1> USE DEF world
<1>1. cast \in [Casters -> Stages] /\ view \in [Containers -> Opt(Status)]
  BY DEF StatusesInv, TypeOK, Stages
<1>2. cast' = [cast EXCEPT ![k] = Idle] /\ mu' = None /\ told' = Heard(view)
  BY DEF Leave
<1>3. mu = k /\ mu # None /\ \A j \in Casters : j # k => cast[j].pc # "announce"
  BY HolderIs DEF StatusesInv
<1>4. \A j \in Casters : cast'[j].pc # "announce" /\ cast'[j].todo = {}
  BY <1>1, <1>2, <1>3, IdleType DEF StatusesInv, MessagesInv
<1>5. told \in [Containers -> Opt(Plain)]
  BY DEF StatusesInv, TypeOK
<1>6. TypeOK'
  <2>1. cast' \in [Casters -> Stages]
    BY <1>1, <1>2, IdleType
  <2>2. told' \in [Containers -> Opt(Plain)]
    BY <1>2, <1>5 DEF Heard, Opt
  <2>3. doubt' \in SUBSET Containers
    BY DEF Leave, StatusesInv, TypeOK
  <2>4. {j \in Casters : cast'[j].pc = "announce"} = {mu'} \ {None}
    BY <1>2, <1>4
  <2> QED
    BY <1>1, <2>1, <2>2, <2>3, <2>4 DEF StatusesInv, TypeOK
<1>7. MessagesInv'
  BY <1>4 DEF MessagesInv
<1>8. ToldInv'
  <2>1. Announced' = {} /\ Announced = Transitions(lastStatus, view)
    BY <1>2, <1>3 DEF Announced
  <2>2. statusBaseline /\ Base = lastStatus /\ Base' = view
    BY DEF StatusesInv, MessagesInv, Base
  <2> SUFFICES ASSUME NEW c \in Containers, c \notin doubt'
               PROVE  told'[c] \in {None, view[c]}
    BY <2>1, <2>2 DEF ToldInv
  <2>3. told'[c] = IF view[c] \notin Plain THEN None ELSE IF told[c] = None THEN view[c] ELSE told[c]
    BY <1>2 DEF Heard
  <2>4. CASE view[c] \notin Plain \/ told[c] = None
    BY <2>3, <2>4
  <2>5. CASE view[c] \in Plain /\ told[c] # None
    <3>1. c \notin doubt
      BY <2>3, <2>5 DEF Leave
    <3>2. told[c] \in Plain
      BY <1>5, <2>5 DEF Opt
    <3>3. CASE c \in Announced
      BY <1>3, <2>3, <2>5, <3>1, <3>3 DEF StatusesInv, ToldInv
    <3>4. CASE c \notin Announced
      <4>1. told[c] = lastStatus[c]
        BY <2>2, <2>5, <3>1, <3>4 DEF StatusesInv, ToldInv
      <4>2. lastStatus[c] = view[c]
        BY <2>1, <2>5, <3>2, <3>4, <4>1 DEF Transitions
      <4> QED
        BY <2>3, <2>5, <4>1, <4>2
    <3> QED
      BY <3>3, <3>4
  <2> QED
    BY <2>4, <2>5
<1> QED
  BY <1>6, <1>7, <1>8 DEF StatusesInv

LEMMA FinishStep ==
    ASSUME StatusesInv, NEW k \in Casters, Finish(k) \/ SaveFails(k)
    PROVE  StatusesInv'
<1>1. cast[k].view \in [Containers -> Opt(Status)] /\ saved \in [Containers -> Opt(Status)]
  BY DEF StatusesInv, TypeOK, Stages
<1>2. CASE Finish(k)
  BY <1>1, <1>2, LeaveStep DEF Finish
<1>3. CASE SaveFails(k)
  BY <1>1, <1>3, LeaveStep DEF SaveFails
<1> QED
  BY <1>2, <1>3

\* A crash puts the saved listing in the place of the last one: where the two had
\* told the user different things, the container is in doubt.
LEMMA CrashStep ==
    ASSUME StatusesInv, Crash
    PROVE  StatusesInv'
<1>1. \A j \in Casters : cast'[j] = Idle
  BY DEF Crash
<1>2. TypeOK'
  <2>1. cast' \in [Casters -> Stages]
    BY IdleType DEF Crash
  <2>2. {j \in Casters : cast'[j].pc = "announce"} = {mu'} \ {None}
    BY <1>1, IdleType DEF Crash
  <2>3. host' \in [Containers -> HostStates]
    BY HostAssumption DEF Crash, StatusesInv, TypeOK
  <2>4. lastStatus' \in [Containers -> Opt(Status)]
    BY DEF Crash, Unseen, Opt
  <2> QED
    BY <2>1, <2>2, <2>3, <2>4 DEF Crash, StatusesInv, TypeOK
<1>3. MessagesInv'
  BY <1>1, IdleType DEF MessagesInv
<1>4. ToldInv'
  <2>1. Announced' = {} /\ Base' = saved /\ told' = told
    BY DEF Crash, Announced, Base
  <2> SUFFICES ASSUME NEW c \in Containers, c \notin doubt'
               PROVE  told[c] \in {None, saved[c]}
    BY <2>1 DEF ToldInv
  <2>2. c \notin doubt
    BY DEF Crash
  <2>3. told[c] \in Opt(Plain)
    BY DEF StatusesInv, TypeOK
  <2>4. \/ told[c] \notin Plain \ {saved[c]}
        \/ told[c] # lastStatus[c] /\ (mu = None \/ told[c] # cast[mu].view[c])
    BY DEF Crash
  <2>5. CASE c \in Announced
    BY <2>2, <2>3, <2>4, <2>5 DEF StatusesInv, ToldInv, Announced, Opt
  <2>6. CASE c \notin Announced
    BY <2>2, <2>3, <2>4, <2>6 DEF StatusesInv, ToldInv, Base, Opt
  <2> QED
    BY <2>5, <2>6
<1> QED
  BY <1>2, <1>3, <1>4 DEF StatusesInv

-----------------------------------------------------------------------------
(* The theorems.                                                           *)

LEMMA NextStep == StatusesInv /\ [Next]_vars => StatusesInv'
<1> SUFFICES ASSUME StatusesInv, [Next]_vars PROVE StatusesInv'
  OBVIOUS
<1> USE DEF memory, history
<1>1. CASE UNCHANGED vars
  BY <1>1, WorldStep DEF vars, world, StatusesInv, TypeOK
<1>2. ASSUME NEW k \in Casters, List(k) \/ CasterStep(k) PROVE StatusesInv'
  BY <1>2, ListStep, ReadManagedStep, ReadUpdatingStep, LockStep, LoadFailsStep,
     AnnounceStep, FinishStep DEF CasterStep
<1>3. ASSUME NEW c \in Containers,
             HostChanges(c) \/ AdoptOrForget(c) \/ BeginUpdate(c) \/ EndUpdate(c)
      PROVE  StatusesInv'
  <2>1. host \in [Containers -> HostStates] /\ managed \subseteq Containers /\ updating \subseteq Containers
    BY DEF StatusesInv, TypeOK
  <2>2. CASE HostChanges(c)
    BY <2>1, <2>2, WorldStep DEF HostChanges
  <2>3. CASE AdoptOrForget(c)
    BY <2>1, <2>3, WorldStep DEF AdoptOrForget
  <2>4. CASE BeginUpdate(c)
    BY <2>1, <2>4, WorldStep, HostAssumption DEF BeginUpdate
  <2>5. CASE EndUpdate(c)
    BY <2>1, <2>5, WorldStep DEF EndUpdate
  <2> QED
    BY <1>3, <2>2, <2>3, <2>4, <2>5
<1>4. CASE Crash
  BY <1>4, CrashStep
<1> QED
  BY <1>1, <1>2, <1>3, <1>4 DEF Next

\* What the user was told and the baseline of the next comparison agree in every
\* reachable state (noteStatuses).
THEOREM Invariance == Spec => []StatusesInv
BY InitInv, NextStep, PTL DEF Spec

\* Every variable stays in its set, and exactly the goroutine that announces holds
\* statusMu.
THEOREM TypeCorrect == Spec => []TypeOK
<1>1. StatusesInv => TypeOK
  BY DEF StatusesInv
<1> QED
  BY <1>1, Invariance, PTL

\* No message says what the user was last told, whichever goroutines compared their
\* listings in between, unless a crash forgot it (noteStatuses).
THEOREM NewsOnly == Spec => []NothingRepeated
<1>1. StatusesInv => NothingRepeated
  <2> SUFFICES ASSUME StatusesInv, NEW k \in Casters, NEW msg \in cast[k].todo,
                      NEW c \in msg, c \notin doubt
               PROVE  told[c] # cast[k].view[c]
    BY DEF NothingRepeated
  <2>1. cast[k].pc = "announce" /\ statusBaseline
    BY DEF StatusesInv, MessagesInv
  <2>2. mu = k /\ mu # None
    BY <2>1, HolderIs DEF StatusesInv
  <2>3. c \in Transitions(lastStatus, cast[k].view)
    BY <2>1 DEF StatusesInv, MessagesInv
  <2>4. c \in Containers /\ c \notin Announced
    BY <2>2, <2>3 DEF Transitions, Announced
  <2>5. told[c] \in {None, lastStatus[c]}
    BY <2>1, <2>4 DEF StatusesInv, ToldInv, Base
  <2> QED
    BY <2>3, <2>5, NoneAssumption DEF Transitions, Status
<1> QED
  BY <1>1, Invariance, PTL
=============================================================================

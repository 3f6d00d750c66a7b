-------------------------- MODULE RaidWatchProofs --------------------------
(***************************************************************************)
(* Theorems about RaidWatch.tla, for every number of arrays, rules, delays *)
(* and requests and any length of time.                                    *)
(***************************************************************************)
EXTENDS RaidWatch, TLAPS

-----------------------------------------------------------------------------
(* Operators.                                                              *)

LEMMA LimitNat == Limit \in Nat
BY RaidAssumption DEF Limit

LEMMA NoneNotTime == None \notin Time /\ Time \subseteq Nat
BY RaidAssumption DEF Time

\* snapshot of an array is a baseline.
LEMMA SnapshotType ==
    ASSUME NEW m \in Array PROVE Snapshot(m) \in Baseline
BY DEF Array, Snapshot, Baseline, RollupState, MdStates, Actions

\* recordFailure after at most as many attempts as there are delays.
LEMMA RecordType ==
    ASSUME NEW n \in 0 .. Limit, NEW b \in BOOLEAN, NEW t \in Time
    PROVE  RecordFailure(n, b, t) \in Failure
<1>1. n \in Nat /\ t \in Nat /\ n + 1 \in 1 .. Limit + 1
    BY LimitNat, NoneNotTime
<1>2. ASSUME n + 1 <= Limit PROVE t + RetryDelays[n + 1] \in Nat
    <2>1. n + 1 \in 1 .. Len(RetryDelays)
        BY <1>1, <1>2, LimitNat DEF Limit
    <2>2. RetryDelays[n + 1] \in Nat
        BY <2>1, RaidAssumption
    <2> QED BY <1>1, <2>2
<1>3. (IF b /\ n + 1 <= Limit THEN t + RetryDelays[n + 1] ELSE 0) \in Nat
    BY <1>2
<1> QED BY <1>1, <1>3 DEF RecordFailure, Failure

-----------------------------------------------------------------------------
(* Type correctness.                                                       *)

\* The sweep's record keeps its type when fields are replaced by values of theirs.
LEMMA ScanType ==
    ASSUME NEW t \in Time, NEW f \in [Arrays -> Opt(Array)]
    PROVE  [Resting EXCEPT !.pc = "announce", !.at = t, !.seen = f] \in SweepType
BY RaidAssumption DEF Resting, SweepType, SweepLabels, Opt, Time

LEMMA RestingType == Resting \in SweepType
BY RaidAssumption DEF Resting, SweepType, SweepLabels, Opt, Time

LEMMA DoneType ==
    ASSUME sweep \in SweepType, NEW a \in Arrays, NEW r \in Opt(Time), NEW f \in Opt(Failure), Done(a, r, f)
    PROVE  sweep' \in SweepType
<1>1. [sweep.run EXCEPT ![a] = r] \in [Arrays -> Opt(Time)]
    BY DEF SweepType
<1>2. [sweep.fail EXCEPT ![a] = f] \in [Arrays -> Opt(Failure)]
    BY DEF SweepType
<1>3. sweep.todo \ {a} \in SUBSET Arrays
    BY DEF SweepType
<1>4. sweep' = [sweep EXCEPT !.todo = sweep.todo \ {a}, !.run = [sweep.run EXCEPT ![a] = r],
                             !.fail = [sweep.fail EXCEPT ![a] = f]]
    BY DEF Done, SweepType
<1> QED BY <1>1, <1>2, <1>3, <1>4 DEF SweepType

LEMMA GotoType ==
    ASSUME sweep \in SweepType, NEW l \in SweepLabels, SweepGoto(l)
    PROVE  sweep' \in SweepType
BY DEF SweepType, SweepGoto

\* What is left of a failure after Moot, and what RecordFailure makes of it.
LEMMA LeftType ==
    ASSUME sweep \in SweepType, NEW a \in Arrays
    PROVE  Left(a) \in Opt(Failure)
BY DEF SweepType, Left, Opt

LEMMA CountType ==
    ASSUME sweep \in SweepType, NEW a \in Arrays
    PROVE  (IF Retrying(a) THEN Left(a).attempts ELSE 0) \in 0 .. Limit
<1>1. CASE Retrying(a)
    <2>1. Left(a) \in Failure /\ Left(a).next > 0
        BY <1>1, LeftType DEF Retrying, Opt
    <2> QED BY <1>1, <2>1, LimitNat DEF Failure
<1>2. CASE ~Retrying(a)
    BY <1>2, LimitNat
<1> QED BY <1>1, <1>2

LEMMA EventType ==
    ASSUME NEW a \in Arrays PROVE NewEvents(a) \subseteq EventNames
BY DEF NewEvents, Events, EventNames

LEMMA FailureEventType ==
    ASSUME NEW f PROVE FailureEvents(f) \subseteq EventNames
BY DEF FailureEvents, EventNames

LEMMA TypeInit == Init => TypeOK
<1> SUFFICES ASSUME Init PROVE TypeOK
    OBVIOUS
<1>1. now \in Time /\ md \in [Arrays -> Array]
    BY RaidAssumption DEF Init, Time, Array, Actions
<1>2. lastRun \in [Arrays -> Opt(Time)] /\ savedAt \in [Arrays -> Time]
    BY RaidAssumption DEF Init, Time, Opt
<1>3. sweep \in SweepType
    BY RestingType DEF Init
<1>4. fired \in [Arrays -> [Times -> 0 .. 2]] /\ tries \in [Arrays -> 0 .. Limit + 1]
    BY LimitNat DEF Init
<1>5. budget \in [edits : 0 .. MaxEdits, crashes : 0 .. MaxCrashes]
    BY RaidAssumption DEF Init
<1>6. man \in [Requests -> [pc : {"idle", "start", "record", "done"}, array : Opt(Arrays),
                            failed : BOOLEAN]]
      /\ \A r \in Requests : man[r].pc \notin {"start", "record"}
    BY DEF Init, Opt
<1> QED BY <1>1, <1>2, <1>3, <1>4, <1>5, <1>6 DEF Init, TypeOK, Opt

\* The sweep up to the lock.
LEMMA TypeScan == TypeOK /\ (Scan \/ Announce \/ SaveBaseline \/ SaveLastScan) => TypeOK'
<1> SUFFICES ASSUME TypeOK, Scan \/ Announce \/ SaveBaseline \/ SaveLastScan PROVE TypeOK'
    OBVIOUS
<1>1. CASE Scan
    <2>1. [a \in Arrays |-> IF md[a].listed THEN md[a] ELSE None] \in [Arrays -> Opt(Array)]
        BY DEF TypeOK, Opt
    <2>2. sweep' \in SweepType
        BY <1>1, <2>1, ScanType DEF Scan, TypeOK
    <2> QED BY <1>1, <2>2 DEF Scan, TypeOK, kernelVars, storeVars
<1>2. CASE Announce
    <2>1. sweep' \in SweepType
        <3> DEFINE F == {a \in Arrays : "finished" \in NewEvents(a)}
        <3>1. F \in SUBSET Arrays
            OBVIOUS
        <3> HIDE DEF F
        <3>2. sweep' = [sweep EXCEPT !.pc = "savebaseline", !.finished = F]
            BY <1>2 DEF Announce, F
        <3> QED BY <3>1, <3>2 DEF TypeOK, SweepType, SweepLabels
    <2>2. UNION {{a} \X NewEvents(a) : a \in Arrays} \subseteq Arrays \X EventNames
        BY EventType
    <2>3. sent' \subseteq Arrays \X EventNames
        BY <1>2, <2>2 DEF Announce, TypeOK
    <2> QED BY <1>2, <2>1, <2>3 DEF Announce, TypeOK, kernelVars, storeVars
<1>3. CASE SaveBaseline
    <2>1. sweep' \in SweepType
        BY <1>3, GotoType DEF SaveBaseline, TypeOK, SweepLabels
    <2>2. \A a \in Arrays : sweep.seen[a] # None => Snapshot(sweep.seen[a]) \in Baseline
        BY SnapshotType DEF TypeOK, SweepType, Opt
    <2>3. baseline' \in [Arrays -> Opt(Baseline)]
        BY <1>3, <2>2 DEF SaveBaseline, Opt
    <2> QED BY <1>3, <2>1, <2>3 DEF SaveBaseline, TypeOK, kernelVars, histVars
<1>4. CASE SaveLastScan
    <2>1. sweep' \in SweepType
        BY <1>4, GotoType DEF SaveLastScan, TypeOK, SweepLabels
    <2>2. sweep.at \in Time
        BY DEF TypeOK, SweepType
    <2>3. lastScan' \in [Arrays -> Opt(Time)]
        BY <1>4, <2>2 DEF SaveLastScan, TypeOK, Opt
    <2> QED BY <1>4, <2>1, <2>3 DEF SaveLastScan, TypeOK, kernelVars, histVars
<1> QED BY <1>1, <1>2, <1>3, <1>4

\* A start changes an array's action only.
LEMMA StartType ==
    ASSUME md \in [Arrays -> Array], NEW a \in Arrays, StartOk(a) \/ StartRefused(a)
    PROVE  md' \in [Arrays -> Array]
BY DEF StartOk, StartRefused, Array, Actions

\* The loop over the arrays, and the saves at its end.
LEMMA TypeRun ==
    ASSUME TypeOK, NEW a \in Arrays, Pass(a) \/ Fire(a) \/ Miss(a)
    PROVE  TypeOK'
<1>1. sweep \in SweepType /\ sweep.at \in Time /\ sweep.run[a] \in Opt(Time)
    BY DEF TypeOK, SweepType
<1>2. CASE Pass(a)
    <2>1. (IF sweep.cfg[a] # None /\ sweep.run[a] = None THEN sweep.at ELSE sweep.run[a]) \in Opt(Time)
        BY <1>1 DEF Opt
    <2>2. sweep' \in SweepType
        BY <1>1, <1>2, <2>1, LeftType, DoneType DEF Pass
    <2>3. tries' \in [Arrays -> 0 .. Limit + 1]
        BY <1>2, LimitNat DEF Pass, Cleared, TypeOK
    <2> QED BY <1>2, <2>2, <2>3 DEF Pass, TypeOK, runFrame, storeVars
<1>3. CASE Fire(a)
    <2>1. sweep' \in SweepType
        BY <1>1, <1>3, DoneType DEF Fire, Opt
    <2>2. md' \in [Arrays -> Array]
        BY <1>3, StartType DEF Fire, TypeOK
    <2>3. tries' \in [Arrays -> 0 .. Limit + 1]
        BY <1>3, LimitNat DEF Fire, TypeOK
    <2>4. fired' \in [Arrays -> [Times -> 0 .. 2]]
        <3> DEFINE g == [o \in Times |->
                IF o \in Window(sweep.cfg[a], sweep.run[a], sweep.at) /\ fired[a][o] < 2
                THEN fired[a][o] + 1 ELSE fired[a][o]]
        <3>1. g \in [Times -> 0 .. 2]
            BY DEF TypeOK
        <3>2. fired' = [fired EXCEPT ![a] = g]
            BY <1>3 DEF Fire
        <3> QED BY <3>1, <3>2 DEF TypeOK
    <2> QED BY <1>3, <2>1, <2>2, <2>3, <2>4 DEF Fire, TypeOK, runFrame, storeVars
<1>4. CASE Miss(a)
    <2> DEFINE n == IF Retrying(a) THEN Left(a).attempts ELSE 0
    <2> DEFINE f == RecordFailure(n, TRUE, sweep.at)
    <2>1. f \in Failure
        BY <1>1, CountType, RecordType
    <2>2. (IF f.next = 0 THEN sweep.at ELSE sweep.run[a]) \in Opt(Time)
        BY <1>1 DEF Opt
    <2>3. Done(a, IF f.next = 0 THEN sweep.at ELSE sweep.run[a], f)
        BY <1>4 DEF Miss
    <2>4. sent' = sent \cup ({a} \X FailureEvents(f))
        BY <1>4 DEF Miss
    <2>5. tries' = [tries EXCEPT ![a] = IF f.next = 0 THEN 0 ELSE IF @ <= Limit THEN @ + 1 ELSE @]
        BY <1>4 DEF Miss
    <2> HIDE DEF f
    <2>6. sweep' \in SweepType
        BY <1>1, <2>1, <2>2, <2>3, DoneType DEF Opt
    <2>7. sent' \subseteq Arrays \X EventNames
        BY <2>4, FailureEventType DEF TypeOK
    <2>8. tries' \in [Arrays -> 0 .. Limit + 1]
        BY <2>5, LimitNat DEF TypeOK
    <2>9. md' \in [Arrays -> Array]
        BY <1>4, StartType DEF Miss, TypeOK
    <2> QED BY <1>4, <2>6, <2>7, <2>8, <2>9 DEF Miss, TypeOK, runFrame, storeVars
<1> QED BY <1>2, <1>3, <1>4

LEMMA TypeSaves == TypeOK /\ (LoadSchedules \/ SaveLastRun \/ SaveFailures) => TypeOK'
<1> SUFFICES ASSUME TypeOK, LoadSchedules \/ SaveLastRun \/ SaveFailures PROVE TypeOK'
    OBVIOUS
<1>1. CASE LoadSchedules
    <2> DEFINE T == {a \in Arrays : sweep.seen[a] # None}
    <2>1. T \in SUBSET Arrays
        OBVIOUS
    <2>2. sweep' = [sweep EXCEPT !.pc = "run", !.cfg = schedules, !.run = lastRun,
                                 !.fail = failures, !.todo = T]
        BY <1>1 DEF LoadSchedules
    <2> HIDE DEF T
    <2>3. sweep' \in SweepType
        BY <2>1, <2>2 DEF TypeOK, SweepType, SweepLabels
    <2> QED BY <1>1, <2>3 DEF LoadSchedules, TypeOK, kernelVars, storeVars, histVars
<1>2. CASE SaveLastRun
    <2>1. sweep' \in SweepType
        BY <1>2, GotoType DEF SaveLastRun, TypeOK, SweepLabels
    <2>2. lastRun' \in [Arrays -> Opt(Time)]
        BY <1>2 DEF SaveLastRun, TypeOK, SweepType
    <2> QED BY <1>2, <2>1, <2>2 DEF SaveLastRun, TypeOK, kernelVars, histVars
<1>3. CASE SaveFailures
    <2>1. sweep' \in SweepType
        BY <1>3, GotoType DEF SaveFailures, TypeOK, SweepLabels
    <2>2. failures' \in [Arrays -> Opt(Failure)]
        BY <1>3 DEF SaveFailures, TypeOK, SweepType
    <2> QED BY <1>3, <2>1, <2>2 DEF SaveFailures, TypeOK, kernelVars, histVars
<1> QED BY <1>1, <1>2, <1>3

\* The local state of a start by an admin, and the type of all of them.
Request == [pc : {"idle", "start", "record", "done"}, array : Opt(Arrays), failed : BOOLEAN]
Located(m) == m.pc \in {"start", "record"} => m.array \in Arrays
ManType == man \in [Requests -> Request] /\ \A r \in Requests : Located(man[r])

LEMMA ManMoves ==
    ASSUME ManType, NEW r \in Requests, NEW m \in Request, Located(m),
           man' = [man EXCEPT ![r] = m]
    PROVE  ManType'
BY DEF ManType, Located

LEMMA ManTypeOK == TypeOK => ManType
BY DEF TypeOK, ManType, Located, Request

\* Starts by an admin.
LEMMA TypeManual ==
    ASSUME TypeOK, NEW r \in Requests,
           ManualStep(r) \/ \E a \in Arrays : Ask(r, a)
    PROVE  TypeOK'
<1>1. CASE \E a \in Arrays : Ask(r, a)
    <2>1. PICK a \in Arrays : Ask(r, a)
        BY <1>1
    <2> DEFINE m == [man[r] EXCEPT !.pc = "start", !.array = a]
    <2>2. m \in Request /\ Located(m)
        BY ManTypeOK DEF ManType, Request, Located, Opt
    <2>3. man' = [man EXCEPT ![r] = m]
        BY <2>1, ManTypeOK DEF Ask, ManType, Request
    <2> HIDE DEF m
    <2>4. ManType'
        BY <2>2, <2>3, ManTypeOK, ManMoves
    <2> QED BY <2>1, <2>4 DEF Ask, TypeOK, ManType, Located, Request, kernelVars, storeVars, histVars
<1>2. CASE ManualStart(r)
    <2>1. man[r].array \in Arrays
        BY <1>2 DEF ManualStart, TypeOK
    <2>2. md' \in [Arrays -> Array]
        BY <1>2, <2>1, StartType DEF ManualStart, TypeOK
    <2>3. PICK b \in BOOLEAN : man' = [man EXCEPT ![r].pc = "record", ![r].failed = b]
        BY <1>2 DEF ManualStart
    <2> DEFINE m == [man[r] EXCEPT !.pc = "record", !.failed = b]
    <2>4. m \in Request /\ Located(m)
        BY <2>1, <2>3, ManTypeOK DEF ManType, Request, Located
    <2>5. man' = [man EXCEPT ![r] = m]
        BY <2>3, ManTypeOK DEF ManType, Request
    <2> HIDE DEF m
    <2>6. ManType'
        BY <2>4, <2>5, ManTypeOK, ManMoves
    <2> QED BY <1>2, <2>2, <2>6 DEF ManualStart, TypeOK, ManType, Located, Request, storeVars, histVars
<1>3. CASE ManualRecord(r)
    <2> DEFINE a == man[r].array
    <2> DEFINE f == RecordFailure(0, FALSE, now)
    <2>1. a \in Arrays
        BY <1>3 DEF ManualRecord, TypeOK
    <2>2. f \in Failure
        <3>1. 0 \in 0 .. Limit /\ now \in Time
            BY LimitNat DEF TypeOK
        <3> QED BY <3>1, RecordType
    <2>3. \/ /\ failures' = [failures EXCEPT ![a] = f]
             /\ sent' = sent \cup ({a} \X FailureEvents(f))
          \/ /\ failures' = [failures EXCEPT ![a] = None]
             /\ sent' = sent
        BY <1>3 DEF ManualRecord
    <2> HIDE DEF a, f
    <2>4. failures' \in [Arrays -> Opt(Failure)]
        BY <2>1, <2>2, <2>3 DEF TypeOK, Opt
    <2>5. sent' \subseteq Arrays \X EventNames
        BY <2>1, <2>3, FailureEventType DEF TypeOK
    <2>6. tries' \in [Arrays -> 0 .. Limit + 1]
        <3>1. 0 \in 0 .. Limit + 1 /\ tries \in [Arrays -> 0 .. Limit + 1]
            BY LimitNat DEF TypeOK
        <3>2. tries' = [tries EXCEPT ![a] = 0]
            BY <1>3 DEF ManualRecord, a
        <3> QED BY <2>1, <3>1, <3>2
    <2> DEFINE m == [man[r] EXCEPT !.pc = "done"]
    <2>7. m \in Request /\ Located(m)
        BY ManTypeOK DEF ManType, Request, Located
    <2>8. man' = [man EXCEPT ![r] = m]
        BY <1>3, ManTypeOK DEF ManualRecord, ManType, Request
    <2> HIDE DEF m
    <2>9. ManType'
        BY <2>7, <2>8, ManTypeOK, ManMoves
    <2> QED BY <1>3, <2>4, <2>5, <2>6, <2>9 DEF ManualRecord, TypeOK, ManType, Located, Request, kernelVars
<1> QED BY <1>1, <1>2, <1>3 DEF ManualStep

\* What happens to arrays, schedules, the clock and the process.
LEMMA TypeKernel ==
    ASSUME TypeOK, NEW a \in Arrays, KernelEvent(a) \/ SyncEnds(a) \/ Vanish(a)
    PROVE  TypeOK'
<1>1. md[a] \in Array /\ md \in [Arrays -> Array]
    BY DEF TypeOK
<1>2. PICK m \in Array : md' = [md EXCEPT ![a] = m]
    <2> DEFINE b == md[a]
    <2>3. CASE KernelEvent(a)
        <3>1. \/ md' = [md EXCEPT ![a] = [b EXCEPT !.up = ~b.up]]
              \/ md' = [md EXCEPT ![a] = [b EXCEPT !.active = ~b.active, !.action = "idle"]]
              \/ md' = [md EXCEPT ![a] = [b EXCEPT !.action = "check"]]
              \/ md' = [md EXCEPT ![a] = [b EXCEPT !.action = "recover"]]
            BY <1>1, <2>3 DEF KernelEvent
        <3>2. [b EXCEPT !.up = ~b.up] \in Array
            BY <1>1 DEF Array
        <3>3. [b EXCEPT !.active = ~b.active, !.action = "idle"] \in Array
            BY <1>1 DEF Array, Actions
        <3>4. [b EXCEPT !.action = "check"] \in Array /\ [b EXCEPT !.action = "recover"] \in Array
            BY <1>1 DEF Array, Actions
        <3> QED BY <3>1, <3>2, <3>3, <3>4
    <2>4. CASE SyncEnds(a)
        <3>1. PICK up \in BOOLEAN : md' = [md EXCEPT ![a] = [b EXCEPT !.action = "idle", !.up = up]]
            BY <1>1, <2>4 DEF SyncEnds
        <3>2. [b EXCEPT !.action = "idle", !.up = up] \in Array
            BY <1>1, <3>1 DEF Array, Actions
        <3> QED BY <3>1, <3>2
    <2>5. CASE Vanish(a)
        <3>1. md' = [md EXCEPT ![a] = [b EXCEPT !.listed = ~b.listed, !.action = "idle"]]
            BY <1>1, <2>5 DEF Vanish
        <3>2. [b EXCEPT !.listed = ~b.listed, !.action = "idle"] \in Array
            BY <1>1 DEF Array, Actions
        <3> QED BY <3>1, <3>2
    <2> QED BY <2>3, <2>4, <2>5
<1>3. md' \in [Arrays -> Array]
    BY <1>1, <1>2
<1> QED BY <1>3 DEF KernelEvent, SyncEnds, Vanish, TypeOK, storeVars, histVars

LEMMA TypeWorld ==
    ASSUME TypeOK,
           Tick \/ Crash \/ \E a \in Arrays, rule \in Opt(Rules) : SetSchedule(a, rule)
    PROVE  TypeOK'
<1>1. CASE Tick
    <2>1. now' \in Time
        BY <1>1, RaidAssumption DEF Tick, TypeOK, Time
    <2> QED BY <1>1, <2>1 DEF Tick, TypeOK, storeVars, histVars
<1>2. CASE Crash
    <2>1. sweep' \in SweepType
        BY <1>2, RestingType DEF Crash
    <2>2. budget' \in [edits : 0 .. MaxEdits, crashes : 0 .. MaxCrashes]
        <3>1. budget.crashes - 1 \in 0 .. MaxCrashes
            BY <1>2, RaidAssumption DEF Crash, TypeOK
        <3>2. budget' = [budget EXCEPT !.crashes = budget.crashes - 1]
            BY <1>2 DEF Crash
        <3> QED BY <3>1, <3>2 DEF TypeOK
    <2>3. ManType'
        <3> DEFINE g(m) == [m EXCEPT !.pc = IF m.pc = "idle" THEN m.pc ELSE "done"]
        <3>1. \A m \in Request : g(m) \in Request /\ Located(g(m))
            BY DEF Request, Located
        <3>2. man' = [r \in Requests |-> g(man[r])]
            BY <1>2 DEF Crash
        <3> HIDE DEF g
        <3> QED BY <3>1, <3>2, ManTypeOK DEF ManType
    <2>4. tries' \in [Arrays -> 0 .. Limit + 1]
        BY <1>2, LimitNat DEF Crash
    <2> QED BY <1>2, <2>1, <2>2, <2>3, <2>4
            DEF Crash, TypeOK, ManType, Located, Request, kernelVars, storeVars
<1>3. CASE \E a \in Arrays, rule \in Opt(Rules) : SetSchedule(a, rule)
    <2>1. PICK a \in Arrays, rule \in Opt(Rules) : SetSchedule(a, rule)
        BY <1>3
    <2>2. budget' \in [edits : 0 .. MaxEdits, crashes : 0 .. MaxCrashes]
        <3>1. budget.edits - 1 \in 0 .. MaxEdits
            BY <2>1, RaidAssumption DEF SetSchedule, TypeOK
        <3>2. budget' = [budget EXCEPT !.edits = budget.edits - 1]
            BY <2>1 DEF SetSchedule
        <3> QED BY <3>1, <3>2 DEF TypeOK
    <2>3. schedules' \in [Arrays -> Opt(Rules)] /\ savedAt' \in [Arrays -> Time]
        BY <2>1 DEF SetSchedule, TypeOK
    <2> QED BY <2>1, <2>2, <2>3 DEF SetSchedule, TypeOK, kernelVars
<1> QED BY <1>1, <1>2, <1>3

LEMMA TypeStep == TypeOK /\ [Next]_vars => TypeOK'
<1> SUFFICES ASSUME TypeOK, [Next]_vars PROVE TypeOK'
    OBVIOUS
<1>1. CASE SweepStep
    BY <1>1, TypeScan, TypeRun, TypeSaves DEF SweepStep
<1>2. CASE \E r \in Requests : ManualStep(r) \/ \E a \in Arrays : Ask(r, a)
    BY <1>2, TypeManual
<1>3. CASE \E a \in Arrays : KernelEvent(a) \/ SyncEnds(a) \/ Vanish(a)
    BY <1>3, TypeKernel
<1>4. CASE Tick \/ Crash \/ \E a \in Arrays, rule \in Opt(Rules) : SetSchedule(a, rule)
    BY <1>4, TypeWorld
<1>5. CASE UNCHANGED vars
    BY <1>5 DEF vars, TypeOK
<1> QED BY <1>1, <1>2, <1>3, <1>4, <1>5 DEF Next

\* Every variable keeps its type, and no failure counts more attempts than
\* retryDelays allows (recordFailure), whatever fails and however often Veery crashes.
THEOREM TypeCorrect == Spec => []TypeOK
BY TypeInit, TypeStep, PTL DEF Spec

-----------------------------------------------------------------------------
(* What each kind of step does to the sweep's locals, field by field.      *)

\* The fields of the sweep that the program counter's moves leave alone.
Steady ==
    /\ sweep'.at = sweep.at /\ sweep'.seen = sweep.seen /\ sweep'.todo = sweep.todo
    /\ sweep'.run = sweep.run /\ sweep'.fail = sweep.fail

LEMMA GotoFields ==
    ASSUME sweep \in SweepType, NEW l, SweepGoto(l)
    PROVE  sweep'.pc = l /\ Steady
BY DEF SweepType, SweepGoto, Steady

LEMMA DoneFields ==
    ASSUME sweep \in SweepType, NEW a \in Arrays, NEW r, NEW f, Done(a, r, f)
    PROVE  /\ sweep'.pc = sweep.pc /\ sweep'.at = sweep.at /\ sweep'.seen = sweep.seen
           /\ sweep'.todo = sweep.todo \ {a}
           /\ \A b \in Arrays : sweep'.run[b] = IF b = a THEN r ELSE sweep.run[b]
           /\ \A b \in Arrays : sweep'.fail[b] = IF b = a THEN f ELSE sweep.fail[b]
BY DEF SweepType, Done

LEMMA LoadFields ==
    ASSUME sweep \in SweepType, LoadSchedules
    PROVE  /\ sweep'.pc = "run" /\ sweep'.at = sweep.at /\ sweep'.seen = sweep.seen
           /\ sweep'.todo = {a \in Arrays : sweep.seen[a] # None}
           /\ sweep'.run = lastRun /\ sweep'.fail = failures
BY DEF SweepType, LoadSchedules

LEMMA ScanFields ==
    ASSUME Scan
    PROVE  sweep'.pc = "announce" /\ sweep'.at = now /\ sweep'.todo = {}
BY DEF Scan, Resting

LEMMA RestingFields == Resting.pc = "idle" /\ Resting.at = 0 /\ Resting.todo = {}
BY DEF Resting

\* The labels before the lock.
Early == {"idle", "announce", "savebaseline", "savelastscan", "lock"}

LEMMA AnnounceFields ==
    ASSUME sweep \in SweepType, Announce
    PROVE  sweep'.pc = "savebaseline" /\ Steady
BY DEF SweepType, Announce, Steady

\* The steps of the sweep before the lock but for the scan.
LEMMA EarlyFields ==
    ASSUME sweep \in SweepType, Announce \/ SaveBaseline \/ SaveLastScan
    PROVE  /\ sweep.pc \in Early \ {"idle"} /\ sweep'.pc \in Early \ {"idle"} /\ Steady
           /\ UNCHANGED <<now, lastRun, failures, mu, fired>>
<1>1. CASE Announce
    BY <1>1, AnnounceFields DEF Announce, SweepAt, Early, kernelVars, storeVars
<1>2. CASE SaveBaseline
    BY <1>2, GotoFields DEF SaveBaseline, SweepAt, Early, kernelVars, histVars
<1>3. CASE SaveLastScan
    BY <1>3, GotoFields DEF SaveLastScan, SweepAt, Early, kernelVars, histVars
<1> QED BY <1>1, <1>2, <1>3

\* The arrays are dealt with one by one: array a gets last run r and failure f.
LEMMA RunFields ==
    ASSUME TypeOK, NEW a \in Arrays, Pass(a) \/ Fire(a) \/ Miss(a)
    PROVE  /\ sweep.pc = "run" /\ a \in sweep.todo
           /\ UNCHANGED <<now, lastRun, failures, mu>>
           /\ \E r, f : Done(a, r, f)
BY DEF Pass, Fire, Miss, SweepAt, runFrame, storeVars

\* Steps that touch nothing of the schedules' state.
Quiet == UNCHANGED <<now, lastRun, failures, mu, sweep, fired>>

LEMMA QuietSteps ==
    /\ \A r \in Requests : ManualStart(r) \/ (\E a \in Arrays : Ask(r, a)) => Quiet
    /\ \A a \in Arrays : KernelEvent(a) \/ SyncEnds(a) \/ Vanish(a) => Quiet
    /\ (\E a \in Arrays, rule \in Opt(Rules) : SetSchedule(a, rule)) => Quiet
    /\ UNCHANGED vars => Quiet
<1>1. \A r \in Requests : ManualStart(r) \/ (\E a \in Arrays : Ask(r, a)) => Quiet
    BY DEF ManualStart, Ask, Quiet, kernelVars, storeVars, histVars
<1>2. \A a \in Arrays : KernelEvent(a) \/ SyncEnds(a) \/ Vanish(a) => Quiet
    BY DEF KernelEvent, SyncEnds, Vanish, Quiet, storeVars, histVars
<1>3. (\E a \in Arrays, rule \in Opt(Rules) : SetSchedule(a, rule)) => Quiet
    BY DEF SetSchedule, Quiet, kernelVars
<1>4. UNCHANGED vars => Quiet
    BY DEF vars, Quiet
<1> QED BY <1>1, <1>2, <1>3, <1>4

-----------------------------------------------------------------------------
(* The poller and the admin's starts share the failures safely.            *)

Serial == LockInv /\ TodoInv /\ SweepCurrent

LEMMA SerialInit == Init => Serial
BY RestingFields, PollerAssumption DEF Init, Serial, LockInv, TodoInv, SweepCurrent

LEMMA SerialSweep ==
    ASSUME TypeOK, Serial, SweepStep PROVE Serial'
<1> USE PollerAssumption
<1>0. sweep \in SweepType
    BY DEF TypeOK
<1>1. CASE Scan
    <2>1. sweep.pc = "idle" /\ mu' = mu
        BY <1>1 DEF Scan, SweepAt
    <2> QED BY <1>1, <2>1, ScanFields DEF Serial, LockInv, TodoInv, SweepCurrent
<1>2. CASE Announce \/ SaveBaseline \/ SaveLastScan
    BY <1>0, <1>2, EarlyFields DEF Serial, LockInv, TodoInv, SweepCurrent, Early, Steady
<1>3. CASE LoadSchedules
    <2>1. mu' = Poller /\ failures' = failures
        BY <1>3 DEF LoadSchedules, storeVars
    <2> QED BY <1>0, <1>3, <2>1, LoadFields DEF Serial, LockInv, TodoInv, SweepCurrent
<1>4. CASE \E a \in Arrays : Pass(a) \/ Fire(a) \/ Miss(a)
    <2>1. PICK a \in Arrays : Pass(a) \/ Fire(a) \/ Miss(a)
        BY <1>4
    <2>2. sweep.pc = "run" /\ a \in sweep.todo /\ UNCHANGED <<failures, mu>>
        BY <2>1, RunFields
    <2>3. PICK r, f : Done(a, r, f)
        BY <2>1, RunFields
    <2>4. /\ sweep'.pc = sweep.pc /\ sweep'.seen = sweep.seen /\ sweep'.todo = sweep.todo \ {a}
          /\ \A b \in Arrays : sweep'.fail[b] = IF b = a THEN f ELSE sweep.fail[b]
        BY <1>0, <2>3, DoneFields
    <2> QED BY <2>2, <2>4 DEF Serial, LockInv, TodoInv, SweepCurrent
<1>5. CASE SaveLastRun
    <2>1. sweep.pc = "run" /\ sweep'.pc = "savefailures" /\ Steady /\ UNCHANGED <<failures, mu>>
        BY <1>0, <1>5, GotoFields DEF SaveLastRun, SweepAt
    <2> QED BY <2>1 DEF Serial, LockInv, TodoInv, SweepCurrent, Steady
<1>6. CASE SaveFailures
    <2>1. sweep'.pc = "idle" /\ Steady /\ mu' = None
        BY <1>0, <1>6, GotoFields DEF SaveFailures
    <2> QED BY <2>1 DEF Serial, LockInv, TodoInv, SweepCurrent, Steady
<1> QED BY <1>1, <1>2, <1>3, <1>4, <1>5, <1>6 DEF SweepStep

LEMMA SerialStep ==
    ASSUME TypeOK, Serial, [Next]_vars PROVE Serial'
<1>1. CASE SweepStep
    BY <1>1, SerialSweep
<1>2. CASE Quiet
    BY <1>2 DEF Quiet, Serial, LockInv, TodoInv, SweepCurrent
<1>3. CASE \E r \in Requests : ManualRecord(r)
    <2>1. mu = None /\ mu' = mu /\ sweep' = sweep
        BY <1>3 DEF ManualRecord
    <2>2. sweep.pc \notin {"run", "savefailures"}
        BY <2>1, PollerAssumption DEF Serial, LockInv
    <2> QED BY <2>1, <2>2 DEF Serial, LockInv, TodoInv, SweepCurrent
<1>4. CASE Tick
    BY <1>4 DEF Tick, storeVars, Serial, LockInv, TodoInv, SweepCurrent
<1>5. CASE Crash
    BY <1>5, RestingFields, PollerAssumption DEF Crash, Serial, LockInv, TodoInv, SweepCurrent
<1> QED BY <1>1, <1>2, <1>3, <1>4, <1>5, QuietSteps DEF Next, ManualStep

\* What the poller is about to save is not stale: mu serialises it with the
\* starts by an admin (Watcher.mu), however often Veery crashes.
THEOREM Serialised == Spec => []SweepCurrent
<1>1. Init => TypeOK /\ Serial
    BY TypeInit, SerialInit
<1>2. TypeOK /\ Serial /\ [Next]_vars => (TypeOK /\ Serial)'
    BY TypeStep, SerialStep
<1>3. TypeOK /\ Serial => SweepCurrent
    BY DEF Serial
<1> QED BY <1>1, <1>2, <1>3, PTL DEF Spec

-----------------------------------------------------------------------------
(* Without crashes a schedule fires once per occurrence, and a retry that  *)
(* is stored belongs to an occurrence that is neither served nor given up. *)

Calm == MaxCrashes = 0

LEMMA TimesNat == Times \subseteq Nat
BY RaidAssumption DEF Times

\* The times that are compared.
LEMMA TimeTypes ==
    ASSUME TypeOK
    PROVE  /\ now \in Nat /\ sweep.at \in Nat
           /\ \A a \in Arrays : lastRun[a] # None => lastRun[a] \in Nat
           /\ \A a \in Arrays : sweep.run[a] # None => sweep.run[a] \in Nat
BY NoneNotTime DEF TypeOK, SweepType, Opt

\* Array a gets last run r, which is the one it had or the sweep's time.
LEMMA RunTimes ==
    ASSUME TypeOK, NEW a \in Arrays, Pass(a) \/ Fire(a) \/ Miss(a)
    PROVE  \E r, f : Done(a, r, f) /\ (r = sweep.run[a] \/ r = sweep.at)
BY DEF Pass, Fire, Miss

LEMMA ClockStep ==
    ASSUME Calm, TypeOK, Serial, ClockInv, [Next]_vars PROVE ClockInv'
<1>0. sweep \in SweepType
    BY DEF TypeOK
<1>1. CASE Scan
    <2>1. UNCHANGED <<now, lastRun>>
        BY <1>1 DEF Scan, kernelVars, storeVars
    <2> QED BY <1>1, <2>1, ScanFields, TimeTypes DEF ClockInv
<1>2. CASE Announce \/ SaveBaseline \/ SaveLastScan
    BY <1>0, <1>2, EarlyFields DEF ClockInv, Early, Steady
<1>3. CASE LoadSchedules
    <2>1. sweep.pc = "lock" /\ UNCHANGED <<now, lastRun>>
        BY <1>3 DEF LoadSchedules, SweepAt, kernelVars, storeVars
    <2> QED BY <1>0, <1>3, <2>1, LoadFields DEF ClockInv
<1>4. CASE \E a \in Arrays : Pass(a) \/ Fire(a) \/ Miss(a)
    <2>1. PICK a \in Arrays : Pass(a) \/ Fire(a) \/ Miss(a)
        BY <1>4
    <2>2. sweep.pc = "run" /\ UNCHANGED <<now, lastRun>>
        BY <2>1, RunFields
    <2>3. PICK r, f : Done(a, r, f) /\ (r = sweep.run[a] \/ r = sweep.at)
        BY <2>1, RunTimes
    <2>4. /\ sweep'.pc = sweep.pc /\ sweep'.at = sweep.at
          /\ \A b \in Arrays : sweep'.run[b] = IF b = a THEN r ELSE sweep.run[b]
        BY <1>0, <2>3, DoneFields
    <2> QED BY <2>2, <2>3, <2>4, TimeTypes DEF ClockInv
<1>5. CASE SaveLastRun
    <2>1. /\ sweep.pc = "run" /\ sweep'.pc = "savefailures" /\ Steady
          /\ now' = now /\ lastRun' = sweep.run
        BY <1>0, <1>5, GotoFields DEF SaveLastRun, SweepAt, kernelVars
    <2> QED BY <2>1, TimeTypes DEF ClockInv, Steady
<1>6. CASE SaveFailures
    <2>1. sweep'.pc = "idle" /\ Steady /\ UNCHANGED <<now, lastRun>>
        BY <1>0, <1>6, GotoFields DEF SaveFailures, kernelVars
    <2> QED BY <2>1 DEF ClockInv, Steady
<1>7. CASE Quiet
    BY <1>7 DEF Quiet, ClockInv
<1>8. CASE \E r \in Requests : ManualRecord(r)
    BY <1>8 DEF ManualRecord, kernelVars, ClockInv
<1>9. CASE Tick
    BY <1>9, TimeTypes DEF Tick, storeVars, ClockInv
<1>10. CASE Crash
    BY <1>10, RaidAssumption DEF Crash, Calm, TypeOK
<1> QED BY <1>1, <1>2, <1>3, <1>4, <1>5, <1>6, <1>7, <1>8, <1>9, <1>10, QuietSteps
        DEF Next, SweepStep, ManualStep

\* The last run in force stays where it is, but for an array the loop deals with.
LEMMA FiredFire ==
    ASSUME TypeOK, ClockInv, FiredInv, NEW a \in Arrays, Fire(a) PROVE FiredInv'
<1>0. sweep \in SweepType
    BY DEF TypeOK
<1> DEFINE W == Window(sweep.cfg[a], sweep.run[a], sweep.at)
<1> DEFINE g == [o \in Times |-> IF o \in W /\ fired[a][o] < 2 THEN fired[a][o] + 1 ELSE fired[a][o]]
<1>1. sweep.pc = "run" /\ Done(a, sweep.at, None) /\ sweep.run[a] # None /\ fired' = [fired EXCEPT ![a] = g]
    BY DEF Fire, SweepAt, MayRun
<1>2. sweep'.pc = "run" /\ \A b \in Arrays : sweep'.run[b] = IF b = a THEN sweep.at ELSE sweep.run[b]
    BY <1>0, <1>1, DoneFields
<1>3. \A o \in W : sweep.run[a] < o /\ o <= sweep.at
    BY DEF Window
<1>4. \A o \in Times : fired[a][o] \in 0 .. 2 /\ fired[a][o] <= 1 /\ (fired[a][o] > 0 => o <= sweep.run[a])
    BY <1>1 DEF TypeOK, FiredInv, Anchor
<1>5. sweep.run[a] <= sweep.at
    BY <1>1 DEF ClockInv
<1>6. sweep.run[a] \in Nat /\ sweep.at \in Nat /\ sweep.at # None
    BY <1>1, TimeTypes, NoneNotTime DEF TypeOK, SweepType
<1> HIDE DEF W
<1>7. \A o \in Times : g[o] <= 1 /\ (g[o] > 0 => o <= sweep.at)
    <2> TAKE o \in Times
    <2>1. o \in Nat
        BY TimesNat
    <2>2. CASE o \in W
        <3>1. fired[a][o] = 0
            BY <1>3, <1>4, <1>6, <2>1, <2>2
        <3> QED BY <1>3, <2>2, <3>1
    <2>3. CASE o \notin W
        BY <1>4, <1>5, <1>6, <2>1, <2>3
    <2> QED BY <2>2, <2>3
<1>8. \A b \in Arrays : fired'[b] = IF b = a THEN g ELSE fired[b]
    BY <1>1 DEF TypeOK
<1> HIDE DEF g
<1> QED BY <1>1, <1>2, <1>6, <1>7, <1>8 DEF FiredInv, Anchor

LEMMA FiredStep ==
    ASSUME Calm, TypeOK, Serial, ClockInv, FiredInv, [Next]_vars PROVE FiredInv'
<1>0. sweep \in SweepType /\ fired \in [Arrays -> [Times -> 0 .. 2]]
    BY DEF TypeOK
<1>1. ASSUME fired' = fired, \A a \in Arrays : Anchor(a)' = Anchor(a) PROVE FiredInv'
    BY <1>1 DEF FiredInv
<1>2. CASE Scan
    <2>1. sweep.pc = "idle" /\ UNCHANGED <<lastRun, fired>>
        BY <1>2 DEF Scan, SweepAt, storeVars
    <2> QED BY <1>1, <1>2, <2>1, ScanFields DEF Anchor
<1>3. CASE Announce \/ SaveBaseline \/ SaveLastScan
    BY <1>0, <1>1, <1>3, EarlyFields DEF Anchor, Early
<1>4. CASE LoadSchedules
    <2>1. sweep.pc = "lock" /\ UNCHANGED <<lastRun, fired>>
        BY <1>4 DEF LoadSchedules, SweepAt, storeVars, histVars
    <2> QED BY <1>0, <1>1, <1>4, <2>1, LoadFields DEF Anchor
<1>5. CASE \E a \in Arrays : Fire(a)
    BY <1>5, FiredFire
<1>6. CASE \E a \in Arrays : Pass(a) \/ Miss(a)
    <2>1. PICK a \in Arrays : Pass(a) \/ Miss(a)
        BY <1>6
    <2>2. sweep.pc = "run" /\ fired' = fired
        BY <2>1 DEF Pass, Miss, SweepAt
    <2>3. PICK r, f : Done(a, r, f) /\ (r = sweep.run[a] \/ r = sweep.at)
        BY <2>1, RunTimes
    <2>4. sweep'.pc = "run" /\ \A b \in Arrays : sweep'.run[b] = IF b = a THEN r ELSE sweep.run[b]
        BY <1>0, <2>2, <2>3, DoneFields
    <2>5. sweep.run[a] # None => sweep.run[a] <= sweep.at
        BY <2>2 DEF ClockInv
    <2>6. sweep.at \in Nat /\ sweep.at # None /\ (sweep.run[a] # None => sweep.run[a] \in Nat)
        BY TimeTypes, NoneNotTime DEF TypeOK, SweepType
    <2>7. \A o \in Times : fired[a][o] > 0 => r # None /\ o <= r
        <3> TAKE o \in Times
        <3>1. fired[a][o] > 0 => sweep.run[a] # None /\ o <= sweep.run[a]
            BY <2>2 DEF FiredInv, Anchor
        <3> QED BY <2>3, <2>5, <2>6, <3>1, TimesNat
    <2> QED BY <2>2, <2>4, <2>7 DEF FiredInv, Anchor
<1>7. CASE SaveLastRun
    <2>1. /\ sweep.pc = "run" /\ sweep'.pc = "savefailures"
          /\ lastRun' = sweep.run /\ fired' = fired
        BY <1>0, <1>7, GotoFields DEF SaveLastRun, SweepAt, histVars
    <2> QED BY <1>1, <2>1 DEF Anchor
<1>8. CASE SaveFailures
    <2>1. sweep.pc = "savefailures" /\ sweep'.pc = "idle" /\ UNCHANGED <<lastRun, fired>>
        BY <1>0, <1>8, GotoFields DEF SaveFailures, SweepAt, histVars
    <2> QED BY <1>1, <2>1 DEF Anchor
<1>9. CASE Quiet
    BY <1>1, <1>9 DEF Quiet, Anchor
<1>10. CASE \E r \in Requests : ManualRecord(r)
    BY <1>1, <1>10 DEF ManualRecord, Anchor
<1>11. CASE Tick
    BY <1>1, <1>11 DEF Tick, storeVars, histVars, Anchor
<1>12. CASE Crash
    BY <1>12, RaidAssumption DEF Crash, Calm, TypeOK
<1> QED BY <1>2, <1>3, <1>4, <1>5, <1>6, <1>7, <1>8, <1>9, <1>10, <1>11, <1>12, QuietSteps
        DEF Next, SweepStep, ManualStep

\* The loop leaves array a with a failure and a last run that belong together.
LEMMA RetryRun ==
    ASSUME TypeOK, ClockInv, NEW a \in Arrays, Pass(a) \/ Fire(a) \/ Miss(a),
           Pends(sweep.fail[a], sweep.run[a])
    PROVE  \E r, f : Done(a, r, f) /\ Pends(f, r)
<1>0. sweep \in SweepType
    BY DEF TypeOK
<1>1. CASE Pass(a)
    <2> DEFINE r == IF sweep.cfg[a] # None /\ sweep.run[a] = None THEN sweep.at ELSE sweep.run[a]
    <2>1. Done(a, r, Left(a))
        BY <1>1 DEF Pass
    <2>2. Pends(Left(a), r)
        BY DEF Left, Pends
    <2> QED BY <2>1, <2>2
<1>2. CASE Fire(a)
    BY <1>2 DEF Fire, Pends
<1>3. CASE Miss(a)
    <2> DEFINE f == RecordFailure(IF Retrying(a) THEN Left(a).attempts ELSE 0, TRUE, sweep.at)
    <2> DEFINE r == IF f.next = 0 THEN sweep.at ELSE sweep.run[a]
    <2>1. Done(a, r, f) /\ MayRun(a) /\ Due(a)
        BY <1>3 DEF Miss
    <2> HIDE DEF f
    <2>2. sweep.run[a] # None /\ \E o \in Times : sweep.run[a] < o /\ o <= now
        <3>1. CASE Retrying(a)
            BY <3>1 DEF Retrying, Left, Pends
        <3>2. CASE ~Retrying(a)
            <4>1. sweep.cfg[a] \in Rules /\ sweep.run[a] # None
                BY <1>0, <2>1 DEF MayRun, SweepType, Opt
            <4>2. PICK o \in Occ[sweep.cfg[a]] : sweep.run[a] < o /\ o <= sweep.at
                BY <2>1, <3>2 DEF Due, DueSince
            <4>3. o \in Times
                BY <4>1, <4>2 DEF Times
            <4>4. o <= now
                BY <4>2, <4>3, TimesNat, TimeTypes DEF ClockInv
            <4> QED BY <4>1, <4>2, <4>3, <4>4
        <3> QED BY <3>1, <3>2
    <2>3. Pends(f, r)
        BY <2>2 DEF Pends
    <2> QED BY <2>1, <2>3
<1> QED BY <1>1, <1>2, <1>3

LEMMA RetryStep ==
    ASSUME Calm, TypeOK, Serial, ClockInv, RetryInv, [Next]_vars PROVE RetryInv'
<1>0. sweep \in SweepType
    BY DEF TypeOK
<1>1. CASE Scan
    <2>1. sweep.pc = "idle" /\ UNCHANGED <<now, lastRun, failures>>
        BY <1>1 DEF Scan, SweepAt, kernelVars, storeVars
    <2> QED BY <1>1, <2>1, ScanFields DEF RetryInv, Pends
<1>2. CASE Announce \/ SaveBaseline \/ SaveLastScan
    BY <1>0, <1>2, EarlyFields DEF RetryInv, Pends, Early
<1>3. CASE LoadSchedules
    <2>1. sweep.pc = "lock" /\ UNCHANGED <<now, lastRun, failures>>
        BY <1>3 DEF LoadSchedules, SweepAt, kernelVars, storeVars
    <2>2. \A a \in Arrays : Pends(failures[a], lastRun[a])
        BY <2>1 DEF RetryInv
    <2> QED BY <1>0, <1>3, <2>1, <2>2, LoadFields DEF RetryInv, Pends, Anchor
<1>4. CASE \E a \in Arrays : Pass(a) \/ Fire(a) \/ Miss(a)
    <2>1. PICK a \in Arrays : Pass(a) \/ Fire(a) \/ Miss(a)
        BY <1>4
    <2>2. sweep.pc = "run" /\ UNCHANGED <<now, lastRun, failures>>
        BY <2>1, RunFields
    <2>3. \A b \in Arrays : Pends(failures[b], lastRun[b]) /\ Pends(sweep.fail[b], sweep.run[b])
        BY <2>2 DEF RetryInv, Anchor
    <2>4. PICK r, f : Done(a, r, f) /\ Pends(f, r)
        BY <2>1, <2>3, RetryRun
    <2>5. /\ sweep'.pc = sweep.pc
          /\ \A b \in Arrays : sweep'.run[b] = IF b = a THEN r ELSE sweep.run[b]
          /\ \A b \in Arrays : sweep'.fail[b] = IF b = a THEN f ELSE sweep.fail[b]
        BY <1>0, <2>4, DoneFields
    <2> QED BY <2>2, <2>3, <2>4, <2>5 DEF RetryInv, Pends, Anchor
<1>5. CASE SaveLastRun
    <2>1. /\ sweep.pc = "run" /\ sweep'.pc = "savefailures" /\ Steady
          /\ now' = now /\ lastRun' = sweep.run
        BY <1>0, <1>5, GotoFields DEF SaveLastRun, SweepAt, kernelVars
    <2>2. \A a \in Arrays : Pends(sweep.fail[a], sweep.run[a])
        BY <2>1 DEF RetryInv, Anchor
    <2> QED BY <2>1, <2>2 DEF RetryInv, Pends, Anchor, Steady
<1>6. CASE SaveFailures
    <2>1. /\ sweep.pc = "savefailures" /\ sweep'.pc = "idle"
          /\ failures' = sweep.fail /\ UNCHANGED <<now, lastRun>>
        BY <1>0, <1>6, GotoFields DEF SaveFailures, SweepAt, kernelVars
    <2>2. \A a \in Arrays : Pends(sweep.fail[a], lastRun[a])
        BY <2>1 DEF RetryInv, Anchor
    <2> QED BY <2>1, <2>2 DEF RetryInv, Pends
<1>7. CASE Quiet
    BY <1>7 DEF Quiet, RetryInv, Pends, Anchor
<1>8. CASE \E r \in Requests : ManualRecord(r)
    <2>1. PICK r \in Requests : ManualRecord(r)
        BY <1>8
    <2>2. mu = None /\ UNCHANGED <<now, lastRun, sweep>>
        BY <2>1 DEF ManualRecord, kernelVars
    <2>3. sweep.pc \notin {"run", "savefailures"}
        BY <2>2, PollerAssumption DEF Serial, LockInv
    <2>4. RecordFailure(0, FALSE, now).next = 0
        BY DEF RecordFailure
    <2>5. \A a \in Arrays : failures'[a] \in {failures[a], None, RecordFailure(0, FALSE, now)}
        BY <2>1 DEF ManualRecord, TypeOK
    <2>6. ASSUME NEW a \in Arrays PROVE Pends(failures'[a], lastRun[a])
        <3>1. Pends(failures[a], lastRun[a])
            BY <2>3 DEF RetryInv
        <3>2. \/ failures'[a] = failures[a]
              \/ failures'[a] = None
              \/ failures'[a] = RecordFailure(0, FALSE, now)
            BY <2>5, <2>6
        <3>3. CASE failures'[a] = failures[a]
            BY <3>1, <3>3
        <3>4. CASE failures'[a] = None
            BY <3>4 DEF Pends
        <3>5. CASE failures'[a] = RecordFailure(0, FALSE, now)
            <4>1. failures'[a].next = 0
                BY <2>4, <3>5
            <4> QED BY <4>1 DEF Pends
        <3> QED BY <3>2, <3>3, <3>4, <3>5
    <2>7. ASSUME NEW a \in Arrays PROVE Pends(failures[a], lastRun[a])'
        BY <2>2, <2>6 DEF Pends
    <2> QED BY <2>2, <2>3, <2>7 DEF RetryInv
<1>9. CASE Tick
    <2>1. now' = now + 1 /\ UNCHANGED <<lastRun, failures, sweep>>
        BY <1>9 DEF Tick, storeVars
    <2>2. \A o \in Times : o <= now => o <= now'
        BY <2>1, TimesNat, TimeTypes
    <2>3. \A a \in Arrays : Anchor(a)' = Anchor(a)
        BY <2>1 DEF Anchor
    <2>4. ASSUME NEW a \in Arrays, sweep.pc # "savefailures" PROVE Pends(failures[a], lastRun[a])'
        <3>1. Pends(failures[a], lastRun[a])
            BY <2>4 DEF RetryInv
        <3> QED BY <2>1, <2>2, <3>1 DEF Pends
    <2>5. ASSUME NEW a \in Arrays, sweep.pc \in {"run", "savefailures"}
          PROVE Pends(sweep.fail[a], Anchor(a))'
        <3>1. Pends(sweep.fail[a], Anchor(a))
            BY <2>5 DEF RetryInv
        <3> QED BY <2>1, <2>2, <2>3, <3>1 DEF Pends
    <2> QED BY <2>1, <2>4, <2>5 DEF RetryInv
<1>10. CASE Crash
    BY <1>10, RaidAssumption DEF Crash, Calm, TypeOK
<1> QED BY <1>1, <1>2, <1>3, <1>4, <1>5, <1>6, <1>7, <1>8, <1>9, <1>10, QuietSteps
        DEF Next, SweepStep, ManualStep

LEMMA ScheduleInit == Init => ScheduleInv
<1> SUFFICES ASSUME Init PROVE ScheduleInv
    OBVIOUS
<1>1. sweep.pc = "idle" /\ sweep.at = 0 /\ now = 0
    BY RestingFields DEF Init
<1>2. \A a \in Arrays : lastRun[a] # None => lastRun[a] = 0
    BY DEF Init
<1>3. ClockInv
    BY <1>1, <1>2 DEF ClockInv
<1>4. FiredInv
    BY DEF Init, FiredInv
<1>5. RetryInv
    BY <1>1 DEF Init, RetryInv, Pends
<1> QED BY <1>3, <1>4, <1>5, TypeInit, SerialInit DEF ScheduleInv, Serial

\* The inductive invariant of the scheduler, as long as Veery does not crash.
THEOREM Scheduling == ASSUME Calm PROVE Spec => []ScheduleInv
<1>1. ScheduleInv /\ [Next]_vars => ScheduleInv'
    BY Calm, TypeStep, SerialStep, ClockStep, FiredStep, RetryStep DEF ScheduleInv, Serial
<1> QED BY <1>1, ScheduleInit, PTL DEF Spec

\* A schedule fires once per occurrence (dueSince and runSchedules' lastRun), for
\* any rules, arrays, failing starts, edits and manual starts, without crashes.
THEOREM FiresOnce == ASSUME Calm PROVE Spec => []OncePerOccurrence
<1>1. ScheduleInv => OncePerOccurrence
    BY DEF ScheduleInv, FiredInv, OncePerOccurrence
<1> QED BY Calm, <1>1, Scheduling, PTL

\* A stored retry belongs to an occurrence that is still due (runSchedules).
THEOREM RetryIsDue == ASSUME Calm PROVE Spec => []PendingRetryDue
<1>1. ScheduleInv => PendingRetryDue
    BY DEF ScheduleInv, RetryInv, Pends, PendingRetryDue
<1> QED BY Calm, <1>1, Scheduling, PTL

-----------------------------------------------------------------------------
(* The attempts at a scheduled scrub are bounded by the delays.            *)

\* Steps that leave the failures and the count of the attempts alone.
LEMMA CountedSame ==
    ASSUME TriesInv, tries' = tries, \A a \in Arrays : InForce(a)' = InForce(a)
    PROVE  TriesInv'
BY DEF TriesInv, Counted

\* The loop leaves array a with a failure that counts the attempts made so far.
LEMMA TriesRun ==
    ASSUME TypeOK, NEW a \in Arrays, Pass(a) \/ Fire(a) \/ Miss(a),
           Counted(sweep.fail[a], tries[a])
    PROVE  \E r, f : /\ Done(a, r, f) /\ Counted(f, tries'[a])
                     /\ \A b \in Arrays \ {a} : tries'[b] = tries[b]
<1>0. sweep \in SweepType /\ tries \in [Arrays -> 0 .. Limit + 1] /\ Limit \in Nat
    BY LimitNat DEF TypeOK
<1>1. CASE Pass(a)
    <2>1. \E r : Done(a, r, Left(a))
        BY <1>1 DEF Pass
    <2>2. Counted(Left(a), tries'[a])
        BY <1>0, <1>1 DEF Pass, Cleared, Left, Counted
    <2>3. \A b \in Arrays \ {a} : tries'[b] = tries[b]
        BY <1>0, <1>1 DEF Pass, Cleared
    <2> QED BY <2>1, <2>2, <2>3
<1>2. CASE Fire(a)
    <2>1. Done(a, sweep.at, None) /\ tries' = [tries EXCEPT ![a] = 0]
        BY <1>2 DEF Fire
    <2> QED BY <1>0, <2>1 DEF Counted
<1>3. CASE Miss(a)
    <2> DEFINE n == IF Retrying(a) THEN Left(a).attempts ELSE 0
    <2> DEFINE f == RecordFailure(n, TRUE, sweep.at)
    <2>1. /\ Done(a, IF f.next = 0 THEN sweep.at ELSE sweep.run[a], f)
          /\ tries' = [tries EXCEPT ![a] = IF f.next = 0 THEN 0 ELSE IF @ <= Limit THEN @ + 1 ELSE @]
        BY <1>3 DEF Miss
    <2>2. f \in Failure /\ f.attempts = n + 1 /\ f.scheduled
        <3>1. n \in 0 .. Limit /\ sweep.at \in Time
            BY <1>0, CountType DEF SweepType
        <3>2. f \in Failure
            BY <3>1, RecordType
        <3> QED BY <3>2 DEF RecordFailure
    <2>3. tries[a] <= n
        <3>1. Left(a) = sweep.fail[a]
            BY <1>3 DEF Miss, MayRun, Left, Moot
        <3>2. CASE Retrying(a)
            <4>1. sweep.fail[a] \in Failure /\ sweep.fail[a].attempts \in Nat
                BY <1>0, <3>1, <3>2 DEF Retrying, SweepType, Opt, Failure
            <4> QED BY <1>0, <3>1, <3>2, <4>1 DEF Counted
        <3>3. CASE ~Retrying(a)
            BY <1>0, <3>1, <3>3 DEF Retrying, Counted
        <3> QED BY <3>2, <3>3
    <2>4. n \in 0 .. Limit
        BY <1>0, CountType
    <2> HIDE DEF n, f
    <2>5. f.next \in Nat /\ f # None
        BY <2>2, FailureAssumption DEF Failure
    <2>6. Counted(f, tries'[a])
        BY <1>0, <2>1, <2>2, <2>3, <2>4, <2>5 DEF Counted
    <2>7. \A b \in Arrays \ {a} : tries'[b] = tries[b]
        BY <1>0, <2>1
    <2> QED BY <2>1, <2>6, <2>7
<1> QED BY <1>1, <1>2, <1>3

\* Quiet steps add to the history nothing but when a schedule was saved.
QuietHist == Quiet /\ UNCHANGED <<baseline, sent, tries>>

LEMMA QuietHistory ==
    /\ \A r \in Requests : ManualStart(r) \/ (\E a \in Arrays : Ask(r, a)) => QuietHist
    /\ \A a \in Arrays : KernelEvent(a) \/ SyncEnds(a) \/ Vanish(a) => QuietHist
    /\ (\E a \in Arrays, rule \in Opt(Rules) : SetSchedule(a, rule)) => QuietHist
    /\ UNCHANGED vars => QuietHist
<1>1. \A r \in Requests : ManualStart(r) \/ (\E a \in Arrays : Ask(r, a)) => QuietHist
    BY QuietSteps DEF ManualStart, Ask, QuietHist, storeVars, histVars
<1>2. \A a \in Arrays : KernelEvent(a) \/ SyncEnds(a) \/ Vanish(a) => QuietHist
    BY QuietSteps DEF KernelEvent, SyncEnds, Vanish, QuietHist, storeVars, histVars
<1>3. (\E a \in Arrays, rule \in Opt(Rules) : SetSchedule(a, rule)) => QuietHist
    BY QuietSteps DEF SetSchedule, QuietHist
<1>4. UNCHANGED vars => QuietHist
    BY QuietSteps DEF vars, QuietHist
<1> QED BY <1>1, <1>2, <1>3, <1>4

LEMMA TriesStep ==
    ASSUME TypeOK, Serial, TriesInv, [Next]_vars PROVE TriesInv'
<1>0. sweep \in SweepType /\ tries \in [Arrays -> 0 .. Limit + 1]
    BY DEF TypeOK
<1>1. CASE Scan
    <2>1. sweep.pc = "idle" /\ UNCHANGED <<failures, tries>>
        BY <1>1 DEF Scan, SweepAt, storeVars
    <2> QED BY <1>1, <2>1, ScanFields, CountedSame DEF InForce
<1>2. CASE Announce \/ SaveBaseline \/ SaveLastScan
    <2>1. tries' = tries
        BY <1>2 DEF Announce, SaveBaseline, SaveLastScan, histVars
    <2>2. sweep.pc \in Early /\ sweep'.pc \in Early /\ failures' = failures
        BY <1>0, <1>2, EarlyFields
    <2> QED BY <2>1, <2>2, CountedSame DEF InForce, Early
<1>3. CASE LoadSchedules
    <2>1. sweep.pc = "lock" /\ UNCHANGED <<failures, tries>>
        BY <1>3 DEF LoadSchedules, SweepAt, storeVars, histVars
    <2> QED BY <1>0, <1>3, <2>1, LoadFields, CountedSame DEF InForce
<1>4. CASE \E a \in Arrays : Pass(a) \/ Fire(a) \/ Miss(a)
    <2>1. PICK a \in Arrays : Pass(a) \/ Fire(a) \/ Miss(a)
        BY <1>4
    <2>2. sweep.pc = "run"
        BY <2>1, RunFields
    <2>3. \A b \in Arrays : Counted(sweep.fail[b], tries[b])
        BY <2>2 DEF TriesInv, InForce
    <2>4. PICK r, f : /\ Done(a, r, f) /\ Counted(f, tries'[a])
                      /\ \A b \in Arrays \ {a} : tries'[b] = tries[b]
        BY <2>1, <2>3, TriesRun
    <2>5. /\ sweep'.pc = sweep.pc
          /\ \A b \in Arrays : sweep'.fail[b] = IF b = a THEN f ELSE sweep.fail[b]
        BY <1>0, <2>4, DoneFields
    <2>6. \A b \in Arrays : Counted(sweep'.fail[b], tries'[b])
        BY <2>3, <2>4, <2>5
    <2> QED BY <2>2, <2>5, <2>6 DEF TriesInv, InForce, Counted
<1>5. CASE SaveLastRun
    <2>1. sweep.pc = "run" /\ sweep'.pc = "savefailures" /\ Steady /\ UNCHANGED <<failures, tries>>
        BY <1>0, <1>5, GotoFields DEF SaveLastRun, SweepAt, histVars
    <2> QED BY <2>1, CountedSame DEF InForce, Steady
<1>6. CASE SaveFailures
    <2>1. /\ sweep.pc = "savefailures" /\ sweep'.pc = "idle"
          /\ failures' = sweep.fail /\ tries' = tries
        BY <1>0, <1>6, GotoFields DEF SaveFailures, SweepAt, histVars
    <2> QED BY <2>1, CountedSame DEF InForce
<1>7. CASE QuietHist
    BY <1>7, CountedSame DEF QuietHist, Quiet, InForce
<1>8. CASE \E r \in Requests : ManualRecord(r)
    <2>1. PICK r \in Requests : ManualRecord(r)
        BY <1>8
    <2> DEFINE a == man[r].array
    <2>2. mu = None /\ sweep' = sweep /\ tries' = [tries EXCEPT ![a] = 0] /\ a \in Arrays
        BY <2>1 DEF ManualRecord, TypeOK
    <2>3. sweep.pc \notin {"run", "savefailures"}
        BY <2>2, PollerAssumption DEF Serial, LockInv
    <2>4. \A b \in Arrays \ {a} : failures'[b] = failures[b]
        BY <2>1 DEF ManualRecord, TypeOK
    <2> HIDE DEF a
    <2>5. \A b \in Arrays : tries'[b] = 0 \/ (tries'[b] = tries[b] /\ failures'[b] = failures[b])
        BY <1>0, <2>2, <2>4
    <2>6. \A b \in Arrays : Counted(failures[b], tries[b])
        BY <2>3 DEF TriesInv, InForce
    <2>7. \A b \in Arrays : Counted(failures'[b], tries'[b])
        BY <2>5, <2>6 DEF Counted
    <2> QED BY <2>2, <2>3, <2>7 DEF TriesInv, InForce, Counted
<1>9. CASE Tick
    BY <1>9, CountedSame DEF Tick, storeVars, histVars, InForce
<1>10. CASE Crash
    <2>1. \A a \in Arrays : tries'[a] = 0
        BY <1>10 DEF Crash
    <2> QED BY <2>1 DEF TriesInv, Counted
<1> QED BY <1>1, <1>2, <1>3, <1>4, <1>5, <1>6, <1>7, <1>8, <1>9, <1>10, QuietHistory
        DEF Next, SweepStep, ManualStep

\* A scheduled scrub that does not start is tried at most as often as there are
\* delays before the occurrence is given up (recordFailure and runSchedules), whatever
\* else happens to the array, its schedule and Veery.
THEOREM RetriesBounded == Spec => []AttemptsBounded
<1>1. Init => TypeOK /\ Serial /\ TriesInv
    <2>1. Init => TriesInv
        BY DEF Init, TriesInv, Counted
    <2> QED BY <2>1, TypeInit, SerialInit
<1>2. TypeOK /\ Serial /\ TriesInv /\ [Next]_vars => (TypeOK /\ Serial /\ TriesInv)'
    BY TypeStep, SerialStep, TriesStep
<1>3. TypeOK /\ TriesInv => AttemptsBounded
    <2> SUFFICES ASSUME TypeOK, TriesInv, NEW a \in Arrays PROVE tries[a] <= Limit
        BY DEF AttemptsBounded
    <2>1. tries[a] \in Nat /\ Limit \in Nat /\ InForce(a) \in Opt(Failure)
        BY LimitNat DEF TypeOK, SweepType, InForce
    <2>2. tries[a] > 0 => tries[a] <= InForce(a).attempts /\ InForce(a) \in Failure /\ InForce(a).next > 0
        BY <2>1 DEF TriesInv, Counted, Opt
    <2>3. CASE tries[a] > 0
        <3>1. InForce(a).attempts \in Nat /\ InForce(a).attempts <= Limit
            BY <2>1, <2>2, <2>3 DEF Failure
        <3> QED BY <2>1, <2>2, <2>3, <3>1
    <2> QED BY <2>1, <2>3
<1> QED BY <1>1, <1>2, <1>3, PTL DEF Spec

-----------------------------------------------------------------------------
(* No transition is lost.                                                  *)

\* The announcement holds everything the baseline moves past.
LEMMA SentAnnounce ==
    ASSUME sweep \in SweepType, Announce PROVE SentInv'
<1>1. sent' = sent \cup UNION {{a} \X NewEvents(a) : a \in Arrays}
    BY DEF Announce
<1>2. sweep'.seen = sweep.seen /\ baseline' = baseline
    BY AnnounceFields DEF Announce, Steady, storeVars
<1>3. \A a \in Arrays : NewEvents(a)' = NewEvents(a)
    BY <1>2 DEF NewEvents, Known
<1>4. \A a \in Arrays : {a} \X NewEvents(a) \subseteq sent'
    BY <1>1
<1> QED BY <1>3, <1>4 DEF SentInv

LEMMA SentStep ==
    ASSUME TypeOK, SentInv, [Next]_vars PROVE SentInv'
<1>0. sweep \in SweepType
    BY DEF TypeOK
<1>1. CASE Announce
    BY <1>0, <1>1, SentAnnounce
<1>2. ASSUME sweep'.pc # "savebaseline" PROVE SentInv'
    BY <1>2 DEF SentInv
<1>3. ASSUME sweep' = sweep, baseline' = baseline, sent \subseteq sent' PROVE SentInv'
    <2>1. \A a \in Arrays : NewEvents(a)' = NewEvents(a)
        BY <1>3 DEF NewEvents, Known
    <2> QED BY <1>3, <2>1 DEF SentInv
<1>4. CASE Scan
    BY <1>2, <1>4, ScanFields
<1>5. CASE SaveBaseline \/ SaveLastScan \/ SaveLastRun \/ SaveFailures
    <2>1. PICK l \in SweepLabels \ {"savebaseline"} : SweepGoto(l)
        BY <1>5 DEF SaveBaseline, SaveLastScan, SaveLastRun, SaveFailures, SweepLabels
    <2> QED BY <1>0, <1>2, <2>1, GotoFields
<1>6. CASE LoadSchedules
    BY <1>0, <1>2, <1>6, LoadFields
<1>7. CASE \E a \in Arrays : Pass(a) \/ Fire(a) \/ Miss(a)
    <2>1. PICK a \in Arrays : Pass(a) \/ Fire(a) \/ Miss(a)
        BY <1>7
    <2>2. PICK r, f : Done(a, r, f)
        BY <2>1, RunFields
    <2>3. sweep.pc = "run" /\ sweep'.pc = sweep.pc
        BY <1>0, <2>1, <2>2, RunFields, DoneFields
    <2> QED BY <1>2, <2>3
<1>8. CASE QuietHist
    BY <1>3, <1>8 DEF QuietHist, Quiet
<1>9. CASE \E r \in Requests : ManualRecord(r)
    BY <1>3, <1>9 DEF ManualRecord
<1>10. CASE Tick
    BY <1>3, <1>10 DEF Tick, storeVars, histVars
<1>11. CASE Crash
    BY <1>2, <1>11, RestingFields DEF Crash
<1> QED BY <1>1, <1>4, <1>5, <1>6, <1>7, <1>8, <1>9, <1>10, <1>11, QuietHistory
        DEF Next, SweepStep, ManualStep

\* Only SaveBaseline moves the baseline.
LEMMA BaselineMoves ==
    ASSUME [Next]_vars PROVE SaveBaseline \/ baseline' = baseline
<1>1. CASE SweepStep
    BY <1>1 DEF SweepStep, Scan, Announce, SaveLastScan, LoadSchedules, SaveLastRun, SaveFailures,
                Pass, Fire, Miss, runFrame, storeVars
<1>2. CASE \E r \in Requests : ManualStep(r) \/ \E a \in Arrays : Ask(r, a)
    BY <1>2 DEF ManualStep, ManualStart, ManualRecord, Ask, storeVars
<1>3. CASE \E a \in Arrays : KernelEvent(a) \/ SyncEnds(a) \/ Vanish(a)
    BY <1>3 DEF KernelEvent, SyncEnds, Vanish, storeVars
<1>4. CASE \E a \in Arrays, rule \in Opt(Rules) : SetSchedule(a, rule)
    BY <1>4 DEF SetSchedule
<1>5. CASE Tick \/ Crash \/ UNCHANGED vars
    BY <1>5 DEF Tick, Crash, storeVars, vars
<1> QED BY <1>1, <1>2, <1>3, <1>4, <1>5 DEF Next

\* The step of AnnouncedFirst.
Moves(a) ==
    baseline[a] # None /\ baseline'[a] # None =>
        /\ baseline[a].action = "check" /\ baseline'[a].action # "check" => <<a, "finished">> \in sent
        /\ baseline[a].action # "check" /\ baseline'[a].action = "check" => <<a, "started">> \in sent
        /\ baseline[a].up /\ ~baseline'[a].up => <<a, "dropped">> \in sent

LEMMA MovesAnnounced ==
    ASSUME TypeOK, SentInv, [Next]_vars, NEW a \in Arrays PROVE Moves(a)
<1>1. CASE baseline' = baseline
    BY <1>1 DEF Moves
<1>2. CASE SaveBaseline
    <2>1. SUFFICES ASSUME baseline[a] # None, baseline'[a] # None PROVE Moves(a)
        BY DEF Moves
    <2>2. sweep.pc = "savebaseline" /\ sweep.seen[a] # None /\ baseline'[a] = Snapshot(sweep.seen[a])
        BY <1>2, <2>1 DEF SaveBaseline, SweepAt
    <2>3. baseline'[a].action = sweep.seen[a].action /\ baseline'[a].up = sweep.seen[a].up
        BY <2>2 DEF Snapshot
    <2>4. \A e \in Events(sweep.seen[a], baseline[a]) : <<a, e>> \in sent
        BY <2>1, <2>2 DEF SentInv, NewEvents, Known
    <2> QED BY <2>3, <2>4 DEF Moves, Events
<1> QED BY <1>1, <1>2, BaselineMoves

\* No transition of an array is lost: the stored baseline moves past the start or the
\* end of a scrub, or the loss of a disk, only after it was announced (checkTransitions),
\* wherever Veery is killed.
THEOREM NoTransitionLost == Spec => AnnouncedFirst
<1>1. Init => TypeOK /\ SentInv
    <2>1. Init => SentInv
        BY RestingFields DEF Init, SentInv
    <2> QED BY <2>1, TypeInit
<1>2. TypeOK /\ SentInv /\ [Next]_vars => (TypeOK /\ SentInv)'
    BY TypeStep, SentStep
<1>3. TypeOK /\ SentInv /\ [Next]_vars => [\A a \in Arrays : Moves(a)]_vars
    BY MovesAnnounced
<1> QED BY <1>1, <1>2, <1>3, PTL DEF Spec, AnnouncedFirst, Moves
=============================================================================

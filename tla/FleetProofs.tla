---------------------------- MODULE FleetProofs ----------------------------
(***************************************************************************)
(* Theorems about Fleet.tla, for any number of containers, services,       *)
(* stacks, rows, concurrent adoptions and crashes.                         *)
(***************************************************************************)
EXTENDS Fleet, FiniteSetTheorems, WellFoundedInduction, TLAPS

-----------------------------------------------------------------------------
(* Operators.                                                              *)

\* A set of numbers has a least one.
LEMMA MinIn ==
    ASSUME NEW S \in SUBSET Nat, S # {} PROVE Min(S) \in S /\ \A y \in S : Min(S) <= y
<1> DEFINE R == {ss \in Nat \X Nat : ss[1] < ss[2]}
<1>1. IsWellFoundedOn(R, Nat)
    BY NatLessThanWellFounded DEF OpToRel
<1>2. PICK x \in S : \A y \in S : <<y, x>> \notin R
    <2> HIDE DEF R
    <2> QED BY <1>1, WFMin
<1>3. ASSUME NEW y \in S PROVE x <= y
    <2>1. x \in Nat /\ y \in Nat /\ <<y, x>> \in Nat \X Nat
        OBVIOUS
    <2>2. ~(<<y, x>>[1] < <<y, x>>[2])
        BY <1>2, <2>1
    <2> QED BY <2>1, <2>2
<1> QED BY <1>3 DEF Min

\* ManagedByName gives a row of the name if there is one.
LEMMA ByNameType ==
    ASSUME NEW n
    PROVE  /\ ManagedByName(n) \in 0 .. MaxRows
           /\ Managed(n) # {} => ManagedByName(n) \in Managed(n)
           /\ Managed(n) = {} => ManagedByName(n) = 0
<1>1. Managed(n) \subseteq 1 .. MaxRows /\ 1 .. MaxRows \subseteq Nat /\ MaxRows \in Nat
    BY FleetAssumption DEF Managed, RowIds
<1>2. CASE Managed(n) = {}
    BY <1>1, <1>2 DEF ManagedByName
<1>3. CASE Managed(n) # {}
    <2>1. Min(Managed(n)) \in Managed(n)
        BY <1>1, <1>3, MinIn
    <2> QED BY <1>1, <1>3, <2>1 DEF ManagedByName
<1> QED BY <1>2, <1>3

-----------------------------------------------------------------------------
(* Type correctness, part by part.                                         *)

HostOK ==
    /\ ctr \in [CID -> Container]
    /\ \A c \in CID : Live(c) => ctr[c].name \in Names /\ ctr[c].spec \in Specs
TableOK ==
    /\ stacks \subseteq Stacks /\ asked \subseteq Stacks
    /\ rows \in [RowIds -> Opt(Row)]
    /\ \A r \in RowIds : rows[r] # None => rows[r].stack \in stacks
SweepType == Process({"wait", "rows", "loop", "insert", "write"}, 0..MaxRows)
AdoptType == Process({"wait", "upsert", "loop", "add"}, 0..MaxRows \cup Stacks)
SweepOK ==
    /\ sweep \in SweepType
    /\ Ready(sweep)
    /\ sweep.pc = "write" => sweep.row \in RowIds
RequestOK(p) == Ready(p) /\ (p.pc = "upsert" => p.row \in Stacks)
AdoptOK ==
    /\ adopt \in [Adopters -> AdoptType]
    /\ \A a \in Adopters : RequestOK(adopt[a])
Budget == [calls : 0..MaxCalls, recreates : 0..MaxRecreates]
RestOK == raced \subseteq Names /\ budget \in Budget

LEMMA Parts == TypeOK <=> HostOK /\ TableOK /\ SweepOK /\ AdoptOK /\ RestOK
BY DEF TypeOK, HostOK, TableOK, SweepOK, AdoptOK, RestOK, SweepType, AdoptType, RequestOK, Budget

LEMMA PartsPrime == TypeOK' <=> HostOK' /\ TableOK' /\ SweepOK' /\ AdoptOK' /\ RestOK'
BY DEF TypeOK, HostOK, TableOK, SweepOK, AdoptOK, RestOK, SweepType, AdoptType, RequestOK, Budget

\* A spent budget stays one.
LEMMA BudgetType ==
    ASSUME budget \in Budget
    PROVE  /\ budget.calls > 0 => [budget EXCEPT !.calls = @ - 1] \in Budget
           /\ budget.recreates > 0 => [budget EXCEPT !.recreates = @ - 1] \in Budget
<1>1. \A n \in {MaxCalls, MaxRecreates} : n \in Nat
    BY FleetAssumption
<1>2. \A n \in Nat : \A k \in 0 .. n : k > 0 => k - 1 \in 0 .. n
    OBVIOUS
<1> QED BY <1>1, <1>2 DEF Budget

LEMMA WaitingType ==
    /\ Waiting \in SweepType /\ Waiting \in AdoptType
    /\ Waiting.pc = "wait" /\ RequestOK(Waiting)
<1>1. 0 \in 0 .. MaxRows
    BY FleetAssumption
<1> QED BY <1>1 DEF Waiting, SweepType, AdoptType, Process, RequestOK, Ready, Opt

\* Docker's listing, and what is inspected of a container.
LEMMA ItemsType == HostOK => Items \subseteq Item
BY DEF HostOK, Items, Item

LEMMA RecordType ==
    ASSUME HostOK, NEW c \in CID, Live(c) PROVE RecordOf(c) \in Record
BY DEF HostOK, RecordOf, Record

\* The stack of a service's container.
LEMMA StackType ==
    ASSUME NEW x \in Item PROVE StackOf[x.name[1]] \in Stacks
BY FleetAssumption DEF Item, Names

\* A row that is added or updated, deleted, or brought up to date.
LEMMA AddType ==
    ASSUME TableOK, NEW r, NEW n \in Names, NEW s \in Stacks, NEW rec \in Record,
           AddManaged(r, n, s, rec), UNCHANGED <<stacks, asked>>
    PROVE  TableOK'
<1>1. CASE s \notin stacks
    BY <1>1 DEF AddManaged, TableOK
<1>2. CASE s \in stacks
    <2> DEFINE m == IF rows[r] = None THEN n ELSE rows[r].name
    <2> DEFINE w == [name |-> m, stack |-> s, cid |-> rec.cid, spec |-> rec.spec, named |-> rec.named]
    <2>1. r \in RowIds /\ rows' = [rows EXCEPT ![r] = w]
        BY <1>2 DEF AddManaged
    <2>2. m \in Names
        BY <2>1 DEF TableOK, Opt, Row
    <2>3. w \in Row /\ w.stack \in stacks
        BY <1>2, <2>2 DEF Row, Record
    <2> HIDE DEF w
    <2> QED BY <2>1, <2>3 DEF TableOK, Opt
<1> QED BY <1>1, <1>2

LEMMA SnapshotType ==
    ASSUME TableOK, NEW r \in RowIds, NEW rec \in Record, UpdateSnapshot(r, rec),
           UNCHANGED <<stacks, asked>>
    PROVE  TableOK'
<1>1. CASE rows[r] = None
    BY <1>1 DEF UpdateSnapshot, TableOK
<1>2. CASE rows[r] # None
    <2> DEFINE w == [rows[r] EXCEPT !.cid = rec.cid, !.spec = rec.spec, !.named = rec.named]
    <2>1. rows[r] \in Row /\ rows[r].stack \in stacks
        BY <1>2 DEF TableOK, Opt
    <2>2. rows' = [rows EXCEPT ![r] = w]
        BY <1>2, <2>1 DEF UpdateSnapshot, TableOK
    <2>3. w \in Row /\ w.stack \in stacks
        BY <2>1 DEF Row, Record
    <2> HIDE DEF w
    <2> QED BY <2>2, <2>3 DEF TableOK, Opt
<1> QED BY <1>1, <1>2

LEMMA DeleteType ==
    ASSUME TableOK, NEW r \in RowIds, rows[r] # None, DeleteManaged(r) PROVE TableOK'
<1>1. rows' \in [RowIds -> Opt(Row)] /\ rows'[r] = None /\ \A q \in RowIds \ {r} : rows'[q] = rows[q]
    BY DEF DeleteManaged, TableOK, Opt
<1>2. stacks' \subseteq stacks /\ asked' \subseteq asked
    BY DEF DeleteManaged
<1>3. \A q \in RowIds \ {r} : rows[q] # None => rows[q].stack \in stacks'
    BY DEF DeleteManaged, TableOK
<1> QED BY <1>1, <1>2, <1>3 DEF TableOK

\* Each kind of step of the sweep's program counter keeps its record's type.
LEMMA LookType ==
    ASSUME SweepOK, NEW l \in {"insert", "write"}, NEW x \in Item, NEW r \in 0 .. MaxRows,
           NEW rec \in Record, l = "write" => r # 0,
           \/ sweep' = [sweep EXCEPT !.pc = l, !.item = x, !.row = r, !.rec = rec]
           \/ l = "insert" /\ sweep' = [sweep EXCEPT !.pc = l, !.item = x, !.rec = rec]
    PROVE  SweepOK'
<1>1. sweep' \in SweepType /\ sweep'.item = x /\ sweep'.rec = rec /\ sweep'.pc = l
    BY DEF SweepOK, SweepType, Process, Opt
<1>2. l = "write" => sweep'.row = r
    BY DEF SweepOK, SweepType, Process
<1>3. r # 0 => r \in RowIds
    BY FleetAssumption DEF RowIds
<1> QED BY <1>1, <1>2, <1>3 DEF SweepOK, Ready

LEMMA SkipType ==
    ASSUME SweepOK, NEW x, sweep.pc = "loop", sweep' = [sweep EXCEPT !.todo = @ \ {x}]
    PROVE  SweepOK'
<1>1. sweep' \in SweepType /\ sweep'.pc = "loop"
    BY DEF SweepOK, SweepType, Process
<1> QED BY <1>1 DEF SweepOK, Ready

LEMMA NextItemType ==
    ASSUME SweepOK, sweep' = NextItem PROVE SweepOK'
<1>1. 0 \in 0 .. MaxRows
    BY FleetAssumption
<1>2. sweep' \in SweepType /\ sweep'.pc = "loop"
    BY <1>1 DEF SweepOK, NextItem, SweepType, Process, Opt
<1> QED BY <1>2 DEF SweepOK, Ready

LEMMA WaitingOK ==
    /\ sweep' = Waiting => SweepOK'
    /\ adopt' = [a \in Adopters |-> Waiting] => AdoptOK'
BY WaitingType DEF SweepOK, AdoptOK, RequestOK, Ready

\* A step of one adoption.
LEMMA RequestType ==
    ASSUME AdoptOK, NEW a \in Adopters, NEW p \in AdoptType, RequestOK(p),
           adopt' = [adopt EXCEPT ![a] = p]
    PROVE  AdoptOK'
BY DEF AdoptOK

LEMMA TypeSweep ==
    ASSUME TypeOK, Sweep PROVE TypeOK'
<1> USE Parts, PartsPrime
<1>1. ASSUME HostOK', TableOK', SweepOK', AdoptOK', RestOK' PROVE TypeOK'
    BY <1>1
<1>2. HostOK /\ TableOK /\ SweepOK /\ AdoptOK /\ RestOK
    OBVIOUS
<1>3. UNCHANGED <<ctr, adopt, budget>>
    BY DEF Sweep, SweepList, SweepRows, SweepInsert, SweepWrite, SweepForget, SweepLookNew, SweepLookAgain
<1>4. HostOK' /\ AdoptOK'
    BY <1>2, <1>3 DEF HostOK, Live, AdoptOK
<1>5. RestOK'
    <2>1. CASE SweepInsert
        <3>1. sweep.item.name \in Names
            BY <1>2, <2>1 DEF SweepInsert, SweepOK, Ready, Item
        <3> QED BY <1>2, <2>1, <3>1 DEF SweepInsert, RestOK
    <2>2. CASE raced' = raced
        BY <1>2, <1>3, <2>2 DEF RestOK
    <2> QED BY <2>1, <2>2 DEF Sweep, SweepList, SweepRows, SweepWrite, SweepForget, SweepLookNew, SweepLookAgain
<1>6. ASSUME UNCHANGED <<rows, stacks, asked>> PROVE TableOK'
    BY <1>2, <1>6 DEF TableOK
<1> HIDE Parts, PartsPrime
<1>7. CASE SweepList
    <2>1. sweep' \in SweepType /\ sweep'.pc = "rows"
        BY <1>2, <1>7, ItemsType, WaitingType DEF SweepList, SweepType, Process
    <2>2. SweepOK'
        BY <2>1 DEF SweepOK, Ready
    <2> QED BY <1>1, <1>4, <1>5, <1>6, <1>7, <2>2 DEF SweepList
<1>8. CASE SweepRows
    <2> DEFINE B == {[row |-> r, name |-> rows[r].name, cid |-> rows[r].cid] :
                        r \in {q \in RowIds : rows[q] # None /\ q = Max(Managed(rows[q].name))}}
    <2> DEFINE T == {x \in sweep.seen : IsService(x)}
    <2>1. B \in SUBSET KnownRow
        BY <1>2 DEF TableOK, Opt, Row, KnownRow
    <2>2. T \in SUBSET Item
        BY <1>2 DEF SweepOK, SweepType, Process
    <2>3. sweep' = [sweep EXCEPT !.pc = "loop", !.todo = T, !.byName = B]
        BY <1>8 DEF SweepRows
    <2> HIDE DEF B, T
    <2>4. sweep' \in SweepType /\ sweep'.pc = "loop"
        BY <1>2, <2>1, <2>2, <2>3 DEF SweepOK, SweepType, Process
    <2>5. SweepOK'
        BY <2>4 DEF SweepOK, Ready
    <2> QED BY <1>1, <1>4, <1>5, <1>6, <1>8, <2>5 DEF SweepRows
<1>9. CASE \E x \in sweep.todo : SweepLookNew(x)
    <2>1. PICK x \in sweep.todo : SweepLookNew(x)
        BY <1>9
    <2>2. x \in Item /\ x.cid \in CID
        BY <1>2 DEF SweepOK, SweepType, Process, Item
    <2>3. SweepOK'
        <3>1. CASE StackOf[x.name[1]] \in stacks /\ Live(x.cid)
            <4>1. RecordOf(x.cid) \in Record
                BY <1>2, <2>2, <3>1, RecordType
            <4>2. sweep' = [sweep EXCEPT !.pc = "insert", !.item = x, !.rec = RecordOf(x.cid)]
                BY <2>1, <3>1 DEF SweepLookNew
            <4> QED BY <1>2, <2>2, <4>1, <4>2, ByNameType, LookType
        <3>2. CASE ~(StackOf[x.name[1]] \in stacks /\ Live(x.cid))
            BY <1>2, <2>1, <3>2, SkipType DEF SweepLookNew
        <3> QED BY <3>1, <3>2
    <2> QED BY <1>1, <1>4, <1>5, <1>6, <2>1, <2>3 DEF SweepLookNew
<1>10. CASE \E x \in sweep.todo : SweepLookAgain(x)
    <2>1. PICK x \in sweep.todo : SweepLookAgain(x)
        BY <1>10
    <2> DEFINE r == ManagedByName(x.name)
    <2>2. x \in Item /\ x.cid \in CID /\ r \in 0 .. MaxRows
        BY <1>2, ByNameType DEF SweepOK, SweepType, Process, Item
    <2> DEFINE go == /\ \A k \in Known(x) : k.cid # x.cid
                     /\ r # 0 /\ rows[Max({1, r})].cid # x.cid
                     /\ Live(x.cid) /\ ctr[x.cid].settled
    <2>3. sweep.pc = "loop" /\ sweep' = IF go
             THEN [sweep EXCEPT !.pc = "write", !.item = x, !.row = r, !.rec = RecordOf(x.cid)]
             ELSE [sweep EXCEPT !.todo = @ \ {x}]
        BY <2>1 DEF SweepLookAgain
    <2>4. go => r # 0 /\ RecordOf(x.cid) \in Record
        BY <1>2, <2>2, RecordType
    <2> HIDE DEF go, r
    <2>5. SweepOK'
        <3>1. CASE go
            BY <1>2, <2>2, <2>3, <2>4, <3>1, LookType
        <3>2. CASE ~go
            BY <1>2, <2>3, <3>2, SkipType
        <3> QED BY <3>1, <3>2
    <2> QED BY <1>1, <1>4, <1>5, <1>6, <2>1, <2>5 DEF SweepLookAgain
<1>11. CASE SweepInsert
    <2>1. sweep.item \in Item /\ sweep.rec \in Record /\ sweep.item.name \in Names
        BY <1>2, <1>11 DEF SweepInsert, SweepOK, Ready, Item
    <2>2. StackOf[sweep.item.name[1]] \in Stacks
        BY <2>1, StackType
    <2>3. TableOK'
        BY <1>2, <1>11, <2>1, <2>2, AddType DEF SweepInsert
    <2> QED BY <1>1, <1>2, <1>4, <1>5, <1>11, <2>3, NextItemType DEF SweepInsert
<1>12. CASE SweepWrite
    <2>1. sweep.row \in RowIds /\ sweep.rec \in Record
        BY <1>2, <1>12 DEF SweepWrite, SweepOK, Ready
    <2>2. TableOK'
        BY <1>2, <1>12, <2>1, SnapshotType DEF SweepWrite
    <2> QED BY <1>1, <1>2, <1>4, <1>5, <1>12, <2>2, NextItemType DEF SweepWrite
<1>13. CASE SweepForget
    <2> DEFINE stale == {k \in sweep.byName : k.name[2] # "own" /\ k.name \notin {x.name : x \in sweep.seen}}
    <2>1. CASE stale = {}
        BY <1>1, <1>4, <1>5, <1>6, <1>13, <2>1, WaitingOK DEF SweepForget
    <2>2. CASE stale # {}
        <3>1. PICK k \in stale :
                /\ sweep' = [sweep EXCEPT !.byName = @ \ {k}]
                /\ IF rows[k.row] # None THEN DeleteManaged(k.row) ELSE UNCHANGED <<rows, stacks, asked>>
            BY <1>13, <2>2 DEF SweepForget
        <3>2. k.row \in RowIds
            BY <1>2 DEF SweepOK, SweepType, Process, KnownRow
        <3>3. sweep' \in SweepType /\ sweep'.pc = "loop"
            BY <1>2, <1>13, <3>1 DEF SweepForget, SweepOK, SweepType, Process
        <3>4. SweepOK'
            BY <3>3 DEF SweepOK, Ready
        <3>5. TableOK'
            BY <1>2, <1>6, <3>1, <3>2, DeleteType
        <3> QED BY <1>1, <1>4, <1>5, <3>4, <3>5
    <2> QED BY <2>1, <2>2
<1> QED BY <1>7, <1>8, <1>9, <1>10, <1>11, <1>12, <1>13 DEF Sweep

\* An adoption.
LEMMA TypeAdopt ==
    ASSUME TypeOK, NEW a \in Adopters, Adopting(a) \/ \E s \in Stacks : AdoptList(a, s) PROVE TypeOK'
<1>2. HostOK /\ TableOK /\ SweepOK /\ AdoptOK /\ RestOK
    BY Parts
<1>3. UNCHANGED <<ctr, sweep>>
    BY DEF Adopting, AdoptList, UpsertStack, AdoptAdd, AdoptEnd, AdoptLook
<1>4. HostOK' /\ SweepOK'
    BY <1>2, <1>3 DEF HostOK, Live, SweepOK, Ready
<1>5. ASSUME TableOK', AdoptOK', RestOK' PROVE TypeOK'
    BY <1>4, <1>5, PartsPrime
<1>6. ASSUME UNCHANGED <<rows, stacks, asked>> PROVE TableOK'
    BY <1>2, <1>6 DEF TableOK
<1>7. ASSUME UNCHANGED <<raced, budget>> PROVE RestOK'
    BY <1>2, <1>7 DEF RestOK
<1>p. adopt[a] \in AdoptType /\ RequestOK(adopt[a])
    BY <1>2 DEF AdoptOK
<1>8. CASE \E s \in Stacks : AdoptList(a, s)
    <2>1. PICK s \in Stacks : AdoptList(a, s)
        BY <1>8
    <2> DEFINE T == {x \in Items : IsService(x) /\ StackOf[x.name[1]] = s}
    <2> DEFINE p == [Waiting EXCEPT !.pc = "upsert", !.row = s, !.todo = T]
    <2>2. T \in SUBSET Item
        BY <1>2, ItemsType
    <2>3. adopt' = [adopt EXCEPT ![a] = p]
        BY <2>1 DEF AdoptList
    <2> HIDE DEF T
    <2>4. p \in AdoptType /\ p.pc = "upsert" /\ p.row = s
        BY <2>2, WaitingType DEF AdoptType, Process
    <2>5. RequestOK(p)
        BY <2>4 DEF RequestOK, Ready
    <2> HIDE DEF p
    <2>6. AdoptOK'
        BY <1>2, <2>3, <2>4, <2>5, RequestType
    <2>7. RestOK'
        BY <1>2, <2>1, BudgetType DEF AdoptList, RestOK
    <2> QED BY <1>5, <1>6, <2>1, <2>6, <2>7 DEF AdoptList
<1>9. CASE UpsertStack(a)
    <2>1. adopt[a].row \in Stacks
        BY <1>p, <1>9 DEF UpsertStack, RequestOK
    <2>2. TableOK'
        BY <1>2, <1>9, <2>1 DEF UpsertStack, TableOK
    <2> DEFINE p == [adopt[a] EXCEPT !.pc = "loop", !.row = 0]
    <2>3. 0 \in 0 .. MaxRows
        BY FleetAssumption
    <2>4. p \in AdoptType /\ p.pc = "loop"
        BY <1>p, <2>3 DEF AdoptType, Process
    <2>5. adopt' = [adopt EXCEPT ![a] = p]
        BY <1>2, <1>9 DEF UpsertStack, AdoptOK
    <2>6. RequestOK(p)
        BY <2>4 DEF RequestOK, Ready
    <2> HIDE DEF p
    <2>7. AdoptOK'
        BY <1>2, <2>4, <2>5, <2>6, RequestType
    <2> QED BY <1>5, <1>7, <1>9, <2>2, <2>7 DEF UpsertStack
<1>10. CASE \E x \in adopt[a].todo : AdoptLook(a, x)
    <2>1. PICK x \in adopt[a].todo : AdoptLook(a, x)
        BY <1>10
    <2>2. x \in Item /\ x.cid \in CID /\ ManagedByName(x.name) \in 0 .. MaxRows
        BY <1>p, ByNameType DEF AdoptType, Process, Item
    <2>3. AdoptOK'
        <3>1. CASE Live(x.cid)
            <4> DEFINE p == [adopt[a] EXCEPT !.pc = "add", !.item = x, !.rec = RecordOf(x.cid),
                                             !.row = ManagedByName(x.name)]
            <4>1. RecordOf(x.cid) \in Record
                BY <1>2, <2>2, <3>1, RecordType
            <4>2. adopt' = [adopt EXCEPT ![a] = p]
                BY <2>1, <3>1 DEF AdoptLook
            <4>3. p \in AdoptType /\ p.pc = "add" /\ p.item = x /\ p.rec = RecordOf(x.cid)
                BY <1>p, <2>2, <4>1 DEF AdoptType, Process, Opt
            <4>4. RequestOK(p)
                BY <2>2, <4>1, <4>3 DEF RequestOK, Ready
            <4> HIDE DEF p
            <4> QED BY <1>2, <4>2, <4>3, <4>4, RequestType
        <3>2. CASE ~Live(x.cid)
            <4>1. adopt' = [adopt EXCEPT ![a] = Waiting]
                BY <2>1, <3>2 DEF AdoptLook
            <4> QED BY <1>2, <4>1, RequestType, WaitingType
        <3> QED BY <3>1, <3>2
    <2> QED BY <1>5, <1>6, <1>7, <2>1, <2>3 DEF AdoptLook
<1>11. CASE AdoptAdd(a)
    <2> DEFINE s == StackOf[adopt[a].item.name[1]]
    <2>1. adopt[a].item \in Item /\ adopt[a].rec \in Record /\ adopt[a].item.name \in Names
        BY <1>p, <1>11 DEF AdoptAdd, RequestOK, Ready, Item
    <2>2. s \in Stacks
        BY <2>1, StackType
    <2>3. TableOK'
        BY <1>2, <1>11, <2>1, <2>2, AddType DEF AdoptAdd
    <2>4. AdoptOK'
        <3>1. CASE s \in stacks
            <4> DEFINE p == [adopt[a] EXCEPT !.pc = "loop", !.todo = @ \ {adopt[a].item},
                                             !.item = NoItem, !.rec = None, !.row = 0]
            <4>0. 0 \in 0 .. MaxRows
                BY FleetAssumption
            <4>1. adopt' = [adopt EXCEPT ![a] = p]
                BY <1>11, <3>1 DEF AdoptAdd
            <4>2. p \in AdoptType /\ p.pc = "loop"
                BY <1>p, <4>0 DEF AdoptType, Process, Opt
            <4>3. RequestOK(p)
                BY <4>2 DEF RequestOK, Ready
            <4> HIDE DEF p
            <4> QED BY <1>2, <4>1, <4>2, <4>3, RequestType
        <3>2. CASE s \notin stacks
            <4>1. adopt' = [adopt EXCEPT ![a] = Waiting]
                BY <1>11, <3>2 DEF AdoptAdd
            <4> QED BY <1>2, <4>1, RequestType, WaitingType
        <3> QED BY <3>1, <3>2
    <2>5. RestOK'
        BY <1>2, <1>11, <2>1 DEF AdoptAdd, RestOK
    <2> QED BY <1>5, <2>3, <2>4, <2>5
<1>12. CASE AdoptEnd(a)
    <2>1. adopt' = [adopt EXCEPT ![a] = Waiting]
        BY <1>12 DEF AdoptEnd
    <2>2. AdoptOK'
        BY <1>2, <2>1, RequestType, WaitingType
    <2> QED BY <1>5, <1>6, <1>7, <1>12, <2>2 DEF AdoptEnd
<1> QED BY <1>8, <1>9, <1>10, <1>11, <1>12 DEF Adopting

\* The user at the host changes one container, to one whose name it had or was free.
HostMove(c, k) ==
    /\ k \in Container /\ (k.st = "live" => k.name \in Names /\ k.spec \in Specs)
    /\ k.st = "live" => (Live(c) /\ k.name = ctr[c].name) \/ Held(k.name) = {}
    /\ ctr' = [ctr EXCEPT ![c] = k]
    /\ UNCHANGED <<stacks, rows, sweep, adopt, asked, raced>>

\* The name of a container, renamed in its second part.
LEMMA NamePart ==
    ASSUME NEW n \in Names, NEW w \in CID \cup {"own"}
    PROVE  [n EXCEPT ![2] = w] = <<n[1], w>> /\ <<n[1], w>> \in Names
BY DEF Names

LEMMA HostEffect ==
    ASSUME HostOK, budget \in Budget, Host
    PROVE  (\E c \in CID, k \in Container : HostMove(c, k)) /\ budget' \in Budget
<1>1. PICK c \in CID : \/ \E n \in Services, x \in Specs : Create(c, n, x) \/ CreateBeside(c, n, x)
                       \/ ParkOld(c) \/ RenameNew(c) \/ Remove(c) \/ Settle(c)
    BY DEF Host
<1>2. budget' \in Budget
    BY <1>1, BudgetType DEF Create, CreateBeside, ParkOld, RenameNew, Remove, Settle
<1>3. ctr[c] \in Container /\ (Live(c) => ctr[c].name \in Names /\ ctr[c].spec \in Specs)
    BY DEF HostOK
<1>4. ASSUME NEW n \in Names, NEW x \in Specs, Held(n) = {}, HostStep(NewContainer(c, n, x))
      PROVE  \E k \in Container : HostMove(c, k)
    <2> DEFINE k == [st |-> "live", name |-> n, spec |-> x, settled |-> FALSE]
    <2>1. k \in Container
        BY DEF Container, Opt
    <2>2. HostMove(c, k)
        BY <1>4, <2>1 DEF HostMove, HostStep, NewContainer
    <2> QED BY <2>1, <2>2
<1>5. CASE \E n \in Services, x \in Specs : Create(c, n, x)
    <2>1. PICK n \in Services, x \in Specs : Create(c, n, x)
        BY <1>5
    <2>2. <<n, "own">> \in Names
        BY DEF Names
    <2> QED BY <1>2, <1>4, <2>1, <2>2 DEF Create
<1>6. CASE \E n \in Services, x \in Specs : CreateBeside(c, n, x)
    <2>1. PICK n \in Services, x \in Specs : CreateBeside(c, n, x)
        BY <1>6
    <2>2. PICK d \in Held(<<n, "own">>) : Held(<<n, d>>) = {} /\ HostStep(NewContainer(c, <<n, d>>, x))
        BY <2>1 DEF CreateBeside
    <2>3. <<n, d>> \in Names
        BY DEF Names, Held
    <2> QED BY <1>2, <1>4, <2>2, <2>3
<1>7. ASSUME NEW w \in CID \cup {"own"}, Live(c), Held(<<ctr[c].name[1], w>>) = {},
             HostStep([ctr EXCEPT ![c].name[2] = w])
      PROVE  \E k \in Container : HostMove(c, k)
    <2> DEFINE m == <<ctr[c].name[1], w>>
    <2> DEFINE k == [ctr[c] EXCEPT !.name = m]
    <2>1. m \in Names /\ [ctr[c].name EXCEPT ![2] = w] = m
        BY <1>3, <1>7, NamePart
    <2>2. k \in Container /\ k.name = m /\ k.spec \in Specs
        BY <1>3, <1>7, <2>1 DEF Container, Opt
    <2>3. ctr' = [ctr EXCEPT ![c] = k]
        BY <1>7, <2>1 DEF HostStep, HostOK, Container
    <2>4. Held(m) = {}
        BY <1>7
    <2> HIDE DEF m, k
    <2>5. HostMove(c, k)
        BY <1>7, <2>1, <2>2, <2>3, <2>4 DEF HostMove, HostStep
    <2> QED BY <2>2, <2>5
<1>8. CASE ParkOld(c)
    BY <1>2, <1>7, <1>8 DEF ParkOld
<1>9. CASE RenameNew(c)
    BY <1>2, <1>7, <1>9 DEF RenameNew
<1>10. CASE Remove(c)
    <2> DEFINE k == [NoContainer EXCEPT !.st = "gone"]
    <2>1. k \in Container /\ k.st = "gone"
        BY DEF NoContainer, Container, Opt
    <2>2. HostMove(c, k)
        BY <1>10, <2>1 DEF HostMove, HostStep, Remove
    <2> QED BY <1>2, <2>1, <2>2
<1>11. CASE Settle(c)
    <2> DEFINE k == [ctr[c] EXCEPT !.settled = TRUE]
    <2>1. Live(c) /\ k \in Container /\ k.name = ctr[c].name /\ k.spec = ctr[c].spec
        BY <1>3, <1>11 DEF Settle, Container
    <2>2. ctr' = [ctr EXCEPT ![c] = k]
        BY <1>11 DEF Settle, HostStep, HostOK, Container
    <2> HIDE DEF k
    <2>3. HostMove(c, k)
        BY <1>3, <1>11, <2>1, <2>2 DEF HostMove, HostStep, Settle
    <2> QED BY <1>2, <2>1, <2>3
<1> QED BY <1>1, <1>5, <1>6, <1>8, <1>9, <1>10, <1>11

LEMMA TypeHost ==
    ASSUME TypeOK, Host PROVE TypeOK'
<1>1. HostOK /\ TableOK /\ SweepOK /\ AdoptOK /\ RestOK
    BY Parts
<1>2. PICK c \in CID, k \in Container : HostMove(c, k)
    BY <1>1, HostEffect DEF RestOK
<1>3. HostOK'
    BY <1>1, <1>2 DEF HostMove, HostOK, Live
<1>4. RestOK'
    BY <1>1, <1>2, HostEffect DEF RestOK, HostMove
<1>5. TableOK' /\ SweepOK' /\ AdoptOK'
    BY <1>1, <1>2 DEF HostMove, TableOK, SweepOK, AdoptOK, Ready
<1> QED BY <1>3, <1>4, <1>5, PartsPrime

\* The forgetting of containers and stacks, and a crash.
LEMMA TypeForget ==
    ASSUME TypeOK, Crash \/ (\E s \in Stacks : ForgetStack(s)) \/ (\E r \in RowIds : ForgetContainer(r))
    PROVE  TypeOK'
<1>1. HostOK /\ TableOK /\ SweepOK /\ AdoptOK /\ RestOK
    BY Parts
<1>2. HostOK'
    BY <1>1 DEF Crash, ForgetStack, ForgetContainer, HostOK, Live
<1>3. RestOK'
    BY <1>1, BudgetType DEF Crash, ForgetStack, ForgetContainer, RestOK
<1>4. SweepOK' /\ AdoptOK'
    <2>1. CASE Crash
        BY <2>1, WaitingOK DEF Crash
    <2>2. CASE UNCHANGED <<sweep, adopt>>
        BY <1>1, <2>2 DEF SweepOK, AdoptOK, Ready
    <2> QED BY <2>1, <2>2 DEF ForgetStack, ForgetContainer
<1>5. TableOK'
    <2>1. CASE Crash
        BY <1>1, <2>1 DEF Crash, TableOK
    <2>2. CASE \E s \in Stacks : ForgetStack(s)
        BY <1>1, <2>2 DEF ForgetStack, TableOK, Opt
    <2>3. CASE \E r \in RowIds : ForgetContainer(r)
        BY <1>1, <2>3, DeleteType DEF ForgetContainer
    <2> QED BY <2>1, <2>2, <2>3
<1> QED BY <1>2, <1>3, <1>4, <1>5, PartsPrime

LEMMA TypeInit == Init => TypeOK
<1> SUFFICES ASSUME Init PROVE TypeOK
    OBVIOUS
<1>0. PICK old \in BOOLEAN :
        /\ ctr = [c \in CID |-> IF old /\ c = Leftover.cid
                                THEN [NoContainer EXCEPT !.st = "gone"] ELSE NoContainer]
        /\ rows = [r \in RowIds |-> IF old /\ r = 1 THEN Leftover ELSE None]
        /\ stacks = IF old THEN {Leftover.stack} ELSE {}
    BY DEF Init
<1>1. Leftover \in Row /\ Leftover.stack \in Stacks
    <2>1. (CHOOSE n \in Services : TRUE) \in Services /\ (CHOOSE c \in CID : TRUE) \in CID
          /\ (CHOOSE x \in Good : TRUE) \in Specs
        BY FleetAssumption
    <2> QED BY <2>1, FleetAssumption DEF Leftover, Row, Names
<1> HIDE DEF Leftover
<1>2. HostOK
    <2>1. NoContainer \in Container /\ [NoContainer EXCEPT !.st = "gone"] \in Container
          /\ NoContainer.st # "live" /\ [NoContainer EXCEPT !.st = "gone"].st # "live"
        BY DEF NoContainer, Container, Opt
    <2> HIDE DEF NoContainer
    <2>2. \A c \in CID : ctr[c] \in Container /\ ctr[c].st # "live"
        BY <1>0, <2>1
    <2> QED BY <1>0, <2>2 DEF HostOK, Live
<1>3. TableOK
    BY <1>0, <1>1 DEF Init, TableOK, Opt
<1>4. SweepOK /\ AdoptOK
    BY WaitingType DEF Init, SweepOK, AdoptOK, RequestOK, Ready
<1>5. RestOK
    <2>1. \A n \in {MaxCalls, MaxRecreates} : n \in 0 .. n
        BY FleetAssumption
    <2>2. budget \in Budget
        BY <2>1 DEF Init, Budget
    <2> QED BY <2>2 DEF Init, RestOK
<1> QED BY <1>2, <1>3, <1>4, <1>5, Parts

LEMMA TypeStep == TypeOK /\ [Next]_vars => TypeOK'
<1> SUFFICES ASSUME TypeOK, [Next]_vars PROVE TypeOK'
    OBVIOUS
<1>1. CASE UNCHANGED vars
    BY <1>1 DEF vars, TypeOK, Live, Ready
<1> QED BY <1>1, TypeSweep, TypeAdopt, TypeHost, TypeForget DEF Next

\* Every variable keeps its type, a row's stack exists (the foreign key of
\* managed_containers), and what a sweep or an adoption is about to write is complete.
THEOREM TypeCorrect == Spec => []TypeOK
BY TypeInit, TypeStep, PTL DEF Spec

-----------------------------------------------------------------------------
(* A stack the user has forgotten comes back only by an adoption.          *)

LEMMA AskedStep == ForgottenStays /\ [Next]_vars => ForgottenStays'
<1> SUFFICES ASSUME ForgottenStays, [Next]_vars PROVE ForgottenStays'
    OBVIOUS
<1>1. ASSUME UNCHANGED <<stacks, asked>> PROVE ForgottenStays'
    BY <1>1 DEF ForgottenStays
<1>2. ASSUME NEW r, DeleteManaged(r) PROVE ForgottenStays'
    BY <1>2 DEF DeleteManaged, ForgottenStays
<1>3. CASE SweepForget
    BY <1>1, <1>2, <1>3 DEF SweepForget
<1>5. CASE \E s \in Stacks : ForgetStack(s)
    BY <1>5 DEF ForgetStack, ForgottenStays
<1>6. CASE \E r \in RowIds : ForgetContainer(r)
    BY <1>2, <1>6 DEF ForgetContainer
<1>7. CASE SweepList \/ SweepRows \/ SweepInsert \/ SweepWrite \/ \E x \in sweep.todo : SweepLookNew(x) \/ SweepLookAgain(x)
    BY <1>1, <1>7 DEF SweepList, SweepRows, SweepInsert, SweepWrite, SweepLookNew, SweepLookAgain
<1>9. CASE Host
    BY <1>1, <1>9 DEF Host, HostStep, Create, CreateBeside, ParkOld, RenameNew, Remove, Settle
<1>10. CASE Crash \/ UNCHANGED vars
    BY <1>1, <1>10 DEF Crash, vars
<1>11. CASE \E a \in Adopters : Adopting(a) \/ \E s \in Stacks : AdoptList(a, s)
    <2>1. PICK a \in Adopters : Adopting(a) \/ \E s \in Stacks : AdoptList(a, s)
        BY <1>11
    <2>2. CASE UpsertStack(a)
        BY <2>2 DEF UpsertStack, ForgottenStays
    <2>3. CASE UNCHANGED <<stacks, asked>>
        BY <1>1, <2>3
    <2> QED BY <2>1, <2>2, <2>3 DEF Adopting, AdoptAdd, AdoptEnd, AdoptLook, AdoptList
<1>12. CASE Sweep
    BY <1>3, <1>7, <1>12 DEF Sweep
<1> QED BY <1>5, <1>6, <1>9, <1>10, <1>11, <1>12 DEF Next

\* A stack the user has forgotten comes back only when it is adopted again: neither a
\* sweep between its look and its insert (adoptNew) nor an adoption under way when the
\* stack is forgotten (Adopt) brings it back.
THEOREM ForgottenForGood == Spec => []ForgottenStays
<1>1. Init => ForgottenStays
    BY DEF Init, ForgottenStays
<1> QED BY <1>1, AskedStep, PTL DEF Spec

-----------------------------------------------------------------------------
(* A container has one row.                                                *)

\* Docker keeps names unique, whatever the user does.
LEMMA NamesStep ==
    ASSUME TypeOK, NamesUnique, [Next]_vars PROVE NamesUnique'
<1>1. CASE Host
    <2>1. HostOK /\ budget \in Budget
        BY Parts DEF RestOK
    <2>2. PICK c \in CID, k \in Container : HostMove(c, k)
        BY <1>1, <2>1, HostEffect
    <2>3. \A d \in CID : ctr'[d] = IF d = c THEN k ELSE ctr[d]
        BY <2>1, <2>2 DEF HostMove, HostOK
    <2>4. k.st = "live" => \A d \in CID \ {c} : Live(d) => ctr[d].name # k.name
        BY <2>2 DEF HostMove, Held, NamesUnique
    <2> QED BY <2>3, <2>4 DEF NamesUnique, Live
<1>2. CASE ctr' = ctr
    BY <1>2 DEF NamesUnique, Live
<1> QED BY <1>1, <1>2 DEF Next, vars, Sweep, Adopting, Crash, AdoptList, ForgetStack, ForgetContainer,
        SweepList, SweepRows, SweepInsert, SweepWrite, SweepForget, SweepLookNew, SweepLookAgain,
        UpsertStack, AdoptAdd, AdoptEnd, AdoptLook

\* Steps that leave the sweep alone.
LEMMA NotSweep ==
    ASSUME [Next]_vars PROVE Sweep \/ Crash \/ sweep' = sweep
<1>1. CASE (\E a \in Adopters : Adopting(a) \/ \E s \in Stacks : AdoptList(a, s)) \/ \E s \in Stacks : ForgetStack(s)
    BY <1>1 DEF Adopting, AdoptList, ForgetStack, UpsertStack, AdoptAdd, AdoptEnd, AdoptLook
<1>2. CASE Host \/ UNCHANGED vars \/ \E r \in RowIds : ForgetContainer(r)
    BY <1>2 DEF Host, HostStep, Create, CreateBeside, ParkOld, RenameNew, Remove, Settle, ForgetContainer, vars
<1> QED BY <1>1, <1>2 DEF Next

\* What the steps of the sweep do to its lists.
LEMMA ListFields ==
    ASSUME SweepList PROVE sweep'.pc = "rows" /\ sweep'.seen = Items /\ sweep'.todo = {}
BY DEF SweepList, Waiting

LEMMA RowsFields ==
    ASSUME SweepOK, SweepRows
    PROVE  /\ sweep'.pc = "loop" /\ sweep'.seen = sweep.seen /\ sweep'.todo = {x \in sweep.seen : IsService(x)}
           /\ sweep'.byName = {[row |-> r, name |-> rows[r].name, cid |-> rows[r].cid] :
                                 r \in {q \in RowIds : rows[q] # None /\ q = Max(Managed(rows[q].name))}}
BY DEF SweepRows, SweepOK, SweepType, Process

LEMMA LookFields ==
    ASSUME SweepOK, NEW x \in sweep.todo, SweepLookNew(x) \/ SweepLookAgain(x)
    PROVE  /\ sweep.pc = "loop" /\ sweep'.seen = sweep.seen /\ sweep'.byName = sweep.byName
           /\ \/ sweep'.pc = "loop" /\ sweep'.todo = sweep.todo \ {x}
              \/ sweep'.pc = "insert" /\ Known(x) = {} /\ sweep'.item = x /\ sweep'.todo = sweep.todo
              \/ sweep'.pc = "write" /\ sweep'.item = x /\ sweep'.todo = sweep.todo
           /\ UNCHANGED <<rows, adopt, raced>>
<1>1. CASE SweepLookNew(x)
    <2>1. CASE StackOf[x.name[1]] \in stacks /\ Live(x.cid)
        BY <1>1, <2>1 DEF SweepLookNew, SweepOK, SweepType, Process
    <2>2. CASE ~(StackOf[x.name[1]] \in stacks /\ Live(x.cid))
        BY <1>1, <2>2 DEF SweepLookNew, SweepOK, SweepType, Process
    <2> QED BY <2>1, <2>2
<1>2. CASE SweepLookAgain(x)
    <2>1. /\ sweep.pc = "loop" /\ UNCHANGED <<rows, adopt, raced>>
          /\ \/ sweep' = [sweep EXCEPT !.pc = "write", !.item = x, !.row = ManagedByName(x.name),
                                       !.rec = RecordOf(x.cid)]
             \/ sweep' = [sweep EXCEPT !.todo = @ \ {x}]
        BY <1>2 DEF SweepLookAgain
    <2> QED BY <2>1 DEF SweepOK, SweepType, Process
<1> QED BY <1>1, <1>2

LEMMA NextFields ==
    ASSUME SweepOK, sweep' = NextItem
    PROVE  /\ sweep'.pc = "loop" /\ sweep'.seen = sweep.seen /\ sweep'.byName = sweep.byName
           /\ sweep'.todo = sweep.todo \ {sweep.item}
BY DEF NextItem, SweepOK, SweepType, Process

LEMMA WaitingFields == Waiting.pc = "wait" /\ Waiting.seen = {} /\ Waiting.todo = {}
BY DEF Waiting

\* At the end of its loop the sweep waits, or drops a row and goes on.
LEMMA ForgetFields ==
    ASSUME SweepOK, SweepForget
    PROVE  /\ sweep' = Waiting \/ (sweep'.pc = "loop" /\ sweep'.seen = sweep.seen /\ sweep'.todo = {})
           /\ sweep.todo = {} /\ UNCHANGED <<adopt, raced>>
<1>1. sweep.pc = "loop" /\ sweep.todo = {} /\ UNCHANGED <<adopt, raced>>
      /\ (sweep' = Waiting \/ \E k : sweep' = [sweep EXCEPT !.byName = @ \ {k}])
    BY DEF SweepForget
<1> QED BY <1>1 DEF SweepOK, SweepType, Process

LEMMA TodoStep ==
    ASSUME TypeOK, NamesUnique, TodoInv, [Next]_vars PROVE TodoInv'
<1>0. SweepOK
    BY Parts
<1>1. CASE SweepList
    <2>1. \A x, y \in Items : x.name = y.name => x = y
        BY DEF Items, NamesUnique
    <2> QED BY <1>1, <2>1, ListFields DEF TodoInv
<1>2. CASE SweepRows
    BY <1>0, <1>2, RowsFields DEF TodoInv
<1>3. CASE \E x \in sweep.todo : SweepLookNew(x) \/ SweepLookAgain(x)
    <2>1. PICK x \in sweep.todo : SweepLookNew(x) \/ SweepLookAgain(x)
        BY <1>3
    <2> QED BY <1>0, <2>1, LookFields DEF TodoInv, Known
<1>4. CASE SweepInsert \/ SweepWrite
    <2>1. sweep' = NextItem
        BY <1>4 DEF SweepInsert, SweepWrite
    <2> QED BY <1>0, <2>1, NextFields DEF TodoInv
<1>5. CASE SweepForget
    BY <1>0, <1>5, ForgetFields, WaitingFields DEF TodoInv
<1>6. CASE Crash
    BY <1>6, WaitingFields DEF Crash, TodoInv
<1>7. CASE sweep' = sweep
    BY <1>7 DEF TodoInv, Known
<1> QED BY <1>1, <1>2, <1>3, <1>4, <1>5, <1>6, <1>7, NotSweep DEF Sweep

\* A step that adds no row under a name, and one that adds one.
RowsKept == \A r \in RowIds : rows'[r] # None => rows[r] # None /\ rows'[r].name = rows[r].name
RowAdded(r, n) ==
    /\ r \in RowIds /\ rows[r] = None /\ rows'[r].name = n
    /\ \A q \in RowIds \ {r} : rows'[q] = rows[q]

LEMMA AddFields ==
    ASSUME TableOK, NEW r, NEW n, NEW s, NEW rec, AddManaged(r, n, s, rec)
    PROVE  RowsKept \/ RowAdded(r, n)
<1>1. CASE s \notin stacks
    BY <1>1 DEF AddManaged, RowsKept
<1>2. CASE s \in stacks
    <2> DEFINE m == IF rows[r] = None THEN n ELSE rows[r].name
    <2> DEFINE w == [name |-> m, stack |-> s, cid |-> rec.cid, spec |-> rec.spec, named |-> rec.named]
    <2>1. r \in RowIds /\ rows' = [rows EXCEPT ![r] = w] /\ w.name = m
        BY <1>2 DEF AddManaged
    <2>2. rows'[r].name = m /\ \A q \in RowIds \ {r} : rows'[q] = rows[q]
        BY <2>1 DEF TableOK
    <2> QED BY <2>1, <2>2 DEF RowsKept, RowAdded
<1> QED BY <1>1, <1>2

LEMMA DeleteFields ==
    ASSUME TableOK, NEW r, DeleteManaged(r) PROVE RowsKept
BY DEF TableOK, DeleteManaged, RowsKept

\* RowsInv, name by name: the name has one row, the sweep that waits to insert one found
\* none, and an adoption that waits found what there is.
NameOK(n) ==
    /\ \A r, q \in Managed(n) : r = q
    /\ SweepWaits(n) => Managed(n) = {}
    /\ \A a \in Adopters : AdoptWaits(a, n) => Managed(n) \subseteq {adopt[a].row}

LEMMA RowsByName ==
    ASSUME RowsInv, raced \subseteq raced', \A n \in Names \ raced' : NameOK(n) => NameOK(n)'
    PROVE  RowsInv'
BY DEF RowsInv, NameOK

\* A step that adds no row of a name and sends nobody to insert one.
LEMMA KeptOK ==
    ASSUME NEW n, NameOK(n), Managed(n)' \subseteq Managed(n), SweepWaits(n)' => SweepWaits(n),
           \A a \in Adopters : AdoptWaits(a, n)' => AdoptWaits(a, n) /\ adopt'[a].row = adopt[a].row
    PROVE  NameOK(n)'
BY DEF NameOK

\* The first row of a name, when nobody is left who waits to insert one.
LEMMA FirstOK ==
    ASSUME NEW n, NEW r, Managed(n) = {}, RowAdded(r, n), ~SweepWaits(n)',
           \A a \in Adopters : ~AdoptWaits(a, n)'
    PROVE  NameOK(n)'
<1>1. Managed(n)' \subseteq {r}
    BY DEF RowAdded, Managed
<1> QED BY <1>1 DEF NameOK

LEMMA KeptNames ==
    ASSUME NEW n, RowsKept \/ \E r, m : RowAdded(r, m) /\ m # n
    PROVE  Managed(n)' \subseteq Managed(n)
BY DEF RowsKept, RowAdded, Managed

LEMMA KeptSweep ==
    ASSUME NEW n, sweep'.byName = sweep.byName, sweep'.todo \subseteq sweep.todo, Looping' => Looping
    PROVE  SweepWaits(n)' => SweepWaits(n)
BY DEF SweepWaits, Known

LEMMA KeptAdopt ==
    ASSUME NEW n, adopt' = adopt
    PROVE  \A a \in Adopters : AdoptWaits(a, n)' => AdoptWaits(a, n) /\ adopt'[a].row = adopt[a].row
BY DEF AdoptWaits

\* byName has a row of every name that has one.
LEMMA ByNameComplete ==
    ASSUME SweepOK, SweepRows, NEW n, \A r, q \in Managed(n) : r = q, SweepWaits(n)'
    PROVE  Managed(n)' = {}
<1>1. Managed(n)' = Managed(n)
    BY DEF SweepRows, Managed
<1>2. ASSUME NEW r \in Managed(n) PROVE FALSE
    <2>1. r \in RowIds /\ rows[r] # None /\ rows[r].name = n
        BY <1>2 DEF Managed
    <2>2. Managed(rows[r].name) = {r}
        BY <1>2, <2>1
    <2>3. r = Max(Managed(rows[r].name))
        <3>1. r >= r
            BY <2>1, FleetAssumption DEF RowIds
        <3> QED BY <2>2, <3>1 DEF Max
    <2>4. [row |-> r, name |-> rows[r].name, cid |-> rows[r].cid] \in sweep'.byName
        BY <2>1, <2>3, RowsFields
    <2>5. PICK x \in sweep'.todo : x.name = n /\ {k \in sweep'.byName : k.name = x.name} = {}
        BY DEF SweepWaits, Known
    <2> QED BY <2>1, <2>4, <2>5
<1> QED BY <1>1, <1>2

LEMMA RowsSweep ==
    ASSUME TypeOK, TodoInv, RowsInv, Sweep PROVE RowsInv'
<1>0. SweepOK /\ TableOK
    BY Parts
<1>1. raced \subseteq raced' /\ adopt' = adopt
    BY <1>0, ForgetFields DEF Sweep, SweepList, SweepRows, SweepInsert, SweepWrite, SweepLookNew, SweepLookAgain
<1> SUFFICES ASSUME NEW n \in Names \ raced', NameOK(n) PROVE NameOK(n)'
    BY <1>1, RowsByName
<1>a. ASSUME RowsKept, SweepWaits(n)' => SweepWaits(n) PROVE NameOK(n)'
    BY <1>1, <1>a, KeptNames, KeptAdopt, KeptOK
<1>2. CASE SweepList
    <2>1. RowsKept /\ ~SweepWaits(n)'
        BY <1>2, ListFields DEF SweepList, RowsKept, SweepWaits, Looping
    <2> QED BY <1>a, <2>1
<1>3. CASE SweepRows
    <2>1. Managed(n)' = Managed(n)
        BY <1>3 DEF SweepRows, Managed
    <2>2. SweepWaits(n)' => Managed(n)' = {}
        BY <1>0, <1>3, ByNameComplete DEF NameOK
    <2> QED BY <1>1, <2>1, <2>2 DEF NameOK, AdoptWaits
<1>4. CASE \E x \in sweep.todo : SweepLookNew(x) \/ SweepLookAgain(x)
    <2>1. PICK x \in sweep.todo : SweepLookNew(x) \/ SweepLookAgain(x)
        BY <1>4
    <2>2. RowsKept /\ Looping
        BY <1>0, <2>1, LookFields DEF RowsKept, Looping
    <2>3. sweep'.byName = sweep.byName /\ sweep'.todo \subseteq sweep.todo
        BY <1>0, <2>1, LookFields
    <2> QED BY <1>a, <2>2, <2>3, KeptSweep
<1>5. CASE SweepInsert
    <2>1. PICK m : m = sweep.item.name
        OBVIOUS
    <2>2. sweep.pc = "insert" /\ sweep' = NextItem /\ (RowsKept \/ RowAdded(NewRow, m))
        BY <1>0, <1>5, <2>1, AddFields DEF SweepInsert
    <2>3. /\ sweep'.pc = "loop" /\ sweep'.byName = sweep.byName /\ sweep'.todo = sweep.todo \ {sweep.item}
        BY <1>0, <2>2, NextFields
    <2>4. SweepWaits(n)' => SweepWaits(n)
        BY <2>2, <2>3, KeptSweep DEF Looping
    <2>5. CASE RowsKept
        BY <1>a, <2>4, <2>5
    <2>6. CASE RowAdded(NewRow, m) /\ n # m
        BY <1>1, <2>4, <2>6, KeptNames, KeptAdopt, KeptOK
    <2>7. CASE RowAdded(NewRow, m) /\ n = m
        <3>1. sweep.item \in sweep.todo /\ Known(sweep.item) = {}
              /\ \A x \in sweep.todo : x.name = sweep.item.name => x = sweep.item
            BY <2>2 DEF TodoInv
        <3>2. Managed(n) = {}
            BY <2>1, <2>2, <2>7, <3>1 DEF NameOK, SweepWaits, Looping
        <3>3. \A a \in Adopters : ~AdoptWaits(a, n)
            BY <1>5, <2>1, <2>7, <3>2 DEF SweepInsert
        <3>4. ~SweepWaits(n)'
            BY <2>1, <2>3, <2>7, <3>1 DEF SweepWaits
        <3>5. \A a \in Adopters : ~AdoptWaits(a, n)'
            BY <1>1, <3>3, KeptAdopt
        <3> QED BY <2>7, <3>2, <3>4, <3>5, FirstOK
    <2> QED BY <2>2, <2>5, <2>6, <2>7
<1>6. CASE SweepWrite
    <2>1. sweep.pc = "write" /\ sweep' = NextItem /\ UpdateSnapshot(sweep.row, sweep.rec)
        BY <1>6 DEF SweepWrite
    <2>2. RowsKept
        BY <1>0, <2>1 DEF UpdateSnapshot, TableOK, Opt, Row, RowsKept
    <2>3. sweep'.byName = sweep.byName /\ sweep'.todo \subseteq sweep.todo /\ Looping
        BY <1>0, <2>1, NextFields DEF Looping
    <2> QED BY <1>a, <2>2, <2>3, KeptSweep
<1>7. CASE SweepForget
    <2>1. sweep'.todo = {}
        BY <1>0, <1>7, ForgetFields, WaitingFields
    <2>2. rows' = rows \/ \E r : DeleteManaged(r)
        BY <1>7 DEF SweepForget
    <2>3. RowsKept
        BY <1>0, <2>2, DeleteFields DEF RowsKept
    <2>4. ~SweepWaits(n)'
        BY <2>1 DEF SweepWaits
    <2> QED BY <1>a, <2>3, <2>4
<1> QED BY <1>2, <1>3, <1>4, <1>5, <1>6, <1>7 DEF Sweep

\* An adoption, beside others.
LEMMA RowsAdopt ==
    ASSUME TypeOK, RowsInv, NEW a \in Adopters, Adopting(a) \/ \E s \in Stacks : AdoptList(a, s)
    PROVE  RowsInv'
<1>0. AdoptOK /\ TableOK /\ adopt[a] \in AdoptType
    BY Parts DEF AdoptOK
<1>1. raced \subseteq raced' /\ sweep' = sweep
    BY DEF Adopting, AdoptList, UpsertStack, AdoptAdd, AdoptEnd, AdoptLook
<1>2. \A b \in Adopters \ {a} : adopt'[b] = adopt[b]
    BY <1>0 DEF AdoptOK, Adopting, AdoptList, UpsertStack, AdoptAdd, AdoptEnd, AdoptLook
<1> SUFFICES ASSUME NEW n \in Names \ raced', NameOK(n) PROVE NameOK(n)'
    BY <1>1, RowsByName
<1>3. SweepWaits(n)' <=> SweepWaits(n)
    BY <1>1 DEF SweepWaits, Looping, Known
<1>4. \A b \in Adopters \ {a} : AdoptWaits(b, n)' <=> AdoptWaits(b, n)
    BY <1>2 DEF AdoptWaits
<1>5. ASSUME Managed(n)' \subseteq Managed(n), ~AdoptWaits(a, n)' PROVE NameOK(n)'
    BY <1>2, <1>3, <1>4, <1>5, KeptOK
<1>6. ASSUME rows' = rows PROVE Managed(n)' = Managed(n)
    BY <1>6 DEF Managed
<1>7. CASE UpsertStack(a) \/ AdoptEnd(a) \/ \E s \in Stacks : AdoptList(a, s)
    <2>1. rows' = rows
        BY <1>7 DEF UpsertStack, AdoptEnd, AdoptList
    <2>2. adopt'[a].pc # "add"
        <3>1. CASE UpsertStack(a)
            BY <1>0, <3>1 DEF UpsertStack, AdoptOK, AdoptType, Process
        <3>2. CASE AdoptEnd(a)
            BY <1>0, <3>2, WaitingFields DEF AdoptEnd, AdoptOK
        <3>3. CASE \E s \in Stacks : AdoptList(a, s)
            <4>1. PICK s \in Stacks : AdoptList(a, s)
                BY <3>3
            <4>2. PICK T : adopt' = [adopt EXCEPT ![a] = [Waiting EXCEPT !.pc = "upsert", !.row = s, !.todo = T]]
                BY <4>1 DEF AdoptList
            <4> QED BY <1>0, <4>2 DEF Waiting, AdoptOK
        <3> QED BY <1>7, <3>1, <3>2, <3>3
    <2> QED BY <1>5, <1>6, <2>1, <2>2 DEF AdoptWaits
<1>8. CASE \E x \in adopt[a].todo : AdoptLook(a, x)
    <2>1. PICK x \in adopt[a].todo : AdoptLook(a, x)
        BY <1>8
    <2>2. Managed(n)' = Managed(n)
        BY <1>6, <2>1 DEF AdoptLook
    <2>3. CASE Live(x.cid) /\ x.name = n
        <3>1. adopt'[a].row = ManagedByName(n)
            BY <1>0, <2>1, <2>3 DEF AdoptLook, AdoptOK, AdoptType, Process
        <3>2. Managed(n) \subseteq {ManagedByName(n)}
            BY ByNameType DEF NameOK
        <3> QED BY <1>2, <1>3, <1>4, <2>2, <3>1, <3>2 DEF NameOK
    <2>4. CASE Live(x.cid) /\ x.name # n
        <3>1. adopt'[a].item = x
            BY <1>0, <2>1, <2>4 DEF AdoptLook, AdoptOK, AdoptType, Process
        <3> QED BY <1>5, <2>2, <2>4, <3>1 DEF AdoptWaits
    <2>5. CASE ~Live(x.cid)
        <3>1. adopt'[a].pc # "add"
            BY <1>0, <2>1, <2>5, WaitingFields DEF AdoptLook, AdoptOK
        <3> QED BY <1>5, <2>2, <3>1 DEF AdoptWaits
    <2> QED BY <2>3, <2>4, <2>5
<1>9. CASE AdoptAdd(a)
    <2>0. PICK m : m = adopt[a].item.name
        OBVIOUS
    <2>1. PICK r : r = IF adopt[a].row = 0 THEN NewRow ELSE adopt[a].row
        OBVIOUS
    <2>2. adopt[a].pc = "add" /\ (RowsKept \/ RowAdded(r, m))
        BY <1>0, <1>9, <2>0, <2>1, AddFields DEF AdoptAdd
    <2>3. ~AdoptWaits(a, n)'
        BY <1>0, <1>9, WaitingFields DEF AdoptAdd, AdoptWaits, AdoptOK, AdoptType, Process
    <2>4. CASE RowsKept \/ (RowAdded(r, m) /\ n # m)
        BY <1>5, <2>3, <2>4, KeptNames
    <2>5. CASE RowAdded(r, m) /\ n = m
        <3>1. Managed(n) \subseteq {adopt[a].row} /\ 0 \notin RowIds
            BY <2>0, <2>2, <2>5, FleetAssumption DEF NameOK, AdoptWaits, RowIds
        <3>2. Managed(n) = {}
            BY <2>1, <2>5, <3>1 DEF RowAdded, Managed
        <3>3. ~SweepWaits(n) /\ \A b \in Adopters \ {a} : ~AdoptWaits(b, n)
            BY <1>9, <2>0, <2>5, <3>2 DEF AdoptAdd
        <3> QED BY <1>3, <1>4, <2>3, <2>5, <3>2, <3>3, FirstOK
    <2> QED BY <2>2, <2>4, <2>5
<1> QED BY <1>7, <1>8, <1>9 DEF Adopting

LEMMA RowsStep ==
    ASSUME TypeOK, TodoInv, RowsInv, [Next]_vars PROVE RowsInv'
<1>0. TableOK
    BY Parts
<1>1. ASSUME RowsKept, UNCHANGED <<sweep, adopt, raced>> PROVE RowsInv'
    <2> SUFFICES ASSUME NEW n \in Names \ raced', NameOK(n) PROVE NameOK(n)'
        BY <1>1, RowsByName
    <2>1. SweepWaits(n)' => SweepWaits(n)
        BY <1>1 DEF SweepWaits, Looping, Known
    <2> QED BY <1>1, <2>1, KeptNames, KeptAdopt, KeptOK
<1>2. CASE Host
    BY <1>1, <1>2 DEF Host, HostStep, Create, CreateBeside, ParkOld, RenameNew, Remove, Settle, RowsKept
<1>3. CASE \E s \in Stacks : ForgetStack(s)
    BY <1>0, <1>1, <1>3 DEF ForgetStack, RowsKept, TableOK
<1>4. CASE \E r \in RowIds : ForgetContainer(r)
    BY <1>0, <1>1, <1>4, DeleteFields DEF ForgetContainer
<1>5. CASE Crash
    <2>1. RowsKept /\ raced' = raced
        BY <1>5 DEF Crash, RowsKept
    <2>2. sweep'.pc = "wait" /\ \A a \in Adopters : adopt'[a].pc = "wait"
        BY <1>5, WaitingFields DEF Crash
    <2> SUFFICES ASSUME NEW n \in Names \ raced', NameOK(n) PROVE NameOK(n)'
        BY <2>1, RowsByName
    <2>3. ~SweepWaits(n)' /\ \A a \in Adopters : ~AdoptWaits(a, n)'
        BY <2>2 DEF SweepWaits, AdoptWaits, Looping
    <2> QED BY <2>1, <2>3, KeptNames, KeptOK
<1>6. CASE UNCHANGED vars
    BY <1>1, <1>6 DEF vars, RowsKept
<1> QED BY <1>2, <1>3, <1>4, <1>5, <1>6, RowsSweep, RowsAdopt DEF Next

LEMMA FleetInit == Init => FleetInv
<1> SUFFICES ASSUME Init PROVE FleetInv
    OBVIOUS
<1>1. \A c \in CID : ~Live(c)
    BY DEF Init, Live, NoContainer
<1>2. NamesUnique
    BY <1>1 DEF NamesUnique
<1>3. TodoInv
    BY WaitingFields DEF Init, TodoInv
<1>4. \A r \in RowIds : rows[r] # None => r = 1
    BY DEF Init
<1>5. sweep.pc = "wait" /\ \A a \in Adopters : adopt[a].pc = "wait"
    BY WaitingFields DEF Init
<1>6. RowsInv
    BY <1>4, <1>5 DEF RowsInv, Managed, SweepWaits, AdoptWaits, Looping
<1> QED BY <1>2, <1>3, <1>6, TypeInit DEF FleetInv

\* The inductive invariant: container names are unique, the sweep takes each once, and
\* what it and the adoptions have seen of a name's rows holds unless its first row came
\* while another of them was about to insert one.
THEOREM Invariance == Spec => []FleetInv
<1>1. FleetInv /\ [Next]_vars => FleetInv'
    BY TypeStep, NamesStep, TodoStep, RowsStep DEF FleetInv
<1> QED BY <1>1, FleetInit, PTL DEF Spec

\* A set of rows without two different ones has at most one.
LEMMA AtMostOne ==
    ASSUME NEW S, \A x, y \in S : x = y PROVE Cardinality(S) <= 1
<1>1. CASE S = {}
    BY <1>1, FS_EmptySet
<1>2. CASE S # {}
    <2>1. PICK x : S = {x}
        BY <1>2
    <2> QED BY <2>1, FS_Singleton
<1> QED BY <1>1, <1>2

\* A container has one row of managed_containers, through recreations by compose, crashes,
\* the forgetting of stacks, and any number of adopt requests beside each other and beside a
\* sweep. A second row of a name comes about in one way only, for that name alone: of two who
\* had looked and found none, each inserted one (Adopt, adoptNew).
THEOREM OneRow == Spec => []OneRowPerName
<1>1. FleetInv => OneRowPerName
    <2> SUFFICES ASSUME FleetInv, NEW n \in Names \ raced PROVE Cardinality(Managed(n)) <= 1
        BY DEF OneRowPerName
    <2>1. \A r, q \in Managed(n) : r = q
        BY DEF FleetInv, RowsInv
    <2> QED BY <2>1, AtMostOne
<1> QED BY <1>1, Invariance, PTL
=============================================================================

------------------------------- MODULE Fleet -------------------------------
(***************************************************************************)
(* What Veery manages: the tables stacks and managed_containers            *)
(* (store/docker_store.go), the sweep that keeps them in line with the     *)
(* containers Docker has (docker/reconcile.go), the adopting and forgetting*)
(* of stacks by the user (Adopt, the handlers), and the user who recreates,*)
(* adds and removes containers with compose at the same time.              *)
(*                                                                         *)
(* A sweep lists the containers, then the rows, and then takes one         *)
(* container at a time, looking and writing in separate steps. The lock    *)
(* that rerecord tries and the updates that hold it are in Lifecycle.      *)
(*                                                                         *)
(* A name is a service's own, or the temporary one compose gives a         *)
(* container while it recreates the service: the id of the container that  *)
(* is replaced, and the name. Daemon and database calls fail only because  *)
(* what they name is gone.                                                 *)
(***************************************************************************)
EXTENDS Integers, FiniteSets, FiniteSetsExt

CONSTANTS
    None,
    CID,            \* container ids; Docker never reuses one
    Services,       \* service names
    Stacks,         \* compose projects
    StackOf,        \* the project of each service
    Specs, Good,    \* create-specs, and those that come up and stay up
    Adopters,       \* the goroutines of adopt requests
    MaxRows,        \* bound: rows of managed_containers
    MaxCalls,       \* bound: adoptions, forgettings and crashes, together
    MaxRecreates    \* bound: what the user does to containers

ASSUME FleetAssumption ==
    /\ StackOf \in [Services -> Stacks] /\ Good \subseteq Specs
    /\ CID # {} /\ Services # {} /\ Good # {}
    /\ {MaxRows, MaxCalls, MaxRecreates} \subseteq Nat
    /\ None \notin CID \cup Specs \cup Services

Names == Services \X (CID \cup {"own"})
RowIds == 1..MaxRows
Row == [name : Names, stack : Stacks, cid : CID, spec : Specs, named : Names]
NoItem == [cid |-> None, name |-> None]

VARIABLES
    ctr,        \* the daemon's containers: state, name, spec, whether settled
    stacks,     \* table stacks
    rows,       \* table managed_containers
    sweep,      \* Reconcile: program counter, what it listed, what is left
    adopt,      \* Adopt, in each of its goroutines: the same
    asked,      \* history: stacks adopted and not forgotten since
    raced,      \* history: names whose first row came while someone else who had
                \* looked and found none was about to insert one
    budget
vars == <<ctr, stacks, rows, sweep, adopt, asked, raced, budget>>

Live(c) == ctr[c].st = "live"
Free == {c \in CID : ctr[c].st = "none"}
Held(name) == {c \in CID : Live(c) /\ ctr[c].name = name}
Managed(name) == {r \in RowIds : rows[r] # None /\ rows[r].name = name}

\* isService, of a listed container.
IsService(item) == item.name[2] = "own"

\* Config, host config and networks of an inspected container, and its name.
RecordOf(c) == [cid |-> c, spec |-> ctr[c].spec, named |-> ctr[c].name]

\* A row left by a version of Veery that did not know compose's temporary names.
Leftover == [name |-> <<CHOOSE n \in Services : TRUE, CHOOSE c \in CID : TRUE>>,
             stack |-> StackOf[CHOOSE n \in Services : TRUE],
             cid |-> CHOOSE c \in CID : TRUE, spec |-> CHOOSE x \in Good : TRUE,
             named |-> <<CHOOSE n \in Services : TRUE, CHOOSE c \in CID : TRUE>>]

NoContainer == [st |-> "none", name |-> None, spec |-> None, settled |-> FALSE]
Waiting == [pc |-> "wait", seen |-> {}, byName |-> {}, todo |-> {}, item |-> NoItem,
            row |-> 0, rec |-> None]

Init ==
    /\ \E old \in BOOLEAN :
         /\ ctr = [c \in CID |-> IF old /\ c = Leftover.cid
                                 THEN [NoContainer EXCEPT !.st = "gone"] ELSE NoContainer]
         /\ rows = [r \in RowIds |-> IF old /\ r = 1 THEN Leftover ELSE None]
         /\ stacks = IF old THEN {Leftover.stack} ELSE {}
    /\ sweep = Waiting /\ adopt = [a \in Adopters |-> Waiting]
    /\ asked = stacks /\ raced = {}
    /\ budget = [calls |-> MaxCalls, recreates |-> MaxRecreates]

(***************************************************************************)
(* The tables                                                              *)
(***************************************************************************)
\* Rows come in the order of their insertion: AllManaged keeps the last one of a
\* name, ManagedByName gives the first.
NewRow == Max({0} \cup {r \in RowIds : rows[r] # None}) + 1
ManagedByName(name) == IF Managed(name) = {} THEN 0 ELSE Min(Managed(name))

\* AddManagedContainer: an insert, or with an id that exists an update; the stack
\* must exist.
AddManaged(r, name, stack, rec) ==
    /\ r \in RowIds
    /\ rows' = IF stack \in stacks
               THEN [rows EXCEPT ![r] = [name |-> IF rows[r] = None THEN name ELSE rows[r].name,
                        stack |-> stack, cid |-> rec.cid, spec |-> rec.spec, named |-> rec.named]]
               ELSE rows

\* UpdateSnapshot: nothing, if the row is gone.
UpdateSnapshot(r, rec) ==
    rows' = IF rows[r] = None THEN rows
            ELSE [rows EXCEPT ![r].cid = rec.cid, ![r].spec = rec.spec, ![r].named = rec.named]

\* DeleteManagedContainer: the stack goes with its last row.
DeleteManaged(r) ==
    /\ rows' = [rows EXCEPT ![r] = None]
    /\ stacks' = IF \E q \in RowIds \ {r} : rows[q] # None /\ rows[q].stack = rows[r].stack
                 THEN stacks ELSE stacks \ {rows[r].stack}
    /\ asked' = asked \cap stacks'

(***************************************************************************)
(* Reconcile                                                               *)
(***************************************************************************)
Items == {[cid |-> c, name |-> ctr[c].name] : c \in {d \in CID : Live(d)}}

SweepList ==
    /\ sweep.pc = "wait"
    /\ sweep' = [Waiting EXCEPT !.pc = "rows", !.seen = Items]
    /\ UNCHANGED <<ctr, stacks, rows, adopt, asked, raced, budget>>

\* AllManaged, and byName.
SweepRows ==
    /\ sweep.pc = "rows"
    /\ sweep' = [sweep EXCEPT !.pc = "loop", !.todo = {x \in sweep.seen : IsService(x)},
          !.byName = {[row |-> r, name |-> rows[r].name, cid |-> rows[r].cid] :
                        r \in {q \in RowIds : rows[q] # None /\ q = Max(Managed(rows[q].name))}}]
    /\ UNCHANGED <<ctr, stacks, rows, adopt, asked, raced, budget>>

Known(x) == {k \in sweep.byName : k.name = x.name}

\* adoptNew up to the inspect; nothing to do unless the stack is managed.
SweepLookNew(x) ==
    /\ sweep.pc = "loop" /\ x \in sweep.todo /\ Known(x) = {}
    /\ sweep' = IF StackOf[x.name[1]] \in stacks /\ Live(x.cid)
                THEN [sweep EXCEPT !.pc = "insert", !.item = x, !.rec = RecordOf(x.cid)]
                ELSE [sweep EXCEPT !.todo = @ \ {x}]
    /\ UNCHANGED <<ctr, stacks, rows, adopt, asked, raced, budget>>

NextItem == [sweep EXCEPT !.pc = "loop", !.todo = @ \ {sweep.item}, !.item = NoItem,
                          !.row = 0, !.rec = None]

\* Mutant: a missing stack is put back for the new container.
SweepInsertUpsert ==
    /\ sweep.pc = "insert"
    /\ stacks' = stacks \cup {StackOf[sweep.item.name[1]]}
    /\ NewRow \in RowIds
    /\ rows' = [rows EXCEPT ![NewRow] = [name |-> sweep.item.name, stack |-> StackOf[sweep.item.name[1]],
                  cid |-> sweep.rec.cid, spec |-> sweep.rec.spec, named |-> sweep.rec.named]]
    /\ sweep' = NextItem
    /\ UNCHANGED <<ctr, adopt, asked, raced, budget>>

\* (history) Who has looked for a row of a name and is about to insert one.
Looping == sweep.pc \in {"loop", "insert", "write"}
SweepWaits(n) == Looping /\ \E x \in sweep.todo : x.name = n /\ Known(x) = {}
AdoptWaits(a, n) == adopt[a].pc = "add" /\ adopt[a].item.name = n

\* The insert of adoptNew.
SweepInsert ==
    /\ sweep.pc = "insert"
    /\ AddManaged(NewRow, sweep.item.name, StackOf[sweep.item.name[1]], sweep.rec)
    /\ raced' = raced \cup {n \in {sweep.item.name} :
                             Managed(n) = {} /\ \E a \in Adopters : AdoptWaits(a, n)}
    /\ sweep' = NextItem
    /\ UNCHANGED <<ctr, stacks, adopt, asked, budget>>

\* rerecord up to the inspect: the row is read again, and only a container that
\* has settled is recorded.
SweepLookAgain(x) ==
    LET r == ManagedByName(x.name) IN
    /\ sweep.pc = "loop" /\ x \in sweep.todo /\ Known(x) # {}
    /\ sweep' = IF /\ \A k \in Known(x) : k.cid # x.cid
                   /\ r # 0 /\ rows[Max({1, r})].cid # x.cid
                   /\ Live(x.cid) /\ ctr[x.cid].settled
                THEN [sweep EXCEPT !.pc = "write", !.item = x, !.row = r, !.rec = RecordOf(x.cid)]
                ELSE [sweep EXCEPT !.todo = @ \ {x}]
    /\ UNCHANGED <<ctr, stacks, rows, adopt, asked, raced, budget>>

\* recordSpec in rerecord.
SweepWrite ==
    /\ sweep.pc = "write"
    /\ UpdateSnapshot(sweep.row, sweep.rec)
    /\ sweep' = NextItem
    /\ UNCHANGED <<ctr, stacks, adopt, asked, raced, budget>>

\* Mutant: the rows of the temporary names that were listed are dropped, not the others.
SweepForgetListed ==
    /\ sweep.pc = "loop" /\ sweep.todo = {}
    /\ LET stale == {k \in sweep.byName : k.name[2] # "own" /\ k.name \in {x.name : x \in sweep.seen}} IN
         IF stale = {} THEN sweep' = Waiting /\ UNCHANGED <<rows, stacks, asked>>
         ELSE \E k \in stale :
                /\ sweep' = [sweep EXCEPT !.byName = @ \ {k}]
                /\ IF rows[k.row] # None THEN DeleteManaged(k.row) ELSE UNCHANGED <<rows, stacks, asked>>
    /\ UNCHANGED <<ctr, adopt, raced, budget>>

\* A row of a temporary name that was not among the listed containers is dropped.
SweepForget ==
    /\ sweep.pc = "loop" /\ sweep.todo = {}
    /\ LET stale == {k \in sweep.byName : k.name[2] # "own" /\ k.name \notin {x.name : x \in sweep.seen}} IN
         IF stale = {} THEN sweep' = Waiting /\ UNCHANGED <<rows, stacks, asked>>
         ELSE \E k \in stale :
                /\ sweep' = [sweep EXCEPT !.byName = @ \ {k}]
                /\ IF rows[k.row] # None THEN DeleteManaged(k.row) ELSE UNCHANGED <<rows, stacks, asked>>
    /\ UNCHANGED <<ctr, adopt, raced, budget>>

Sweep == \/ SweepList \/ SweepRows \/ SweepInsert \/ SweepWrite \/ SweepForget
         \/ \E x \in sweep.todo : SweepLookNew(x) \/ SweepLookAgain(x)

(***************************************************************************)
(* Adopt, and the forgetting of containers and stacks                      *)
(***************************************************************************)
\* The handler takes no lock: requests to adopt run beside each other.
AdoptList(a, s) ==
    /\ adopt[a].pc = "wait" /\ budget.calls > 0
    /\ adopt' = [adopt EXCEPT ![a] = [Waiting EXCEPT !.pc = "upsert", !.row = s,
                    !.todo = {x \in Items : IsService(x) /\ StackOf[x.name[1]] = s}]]
    /\ budget' = [budget EXCEPT !.calls = @ - 1]
    /\ UNCHANGED <<ctr, stacks, rows, sweep, asked, raced>>

UpsertStack(a) ==
    /\ adopt[a].pc = "upsert"
    /\ stacks' = stacks \cup {adopt[a].row} /\ asked' = asked \cup {adopt[a].row}
    /\ adopt' = [adopt EXCEPT ![a].pc = "loop", ![a].row = 0]
    /\ UNCHANGED <<ctr, rows, sweep, raced, budget>>

\* Mutant: the row is always a new one.
AdoptLookAnew(a, x) ==
    /\ adopt[a].pc = "loop" /\ x \in adopt[a].todo
    /\ adopt' = [adopt EXCEPT ![a] =
          IF Live(x.cid) THEN [@ EXCEPT !.pc = "add", !.item = x, !.rec = RecordOf(x.cid), !.row = 0]
          ELSE Waiting]
    /\ UNCHANGED <<ctr, stacks, rows, sweep, asked, raced, budget>>

\* Inspect, which ends the adoption if it fails, and ManagedByName.
AdoptLook(a, x) ==
    /\ adopt[a].pc = "loop" /\ x \in adopt[a].todo
    /\ adopt' = [adopt EXCEPT ![a] =
          IF Live(x.cid) THEN [@ EXCEPT !.pc = "add", !.item = x, !.rec = RecordOf(x.cid),
                                        !.row = ManagedByName(x.name)]
          ELSE Waiting]
    /\ UNCHANGED <<ctr, stacks, rows, sweep, asked, raced, budget>>

AdoptAdd(a) ==
    LET p == adopt[a]
        s == StackOf[p.item.name[1]] IN
    /\ p.pc = "add"
    /\ AddManaged(IF p.row = 0 THEN NewRow ELSE p.row, p.item.name, s, p.rec)
    /\ raced' = raced \cup {n \in {p.item.name} : Managed(n) = {} /\
                   (SweepWaits(n) \/ \E b \in Adopters \ {a} : AdoptWaits(b, n))}
    /\ adopt' = [adopt EXCEPT ![a] =
          IF s \in stacks THEN [p EXCEPT !.pc = "loop", !.todo = @ \ {p.item},
                                         !.item = NoItem, !.rec = None, !.row = 0]
          ELSE Waiting]
    /\ UNCHANGED <<ctr, stacks, sweep, asked, budget>>

AdoptEnd(a) ==
    /\ adopt[a].pc = "loop" /\ adopt[a].todo = {}
    /\ adopt' = [adopt EXCEPT ![a] = Waiting]
    /\ UNCHANGED <<ctr, stacks, rows, sweep, asked, raced, budget>>

Adopting(a) == UpsertStack(a) \/ AdoptAdd(a) \/ AdoptEnd(a) \/ \E x \in adopt[a].todo : AdoptLook(a, x)

\* handleForgetContainer.
ForgetContainer(r) ==
    /\ rows[r] # None /\ budget.calls > 0
    /\ DeleteManaged(r)
    /\ budget' = [budget EXCEPT !.calls = @ - 1]
    /\ UNCHANGED <<ctr, sweep, adopt, raced>>

\* handleForgetStack: Unadopt, the rows cascade.
ForgetStack(s) ==
    /\ s \in stacks /\ budget.calls > 0
    /\ stacks' = stacks \ {s} /\ asked' = asked \ {s}
    /\ rows' = [r \in RowIds |-> IF rows[r] # None /\ rows[r].stack = s THEN None ELSE rows[r]]
    /\ budget' = [budget EXCEPT !.calls = @ - 1]
    /\ UNCHANGED <<ctr, sweep, adopt, raced>>

(***************************************************************************)
(* The user at the host, and the containers                                *)
(***************************************************************************)
HostStep(ctr2) == ctr' = ctr2 /\ UNCHANGED <<stacks, rows, sweep, adopt, asked, raced>>
NewContainer(c, name, spec) ==
    [ctr EXCEPT ![c] = [st |-> "live", name |-> name, spec |-> spec, settled |-> FALSE]]

\* docker run, compose up of a service, or the next step of a compose that parks
\* the old container.
Create(c, n, spec) ==
    /\ c \in Free /\ Held(<<n, "own">>) = {} /\ budget.recreates > 0
    /\ budget' = [budget EXCEPT !.recreates = @ - 1]
    /\ HostStep(NewContainer(c, <<n, "own">>, spec))

\* Newer compose creates the replacement beside the container d it replaces.
CreateBeside(c, n, spec) ==
    /\ c \in Free /\ budget.recreates > 0
    /\ budget' = [budget EXCEPT !.recreates = @ - 1]
    /\ \E d \in Held(<<n, "own">>) :
         /\ Held(<<n, d>>) = {}
         /\ HostStep(NewContainer(c, <<n, d>>, spec))

\* Older compose parks the container it is about to replace, under a name that is free.
ParkOld(c) ==
    /\ Live(c) /\ ctr[c].name[2] = "own" /\ budget.recreates > 0
    /\ Held(<<ctr[c].name[1], c>>) = {}
    /\ budget' = [budget EXCEPT !.recreates = @ - 1]
    /\ HostStep([ctr EXCEPT ![c].name[2] = c])

\* Newer compose gives the replacement its proper name, once that is free.
RenameNew(c) ==
    /\ Live(c) /\ ctr[c].name[2] \in CID \ {c} /\ Held(<<ctr[c].name[1], "own">>) = {}
    /\ HostStep([ctr EXCEPT ![c].name[2] = "own"]) /\ UNCHANGED budget

Remove(c) ==
    /\ Live(c)
    /\ HostStep([ctr EXCEPT ![c] = [NoContainer EXCEPT !.st = "gone"]]) /\ UNCHANGED budget

\* A container comes up and passes its check, if its spec is good.
Settle(c) ==
    /\ Live(c) /\ ~ctr[c].settled /\ ctr[c].spec \in Good
    /\ HostStep([ctr EXCEPT ![c].settled = TRUE]) /\ UNCHANGED budget

\* Veery dies and starts again: what the sweep and the adoptions had read is lost.
Crash ==
    /\ budget.calls > 0
    /\ sweep' = Waiting /\ adopt' = [a \in Adopters |-> Waiting]
    /\ budget' = [budget EXCEPT !.calls = @ - 1]
    /\ UNCHANGED <<ctr, stacks, rows, asked, raced>>

Host == \E c \in CID : \/ \E n \in Services, x \in Specs : Create(c, n, x) \/ CreateBeside(c, n, x)
                       \/ ParkOld(c) \/ RenameNew(c) \/ Remove(c) \/ Settle(c)

Next == \/ Sweep \/ Host \/ Crash
        \/ \E a \in Adopters : Adopting(a) \/ \E s \in Stacks : AdoptList(a, s)
        \/ \E s \in Stacks : ForgetStack(s)
        \/ \E r \in RowIds : ForgetContainer(r)

Spec == Init /\ [][Next]_vars

\* The poll timer fires and a sweep, or an adoption, that began goes on.
LiveSpec == Spec /\ WF_vars(Sweep) /\ \A a \in Adopters : WF_vars(Adopting(a))

(***************************************************************************)
(* Properties                                                              *)
(***************************************************************************)
Opt(S) == S \cup {None}
Container == [st : {"none", "live", "gone"}, name : Opt(Names), spec : Opt(Specs), settled : BOOLEAN]
Item == [cid : CID, name : Names]
Record == [cid : CID, spec : Specs, named : Names]
KnownRow == [row : RowIds, name : Names, cid : CID]
Process(pcs, words) ==
    [pc : pcs, seen : SUBSET Item, byName : SUBSET KnownRow, todo : SUBSET Item,
     item : Item \cup {NoItem}, row : words, rec : Opt(Record)]
Ready(p) == p.pc \in {"insert", "write", "add"} => p.item \in Item /\ p.rec \in Record

\* Every variable stays in its set, what a sweep or an adoption is about to write is
\* complete, and a row belongs to a stack that exists (the foreign key).
TypeOK ==
    /\ ctr \in [CID -> Container]
    /\ \A c \in CID : Live(c) => ctr[c].name \in Names /\ ctr[c].spec \in Specs
    /\ stacks \subseteq Stacks /\ asked \subseteq Stacks
    /\ rows \in [RowIds -> Opt(Row)]
    /\ \A r \in RowIds : rows[r] # None => rows[r].stack \in stacks
    /\ sweep \in Process({"wait", "rows", "loop", "insert", "write"}, 0..MaxRows)
    /\ adopt \in [Adopters -> Process({"wait", "upsert", "loop", "add"}, 0..MaxRows \cup Stacks)]
    /\ \A a \in Adopters : adopt[a].pc = "upsert" => adopt[a].row \in Stacks
    /\ sweep.pc = "write" => sweep.row \in RowIds
    /\ Ready(sweep) /\ \A a \in Adopters : Ready(adopt[a])
    /\ raced \subseteq Names
    /\ budget \in [calls : 0..MaxCalls, recreates : 0..MaxRecreates]

\* Once the user leaves the containers alone, every service of a managed stack
\* that has settled is recorded as it runs, under its own name, and no row of a
\* temporary name is left: what an update or a bring-up would recreate is what the
\* user last made, whatever the sweeps caught halfway (Reconcile).
RecordFollows ==
    <>[]( /\ \A n \in Services : \A c \in Held(<<n, "own">>) :
                (StackOf[n] \in stacks /\ ctr[c].settled) =>
                   \E r \in Managed(<<n, "own">>) :
                      rows[r].cid = c /\ rows[r].spec = ctr[c].spec /\ rows[r].named = <<n, "own">>
          /\ \A r \in RowIds : rows[r] # None => rows[r].name[2] = "own" )

\* A stack the user has forgotten comes back only when it is adopted again, though
\* a sweep may be between its look at the stack and its insert (adoptNew).
ForgottenStays == stacks \subseteq asked

\* A container has one row, through sweeps, adoptions at the same time, recreations,
\* forgetting and crashes; there is one way to a second row, and no other: two of
\* them, an adoption and a sweep or two adoptions, both looked for that very name's
\* row before either inserted it (Adopt, adoptNew).
OneRowPerName == \A n \in Names \ raced : Cardinality(Managed(n)) <= 1

\* The same without the proviso, as AddManagedContainer states it. This FAILS.
OneRowAlways == \A n \in Names : Cardinality(Managed(n)) <= 1

\* A stack has a container. This FAILS: see the README.
NoEmptyStack == \A s \in stacks : (\A a \in Adopters : adopt[a].pc = "wait") => \E r \in RowIds : rows[r] # None /\ rows[r].stack = s

(***************************************************************************)
(* The inductive invariant behind OneRowPerName                            *)
(***************************************************************************)
\* Docker: a name belongs to one container.
NamesUnique == \A c, d \in CID : Live(c) /\ Live(d) /\ ctr[c].name = ctr[d].name => c = d

\* The sweep takes each name it listed once.
TodoInv ==
    /\ \A x, y \in sweep.seen : x.name = y.name => x = y
    /\ sweep.todo \subseteq sweep.seen
    /\ sweep.pc \in {"insert", "write"} => sweep.item \in sweep.todo
    /\ sweep.pc = "insert" => Known(sweep.item) = {}

\* A name nobody raced for has one row, none if the sweep listed its container without
\* one, and what an adoption saw of its rows still holds.
RowsInv ==
    \A n \in Names \ raced :
        /\ \A r, q \in Managed(n) : r = q
        /\ SweepWaits(n) => Managed(n) = {}
        /\ \A a \in Adopters : AdoptWaits(a, n) => Managed(n) \subseteq {adopt[a].row}

FleetInv == TypeOK /\ NamesUnique /\ TodoInv /\ RowsInv
=============================================================================

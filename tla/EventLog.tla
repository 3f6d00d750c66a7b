------------------------------ MODULE EventLog ------------------------------
(***************************************************************************)
(* The event log: the notifier that records every event, prunes the log    *)
(* and pushes the row to the clients (internal/notify/notify.go), the      *)
(* paged query (internal/store/events.go, ListEvents) and the page that    *)
(* merges what it fetched with what was pushed (web/src/routes/Events.tsx).*)
(*                                                                         *)
(* Abstractions.  An event is its row: the id, the second it was recorded  *)
(* in and its type.  The filters on container, stack and text narrow a     *)
(* page the way the one on the type does.  The cursor is the pair of time  *)
(* and id that encodeEventCursor writes and decodeEventCursor reads back.  *)
(* The clock does not run backwards.  Delivery to the channels is a        *)
(* goroutine nobody waits for, and is left out.                            *)
(***************************************************************************)
EXTENDS Naturals, Sequences, FiniteSets, Functions

CONSTANTS
    None,
    Kinds,              \* the types of events
    DefaultEventLimit, MaxEventLimit,
    Limits,             \* the limits a client asks for; 0 asks for none
    Retention,          \* EventLogRetentionDays, in ticks of the clock
    MaxTime,            \* bound: the clock
    MaxEvents,          \* bound: the rows that are recorded
    MaxLosses           \* bound: pushes that are dropped and crashes

ASSUME LimitsAssumption ==
    /\ DefaultEventLimit \in Nat \ {0} /\ MaxEventLimit \in Nat \ {0} /\ DefaultEventLimit <= MaxEventLimit
    /\ Limits \subseteq Nat /\ Retention \in Nat
ASSUME BoundsAssumption == {MaxTime, MaxEvents, MaxLosses} \subseteq Nat

Rows == [id : 1..MaxEvents, at : 0..MaxTime, kind : Kinds]
ASSUME NoneAssumption == None \notin Kinds \cup Rows

VARIABLES
    events,     \* the table events
    lastId,     \* the id the table gave last
    now,        \* the clock
    notes,      \* calls of Notify whose row is recorded and not yet pushed
    page,       \* the Activity page of one client
    missed,     \* history: rows whose push the page did not get
    losses

table == <<events, lastId, notes>>
vars == <<table, now, page, missed, losses>>

Closed == [open |-> FALSE, filter |-> None, limit |-> 0, fetched |-> <<>>, live |-> <<>>, more |-> None]

Init ==
    /\ events = {} /\ lastId = 0 /\ notes = {}
    /\ now = 0
    /\ page = Closed
    /\ missed = {}
    /\ losses = 0

-----------------------------------------------------------------------------
(* The notifier.                                                           *)

\* AppendEvent.
Record(kind) ==
    LET row == [id |-> lastId + 1, at |-> now, kind |-> kind]
    IN  /\ lastId < MaxEvents
        /\ events' = events \cup {row}
        /\ lastId' = lastId + 1
        /\ notes' = notes \cup {row}
        /\ UNCHANGED <<now, page, missed, losses>>

\* pruneEvents drops the rows past the retention; none is set, or the cutoff is
\* not positive: everything is kept.
Pruned(rows) ==
    IF Retention = 0 \/ now <= Retention THEN rows ELSE {r \in rows : r.at >= now - Retention}

\* event = ?
Matches(row, filter) == filter = None \/ row.kind = filter

\* The page puts a pushed event that matches its filter in front of the others.
OnEvent(row) ==
    page' = IF page.open /\ Matches(row, page.filter) THEN [page EXCEPT !.live = <<row>> \o @] ELSE page

Push(row) ==
    /\ row \in notes
    /\ notes' = notes \ {row}
    /\ events' = Pruned(events)
    /\ OnEvent(row)
    /\ UNCHANGED <<lastId, now, missed, losses>>

\* The client's queue is full, or it is not connected (module Hub).
PushLost(row) ==
    /\ row \in notes /\ losses < MaxLosses
    /\ notes' = notes \ {row}
    /\ events' = Pruned(events)
    /\ missed' = missed \cup {row}
    /\ losses' = losses + 1
    /\ UNCHANGED <<lastId, now, page>>

\* Veery dies: rows that were recorded are neither pushed nor pruned for.
Crash ==
    /\ losses < MaxLosses
    /\ losses' = losses + 1
    /\ notes' = {}
    /\ missed' = missed \cup notes
    /\ UNCHANGED <<events, lastId, now, page>>

Tick ==
    /\ now < MaxTime
    /\ now' = now + 1
    /\ UNCHANGED <<table, page, missed, losses>>

-----------------------------------------------------------------------------
(* ListEvents.                                                             *)

Clamp(limit) ==
    IF limit = 0 THEN DefaultEventLimit ELSE IF limit > MaxEventLimit THEN MaxEventLimit ELSE limit

\* ORDER BY created_at DESC, id DESC
Newer(r, s) == r.at > s.at \/ (r.at = s.at /\ r.id > s.id)

\* Mutant: the cursor row is served again.
AfterOrAt(row, cursor) == cursor = None \/ row = cursor \/ Newer(cursor, row)

\* Mutant: the cursor compares the time only.
AfterTime(row, cursor) == cursor = None \/ row.at < cursor.at

\* created_at < ? OR (created_at = ? AND id < ?)
After(row, cursor) == cursor = None \/ Newer(cursor, row)

\* ORDER BY: the one list of the rows in which each is newer than the next.
Ordered(rows) ==
    CHOOSE list \in [1..Cardinality(rows) -> rows] :
        \A i, j \in 1..Cardinality(rows) : i < j => Newer(list[i], list[j])

\* WHERE.
Found(filter, cursor) == {r \in events : Matches(r, filter) /\ After(r, cursor)}

\* Newest first, one row more than the page holds.
Query(filter, cursor, limit) ==
    LET found == Ordered(Found(filter, cursor))
    IN  IF Len(found) > limit + 1 THEN SubSeq(found, 1, limit + 1) ELSE found

\* The extra row only tells that there is an older page.
ListEvents(filter, cursor, limit) ==
    LET found == Query(filter, cursor, limit)
        full == Len(found) > limit
    IN  [items |-> IF full THEN SubSeq(found, 1, limit) ELSE found,
         next |-> IF full THEN found[limit] ELSE None]

-----------------------------------------------------------------------------
(* The page.                                                               *)

\* The page is opened, or its filter changes: it subscribes, drops its live
\* events and fetches the first page.
Open(filter, limit) ==
    LET first == ListEvents(filter, None, Clamp(limit))
    IN  /\ ~page.open \/ filter # page.filter
        /\ page' = [open |-> TRUE, filter |-> filter, limit |-> limit, fetched |-> first.items,
                    live |-> <<>>, more |-> first.next]
        /\ missed' = {}
        /\ UNCHANGED <<table, now, losses>>

FetchNext ==
    LET next == ListEvents(page.filter, page.more, Clamp(page.limit))
    IN  /\ page.open /\ page.more # None
        /\ page' = [page EXCEPT !.fetched = @ \o next.items, !.more = next.next]
        /\ UNCHANGED <<table, now, missed, losses>>

\* The rows the page shows: live rows a fetched page carries are dropped.
Items == {r \in Range(page.live) : r \notin Range(page.fetched)} \cup Range(page.fetched)

Next ==
    \/ \E kind \in Kinds : Record(kind)
    \/ \E row \in notes : Push(row) \/ PushLost(row)
    \/ Crash
    \/ Tick
    \/ \E filter \in Kinds \cup {None}, limit \in Limits : Open(filter, limit)
    \/ FetchNext

Spec == Init /\ [][Next]_vars

-----------------------------------------------------------------------------
(* Properties.                                                             *)

\* Every variable stays in its set, and the cursor "points at a row the caller
\* already saw" (encodeEventCursor): the last one that was fetched.
TypeOK ==
    /\ events \subseteq Rows /\ notes \subseteq Rows /\ missed \subseteq Rows
    /\ lastId \in 0..MaxEvents /\ now \in 0..MaxTime
    /\ page \in [open : BOOLEAN, filter : Kinds \cup {None}, limit : Limits \cup {0},
                fetched : Seq(Rows), live : Seq(Rows), more : Rows \cup {None}]
    /\ losses \in 0..MaxLosses
    /\ page.more # None => page.fetched # <<>> /\ page.more = page.fetched[Len(page.fetched)]

\* However many events are recorded and pruned between two pages, the rows that
\* are fetched are newest first and none comes twice (ListEvents and its cursor).
PagesInOrder ==
    \A i, j \in 1..Len(page.fetched) : i < j => Newer(page.fetched[i], page.fetched[j])

\* A page that was fetched to its end shows every event of the log that it asks
\* for: no row falls between two pages, or between the pages and the live feed.
\* Only a push that was lost, or is still under way, can be missing.
NothingSkipped ==
    page.open /\ page.more = None =>
        \A r \in events \ (missed \cup notes) : Matches(r, page.filter) => r \in Items

-----------------------------------------------------------------------------
(* The inductive invariants behind PagesInOrder and NothingSkipped.        *)

\* The table gives each row an id of its own.
TableInv ==
    /\ IsFiniteSet(events)
    /\ \A r \in events : r.id <= lastId
    /\ \A r, s \in events : r.id = s.id => r = s

\* A row the page asks for is shown, or is still to be fetched, or its push is
\* missing or under way.
Reachable(r) == r \in Items \/ (page.more # None /\ Newer(page.more, r))
PageInv ==
    /\ PagesInOrder
    /\ page.open => \A r \in events \ (missed \cup notes) : Matches(r, page.filter) => Reachable(r)

LogInv == TypeOK /\ TableInv /\ PageInv
=============================================================================

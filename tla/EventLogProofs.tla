--------------------------- MODULE EventLogProofs ---------------------------
(***************************************************************************)
(* Theorems about EventLog.tla, for any number of events, any limits and   *)
(* any length of time.                                                     *)
(***************************************************************************)
EXTENDS EventLog, FiniteSetTheorems, WellFoundedInduction, TLAPS

-----------------------------------------------------------------------------
(* ORDER BY: a finite set of rows with ids of their own has one listing.   *)

\* A set of numbers has a least one.
LEMMA LeastIn ==
    ASSUME NEW S \in SUBSET Nat, S # {} PROVE \E x \in S : \A y \in S : x <= y
<1> DEFINE R == {ss \in Nat \X Nat : ss[1] < ss[2]}
<1>1. IsWellFoundedOn(R, Nat)
    BY NatLessThanWellFounded DEF OpToRel
<1>2. PICK x \in S : \A y \in S : <<y, x>> \notin R
    <2> HIDE DEF R
    <2> QED BY <1>1, WFMin
<1>3. ASSUME NEW y \in S PROVE x <= y
    <2>1. x \in Nat /\ y \in Nat /\ <<y, x>> \in Nat \X Nat
        OBVIOUS
    <2>2. ~(<<y, x>>[1] < <<y, x>>[2])
        BY <1>2, <2>1
    <2> QED BY <2>1, <2>2
<1> QED BY <1>3

LEMMA RowTypes == \A r \in Rows : r.at \in Nat /\ r.id \in Nat
BY BoundsAssumption DEF Rows

\* Newer orders rows strictly.
LEMMA NewerOrder ==
    /\ \A r \in Rows : ~Newer(r, r)
    /\ \A r, s, t \in Rows : Newer(r, s) /\ Newer(s, t) => Newer(r, t)
BY RowTypes DEF Newer

\* Rows with ids of their own, a listing of them, and the oldest of them.
Distinct(S) == \A r, s \in S : r.id = s.id => r = s
Listing(S, q) == \A i, j \in 1 .. Cardinality(S) : i < j => Newer(q[i], q[j])

LEMMA OldestRow ==
    ASSUME NEW S \in SUBSET Rows, S # {}, Distinct(S)
    PROVE  \E m \in S : \A r \in S \ {m} : Newer(r, m)
<1> DEFINE A == {r.at : r \in S}
<1>1. A \in SUBSET Nat /\ A # {}
    BY RowTypes
<1>2. PICK t \in A : \A u \in A : t <= u
    BY <1>1, LeastIn
<1> DEFINE I == {r.id : r \in {s \in S : s.at = t}}
<1>3. I \in SUBSET Nat /\ I # {}
    BY <1>2, RowTypes
<1>4. PICK n \in I : \A k \in I : n <= k
    BY <1>3, LeastIn
<1>5. PICK m \in S : m.at = t /\ m.id = n
    BY <1>4
<1>6. ASSUME NEW r \in S \ {m} PROVE Newer(r, m)
    <2>1. t <= r.at /\ r.at \in Nat /\ t \in Nat /\ r.id \in Nat /\ n \in Nat
        BY <1>2, <1>5, RowTypes
    <2>2. r.at = t => n <= r.id
        BY <1>4
    <2>3. r.id # n
        BY <1>5 DEF Distinct
    <2> QED BY <1>5, <2>1, <2>2, <2>3 DEF Newer
<1> QED BY <1>6

\* A listing exists: the least set without one would have one, its oldest row last.
LEMMA ListingExists ==
    ASSUME NEW S \in SUBSET Rows, IsFiniteSet(S), Distinct(S)
    PROVE  \E q \in [1 .. Cardinality(S) -> S] : Listing(S, q)
<1> DEFINE Bad(Q) == /\ IsFiniteSet(Q) /\ Distinct(Q)
                     /\ ~\E q \in [1 .. Cardinality(Q) -> Q] : Listing(Q, q)
<1> DEFINE B == {n \in Nat : \E Q \in SUBSET Rows : Bad(Q) /\ Cardinality(Q) = n}
<1> SUFFICES ASSUME Bad(S) PROVE FALSE
    OBVIOUS
<1>1. B \in SUBSET Nat /\ B # {}
    BY FS_CardinalityType
<1>2. PICK n \in B : \A k \in B : n <= k
    <2> HIDE DEF B
    <2> QED BY <1>1, LeastIn
<1>3. PICK Q \in SUBSET Rows : Bad(Q) /\ Cardinality(Q) = n
    BY <1>2
<1>4. n \in Nat
    BY <1>2
<1>5. CASE Q = {}
    <2>1. n = 0 /\ 1 .. n = {}
        BY <1>3, <1>5, FS_EmptySet
    <2>2. <<>> \in [1 .. n -> Q] /\ Listing(Q, <<>>)
        BY <1>3, <2>1 DEF Listing
    <2> QED BY <1>3, <2>2
<1>6. CASE Q # {}
    <2>1. PICK m \in Q : \A r \in Q \ {m} : Newer(r, m)
        BY <1>3, <1>6, OldestRow
    <2> DEFINE P == Q \ {m}
    <2>2. IsFiniteSet(P) /\ Cardinality(P) = n - 1 /\ Distinct(P) /\ P \in SUBSET Rows
        BY <1>3, FS_RemoveElement DEF Distinct
    <2>3. n - 1 \in Nat
        BY <2>2, FS_CardinalityType
    <2>4. ~Bad(P)
        <3>1. n - 1 \notin B
            BY <1>2, <1>4
        <3> QED BY <2>2, <2>3, <3>1
    <2>5. PICK p \in [1 .. n - 1 -> P] : Listing(P, p)
        BY <2>2, <2>4
    <2> DEFINE q == [i \in 1 .. n |-> IF i = n THEN m ELSE p[i]]
    <2>6. q \in [1 .. n -> Q]
        <3>1. \A i \in 1 .. n : i # n => i \in 1 .. n - 1
            BY <1>4
        <3> QED BY <2>5, <3>1
    <2>7. \A i, j \in 1 .. n : i < j => Newer(q[i], q[j])
        <3> SUFFICES ASSUME NEW i \in 1 .. n, NEW j \in 1 .. n, i < j PROVE Newer(q[i], q[j])
            OBVIOUS
        <3>1. i \in 1 .. n - 1 /\ q[i] = p[i] /\ p[i] \in P
            BY <1>4, <2>5
        <3>2. CASE j = n
            BY <2>1, <3>1, <3>2
        <3>3. CASE j # n
            <4>1. j \in 1 .. n - 1 /\ q[j] = p[j]
                BY <1>4, <3>3
            <4> QED BY <2>2, <2>5, <3>1, <4>1 DEF Listing
        <3> QED BY <3>2, <3>3
    <2>8. Listing(Q, q)
        BY <1>3, <2>7 DEF Listing
    <2> HIDE DEF q
    <2> QED BY <1>3, <2>6, <2>8
<1> QED BY <1>5, <1>6

\* ORDER BY: every row once, newest first.
LEMMA OrderedRows ==
    ASSUME NEW S \in SUBSET Rows, IsFiniteSet(S), Distinct(S)
    PROVE  /\ Ordered(S) \in Seq(S) /\ Len(Ordered(S)) = Cardinality(S)
           /\ \A i, j \in 1 .. Len(Ordered(S)) : i < j => Newer(Ordered(S)[i], Ordered(S)[j])
           /\ \A r \in S : \E i \in 1 .. Len(Ordered(S)) : r = Ordered(S)[i]
<1> DEFINE n == Cardinality(S)
<1> DEFINE q == Ordered(S)
<1>1. n \in Nat
    BY FS_CardinalityType
<1>2. q \in [1 .. n -> S] /\ Listing(S, q)
    BY ListingExists DEF Ordered, Listing
<1> HIDE DEF n, q
<1>3. q \in Seq(S) /\ Len(q) = n
    BY <1>1, <1>2
<1>4. \A i, j \in 1 .. n : i < j => Newer(q[i], q[j])
    BY <1>2 DEF Listing, n
<1>5. q \in Injection(1 .. n, S)
    <2>1. ASSUME NEW i \in 1 .. n, NEW j \in 1 .. n, q[i] = q[j] PROVE i = j
        <3>1. q[i] \in Rows
            BY <1>2
        <3>2. ~(i < j) /\ ~(j < i)
            BY <1>4, <2>1, <3>1, NewerOrder
        <3> QED BY <1>1, <3>2
    <2> QED BY <1>2, <2>1 DEF Injection, IsInjective
<1>6. q \in Surjection(1 .. n, S)
    <2>1. Cardinality(1 .. n) = n
        BY <1>1, FS_Interval
    <2> QED BY <1>5, <2>1, FS_Injection DEF n
<1> QED BY <1>3, <1>4, <1>6 DEF n, q, Surjection

-----------------------------------------------------------------------------
(* ListEvents.                                                             *)

LEMMA ClampPositive ==
    ASSUME NEW l \in Limits \cup {0} PROVE Clamp(l) \in Nat \ {0}
BY LimitsAssumption DEF Clamp

Sorted(q) == \A i, j \in 1 .. Len(q) : i < j => Newer(q[i], q[j])

\* The first rows of the listing, and where the rest are: after the cursor.
LEMMA PageOf ==
    ASSUME TypeOK, TableInv, NEW f \in Kinds \cup {None}, NEW c \in Rows \cup {None}, NEW l \in Nat \ {0}
    PROVE  LET S == Found(f, c)
               p == ListEvents(f, c, l)
           IN  /\ p.items \in Seq(S) /\ Sorted(p.items)
               /\ p.next \in Rows \cup {None}
               /\ p.next = None => S \subseteq Range(p.items)
               /\ p.next # None => /\ p.items # <<>> /\ p.next = p.items[Len(p.items)]
                                   /\ \A r \in S : r \in Range(p.items) \/ Newer(p.next, r)
<1> DEFINE S == Found(f, c)
<1> DEFINE q == Ordered(S)
<1> DEFINE g == Query(f, c, l)
<1> DEFINE p == ListEvents(f, c, l)
<1>1. S \in SUBSET Rows /\ IsFiniteSet(S) /\ Distinct(S)
    <2>1. S \in SUBSET events
        BY DEF Found
    <2> QED BY <2>1, FS_Subset DEF TypeOK, TableInv, Distinct
<1> HIDE DEF S
<1>2. q \in Seq(S) /\ Sorted(q) /\ \A r \in S : \E i \in 1 .. Len(q) : r = q[i]
    BY <1>1, OrderedRows DEF Sorted
<1>3. g = IF Len(q) > l + 1 THEN SubSeq(q, 1, l + 1) ELSE q
    BY DEF Query, S
<1>4. p = [items |-> IF Len(g) > l THEN SubSeq(g, 1, l) ELSE g, next |-> IF Len(g) > l THEN g[l] ELSE None]
    BY DEF ListEvents
<1> HIDE DEF q, g, p
<1>5. CASE Len(q) > l
    <2>1. g \in Seq(S) /\ Len(g) > l /\ \A i \in 1 .. l + 1 : g[i] = q[i]
        BY <1>2, <1>3, <1>5
    <2>2. /\ p.items \in Seq(S) /\ Len(p.items) = l
          /\ \A i \in 1 .. l : p.items[i] = q[i]
          /\ p.next = q[l]
        <3>1. p.items = SubSeq(g, 1, l) /\ p.next = g[l]
            BY <1>4, <2>1
        <3>2. SubSeq(g, 1, l) \in Seq(S) /\ Len(SubSeq(g, 1, l)) = l
              /\ \A i \in 1 .. l : SubSeq(g, 1, l)[i] = g[i]
            BY <2>1
        <3>3. \A i \in 1 .. l : i \in 1 .. l + 1
            OBVIOUS
        <3> QED BY <2>1, <3>1, <3>2, <3>3
    <2>3. Sorted(p.items)
        <3> SUFFICES ASSUME NEW i \in 1 .. l, NEW j \in 1 .. l, i < j
                     PROVE  Newer(p.items[i], p.items[j])
            BY <2>2 DEF Sorted
        <3>1. i \in 1 .. Len(q) /\ j \in 1 .. Len(q)
            BY <1>2, <1>5
        <3> QED BY <1>2, <2>2, <3>1 DEF Sorted
    <2>4. p.next \in Rows /\ p.next # None /\ p.items # <<>> /\ p.next = p.items[Len(p.items)]
        <3>1. l \in 1 .. Len(q) /\ l \in 1 .. l
            BY <1>2, <1>5
        <3>2. q[l] \in Rows
            BY <1>1, <1>2, <3>1
        <3> QED BY <2>2, <3>1, <3>2, NoneAssumption
    <2>5. ASSUME NEW r \in S PROVE r \in Range(p.items) \/ Newer(p.next, r)
        <3>1. PICK i \in 1 .. Len(q) : r = q[i]
            BY <1>2
        <3>2. CASE i <= l
            BY <2>2, <3>1, <3>2 DEF Range
        <3>3. CASE i > l
            <4>1. l \in 1 .. Len(q) /\ l < i
                BY <1>2, <1>5, <3>3
            <4> QED BY <1>2, <2>2, <3>1, <4>1 DEF Sorted
        <3> QED BY <3>1, <3>2, <3>3
    <2> QED BY <2>2, <2>3, <2>4, <2>5 DEF S, p
<1>6. CASE ~(Len(q) > l)
    <2>1. g = q /\ p.items = q /\ p.next = None
        BY <1>2, <1>3, <1>4, <1>6
    <2>2. S \subseteq Range(q)
        BY <1>2 DEF Range
    <2> QED BY <1>2, <2>1, <2>2 DEF S, p
<1> QED BY <1>5, <1>6

-----------------------------------------------------------------------------
(* The invariant.                                                          *)

PageType == [open : BOOLEAN, filter : Kinds \cup {None}, limit : Limits \cup {0},
             fetched : Seq(Rows), live : Seq(Rows), more : Rows \cup {None}]
Cursor == page.more # None => page.fetched # <<>> /\ page.more = page.fetched[Len(page.fetched)]
TableType ==
    /\ events \subseteq Rows /\ notes \subseteq Rows /\ missed \subseteq Rows
    /\ lastId \in 0..MaxEvents /\ now \in 0..MaxTime /\ losses \in 0..MaxLosses

LEMMA TypeParts == TypeOK <=> TableType /\ page \in PageType /\ Cursor
BY DEF TypeOK, TableType, PageType, Cursor

LEMMA TypePartsPrime == TypeOK' <=> TableType' /\ page' \in PageType /\ Cursor'
BY DEF TypeOK, TableType, PageType, Cursor

LEMMA PrunedRows == ASSUME NEW S PROVE Pruned(S) \subseteq S
BY DEF Pruned

\* The rows that are accounted for, and what the page asks for of them.
Settled == events \ (missed \cup notes)

\* Fetched rows that come after the cursor keep the order.
LEMMA ConcatSorted ==
    ASSUME NEW q \in Seq(Rows), NEW p \in Seq(Rows), Sorted(q), Sorted(p), q # <<>>,
           \A i \in 1 .. Len(p) : Newer(q[Len(q)], p[i])
    PROVE  Sorted(q \o p)
<1> SUFFICES ASSUME NEW i \in 1 .. Len(q) + Len(p), NEW j \in 1 .. Len(q) + Len(p), i < j
             PROVE  Newer((q \o p)[i], (q \o p)[j])
    BY DEF Sorted
<1> DEFINE n == Len(q)
<1>0. n \in Nat /\ n > 0 /\ n \in 1 .. n /\ Len(p) \in Nat /\ \A k \in 1 .. n : q[k] \in Rows
    OBVIOUS
<1>1. CASE j <= n
    <2>1. i \in 1 .. n /\ j \in 1 .. n /\ (q \o p)[i] = q[i] /\ (q \o p)[j] = q[j]
        BY <1>1
    <2> QED BY <2>1 DEF Sorted
<1>2. CASE i > n
    <2>1. /\ i - n \in 1 .. Len(p) /\ j - n \in 1 .. Len(p) /\ i - n < j - n
          /\ (q \o p)[i] = p[i - n] /\ (q \o p)[j] = p[j - n]
        BY <1>2
    <2> QED BY <2>1 DEF Sorted
<1>3. CASE i <= n /\ j > n
    <2>1. i \in 1 .. n /\ j - n \in 1 .. Len(p) /\ (q \o p)[i] = q[i] /\ (q \o p)[j] = p[j - n]
        BY <1>3
    <2>2. Newer(q[n], p[j - n]) /\ p[j - n] \in Rows
        BY <2>1
    <2>3. i = n \/ Newer(q[i], q[n])
        BY <1>0, <2>1 DEF Sorted
    <2> QED BY <1>0, <2>1, <2>2, <2>3, NewerOrder
<1> QED BY <1>0, <1>1, <1>2, <1>3

LEMMA ConcatRange ==
    ASSUME NEW q \in Seq(Rows), NEW p \in Seq(Rows)
    PROVE  Range(q \o p) = Range(q) \cup Range(p)
<1>1. ASSUME NEW i \in 1 .. Len(q) PROVE q[i] \in Range(q \o p)
    <2>1. i \in 1 .. Len(q \o p) /\ (q \o p)[i] = q[i]
        OBVIOUS
    <2> QED BY <2>1 DEF Range
<1>2. ASSUME NEW i \in 1 .. Len(p) PROVE p[i] \in Range(q \o p)
    <2>1. Len(q) + i \in 1 .. Len(q \o p) /\ (q \o p)[Len(q) + i] = p[i]
        OBVIOUS
    <2> QED BY <2>1 DEF Range
<1>3. ASSUME NEW i \in 1 .. Len(q \o p) PROVE (q \o p)[i] \in Range(q) \cup Range(p)
    <2>1. CASE i <= Len(q)
        BY <2>1 DEF Range
    <2>2. CASE i > Len(q)
        <3>1. i - Len(q) \in 1 .. Len(p) /\ (q \o p)[i] = p[i - Len(q)]
            BY <2>2
        <3> QED BY <3>1 DEF Range
    <2> QED BY <2>1, <2>2
<1>4. DOMAIN q = 1 .. Len(q) /\ DOMAIN p = 1 .. Len(p) /\ DOMAIN (q \o p) = 1 .. Len(q \o p)
    OBVIOUS
<1>5. Range(q \o p) \subseteq Range(q) \cup Range(p)
    BY <1>3, <1>4 DEF Range
<1>6. Range(q) \subseteq Range(q \o p) /\ Range(p) \subseteq Range(q \o p)
    <2>1. \A x \in Range(q) : \E i \in 1 .. Len(q) : x = q[i]
        BY <1>4 DEF Range
    <2>2. \A x \in Range(p) : \E i \in 1 .. Len(p) : x = p[i]
        BY <1>4 DEF Range
    <2> QED BY <1>1, <1>2, <2>1, <2>2
<1> QED BY <1>5, <1>6

\* The page shows the rows it fetched and those it was sent.
LEMMA ItemsAre == Items = Range(page.live) \cup Range(page.fetched)
BY DEF Items

LEMMA LogInit == Init => LogInv
<1> SUFFICES ASSUME Init PROVE LogInv
    OBVIOUS
<1>1. page = Closed /\ page.fetched = <<>> /\ page.more = None /\ ~page.open
    BY DEF Init, Closed
<1>2. page \in PageType /\ Cursor /\ PagesInOrder
    BY <1>1 DEF Closed, PageType, Cursor, PagesInOrder
<1>3. TableType
    BY BoundsAssumption DEF Init, TableType
<1>4. TableInv
    BY FS_EmptySet DEF Init, TableInv
<1> QED BY <1>1, <1>2, <1>3, <1>4, TypeParts DEF LogInv, PageInv

\* The table: ids are never given twice, and pruning only removes rows.
LEMMA TableStep ==
    ASSUME TypeOK, TableInv, [Next]_vars PROVE TableType' /\ TableInv'
<1>0. TableType
    BY TypeParts
<1>1. CASE \E kind \in Kinds : Record(kind)
    <2>1. PICK kind \in Kinds : Record(kind)
        BY <1>1
    <2> DEFINE row == [id |-> lastId + 1, at |-> now, kind |-> kind]
    <2>2. lastId + 1 \in 1 .. MaxEvents /\ row \in Rows
        BY <1>0, <2>1, BoundsAssumption DEF Record, TableType, Rows
    <2>3. events' = events \cup {row} /\ notes' = notes \cup {row} /\ lastId' = lastId + 1
          /\ UNCHANGED <<now, missed, losses>>
        BY <2>1 DEF Record
    <2>4. row.id = lastId + 1
        OBVIOUS
    <2> HIDE DEF row
    <2>5. TableType'
        BY <1>0, <2>2, <2>3 DEF TableType
    <2>6. \A r \in events : r.id \in Nat /\ r.id <= lastId /\ lastId \in Nat
        BY <1>0, RowTypes, BoundsAssumption DEF TableType, TableInv
    <2>7. IsFiniteSet(events')
        BY <2>3, FS_AddElement DEF TableInv
    <2>8. \A r \in events' : r.id <= lastId'
        BY <1>0, <2>3, <2>4, <2>6 DEF TableType
    <2>9. \A r, s \in events' : r.id = s.id => r = s
        BY <2>3, <2>4, <2>6 DEF TableInv
    <2> QED BY <2>5, <2>7, <2>8, <2>9 DEF TableInv
<1>2. ASSUME events' \subseteq events, notes' \subseteq notes, missed' \subseteq missed \cup notes,
             lastId' = lastId, now' \in 0..MaxTime, losses' \in 0..MaxLosses
      PROVE  TableType' /\ TableInv'
    <2>1. IsFiniteSet(events')
        BY <1>2, FS_Subset DEF TableInv
    <2> QED BY <1>0, <1>2, <2>1 DEF TableType, TableInv
<1>3. losses < MaxLosses => losses + 1 \in 0..MaxLosses
    BY <1>0, BoundsAssumption DEF TableType
<1>4. CASE \E row \in notes : Push(row)
    BY <1>0, <1>2, <1>4, PrunedRows DEF Push, TableType
<1>5. CASE \E row \in notes : PushLost(row)
    BY <1>0, <1>2, <1>3, <1>5, PrunedRows DEF PushLost, TableType
<1>6. CASE Crash
    BY <1>0, <1>2, <1>3, <1>6 DEF Crash, TableType
<1>7. CASE Tick
    <2>1. now + 1 \in 0..MaxTime
        BY <1>0, <1>7, BoundsAssumption DEF TableType, Tick
    <2> QED BY <1>0, <1>2, <1>7, <2>1 DEF Tick, table, TableType
<1>8. CASE \E filter \in Kinds \cup {None}, limit \in Limits : Open(filter, limit)
    BY <1>0, <1>2, <1>8 DEF Open, table, TableType
<1>9. CASE FetchNext \/ UNCHANGED vars
    BY <1>0, <1>2, <1>9 DEF FetchNext, vars, table, TableType
<1> QED BY <1>1, <1>4, <1>5, <1>6, <1>7, <1>8, <1>9 DEF Next

\* What the page asks for of the settled rows is shown or still to be fetched.
Covered == page.open => \A r \in Settled : Matches(r, page.filter) => Reachable(r)
PageOK == page \in PageType /\ Cursor /\ Sorted(page.fetched) /\ Covered

\* Steps that leave the page alone and settle no row.
LEMMA PageSame ==
    ASSUME PageOK, page' = page, Settled' \subseteq Settled PROVE PageOK'
<1>1. \A r : Reachable(r)' = Reachable(r)
    BY DEF Reachable, Items
<1> QED BY <1>1 DEF PageOK, Cursor, Sorted, Covered

\* A push settles its row and shows it.
LEMMA PagePush ==
    ASSUME TypeOK, PageOK, NEW row \in notes, Push(row) PROVE PageOK'
<1>0. row \in Rows
    BY DEF TypeOK
<1>1. Settled' \subseteq Settled \cup {row}
    BY PrunedRows DEF Push, Settled
<1>2. CASE page.open /\ Matches(row, page.filter)
    <2>1. page' = [page EXCEPT !.live = <<row>> \o page.live]
        BY <1>2 DEF Push, OnEvent
    <2>2. <<row>> \in Seq(Rows) /\ page.live \in Seq(Rows) /\ page.fetched \in Seq(Rows)
        BY <1>0 DEF PageOK, PageType
    <2>3. page' \in PageType /\ page'.live = <<row>> \o page.live /\ page'.fetched = page.fetched
          /\ page'.more = page.more /\ page'.filter = page.filter
        <3> DEFINE q == <<row>> \o page.live
        <3>1. q \in Seq(Rows)
            BY <2>2
        <3>2. page' = [page EXCEPT !.live = q]
            BY <2>1
        <3> HIDE DEF q
        <3>3. page' \in PageType /\ page'.live = q /\ page'.fetched = page.fetched
              /\ page'.more = page.more /\ page'.filter = page.filter
            BY <3>1, <3>2 DEF PageOK, PageType
        <3> QED BY <3>3 DEF q
    <2>4. Range(page'.live) = Range(<<row>>) \cup Range(page.live)
        BY <2>2, <2>3, ConcatRange
    <2>5. row \in Range(<<row>>)
        BY DEF Range
    <2>6. Items' = Range(page'.live) \cup Range(page'.fetched)
        BY DEF Items
    <2>7. Items \subseteq Items' /\ row \in Items'
        BY <2>3, <2>4, <2>5, <2>6, ItemsAre
    <2>8. \A r : Reachable(r) => Reachable(r)'
        BY <2>3, <2>7 DEF Reachable
    <2>9. Reachable(row)'
        BY <2>7 DEF Reachable
    <2>10. Covered'
        BY <1>1, <1>2, <2>3, <2>8, <2>9 DEF Covered, PageOK
    <2> QED BY <2>3, <2>10 DEF PageOK, Cursor, Sorted
<1>3. CASE ~(page.open /\ Matches(row, page.filter))
    <2>1. page' = page
        BY <1>3 DEF Push, OnEvent
    <2>2. \A r : Reachable(r)' = Reachable(r)
        BY <2>1 DEF Reachable, Items
    <2> QED BY <1>1, <1>3, <2>1, <2>2 DEF PageOK, Cursor, Sorted, Covered
<1> QED BY <1>2, <1>3

\* The first page.
LEMMA PageOpen ==
    ASSUME TypeOK, TableInv, NEW f \in Kinds \cup {None}, NEW l \in Limits, Open(f, l) PROVE PageOK'
<1> DEFINE S == Found(f, None)
<1> DEFINE p == ListEvents(f, None, Clamp(l))
<1>1. /\ p.items \in Seq(S) /\ Sorted(p.items)
      /\ p.next \in Rows \cup {None}
      /\ p.next = None => S \subseteq Range(p.items)
      /\ p.next # None => /\ p.items # <<>> /\ p.next = p.items[Len(p.items)]
                          /\ \A r \in S : r \in Range(p.items) \/ Newer(p.next, r)
    BY ClampPositive, PageOf
<1>2. page' = [open |-> TRUE, filter |-> f, limit |-> l, fetched |-> p.items,
               live |-> <<>>, more |-> p.next]
      /\ events' = events
    BY DEF Open, table
<1>3. S \subseteq Rows /\ \A r \in events : Matches(r, f) => r \in S
    BY DEF Found, After, TypeOK
<1> HIDE DEF S, p
<1>4. p.items \in Seq(Rows)
    BY <1>1, <1>3
<1>5. page' \in PageType
    BY <1>1, <1>2, <1>4 DEF PageType
<1>6. page'.fetched = p.items /\ page'.more = p.next /\ page'.filter = f
    BY <1>2
<1>7. Range(p.items) \subseteq Items'
    BY <1>6 DEF Items
<1>8. \A r \in S : Reachable(r)'
    BY <1>1, <1>6, <1>7 DEF Reachable
<1>9. Covered'
    BY <1>2, <1>3, <1>6, <1>8 DEF Covered, Settled
<1> QED BY <1>1, <1>5, <1>6, <1>9 DEF PageOK, Cursor, Sorted

\* The next page: the rows after the cursor.
LEMMA PageNext ==
    ASSUME TypeOK, TableInv, PageOK, FetchNext PROVE PageOK'
<1> DEFINE f == page.filter
<1> DEFINE c == page.more
<1> DEFINE S == Found(f, c)
<1> DEFINE p == ListEvents(f, c, Clamp(page.limit))
<1>0. /\ f \in Kinds \cup {None} /\ c \in Rows /\ page.limit \in Limits \cup {0}
      /\ page.fetched \in Seq(Rows) /\ page.open
      /\ page.fetched # <<>> /\ c = page.fetched[Len(page.fetched)] /\ Sorted(page.fetched)
    BY DEF FetchNext, PageOK, PageType, Cursor
<1>1. /\ p.items \in Seq(S) /\ Sorted(p.items)
      /\ p.next \in Rows \cup {None}
      /\ p.next = None => S \subseteq Range(p.items)
      /\ p.next # None => /\ p.items # <<>> /\ p.next = p.items[Len(p.items)]
                          /\ \A r \in S : r \in Range(p.items) \/ Newer(p.next, r)
    BY <1>0, ClampPositive, PageOf
<1>2. page' = [page EXCEPT !.fetched = page.fetched \o p.items, !.more = p.next]
      /\ UNCHANGED <<events, notes, missed>>
    BY DEF FetchNext, table
<1>3. S \subseteq Rows /\ (\A r \in S : Newer(c, r))
      /\ \A r \in events : Matches(r, f) /\ Newer(c, r) => r \in S
    BY <1>0, NoneAssumption DEF Found, After, TypeOK
<1> HIDE DEF S, p
<1>4. p.items \in Seq(Rows) /\ \A i \in 1 .. Len(p.items) : p.items[i] \in S
    BY <1>1, <1>3
<1> DEFINE q == page.fetched \o p.items
<1>5. q \in Seq(Rows) /\ Sorted(q) /\ Range(q) = Range(page.fetched) \cup Range(p.items)
    BY <1>0, <1>1, <1>3, <1>4, ConcatSorted, ConcatRange
<1>6. p.next # None => q # <<>> /\ p.next = q[Len(q)]
    <2> SUFFICES ASSUME p.next # None PROVE q # <<>> /\ p.next = q[Len(q)]
        OBVIOUS
    <2>1. p.items # <<>> /\ p.next = p.items[Len(p.items)]
        BY <1>1
    <2>2. Len(p.items) \in Nat /\ Len(p.items) > 0 /\ Len(page.fetched) \in Nat
        BY <1>0, <1>4, <2>1
    <2>3. Len(q) = Len(page.fetched) + Len(p.items) /\ q[Len(q)] = p.items[Len(p.items)]
        <3> DEFINE n == Len(page.fetched)
        <3> DEFINE k == Len(p.items)
        <3>0. Len(q) = n + k
            BY <1>0, <1>4
        <3>1. Len(q) = n + k /\ n + k \in 1 .. Len(q) /\ ~(n + k <= n) /\ (n + k) - n = k
            <4> HIDE DEF n, k, q
            <4>1. n \in Nat /\ k \in Nat /\ k > 0
                BY <2>2 DEF n, k
            <4> QED BY <3>0, <4>1
        <3>2. \A i \in 1 .. Len(q) : ~(i <= n) => q[i] = p.items[i - n]
            BY <1>0, <1>4
        <3> HIDE DEF n, k, q
        <3>3. q[n + k] = p.items[(n + k) - n]
            BY <3>1, <3>2
        <3> QED BY <3>1, <3>3 DEF n, k
    <2> QED BY <2>1, <2>2, <2>3
<1> HIDE DEF q
<1>7. page' \in PageType /\ page'.fetched = q /\ page'.more = p.next /\ page'.live = page.live
      /\ page'.filter = f
    BY <1>1, <1>2, <1>5 DEF PageOK, PageType, q
<1>8. Items' = Range(page'.live) \cup Range(page'.fetched)
    BY DEF Items
<1>9. Items \subseteq Items' /\ Range(p.items) \subseteq Items'
    BY <1>5, <1>7, <1>8, ItemsAre
<1>10. \A r \in S : Reachable(r)'
    BY <1>1, <1>7, <1>9 DEF Reachable
<1>11. Settled' = Settled
    BY <1>2 DEF Settled
<1>12. Covered'
    <2> SUFFICES ASSUME NEW r \in Settled, Matches(r, f) PROVE Reachable(r)'
        BY <1>7, <1>11 DEF Covered
    <2>1. Reachable(r)
        BY <1>0 DEF PageOK, Covered
    <2>2. CASE r \in Items
        BY <1>9, <2>2 DEF Reachable
    <2>3. CASE Newer(c, r)
        BY <1>3, <1>10, <2>3 DEF Settled
    <2> QED BY <2>1, <2>2, <2>3 DEF Reachable
<1> QED BY <1>5, <1>6, <1>7, <1>12 DEF PageOK, Cursor

LEMMA PageStep ==
    ASSUME TypeOK, TableInv, PageOK, [Next]_vars PROVE PageOK'
<1>1. CASE \E kind \in Kinds : Record(kind)
    BY <1>1, PageSame DEF Record, Settled
<1>2. CASE \E row \in notes : Push(row)
    BY <1>2, PagePush
<1>3. CASE (\E row \in notes : PushLost(row)) \/ Crash
    BY <1>3, PageSame, PrunedRows DEF PushLost, Crash, Settled
<1>4. CASE Tick \/ UNCHANGED vars
    BY <1>4, PageSame DEF Tick, vars, table, Settled
<1>5. CASE \E filter \in Kinds \cup {None}, limit \in Limits : Open(filter, limit)
    BY <1>5, PageOpen
<1>6. CASE FetchNext
    BY <1>6, PageNext
<1> QED BY <1>1, <1>2, <1>3, <1>4, <1>5, <1>6 DEF Next

\* The inductive invariant of the log and its page: ids are unique, the fetched rows are
\* in order, and what is not shown yet comes after the cursor.
THEOREM Invariance == Spec => []LogInv
<1>1. LogInv <=> TypeOK /\ TableInv /\ PageOK
    BY TypeParts DEF LogInv, PageInv, PageOK, PagesInOrder, Sorted, Covered, Settled
<1>2. LogInv' <=> TypeOK' /\ TableInv' /\ PageOK'
    BY TypePartsPrime DEF LogInv, PageInv, PageOK, PagesInOrder, Sorted, Covered, Settled
<1>3. TypeOK /\ TableInv /\ PageOK /\ [Next]_vars => TypeOK' /\ TableInv' /\ PageOK'
    BY TableStep, PageStep, TypePartsPrime DEF PageOK
<1>4. LogInv /\ [Next]_vars => LogInv'
    BY <1>1, <1>2, <1>3
<1> QED BY <1>4, LogInit, PTL DEF Spec

\* The rows a client pages through are newest first and none comes twice, however many
\* are recorded and pruned between two pages (ListEvents and its cursor).
THEOREM InOrder == Spec => []PagesInOrder
<1>1. LogInv => PagesInOrder
    BY DEF LogInv, PageInv
<1> QED BY <1>1, Invariance, PTL

\* A page fetched to its end shows every event of the log that it asks for, but for lost
\* pushes and those under way (ListEvents, Notify and the merge of Events.tsx), for any
\* sizes of pages, events recorded in the same second, retention and crashes.
THEOREM NoneSkipped == Spec => []NothingSkipped
<1>1. LogInv => NothingSkipped
    BY DEF LogInv, PageInv, NothingSkipped, Reachable
<1> QED BY <1>1, Invariance, PTL
=============================================================================

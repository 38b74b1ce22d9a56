---------------------------- MODULE StormQueries ----------------------------
(***************************************************************************)
(* ListStormEvents: keyset paging over storm_events while storm analytics  *)
(* inserts, moves and deletes storms between the calls of one client.      *)
(*                                                                         *)
(* started_at and id are integers and compare as in the database; a page   *)
(* token is the pair it encodes (the database keeps microseconds, and so   *)
(* does the token).                                                        *)
(***************************************************************************)
EXTENDS Integers, Sequences, FiniteSets, FiniteSetsExt, SequencesExt

CONSTANTS
    Starts, Ids,      \* started_at and id of storms
    PageSizes,        \* page_size as clients send it
    DefaultPageSize, MaxPageSize,
    MaxChanges        \* bound on table changes

ASSUME QueryAssumption ==
    /\ Starts \subseteq Nat /\ Ids \subseteq Nat /\ PageSizes \subseteq Int
    /\ IsFiniteSet(Ids)
    /\ MaxPageSize \in Nat /\ DefaultPageSize \in 1 .. MaxPageSize

NoCursor == <<>>

VARIABLES
    storms,     \* storm_events: id -> started_at
    changes,    \* changes of the tables so far
    walk        \* a client that reads ListStormEvents to the end

queryVars == <<storms, changes, walk>>

Walk == [pc |-> "idle", size |-> 0, cursor |-> NoCursor, rows |-> <<>>, stable |-> {}]

QueryInit ==
    /\ storms \in UNION {[I -> Starts] : I \in SUBSET Ids}
    /\ changes = 0 /\ walk = Walk

------------------------------------------------------------------------------
(* ListStormEvents.                                                        *)

\* Faulty: a large size is not capped.
PageSizeUncapped(size) == IF size = 0 THEN DefaultPageSize ELSE size

\* A negative size is InvalidArgument, zero the default, a large one capped.
PageSize(size) ==
    IF size = 0 THEN DefaultPageSize
    ELSE IF size > MaxPageSize THEN MaxPageSize ELSE size

Row(i) == <<storms[i], i>>
Before(a, b) == a[1] < b[1] \/ (a[1] = b[1] /\ a[2] < b[2])

\* Faulty: the cursor holds started_at only.
PastCursorByStart(i, cursor) == cursor = NoCursor \/ storms[i] < cursor[1]

\* Faulty: the row of the cursor is read again.
PastCursorInclusive(i, cursor) == cursor = NoCursor \/ ~Before(cursor, Row(i))

\* (started_at, id) < cursor.
PastCursor(i, cursor) == cursor = NoCursor \/ Before(Row(i), cursor)

\* ListStormEventsPage: the rows past the cursor, newest first; a row is left
\* out only by the limit, and only behind the rows that are in.
ListStormEventsPage(cursor, lim) ==
    LET ids == {i \in DOMAIN storms : PastCursor(i, cursor)}
    IN  {rows \in UNION {[1 .. n -> ids] : n \in 0 .. Cardinality(ids)} :
            /\ Len(rows) <= lim
            /\ \A j, k \in DOMAIN rows : j < k => Before(Row(rows[k]), Row(rows[j]))
            /\ \A i \in ids \ ToSet(rows) :
                  Len(rows) = lim /\ \A k \in DOMAIN rows : Before(Row(i), Row(rows[k]))}

\* One row more than the page says whether there is a next page; the token is
\* the last row of this one.
PageOf(rows, size) == IF Len(rows) > size THEN SubSeq(rows, 1, size) ELSE rows
NextPageToken(rows, size) == IF Len(rows) > size THEN Row(rows[size]) ELSE NoCursor

StartWalk(size) ==
    /\ walk.pc = "idle" /\ size >= 0
    /\ walk' = [Walk EXCEPT !.pc = "reading", !.size = PageSize(size),
                            !.stable = {Row(i) : i \in DOMAIN storms}]
    /\ UNCHANGED <<storms, changes>>

\* One call: the client follows the token until there is none.
ListStormEvents ==
    /\ walk.pc = "reading"
    /\ \E rows \in ListStormEventsPage(walk.cursor, walk.size + 1) :
         LET page == PageOf(rows, walk.size)
             token == NextPageToken(rows, walk.size)
         IN  walk' = [walk EXCEPT !.rows = @ \o [k \in DOMAIN page |-> Row(page[k])],
                                  !.cursor = token,
                                  !.pc = IF token = NoCursor THEN "done" ELSE "reading"]
    /\ UNCHANGED <<storms, changes>>

EndWalk ==
    /\ walk.pc = "done"
    /\ walk' = Walk
    /\ UNCHANGED <<storms, changes>>

\* Storm analytics inserts a storm, moves its start or deletes it.
ChangeStorms ==
    /\ walk.pc = "reading" /\ changes < MaxChanges /\ changes' = changes + 1
    /\ \/ \E i \in Ids, t \in Starts :
            storms' = [k \in DOMAIN storms \cup {i} |-> IF k = i THEN t ELSE storms[k]]
       \/ \E i \in DOMAIN storms : storms' = Restrict(storms, DOMAIN storms \ {i})
    /\ walk' = [walk EXCEPT !.stable = {r \in @ : r[2] \in DOMAIN storms' /\ storms'[r[2]] = r[1]}]

QueryNext ==
    \/ \E size \in PageSizes : StartWalk(size)
    \/ ListStormEvents \/ ChangeStorms \/ EndWalk

QuerySpec == QueryInit /\ [][QueryNext]_queryVars

------------------------------------------------------------------------------
(* Properties.                                                             *)

\* Newest first, across all pages of a walk: started_at and id strictly
\* descend, so no row is shown twice at the same place of the list.
PagesDescend ==
    \A k \in 1 .. Len(walk.rows) - 1 : Before(walk.rows[k + 1], walk.rows[k])

\* A walk that follows the tokens to the end shows every storm that was there
\* all the time, whatever was inserted, moved or deleted between two pages.
WalkMissesNothing == walk.pc = "done" => walk.stable \subseteq ToSet(walk.rows)

\* ListStormEvents over several pages: pages of at most the code's limit, rows
\* in one descending order, and no storm left out that stayed.
WalkComplete == walk.size <= MaxPageSize /\ PagesDescend /\ WalkMissesNothing
=============================================================================

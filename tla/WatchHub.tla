------------------------------ MODULE WatchHub ------------------------------
(***************************************************************************)
(* The live neighbourhood stream of the gateway: one goroutine reads the   *)
(* database in rounds and publishes what changed to subscribers with       *)
(* bounded queues, while writers commit rows whose updated_at is the start *)
(* of their transaction.                                                   *)
(*                                                                         *)
(* A row stands for a storm event or an alert; its content is the number   *)
(* of the write that made it, and whether the storm is open or the alert   *)
(* unresolved.  Segment status is one number, recomputed in full by every  *)
(* round.  The client at the other end of a stream is the dashboard's      *)
(* useNeighbourhood, which keeps what it was sent in maps by id.           *)
(***************************************************************************)
EXTENDS Integers, Sequences, FiniteSets, FiniteSetsExt

CONSTANTS
    Storms, Alerts,   \* rows of storm_events and alerts
    Subs,             \* callers of WatchNeighbourhood with send_snapshot
    Owners,           \* the callers whose subject owns the alerts' home
    Watching,         \* the callers whose segment filter holds the segment
    Overlap,          \* changeOverlap
    MaxTxn,           \* the longest transaction of a writer
    Buffer,           \* WatchConfig.Buffer
    RecentStorms,     \* WatchConfig.RecentStorms
    MaxWrites, MaxStatus, MaxTime, MaxFaults   \* bounds

Rows == Storms \cup Alerts
Kinds == {"storm", "alert"}
KindOf(r) == IF r \in Storms THEN "storm" ELSE "alert"

ASSUME HubAssumption ==
    /\ Storms \cap Alerts = {} /\ "status" \notin Rows /\ IsFiniteSet(Rows)
    /\ Owners \subseteq Subs /\ Watching \subseteq Subs
    /\ Overlap \in Nat /\ MaxTxn \in Nat /\ MaxTxn < Overlap
    /\ Buffer \in Nat \ {0} /\ RecentStorms \in Nat
    /\ MaxWrites \in Nat /\ MaxStatus \in Nat /\ MaxFaults \in Nat
    /\ MaxTime \in Nat /\ Overlap < MaxTime

VARIABLES
    clock,      \* the database clock
    db,         \* per row: its content (0: no row) and updated_at
    txns,       \* writers under way: row and start
    writes,     \* writes begun, and when the last one was: no two at the same time
    activity,   \* what segment status is computed from
    hub,        \* the Run goroutine and what h.mu guards
    reading,    \* the snapshot of the round under way
    subs,       \* the streams
    sent,       \* row versions published so far (history)
    faults      \* failed rounds, failed snapshots and shutdowns so far

vars == <<clock, db, txns, writes, activity, hub, reading, subs, sent, faults>>

Absent == [v |-> 0, at |-> 0, live |-> FALSE, gone |-> FALSE]

\* A deleted row never comes back: a new storm has a new id.
Deleted == [Absent EXCEPT !.gone = TRUE]
NoReading == [rows |-> [r \in Rows |-> Absent], activity |-> 0]

\* A stream and its client: told are the storms this connection has sent, view
\* is what the client shows, also when it is not connected.
Stream == [pc |-> "off", ch |-> <<>>, gone |-> FALSE, status |-> 0,
           told |-> {}, view |-> [r \in Rows |-> 0]]

Init ==
    /\ clock = Overlap + 1 /\ db = [r \in Rows |-> Absent] /\ txns = {}
    /\ writes = [n |-> 0, last |-> 0] /\ activity = 0 /\ faults = 0 /\ sent = {}
    /\ hub = [pc |-> "idle", ready |-> FALSE, status |-> -1,
              mark |-> [k \in Kinds |-> clock], seen |-> [r \in Rows |-> 0]]
    /\ reading = NoReading
    /\ subs = [s \in Subs |-> Stream]

------------------------------------------------------------------------------
(* Writers (storm-analytics, alerts, ingest).                              *)

BeginWrite(r) ==
    /\ writes.n < MaxWrites /\ writes.last < clock
    /\ writes' = [n |-> writes.n + 1, last |-> clock]
    /\ txns' = txns \cup {[row |-> r, at |-> clock, n |-> writes.n + 1]}
    /\ UNCHANGED <<clock, db, activity, hub, reading, subs, sent, faults>>

\* updated_at = now(): the start of the transaction.  A transaction that began
\* earlier may write later, so updated_at may move back.  The update of a row
\* that has been deleted finds nothing.  live: the storm is open, the alert
\* not resolved.
CommitWrite(t, live) ==
    /\ txns' = txns \ {t}
    /\ db' = IF db[t.row].gone THEN db
             ELSE [db EXCEPT ![t.row] = [v |-> t.n, at |-> t.at, live |-> live, gone |-> FALSE]]
    /\ UNCHANGED <<clock, writes, activity, hub, reading, subs, sent, faults>>

\* A storm that merged into another or lost its rain; nothing is left of the
\* row that a query by updated_at could find.
DeleteStormEvent(r) ==
    /\ db[r].v # 0
    /\ db' = [db EXCEPT ![r] = Deleted]
    /\ UNCHANGED <<clock, txns, writes, activity, hub, reading, subs, sent, faults>>

StatusChanges ==
    /\ activity < MaxStatus
    /\ activity' = activity + 1
    /\ UNCHANGED <<clock, db, txns, writes, hub, reading, subs, sent, faults>>

Tick ==
    /\ clock < MaxTime
    /\ \A t \in txns : clock - t.at < MaxTxn
    /\ clock' = clock + 1
    /\ UNCHANGED <<db, txns, writes, activity, hub, reading, subs, sent, faults>>

------------------------------------------------------------------------------
(* The change tracker.                                                     *)

\* Faulty: rows that commit late are not looked for.
sinceMark(mark) == mark

since(mark) == mark - Overlap

isNew(r, at) == hub.seen[r] # at

\* The round's two queries, in its snapshot.
ListStormEventsChangedSince(t) ==
    {r \in Storms : reading.rows[r].v # 0 /\ reading.rows[r].at > t}

ListAlertsChangedSince(t) ==
    {r \in Alerts : reading.rows[r].v # 0 /\ reading.rows[r].at > t}

\* The new versions among them.
ChangedRows ==
    {r \in ListStormEventsChangedSince(since(hub.mark["storm"]))
             \cup ListAlertsChangedSince(since(hub.mark["alert"])) :
        isNew(r, reading.rows[r].at)}

NewMark ==
    [k \in Kinds |-> Max({hub.mark[k]} \cup
                          {reading.rows[r].at : r \in {c \in ChangedRows : KindOf(c) = k}})]

\* Faulty: everything older than the mark is forgotten.
PrunedToMark(seen) == [r \in Rows |-> IF seen[r] < NewMark[KindOf(r)] THEN 0 ELSE seen[r]]

Pruned(seen) == [r \in Rows |-> IF seen[r] < since(NewMark[KindOf(r)]) THEN 0 ELSE seen[r]]

record ==
    Pruned([r \in Rows |-> IF r \in ChangedRows THEN reading.rows[r].at ELSE hub.seen[r]])

------------------------------------------------------------------------------
(* Rounds.                                                                 *)

\* The ticker or a notification starts a round: one repeatable-read snapshot.
RoundBegin ==
    /\ hub.pc = "idle"
    /\ hub' = [hub EXCEPT !.pc = "reading"]
    /\ reading' = [rows |-> db, activity |-> activity]
    /\ UNCHANGED <<clock, db, txns, writes, activity, subs, sent, faults>>

RoundFails ==
    /\ hub.pc = "reading" /\ faults < MaxFaults
    /\ faults' = faults + 1
    /\ hub' = [hub EXCEPT !.pc = "idle"]
    /\ reading' = NoReading
    /\ UNCHANGED <<clock, db, txns, writes, activity, subs, sent>>

\* The subscribers whose subject owns the home of an alert.
ListOwnersOfHomes == Owners

\* Faulty: alerts go to every authenticated watcher of the segment.
wantsPublic(s, kind) == kind = "storm" \/ s \in Watching

\* wants: statuses and storms are public, an alert is for its owner.
wants(s, kind) ==
    \/ kind = "storm"
    \/ kind = "status" /\ s \in Watching
    \/ kind = "alert" /\ s \in ListOwnersOfHomes /\ s \in Watching

\* ORDER BY updated_at; rows with the same time in any order.
InOrder(rows) ==
    {q \in [1 .. Cardinality(rows) -> rows] :
        /\ \A r \in rows : \E i \in DOMAIN q : q[i] = r
        /\ \A i, j \in DOMAIN q : i < j => reading.rows[q[i]].at <= reading.rows[q[j]].at}

\* The changed rows of a kind, in the order of their query.
Changes(kind) == InOrder({r \in ChangedRows : KindOf(r) = kind})

\* What the client shows of a row once it has applied this version: a resolved
\* alert leaves its list, a closed storm stays.
applyUpdate(r, x) == IF r \in Alerts /\ ~x.live THEN 0 ELSE x.v

\* v: what the update makes of the client's row.
RowUpdates(kind, rows) ==
    [i \in DOMAIN rows |-> [kind |-> kind, row |-> rows[i],
                            v |-> applyUpdate(rows[i], reading.rows[rows[i]])]]

\* The updates of a round that a subscriber wants, in the order of publish: the
\* status if it changed, storms, alerts.
Updates(s, storms, alerts) ==
    (IF hub.status # reading.activity /\ wants(s, "status")
     THEN <<[kind |-> "status", row |-> "status", v |-> reading.activity]>> ELSE <<>>)
        \o (IF wants(s, "storm") THEN RowUpdates("storm", storms) ELSE <<>>)
        \o (IF wants(s, "alert") THEN RowUpdates("alert", alerts) ELSE <<>>)

\* Faulty: an update that does not fit is skipped.
deliverOrSkip(s, q) ==
    [s EXCEPT !.ch = SubSeq(@ \o q, 1, Min({Buffer, Len(@ \o q)}))]

\* Faulty: the queue has no bound.
deliverAll(s, q) == [s EXCEPT !.ch = @ \o q]

\* deliver: what fits is queued; the first update that does not fit ends the
\* stream.
deliver(s, q) ==
    LET n == Len(s.ch) + Len(q)
    IN  [s EXCEPT !.ch = SubSeq(@ \o q, 1, Min({Buffer, n})), !.gone = @ \/ n > Buffer]

Registered(s) == subs[s].pc \in {"registered", "streaming"} /\ ~subs[s].gone

\* record and publish, under h.mu.
RoundPublish ==
    /\ hub.pc = "reading"
    /\ \E storms \in Changes("storm"), alerts \in Changes("alert") :
         subs' = [s \in Subs |-> IF Registered(s) THEN deliver(subs[s], Updates(s, storms, alerts))
                                 ELSE subs[s]]
    /\ sent' = sent \cup {<<r, reading.rows[r].v>> : r \in ChangedRows}
    /\ hub' = [pc |-> "idle", ready |-> TRUE, status |-> reading.activity,
               mark |-> NewMark, seen |-> record]
    /\ UNCHANGED <<clock, db, txns, writes, activity, reading, faults>>

\* Run returns: every stream is told to reconnect.
Shutdown ==
    /\ hub.pc # "stopped" /\ faults < MaxFaults
    /\ faults' = faults + 1
    /\ hub' = [hub EXCEPT !.pc = "stopped"]
    /\ UNCHANGED <<clock, db, txns, writes, activity, reading, subs, sent>>

------------------------------------------------------------------------------
(* Serve.                                                                  *)

\* Registration and the status snapshot under one lock.  The client that opens
\* a stream forgets its alerts ("the snapshot resends active alerts") and
\* keeps its storms.
Subscribe(s) ==
    /\ subs[s].pc = "off" /\ hub.ready /\ hub.pc # "stopped"
    /\ subs' = [subs EXCEPT ![s] =
                   [Stream EXCEPT !.pc = "registered",
                                  !.status = IF s \in Watching THEN hub.status ELSE 0,
                                  !.view = [r \in Rows |-> IF r \in Alerts THEN 0
                                                           ELSE subs[s].view[r]]]]
    /\ UNCHANGED <<clock, db, txns, writes, activity, hub, reading, sent, faults>>

\* What a caller may see.
Visible(s, r) == r \in Storms \/ (s \in Owners /\ s \in Watching)

\* ListSnapshotStormEvents: the open storms and the RecentStorms that started
\* last.  When a storm started is no part of the model, so any may be recent.
ListSnapshotStormEvents ==
    LET rows == {r \in Storms : db[r].v # 0}
    IN  {{r \in rows : db[r].live} \cup recent :
            recent \in {q \in SUBSET rows :
                          Cardinality(q) = Min({RecentStorms, Cardinality(rows)})}}

\* The client after the snapshot: the storms listed, and its unresolved alerts.
Snapshot(s, storms) ==
    [r \in Rows |-> IF r \in storms \/ r \in Alerts
                    THEN IF Visible(s, r) THEN applyUpdate(r, db[r]) ELSE 0
                    ELSE subs[s].view[r]]

\* snapshot and its sends: the database as it is now, after registration.
SendSnapshot(s) ==
    /\ subs[s].pc = "registered"
    /\ \E storms \in ListSnapshotStormEvents :
         subs' = [subs EXCEPT ![s].pc = "streaming", ![s].told = storms,
                              ![s].view = Snapshot(s, storms)]
    /\ UNCHANGED <<clock, db, txns, writes, activity, hub, reading, sent, faults>>

\* The next queued update is sent; the client keeps the newest it was sent.
SendNext(s) ==
    /\ subs[s].pc = "streaming" /\ subs[s].ch # <<>>
    /\ LET u == Head(subs[s].ch)
       IN  subs' = IF u.kind = "status"
                   THEN [subs EXCEPT ![s].ch = Tail(@), ![s].status = u.v]
                   ELSE [subs EXCEPT ![s].ch = Tail(@), ![s].view[u.row] = u.v,
                                     ![s].told = @ \cup {u.row}]
    /\ UNCHANGED <<clock, db, txns, writes, activity, hub, reading, sent, faults>>

\* The connection is gone; the client still shows what it was sent.
Disconnected(x) == [Stream EXCEPT !.status = x.status, !.view = x.view]

\* The stream fell behind or the hub stopped: the client is told to reconnect.
EndStream(s) ==
    /\ subs[s].pc = "streaming" /\ (subs[s].gone \/ hub.pc = "stopped")
    /\ subs' = [subs EXCEPT ![s] = Disconnected(subs[s])]
    /\ UNCHANGED <<clock, db, txns, writes, activity, hub, reading, sent, faults>>

\* The snapshot or a send fails, or the client leaves.
LoseStream(s) ==
    /\ subs[s].pc # "off" /\ faults < MaxFaults
    /\ faults' = faults + 1
    /\ subs' = [subs EXCEPT ![s] = Disconnected(subs[s])]
    /\ UNCHANGED <<clock, db, txns, writes, activity, hub, reading, sent>>

Next ==
    \/ \E r \in Rows : BeginWrite(r)
    \/ \E t \in txns, live \in BOOLEAN : CommitWrite(t, live)
    \/ \E r \in Storms : DeleteStormEvent(r)
    \/ StatusChanges \/ Tick
    \/ RoundBegin \/ RoundFails \/ RoundPublish \/ Shutdown
    \/ \E s \in Subs : Subscribe(s) \/ SendSnapshot(s) \/ SendNext(s)
                        \/ EndStream(s) \/ LoseStream(s)

\* The ticker starts rounds, a round and a writer end, and a stream that has
\* something to send sends it.
Fairness ==
    /\ WF_vars(RoundBegin) /\ WF_vars(RoundPublish)
    /\ WF_vars(\E t \in txns, live \in BOOLEAN : CommitWrite(t, live))
    /\ \A s \in Subs : WF_vars(Subscribe(s)) /\ WF_vars(SendSnapshot(s))
    /\ \A s \in Subs : WF_vars(SendNext(s)) /\ WF_vars(EndStream(s))

Spec == Init /\ [][Next]_vars
FairSpec == Spec /\ Fairness

------------------------------------------------------------------------------
(* Properties.                                                             *)

TypeOK ==
    /\ clock \in Overlap + 1 .. MaxTime /\ faults \in 0 .. MaxFaults
    /\ hub.mark \in [Kinds -> 0 .. MaxTime]
    /\ \A s \in Subs : Len(subs[s].ch) <= Buffer /\ subs[s].pc \in {"off", "registered", "streaming"}

\* The last round saw the database as it is.
CaughtUp ==
    /\ hub.pc = "idle" /\ hub.ready
    /\ reading = [rows |-> db, activity |-> activity]

\* The rows that a client is owed: every alert, every open storm and every
\* storm that its connection has sent.  Not a closed storm that the snapshot's
\* LIMIT left out, nor one that was deleted.
Owed(s, r) ==
    /\ Visible(s, r) /\ ~db[r].gone
    /\ r \in Alerts \/ db[r].live \/ r \in subs[s].told

UpToDate(s) ==
    /\ s \in Watching => subs[s].status = activity
    /\ \A r \in Rows : Owed(s, r) => subs[s].view[r] = applyUpdate(r, db[r])

\* "Every later broadcast is a change relative to what this subscriber was
\* sent": with the hub caught up, a stream that is neither dropped nor behind
\* has shown its client the current status, its unresolved alerts and no
\* other, every open storm, and the current version of every storm it has sent
\* that still exists, whatever committed late or between registration and
\* snapshot.
ClientsConverge ==
    CaughtUp =>
        \A s \in Subs :
            subs[s].pc = "streaming" /\ ~subs[s].gone /\ subs[s].ch = <<>> => UpToDate(s)

\* The change tracker makes "one delivery per row version": a published
\* version is not published again, although every round looks back over the
\* overlap.
OneDeliveryPerVersion ==
    [][RoundPublish =>
        \A r \in ChangedRows : <<r, reading.rows[r].v>> \notin sent]_vars

\* Alerts reach owners only, by the snapshot and by the queue.
AlertsOnlyToOwners ==
    \A s \in Subs \ Owners :
        /\ \A r \in Alerts : subs[s].view[r] = 0
        /\ \A i \in 1 .. Len(subs[s].ch) : subs[s].ch[i].kind # "alert"

\* What Serve and publish show, together: queues within their bound, clients
\* that are not behind up to date, and alerts with their owners.
WatchersRight == TypeOK /\ ClientsConverge /\ AlertsOnlyToOwners

\* While the gateway runs, every client ends up connected with the state of
\* the rows it is owed, also one that was dropped and connects again.
ClientsCatchUp ==
    <>[](hub.pc # "stopped") =>
        <>[](\A s \in Subs : subs[s].pc = "streaming" /\ UpToDate(s))
=============================================================================

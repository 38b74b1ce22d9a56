----------------------------- MODULE PublicViews -----------------------------
(***************************************************************************)
(* What the gateway tells everyone: the storm aggregates and the live      *)
(* status of each street segment, built from the rows of its homes.  A     *)
(* home may have several devices, devices are linked and moved, and a      *)
(* segment with too few reporting homes is suppressed.                     *)
(***************************************************************************)
EXTENDS Integers, Sequences, FiniteSets, FiniteSetsExt, SequencesExt

CONSTANTS
    ViewHomes, ViewDevices, Segments,
    SegmentOf,      \* [ViewHomes -> Segments]
    MinHomes,
    Window,         \* of the live status
    Times, Counts,  \* event times and cycle counts
    MetricRows,     \* rows a storm analysis may write: [volume, lag], lag may be NoLag
    MaxWrites       \* bound

Unlinked == "unlinked"   \* home_id is null

ASSUME ViewsAssumption ==
    /\ SegmentOf \in [ViewHomes -> Segments] /\ MinHomes \in Nat \ {0}
    /\ Times \subseteq Nat /\ Counts \subseteq Nat
    /\ IsFiniteSet(ViewHomes) /\ Unlinked \notin ViewHomes

NoLag == -1

VARIABLES
    db,         \* homeOf, lastSeen: of the devices; readings; metrics, open: of the homes
    writes      \* rows written (bound)

viewVars == <<db, writes>>

WallClock == Max(Times)

ViewsInit ==
    /\ db = [homeOf |-> [d \in ViewDevices |-> Unlinked], lastSeen |-> [d \in ViewDevices |-> 0],
             readings |-> {}, metrics |-> <<>>, open |-> {}]
    /\ writes = 0

------------------------------------------------------------------------------
(* Queries.                                                                *)

LinkedDevices(d, s) == {v \in ViewDevices : d.homeOf[v] # Unlinked /\ SegmentOf[d.homeOf[v]] = s}

\* GatewayListSegments: home_count
homeCount(d, s) == Cardinality({d.homeOf[v] : v \in LinkedDevices(d, s)})

\* NeighbourhoodClock: the newest event of a linked device, at most now.
NeighbourhoodClock(d) ==
    LET seen == {d.lastSeen[v] : v \in {w \in ViewDevices : d.homeOf[w] # Unlinked}}
    IN  IF seen = {} THEN WallClock ELSE Min({Max(seen), WallClock})

\* Faulty: every device that sent a heartbeat counts.
SegmentActivityPerDevice(d, s) ==
    LET clock == NeighbourhoodClock(d)
        rs == {r \in d.readings : r.dev \in LinkedDevices(d, s) /\ r.ts > clock - Window /\ r.ts <= clock}
    IN  [homes |-> Cardinality({r.dev : r \in rs}), cycles |-> FoldSet(LAMBDA r, n : n + r.cycles, 0, rs)]

\* SegmentActivity: the linked homes with a heartbeat in the window, and their cycles.
SegmentActivity(d, s) ==
    LET clock == NeighbourhoodClock(d)
        rs == {r \in d.readings : r.dev \in LinkedDevices(d, s) /\ r.ts > clock - Window /\ r.ts <= clock}
    IN  [homes |-> Cardinality({d.homeOf[r.dev] : r \in rs}),
         cycles |-> FoldSet(LAMBDA r, n : n + r.cycles, 0, rs)]

SegmentOpenAlertCounts(d, s) == Cardinality({h \in d.open : SegmentOf[h] = s})

\* ListStormHomeMetrics: the rows of homes with a house device.
ListStormHomeMetrics(d, s) ==
    {h \in DOMAIN d.metrics : SegmentOf[h] = s /\ \E v \in ViewDevices : d.homeOf[v] = h}

------------------------------------------------------------------------------
(* Aggregates.                                                             *)

Visible(n) == n >= MinHomes

\* Twice the median; 0 of nothing.
median(xs) ==
    LET s == SortSeq(xs, <)
        n == Len(s)
    IN  IF n = 0 THEN 0
        ELSE IF n % 2 = 1 THEN 2 * s[n \div 2 + 1]
        ELSE s[n \div 2] + s[n \div 2 + 1]

totalVolume(d, hs) == FoldSet(LAMBDA h, n : n + d.metrics[h].volume, 0, hs)

\* Of the homes that have a lag.
medianLag(d, hs) ==
    LET lags == [k \in DOMAIN SetToSeq(hs) |-> d.metrics[SetToSeq(hs)[k]].lag]
    IN  median(SelectSeq(lags, LAMBDA x : x # NoLag))

\* Faulty: the median is taken before the segment is suppressed.
AggregateStormEarly(d, hs) ==
    [homes |-> Cardinality(hs), suppressed |-> ~Visible(Cardinality(hs)),
     total |-> IF Visible(Cardinality(hs)) THEN totalVolume(d, hs) ELSE 0, lag |-> medianLag(d, hs)]

\* AggregateStorm; the load per home is total / homes.  The recession is
\* aggregated like the lag.
AggregateStorm(d, hs) ==
    IF ~Visible(Cardinality(hs))
    THEN [homes |-> Cardinality(hs), suppressed |-> TRUE, total |-> 0, lag |-> 0]
    ELSE [homes |-> Cardinality(hs), suppressed |-> FALSE, total |-> totalVolume(d, hs),
          lag |-> medianLag(d, hs)]

AggregateStatus(a, alerts) ==
    IF ~Visible(a.homes) THEN [homes |-> a.homes, suppressed |-> TRUE, cycles |-> 0, alerts |-> 0]
    ELSE [homes |-> a.homes, suppressed |-> FALSE, cycles |-> a.cycles, alerts |-> alerts]

\* GetStormEvent: every segment of the catalogue.
aggregateStorm(d) == [s \in Segments |-> AggregateStorm(d, ListStormHomeMetrics(d, s))]

buildStatuses(d) ==
    [s \in Segments |-> AggregateStatus(SegmentActivity(d, s), SegmentOpenAlertCounts(d, s))]

------------------------------------------------------------------------------
(* The rows change.                                                        *)

Write(next) == writes < MaxWrites /\ writes' = writes + 1 /\ db' = next

\* A heartbeat that is stored already is left as it is.
Heartbeat(v, ts, n) ==
    Write([db EXCEPT !.readings = IF \E r \in @ : r.dev = v /\ r.ts = ts THEN @
                                  ELSE @ \cup {[dev |-> v, ts |-> ts, cycles |-> n]},
                     !.lastSeen[v] = Max({@, ts})])

Analysed(h, row) ==
    Write([db EXCEPT !.metrics = [k \in DOMAIN @ \cup {h} |-> IF k = h THEN row ELSE @[k]]])

OpenOrResolve(h) == Write([db EXCEPT !.open = SymDiff(@, {h})])

LinkDevice(v, h) == Write([db EXCEPT !.homeOf[v] = h])

ViewsNext ==
    \/ \E v \in ViewDevices, ts \in Times, n \in Counts : Heartbeat(v, ts, n)
    \/ \E h \in ViewHomes, row \in MetricRows : Analysed(h, row)
    \/ \E h \in ViewHomes : OpenOrResolve(h)
    \/ \E v \in ViewDevices, h \in ViewHomes : LinkDevice(v, h)

ViewsSpec == ViewsInit /\ [][ViewsNext]_viewVars

------------------------------------------------------------------------------
(* Properties.                                                             *)

\* The same rows with other values for one home.
WithOther(h) ==
    {[db EXCEPT !.metrics = [k \in DOMAIN @ |-> IF k = h THEN row ELSE @[k]]] : row \in MetricRows}
      \cup {[db EXCEPT !.readings = {IF db.homeOf[r.dev] = h THEN [r EXCEPT !.cycles = n] ELSE r : r \in @}]
              : n \in Counts}
      \cup {[db EXCEPT !.open = SymDiff(@, {h})]}

\* ADR 0005: a segment below the threshold says nothing about its homes.  What
\* is published of it is the same whatever their volumes, lags, cycles and
\* alerts are.
SuppressedRevealsNothing ==
    \A s \in Segments :
        LET storm == aggregateStorm(db)[s]
            status == buildStatuses(db)[s]
        IN  storm.suppressed \/ status.suppressed =>
              \A h \in ViewHomes : \A other \in WithOther(h) :
                  /\ storm.suppressed => aggregateStorm(other)[s] = storm
                  /\ status.suppressed => buildStatuses(other)[s] = status

\* The threshold counts homes, not rows: no view of a segment claims more
\* reporting homes than the catalogue has linked ones, however many devices a
\* home has.
HomesCountedOnce ==
    \A s \in Segments :
        /\ aggregateStorm(db)[s].homes <= homeCount(db, s)
        /\ buildStatuses(db)[s].homes <= homeCount(db, s)

\* Both aggregates of internal/privacy, on every table: a suppressed segment is
\* silent, and homes are what the threshold counts.
AggregatesPrivate == SuppressedRevealsNothing /\ HomesCountedOnce
=============================================================================

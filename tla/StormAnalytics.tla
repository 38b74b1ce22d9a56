--------------------------- MODULE StormAnalytics ---------------------------
(***************************************************************************)
(* storm-analytics: the tables storm_events and home_storm_metrics kept up *)
(* to date while rainfall and telemetry arrive late, in any order, and are *)
(* revised.  Each stage transaction re-segments the rain around what       *)
(* changed; nothing is remembered between them.                            *)
(*                                                                         *)
(* A home's metrics are floating-point statistics of what loadObs and      *)
(* baseflowRain read; the model keeps what they are computed from: the     *)
(* storm, the onset that cuts the analysis off, the newest report, the     *)
(* observations and the dry-weather intervals of the baseflow.  A report   *)
(* stands for a cycle of the primary pump with its levels.                 *)
(***************************************************************************)
EXTENDS StormSegments

CONSTANTS
    ExtendStep,     \* extendStep: the window grows by this much
    MaxExtensions,  \* maxExtensions
    Lookback,       \* BaseflowLookback
    DryFor,         \* BaseflowDryFor
    BaseflowMinSamples,
    MaxRecession,   \* MaxRecession
    Day,            \* the slack of process' candidate search
    Loads           \* bounds of a behaviour: records with the rainfall rows, the
                    \* revisions of rows, the reports of the home, and how many
                    \* of them may wait for a poll at a time

ASSUME AnalyticsAssumption ==
    /\ ExtendStep \in Nat \ {0} /\ MaxExtensions \in Nat
    /\ Lookback \in Nat /\ MaxRecession \in Nat /\ Day \in Nat
    /\ DryFor \in Nat /\ BaseflowMinSamples \in Nat
    /\ Loads \subseteq [rows : Nat, revisions : Nat, reports : Nat, waiting : Nat]

EdgePad == MaxGap + 1

VARIABLES
    load,       \* the bounds of this behaviour
    rain,       \* rainfall
    dirty,      \* rows written and not polled, <<station, bin>>
    revisions,  \* revisions so far
    reports,    \* the bins in which the home's node reported something
    waiting,    \* reports not polled
    events,     \* storm_events
    metrics     \* home_storm_metrics of the home, by storm id

vars == <<load, rain, dirty, revisions, reports, waiting, events, metrics>>

Nothing == [b \in Bins |-> NoRow]

Init ==
    /\ load \in Loads
    /\ rain = [s \in Stations |-> Nothing]
    /\ dirty = {} /\ revisions = 0 /\ reports = {} /\ waiting = {}
    /\ events = {} /\ metrics = {}

------------------------------------------------------------------------------
(* Producers: the weather service and ingest.                              *)

Rows == {p \in Stations \X Bins : rain[p[1]][p[2]] # NoRow}

HasRoom == Cardinality(dirty) + Cardinality(waiting) < load.waiting

WriteRain(s, b, mm) ==
    /\ rain[s][b] # mm
    /\ IF rain[s][b] = NoRow
       THEN Cardinality(Rows) < load.rows /\ UNCHANGED revisions
       ELSE revisions < load.revisions /\ revisions' = revisions + 1
    /\ HasRoom
    /\ rain' = [rain EXCEPT ![s][b] = mm]
    /\ dirty' = dirty \cup {<<s, b>>}
    /\ UNCHANGED <<load, reports, waiting, events, metrics>>

Report(b) ==
    /\ b \notin reports
    /\ Cardinality(reports) < load.reports
    /\ HasRoom
    /\ reports' = reports \cup {b}
    /\ waiting' = waiting \cup {b}
    /\ UNCHANGED <<load, rain, dirty, revisions, events, metrics>>

------------------------------------------------------------------------------
(* refreshStorms.                                                          *)

\* RainfallCoveredUntil over both sources.
horizon == Max({p[2] + 1 : p \in Rows} \cup {0})

\* One turn of the loop: an end with a wet interval too close moves out.
Extend(w) ==
    LET wet == WetBins(selectRain(rain, w.lo, w.hi))
    IN  IF wet = {} THEN w
        ELSE [lo |-> IF Min(wet) - w.lo < EdgePad THEN w.lo - ExtendStep ELSE w.lo,
              hi |-> IF w.hi - (Max(wet) + 1) < EdgePad /\ w.hi < horizon
                     THEN w.hi + ExtendStep ELSE w.hi]

\* Faulty: the window is used as it is.
NotExtended(lo, hi) == [lo |-> lo, hi |-> hi]

Extended(lo, hi) ==
    LET W[i \in 0 .. MaxExtensions] ==
            IF i = 0 THEN [lo |-> lo, hi |-> hi] ELSE Extend(W[i - 1])
    IN  W[MaxExtensions]

\* ListStormEventsOverlapping: an open storm has no end.
Overlapping(rows, lo, hi) == {e \in rows : e.start < hi /\ (e.open \/ e.end > lo)}

stormRowFor(s, id) ==
    [id |-> id, start |-> s.onset, open |-> ~s.closed,
     end |-> IF s.closed THEN s.end ELSE 0,
     total |-> s.total, peak |-> s.peak, source |-> s.source]

\* Faulty: a row belongs to the storm with the same onset.
MatchesOnset(owned, s) == {e \in owned : s.onset = e.start}

\* The rows whose onset lies in the storm's rain; the earliest keeps its id.
Matches(owned, s) == {e \in owned : s.first <= e.start /\ e.start <= s.end}

Earliest(rows) ==
    CHOOSE e \in rows : \A f \in rows : e.start < f.start \/ (e.start = f.start /\ e.id <= f.id)

\* New ids: one for each storm without a row.
FreshId(s, new) ==
    LET used == {e.id : e \in events}
        rank == Cardinality({t \in new : t.first <= s.first})
    IN  CHOOSE n \in 1 .. Cardinality(events) + Cardinality(new) :
            n \notin used /\ Cardinality({m \in 1 .. n : m \notin used}) = rank

\* The reconciliation of storm_events in a window: the storms, their ids,
\* the rows that leave (merged at once, the others after the loop).
Reconciled(lo, hi) ==
    LET w == Extended(lo, hi)
        computed == FindStorms(selectRain(rain, w.lo, w.hi), horizon)
        owned == {e \in Overlapping(events, w.lo, w.hi) : e.start >= w.lo}
        new == {s \in computed : Matches(owned, s) = {}}
        idOf == [s \in computed |-> IF s \in new THEN FreshId(s, new)
                                    ELSE Earliest(Matches(owned, s)).id]
        ids == {idOf[s] : s \in computed}
        merged == {e \in owned : e.id \notin ids /\ \E s \in computed : e \in Matches(owned, s)}
        gone == {e \in owned : \A s \in computed : e \notin Matches(owned, s)}
    IN  [computed |-> computed, idOf |-> idOf, gone |-> gone,
         written |-> {e \in events : e.id \notin ids /\ e \notin merged}
                         \cup {stormRowFor(s, idOf[s]) : s \in computed}]

\* The storm_events of refreshStorms, and the storms whose row is new or differs.
EventsAfter(r) == r.written \ r.gone
Changed(r, s) == stormRowFor(s, r.idOf[s]) \notin events

\* Faulty: only the storms of the window are looked at.
UntilInWindow(r, s) ==
    LET inWindow == {t.onset : t \in {u \in r.computed : u.first > s.first}}
    IN  IF inWindow # {} THEN Min(inWindow) ELSE 0

\* until: the next storm of the window, or the next row of the table (read
\* before the rows in gone are deleted).  0 if there is none.
Until(r, s) ==
    LET inWindow == {t.onset : t \in {u \in r.computed : u.first > s.first}}
        inTable == {e.start : e \in {f \in r.written : f.start > s.end}}
    IN  IF inWindow # {} THEN Min(inWindow)
        ELSE IF inTable # {} THEN Min(inTable) ELSE 0

------------------------------------------------------------------------------
(* recomputeHome and loadObs.                                              *)

AnalysisEnd(s, until) ==
    IF until # 0 /\ until < s.end + MaxRecession THEN until ELSE s.end + MaxRecession

loadObs(s, until) ==
    {b \in reports : s.first - Lookback <= b /\ b <= AnalysisEnd(s, until)}

\* The home reported in [onset, end of the analysis), which stops at the
\* newest report.
HasSamples(s, until) ==
    \E b \in reports : /\ s.onset <= b /\ b < AnalysisEnd(s, until)
                       /\ b < Max(reports)

\* EstimateBaseflow: the pairs of cycles one after the other in the lookback
\* with no rain from DryFor before the earlier until the later; baseflowRain
\* is the rain it looks at.
DryIntervals(s) ==
    LET cycles == {b \in reports : s.first - Lookback <= b /\ b < s.first}
        wet == WetBins(selectRain(rain, s.first - Lookback - DryFor, s.first))
    IN  {i \in cycles \X cycles :
            /\ i[1] < i[2] /\ \A c \in cycles : c <= i[1] \/ i[2] <= c
            /\ \A w \in wet : w < i[1] - DryFor \/ i[2] <= w}

Baseflow(s) ==
    IF Cardinality(DryIntervals(s)) < BaseflowMinSamples THEN {} ELSE DryIntervals(s)

\* AnalyseHomeStorm: everything it depends on.
Metric(s, id, until) ==
    [id |-> id, onset |-> s.onset, end |-> s.end, until |-> AnalysisEnd(s, until),
     stop |-> Min({AnalysisEnd(s, until), Max(reports)}),
     obs |-> loadObs(s, until), base |-> Baseflow(s)]

\* Faulty: only reports during the rain count.
DependsOnRain(s, polled) == \E b \in polled : s.first <= b /\ b <= s.end

\* The storm's analysis depends on reports from the lookback to MaxRecession
\* after the rain.
DependsOn(s, polled) ==
    \E b \in polled : s.first - Lookback <= b /\ b <= s.end + MaxRecession

\* targets: every home for a changed storm, otherwise the homes with polled
\* reports in the span the analysis depends on.  polled spans [Min, Max].
IsTarget(r, s, polled) ==
    \/ Changed(r, s)
    \/ polled # {} /\ DependsOn(s, Min(polled) .. Max(polled))

\* Faulty: the metrics of a deleted storm stay.
MetricsAfterKeeps(r, polled) ==
    LET targets == {s \in r.computed : reports # {} /\ IsTarget(r, s, polled)}
    IN  {m \in metrics : m.id \notin {r.idOf[s] : s \in targets}}
            \cup {Metric(s, r.idOf[s], Until(r, s)) :
                     s \in {t \in targets : HasSamples(t, Until(r, t))}}

MetricsAfter(r, polled) ==
    LET targets == {s \in r.computed : reports # {} /\ IsTarget(r, s, polled)}
        kept == {e.id : e \in EventsAfter(r)} \ {r.idOf[s] : s \in targets}
    IN  {m \in metrics : m.id \in kept}
            \cup {Metric(s, r.idOf[s], Until(r, s)) :
                     s \in {t \in targets : HasSamples(t, Until(r, t))}}

------------------------------------------------------------------------------
(* process, from its two kinds of stages.                                  *)

process(lo, hi, polled) ==
    \E r \in {Reconciled(lo, hi)} :
        events' = EventsAfter(r) /\ metrics' = MetricsAfter(r, polled)

\* rainfallHandler.Handle: some of the waiting rows (rows share a watermark
\* group in any combination).
HandleRain(polled) ==
    LET bins == {p[2] : p \in polled}
    IN  /\ process(Min(bins) - EdgePad, Max(bins) + 1 + EdgePad, {})
        /\ dirty' = dirty \ polled
        /\ UNCHANGED <<load, rain, revisions, reports, waiting>>

\* The storms that telemetry may concern.
Candidates(polled) ==
    Overlapping(events, Min(polled) - MaxRecession - Day, Max(polled) + Lookback + Day)

\* telemetryHandler.Handle: without a candidate nothing happens.
HandleReports(polled) ==
    LET cands == Candidates(polled)
        lo == Min({e.start : e \in cands}) - EdgePad
        hi == Max({IF e.open THEN e.start ELSE e.end : e \in cands}) + EdgePad
    IN  /\ IF cands = {} THEN UNCHANGED <<events, metrics>> ELSE process(lo, hi, polled)
        /\ waiting' = waiting \ polled
        /\ UNCHANGED <<load, rain, dirty, revisions, reports>>

Next ==
    \/ \E s \in Stations, b \in Bins, mm \in Amounts : WriteRain(s, b, mm)
    \/ \E b \in Bins : Report(b)
    \/ \E polled \in (SUBSET dirty) \ {{}} : HandleRain(polled)
    \/ \E polled \in (SUBSET waiting) \ {{}} : HandleReports(polled)

Spec == Init /\ [][Next]_vars

------------------------------------------------------------------------------
(* Properties.                                                             *)

AllRain == selectRain(rain, Min(Bins), Max(Bins) + 1)
AllStorms == FindStorms(AllRain, horizon)

TypeOK ==
    /\ rain \in [Stations -> [Bins -> Amounts \cup {NoRow}]]
    /\ dirty \subseteq Rows /\ waiting \subseteq reports /\ reports \subseteq Bins
    /\ \A e, f \in events : e.id = f.id => e = f
    /\ \A m \in metrics : \E e \in events : m.id = e.id

\* A hole in the coverage where the row that shows the storm is over would be:
\* no row that lies past the gap also has the storm's rain in its window.
Hole(s) == \A p \in Rows : p[2] \notin s.end + MaxGap - 1 .. s.end + EdgePad - 1

AsRow(s, e) == stormRowFor(IF Hole(s) THEN [s EXCEPT !.closed = ~e.open] ELSE s, e.id)

\* "Replays, redeliveries, late uplinks and ECCC revisions converge to the
\* same tables" (ADR 0007): once every row is handled, storm_events is what
\* one segmentation of all the rain gives, however it arrived and whatever
\* windows refreshStorms looked at.  Only the closing of a storm may be
\* missed, when the coverage has a hole of an hour just past StormMaxGap.
StormsConverge ==
    dirty = {} =>
        LET all == AllStorms
        IN  /\ \A s \in all : \E e \in events : e = AsRow(s, e)
            /\ Cardinality(events) = Cardinality(all)

\* A storm keeps its id while its onset and end move: when storms merge,
\* split or lose their onset, the row of a storm is the earliest of the rows
\* that started in it.
IdStable ==
    events' # events /\ dirty' = {} =>
        \A s \in AllStorms :
            LET old == {f \in events : s.first <= f.start /\ f.start <= s.end}
            IN  old # {} => \E e \in events' : e.start = s.onset /\ e.id = Earliest(old).id

\* The onset of the next of the storms, 0 if there is none.
NextOnset(all, s) ==
    LET later == {t.onset : t \in {u \in all : u.first > s.first}}
    IN  IF later = {} THEN 0 ELSE Min(later)

\* The home's metrics of a storm, from all the rain and all the reports.
Exact(all, s, id) ==
    LET until == NextOnset(all, s)
    IN  IF HasSamples(s, until) THEN {Metric(s, id, until)} ELSE {}

\* process looks for the storms that telemetry concerns by their onset, with a
\* day of slack: it may miss a storm that drizzled longer before its onset.
NearOnset(s) == s.onset - s.first < Day

\* The storms with a row, and the home's metrics of each.
OfMetrics(Hold(_, _)) ==
    dirty = {} /\ waiting = {} =>
        \A s \in AllStorms, e \in events :
            e.start = s.onset => Hold(s, {m \in metrics : m.id = e.id})

\* Once rain and reports are handled, a home's metrics have the storm's onset
\* and end as storm_events has them, and miss no report up to the next onset
\* that they were computed with; and a home with two reports during the rain
\* has metrics.  The next onset and the rain before the storm may be older
\* than the tables (MetricsConverge).
ReportsCounted ==
    OfMetrics(LAMBDA s, its :
        /\ NearOnset(s) => \A m \in its :
              /\ m.onset = s.onset /\ m.end = s.end
              /\ m.obs = {b \in reports : s.first - Lookback <= b /\ b <= m.until}
        /\ Cardinality({b \in reports : s.onset <= b /\ b < s.end}) >= 2 => its # {})

\* Analyzer.process brings storm_events to what the rain says, and every home's
\* metrics to the storms and the reports.
TablesConverge == TypeOK /\ StormsConverge /\ ReportsCounted

\* "The home metrics that can have changed": a poll that leaves no rain to
\* handle and removes no storm gives each storm whose row it wrote, and each
\* storm whose analysis can see a polled report, exactly the metrics of the
\* tables as they are now: next onset, newest report, observations and
\* dry-weather intervals.
PollsRefresh ==
    /\ rain' = rain /\ reports' = reports
    /\ dirty' = {} /\ {e.id : e \in events} \subseteq {e.id : e \in events'}
    => LET all == AllStorms
       IN  \A s \in all, e \in events' :
               /\ NearOnset(s) /\ e.start = s.onset
               /\ e \notin events \/ DependsOn(s, waiting \ waiting')
               => {m \in metrics' : m.id = e.id} = Exact(all, s, e.id)

\* What a stage transaction of storm-analytics does to its two tables: storms
\* keep their ids, and the metrics it computes again are exact.
PollsSound == [][IdStable /\ PollsRefresh]_vars

\* "Late uplinks and ECCC revisions converge to the same tables" (ADR 0007):
\* once rain and reports are handled, the metrics of every storm whose row is
\* right were cut off at the onset of the storm that now follows, and their
\* baseflow is that of the rain now recorded.
MetricsConverge ==
    OfMetrics(LAMBDA s, its : \A m \in its :
        NearOnset(s) /\ stormRowFor(s, m.id) \in events =>
            m.until = AnalysisEnd(s, NextOnset(AllStorms, s)) /\ m.base = Baseflow(s))
=============================================================================

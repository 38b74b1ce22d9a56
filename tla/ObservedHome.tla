---------------------------- MODULE ObservedHome ----------------------------
(***************************************************************************)
(* The node of a house and the analysis of what it reports, put together:  *)
(* a healthy home in dry weather, then a storm, then dry weather again.    *)
(* storm-analytics sees only the reports; the module also keeps what the   *)
(* pit really did, to compare.                                             *)
(*                                                                         *)
(* In dry weather a unit of water seeps in every BaseEvery steps; from     *)
(* the onset of the storm until Flood steps later any of FloodInflows may  *)
(* flow in.                                                                *)
(***************************************************************************)
EXTENDS SumpNode, StormResponse

CONSTANTS
    ResponseLength,   \* length of the scenario, in steps
    ResponsePump,     \* what the pump moves in a step
    BaseEvery, FloodInflows, Flood,
    Onsets, RainLengths,  \* when the rain starts and how long it lasts
    NearPad               \* levels and roll-ups are loaded from this long before

VARIABLES
    storm,      \* the storm [first, onset, end]
    obs,        \* the node's rows: cycle_events, storm_summaries and readings
    outside,    \* water that came in while no pump ran, by step (history)
    moved,      \* what the run under way, or rolled up since the last summary,
                \* really pumped and how far its level fell (history)
    entering    \* the runs whose end started storm mode (history)

responseVars == <<storm, obs, outside, moved, entering>>

House == INSTANCE SumpNode WITH ScenarioLength <- ResponseLength, PumpRate <- ResponsePump

ResponseInit ==
    /\ storm \in {[first |-> a, onset |-> a, end |-> a + d] : a \in Onsets, d \in RainLengths}
    /\ obs = [cycles |-> <<>>, summaries |-> <<>>, levels |-> <<>>]
    /\ outside = <<home.vol>> /\ entering = {}
    /\ moved = [run |-> 0, rolled |-> 0, fell |-> 0]

Inflow(t) ==
    IF In(t, storm.onset, storm.onset + Flood) THEN FloodInflows
    ELSE {IF t % BaseEvery = 0 THEN 1 ELSE 0}

\* What flows into the pit in this step, and what its pump moves.
Pumped(q) == home.vol + q - home'.vol

\* Reported as an event, or rolled up.
Sent(kind) == SelectSeq(out', LAMBDA u : u.kind = kind)

Observed(q) ==
    LET t == home.t
        run == moved.run + Pumped(q)
        ended == truth' > truth
        sent == Sent("cycle")
        rolled == ended /\ sent = <<>>
        acc == IF rolled THEN [moved EXCEPT !.rolled = @ + run,
                                            !.fell = @ + home'.startVol - home'.vol]
               ELSE moved
        sums == Sent("summary")
    IN  /\ obs' = [cycles |-> obs.cycles \o
                       [i \in DOMAIN sent |-> [at |-> t - sent[i].run, run |-> sent[i].run,
                           from |-> sent[i].from, drop |-> sent[i].drop, pump |-> sent[i].pump,
                           moved |-> run]],
                   summaries |-> obs.summaries \o
                       [i \in DOMAIN sums |-> [end |-> t, len |-> StormWindow, count |-> sums[i].count,
                           run |-> sums[i].run, moved |-> acc.rolled, fell |-> acc.fell]],
                   levels |-> obs.levels \o
                       [i \in DOMAIN Sent("heartbeat") |->
                           [at |-> t, distance |-> Sent("heartbeat")[i].level]]]
        /\ moved' = [run |-> IF ended THEN 0 ELSE run,
                     rolled |-> IF sums = <<>> THEN acc.rolled ELSE 0,
                     fell |-> IF sums = <<>> THEN acc.fell ELSE 0]
        /\ outside' = Append(outside, Last(outside) + IF home.on THEN 0 ELSE q)
        /\ entering' = IF ~home.storm /\ home'.storm
                       THEN entering \cup {[from |-> home'.onAt, to |-> t]} ELSE entering
        /\ UNCHANGED storm

ResponseNext ==
    \E q \in Inflow(home.t) : House!Step(q, TRUE) /\ Observed(q)

------------------------------------------------------------------------------
(* recomputeHome, for a storm without a successor.                         *)

ListCycleEventsForDevice(from, to) == SelectSeq(obs.cycles, LAMBDA c : In(c.at, from, to))
ListStormSummariesForDevice(from, to) == SelectSeq(obs.summaries, LAMBDA s : In(s.end, from, to))
ListLevelsForDevice(from, to) == SelectSeq(obs.levels, LAMBDA l : In(l.at, from, to))

loadObs(end) ==
    LET near == Min({storm.first, storm.onset}) - LagWindow - NearPad
    IN  [cycles |-> ListCycleEventsForDevice(storm.first - BaseflowLookback, end),
         summaries |-> ListStormSummariesForDevice(near, end),
         levels |-> ListLevelsForDevice(near, end)]

\* devices.last_seen_at.
lastSeen ==
    Max({0} \cup {CycleEnd(c) : c \in ToSet(obs.cycles)} \cup {s.end : s \in ToSet(obs.summaries)}
           \cup {l.at : l \in ToSet(obs.levels)})

recomputeHome ==
    AnalyseHomeStorm(loadObs(Min({storm.end + MaxRecession, lastSeen + 1})), 1, storm,
                     storm.onset .. storm.end - 1, NoTime, lastSeen)

------------------------------------------------------------------------------
(* Properties.                                                             *)

Typical == Trigger - Stop

\* What roll-ups got wrong by t: count x the typical drop for the real drops.
RollUpError(t) ==
    SumOver({k \in DOMAIN obs.summaries : obs.summaries[k].end < t},
            LAMBDA k : obs.summaries[k].count * Typical - obs.summaries[k].fell)

\* Taken in a run or a window that is not reported yet, or in the run whose
\* end started storm mode (only a roll-up that begins later reports it).
Unreported(t) ==
    \/ home.on /\ t >= home.onAt
    \/ home.storm /\ t >= home.windowStart
    \/ \E r \in entering : r.from <= t /\ t < r.to

\* cumulativeInflow: at every sample it keeps, level rise plus what was
\* pumped is the water that really came in outside the pump runs; the only
\* error is the roll-ups' typical drop.  Runs are counted once, also around
\* the edges of runs and roll-up windows.
InflowReconstructed ==
    \A v \in ToSet(cumulativeInflow(obs, Typical)) :
        Unreported(v.at) \/ v.mm + Height = outside[v.at + 2] + RollUpError(v.at)

\* AnalyseHomeStorm: a home recedes after the rain and after it responded,
\* responds after the onset, and the window that volumes are summed over ends
\* with the recession or with the data.
RecessionFollowsResponse ==
    lastSeen > storm.end =>
        \E h \in {recomputeHome} :
            /\ h.lagAt # NoTime => storm.onset <= h.lagAt /\ h.lagAt <= lastSeen
            /\ h.recAt # NoTime => /\ storm.end <= h.recAt /\ h.recAt <= lastSeen
                                 /\ h.lagAt <= h.recAt /\ h.windowEnd = h.recAt

\* "a floor on the water pumped": the volume of the storm is no more than what
\* the pump moved in the runs it is made of, roll-ups included.
VolumeIsFloor ==
    lastSeen > storm.end =>
        \E h \in {recomputeHome} :
            LET cycles == {i \in DOMAIN obs.cycles : In(obs.cycles[i].at, storm.onset, h.windowEnd)}
                rolled == {k \in DOMAIN obs.summaries : In(obs.summaries[k].end, storm.onset, h.windowEnd)}
            IN  h.pumped.floor <= SumOver(cycles, LAMBDA i : obs.cycles[i].moved)
                                    + SumOver(rolled, LAMBDA k : obs.summaries[k].moved)

\* What AnalyseHomeStorm makes of the reports against what the pit really did:
\* the inflow it reconstructs, the order of response and recession, and the
\* volume.
ResponseFaithful ==
    InflowReconstructed /\ RecessionFollowsResponse /\ VolumeIsFloor
=============================================================================

------------------------------ MODULE SumpNode ------------------------------
(***************************************************************************)
(* One house of the simulator: the pit, its pumps and the node firmware    *)
(* they are watched by.  A step is one virtual second of the code: inflow, *)
(* mains, primary pump, backup pump, high-water float, storm window and    *)
(* heartbeat, in this order.                                               *)
(*                                                                         *)
(* The inflow of a step stands for baseflow, noise and storm flow;         *)
(* volumes are small integers and the sensor distance is Height - vol      *)
(* (noise and offset are left out).                                        *)
(***************************************************************************)
EXTENDS Integers, Sequences, FiniteSets, FiniteSetsExt, SequencesExt

CONSTANTS
    Inflows,                       \* what may flow in during a step
    Stop, Trigger, FloatHigh, Height,   \* levels, as volumes
    ShortDrop,                     \* what a sticking float lets a run pump
    PumpRate,
    Healths,                       \* pump conditions at the start
    HeartbeatInterval, StormWindow, StormThreshold, AlarmHoldoff,
    ContinuousRun, DryRunMin, DryRunMaxDrop, ThermalRun, ThermalRest,
    MaxCount,                      \* 255: a count is one byte
    ScenarioLength                        \* the length of the scenario

ASSUME NodeAssumption ==
    /\ {Stop, Trigger, FloatHigh, Height, PumpRate, StormThreshold, ThermalRest} \subseteq Nat
    /\ {ContinuousRun, DryRunMin, DryRunMaxDrop, ThermalRun} \subseteq Nat
    /\ Inflows \subseteq Nat /\ Stop < Trigger /\ Trigger < FloatHigh /\ FloatHigh <= Height
    /\ ShortDrop \in 1 .. Trigger - Stop
    /\ Healths \subseteq {"healthy", "dry_running", "short_cycling", "failing"}
    /\ {HeartbeatInterval, StormWindow, AlarmHoldoff, MaxCount, ScenarioLength} \subseteq Nat \ {0}

Codes == {"float_high", "mains_lost", "dry_run", "continuous_run"}
Never == -1

VARIABLES
    home,       \* the home of the code
    out,        \* the uplinks of the last step
    truth,      \* pump runs that ended (what the simulator records as truth)
    told,       \* what the uplinks said so far (history)
    highSince   \* start of the high-water episode, or Never (history)

nodeVars == <<home, out, truth, told, highSince>>

BackupVol == (Trigger + FloatHigh) \div 2

\* newHome: half full, with a heartbeat phase of its own.
newHome(health, backup, outage, phase) ==
    LET stop == IF health = "short_cycling" THEN Trigger - ShortDrop ELSE Stop
    IN  [t |-> 0, vol |-> stop + (Trigger - stop) \div 2, stop |-> stop,
         health |-> health, hasBackup |-> backup, mains |-> TRUE, outage |-> outage,
         on |-> FALSE, onAt |-> 0, startVol |-> 0, raised |-> FALSE, restUntil |-> 0,
         backupOn |-> FALSE, backupAt |-> 0, backupVol |-> 0, backupRan |-> FALSE,
         backflow |-> 0, high |-> FALSE, nextHB |-> phase, cyclesHB |-> 0,
         storm |-> FALSE, windowStart |-> 0, recentEnds |-> {},
         accCount |-> 0, accRun |-> 0, lastAlarm |-> [c \in Codes |-> Never]]

NothingTold ==
    [events |-> 0, recent |-> {}, summarised |-> 0, beats |-> 0, saturated |-> FALSE,
     highAt |-> Never, alarmed |-> [c \in Codes |-> Never]]

NodeInit ==
    /\ \E health \in Healths, backup, outage \in BOOLEAN, phase \in 0 .. HeartbeatInterval - 1 :
          home = newHome(health, backup, outage, phase)
    /\ out = <<>> /\ truth = 0 /\ highSince = Never
    /\ told = NothingTold

------------------------------------------------------------------------------
(* Uplinks.  A state of a step has the home, the uplinks so far, what they *)
(* told, and the runs ended.                                               *)

\* What an uplink says (an event tells of the end of a run of a pump).
Heard(h, u, t) ==
    CASE u.kind = "cycle" ->
           [h EXCEPT !.events = @ + 1, !.recent = @ \cup {[at |-> t, pump |-> u.pump]}]
      [] u.kind = "summary" ->
           [h EXCEPT !.summarised = @ + u.count, !.saturated = @ \/ u.count = MaxCount]
      [] u.kind = "heartbeat" ->
           [h EXCEPT !.beats = @ + u.cycles, !.saturated = @ \/ u.cycles = MaxCount,
                     !.highAt = IF u.high THEN t ELSE @]
      [] OTHER ->
           [h EXCEPT !.highAt = IF u.code = "float_high" THEN t ELSE @, !.alarmed[u.code] = t]

Send(s, up) == [s EXCEPT !.out = Append(@, up), !.told = Heard(@, up, s.n.t)]

\* Faulty: the holdoff starts again with every alarm that is held back.
raiseAlarmExtends(s, code) ==
    LET last == s.n.lastAlarm[code]
        s2 == [s EXCEPT !.n.lastAlarm[code] = s.n.t]
    IN  IF last # Never /\ s.n.t - last < AlarmHoldoff THEN s2
        ELSE Send(s2, [kind |-> "alarm", code |-> code])

\* raiseAlarm: at most one alarm of a code in AlarmHoldoff.
raiseAlarm(s, code) ==
    LET last == s.n.lastAlarm[code]
    IN  IF last # Never /\ s.n.t - last < AlarmHoldoff THEN s
        ELSE Send([s EXCEPT !.n.lastAlarm[code] = s.n.t], [kind |-> "alarm", code |-> code])

\* Faulty: only the ends of half a window count towards storm mode.
RecentHalf(ends, t) == {e \in ends : t - e.at < StormWindow \div 2}

\* The ends of the last window.
Recent(ends, t) == {e \in ends : t - e.at < StormWindow}

\* Faulty: the run that starts storm mode is not added.
EnterStormEmpty(n) == [n EXCEPT !.storm = TRUE, !.windowStart = n.t, !.accCount = -1, !.accRun = 0]

EnterStorm(n) == [n EXCEPT !.storm = TRUE, !.windowStart = n.t, !.accCount = 0, !.accRun = 0]

distanceMM(vol) == Max({0, Height - vol})

\* A run is counted; a dry one is alarmed.
CountRun(s, run, drop) ==
    LET s1 == [s EXCEPT !.truth = @ + 1, !.n.cyclesHB = @ + 1]
    IN  IF run >= DryRunMin /\ drop < DryRunMaxDrop THEN raiseAlarm(s1, "dry_run") ELSE s1

\* The end is remembered; too many of them in a window start storm mode.
RememberEnd(n, pump) ==
    LET ends == Recent(n.recentEnds, n.t) \cup {[at |-> n.t, pump |-> pump]}
        n1 == [n EXCEPT !.recentEnds = ends]
    IN  IF ~n.storm /\ Cardinality(ends) > StormThreshold THEN EnterStorm(n1) ELSE n1

\* endCycle: the run is sent as an event, or added to the storm window.
endCycle(s, pump, run, startVol) ==
    LET drop == distanceMM(s.n.vol) - distanceMM(startVol)
        s1 == CountRun(s, run, drop)
        n2 == RememberEnd(s1.n, pump)
    IN  IF n2.storm THEN [s1 EXCEPT !.n = [n2 EXCEPT !.accCount = @ + 1, !.accRun = @ + run]]
        ELSE Send([s1 EXCEPT !.n = n2],
                  [kind |-> "cycle", run |-> run, from |-> distanceMM(startVol), drop |-> drop,
                   pump |-> pump])

------------------------------------------------------------------------------
(* The parts of a step.                                                    *)

\* Inflow and what flows back through a leaking check valve.
Hydrology(s, q) ==
    LET back == Min({1, s.n.backflow})
    IN  [s EXCEPT !.n.vol = @ + q + back, !.n.backflow = @ - back]

Mains(s, mains) ==
    LET s1 == [s EXCEPT !.n.mains = mains]
    IN  IF s.n.mains /\ ~mains THEN raiseAlarm(s1, "mains_lost") ELSE s1

\* A dry-running pump moves nothing; the output of a failing one is gone at 90%
\* of the scenario.
primaryRate(n) ==
    CASE n.health = "dry_running" -> 0
      [] n.health = "failing" -> (PumpRate * Max({0, 9 * ScenarioLength - 10 * n.t})) \div (9 * ScenarioLength)
      [] OTHER -> PumpRate

PrimaryStarts(n) == ~n.on /\ n.mains /\ n.t >= n.restUntil /\ n.vol >= Trigger

PrimaryOn(n) ==
    IF PrimaryStarts(n) THEN [n EXCEPT !.on = TRUE, !.onAt = n.t, !.startVol = n.vol, !.raised = FALSE]
    ELSE n

\* The pump stops at its float, without mains, or on its thermal switch.
Primary(s) ==
    LET n1 == PrimaryOn(s.n)
        pumped == n1.vol - primaryRate(n1)
        vol == Max({pumped, n1.stop})
        run == n1.t - n1.onAt
        hot == n1.health = "dry_running" /\ run >= ThermalRun
        long == ~n1.raised /\ run > ContinuousRun
        stop == pumped <= n1.stop \/ ~n1.mains \/ hot
        s2 == [s EXCEPT !.n = [n1 EXCEPT !.vol = vol, !.raised = @ \/ long,
                                         !.restUntil = IF hot THEN n1.t + ThermalRest ELSE @]]
        s3 == IF long THEN raiseAlarm(s2, "continuous_run") ELSE s2
        s4 == endCycle([s3 EXCEPT !.n.on = FALSE], "primary", run, n1.startVol)
    IN  IF ~n1.on THEN s
        ELSE IF ~stop THEN s3
        ELSE IF n1.health = "short_cycling" /\ n1.startVol > vol
             THEN [s4 EXCEPT !.n.backflow = ((n1.startVol - vol) * 85) \div 100]
        ELSE s4

BackupOn(n) ==
    IF ~n.backupOn /\ n.vol >= BackupVol
    THEN [n EXCEPT !.backupOn = TRUE, !.backupAt = n.t, !.backupVol = n.vol] ELSE n

\* The backup pump runs on its battery.
Backup(s) ==
    LET n1 == BackupOn(s.n)
        pumped == n1.vol - PumpRate
        s2 == [s EXCEPT !.n = [n1 EXCEPT !.vol = Max({pumped, n1.stop})]]
    IN  IF ~s.n.hasBackup \/ ~n1.backupOn THEN s
        ELSE IF pumped > n1.stop THEN s2
        ELSE endCycle([s2 EXCEPT !.n.backupOn = FALSE, !.n.backupRan = TRUE],
                      "backup", n1.t - n1.backupAt, n1.backupVol)

\* The alarm is for the edge; the level is kept.
Float(s) ==
    LET high == s.n.vol >= FloatHigh
        s1 == IF high /\ ~s.n.high THEN raiseAlarm(s, "float_high") ELSE s
    IN  [s1 EXCEPT !.n.high = high]

\* emitStormSummary, once per window; a quiet window ends storm mode.
emitStormSummary(s) ==
    IF ~s.n.storm \/ s.n.t - s.n.windowStart < StormWindow THEN s
    ELSE Send([s EXCEPT !.n = [@ EXCEPT !.storm = s.n.accCount > StormThreshold,
                                        !.windowStart = s.n.t, !.accCount = 0, !.accRun = 0]],
              [kind |-> "summary", count |-> Min({s.n.accCount, MaxCount}), run |-> s.n.accRun])

\* Faulty: the flag repeats the alarm of this step.
HighFlagEdge(s) == \E k \in DOMAIN s.out : s.out[k] = [kind |-> "alarm", code |-> "float_high"]

HighFlag(s) == s.n.high

\* Faulty: the count goes on after a heartbeat.
CyclesAfterKept(n) == n.cyclesHB

CyclesAfter(n) == 0

NextHeartbeat(n) == n.nextHB + HeartbeatInterval

emitHeartbeat(s) ==
    IF s.n.t < s.n.nextHB THEN s
    ELSE Send([s EXCEPT !.n = [@ EXCEPT !.cyclesHB = CyclesAfter(s.n), !.backupRan = FALSE,
                                        !.nextHB = NextHeartbeat(s.n)]],
              [kind |-> "heartbeat", cycles |-> Min({s.n.cyclesHB, MaxCount}),
               high |-> HighFlag(s), mains |-> s.n.mains, backupRan |-> s.n.backupRan,
               level |-> distanceMM(s.n.vol)])

\* The start of a step; events further back than a window are forgotten.
Begun ==
    [n |-> home, out |-> <<>>, truth |-> truth,
     told |-> [told EXCEPT !.recent = {e \in @ : home.t - e.at < StormWindow}]]

\* step, for an inflow and the state of the mains.
step(q, mains) ==
    emitHeartbeat(emitStormSummary(Float(Backup(Primary(Mains(Hydrology(Begun, q), mains))))))

------------------------------------------------------------------------------
Step(q, mains) ==
    /\ home.t < ScenarioLength
    /\ mains \/ home.outage
    /\ \E s \in {step(q, mains)} :
        /\ home' = [s.n EXCEPT !.t = @ + 1]
        /\ out' = s.out
        /\ truth' = s.truth
        /\ told' = s.told
        /\ highSince' = IF ~s.n.high THEN Never ELSE IF highSince = Never THEN home.t ELSE highSince

NodeNext == \E q \in Inflows, mains \in BOOLEAN : Step(q, mains)

NodeSpec == NodeInit /\ [][NodeNext]_nodeVars

------------------------------------------------------------------------------
(* Properties.                                                             *)

\* The clocks of the node: a heartbeat is never overdue and no storm window
\* outlives its length; the water stays above the level the pumps stop at.
NodeTypeOK ==
    /\ home.t \in Nat
    /\ home.vol \in Nat /\ home.vol >= home.stop
    /\ home.nextHB \in home.t .. home.t + HeartbeatInterval
    /\ home.accCount \in Nat
    /\ home.storm => home.t - home.windowStart <= StormWindow

\* Every pump run is reported exactly once: as an event of its own or in one
\* storm summary (the last of which may still be open), across entering and
\* leaving storm mode.  Only a count at its limit loses runs.
RunsReportedOnce ==
    \E reported \in {told.events + told.summarised + home.accCount} :
        IF told.saturated THEN reported <= truth ELSE reported = truth

\* The heartbeats count every run, storm or not.
HeartbeatsCountRuns ==
    \E counted \in {told.beats + home.cyclesHB} :
        IF told.saturated THEN counted <= truth ELSE counted = truth

\* "more than this many cycles per window enters storm mode": the radio never
\* carries more than StormThreshold events of the runs that end in one window.
EventsRationed == Cardinality(told.recent) <= StormThreshold

\* High water that lasts for a heartbeat interval has been reported since it
\* began, by the alarm or by the flag of a heartbeat, also when the alarm of
\* its edge fell into the holdoff.
HighWaterReported ==
    highSince # Never /\ home.t - highSince > HeartbeatInterval => told.highAt >= highSince

\* The holdoff does not add up: when the mains fail, an alarm for it was sent in
\* the last AlarmHoldoff or is sent now.
OutagesAlarmed ==
    [][home.mains /\ ~home'.mains =>
        \E at \in {told'.alarmed["mains_lost"]} : at # Never /\ home.t - at < AlarmHoldoff]_nodeVars

\* What home.step reports over the radio, together: the clocks and the water
\* stay in their ranges, runs are reported and counted once, single events are
\* rationed, and lasting high water is told.
NodeReports ==
    /\ NodeTypeOK
    /\ RunsReportedOnce /\ HeartbeatsCountRuns
    /\ EventsRationed /\ HighWaterReported
=============================================================================

---------------------------- MODULE HeartbeatRules ----------------------------
(***************************************************************************)
(* internal/alerts, the heartbeat stage: which alerts of a device a        *)
(* reading opens and resolves.  OUTAGE_RISK looks at the last three levels *)
(* without mains, which the handler keeps in memory and seeds again from   *)
(* the readings table after a lost transaction or a restart.               *)
(*                                                                         *)
(* One device, whose readings arrive in the order of their event times.    *)
(* What opening and resolving an alert involves is AlertLifecycle; here an *)
(* alert is the time it was raised at.  OFFLINE is resolved by every       *)
(* reading and raised by no rule of this stage, so it is left out.         *)
(***************************************************************************)
EXTENDS Integers, Sequences

CONSTANTS
    Beats,              \* what a heartbeat may report: [mains, float, fault, batt, dist]
    Gaps,               \* time to the next heartbeat
    RainRecords,        \* rainfall tables: sets of [ts, interval, mm]
    RiseWindow, RiseMin,
    RainWindow, RainSlack, ScanBack,    \* ScanBack: 24 h
    LowBattery, BatteryClear,
    MaxBeats, MaxRestarts               \* bounds

Closed == -1
NoBattery == -1

ASSUME RulesAssumption ==
    /\ Beats \subseteq [mains : BOOLEAN, float : BOOLEAN, fault : BOOLEAN,
                        batt : Nat \cup {NoBattery}, dist : Int]
    /\ Gaps \subseteq Nat \ {0}
    /\ \A rows \in RainRecords : rows \subseteq [ts : Int, interval : Nat, mm : Nat]
    /\ {RiseWindow, RiseMin, RainWindow, RainSlack, ScanBack, MaxBeats, MaxRestarts} \subseteq Nat
    /\ LowBattery \in Nat /\ BatteryClear \in Nat /\ LowBattery <= BatteryClear

AlertCodes == {"FLOAT_HIGH", "SENSOR_FAULT", "LOW_BATTERY", "MAINS_LOST", "OUTAGE_RISK"}

VARIABLES
    readings,   \* the table, in the order of arrival and of event time
    applied,    \* how many of them the stage has committed
    raisedAt,   \* for each code the time its open alert was raised at, or Closed
    levels,     \* readingHandler.levels of the device: [known, samples]
    rain,       \* the rainfall table
    restarts    \* bound

ruleVars == <<readings, applied, raisedAt, levels, rain, restarts>>

Unknown == [known |-> FALSE, samples |-> <<>>]

RulesInit ==
    /\ readings = <<>> /\ applied = 0 /\ restarts = 0
    /\ raisedAt = [c \in AlertCodes |-> Closed]
    /\ levels = Unknown
    /\ rain \in RainRecords

Reported(b, gap) ==
    /\ Len(readings) < MaxBeats
    /\ readings' = Append(readings, [ts |-> gap + (IF readings = <<>> THEN 0 ELSE readings[Len(readings)].ts),
                                     mains |-> b.mains, float |-> b.float, fault |-> b.fault,
                                     batt |-> b.batt, dist |-> b.dist])
    /\ UNCHANGED <<applied, raisedAt, levels, rain, restarts>>

------------------------------------------------------------------------------
(* The rules, on [open, levels].                                           *)

Raise(s, code, at) == IF s.open[code] # Closed THEN s ELSE [s EXCEPT !.open[code] = at]

\* A row cannot resolve an episode that began after it.
Resolve(s, code, at) == IF s.open[code] <= at THEN [s EXCEPT !.open[code] = Closed] ELSE s

Follow(s, code, holds, at) == IF holds THEN Raise(s, code, at) ELSE Resolve(s, code, at)

\* Faulty: one threshold for both directions.
BatteryOneThreshold(s, r) == Follow(s, "LOW_BATTERY", r.batt < BatteryClear, r.ts)

\* Between the thresholds nothing changes.
Battery(s, r) ==
    IF r.batt = NoBattery THEN s
    ELSE IF r.batt < LowBattery THEN Raise(s, "LOW_BATTERY", r.ts)
    ELSE IF r.batt >= BatteryClear THEN Resolve(s, "LOW_BATTERY", r.ts)
    ELSE s

\* How many readings are older than t.
NumBefore(t) ==
    CHOOSE n \in 0 .. Len(readings) : \A k \in DOMAIN readings : readings[k].ts < t <=> k <= n

WithoutMains(k) == IF k >= 1 /\ ~readings[k].mains THEN <<readings[k]>> ELSE <<>>

\* Faulty: the newest reading before this one comes first.
SeedNewestFirst(r) ==
    LET n == NumBefore(r.ts) IN WithoutMains(n) \o WithoutMains(n - 1)

\* ListReadingsBefore, limit 2, oldest first; those with mains are left out.
Seed(r) ==
    LET n == NumBefore(r.ts) IN WithoutMains(n - 1) \o WithoutMains(n)

\* samples: the last three levels, this one included.
samples(s, r) ==
    LET all == Append(IF s.levels.known THEN s.levels.samples ELSE Seed(r), r)
    IN  IF Len(all) > 3 THEN SubSeq(all, Len(all) - 2, Len(all)) ELSE all

LevelRising(w) ==
    /\ \A i \in 2 .. Len(w) : w[i].dist < w[i - 1].dist
    /\ w[1].dist - w[Len(w)].dist >= RiseMin

LevelFalling(w) == w[3].dist > w[2].dist /\ w[2].dist > w[1].dist

\* RainNear: the rows it scans; whether there is rain in those whose interval
\* overlaps the window, and whether they reach the reading.
RainNear(at) == {x \in rain : x.ts >= at - RainWindow - ScanBack /\ x.ts < at}
rained(at) == \E x \in RainNear(at) : x.mm > 0 /\ x.ts + x.interval > at - RainWindow
covered(at) == \E x \in RainNear(at) : x.ts + x.interval >= at - RainSlack

\* rainTerm and holds: rain was recorded, or the record does not reach the reading.
rainHolds(at) == rained(at) \/ ~covered(at)

OutageRisk(s, r) ==
    LET w == samples(s, r)
        s1 == [s EXCEPT !.levels = [known |-> TRUE, samples |-> w]]
    IN  IF Len(w) < 3 \/ r.ts - w[1].ts > RiseWindow THEN s1
        ELSE IF LevelRising(w) THEN IF rainHolds(r.ts) THEN Raise(s1, "OUTAGE_RISK", r.ts) ELSE s1
        ELSE IF LevelFalling(w) THEN Resolve(s1, "OUTAGE_RISK", r.ts) ELSE s1

\* Faulty: the risk stays open when the mains come back.
MainsBackKeepsRisk(s, r) == [Resolve(s, "MAINS_LOST", r.ts) EXCEPT !.levels = Unknown]

MainsBack(s, r) ==
    [Resolve(Resolve(s, "MAINS_LOST", r.ts), "OUTAGE_RISK", r.ts) EXCEPT !.levels = Unknown]

\* One reading.
Applied(s, r) ==
    LET s1 == Follow(s, "FLOAT_HIGH", r.float, r.ts)
        s2 == Follow(s1, "SENSOR_FAULT", r.fault, r.ts)
        s3 == Battery(s2, r)
    IN  IF r.mains THEN MainsBack(s3, r) ELSE OutageRisk(Raise(s3, "MAINS_LOST", r.ts), r)

\* The next reading.  A transaction of several leaves what they leave one after
\* another.
HandleReading ==
    /\ applied < Len(readings)
    /\ \E s \in {Applied([open |-> raisedAt, levels |-> levels], readings[applied + 1])} :
        raisedAt' = s.open /\ levels' = s.levels
    /\ applied' = applied + 1
    /\ UNCHANGED <<readings, rain, restarts>>

\* Reset, after a transaction that failed, or a restart.
ResetRules ==
    /\ restarts < MaxRestarts /\ restarts' = restarts + 1
    /\ levels' = Unknown
    /\ UNCHANGED <<readings, applied, raisedAt, rain>>

RulesNext ==
    \/ \E b \in Beats, gap \in Gaps : Reported(b, gap)
    \/ HandleReading
    \/ ResetRules

RulesSpec == RulesInit /\ [][RulesNext]_ruleVars

------------------------------------------------------------------------------
(* Properties.                                                             *)

\* An alert was raised by a reading that is applied; at most three samples are
\* kept, all without mains.
RulesTypeOK ==
    /\ applied \in 0 .. Len(readings)
    /\ \A c \in AlertCodes : raisedAt[c] # Closed =>
         \E k \in 1 .. applied : readings[k].ts = raisedAt[c]
    /\ Len(levels.samples) <= 3
    /\ \A k \in DOMAIN levels.samples : ~levels.samples[k].mains

IsOpen(c) == raisedAt[c] # Closed

\* When the last three readings are without mains, within the window and rising,
\* OUTAGE_RISK is open unless rainfall rows reach the reading and none of those
\* in the window has rain: whatever was lost from memory in between.  "A missing
\* feed must never hide an outage risk."  Rows longer than the scan goes back are
\* not promised to be seen.
OutageRiskSeen ==
    applied >= 3 =>
        \E w \in {SubSeq(readings, applied - 2, applied)} :
            /\ \A k \in 1 .. 3 : ~w[k].mains
            /\ w[3].ts - w[1].ts <= RiseWindow
            /\ w[1].dist > w[2].dist /\ w[2].dist > w[3].dist /\ w[1].dist - w[3].dist >= RiseMin
            /\ \/ \E x \in rain : /\ x.mm > 0 /\ x.interval <= ScanBack
                                  /\ x.ts < w[3].ts /\ x.ts + x.interval > w[3].ts - RainWindow
               \/ \A x \in rain : x.ts < w[3].ts => x.ts + x.interval < w[3].ts - RainSlack
            => IsOpen("OUTAGE_RISK")

\* The risk is one of a house without mains: OUTAGE_RISK is never open alone.
RiskNeedsOutage == IsOpen("OUTAGE_RISK") => IsOpen("MAINS_LOST")

\* The two thresholds make a latch: LOW_BATTERY is open exactly if the last
\* reading outside the band between them was a low one.
BatteryLatched ==
    IsOpen("LOW_BATTERY") <=>
        \E k \in 1 .. applied :
            /\ readings[k].batt # NoBattery /\ readings[k].batt < LowBattery
            /\ \A i \in k + 1 .. applied :
                 readings[i].batt # NoBattery => readings[i].batt < BatteryClear

\* What readingHandler.Handle leaves open for a device, together: the risk of
\* an outage is seen and goes with the outage, and the battery alert is a latch.
HeartbeatAlerts ==
    RulesTypeOK /\ OutageRiskSeen /\ RiskNeedsOutage /\ BatteryLatched
===============================================================================

----------------------------- MODULE MCDetector -----------------------------
(***************************************************************************)
(* The two rule stages: the cycle detector and the heartbeat rules.  They  *)
(* share no state; a behaviour is about one of them.  The detector is      *)
(* explored deeply for one pump whose memory is lost, and broadly for two  *)
(* pumps with storm summaries.                                             *)
(***************************************************************************)
EXTENDS CycleDetector, HeartbeatRules

CONSTANT Parts      \* the parts a configuration explores
VARIABLE part

DryCycle     == [run |-> 45, drop |-> 2]
HealthyCycle == [run |-> 10, drop |-> 25]
LongCycle    == [run |-> 700, drop |-> 220]
ThreeKinds == {DryCycle, HealthyCycle, LongCycle}

\* The next cycle starts soon after the last one, or much later.
InOrderSteps == {80, 4000}

BusyAndQuiet == {[count |-> 40, windowS |-> 900], [count |-> 3, windowS |-> 900]}

Beat(mains, float, batt, dist) ==
    [mains |-> mains, float |-> float, fault |-> FALSE, batt |-> batt, dist |-> dist]
MCBeats ==
    {Beat(FALSE, FALSE, 1, d) : d \in {5, 6, 7}} \cup {Beat(FALSE, TRUE, 2, 5)}
      \cup {Beat(TRUE, FALSE, 3, 6), Beat(TRUE, TRUE, NoBattery, 7), [Beat(TRUE, FALSE, 2, 6) EXCEPT !.fault = TRUE]}

\* No record; a dry one that reaches the readings; rain; a dry one that stops early.
RainRow(ts, mm) == [ts |-> ts, interval |-> 2, mm |-> mm]
MCRain == {{}, {RainRow(t, 0) : t \in 0 .. 9}, {RainRow(1, 1), RainRow(6, 0)}, {RainRow(0, 0)}}

Within ==
    CASE part = "one pump" ->
           /\ summaries = <<>>
           /\ \A c \in Range(stored) : c.pump = "primary" /\ c.run # LongCycle.run
      [] part = "two pumps" -> Len(stored) <= 3 /\ resets = 0
      [] part = "pump by pump" ->
           summaries = <<>> /\ \A c \in Range(stored) : c.run # LongCycle.run
      [] OTHER -> stored = <<>> /\ summaries = <<>>

MCInit ==
    /\ Init /\ RulesInit
    /\ part \in Parts
    /\ part # "heartbeats" => rain = {}

MCNext ==
    /\ UNCHANGED part
    /\ \/ part # "heartbeats" /\ Next /\ Within' /\ UNCHANGED ruleVars
       \/ part = "heartbeats" /\ RulesNext /\ UNCHANGED vars

MCSpec == MCInit /\ [][MCNext]_<<part, vars, ruleVars>>
=============================================================================

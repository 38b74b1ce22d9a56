--------------------------- MODULE GaugeRainfall ---------------------------
(***************************************************************************)
(* The rain gauge path of the weather service: a tipping-bucket node that  *)
(* transmits a cumulative counter, the stored uplinks, and the watermark   *)
(* handler that derives rainfall rows from them.  Uplinks may be lost,     *)
(* arrive late and in any order; the handler re-derives the stretch a new  *)
(* uplink touches and reconciles the rows of the gauge in it.              *)
(*                                                                         *)
(* One gauge (the handler works per device).  The unit of time is the wake *)
(* period of the node, TipWindow; depths are counted in tips.              *)
(***************************************************************************)
EXTENDS Integers, FiniteSets, FiniteSetsExt

CONSTANTS
    DryInterval,  \* gaugeDryIntervalS in wakes: a dry node transmits this often
    LossSlack,    \* lossSlack in wakes (less than one wake: 0)
    MaxTime,      \* bound: wakes
    MaxReboots,   \* bound: reboots of the node
    MaxFaults     \* bound: uplinks that report a sensor fault

ASSUME GaugeAssumption ==
    /\ DryInterval \in Nat \ {0} /\ LossSlack \in Nat
    /\ MaxTime \in Nat /\ MaxReboots \in Nat /\ MaxFaults \in Nat

TipWindow == 1

VARIABLES
    now,       \* wakes since the node was first switched on
    node,      \* the node: counter, what it last transmitted, whether it did
    fallen,    \* tips that really fell, over all boots (history)
    reboots,   \* reboots so far
    air,       \* uplinks transmitted and not stored (yet, or ever)
    uplinks,   \* rain_gauge_uplinks
    pending,   \* the stored uplinks the consumer has not handled
    rainfall,  \* the gauge's rows of rainfall
    unseen     \* rows deleted, and no row over their time written since (history)

gaugeVars == <<now, node, fallen, reboots, air, uplinks, pending, rainfall, unseen>>

\* What an uplink carries; fell is the rain that had fallen by then (history).
Uplink ==
    [at : Nat, tips : Nat, interval : Nat, reset : BOOLEAN, fault : BOOLEAN, fell : Nat]
RainRow == [start : Int, len : Nat \ {0}, mm : Nat]

GaugeInit ==
    /\ now = 0 /\ fallen = 0 /\ reboots = 0
    /\ node = [tips |-> 0, lastTx |-> 0, lastTips |-> 0, booted |-> FALSE]
    /\ air = {} /\ uplinks = {} /\ pending = {} /\ rainfall = {} /\ unseen = {}

------------------------------------------------------------------------------
(* The node.                                                               *)

Due(t, tips) ==
    \/ ~node.booted
    \/ tips # node.lastTips
    \/ t - node.lastTx >= DryInterval

\* gauge.step: n tips fell since the last wake; the node transmits if it is
\* due.  A sensor fault is a flag of the uplink.
Wake(n, fault) ==
    LET t == now + 1
        tips == node.tips + n
    IN  /\ now < MaxTime
        /\ fault => Cardinality({u \in air \cup uplinks : u.fault}) < MaxFaults
        /\ now' = t
        /\ fallen' = fallen + n
        /\ IF Due(t, tips)
           THEN /\ node' = [tips |-> tips, lastTx |-> t, lastTips |-> tips, booted |-> TRUE]
                /\ air' = air \cup {[at |-> t, tips |-> tips, interval |-> t - node.lastTx,
                                     reset |-> ~node.booted, fault |-> fault,
                                     fell |-> fallen + n]}
           ELSE /\ ~fault
                /\ node' = [node EXCEPT !.tips = tips]
                /\ UNCHANGED air
        /\ UNCHANGED <<reboots, uplinks, pending, rainfall, unseen>>

\* A power cut: the counter restarts and the next uplink says so.
Reboot ==
    /\ reboots < MaxReboots
    /\ reboots' = reboots + 1
    /\ node' = [tips |-> 0, lastTx |-> now, lastTips |-> 0, booted |-> FALSE]
    /\ UNCHANGED <<now, fallen, air, uplinks, pending, rainfall, unseen>>

\* An uplink arrives, at any time and in any order, and is inserted.
StoreUplink(u) ==
    /\ air' = air \ {u}
    /\ uplinks' = uplinks \cup {u}
    /\ pending' = pending \cup {u}
    /\ UNCHANGED <<now, node, fallen, reboots, rainfall, unseen>>

------------------------------------------------------------------------------
(* The derivation.  An optional uplink is a set with at most one member.   *)

RainGaugeUplinkBefore(t) ==
    LET earlier == {u \in uplinks : u.at < t}
    IN  {u \in earlier : \A v \in earlier : v.at <= u.at}

RainGaugeUplinkAfter(t) ==
    LET later == {u \in uplinks : u.at > t}
    IN  {u \in later : \A v \in later : v.at >= u.at}

ListRainGaugeUplinks(from, to) == {u \in uplinks : from <= u.at /\ u.at <= to}

\* What a row of rainfall can be told apart by: its start, length and depth.
Row(start, end, mm) == [start |-> start, len |-> end - start, mm |-> mm]

\* The counter restarted between p and u.
Restarted(p, u) == u.reset \/ u.tips < p.tips

\* Faulty: an interval of exactly one window is split too.
RowsOverSplit(start, tips, lost, u) ==
    LET total == u.at - start
    IN  IF total < 1 \/ u.fault THEN {}
        ELSE IF tips > 0 /\ ~lost /\ total >= TipWindow
        THEN {Row(start, u.at - TipWindow, 0), Row(u.at - TipWindow, u.at, tips)}
        ELSE {Row(start, u.at, tips)}

RowsOver(start, tips, lost, u) ==
    LET total == u.at - start
    IN  IF total < 1 \/ u.fault THEN {}
        ELSE IF tips > 0 /\ ~lost /\ total > TipWindow
        THEN {Row(start, u.at - TipWindow, 0), Row(u.at - TipWindow, u.at, tips)}
        ELSE {Row(start, u.at, tips)}

\* Faulty: a baseline behind a lost uplink is not used.
deriveUnlessLost(before, u) ==
    IF before = {}
    THEN IF u.reset THEN RowsOver(u.at - u.interval, u.tips, FALSE, u) ELSE {}
    ELSE LET p == CHOOSE x \in before : TRUE
         IN  IF u.at - u.interval - p.at > LossSlack THEN {}
             ELSE RowsOver(p.at, u.tips - p.tips, FALSE, u)

deriveOne(before, u) ==
    LET nodeStart == u.at - u.interval
    IN  IF before = {}
        THEN IF u.reset THEN RowsOver(nodeStart, u.tips, FALSE, u) ELSE {}
        ELSE LET p == CHOOSE x \in before : TRUE
             IN  IF Restarted(p, u)
                 THEN RowsOver(Max({nodeStart, p.at}), u.tips, FALSE, u)
                 ELSE RowsOver(p.at, u.tips - p.tips, nodeStart - p.at > LossSlack, u)

\* The uplink of ups just before u, or prev for the first of them.
Baseline(prev, ups, u) ==
    LET earlier == {v \in ups : v.at < u.at}
    IN  IF earlier = {} THEN prev
        ELSE {v \in earlier : \A w \in earlier : w.at <= v.at}

DeriveGaugeRainfall(prev, ups) ==
    UNION {deriveOne(Baseline(prev, ups, u), u) : u \in ups}

------------------------------------------------------------------------------
(* The handler.                                                            *)

\* Faulty: the end of the stretch is deleted with it.
DeleteRainfallThrough(rain, from, to, keep) ==
    {r \in rain : from <= r.start /\ r.start <= to => r.start \in keep}

DeleteRainfallExcept(rain, from, to, keep) ==
    {r \in rain : from <= r.start /\ r.start < to => r.start \in keep}

UpsertRainfall(rain, rows) ==
    {r \in rain : \A d \in rows : d.start # r.start} \cup rows

\* Faulty: the uplinks of the poll only.
AffectedAlone(from, to) == ListRainGaugeUplinks(from, to)

\* The stretch re-derived for uplinks between from and to: they, and the
\* stored one after them, whose delta changes too.
Affected(from, to) == ListRainGaugeUplinks(from, to) \cup RainGaugeUplinkAfter(to)

\* Faulty: nothing is deleted.
reconcileKeeps(from, to) ==
    UpsertRainfall(rainfall,
        DeriveGaugeRainfall(RainGaugeUplinkBefore(from), Affected(from, to)))

reconcile(from, to) ==
    LET prev == RainGaugeUplinkBefore(from)
        ups == Affected(from, to)
        derived == DeriveGaugeRainfall(prev, ups)
        starts == {r.start : r \in derived}
        baseline == IF prev = {} THEN {u.at : u \in ups} ELSE {u.at : u \in prev}
        lo == Min(starts \cup {Min(baseline)})
        hi == Max({u.at : u \in ups})
    IN  UpsertRainfall(DeleteRainfallExcept(rainfall, lo, hi, starts), derived)

Disjoint(r, s) == r.start + r.len <= s.start \/ s.start + s.len <= r.start

\* A poll hands over some of the pending uplinks (a prefix of the insert
\* order, which is any order); the others are in the table all the same.
Handle(polled) ==
    /\ rainfall' = reconcile(Min({u.at : u \in polled}), Max({u.at : u \in polled}))
    /\ pending' = pending \ polled
    /\ unseen' = LET deleted == {r \in rainfall : \A s \in rainfall' : s.start # r.start}
                     written == rainfall' \ rainfall
                 IN  {r \in unseen \cup deleted : \A s \in written : Disjoint(r, s)}
    /\ UNCHANGED <<now, node, fallen, reboots, air, uplinks>>

GaugeNext ==
    \/ \E n \in 0 .. 1, fault \in BOOLEAN : Wake(n, fault)
    \/ Reboot
    \/ \E u \in air : StoreUplink(u)
    \/ \E polled \in (SUBSET pending) \ {{}} : Handle(polled)

GaugeSpec == GaugeInit /\ [][GaugeNext]_gaugeVars

------------------------------------------------------------------------------
(* Properties.                                                             *)

GaugeTypeOK ==
    /\ now \in 0 .. MaxTime /\ fallen \in Nat /\ reboots \in 0 .. MaxReboots
    /\ air \subseteq Uplink /\ uplinks \subseteq Uplink
    /\ pending \subseteq uplinks
    /\ rainfall \subseteq RainRow

Settled == pending = {}
Depth(rows) == MapThenSumSet(LAMBDA r : r.mm, rows)

\* GaugeHandler.Handle re-derives only the stretch around the uplinks of a
\* poll: whatever the order and the polls in which they arrived, the rows left
\* behind are those of one derivation over the whole table.
OrderIndependent ==
    Settled => rainfall = DeriveGaugeRainfall({}, uplinks)

\* The rows of the gauge cover no moment twice and never hold more rain than
\* fell, through losses, late uplinks, reboots and sensor faults.
NoDoubleRain ==
    Settled =>
        /\ \A r, s \in rainfall : r = s \/ Disjoint(r, s)
        /\ Depth(rainfall) <= fallen

\* "A lost uplink loses no rain, it only widens the interval": with the
\* first uplink of the node stored, no reboot and no fault, the rows hold
\* everything the newest stored uplink had counted.
LossLosesNoRain ==
    (/\ Settled /\ uplinks # {} /\ reboots = 0
     /\ \E u \in uplinks : u.reset
     /\ \A u \in uplinks : ~u.fault)
    => Depth(rainfall) = Max({u.tips : u \in uplinks})

\* Deleting a row moves no updated_at, and updated_at is what
\* storm-analytics polls: a deletion stays invisible unless a row over the
\* same time is written with it or after it.  It is, as long as no uplink
\* reports a sensor fault (a faulty uplink in the middle of a handled interval
\* may delete its row and write none).
DeletionsAccompanied ==
    (Settled /\ \A u \in uplinks : ~u.fault) => unseen = {}

\* What GaugeHandler leaves in rainfall, together: independent of the order of
\* arrival, no rain twice, no rain lost, and no deletion that storm-analytics
\* cannot notice.
RainfallFaithful ==
    /\ GaugeTypeOK
    /\ OrderIndependent /\ NoDoubleRain /\ LossLosesNoRain
    /\ DeletionsAccompanied
=============================================================================

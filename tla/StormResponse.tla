--------------------------- MODULE StormResponse ---------------------------
(***************************************************************************)
(* How one home answered one storm (internal/hydrology/response.go): pure  *)
(* functions of what its node reported.  Observations are                  *)
(* [cycles, summaries, levels], each a sequence in order of time:          *)
(*   cycle    [at, run, from, drop, pump]  from: sensor distance at start  *)
(*   summary  [end, len, count, run]       a storm-mode roll-up            *)
(*   level    [at, distance]               a heartbeat's reading           *)
(*                                                                         *)
(* Floating-point rates are fixed point, in units of 1/Scale cycles a day; *)
(* the grid of the rate estimate has one point per unit of time.           *)
(***************************************************************************)
EXTENDS Integers, Sequences, FiniteSets, FiniteSetsExt, SequencesExt

CONSTANTS
    Scale,
    DayLength,                        \* 86 400 s
    CycleMinRun, CycleMinDrop,
    BaseflowDryFor, BaseflowMinSamples, BaseflowLookback,
    LagWindow, LagHold, RecessionWindow, RecessionHold, MaxRecession

ASSUME ResponseAssumption ==
    /\ {Scale, DayLength, LagWindow, RecessionWindow, BaseflowMinSamples} \subseteq Nat \ {0}
    /\ {CycleMinRun, CycleMinDrop, BaseflowDryFor, BaseflowLookback, LagHold, RecessionHold,
        MaxRecession} \subseteq Nat

NoTime == -1

CycleEnd(c) == c.at + c.run
IsCycle(c) == c.run >= CycleMinRun /\ c.drop >= CycleMinDrop
WindowStart(s) == s.end - s.len

median(xs) ==
    LET s == SortSeq(xs, <)
        n == Len(s)
    IN  IF n % 2 = 1 THEN s[n \div 2 + 1] ELSE (s[n \div 2] + s[n \div 2 + 1]) \div 2

SumOver(S, f(_)) == MapThenSumSet(f, S)

------------------------------------------------------------------------------
(* Baseflow: the median rate between consecutive dry-weather cycles.       *)

Dry(wet, from, to) == \A t \in wet : t + 1 <= from \/ t >= to

EstimateBaseflow(cycles, wet, from, to) ==
    LET primary == SelectSeq(cycles, LAMBDA c : c.pump = "primary")
        usable(c) == from <= c.at /\ c.at < to /\ IsCycle(c)
        interval(i) == /\ usable(primary[i - 1]) /\ usable(primary[i])
                       /\ primary[i].at > primary[i - 1].at
                       /\ Dry(wet, primary[i - 1].at - BaseflowDryFor, primary[i].at)
        idx == SetToSortSeq({i \in 2 .. Len(primary) : interval(i)}, <)
        over(f(_, _)) == [k \in DOMAIN idx |-> f(primary[idx[k] - 1], primary[idx[k]])]
        pumps == SelectSeq(over(LAMBDA p, c : p), LAMBDA p : p.run > 0)
    IN  IF Len(idx) < BaseflowMinSamples THEN [ok |-> FALSE, cpd |-> 0, drop |-> 0, pump |-> 0]
        ELSE [ok |-> TRUE,
              cpd |-> median(over(LAMBDA p, c : (Scale * DayLength) \div (c.at - p.at))),
              drop |-> median(over(LAMBDA p, c : p.drop)),
              pump |-> IF pumps = <<>> THEN 0
                       ELSE median([k \in DOMAIN pumps |-> (Scale * pumps[k].drop) \div pumps[k].run])]

\* PumpRateLPS: none (0) without a pit area or a calibration.
PumpRateLPS(base, area) == IF area <= 0 \/ base.pump <= 0 THEN 0 ELSE area * base.pump

------------------------------------------------------------------------------
(* Cumulative inflow, in millimetres of pit depth: level rise + everything *)
(* pumped out so far.                                                      *)

\* The roll-up whose window holds t, if any.
summaryAt(ss, t) ==
    LET ends == {k \in DOMAIN ss : ss[k].end >= t}
    IN  {k \in ends : k = Min(ends) /\ t >= WindowStart(ss[k])}

\* Faulty: the window is open at its start.
inWindowOpen(ss, t) == \E k \in summaryAt(ss, t) : t > WindowStart(ss[k])

inWindow(ss, t) == summaryAt(ss, t) # {}

\* A sample at t, taken at sensor distance d, given the cycles before it in
\* the order of events (a roll-up at t comes after it).  None while one of
\* them runs or in a roll-up window: the pumped volume is unknown.
Sample(o, dropMM, t, d, earlier) ==
    IF (\E i \in earlier : CycleEnd(o.cycles[i]) > t) \/ inWindow(o.summaries, t) THEN <<>>
    ELSE <<[at |-> t,
            mm |-> SumOver(earlier, LAMBDA i : o.cycles[i].drop) - d
                     + dropMM * SumOver({k \in DOMAIN o.summaries : o.summaries[k].end < t},
                                        LAMBDA k : o.summaries[k].count)]>>

cumulativeInflow(o, dropMM) ==
    LET ofCycle == [i \in DOMAIN o.cycles |->
                       Sample(o, dropMM, o.cycles[i].at, o.cycles[i].from, 1 .. i - 1)]
        ofLevel == [i \in DOMAIN o.levels |->
                       Sample(o, dropMM, o.levels[i].at, o.levels[i].distance,
                              {j \in DOMAIN o.cycles : o.cycles[j].at <= o.levels[i].at})]
    IN  SortSeq(FlattenSeq(ofCycle) \o FlattenSeq(ofLevel), LAMBDA a, b : a.at < b.at)

------------------------------------------------------------------------------
(* Inflow rates.                                                           *)

\* The least-squares slope of samples, per unit of time, as a fraction.
slope(win) ==
    LET n == Len(win)
        x(i) == win[i].at - win[1].at
        sx == SumOver(1 .. n, x)
        sy == SumOver(1 .. n, LAMBDA i : win[i].mm)
        sxx == SumOver(1 .. n, LAMBDA i : x(i) * x(i))
        sxy == SumOver(1 .. n, LAMBDA i : x(i) * win[i].mm)
    IN  [num |-> n * sxy - sx * sy, den |-> n * sxx - sx * sx]

\* The rate at t: a slope over the window around it, or that of the roll-up
\* that contains it, or none.
RateAt(o, samples, dropMM, t, window) ==
    LET win == SelectSeq(samples, LAMBDA v : t - window \div 2 <= v.at /\ v.at <= t + window \div 2)
        rolled == summaryAt(o.summaries, t)
    IN  IF Len(win) >= 2 /\ win[Len(win)].at - win[1].at >= window \div 3
        THEN LET s == slope(win)
             IN  <<[at |-> t, cpd |-> IF s.den = 0 THEN 0
                                      ELSE (s.num * DayLength * Scale) \div (s.den * dropMM)]>>
        ELSE IF rolled = {} THEN <<>>
        ELSE LET s == o.summaries[CHOOSE k \in rolled : TRUE]
             IN  <<[at |-> t, cpd |-> (s.count * DayLength * Scale) \div s.len]>>

InflowRates(o, dropMM, from, to, window) ==
    IF dropMM <= 0 \/ from > to THEN <<>>
    ELSE LET samples == cumulativeInflow(o, dropMM)
         IN  FlattenSeq([k \in 1 .. to - from + 1 |-> RateAt(o, samples, dropMM, from + k - 1, window)])

------------------------------------------------------------------------------
(* The first crossing of a threshold that lasts.                           *)

maxStep(rates) == IF Len(rates) < 2 THEN 0 ELSE rates[2].at - rates[1].at

\* The crossing between the rates either side, unless there is a hole.
Crossing(rates, k, threshold) ==
    LET p == rates[k - 1]
        c == rates[k]
        gap == c.at - p.at
        part == IF c.cpd > p.cpd THEN ((threshold - p.cpd) * gap) \div (c.cpd - p.cpd)
                ELSE ((p.cpd - threshold) * gap) \div (p.cpd - c.cpd)
    IN  IF k = 1 THEN rates[k].at
        ELSE IF gap > 2 * maxStep(rates) \/ c.cpd = p.cpd THEN c.at
        ELSE p.at + Max({0, Min({gap, part})})

firstSustained(rates, from, hold, threshold, above) ==
    LET cond(i) == rates[i].at >= from
                     /\ IF above THEN rates[i].cpd > threshold ELSE rates[i].cpd <= threshold
        lasting == {k \in DOMAIN rates : /\ cond(k)
                                         /\ k = 1 \/ ~cond(k - 1)
                                         /\ \E i \in k .. Len(rates) :
                                               /\ \A j \in k .. i : cond(j)
                                               /\ rates[i].at - rates[k].at >= hold}
    IN  IF lasting = {} THEN NoTime ELSE Max({from, Crossing(rates, Min(lasting), threshold)})

------------------------------------------------------------------------------
(* What the pumps moved in [from, to), and the whole analysis.             *)

In(t, from, to) == from <= t /\ t < to

\* Faulty: the run time at the pump rate.
CycleFloorByRun(c, rate) == (rate * c.run) \div Scale

CycleFloor(c, rate) == Max({0, c.drop})

\* The floor leaves out the inflow during each run; the estimate is the
\* calibrated rate x run time, never below the floor (a backup pump has no
\* calibration), and 0 without a rate.
PumpedVolume(o, from, to, area, dropMM, rate) ==
    LET cycles == {i \in DOMAIN o.cycles : In(o.cycles[i].at, from, to)}
        rolled == {k \in DOMAIN o.summaries : In(o.summaries[k].end, from, to)}
        floorC(i) == Max({0, area}) * CycleFloor(o.cycles[i], rate)
        floorS(k) == Max({0, area}) * o.summaries[k].count * Max({0, dropMM})
        estC(i) == IF o.cycles[i].pump = "primary"
                   THEN Max({floorC(i), (rate * o.cycles[i].run) \div Scale}) ELSE floorC(i)
        estS(k) == Max({floorS(k), (rate * o.summaries[k].run) \div Scale})
    IN  [cycles |-> Cardinality(cycles) + SumOver(rolled, LAMBDA k : o.summaries[k].count),
         floor |-> SumOver(cycles, floorC) + SumOver(rolled, floorS),
         est |-> IF rate <= 0 THEN 0 ELSE SumOver(cycles, estC) + SumOver(rolled, estS)]

\* Faulty: the search starts when the rain ends.
RecessionFromRain(rainEnd, lagAt) == rainEnd

\* A home may respond only after the rain: it recedes after it rose.
RecessionFrom(rainEnd, lagAt) == Max({rainEnd, lagAt})

\* When the home responded, and when it receded: NoTime without a baseflow to
\* compare with.
LagAt(o, base, onset, end) ==
    IF ~base.ok THEN NoTime
    ELSE firstSustained(InflowRates(o, base.drop, onset - LagWindow, end, LagWindow),
                        onset, LagHold, 2 * base.cpd, TRUE)

RecessionAt(o, base, from, end) ==
    IF ~base.ok THEN NoTime
    ELSE firstSustained(InflowRates(o, base.drop, from, end, RecessionWindow),
                        from, RecessionHold, (6 * base.cpd) \div 5, FALSE)

\* Without a baseflow the typical drop is that of the storm's own cycles.
TypicalDrop(base, cycles) ==
    LET drops == SelectSeq(cycles, LAMBDA c : c.drop > 0)
    IN  IF base.ok THEN base.drop
        ELSE IF drops = <<>> THEN 0 ELSE median([i \in DOMAIN drops |-> drops[i].drop])

\* The result, over the window that ends with the recession or with the data.
HomeStorm(o, area, onset, base, lagAt, recAt, windowEnd) ==
    LET dropMM == TypicalDrop(base, SelectSeq(o.cycles, LAMBDA c : In(c.at, onset, windowEnd)))
        pumped == PumpedVolume(o, onset, windowEnd, area, dropMM, PumpRateLPS(base, area))
    IN  [base |-> base, lagAt |-> lagAt, recAt |-> recAt, windowEnd |-> windowEnd,
         pumped |-> pumped,
         hasSamples |-> pumped.cycles > 0
                          \/ \E i \in DOMAIN o.levels : In(o.levels[i].at, onset, windowEnd)]

\* s is a storm [first, onset, end]; until its successor's onset, or NoTime.
AnalyseHomeStorm(o, area, s, wet, until, dataEnd) ==
    LET end == Min({s.end + MaxRecession, dataEnd} \cup IF until = NoTime THEN {} ELSE {until})
        From(base, lagAt, recAt) ==
            HomeStorm(o, area, s.onset, base, lagAt, recAt,
                      IF recAt = NoTime THEN end ELSE Min({end, recAt}))
        After(base, lagAt) ==
            From(base, lagAt, RecessionAt(o, base, RecessionFrom(s.end, lagAt), end))
        With(base) == After(base, LagAt(o, base, s.onset, end))
    IN  With(EstimateBaseflow(o.cycles, wet, s.first - BaseflowLookback, s.first))
=============================================================================

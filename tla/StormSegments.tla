--------------------------- MODULE StormSegments ---------------------------
(***************************************************************************)
(* Rain selection and storm segmentation: the pure part of storm-analytics *)
(* (internal/hydrology/storm.go, internal/storms/select.go).               *)
(*                                                                         *)
(* Time is counted in rain bins, and every rainfall row covers one bin; a  *)
(* series maps bins to the amount a station recorded, NoRow where it has   *)
(* none.  With rows aligned to bins the merge is a mean over stations; the *)
(* amounts are multiples of the number of gauges, so the mean is exact.    *)
(***************************************************************************)
EXTENDS Integers, FiniteSets, FiniteSetsExt

CONSTANTS
    Gauges,      \* own rain gauges
    Eccc,        \* the ECCC station
    Bins,        \* the bins of the instance
    Amounts,     \* amounts a row may record
    MaxGap,      \* StormMaxGap in bins: a dry gap this long ends a storm
    MinTotal,    \* StormMinTotalMM
    OnsetMin     \* OnsetMinIntensity, as the amount of one bin

NoRow == 0 - 1
Stations == Gauges \cup {Eccc}

ASSUME SegmentAssumption ==
    /\ Bins \subseteq Int /\ IsFiniteSet(Bins) /\ IsFiniteSet(Gauges)
    /\ Eccc \notin Gauges
    /\ MaxGap \in Nat \ {0} /\ MinTotal \in Nat \ {0} /\ OnsetMin \in Nat
    /\ \A a \in Amounts : a \in Nat /\ \A n \in 1 .. Cardinality(Gauges) : a % n = 0

------------------------------------------------------------------------------
(* Selection: gauges first, ECCC only where no gauge has a row.            *)

Covered(rain, b) == \E g \in Gauges : rain[g][b] # NoRow

\* selectRain over ListRainfall: the rows that overlap [lo, hi).
selectRain(rain, lo, hi) ==
    [s \in Stations |->
        [b \in Bins |->
            IF b + 1 > lo /\ b < hi /\ (s \in Gauges \/ ~Covered(rain, b))
            THEN rain[s][b] ELSE NoRow]]

Reporting(set, b) == {s \in Stations : set[s][b] # NoRow}
WetBins(set) == {b \in Bins : \E s \in Reporting(set, b) : set[s][b] > 0}

\* MergeRain: the mean over the stations that report the bin.
Depth(set, b) ==
    MapThenSumSet(LAMBDA s : set[s][b], Reporting(set, b))
        \div Cardinality(Reporting(set, b))

------------------------------------------------------------------------------
(* Segmentation.  A storm is a maximal group of wet bins whose dry gaps    *)
(* are shorter than MaxGap.                                                *)

StormStarts(wet) == {b \in wet : \A c \in wet : c >= b \/ b - (c + 1) >= MaxGap}

Group(wet, first) ==
    LET later == {b \in StormStarts(wet) : b > first}
    IN  {b \in wet : b >= first /\ (later = {} \/ b < Min(later))}

\* The station rows of a storm at or above the onset intensity, widened by a
\* bin on each side (FindStorms).
OnsetBins(set, group) ==
    {b \in Bins : /\ Min(group) - 1 <= b /\ b <= Max(group) + 1
                  /\ \E s \in Stations : set[s][b] >= OnsetMin /\ set[s][b] > 0}

Storm(set, group, horizon) ==
    LET onsets == OnsetBins(set, group)
        onset == IF onsets = {} THEN Min(group) ELSE Min(onsets)
        end == Max(group) + 1
    IN  [first |-> Min({Min(group), onset}), onset |-> onset, end |-> end,
         total |-> MapThenSumSet(LAMBDA b : Depth(set, b), group),
         peak |-> Max({Depth(set, b) : b \in group}),
         source |-> IF \E g \in Gauges, b \in group : set[g][b] > 0 THEN "gauge" ELSE "eccc",
         closed |-> horizon >= end + MaxGap]

\* FindStorms over SegmentStorms: the groups with enough rain.
FindStorms(set, horizon) ==
    LET wet == WetBins(set)
    IN  {s \in {Storm(set, Group(wet, b), horizon) : b \in StormStarts(wet)} :
            s.total >= MinTotal}
=============================================================================

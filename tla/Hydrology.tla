------------------------------ MODULE Hydrology ------------------------------
(***************************************************************************)
(* internal/hydrology/hydrology.go: the definitions the detector applies   *)
(* to a pump run.  A run is a record [at, run, drop, pump, ...]: seconds   *)
(* of event time, seconds of current, millimetres the water fell.          *)
(***************************************************************************)
EXTENDS Integers, Sequences, FiniteSets

CONSTANT ShortCycleMinCount    \* 5 in the code
ASSUME MinCountAssumption == ShortCycleMinCount \in Nat \ {0, 1}

DryRunMinRunS   == 30
DryRunMaxDropMM == 5
ShortCycleGap   == 60
ContinuousRun   == 600

EndedAt(c) == c.at + c.run

IsDryRun(c) == c.run >= DryRunMinRunS /\ c.drop < DryRunMaxDropMM

IsContinuousRun(c) == c.run > ContinuousRun

(* How many of the last runs each started less than ShortCycleGap after    *)
(* the one before ended.                                                   *)
ShortCyclingRun(w) ==
  Cardinality({k \in 1 .. Len(w) :
                 \A i \in (Len(w) - k + 2) .. Len(w) :
                    w[i].at - EndedAt(w[i - 1]) < ShortCycleGap})

ShortCycling(w) == ShortCyclingRun(w) >= ShortCycleMinCount

(* The form for storm-mode roll-ups: the mean interval windowS / count is  *)
(* at most the gap.                                                        *)
SummaryShortCycling(count, windowS) ==
  count >= ShortCycleMinCount /\ windowS > 0 /\ windowS <= ShortCycleGap * count
==============================================================================

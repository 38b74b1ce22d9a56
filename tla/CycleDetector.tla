---------------------------- MODULE CycleDetector ----------------------------
(***************************************************************************)
(* internal/detector: the handler of cycle_events and storm_summaries.     *)
(* One device (the handler's maps are keyed by device).  The two feeds are *)
(* what WatermarkConsumer delivers: stored rows in insert order, each      *)
(* applied by exactly one committed transaction.  The estimated volume     *)
(* written next to each cycle (pit area x drop) decides nothing here and   *)
(* is left out.                                                            *)
(***************************************************************************)
EXTENDS Hydrology, SequencesExt

CONSTANTS
  Pumps,                 \* "primary", "backup"
  Kinds,                 \* the runs a node may report: records [run, drop]
  Steps,                 \* seconds from the last stored cycle to the next
  Loads,                 \* storm summaries: records [count, windowS]
  HealthyCyclesToClear,  \* DETECTOR_HEALTHY_CYCLES
  Window,                \* cycles remembered per pump
  NCycles, NSummaries,   \* bounds on what is stored
  MaxPoll,               \* bound on the rows of one poll
  MaxResets              \* bound on failed transactions and restarts

ASSUME ClearAssumption == HealthyCyclesToClear \in Nat \ {0} /\ Window \in Nat \ {0}

DRY == "DRY_RUN"
SHORT == "SHORT_CYCLING"
CONT == "CONTINUOUS_RUN"
Codes == {DRY, SHORT, CONT}
Conditions == {DRY, SHORT}

VARIABLES
  stored,    \* cycle_events: every committed row, as a sequence
  summaries, \* storm_summaries: likewise
  seen,      \* how many of stored the consumer has committed
  seenSum,   \* how many of summaries
  dets,      \* the detections table, in insert order
  todo,      \* the polled rows not yet classified
  out,       \* the detections of the running transaction
  polled,    \* how many rows the running transaction polled
  pc,        \* "idle", or the stage whose transaction is running
  windows,   \* Handler.windows: a window for each pump that has been seeded
  active,    \* Handler.active
  healthy,   \* Handler.healthy
  resets     \* how often the memory was lost

db == <<stored, summaries, seen, seenSum, dets>>
memory == <<windows, active, healthy>>
txn == <<todo, out, polled, pc>>
vars == <<stored, summaries, seen, seenSum, dets, todo, out, polled, pc,
          windows, active, healthy, resets>>

Detections == [code : Codes, action : {"raise", "clear"}, fcnt : 1 .. NCycles + NSummaries]

TypeOK ==
  /\ seen \in 0 .. Len(stored) /\ seenSum \in 0 .. Len(summaries)
  /\ Len(stored) <= NCycles /\ Len(summaries) <= NSummaries
  /\ Range(dets) \cup Range(out) \subseteq Detections
  /\ Len(todo) <= polled /\ polled <= MaxPoll
  /\ pc \in {"idle", "cycles", "summaries"}
  /\ DOMAIN windows \subseteq Pumps
  /\ \A p \in DOMAIN windows : Len(windows[p]) \in 1 .. Window
  /\ active \in [Conditions -> BOOLEAN]
  /\ healthy \in [Conditions -> Nat]

Forgotten ==
  /\ windows' = <<>>
  /\ active' = [c \in Conditions |-> FALSE]
  /\ healthy' = [c \in Conditions |-> 0]

Init ==
  /\ stored = <<>> /\ summaries = <<>> /\ seen = 0 /\ seenSum = 0 /\ dets = <<>>
  /\ todo = <<>> /\ out = <<>> /\ polled = 0 /\ pc = "idle"
  /\ windows = <<>>
  /\ active = [c \in Conditions |-> FALSE]
  /\ healthy = [c \in Conditions |-> 0]
  /\ resets = 0

-----------------------------------------------------------------------------
(* Ingest stores a row.                                                    *)

StoreCycle(p, kind, step) ==
  /\ Len(stored) < NCycles
  /\ LET at == IF stored = <<>> THEN 0 ELSE Last(stored).at + step IN
     /\ at \notin {c.at : c \in Range(stored)}
     /\ stored' = Append(stored, [at |-> at, run |-> kind.run, drop |-> kind.drop,
                                  pump |-> p, fcnt |-> Len(stored) + 1])
  /\ UNCHANGED <<summaries, seen, seenSum, dets, txn, memory, resets>>

StoreSummary(load) ==
  /\ Len(summaries) < NSummaries
  /\ summaries' = Append(summaries, [count |-> load.count, windowS |-> load.windowS,
                                     fcnt |-> NCycles + Len(summaries) + 1])
  /\ UNCHANGED <<stored, seen, seenSum, dets, txn, memory, resets>>

-----------------------------------------------------------------------------
(* A stage transaction of the consumer: poll, classify row by row, write.  *)

(* Handle sorts a device's rows of one poll by start time.                 *)
PollCycles(n) ==
  /\ pc = "idle"
  /\ seen + n <= Len(stored)
  /\ todo' = SortSeq(SubSeq(stored, seen + 1, seen + n), LAMBDA a, b : a.at < b.at)
  /\ polled' = n /\ out' = <<>> /\ pc' = "cycles"
  /\ UNCHANGED <<db, memory, resets>>

PollSummaries(n) ==
  /\ pc = "idle"
  /\ seenSum + n <= Len(summaries)
  /\ todo' = SubSeq(summaries, seenSum + 1, seenSum + n)
  /\ polled' = n /\ out' = <<>> /\ pc' = "summaries"
  /\ UNCHANGED <<db, memory, resets>>

(* Faulty variants: the window is never cut, or cut one cycle too short.   *)
Untrimmed(w, n) == w
LastButOne(w, n) == SubSeq(w, IF Len(w) > n - 1 THEN Len(w) - n + 2 ELSE 1, Len(w))

LastN(w, n) == SubSeq(w, IF Len(w) > n THEN Len(w) - n + 1 ELSE 1, Len(w))

(* Faulty variant: started_at <= $2, so the seed holds the cycle itself.   *)
CyclesUpTo(before) ==
  LastN(SelectSeq(SortSeq(stored, LAMBDA a, b : a.at < b.at),
                  LAMBDA c : c.at <= before), Window)

(* ListCyclesBefore, oldest first: the device's last Window rows that      *)
(* started before the given time, of whatever pump, consumed or not; seed  *)
(* then keeps those of its pump.                                           *)
CyclesBefore(before) ==
  LastN(SelectSeq(SortSeq(stored, LAMBDA a, b : a.at < b.at),
                  LAMBDA c : c.at < before), Window)

SeedWindow(p, before) == SelectSeq(CyclesBefore(before), LAMBDA c : c.pump = p)

(* seed: with a non-empty window, the active conditions become what that   *)
(* window says.                                                            *)
SeedActive(w) ==
  IF w = <<>> THEN active
  ELSE [active EXCEPT ![DRY] = IsDryRun(Last(w)), ![SHORT] = ShortCycling(w)]

(* What a condition turns into: its flag, its count of healthy             *)
(* observations, and the detection emitted ("none": no detection).         *)
Outcome(a, h, action) == [active |-> a, healthy |-> h, action |-> action]

(* Faulty variant: one healthy observation too many.                       *)
RecoverLate(h) ==
  IF h + 1 > HealthyCyclesToClear THEN Outcome(FALSE, h + 1, "clear")
                                  ELSE Outcome(TRUE, h + 1, "none")

(* The second half of every condition: an active one counts a healthy      *)
(* observation and clears at HealthyCyclesToClear.                         *)
Recover(h) ==
  IF h + 1 >= HealthyCyclesToClear THEN Outcome(FALSE, h + 1, "clear")
                                   ELSE Outcome(TRUE, h + 1, "none")

(* Faulty variant: a condition that is active already is raised again.     *)
WorsenAgain(a) == Outcome(TRUE, 0, "raise")

Worsen(a) == Outcome(TRUE, 0, IF a THEN "none" ELSE "raise")

DryOutcome(c, a, h) ==
  CASE IsDryRun(c) -> Worsen(a)
    [] ~ IsDryRun(c) /\ a -> Recover(h)
    [] OTHER -> Outcome(a, h, "none")

ShortOutcome(streak, a, h) ==
  CASE streak >= ShortCycleMinCount -> Worsen(a)
    [] streak = 1 /\ a -> Recover(h)
    [] OTHER -> Outcome(a, 0, "none")

SummaryOutcome(r, a, h) ==
  CASE SummaryShortCycling(r.count, r.windowS) -> Worsen(a)
    [] ~ SummaryShortCycling(r.count, r.windowS) /\ a -> Recover(h)
    [] OTHER -> Outcome(a, h, "none")

Emit(code, action, r) ==
  IF action = "none" THEN <<>>
  ELSE << [code |-> code, action |-> action, fcnt |-> r.fcnt] >>

(* The cycle row is the run's end: raise and clear together.               *)
ContinuousDetections(c) ==
  IF IsContinuousRun(c) THEN Emit(CONT, "raise", c) \o Emit(CONT, "clear", c)
  ELSE <<>>

(* classify: one polled cycle against the device's memory.                 *)
Classify ==
  /\ pc = "cycles" /\ todo # <<>>
  /\ LET c == Head(todo)
         p == c.pump
         unseeded == p \notin DOMAIN windows
         w == IF unseeded THEN SeedWindow(p, c.at) ELSE windows[p]
         act == IF unseeded THEN SeedActive(w) ELSE active
         w1 == LastN(Append(w, c), Window)
         dry == DryOutcome(c, act[DRY], healthy[DRY])
         short == ShortOutcome(ShortCyclingRun(w1), act[SHORT], healthy[SHORT])
     IN  /\ windows' = (p :> w1) @@ windows
         /\ active' = [active EXCEPT ![DRY] = dry.active, ![SHORT] = short.active]
         /\ healthy' = [healthy EXCEPT ![DRY] = dry.healthy, ![SHORT] = short.healthy]
         /\ out' = out \o Emit(DRY, dry.action, c) \o ContinuousDetections(c)
                       \o Emit(SHORT, short.action, c)
  /\ todo' = Tail(todo)
  /\ UNCHANGED <<db, polled, pc, resets>>

(* summaryHandler.Handle: one storm summary, on the shared memory.         *)
ClassifySummary ==
  /\ pc = "summaries" /\ todo # <<>>
  /\ LET r == Head(todo)
         short == SummaryOutcome(r, active[SHORT], healthy[SHORT])
     IN  /\ active' = [active EXCEPT ![SHORT] = short.active]
         /\ healthy' = [healthy EXCEPT ![SHORT] = short.healthy]
         /\ out' = out \o Emit(SHORT, short.action, r)
  /\ todo' = Tail(todo)
  /\ UNCHANGED <<db, polled, pc, windows, resets>>

(* writeDetections (ON CONFLICT DO NOTHING) and the commit.                *)
Commit ==
  /\ pc # "idle" /\ todo = <<>>
  /\ dets' = dets \o SelectSeq(out, LAMBDA d : d \notin Range(dets))
  /\ seen' = IF pc = "cycles" THEN seen + polled ELSE seen
  /\ seenSum' = IF pc = "summaries" THEN seenSum + polled ELSE seenSum
  /\ out' = <<>> /\ polled' = 0 /\ pc' = "idle"
  /\ UNCHANGED <<stored, summaries, todo, memory, resets>>

(* The transaction fails and Reset is called, or the service restarts.     *)
Reset ==
  /\ resets < MaxResets
  /\ resets' = resets + 1
  /\ Forgotten
  /\ todo' = <<>> /\ out' = <<>> /\ polled' = 0 /\ pc' = "idle"
  /\ UNCHANGED db

Next ==
  \/ \E p \in Pumps, kind \in Kinds, step \in Steps : StoreCycle(p, kind, step)
  \/ \E load \in Loads : StoreSummary(load)
  \/ \E n \in 1 .. MaxPoll : PollCycles(n) \/ PollSummaries(n)
  \/ Classify \/ ClassifySummary \/ Commit \/ Reset

Spec == Init /\ [][Next]_vars

-----------------------------------------------------------------------------
(* Properties *)

(* The condition's last detection is a raise: downstream, an alert is open.*)
Open(code) ==
  LET ds == SelectSeq(dets, LAMBDA d : d.code = code)
  IN  ds # <<>> /\ Last(ds).action = "raise"

(* The cycles consumed are all of one pump.                                *)
OnePump == \A i, j \in 1 .. seen : stored[i].pump = stored[j].pump

(* "Dry run: raise on the first dry cycle": when the last cycle consumed   *)
(* from a device with one pump was a dry run, a DRY_RUN alert is open,     *)
(* whatever failed or restarted before it was consumed.                    *)
DryRunRaised ==
  pc = "idle" /\ seen > 0 /\ OnePump /\ IsDryRun(stored[seen]) => Open(DRY)

(* When the cycles consumed last are too close together for                *)
(* ShortCycleMinCount of them, a SHORT_CYCLING alert is open (the §10      *)
(* definition applied to the whole table, not to a window in memory). One  *)
(* pump, and no storm summary that has its own say.                        *)
ShortCyclingRaised ==
  pc = "idle" /\ OnePump /\ seenSum = 0 /\ ShortCycling(SubSeq(stored, 1, seen)) => Open(SHORT)

(* "clear after N healthy ones": once the last HealthyCyclesToClear cycles *)
(* consumed were healthy, no DRY_RUN alert is left open, as long as the    *)
(* memory was never lost.                                                  *)
DryRunCleared ==
  /\ resets = 0
  /\ pc = "idle" /\ seen >= HealthyCyclesToClear
  /\ \A i \in (seen - HealthyCyclesToClear + 1) .. seen : ~ IsDryRun(stored[i])
  => ~ Open(DRY)

(* Detections of one condition alternate, beginning with a raise: nothing  *)
(* is raised twice or cleared twice, across both stages that share the     *)
(* condition, as long as the memory was never lost.                        *)
Alternates ==
  resets = 0 => \A code \in Codes :
    LET ds == SelectSeq(dets, LAMBDA d : d.code = code)
    IN  \A i \in 1 .. Len(ds) : (ds[i].action = "raise") <=> (i % 2 = 1)

(* What the stored cycles show is raised by classify, whatever was lost    *)
(* from memory: a dry run at once, short cycling at its count.             *)
StreaksRaised == TypeOK /\ DryRunRaised /\ ShortCyclingRaised

(* classify and classifySummary keep one condition per device and code     *)
(* between them: raised once, cleared once, and cleared when due.          *)
ConditionsTracked == Alternates /\ DryRunCleared

(* classify: "Dry run: raise on the first dry cycle, clear after N healthy *)
(* ones", for a device with two pumps.                                     *)
EveryDryRunRaised ==
  pc = "idle" /\ seen > 0 /\ IsDryRun(stored[seen]) => Open(DRY)
==============================================================================

# sumpnet: TLA+ models, model checking and proofs

sumpnet collects uplinks of sump-pump sensors over MQTT, stores them in
PostgreSQL, and derives detections, alerts, rainfall and storm statistics from
them. This directory holds TLA+ models of the parts whose correctness depends on
order, failure and concurrency. Line numbers refer to the Go and SQL sources
under `src/`; `PROJECT.json` maps every definition to its lines.

## 1. The system

Data flow: sensors → MQTT broker → `bridge` → `ingest` (gRPC streams) → tables →
watermark consumers (`detector`, `alerts`, `weather`, `storms`) → tables →
`gateway` → browsers, and `alerts` → mail.

| Component | State | Operations | Talks to | What is hard |
|---|---|---|---|---|
| Watermark consumer (`internal/watermark`) | `consumer_watermarks`, one-slot wake channel, `ready`, handler memory | `Run`, `RunOnce`, `typedStage.run`, `listen`, `Poke` | database, LISTEN/NOTIFY, handlers | rows become visible after their stamp; rollback after memory changed; commit with a lost answer; missed notifications |
| Bridge (`internal/bridge`) | per kind a queue, a collected batch and a batch in flight; MQTT session | handler, `Batcher.Add/Run/submit`, `Client.submit`, shutdown in `Run` | broker, ingest | acknowledge only what is stored; redelivery on a new connection; backpressure; shutdown order |
| Ingest (`internal/ingest`, `store/bulk.go`) | stream buffers, tables, partitions | `runStream`, `Submit*`, bulk inserts, `ensurePartitions` | bridge, database | a stream is several transactions; answer after the last one; partition creation races |
| Cycle detector (`internal/detector`, `internal/hydrology`) | windows per (device, pump), active conditions and counts of healthy observations per device; `detections` | `Handle`, `classify`, `seed`, `Reset`, `summaryHandler.Handle` | consumer, tables | rebuilding memory from the tables after a failure; two stages and two pumps sharing a condition; late rows |
| Alerts (`internal/alerts`) | `alerts`, level window, rain cache, notifier round | `Raise`, `Resolve`, three row handlers, offline sweep, `Acknowledge`, notifier round | consumer, SMTP, gateway | several sources at different positions; list, deliver and mark are separate; retry clock |
| Weather (`internal/weather`) | `rainfall`, poller window | gauge reconciliation, ECCC poller | consumer, HTTP, tables | late uplinks change neighbouring deltas; reboots; two writers; failed and revised pages |
| Storm analytics (`internal/storms`, `hydrology/storm.go`, `hydrology/response.go`) | `storm_events`, `home_storm_metrics` | window growth, segmentation, reconciliation, analysis of a home | consumer, tables | storms grow, merge and split; stable ids; what must be analysed again |
| Gateway (`internal/gateway`, `internal/privacy`, `internal/auth`) | subscribers with bounded queues, change tracker | watch hub, paged and owner-scoped queries, k-anonymity | tables, browsers, alerts service | late commits below the tracker's mark; slow subscribers; snapshot vs. queued updates; changes between the queries of a call |
| Decoders (`internal/codec`, `lorabridge`, `nodebridge`, `chirpstack`) | none | payload layouts, envelope conversion | bridge | layout boundaries; event times under redelivery |
| Rain cache (`internal/raincache`, `dataimport eccc`) | a file of hours and fetches | `Load`, `Merge`, `Covered`, `Window`, `Write` | simulator | killed imports; withdrawn hours |
| Nodes (`internal/sim`) | pit, pumps, counters, storm mode; gauge counter | a step of a house, a wake of a gauge | MQTT | what is counted, rationed and rolled up between reports |
| Web (`web/src`) | the statuses, storms and alerts it was sent | `applyUpdate`, reconnecting in `useNeighbourhood` | gateway | what a reconnect keeps and forgets |
| Platform, site import and seeding | – | – | – | scaffolding, one-shot tools |

What makes each correct:

- consumer: no committed row is skipped, none is applied twice, rows arrive in
  insert order, memory never runs ahead of the database, and everything is
  handled in the end;
- bridge and ingest: an acknowledged message is stored, rejected or undecodable;
  later connections stay behind earlier ones; every message is settled in the end;
- detector: a dry run or short cycling in the table has an open raise; detections
  alternate; recovery clears;
- alerts: one open alert per (device, code), never reopened, never resolved
  before it was raised; `sent` means the mail arrived; every mail that is due is
  delivered or used up its attempts;
- nodes: every pump run is reported once, as an event or in a roll-up; high
  water and outages cannot go unreported;
- weather: rows do not depend on the order in which uplinks arrived, no rain is
  counted twice or lost with a lost uplink, no revision within reach is missed;
- storms: the table converges to what all the rain at once would give, with
  stable ids; metrics miss no report, and are exact when they are computed; the
  analysis reconstructs what really flowed in;
- gateway: every watcher ends up with the current state of the rows it is owed,
  versions are published once, owner data goes to owners, a suppressed segment reveals nothing, a paged
  walk misses no storm.

## 2. Modules

| Module | Models | Used by |
|---|---|---|
| `EventFeed` | what a handler is promised: an append-only log per table, read in order | refined by `WatermarkConsumer` |
| `WatermarkConsumer` | `watermark/consumer.go`, `queries/watermarks.sql`; producers' transactions as environment | `MCWatermarkConsumer` |
| `WatermarkConsumerProofs` | its theorems | |
| `Bridge` | `bridge/run.go`, `batcher.go`, `client.go`, `mqtt.go`, and ingest's `runStream` as seen by the bridge; broker and paho are external | `MCBridge` |
| `BridgeProofs` | its theorems | |
| `Hydrology` | `hydrology/hydrology.go`, the definitions of dry run, continuous run and short cycling | `CycleDetector` |
| `CycleDetector` | `detector/detector.go`, `queries/detector.sql` | `MCDetector` |
| `HeartbeatRules` | `alerts/rules.go`, the heartbeat stage; `hydrology.LevelRising`, `RainNear` | `MCDetector` |
| `AlertLifecycle` | `alerts/engine.go`, `rules.go`, `notify.go`, `server.go`, `queries/alerts.sql` | the alert runs |
| `AlertLifecycleProofs` | its theorems | |
| `IngestStream` | `ingest/server.go`, `convert.go`, `store/bulk.go` | `MCIngest` |
| `IngestStreamProofs` | its theorems | |
| `SumpNode` | `sim/home.go`: pit, pumps and node firmware of a house | `MCField`, `ObservedHome` |
| `Codec` | `codec/codec.go`, both envelope decoders, `bridge/convert.go` | `MCField` |
| `GaugeRainfall` | `weather/gauge.go`, `sim/gauge.go` | `MCField` |
| `EcccPoller` | `weather/eccc.go` | `MCField` |
| `RainCache` | `raincache/raincache.go`, the `eccc` import and the replay | `MCField` |
| `RainfallProofs` | the theorems of `GaugeRainfall`, `EcccPoller` and `RainCache` | |
| `TelemetryProofs` | the theorems of `SumpNode`, `Codec` and `HeartbeatRules` | |
| `StormResponse` | `hydrology/response.go`, pure | `ObservedHome` |
| `ObservedHome` | `SumpNode` and `StormResponse` composed: the analysis of what a house with known inflow reports | `MCField` |
| `StormSegments` | `hydrology/storm.go`, `storms/select.go`, pure | `StormAnalytics` |
| `StormAnalytics` | `storms/storms.go` | `MCStormAnalytics`, `MCGateway` |
| `WatchHub` | `gateway/watch.go`; its client, `web/src/useNeighbourhood.ts` and `lib/neighbourhood.ts` | its runs |
| `WatchHubProofs` | its theorems | |
| `OwnerQueries` | `auth`, the owner-scoped calls of `gateway/server.go`, `Acknowledge` | `MCGateway` |
| `StormQueries` | `ListStormEvents` and its keyset query | `MCGateway` |
| `PublicViews` | `privacy`, `gateway/convert.go` and the queries behind the aggregates | `MCGateway` |
| `GatewayProofs` | the theorems of `OwnerQueries`, `StormQueries` and `PublicViews` | |

`MCDetector`, `MCField` and `MCGateway` each hold several components that share
no state. A variable `part`, chosen initially, says which of them takes steps,
so the state spaces add up and do not multiply.

Definitions commented "Faulty" are small bugs one could make in the
definition that follows them. They occur in no specification; substituting one
for the original makes the property named in `PROJECT.json` fail.

### WatermarkConsumer

A batch is one producer transaction: all of its rows carry `inserted_at` = the
start of the transaction and appear at the commit. `Tick`, `BeginBatch`,
`CommitBatch` and `AbortBatch` are the environment. `typedStage.run` is one
action per statement (`StageBegin`, `GetWatermark`, `Poll`, `LagBoundary`,
`Handle`, `StageCommit`), because under READ COMMITTED each statement sees what
is committed when it runs while `now()` stays frozen. Every error return is
`StageFail` (possible at each of these points), a commit whose answer is lost is
`StageCommitUnknown`, and `Crash` covers the end of the process anywhere. The
LISTEN goroutine is `ListenConnect`, `ListenDeliver`, `ListenDrop`, the loop
`WakeUp`, `TickerFires`, `Retry`.

`ImplementsFeed` maps it to `EventFeed`: `stored` is what is committed, `pos` its
stamp, `delivered` what a committed stage transaction handled.

### Bridge

An envelope is `<<message, connection>>`: paho drops the acknowledgement of a
message whose connection has been replaced. `Deliver`, `ConnectionLost` and
`Reconnect` are the external side. `HandlerDrops/Adds/GivesUp` are the handler of
`Run`; `Take`, `Due`, `DrainStarts` and `Drain` are `Batcher.Run`, with `Add`
blocking on a full queue. `IngestStores` commits any part of a stream's rows;
`IngestAnswers` ends the stream once all of them are there, and the batcher then
acknowledges; `SubmitFails` is a status that is not retried or the timeout,
`SubmitCancelled` a flush whose context ends. `Signal`, `BatcherFailed`,
`CloseConsumer`, `StopBatchers`, `Exit`, `Crash` and `Restart` are the life of
the process. Retries of `Client.submit` are invisible: rows already there are
left alone by `ON CONFLICT DO NOTHING`, so a retry is another `IngestStores`.

### CycleDetector

One device; its maps are keyed by device. What the consumer guarantees is built
in (`seen` counts the committed prefix of the table). `PollCycles` sorts one
poll's rows as `Handle` does; `Classify` is one cycle, including the seeding of an
unknown (device, pump) window from the table, `ClassifySummary` one storm summary
on the shared memory; `Commit` writes the detections, `Reset` is a failed
transaction or a restart. `ShortCycleMinCount` is 5 in the code and smaller in
the runs; the gap, run and drop thresholds are the code's.

### AlertLifecycle

The table of one device. A row handled by the engine is one action, since a
rolled-back transaction leaves no trace in the table. The notifier runs
concurrently: `ListRaises`, `Deliver`, `Mark`, `ListResolves`, `EndRound` are
separate, and `Interrupt` drops a round anywhere, also between delivery and mark.
Wall-clock columns (`notified_at`, `updated_at`) are ages that count up to the
one threshold they are compared with. Whether the level rises in rain is an
input of `HandleReading`; `HeartbeatRules` computes it.

### HeartbeatRules

One device whose readings arrive in event order. `Applied` is one reading through
all the rules; `samples` keeps the last three levels and seeds them from the table
when memory was lost (`ResetRules`). `HandleReading` applies one row: a transaction
of several leaves what they leave one after another, and one that fails leaves
nothing but the loss of memory. `rainHolds` is the rain term over every small
rainfall table. `RainNear` scans rows that begin at most a day before the window,
so a row that is longer (a gauge whose uplinks were lost for more than a day) is
not promised to be seen, and `OutageRiskSeen` excepts it. Opening and resolving are reduced to the time an alert was raised
at, since `AlertLifecycle` has the rest.

### IngestStream

Per stream the three goroutines of `runStream`: `Recv*`, `Batch*`/`Push`, `Store*`,
with the unbuffered request channel, the bounded batch channel and the errgroup's
cancellation. A store call is `Lock` and the partition steps (`CreateBegin`,
`CreateEnd` with the one retry), `Write` and `TxnCommits`/`TxnFails` for each of
`SubmitCycleEvents`' two tables. Two streams on two replicas carry the same rows:
a submission and its retry. A row is named by its place, request and item, in
its stream, so a batch is a set of places and its rows are looked up in
`Requests`.

### SumpNode, Codec, GaugeRainfall, EcccPoller, RainCache

A step of `SumpNode` is one virtual second: inflow, mains, primary pump, backup
pump, float, storm window, heartbeat, in the code's order. Volumes are small
integers; inflow and outages are inputs. `told` and `highSince` are history: what
the uplinks said so far, and since when the water is high. `Codec` gives each fPort
its layout of little-endian fields, encodes byte by byte and decodes field by field;
the run compares the two over boundary values of every field, truncated and padded
payloads included, the proof over every payload. `GaugeRainfall` has the node
(`Wake`, `Reboot`), the table (`StoreUplink` in any order, or never) and the
handler (`Handle`, over any set of polled uplinks). `EcccPoller` reads page by page
and may fail or restart between pages. `RainCache` writes the file as the code
does: create a temporary file, fill it, rename it, with the import killed anywhere.
The loop of `Covered` over the sorted fetches is a recursive function of the moment
a fetch starts at (`Reach`, one `Turn` for the fetches with the same start); a fetch
remembers what it read, and an uplink of the gauge what had really fallen (history).

### StormSegments, StormAnalytics, StormResponse, ObservedHome

Time is counted in rain bins with one row per bin; amounts are multiples of the
number of gauges so the mean stays exact. `process` is one stage transaction:
window, extension, segmentation, reconciliation, and the homes to analyse. A
metric of `StormAnalytics` is the record of what it was computed from: the storm's
onset and end, the cut-off at the next onset, the stop at the home's newest report,
the reports themselves and the dry-weather intervals behind the baseflow
(`DryIntervals`, from the rain that `baseflowRain` reads). A home is analysed again
when the storm's own row changed or when it reported in the storm's span
(`IsTarget`); the cut-off and the rain before the storm may change without either,
so a metric is exact when it is computed (`PollsRefresh`) and complete in its reports
later on (`ReportsCounted`), but not always fresh (section 4). What is computed is `StormResponse`, in fixed point (`Scale`); `ObservedHome` drives it
with the reports of a `SumpNode` instance and keeps the true inflow to compare.

### WatchHub, OwnerQueries, StormQueries, PublicViews

`WatchHub`: writers stamp rows with the start of their transaction, and storms are
also deleted (`DeleteStormEvent`), which leaves nothing that a query by `updated_at`
could find. `RoundBegin` reads in one snapshot, `RoundPublish` records and delivers
(status, then storms, then alerts, each by `updated_at`). A subscriber registers,
reads its snapshot (the open storms, the `RecentStorms` newest, its unresolved
alerts; the two queries and the sends are one step, since rows do not depend on each
other), then its queue. A stream that falls behind or whose hub stops is told to
reconnect (`EndStream`); one whose snapshot or send fails, or whose client leaves, is
lost anywhere (`LoseStream`). The client is `useNeighbourhood`: it keeps what it was
sent by id, drops an alert when it is resolved and all alerts when a stream opens,
and never drops a storm. `told` are the storms that the connection under way has
sent. A client is owed (`Owed`) its unresolved alerts, the open storms and the storms
in `told`; not a storm that is deleted, and not a closed one that the snapshot's
LIMIT left out: of those a client may keep an old version from an earlier connection.

`OwnerQueries` takes each query of a call as a step of its own while links, tokens'
expiry and the alerts service's answer move; only the two of `ListMyAlerts` are one
step, as the second checks the links again. `StormQueries` is one client walking the pages while
storms are inserted, moved and deleted. `PublicViews` builds both aggregates from
every small table.

## 3. Runs

Where a component has several invariants about one subject, the run checks their
conjunction, named in the table; the parts are stated and commented one by one in
the modules. `PROJECT.json` lists, for each, faulty forms of the code that break
it, in most cases one for every part.

| Run | Shows |
|---|---|
| `watermark_safety` | three batches in two tables, every interleaving of producers, polls, failures, lost commits and crashes: nothing is skipped (`NoRowSkipped`) or applied twice (`AppliedAtMostOnce`); memory holds committed rows only (`MemoryIsCommitted`); the consumer is an `EventFeed` (`ImplementsFeed`) |
| `watermark_live` | every stored row of a watched table is handled in the end (`EveryRowHandled`) with notifications lost at will |
| `ingest` | an answered stream is stored (`AnsweredIsStored`); a row is counted as accepted once over a submission and its retry (`AcceptedOnce`); `PartitionRaceSafe`: no insert into a missing partition (`PartitionBeforeInsert`) and a lost race to create one fails no stream (`RaceIsHarmless`); every stream is answered or failed, no goroutine is left blocked (`EveryStreamAnswered`) |
| `bridge_delivery` | four messages, one poison and one rejected, two faults: acknowledged means accounted for (`NoLoss`), a batcher's pipeline holds no message twice and none of an earlier connection behind one of a later (`PipelineInOrder`), limits hold (`TypeOK`), everything is acknowledged in the end (`EveryMessageSettled`) |
| `field` | *node* (`NodeReports`): every run is in one event or one roll-up (`RunsReportedOnce`), heartbeats count them (`HeartbeatsCountRuns`), events are rationed (`EventsRationed`), high water is reported (`HighWaterReported`); an outage is alarmed unless one was within the hold-off (`OutagesAlarmed`). *codec* (`RowsFaithful`): only what encoding produces decodes (`DecodeStrict`), a redelivered message with a time is one row (`RedeliveryIsOneRow`), the strongest gateway is named (`BestGatewayNamed`). *gauge* (`RainfallFaithful`): rows do not depend on the order of arrival (`OrderIndependent`), do not overlap (`NoDoubleRain`), lose no rain with a lost uplink (`LossLosesNoRain`), and a deletion comes with a written row that wakes the readers (`DeletionsAccompanied`). *eccc*: `NoRevisionMissed`. *response* (`ResponseFaithful`): `InflowReconstructed`, `RecessionFollowsResponse`, `VolumeIsFloor`. *cache*: a covered window replays the newest fetch of each hour (`ReplayIsNewestFetch`), an import that dies loses nothing (`CoverageKept`) |
| `detector` | *one pump*, two losses of memory: `StreaksRaised`: a dry run or short-cycling streak at the end of what was consumed has an open raise (`DryRunRaised`, `ShortCyclingRaised`). *two pumps* and storm summaries, no loss of memory, `ConditionsTracked`: detections alternate (`Alternates`), healthy cycles clear (`DryRunCleared`). *heartbeats* (`HeartbeatAlerts`): a rising level without mains is seen unless rain is known to be absent (`OutageRiskSeen`), the risk needs an outage (`RiskNeedsOutage`), the battery thresholds latch (`BatteryLatched`) |
| `detector_two_pumps` | **violation** of `EveryDryRunRaised`: the primary's dry run is raised and cleared by the backup's healthy cycles; after a restart the primary's next dry run has no raise |
| `alert_safety` | three codes from all sources, interleaved with the notifier: `OneOpen`, `ResolvedAfterRaised`, `SentMeansArrived`, `MailsJustified`, and the attempts limit (`TypeOK`) |
| `alert_live` | every due raise and resolve mail is delivered or used up its attempts (`MailsDelivered`: `RaiseDelivered` and `ResolveDelivered`) |
| `storm_metrics` | **violation** of `MetricsConverge`: late rain before a storm does not reach the baseflow of the home, whose metrics stay as they were |
| `watch_hub` | `WatchersRight`: with the hub caught up, a stream that is neither dropped nor behind shows its client the rows it is owed as they are (`ClientsConverge`), and alerts reach owners only (`AlertsOnlyToOwners`); no version is published twice (`OneDeliveryPerVersion`); every client ends up connected and up to date with what it is owed (`ClientsCatchUp`) |
| `gateway` | *analytics*: `TablesConverge`: once everything is polled the storms are those of all rain at once (`StormsConverge`), and each metric has its storm's onset and end and every report up to its cut-off (`ReportsCounted`); `PollsSound`, what a poll does: a storm that goes on keeps its id (`IdStable`), and the storms that it wrote or that its reports concern get exactly the metrics of the tables as they are (`PollsRefresh`). *owner* (`OwnersOnly`): `OwnerDataToOwners`, `AckedByOwners`. *storms* (`WalkComplete`): pages descend (`PagesDescend`) and a finished walk has every storm that was there throughout (`WalkMissesNothing`). *views* (`AggregatesPrivate`): `SuppressedRevealsNothing`, `HomesCountedOnce` |

### Bounds

- `watermark_safety`: `Lag` 2 and `MaxTxn` 1 are the smallest values with a
  transaction that spans a tick and a lag above it; `MaxTime` 5 lets stamps 1 to 3
  pass the lag; `MaxGroups` 1 makes the LIMIT cut between two batches of a table.
  `watermark_live` has one watched and one unwatched batch.
- `ingest`: `BatchMax` 2 and `QueueBatches` 1 fill the channel and block the
  batching goroutine; the requests span two months, two tables, an unknown device
  and an invalid row; one fault. `RequestMax` 3 is the longest request, the most by
which a batch may exceed `BatchMax`.
- `bridge_delivery`: `MaxItems` 2 with two readings fills a batch, `QueueDepth` 1
  blocks the handler, `ReceiveMax` 3 of four messages blocks the broker,
  `MaxFaults` 2 allows a lost connection followed by a signal or crash.
- `field`: eight steps of the node hold three heartbeats and a storm window with
  the way into and out of storm mode; counts are cut at `MaxCount` 2 where the code
  has 255. Five wakes with one reboot and one fault give the gauge every rule of
  `deriveOne`. Four hours with pages of two and three pages reach the page limit.
  The response scenario is 44 steps with enough dry cycles for a baseflow; two
  onsets and two rain lengths put the rise before and after the end of the rain.
  The cache has three hours, half-hour window edges and two imports.
- `detector`: five cycles allow dry, healthy, healthy and two windows' worth;
  `Window` 3 is cut; `MaxPoll` 2 makes polls smaller and larger than one row; four
  heartbeats are one more than the window of three.
- alerts: `MaxInputs` counts rows, acknowledgements and interruptions; three let
  an alert be raised, resolved and raised again; `MaxAttempts` 2 reaches the
  limit. The sweep is not counted.
- `gateway`, analytics: six bins with `MaxGap` 2 hold two storms and a gap that a late row
  closes; `ExtendStep` 3 makes the window grow; `MaxRecession` 4 reaches the next
  storm. `Lookback` 2, `DryFor` 1 and `BaseflowMinSamples` 1 let two reports before
  a storm give a baseflow; `Day` 2 leaves storms on both sides of `NearOnset`. Each
  of the four loads of `SmallLoads` spends the bound on one thing: a revision,
  several rows in a poll, a revision with reports, a baseflow with reports during
  the storm. `storm_metrics` has one load, `LateRain`; with `LateStorm` instead the
  same property fails at the next onset.
- `watch_hub`: `Overlap` 2 exceeds `MaxTxn` 1 as a minute does the longest writer;
  `Buffer` 1 overflows with two rows in a round; `RecentStorms` 0 makes the LIMIT
  leave out the one storm when it is closed; `MaxTime` 4 lets a late commit, the round
  that finds it and the one after it happen. The owner and another subscriber show
  what each is sent. The theorems about the hub have no such bounds.
- `gateway`, the rest: four storms at three start times give ties; page sizes are negative,
  zero, two and above the limit; two changes fall between the pages of a walk; `MinHomes` 2 with three homes and two devices.

Deadlock checking is off where the model ends because its bounded inputs are
used up.

### Fairness

- `WatermarkConsumer`: the clock, a restarting process and the backoff timer go
  on (weak). `Run` retries for ever, so each database step and the ticker are
  strongly fair: a step that is tried again and again succeeds in the end.
  Nothing is assumed of the LISTEN connection.
- `Bridge`: faults are bounded; afterwards the goroutines, the reconnect loop, the
  container runtime's restart and ingest's answers go on.
- `IngestStream`: the steps of a stream (receiving, batching, storing, answering)
  go on (weak), its batch timer fires, and a replica's partition mutex is obtained
  in the end (strong: Go's mutex does not starve a waiter). No fault is fair.
- `WatchHub`: the ticker starts rounds for ever, writers commit, the send loops go
  on, and a client whose stream ended subscribes again, as `useNeighbourhood` does
  with a backoff. Failures, the loss of a stream (`LoseStream`), deletions and
  shutdowns are not fair; `ClientsCatchUp` is about a gateway that is not shut down.
- `AlertLifecycle`: the clock, the sweep after each round (at least every
  `POLL_INTERVAL`) and the notifier's ticker go on. Deliveries need not succeed.

## 4. Findings

Two runs are marked violation; the quotations are in `PROJECT.json`.

- **Two pumps and a restart** (`detector_two_pumps`). Conditions are kept per device,
  windows per (device, pump). The primary runs dry and raises; the backup is healthy
  twice, which clears; memory is lost; the primary runs dry again. Its window is
  seeded from the table, and the newest cycle in it is its own earlier dry one, so
  `detector.go:323` sets the condition active although it was cleared. The second
  dry run emits no raise. Cycles are stored in order in this run.
- **Late rain and home metrics** (`storm_metrics`). The analysis of a home reads the
  rain of the lookback and the onset of the next storm, but `targets`
  (`storms.go:164-177`) asks only whether the storm's own row changed or the home
  reported. In the run rain that is too little to be a storm arrives before one that
  was analysed: the baseflow keeps an interval that was not dry. A second storm that
  appears in the recession of the first leaves the first one's cut-off in the same
  way (`LateStorm`). Both are against ADR 0007:58 ("late uplinks and ECCC revisions
  converge to the same tables"); the next report of the home in the storm's span,
  if there is one, corrects them.

Other places where the code differs from what a comment, document or test says,
met while modelling. The models translate the code; where a property would fail
because of one of these, its comment names the condition under which it holds.

- **Bridge.** `run.go:223` disconnects before the drain, against the comment at
  line 116: stored messages are delivered again after the restart. A flush running
  when the shutdown cancels its context leaves its batcher undrained
  (`batcher.go:99`). Nothing is lost.
- **Detector.** `detector.go:323` rebuilds DRY_RUN from the last cycle alone, so a
  restart between a dry run's first and last healthy cycle misses the clear
  (against lines 307-308). `detector.go:281` appends late cycles behind their
  successors, although `ShortCyclingRun` asks for sorted input
  (`hydrology.go:51-52`).
- **Alerts.** The sweep touches an OFFLINE alert every round, which resets the clock
  (`alerts.sql:16`, `:39`) that the retry of its failed mail waits for, against
  `alerts_integration_test.go:344`. A raise mail in state `failed` when its alert is
  resolved may be delivered later without a resolve mail (`alerts.sql:22`).
  Whether OUTAGE_RISK is raised depends on restarts: the seeded window
  (`rules.go:198`) reaches across a mains-OK reading. `covered` looks at the end of
  the newest row only, so a hole in the rainfall suppresses the alert (against
  `rules.go:170-174`). A late mains-OK reading may resolve MAINS_LOST and not a
  newer OUTAGE_RISK.
- **Consumer.** The poke after a LISTEN reconnect does not reach rows younger than
  the lag, which wait for the ticker (`consumer.go:243`).
- **Ingest.** `INGEST_MAX_FUTURE` is described as a limit on event times
  (`config.go:14`), but a cycle's start, a summary's window end and an alarm's
  `raised_at` are not compared with it, so `last_seen_at` can jump ahead. A store
  failure is noticed by the receive goroutine at the client's next message only.
- **Decoders.** A message without any timestamp that is redelivered is stored twice.
- **Gauge.** With a sensor-fault uplink a deletion may stay without a written row
  (against `gauge.go:251-253`). While an earlier uplink is pending, rows may overlap
  for the time being.
- **Storms.** A storm stays open when rainfall coverage has a hole right past
  `StormMaxGap` (against ADR 0007). `nextStormOnset` may read rows that are deleted
  later in the same transaction (`PollsRefresh` excepts polls that remove a storm).
  Telemetry finds its storms by their onset with a day of slack (`storms.go:104`),
  so reports of the lookback may be missed for a storm that drizzled longer than that
  before its onset (`NearOnset` excepts it). A report later than `MaxRecession` after
  the rain moves the stop of an analysis (`storms.go:389`) and repeats none.
- **Watch hub.** `storms.go:279` and `:326` delete rows of `storm_events`; the hub asks
  for rows by `updated_at`, and the protocol has no update that would withdraw a
  storm. A client that was sent one shows it until the page is loaded again, since a
  reconnect clears alerts only (`useNeighbourhood.ts:11`), although `watch.go:36-38`
  says storm events are sent when their row changes. `ClientsConverge` and
  `ClientsCatchUp` except deleted storms (`Owed`).
- **Response analysis.** A heartbeat taken during the run whose end starts storm mode
  is not skipped, since that run is only in a roll-up whose window starts at its end
  (against `response.go:212-214`). Overlapping runs of both pumps count the drop
  twice. Observations cut at `end` may leave out the roll-up in whose window the
  last levels lie.
- **Rain cache.** With a `to` inside an hour the last, partial hour is replayed dry.

## 5. Proofs

TLAPS proves these for every value of the constants that satisfies the named
assumptions of the module.

**WatermarkConsumerProofs.** `TypeCorrect`, `NoRowIsSkipped`, `EachRowAppliedOnce`,
`InsertOrderKept`, `MemoryStaysCommitted`, `WatermarkMonotone`, `Refinement`. The order of delivery
(`InsertOrder`) and the monotone mark (`WatermarkNeverRegresses`) are proved only,
as is `ResolvedForever` below.
Assumption: `LagAssumption`, every producer transaction is shorter than
`WATERMARK_LAG`, as the configuration demands. `NoRowSkipped` alone is not
inductive: the invariant adds that every mark is still 0 or at most `now - Lag`
(`MarkInv`) and that an open transaction is at most `MaxTxn` old (`StampInv`),
hence none can still appear at or below a mark; that handled batches are stored and at or below the mark (`HandledInv`);
and, statement by statement, what the running transaction knows about the rows
it has polled (`TxInv`). The refinement follows from it: a commit delivers
exactly the undelivered batches up to the new mark.

**BridgeProofs.** `TypeCorrect` (all three limits included), `NoMessageLost` and
`PipelinesInOrder`. The invariant is `TypeOK /\ NoLoss`; the argument is that a
message becomes `acked` only in `HandlerDrops` (poison) and in `IngestAnswers`,
whose guard has every row of the batch stored or invalid, and that `stored` only
grows. `FewerInflight` and `OneMoreInflight` are the cardinality facts behind
`ReceiveMax`. For the order, `OrderInv` adds that the envelope in the
handler came after all that were added (`HandledLast`), that what the broker may
still deliver on this connection was not received on it (`QueuedAfresh`), and that
no envelope is of a later connection than the current one (`ConnsPast`).

**IngestStreamProofs.** `IngestBounded`, `AnsweredStreamsStored`,
`RowsAcceptedOnce`, `PartitionRacesSafe`, for any number of streams and replicas.
Assumption: no request is longer than `RequestMax`. `AnsweredIsStored` speaks of
the end of a stream only; the invariant follows its rows on the way there: each
row that has arrived is in exactly one of the batch being collected, a queued
batch and the batch being stored, or it is settled (`Flow`); the counts add up to
what is settled and settled rows of known devices are in the table (`Accounted`);
what each goroutine knows of the others when it ends is `Phases`. Partitions: a
month that a replica has seen exists (`SeenExist`), and so does one whose creation
was lost to another replica (`Months`).

**RainfallProofs.** `EcccNeverMisses`. Assumption: the backfill is at least the
lookback. The invariant ties the pages read so far to what is published: the window
of a poll begins at least the lookback behind the clock (`WindowBehind`, `PollBegan`),
so what was read of an hour that no later poll will ask for is final
(`ReadSettled`), since revisions reach back no further than the lookback.

`ReplaysAreFaithful` and `CoverageNeverShrinks`, for files of any size.
`ReplayIsNewestFetch` compares a replay with the fetches a file records; `CacheInv`
says it of the file on disk and of the file of the import under way: of every hour
they hold what the newest fetch that asked for it read (`Newest`, kept by `Merge`:
`MergeIs`), the import's fetches include the file's, and the temporary file is
complete when it is renamed. That a window which `Covered` accepts was asked for
throughout (`ReachAsked`), and that more fetches reach as far (`ReachGrows`), are
inductions over the loop.

`RainfallIsFaithful`. `RainfallFaithful` speaks of settled tables, with nothing
pending; `Reconciled` says what holds on the way. The rows of an uplink are there
unless it or the uplink before it is pending (`Present`); a row that one derivation
over the whole table would not give (`Explained`), that lies over an uplink (`Spans`)
or over another row (`Overlaps`) does so beside a pending uplink. Storing an uplink
makes only rows next to it stale (`Stored`); a poll replaces exactly the rows between
two uplinks of the table (`ReconcileIs`), and what it deletes makes way for a row it
writes over the same time (`Accompanied`). The depth of the table is an induction
over the uplinks in order of time (`Tallied`), against what the counters and the
true rain say of two uplinks (`Honest`).

**TelemetryProofs.** `NodeReportsHold` and `OutagesAreAlarmed`, for any pit, pump,
interval, threshold and inflow. `NodeInv` is a set of books that each part of a step
keeps, in the order of the code: runs told of, plus the runs of the storm window under
way, are the runs that ended (`RunsTold`), and so are the runs that heartbeats counted
plus those since the last (`Counted`), until a count of one byte is full, when both
are lower bounds; the events of the last window are among the run ends the node
remembers (`Rationed`); and high water was told of since it began, or the next
heartbeat comes in time (`HighTold`). No storm window is ever longer than
`StormWindow` and no heartbeat later than its interval (`ClocksOK`).

`DecodedRowsAreFaithful`, for every payload, port and list of gateways. The layouts
fill their payloads (`LayoutIs`), so an accepted payload encodes back byte by byte
(`RoundTrip`); the loop over the gateways ends with one that none exceeds (`BestIs`,
by induction); and a delivery later gives the same row (`SameAgain`).

`HeartbeatsRightlyAlert`, for any readings, thresholds,
rainfall tables and losses of memory. `HeartbeatAlerts` is not inductive: the risk
is decided from a window in memory. `WindowInv` says what that window is worth: it
ends in the reading applied last, preceded by the one before it if that one lacks
mains. What is seeded from the table after a loss is as good (`SeedIsBehind`), so
three rising readings are the three samples (`SamplesAre`, `RiskOpened`).
`InEventOrder` and the raising times of `RulesTypeOK` make every `Resolve` of a later
reading take effect.

**WatchHubProofs.** `WatchersAlwaysRight` and `VersionsPublishedOnce`. Assumptions:
a writer's transaction is shorter than the overlap (`MaxTxn < Overlap`) and there are
finitely many rows. `ClientsConverge` speaks of quiet states and of the rows a client
is owed; `HubInv` says what holds on the way: a row that changed under the snapshot of
a round is found by the next one, however far this one moves the mark (`Snapshots`,
`Newer`), because a writer cannot be older than the overlap; what the tracker would
still publish was never published, and a finished round leaves nothing of its snapshot
behind (`Published`); the last queued update of a row, or the client's view if there is
none, is the row's current version unless a round still has it to publish (`KnowsRow`,
and `KnowsStatus` for the status). The view is right for rows that the client is owed
only, since a closed storm need not have been in its snapshot; a deleted row (`gone`) is
out of `KnowsRow` for good, since no write brings it back.

**GatewayProofs.** `OwnersOnlyAlways`: the invariant keeps, for each call between two
of its queries, what the last one established (`CallsOK`, `ForwardedOK`); links that
are removed meanwhile stay in `everOwned`. `WalksComplete`: every stable storm is
on a page returned or past the cursor (`ToCome`), and the cursor is the last row
returned (`CursorIsLast`); finitely many ids are assumed. `AggregatesStayPrivate`:
suppression is decided by sets of homes, hence changes of the values of a
suppressed cell change nothing, and a second device of a home adds no element.

**AlertLifecycleProofs.** `TypeCorrect`, `OneOpenAlert`, `ResolutionsAreOrdered`,
`SentMailsArrived`, `MailsAreJustified`, `NeverReopened`. The invariant adds to
the properties what connects the notifier's private state to the table:
`RowsOK` (a resolve mail is asked for only on resolved rows that were to be
mailed) and `RoundOK` (what is queued or being sent was due and stays so until it
is marked), which is what makes a mark after any interleaving justified.

Induction over data is needed in several of these proofs. The library's induction
theorems take a predicate as a parameter, which the provers do not instantiate, so
induction is stated for a set: `LeastNatural` (a set of naturals has a least member,
from the well-foundedness of `<`) and `EveryNatural` (a set with 0 that is closed
under +1 holds them all). A function that is defined by recursion is shown to exist
by the same induction (`LoopRuns`, `ScanRuns`, `SumExists`) and used by its equation.

Only model-checked: liveness (`EveryRowHandled`, `EveryMessageSettled`,
`MailsDelivered`, `EveryStreamAnswered`, `ClientsCatchUp`), which the prover does not
handle; `StreaksRaised` and `ConditionsTracked`, whose windows are sorted and selected
sequences; `TablesConverge` and `PollsSound`, which compare two segmentations of rain by
loops that the code runs over different windows; and `ResponseFaithful`, an error
bound for one fixed scenario of inflow, not a statement about all of them.

## 6. Not modelled

- Metrics, logging, environment parsing, health endpoints, HTTP serving and the
  REST proxy: they change no state the rest depends on.
- Generated protobuf code and connection pooling.
- The detector's estimated volumes and its pit-area cache: nothing it decides
  depends on them. The notifier's LIMIT of 100 rows per listing.
- A handler that fails for ever on a row: the code has no dead-letter path.
- Producer transactions longer than the lag, writers longer than the hub's overlap:
  excluded by assumption, as the configuration demands.
- Readings that reach the heartbeat stage out of event order, and a house with a
  backup pump in the response analysis.
- JSON, protobuf and date syntax; verification of signatures and the refresh of the
  key set.
- The simulator's random fleet, scenario presets and publisher.
- Site import and seeding: geometry over floating-point coordinates.
- The web front end, but for how it applies the live stream's updates.

## 7. Plan

1. Proofs: `CycleDetector.StreaksRaised` with windows as index sets, then
   `StormAnalytics.TablesConverge` from a lemma that segmentation looks no further
   than `MaxGap`.
2. `WatchHub` as an implementation of a latest-value feed, in the way of
   `EventFeed`.
3. Composition of consumer, detector and alerts over one database.
4. Late readings in `HeartbeatRules`.

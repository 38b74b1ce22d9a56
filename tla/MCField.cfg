SPECIFICATION Spec
CONSTANTS
  Inflows = {0, 2}
  Stop = 1
  Trigger = 4
  FloatHigh = 6
  Height = 8
  ShortDrop = 2
  PumpRate = 3
  Healths = {"healthy", "dry_running", "short_cycling", "failing"}
  HeartbeatInterval = 3
  StormWindow = 5
  StormThreshold = 1
  AlarmHoldoff = 4
  ContinuousRun = 2
  DryRunMin = 1
  DryRunMaxDrop = 1
  ThermalRun = 2
  ThermalRest = 2
  MaxCount = 2
  ScenarioLength = 8
  Messages <- MCMessages
  Devices <- MCDevices
  Clocks <- MCClocks
  MaxDeliveries = 2
  DryInterval = 3
  LossSlack = 0
  MaxTime = 5
  MaxReboots = 1
  MaxFaults = 1
  Lookback = 2
  Backfill = 3
  PageSize = 2
  MaxPages = 3
  Amounts = {0, 1}
  MaxHour = 4
  MaxStops = 1
  Scale = 10
  DayLength = 60
  CycleMinRun = 1
  CycleMinDrop = 1
  BaseflowDryFor = 4
  BaseflowMinSamples = 2
  BaseflowLookback = 40
  LagWindow = 4
  LagHold = 2
  RecessionWindow = 6
  RecessionHold = 3
  MaxRecession = 20
  ResponseLength = 44
  ResponsePump = 2
  BaseEvery = 3
  FloodInflows = {0, 2}
  Flood = 6
  Onsets = {27, 28}
  RainLengths = {2, 5}
  NearPad = 2
  Depths = {1}
  CacheHours = 3
  MaxImports = 2
INVARIANTS NodeReports RowsFaithful RainfallFaithful NoRevisionMissed ResponseFaithful ReplayIsNewestFetch
PROPERTIES OutagesAlarmed CoverageKept
CHECK_DEADLOCK FALSE

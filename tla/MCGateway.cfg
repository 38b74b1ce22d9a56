SPECIFICATION MCSpec
CONSTANTS
  Clients = {"c1"}
  Headers <- MCHeaders
  Subjects = {"alice", "bob"}
  Homes = {"h1", "h2"}
  Alerts = {"a1", "a2"}
  HomeOf <- MCHomeOf
  Issuer = "clerk"
  Keys = {"k1"}
  Parties = {"web"}
  Leeway = 0
  MaxNow = 1
  MaxLinks = 2
  Starts = {1, 2, 3}
  Ids = {1, 2, 3, 4}
  PageSizes <- MCPageSizes
  DefaultPageSize = 1
  MaxPageSize = 3
  MaxChanges = 2
  ViewHomes = {"v1", "v2", "v3"}
  ViewDevices = {"d1", "d2"}
  Segments = {"s1", "s2"}
  SegmentOf <- MCSegmentOf
  MinHomes = 2
  Window = 2
  Times = {1, 4}
  Counts = {0, 1}
  MetricRows <- MCMetricRows
  MaxWrites = 5
  Gauges = {"north"}
  Eccc = "eccc"
  Bins = {1, 2, 3, 4, 5, 6}
  Amounts = {0, 1, 2}
  MaxGap = 2
  MinTotal = 2
  OnsetMin = 2
  ExtendStep = 3
  MaxExtensions = 3
  Lookback = 2
  DryFor = 1
  BaseflowMinSamples = 1
  MaxRecession = 4
  Day = 2
  Loads <- SmallLoads
INVARIANTS OwnersOnly WalkComplete AggregatesPrivate TablesConverge
PROPERTY PollsSound
CHECK_DEADLOCK FALSE

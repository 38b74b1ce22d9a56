SPECIFICATION FairSpec
CONSTANTS
  Storms = {"storm"}
  Alerts = {"alert"}
  Subs = {"owner", "anon"}
  Owners = {"owner"}
  Watching = {"owner", "anon"}
  Overlap = 2
  MaxTxn = 1
  Buffer = 1
  RecentStorms = 0
  MaxWrites = 2
  MaxStatus = 1
  MaxTime = 4
  MaxFaults = 1
INVARIANT WatchersRight
PROPERTY OneDeliveryPerVersion
PROPERTY ClientsCatchUp
CHECK_DEADLOCK FALSE

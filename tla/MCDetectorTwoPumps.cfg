SPECIFICATION MCSpec
CONSTANTS
  Parts = {"pump by pump"}
  ShortCycleMinCount = 3
  Pumps = {"primary", "backup"}
  Kinds <- ThreeKinds
  Steps <- InOrderSteps
  Loads <- BusyAndQuiet
  HealthyCyclesToClear = 2
  Window = 3
  NCycles = 5
  NSummaries = 2
  MaxPoll = 2
  MaxResets = 1
  Beats <- MCBeats
  Gaps = {1, 3}
  RainRecords <- MCRain
  RiseWindow = 4
  RiseMin = 2
  RainWindow = 3
  RainSlack = 1
  ScanBack = 12
  LowBattery = 2
  BatteryClear = 3
  MaxBeats = 0
  MaxRestarts = 1
INVARIANTS EveryDryRunRaised
CHECK_DEADLOCK FALSE

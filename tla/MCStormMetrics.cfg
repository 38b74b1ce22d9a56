SPECIFICATION Spec
CONSTANTS
  Gauges = {"north"}
  Eccc = "eccc"
  Bins = {1, 2, 3, 4, 5, 6}
  Amounts = {0, 1, 2}
  MaxGap = 2
  MinTotal = 2
  OnsetMin = 2
  ExtendStep = 3
  MaxExtensions = 3
  Lookback = 2
  DryFor = 1
  BaseflowMinSamples = 1
  MaxRecession = 4
  Day = 2
  Loads <- LateRain
INVARIANT MetricsConverge
CHECK_DEADLOCK FALSE

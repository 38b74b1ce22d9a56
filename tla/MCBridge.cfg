SPECIFICATION FairSpec
CONSTANTS
  m1 = m1
  m2 = m2
  m3 = m3
  m4 = m4
  readings = readings
  alarms = alarms
  Msgs = {m1, m2, m3, m4}
  Kinds = {readings, alarms}
  KindOf <- TwoKinds
  Poison = {m4}
  Invalid = {m3}
  MaxItems = 2
  QueueDepth = 1
  ReceiveMax = 3
  MaxFaults = 2
INVARIANTS TypeOK NoLoss PipelineInOrder
PROPERTY EveryMessageSettled
CHECK_DEADLOCK FALSE

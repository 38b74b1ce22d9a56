SPECIFICATION MCSpec
CONSTANTS
  Streams = {"first", "retry"}
  Replicas = {"p1", "p2"}
  Requests <- MCRequests
  RequestMax = 3
  Registered = {"d1"}
  AutoRegister = FALSE
  BatchMax = 2
  QueueBatches = 1
  MaxFuture = 5
  Now = 25
  Month = 10
  MaxFaults = 1
INVARIANTS TypeOK AnsweredIsStored AcceptedOnce PartitionRaceSafe
PROPERTY EveryStreamAnswered
CHECK_DEADLOCK FALSE

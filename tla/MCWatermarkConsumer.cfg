SPECIFICATION Spec
CONSTANTS
  b1 = b1
  b2 = b2
  b3 = b3
  b4 = b4
  Batches = {b1, b2, b3}
  NStages = 2
  TableOf <- MCTables
  Lag = 2
  MaxTxn = 1
  MaxGroups = 1
  MaxTime = 5
INVARIANTS TypeOK NoRowSkipped AppliedAtMostOnce MemoryIsCommitted
PROPERTY ImplementsFeed

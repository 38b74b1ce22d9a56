SPECIFICATION FairSpec
CONSTANTS
  b1 = b1
  b2 = b2
  b3 = b3
  b4 = b4
  Batches = {b1, b4}
  NStages = 1
  TableOf <- MCTables
  Lag = 2
  MaxTxn = 1
  MaxGroups = 1
  MaxTime = 4
PROPERTY EveryRowHandled

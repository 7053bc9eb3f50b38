SPECIFICATION FairSpec
CONSTANTS
  l1 = l1
  l2 = l2
  l3 = l3
  Lookups = {l1, l2, l3}
  Impatient = {l1, l2}
  WorkerCount = 2
  PoolSizes = {1, 2}
  Capacity = 1
  HungSets <- OneOrTwoHung
INVARIANTS FailedStartLeavesNoWorker
PROPERTIES CancelledNeverStarts EveryLookupEnds ClosedPoolRetires
CHECK_DEADLOCK FALSE

SPECIFICATION FairSpec
CONSTANTS
  MaxCancels = 2
INVARIANTS NoRequestLeft TokenWins CancellationIsKept
PROPERTIES ExecuteEnds
CHECK_DEADLOCK FALSE

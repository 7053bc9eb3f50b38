SPECIFICATION Spec
CONSTANTS
  Processes = {p1, p2}
  Keys = {k1, k2}
  Tokens = {t1}
  None = None
  ReadsMayFail = TRUE
  OperatorRaces = TRUE
  MaxOperations = 2
  MaxMeddling = 1
  MaxCrashes = 1
SYMMETRY Symmetry
INVARIANTS WholeFile TemporariesAreOwned
PROPERTIES UndisturbedWriteIsExact FailureChangesNothing
CHECK_DEADLOCK FALSE

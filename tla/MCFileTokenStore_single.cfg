SPECIFICATION Spec
CONSTANTS
  Processes = {p1}
  Keys = {k1, k2}
  Tokens = {t1, t2}
  None = None
  ReadsMayFail = FALSE
  OperatorRaces = FALSE
  MaxOperations = 4
  MaxMeddling = 2
  MaxCrashes = 2
PROPERTIES ImplementsTokenStore
CHECK_DEADLOCK FALSE

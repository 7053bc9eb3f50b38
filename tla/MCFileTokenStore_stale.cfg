SPECIFICATION Spec
CONSTANTS
  Processes = {p1, p2}
  Keys = {k1, k2}
  Tokens = {t1}
  None = None
  ReadsMayFail = FALSE
  OperatorRaces = TRUE
  MaxOperations = 2
  MaxMeddling = 0
  MaxCrashes = 0
PROPERTIES KeysCoexist
CHECK_DEADLOCK FALSE

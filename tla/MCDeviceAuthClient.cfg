SPECIFICATION Spec
CONSTANTS
  Clients = {c1, c2}
  None = None
  Lifetimes = {None, 2}
  Skew = 1
  RevocationUrl = TRUE
  StoreMayFail = TRUE
  CallersPass = TRUE
  Horizon = 2
  MaxFamilies = 2
  MaxGeneration = 3
  MaxCalls = 4
SYMMETRY Symmetry
INVARIANTS SpentTokenNotKept RefusedIsDiscarded LiveTokenIsKept
CHECK_DEADLOCK FALSE

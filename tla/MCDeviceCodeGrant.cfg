SPECIFICATION FairSpec
CONSTANTS
  Missing = Missing
  DefaultExpiresIn = 4
  DefaultInterval = 1
  SlowDownIncrement = 1
  Lifetimes = {3}
  Intervals <- MCIntervals
  Timeouts <- MCTimeouts
  RawErrors <- MCRawErrors
  Vocabulary <- MCVocabulary
  ErrorAliases <- MCErrorAliases
  ClassifyHook <- MCClassifyHook
  MaxRequestTime = 1
  Horizon = 6
  MaxPolls = 3
INVARIANTS TokenInTime VerdictIsReal GrantReachesCaller
PROPERTIES PaceKept Termination ImplementsDeviceAuthorization
CHECK_DEADLOCK FALSE

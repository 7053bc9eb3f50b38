SPECIFICATION FairSpec
CONSTANTS
  MaxInterrupts = 3
INVARIANTS NoAbandonedWork InterruptsAreHeeded
PROPERTIES Termination
CHECK_DEADLOCK FALSE

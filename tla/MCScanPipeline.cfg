SPECIFICATION FairSpec
CONSTANTS
  None = None
  Names <- MCNames
  Normal <- MCNormal
  Words <- MCWords
  LegalWords <- MCLegalWords
  Filters <- MCFilters
  MaxOperations = 5
INVARIANTS UniqueIds WarningsAreTrue
PROPERTIES ScanEnds
CHECK_DEADLOCK FALSE

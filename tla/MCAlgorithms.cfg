SPECIFICATION Spec
CONSTANTS
  Operations <- MCOperations
  MaxDepth = 4
  DocumentSchemas <- MCSchemas
  FieldNames <- MCFieldNames
  Extractions <- MCExtractions
  MaxAlias = 2
  FilterableFlags <- MCFilterableFlags
  Tags <- MCTags
  Columns <- MCColumns
  ViewRequests <- MCViewRequests
  ClientAuthMethods <- MCAuthMethods
  StandardErrors <- MCStandardErrors
  RequestKinds <- MCRequestKinds
  Encodings <- MCEncodings
  Characters <- MCCharacters
  Patterns <- MCPatterns
  FileNames <- MCFileNames
  DisplayQuestions <- MCDisplayQuestions
  EnhancementQuestions <- MCEnhancementQuestions
  DiscoveryQuestions <- MCDiscoveryQuestions
  ModuleQuestions <- MCModuleQuestions
  EntryQuestions <- MCEntryQuestions
INVARIANTS
  NamesMatchTheirMeaning IdsAreSettled SchemasSayTheirSource DisplayIsFinal GroupsFollowRows
  EnhancementIsAccountedFor DiscoveryKeepsToTheIssuer EntriesRoundTrip
CHECK_DEADLOCK FALSE

SPECIFICATION Spec
CONSTANTS
  Operations = {}
  MaxDepth = 4
  DocumentSchemas <- MCSchemas
  FieldNames <- MCFieldNames
  Extractions <- MCOutputs
  MaxAlias = 2
  FilterableFlags <- MCFilterableFlags
  Tags = {}
  Columns = {}
  ViewRequests = {}
  ClientAuthMethods <- MCAuthMethods
  StandardErrors <- MCStandardErrors
  RequestKinds <- MCRequestKinds
  Encodings <- MCEncodings
  Characters <- MCCharacters
  Patterns = {}
  FileNames = {}
  DisplayQuestions = {}
  EnhancementQuestions = {}
  DiscoveryQuestions = {}
  ModuleQuestions = {}
  EntryQuestions = {}
INVARIANTS SensitivityKept
CHECK_DEADLOCK FALSE

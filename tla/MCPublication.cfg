SPECIFICATION SpecPublication
CONSTANTS
  Writers <- MCWriters
  Process <- MCProcess
  Modules <- MCModules
  MaxBatch = 3
  Batch <- MCBatch
  Files <- MCFiles
  Safe <- MCSafe
  Numbered <- MCNumbered
  Links <- MCLinks
  Accepted <- MCAccepted
  None = None
  Loaders = {r1}
  Target <- MCTarget
  Rank <- MCRank
  Resolvable <- MCResolvable
  Streaming <- MCStreaming
  AsyncStream <- MCAsyncStream
INVARIANTS WholeUnlessShared NoModuleIsLost LoadIsWhole ReportsMatchRegistry
CHECK_DEADLOCK FALSE

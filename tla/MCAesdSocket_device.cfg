CONSTANTS
  Clients = {c1, c2}
  Timer = timer
  NULL = NULL
  NL = NL
  MaxWriteOps = 2
  UseCharDevice = TRUE
  Chunks <- LineChunks
  MaxChunks = 2
  MaxTicks = 0
  Signals = TRUE
  Disconnects = TRUE
  Faults = FALSE
SPECIFICATION Spec
INVARIANTS
  TypeOK
  MutexCoversFile
  CommandsHaveOneAuthor
  ListIsExact
  ThreadsAreListed
  CorruptOnlyByOverlap
PROPERTIES
  RepliesIncludeOwnData
  HandlesAsBefore
\* The server may exit, and clients may have nothing more to send.
CHECK_DEADLOCK FALSE

CONSTANTS
  Clients = {c1, c2}
  Timer = timer
  NULL = NULL
  NL = NL
  MaxWriteOps = 2
  UseCharDevice = FALSE
  Chunks <- LineChunks
  MaxChunks = 1
  MaxTicks = 1
  Signals = TRUE
  Disconnects = FALSE
  Faults = TRUE
SPECIFICATION Spec
INVARIANTS
  MutexCoversFile
  ListIsExact
  ThreadsAreListed
\* The server may exit, and clients may have nothing more to send.
CHECK_DEADLOCK FALSE

CONSTANTS
  Clients = {c1, c2}
  Timer = timer
  NULL = NULL
  NL = NL
  MaxWriteOps = 2
  UseCharDevice = TRUE
  Chunks <- WholeChunks
  MaxChunks = 1
  MaxTicks = 0
  Signals = TRUE
  Disconnects = FALSE
  Faults = FALSE
SPECIFICATION Spec
INVARIANT
  NoUseAfterFree
\* The server may exit, and clients may have nothing more to send.
CHECK_DEADLOCK FALSE

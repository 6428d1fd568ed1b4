CONSTANTS
  Clients = {c1, c2}
  Timer = timer
  NULL = NULL
  NL = NL
  MaxWriteOps = 2
  UseCharDevice = TRUE
  Chunks <- LineChunks
  MaxChunks = 1
  MaxTicks = 0
  Signals = FALSE
  Disconnects = TRUE
  Faults = FALSE
SPECIFICATION FairSpec
PROPERTY
  ClientsAreServed
\* The server may exit, and clients may have nothing more to send.
CHECK_DEADLOCK FALSE

CONSTANTS
  NL = NL
  x = x
  Bytes = {x, NL}
  JUNK = JUNK
  NULL = NULL
  Procs = {p1, p2}
  MaxWriteOps = 2
  Payloads <- MixedPayloads
  Counts = {1}
  Seeks <- EndSeek
  Seektos <- LastSeekto
  KMALLOC_MAX = 2
  HeapBlocks = 3
  MaxPos = 1
  Interruptible = TRUE
  Relocates = FALSE
SPECIFICATION FairSpec
INVARIANTS
  RacesNeedInterruption
  DeviceRingShape
  BlocksAccountedFor
PROPERTY
  EveryCallReturns
\* A process killed in the driver never runs again, and the model ends with
\* the first race.
CHECK_DEADLOCK FALSE

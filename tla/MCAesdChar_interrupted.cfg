CONSTANTS
  NL = NL
  x = x
  Bytes = {x, NL}
  JUNK = JUNK
  NULL = NULL
  Procs = {p1, p2}
  MaxWriteOps = 2
  Payloads <- LinePayloads
  Counts = {}
  Seeks <- NoSeeks
  Seektos <- NoSeektos
  KMALLOC_MAX = 3
  HeapBlocks = 6
  MaxPos = 4
  Interruptible = TRUE
  Relocates = FALSE
SPECIFICATION Spec
INVARIANT
  LockCoversDevice

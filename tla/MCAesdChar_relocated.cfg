CONSTANTS
  NL = NL
  x = x
  Bytes = {x, NL}
  JUNK = JUNK
  NULL = NULL
  Procs = {p1}
  MaxWriteOps = 2
  Payloads <- LinePayloads
  Counts = {}
  Seeks <- NoSeeks
  Seektos <- NoSeektos
  KMALLOC_MAX = 3
  HeapBlocks = 6
  MaxPos = 4
  Interruptible = FALSE
  Relocates = TRUE
SPECIFICATION Spec
PROPERTY
  ImplementsLineLog

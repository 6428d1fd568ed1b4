CONSTANTS
  NL = NL
  x = x
  Bytes = {x, NL}
  JUNK = JUNK
  NULL = NULL
  Procs = {p1}
  MaxWriteOps = 2
  Payloads <- WholePayloads
  Counts = {}
  Seeks <- NoSeeks
  Seektos <- MCSeektos
  KMALLOC_MAX = 3
  HeapBlocks = 6
  MaxPos = 4
  Interruptible = FALSE
  Relocates = FALSE
SPECIFICATION Spec
PROPERTY
  SeekToFindsCommand

CONSTANTS
  NL = NL
  x = x
  Bytes = {x, NL}
  JUNK = JUNK
  NULL = NULL
  Procs = {p1, p2}
  MaxWriteOps = 2
  Payloads <- LinePayloads
  Counts = {2}
  Seeks <- SomeSeeks
  Seektos <- SomeSeektos
  KMALLOC_MAX = 3
  HeapBlocks = 5
  MaxPos = 3
  Interruptible = FALSE
  Relocates = FALSE
SPECIFICATION Spec
INVARIANTS
  TypeOK
  LockCoversDevice
  DeviceRingShape
  ReadsAreSlices
  BlocksAccountedFor
PROPERTIES
  SeekInsideUntilWrap
  SeekToNeverOvershoots
  ImplementsLineLog

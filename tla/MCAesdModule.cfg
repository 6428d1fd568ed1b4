CONSTANTS
  MaxWriteOps = 10
  Entries <- MCEntries
  NULL = NULL
  MaxOpen = 1
SPECIFICATION ModuleSpec
INVARIANTS
  TypeOK
  RingShape
  FindsEveryByte
  NothingLeftRegistered
  ReadyWhileInUse
  CleanupFreesRing
PROPERTY
  KeepsMostRecent
\* A module that was removed is not loaded again.
CHECK_DEADLOCK FALSE

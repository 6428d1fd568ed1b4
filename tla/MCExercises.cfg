CONSTANTS
  Threads = {t1, t2, t3}
  NOBODY = NOBODY
SPECIFICATION FairSpec
INVARIANTS
  TrueMeansSuccess
  OutputGoesToFile
  BlocksHandedOver
  MutexHeldWhileHolding
PROPERTIES
  EveryCallEnds
  EveryThreadReturns
\* The call returns and the threads end.
CHECK_DEADLOCK FALSE

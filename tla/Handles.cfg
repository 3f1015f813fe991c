SPECIFICATION FairSpec
CONSTANTS
  Threads = {t1, t2}
  Sessions = {s1}
  Libraries = {l1}
  Handles = {h1, h2}
  Keys = {k1, k2}
  Retrieval = {s1}
  Interrupts <- NoHandleInterrupts
  Orphan = Orphan
  None = None
INVARIANTS
  HandleReachesItsDatabase
  AllInvalidated
  EveryDatabaseTracked
  CaptureReadsOwnFailure
PROPERTIES
  LockReleased
  FinalizationEnds

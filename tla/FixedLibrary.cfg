SPECIFICATION Spec
CONSTANTS
  Threads = {t1}
  Sessions = {s1, s2}
  Libraries = {l1, l2}
  Handles = {h1}
  Keys = {k1}
  Retrieval = {}
  Interrupts <- NoInterrupts
  Orphan = Orphan
  None = None
PROPERTY LibraryFixedOnceLoaded

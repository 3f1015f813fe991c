SPECIFICATION Spec
CONSTANTS
  Threads = {t1, t2}
  Sessions = {s1, s2}
  Libraries = {l1}
  Handles = {h1}
  Keys = {k1}
  Retrieval = {s1}
  Interrupts <- AllInterrupts
  Orphan = Orphan
  None = None
SYMMETRY Symmetry
INVARIANTS
  TypeOK
  Serialized
  UsableIsComplete
PROPERTIES
  ImplementsOneShotLibrary

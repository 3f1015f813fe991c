SPECIFICATION Spec
CONSTANTS
  Order <- FourNames
  Key <- KeyOf
  Databases <- Chosen
  Objects <- Changed
  Calls <- Asks
  Interrupts = TRUE
  MaxChanges = 1
  None = None
INVARIANTS
  TypeOK
  ReadAsListed
  Accounted
  PostedWholeOrReported
  RefusedUntouched
PROPERTY EntriesKept

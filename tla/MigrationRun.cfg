SPECIFICATION Spec
CONSTANTS
  Runs = {r1}
  Paths = {p1}
  Objects <- Two
  Names = {n1, n2}
  Contents <- Varied
  Missing = "mask"
  Unsupported = "skip"
  Empty = "carrier"
  FirstDates = {}
  WrongDates = {}
  Outsiders = {"create", "remove"}
  MaxChanges = 1
  Foreign = Foreign
  Invalid = Invalid
  None = None
SYMMETRY NameSymmetry
INVARIANTS
  PublishedIsFinished
  CompleteMeansAll
  StoredReadsBack
  CollisionsFound
CHECK_DEADLOCK FALSE

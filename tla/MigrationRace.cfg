SPECIFICATION FairSpec
CONSTANTS
  Runs = {r1, r2}
  Paths = {p1}
  Objects <- One
  Names = {n1}
  Contents <- Plain
  Missing = "nan"
  Unsupported = "refuse"
  Empty = "refuse"
  FirstDates = {}
  WrongDates = {}
  Outsiders = {"create"}
  MaxChanges = 0
  Foreign = Foreign
  Invalid = Invalid
  None = None
INVARIANTS
  ClaimHeld
PROPERTIES
  NeverOverwrites
  ClaimResolved
CHECK_DEADLOCK FALSE

SPECIFICATION Spec
CONSTANTS
  Runs = {r1}
  Paths = {p1}
  Objects <- One
  Names = {n1}
  Contents <- Plain
  Missing = "nan"
  Unsupported = "refuse"
  Empty = "refuse"
  FirstDates = {}
  WrongDates = {}
  Outsiders = {"create"}
  MaxChanges = 1
  Foreign = Foreign
  Invalid = Invalid
  None = None
INVARIANT StoppedIsNotComplete
CHECK_DEADLOCK FALSE

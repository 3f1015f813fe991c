SPECIFICATION Spec
CONSTANTS
  Threads = {t1}
  Catalog <- Mixed
  Types = {"PRECISION"}
  Dated = {"MONTHLY", "ANNUAL"}
  Families = {"MONTHS", "YEARS"}
  Family <- FamilyOf
  Filters <- Asked
  None = None
INVARIANT TextBeforeOtherCalls

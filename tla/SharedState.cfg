SPECIFICATION Spec
CONSTANTS
  Threads = {t1, t2}
  Catalog <- Mixed
  Types = {"PRECISION"}
  Dated = {"MONTHLY", "ANNUAL"}
  Families = {"MONTHS", "YEARS"}
  Family <- FamilyOf
  Filters <- Asked
  None = None
SYMMETRY Symmetry
INVARIANTS
  TypeOK
  ListingExact
  OptionsNormalized
  CursorFreed
  FirstFailureRaised
  RedirectionRestored
  TextOfFailure

SPECIFICATION Spec
CONSTANTS
  Inputs <- Everything
  None = None
  Uppers <- Letters
INVARIANTS
  FlattenReadsBack
  PeriodsInverse
  ReadsAsTable
  WritesBack
  IncludeBounded

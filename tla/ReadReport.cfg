SPECIFICATION Spec
CONSTANTS
  Order <- FourNames
  Key <- KeyOf
  Databases <- Chosen
  Objects <- Changed
  Calls <- Asks
  Interrupts = TRUE
  MaxChanges = 1
  None = None
INVARIANT ReportContainsFailures

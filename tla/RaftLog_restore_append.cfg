SPECIFICATION Spec
CONSTANTS
  Truncating = TRUE
  MaxTerm = 2
  MaxIndex = 3
INVARIANTS
  AppendFits

SPECIFICATION Spec
CONSTANTS
  Truncating = FALSE
  MaxTerm = 2
  MaxIndex = 3
PROPERTIES
  AppendedIsStored

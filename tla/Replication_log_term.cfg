SPECIFICATION Spec
CONSTANTS
  MaxIndex = 2
  MaxInherited = 1
  Cap = 2
  MaxInFlight = 2
  ComparesLogTerm = FALSE
PROPERTIES
  HolderAccepts

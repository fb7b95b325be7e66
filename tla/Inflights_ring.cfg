SPECIFICATION Spec
CONSTANTS
  Cap = 3
  Indexes = {1, 2, 3, 4}
INVARIANTS
  TypeOK
  SlotsWritten
PROPERTIES
  ImplementsFifo

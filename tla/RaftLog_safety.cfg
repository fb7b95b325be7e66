SPECIFICATION Spec
CONSTANTS
  Truncating = TRUE
  MaxTerm = 2
  MaxIndex = 3
INVARIANTS
  TypeOK
  LogAgreement
  Recoverable
  SliceIsTheLog
  NextIsCommitted
  PanicsOnlyAfterRestore
  SnapshotIsCommitted
PROPERTIES
  PersistKeepsLog
  ReaderIsConsistent
  ImplementsDurableLog

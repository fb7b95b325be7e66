SPECIFICATION Spec
CONSTANTS
  Ctxs = {c1, c2, c3}
  Voters = {n1, n2, n3}
  Self = n1
  MaxIndex = 1
SYMMETRY Symmetry
INVARIANTS
  TypeOK
  QueueIsPending
  InOrder
  IndexesGrow
  AnsweredIsConfirmed

SPECIFICATION Spec
CONSTANTS
  Nodes = {n1, n2, n3}
  None = None
  InitTerms = {0, 1, 2}
  MaxTerm = 1
  Lasts <- MCLasts
  PreVoters = {n1}
SYMMETRY Symmetry
INVARIANTS
  TypeOK
  ElectionSafety
  VoteOnce
  LeaderIsUpToDate
PROPERTIES
  HardStateKeepsVotes

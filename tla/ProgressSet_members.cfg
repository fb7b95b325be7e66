SPECIFICATION Spec
CONSTANTS
  Ids = {n1, n2, n3, n4}
  Self = n1
  MaxIndex = 1
  ConfStates <- MCConfStates
SYMMETRY Symmetry
INVARIANTS
  TypeOK
  PanicsOnlyAfterPromotion
  ActiveQuorumIsFresh
  VoterIsNotDemoted
PROPERTIES
  OverlappingQuorums
  CommitSurvivesChange

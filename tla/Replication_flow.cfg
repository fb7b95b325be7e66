SPECIFICATION FairSpec
CONSTANTS
  MaxIndex = 2
  MaxInherited = 1
  Cap = 2
  MaxInFlight = 2
  ComparesLogTerm = TRUE
INVARIANTS
  TypeOK
  MatchedIsDurable
  CommittedIsLeaders
  PanicsOnlyAfterRestore
  NextInLog
  WindowReachesNext
PROPERTIES
  ImplementsAckedLog
  FollowerCatchesUp

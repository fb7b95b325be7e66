SPECIFICATION FairSpec
CONSTANTS
  Nodes = {n1, n2}
  None = None
  InitTerms = {0}
  MaxTerm = 1
  Lasts <- MCSameLasts
  PreVoters = {}
PROPERTIES
  HigherTermAdopted

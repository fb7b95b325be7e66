SPECIFICATION Spec
CONSTANTS
  Nodes = {n1, n2, n3}
  None = None
  InitTerms = {0, 1}
  MaxTerm = 1
  Lasts <- MCSameLasts
  PreVoters = {}
PROPERTIES
  UndecidedStays

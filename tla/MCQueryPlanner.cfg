CONSTANTS
  NumNodes = 4
  MaxVars = 3
  ConstId = 100
  BlockSize = 8
  Queries <- MCQueries
  StatChoices <- MCStats
SPECIFICATION Spec
INVARIANT TypeOK
INVARIANT AlternativesCoverTheirNodes
INVARIANT CostsMonotone
INVARIANT JoinKeysRequired

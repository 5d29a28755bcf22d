CONSTANTS
  NumNodes = 2
  MaxVars = 3
  ConstId = 100
  BlockSize = 8
  Queries <- MCQueries
  StatChoices <- MCStats
SPECIFICATION Spec
INVARIANT SmallerPatternDrives

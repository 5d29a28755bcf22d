CONSTANTS
  NumNodes = 3
  MaxVars = 3
  ConstId = 100
  PredId = 50
  BlockSize = 8
  Queries <- MCQueries
  StatChoices <- MCStats
SPECIFICATION CGSpec
INVARIANT CGTypeOK
INVARIANT JoinKeysWired
INVARIANT PrinterWired

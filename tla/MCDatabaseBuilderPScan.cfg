CONSTANTS
    Subjects = {1, 2}
    Predicates = {5, 6}
    Objects = {1, 3}
    MaxTriples = 4
    SegDataMax = 5
    NodeDataMax = 3
    FileGrowth = 1
    BatchSize = 2
    Datasets <- MCDatasets
    Patterns <- MCPatterns
    JunkTriples <- MCJunk
SPECIFICATION Spec
INVARIANT
    ScanRowsP

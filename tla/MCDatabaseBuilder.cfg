CONSTANTS
    Subjects = {1, 2}
    Predicates = {5, 6}
    Objects = {1, 3}
    MaxTriples = 4
    SegDataMax = 2
    NodeDataMax = 2
    FileGrowth = 1
    BatchSize = 2
    Datasets <- MCDatasets
    Patterns <- MCPatterns
    JunkTriples <- MCJunk
SPECIFICATION Spec
INVARIANTS
    TypeOK
    NoEmptySegments
    StatsMatchData
    ScanRowsKeyed
    ReadRowsKeyed
    ChainsDisjoint
    NodesInFile
    PlannerStatsSound
    EstimateMatchesScan
PROPERTY
    ScanProgress

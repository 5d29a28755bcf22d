CONSTANTS
    Keys = {0, 2, 4, 6}
    Vals = {10, 11}
    InitSize = 2
    NumKeysInit = {0}
    MaxInserts = 4
    MaxTableSize = 16
SPECIFICATION Spec
INVARIANTS
    TypeOK
    CuckooPlacement
PROPERTY
    ImplementsJoinTable

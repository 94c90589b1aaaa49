SPECIFICATION Spec
CONSTANTS
    a1 = a1
    a2 = a2
    Adapters = {a1, a2}
    Versions = {0, 1}
    Keys <- MCKeys
    Sizes = {1, 3, 5}
    BlockSets <- MCBlockSets
    Outputs = {x}
    MaxEvictions = 3
    MaxEntries = 2
    MaxBytes = 4
    Policy = "lru"
    NoLimit = NoLimit
    Missing = Missing
INVARIANTS
    TotalIsSumOfSizes
    BlocksBelongToTheirKey
PROPERTIES
    OldestGoFirst
    ImplementsBoundedStore

CONSTANTS
    a = a
    b = b
    Drivers = {d1}
    Exclusive = TRUE
    Partitions = {0}
    Ids = {a, b}
    Bodies <- MCBodies
    DimSets <- MCDimSets
    MaxRows = 2
    MaxOffset <- MCOffsets
    MaxGap = 0
    MaxCrashes = 1
    Retention = TRUE
    Rebuilds = 1
SPECIFICATION Spec
INVARIANTS
    TypeOK
    NothingLost
    UniqueKeys
    LowestOffsetWins
    DuplicatesHaveOriginal
PROPERTIES
    StateMonotone
    ImplementsLedger

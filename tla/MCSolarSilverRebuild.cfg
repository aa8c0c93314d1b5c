CONSTANTS
    a = a
    b = b
    Drivers = {d1}
    Exclusive = TRUE
    Partitions = {0}
    Ids = {a, b}
    Bodies <- MCSiteBodies
    DimSets <- MCOneDim
    MaxRows = 1
    MaxOffset <- MCRebuildOffsets
    MaxGap = 0
    MaxCrashes = 0
    Retention = TRUE
    Rebuilds = 1
SPECIFICATION FairSpec
PROPERTY RebuildCatchesUp

CONSTANTS
    a = a
    b = b
    Drivers = {d1}
    Exclusive = TRUE
    Partitions = {0}
    Ids = {a, b}
    Bodies <- MCCloudBodies
    DimSets <- MCOneDim
    MaxRows = 2
    MaxOffset <- MCCloudOffsets
    MaxGap = 1
    MaxCrashes = 1
    Retention = FALSE
    Rebuilds = 0
SPECIFICATION FairSpec
PROPERTY CatchesUp

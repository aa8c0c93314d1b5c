CONSTANTS
    a = a
    b = b
    Sites = {a, b}
    SlotsPerDay = 3
    MaxDay = 1
    Keep = 0
    Lateness = 1
    MaxCommits = 3
    MaxCrashes = 0
    Upgrades = 0
    Batches <- MCBatches
SPECIFICATION Spec
PROPERTY
    GoldKept

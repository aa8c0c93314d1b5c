CONSTANTS
    d = d
    wide = wide
    m = m
    orders = orders
    orders_sqlmesh = orders_sqlmesh
    parts = parts
    DbtRuns = {d, wide}
    SqlmeshRuns = {m}
    Tables = {orders, parts, orders_sqlmesh}
    Contested = {orders}
    Ingestions = {1, 2}
    SideBySide <- MCSideBySide
    Builds <- MCBuilds
    Listed <- MCListed
    NoTable = NoTable
    NoIngestion = NoIngestion
    MaxFailures = 1
SPECIFICATION FairSpec
INVARIANTS
    PublishedComplete
    OwnedWhenDone
    ManualOwnersSurvive
PROPERTY
    MartsOpen

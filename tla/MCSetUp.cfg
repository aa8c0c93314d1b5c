CONSTANTS
    schema = schema
    table = table
    topic = topic
    fleet = fleet
    map = map
    output = output
    layered = layered
    board = board
    Statements <- MCStatements
    Creates <- MCCreates
    Uses <- MCUses
    Once = {}
    Topics <- MCTopics
    Backoff <- MCBackoff
    Datasets <- MCDatasets
    Charts <- MCCharts
    Boards <- MCBoards
    Virtual = {map}
    DatasetOf <- MCDatasetOf
    Layers = {output}
    ShownOn <- MCShownOn
    Syncs <- MCSyncs
SPECIFICATION FairSpec
INVARIANTS
    TypeOK
    OnePerName
    EditsAreUndone
    
PROPERTIES
    LineageFollows
CHECK_DEADLOCK FALSE

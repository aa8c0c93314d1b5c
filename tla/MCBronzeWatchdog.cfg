CONSTANTS
    bronze = bronze
    Scripts = {bronze}
    Bronze = bronze
    Ids = {n1, n2, n3, n4}
    Names <- MCNames
    Nobody = Nobody
    MaxErrors <- MCErrors
SPECIFICATION FairWatchSpec
INVARIANTS
    OneBronze
    FewKept
PROPERTIES
    NewestKept
    BronzeRestarts

CONSTANTS
    silver = silver
    gold = gold
    Scripts = {silver, gold}
    Silver = silver
    Gold = gold
    n1 = n1
    n2 = n2
    n3 = n3
    Names <- MCNames
    Ids = {n1, n2, n3}
    Nobody = Nobody
    MaxErrors <- MCErrors
SPECIFICATION FairSpec
INVARIANTS
    DriversPerError
PROPERTIES
    RunsEnd
    GoldFollows

\* A record lives two days, deployments switch between generators.
CONSTANTS
    s1 = s1
    k1 = k1
    Sites = {s1}
    Stations = {}
    Kreise = {k1}
    CodeOf <- OneSite
    NoCode = NoCode
    Retention = 1
    Skew <- SitesLate
    MaxTime = 2
    MaxDeploys = 2
    MaxCrashes = 1
SPECIFICATION FairSpec
INVARIANT TypeOK
PROPERTIES
    KnownStays
    CodeSticks
    NeverOlder
    Complete

CONSTANTS
    Runners = {r1, r2}
    MaxStops = 1
    MaxUndos = 1
SPECIFICATION FairSpec
INVARIANTS
    LoggedInOrder
PROPERTIES
    StartsMigrated
    ImplementsVersion
    UpCompletes

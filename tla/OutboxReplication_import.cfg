SPECIFICATION FairSpec
CONSTANTS
    Drivers = {d1, d2}
    PageLimit = 2
    MaxRecords = 2
    MaxFailures = 1
INVARIANT ProjectedOnce
INVARIANT CompleteHasRecords
PROPERTY DrainSettles

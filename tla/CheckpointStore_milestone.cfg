SPECIFICATION Spec
CONSTANTS
    Positions = {1, 2}
    Losses = {1, 2}
    NoLoss = 0
    Milestones = {1}
    Terminal = 2
    GenerationBytes = 2
    MetadataBytes = 4
    Room = 18
    MaxGeneration = 5
    MaxCrashes = 1
INVARIANT TypeOK
INVARIANT PointersResolve
INVARIANT PointersAgree
INVARIANT KeepSetSurvives
INVARIANT PlanFits
INVARIANT ScanFindsNewest
PROPERTY RecoverySpec

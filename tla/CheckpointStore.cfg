SPECIFICATION Spec
CONSTANTS
    Positions = {1, 2}
    Losses = {1, 2}
    NoLoss = 0
    Milestones = {}
    Terminal = 2
    GenerationBytes = 2
    MetadataBytes = 4
    Room = 14
    MaxGeneration = 4
    MaxCrashes = 2
INVARIANT PointersResolve
INVARIANT PointersAgree
INVARIANT KeepSetSurvives
INVARIANT PlanFits
INVARIANT ScanFindsNewest
PROPERTY RecoverySpec

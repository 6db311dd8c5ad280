SPECIFICATION Spec
CONSTANTS
    Positions = {1, 2}
    Losses = {1, 2}
    NoLoss = 0
    Milestones = {}
    Terminal = 2
    GenerationBytes = 2
    MetadataBytes = 1
    Room = 10
    MaxGeneration = 4
    MaxCrashes = 1
INVARIANT PlanFitsMinimum

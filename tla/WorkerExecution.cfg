SPECIFICATION FairSpec
CONSTANTS
    Attempts = {a1}
    Executors = {e1, e2}
    Rpcs = {r1}
    MaxCrashes = 2
    Nobody = Nobody
INVARIANT TrainOnce
INVARIANT UnknownMeansGone
PROPERTY TrainsUnderReceipt
PROPERTY ContractSpec
PROPERTY CancelSettles

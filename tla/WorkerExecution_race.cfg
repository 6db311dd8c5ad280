SPECIFICATION Spec
CONSTANTS
    Attempts = {a1}
    Executors = {e1, e2}
    Rpcs = {r1, r2}
    MaxCrashes = 2
    Nobody = Nobody
SYMMETRY ProcessSymmetry
INVARIANT TypeOK
INVARIANT TrainOnce
INVARIANT UnknownMeansGone
PROPERTY TrainsUnderReceipt
PROPERTY ContractSpec

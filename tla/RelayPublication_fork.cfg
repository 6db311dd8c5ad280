SPECIFICATION Spec
CONSTANTS
    Attempts = {a1}
    Procs = {p1, p2}
    Cancels = TRUE
    MaxSaves = 0
    MaxFailures = 0
    Nobody = Nobody
INVARIANT ChainStaysReadable

SPECIFICATION Spec
CONSTANTS
    Attempts = {a1}
    Procs = {p1, p2, p3}
    Cancels = TRUE
    MaxSaves = 2
    MaxFailures = 2
    Nobody = Nobody
INVARIANT FrontierIsCommitted
INVARIANT ForkedNeverBegan
PROPERTY RecoveryPointSurvives

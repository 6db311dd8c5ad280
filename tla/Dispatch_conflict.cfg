SPECIFICATION Spec
CONSTANTS
    Attempts = {a1}
    Workers = {w1}
    NoWorker = NoWorker
    Controllers = {c1}
    Campaigns = {}
    Operators = {o1}
    Commands = {"recover"}
    Relayed = TRUE
    MaxCommits = 1
    MaxFailures = 0
    Observations = {1}
    NoObservation = 0
    Nobody = Nobody
INVARIANT ConflictBlocksResume

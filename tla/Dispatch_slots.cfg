SPECIFICATION Spec
CONSTANTS
    Attempts = {a1, a2}
    Workers = {w1}
    NoWorker = NoWorker
    Controllers = {c1}
    Campaigns = {}
    Operators = {o1}
    Commands = {"resume"}
    Relayed = FALSE
    MaxCommits = 0
    MaxFailures = 1
    Observations = {}
    NoObservation = 0
    Nobody = Nobody
INVARIANT OneAttemptPerWorker

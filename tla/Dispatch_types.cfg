SPECIFICATION Spec
CONSTANTS
    Attempts = {a1}
    Workers = {w1}
    NoWorker = NoWorker
    Controllers = {c1}
    Campaigns = {}
    Operators = {o1}
    Commands = {"cancel"}
    Relayed = FALSE
    MaxCommits = 0
    MaxFailures = 2
    Observations = {}
    NoObservation = 0
    Nobody = Nobody
INVARIANT TypeOK

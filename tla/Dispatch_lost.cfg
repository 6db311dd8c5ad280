SPECIFICATION FairSpec
CONSTANTS
    Attempts = {a1}
    Workers = {w1}
    NoWorker = NoWorker
    Controllers = {c1}
    Campaigns = {}
    Operators = {}
    Commands = {}
    Relayed = FALSE
    MaxCommits = 0
    MaxFailures = 2
    Observations = {}
    NoObservation = 0
    Nobody = Nobody
PROPERTY AssignedSettles

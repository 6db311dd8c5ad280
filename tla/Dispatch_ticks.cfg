SPECIFICATION Spec
CONSTANTS
    Attempts = {a1}
    Workers = {w1, w2}
    NoWorker = NoWorker
    Controllers = {c1}
    Campaigns = {k1}
    Operators = {}
    Commands = {}
    Relayed = FALSE
    MaxCommits = 0
    MaxFailures = 2
    Observations = {}
    NoObservation = 0
    Nobody = Nobody
INVARIANT LaunchFollowsAssignment
PROPERTY EvidenceIsFinal

SPECIFICATION Spec
CONSTANTS
    Attempts = {a1}
    Workers = {w1}
    NoWorker = NoWorker
    Controllers = {c1}
    Campaigns = {}
    Operators = {o1}
    Commands = {"recover", "collect"}
    Relayed = TRUE
    MaxCommits = 2
    MaxFailures = 1
    Observations = {1, 2}
    NoObservation = 0
    Nobody = Nobody
INVARIANT CompleteIsPublished
INVARIANT EvidenceIsGenuine
INVARIANT StatusFollowsEvidence
INVARIANT OneKindOfEvidence
PROPERTY EvidenceIsFinal

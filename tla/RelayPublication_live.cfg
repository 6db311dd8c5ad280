SPECIFICATION FairSpec
CONSTANTS
    Attempts = {a1, a2}
    Procs = {p1, p2}
    Cancels = FALSE
    MaxSaves = 0
    MaxFailures = 1
    Nobody = Nobody
INVARIANT TerminalEndsChain
PROPERTY TerminalIsPublished
PROPERTY PreparedMovesOn

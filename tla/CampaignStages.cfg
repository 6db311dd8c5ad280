SPECIFICATION FairSpec
CONSTANTS
    source = source
    plan = plan
    gate = gate
    run = run
    Order <- MCOrder
    Kind <- MCKind
    Requires <- MCRequires
    Bind <- MCBind
    Outputs = {o1, o2}
    NoOutput = NoOutput
    MaxStops = 3
    MaxLosses = 1
INVARIANT CommittedNeverRerun
INVARIANT RunsAreApproved
INVARIANT ReceiptsCohere
PROPERTY NeverReplaced
PROPERTY RunSettles
CHECK_DEADLOCK FALSE

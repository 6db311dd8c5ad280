SPECIFICATION Spec
CONSTANTS
    source = source
    plan = plan
    gate = gate
    run = run
    Order <- MCOrder
    Kind <- MCKind
    Requires <- MCRequires
    Bind <- MCBind
    Outputs = {o1, o2}
    NoOutput = NoOutput
    MaxStops = 4
    MaxLosses = 1
INVARIANT TypeOK
INVARIANT CommittedNeverRerun
INVARIANT RunsAreApproved
INVARIANT ReceiptsCohere
PROPERTY NeverReplaced
CHECK_DEADLOCK FALSE

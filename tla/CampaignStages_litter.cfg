SPECIFICATION Spec
CONSTANTS
    source = source
    plan = plan
    gate = gate
    run = run
    Order <- MCOrder
    Kind <- MCKind
    Requires <- MCRequires
    Bind <- MCBind
    Outputs = {o1, o2}
    NoOutput = NoOutput
    MaxStops = 3
    MaxLosses = 1
INVARIANT ResumeReconciles
CHECK_DEADLOCK FALSE

SPECIFICATION Spec
CONSTANTS
    Attempts = {a1, a2}
    Drivers = {d1, d2}
    Operators = {o1}
    Nobody = Nobody
    NoAttempt = NoAttempt
SYMMETRY DeliverySymmetry
INVARIANT IssuedPerRecord
INVARIANT OneLiveExec
INVARIANT ReleasedIsOver
CHECK_DEADLOCK FALSE

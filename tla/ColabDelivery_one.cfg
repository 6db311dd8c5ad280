SPECIFICATION Spec
CONSTANTS
    Attempts = {a1, a2}
    Drivers = {d1}
    Operators = {o1}
    Nobody = Nobody
    NoAttempt = NoAttempt
INVARIANT TypeOK
INVARIANT IssuedPerRecord
INVARIANT NeverReissued
INVARIANT OneLiveExec
INVARIANT ReleasedIsOver
CHECK_DEADLOCK FALSE

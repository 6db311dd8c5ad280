SPECIFICATION Spec
CONSTANTS
    Attempts = {a1}
    Drivers = {d1, d2}
    Operators = {}
    Nobody = Nobody
    NoAttempt = NoAttempt
INVARIANT NeverReissued
CHECK_DEADLOCK FALSE

SPECIFICATION Spec
CONSTANTS
    Attempts = {a1, a2}
    Drivers = {d1}
    Operators = {o1}
    Nobody = Nobody
    NoAttempt = NoAttempt
CHECK_DEADLOCK FALSE
PROPERTY IssuedOnPrepared

SPECIFICATION Spec
CONSTANTS
    Drivers = {d1, d2}
    PageLimit = 2
    MaxRecords = 1
    MaxFailures = 0
PROPERTY ImportIsIdempotent

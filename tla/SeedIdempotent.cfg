SPECIFICATION Spec
CONSTANTS
    Processes = {p1, p2}
PROPERTIES
    SeedIsIdempotent
CHECK_DEADLOCK FALSE

SPECIFICATION Spec
CONSTANTS
    MAX_STREAMS = 1
    MAX_IDS = 1
    WINDOW_CELLS = 2
    QUEUE = 2
    MAX_CONTROLS = 2
    BUCKET = 1
    FixedWindow = FALSE
    MaxData <- Both21
    Faults = {"write"}
INVARIANTS
    FailureStaysLocal
CHECK_DEADLOCK FALSE

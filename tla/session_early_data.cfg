SPECIFICATION Spec
CONSTANTS
    MAX_STREAMS = 1
    MAX_IDS = 1
    WINDOW_CELLS = 1
    QUEUE = 1
    MAX_CONTROLS = 2
    BUCKET = 1
    FixedWindow = FALSE
    MaxData <- Both11
    Faults = {}
INVARIANTS
    OpenedBeforeData
CHECK_DEADLOCK FALSE

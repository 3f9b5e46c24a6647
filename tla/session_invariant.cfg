SPECIFICATION Spec
CONSTANTS
    MAX_STREAMS = 2
    MAX_IDS = 2
    WINDOW_CELLS = 1
    QUEUE = 1
    MAX_CONTROLS = 2
    BUCKET = 1
    FixedWindow = FALSE
    MaxData <- NoData
    Faults = {"give_up"}
INVARIANTS
    SessionInv
CHECK_DEADLOCK FALSE

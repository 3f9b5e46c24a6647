SPECIFICATION Spec
CONSTANTS
    MAX_STREAMS = 2
    MAX_IDS = 2
    WINDOW_CELLS = 1
    QUEUE = 1
    MAX_CONTROLS = 4
    BUCKET = 1
    FixedWindow = FALSE
    MaxData <- Upload1
    Faults = {}
INVARIANTS
    NoFalseAccusation
CHECK_DEADLOCK FALSE

SPECIFICATION Spec
CONSTANTS
    MAX_STREAMS = 1
    MAX_IDS = 2
    WINDOW_CELLS = 1
    QUEUE = 1
    MAX_CONTROLS = 1
    BUCKET = 1
    FixedWindow = TRUE
    MaxData <- NoData
    Faults = {"give_up"}
INVARIANTS
    StreamBudget
PROPERTIES
    ClosedForGood
CHECK_DEADLOCK FALSE

SPECIFICATION Spec
CONSTANTS
    MAX_STREAMS = 1
    MAX_IDS = 1
    WINDOW_CELLS = 1
    QUEUE = 1
    MAX_CONTROLS = 2
    BUCKET = 2
    FixedWindow = FALSE
    MaxData <- Both11
    Faults = {"abort", "give_up", "read", "write"}
INVARIANTS
    NoHalfOpenStream
    
CHECK_DEADLOCK FALSE

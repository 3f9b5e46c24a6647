SPECIFICATION FairSpec
CONSTANTS
    MAX_STREAMS = 1
    MAX_IDS = 1
    WINDOW_CELLS = 1
    QUEUE = 1
    MAX_CONTROLS = 2
    BUCKET = 1
    FixedWindow = FALSE
    MaxData <- Upload1
    Faults = {"write"}
PROPERTIES
    OpenAnswered
    
    StreamRetires
    FinishCompletes
CHECK_DEADLOCK FALSE

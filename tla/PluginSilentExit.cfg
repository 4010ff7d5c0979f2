SPECIFICATION FairWorkerSpec
CONSTANTS
    MaxPosts = 3
    ExitCodes = {0, 1}
PROPERTY Settles
CHECK_DEADLOCK FALSE

SPECIFICATION FairWorkerSpec
CONSTANTS
    MaxPosts = 3
    ExitCodes = {1}
INVARIANT FirstMessageDecides
PROPERTY Settles
CHECK_DEADLOCK FALSE

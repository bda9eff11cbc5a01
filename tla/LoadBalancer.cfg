CONSTANTS
    numServers = 2
    parallelOp = 2
    hcRequest = 2
    Client = {k1, k2}
    Free = Free
    Failed = Failed
    Parts = 1
    Scenes <- MCScenes
SPECIFICATION FairSpec
INVARIANTS
    UsesOpenSockets
    BestOfSeen
PROPERTY EventuallyEnded
CHECK_DEADLOCK FALSE

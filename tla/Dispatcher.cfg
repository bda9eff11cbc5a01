CONSTANTS
    threadNum = 3
    Sockd = {d1, d2}
    Free = Free
    Failed = Failed
    MaxAccepted = 3
    MaxFailed = 1
SPECIFICATION FairSpec
INVARIANTS SingleOwner LossRetiresWorker
PROPERTIES ServesUndisturbed RetiredForever AssignedIsFinished
CHECK_DEADLOCK FALSE

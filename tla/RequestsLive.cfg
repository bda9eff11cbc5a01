CONSTANTS
    Worker = {w1, w2}
    NoWorker = NoWorker
    plain = plain
    dir = dir
    secret = secret
    File = {plain}
    healthcheck = healthcheck
    kind <- Kinds
    Request <- PutAndGet
    Nothing = Nothing
    MaxRequests = 3
    FdLimit = 3
    lf = TRUE
SPECIFICATION FairSpecBodies
PROPERTIES EveryConnectionClosed
CHECK_DEADLOCK FALSE

CONSTANTS
    Worker = {w1, w2}
    NoWorker = NoWorker
    plain = plain
    dir = dir
    secret = secret
    File = {plain, dir, secret}
    healthcheck = healthcheck
    kind <- Kinds
    Request <- AllRequests
    Nothing = Nothing
    MaxRequests = 3
    FdLimit = 2
    lf = TRUE
SPECIFICATION Spec
SYMMETRY Symmetric
INVARIANTS TypeOK LogDisjoint CountersMatch
PROPERTIES ImplementsFileStore
CHECK_DEADLOCK FALSE

CONSTANTS
    Lengths <- SomeLengths
    LineLengths <- FirstLines
    plain = plain
    short = short
    dir = dir
    secret = secret
    lost = lost
    File = {plain, short, dir, secret, lost}
    kind <- Kinds
    Request <- Requests
    Nothing = Nothing
    MaxConn = 3
    FdLimit = 2
    Buffer = 2
    Lines <- CommandLines
    MaxLines = 3
    MaxFd = 8
    hz = 3
    stathz = 2
    Width = 20
    Delay = {1, 29, 1020, 1024}
    Nice <- BothNice
    Interact = {0, 17, 30, 60}
    Ran = {0, 9, 31}
    MaxSteps = 7
    UintDigits = 16
    Inputs <- AllInputs
SPECIFICATION SeqSpec
INVARIANTS
    FitsReserved
    AnsweredForItself BodiesWhole
    RunsAsWritten EndOfInputComes
    PriorityInRange HistoryBounded
    FunctionsRight
CHECK_DEADLOCK FALSE

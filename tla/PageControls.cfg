\* Memory is two pages, of which two should be free; the rest are bounds.
CONSTANTS
    Proc = {"p"}
    TotalPages = 2
    FreeMin = 1
    FreeTarget = 2
    WakeupThresh = 2
    BackgroundTarget = 1
    BackgroundMax = 1
    BackgroundRate = 1
    InactiveTarget = 1
    LaundryWeight = 3
    LaunderCycles = 1
    PidOutputs = {0, 1}
    MaxAllocs = 1
    MaxFreed = 1
    UintDigits = 4
    Domain = {"d1", "d2"}
    OomSeq = 2
    ProcLists <- MCProcLists
    MaxExits = 1
    SwapProcs <- MCSwapProcs
    Hz = 1
    TickMod = 3
    MaxAttempts = 2
    EarlyAttempts = 1
SPECIFICATION Spec
INVARIANTS
    NobodySleepsOnWork
    OomConsistent
PROPERTIES
    KillsByQuorum
    Progress

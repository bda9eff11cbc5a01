\* Two pages, a page daemon and a launderer, one interference of others.
CONSTANTS
    Page = {1, 2}
    Object = {"o"}
    ActInit = 1
    ActAdvance = 1
    ActDecline = 1
    ActMax = 2
    ActModulus = 4
    Thread = {"pd", "ld"}
    MaxNoise = 1
    MaxPasses = 1
    BatchSize = 2
    PageCount = 2
    Shortages = {0, 1}
    Scenes <- MCScenes
SPECIFICATION Spec
INVARIANTS
    NoSilentLoss
    QueuesConsistent
    NoStrayPage
    ClusterProtected
PROPERTIES
    ReclaimSpec

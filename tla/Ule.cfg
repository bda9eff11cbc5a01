CONSTANTS
    t1 = t1
    t2 = t2
    t3 = t3
    NoThread = NoThread
    RQ_NQS = 2
    SortedIndex = {1}
    Scenes <- MCScenes
SPECIFICATION Spec
INVARIANTS
    QueuesConsistent
    NoIdleWithWork
    PlacedWhereAllowed

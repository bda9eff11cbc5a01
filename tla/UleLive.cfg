CONSTANTS
    t1 = t1
    t2 = t2
    t3 = t3
    NoThread = NoThread
    RQ_NQS = 4
    SortedIndex = {1}
    Scenes <- LiveScenes
SPECIFICATION FairSpec
PROPERTY EventuallyRuns

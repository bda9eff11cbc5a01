CONSTANTS
    Thread = {t1, t2, t3}
    NoThread = NoThread
    Cpu = {c1}
    NOCPU = NOCPU
    Draw <- DrawSome
    Pri <- PriMixed
    Policies <- AllPolicies
    Preempted = {TRUE, FALSE}
    Fuzz = 1
SPECIFICATION OnceRunSpec
SYMMETRY Symmetric
INVARIANTS
    TypeOK QueuesConsistent RunnableIsLinked OrderKept

CONSTANTS
    Thread = {t1, t2, t3}
    Pair = {t1, t2}
    NoThread = NoThread
    Cpu = {c1, c2}
    NOCPU = NOCPU
    Draw <- DrawSome
    Pri = {121}
    Policies <- FixedFifo
    Preempted = {FALSE}
    Fuzz = 2
SPECIFICATION SmallSpec
PROPERTIES EventuallyChosen ImplementsAtomicAdd

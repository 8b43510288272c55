SPECIFICATION FairSpec
CONSTANTS
    Threads = {t1, t2}
    Boot = t1
    Cores = {c1, c2}
    BootCore = c1
    Prios = {1}
    NoThread = NoThread
    NoCore = NoCore
    NoPoint = NoPoint
INVARIANTS
    TypeOK
    OnOneCore
    RunQueueExact
PROPERTIES
    ImplementsThreadLife
    JoinReturns
    SleepReturns
    KernelIsLeft

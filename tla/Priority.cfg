SPECIFICATION ControlSpec
CONSTANTS
    Threads = {t1, t2, t3}
    Boot = t1
    Cores = {c1}
    BootCore = c1
    Prios = {1, 2}
    NoThread = NoThread
    NoCore = NoCore
    NoPoint = NoPoint
    Calls = {"setPriority", "setCancelState"}
SYMMETRY Symmetry
INVARIANTS
    WaitQueueExact
    ControlNeverSpinsAlone
    HighestRuns
PROPERTY JoinGetsValue

SPECIFICATION ControlSpec
CONSTANTS
    Threads = {t1, t2}
    Boot = t1
    Cores = {c1, c2}
    BootCore = c1
    Prios = {1, 2}
    NoThread = NoThread
    NoCore = NoCore
    NoPoint = NoPoint
    Calls = {"setPriority"}
INVARIANT OnOneCore

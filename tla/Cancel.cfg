SPECIFICATION ControlSpec
CONSTANTS
    Threads = {t1, t2, t3}
    Boot = t1
    Cores = {c1}
    BootCore = c1
    Prios = {1}
    NoThread = NoThread
    NoCore = NoCore
    NoPoint = NoPoint
    Calls = {"start", "cancel", "setCancelType"}
SYMMETRY Symmetry
INVARIANTS
    NoLostWakeup
    CallerIsRunning

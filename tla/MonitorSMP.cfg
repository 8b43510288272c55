SPECIFICATION Spec
CONSTANTS
    Threads = {t1, t2, t3}
    Timer = timer
    Monitors = {1}
    Cores = 3
    Prios = {1, 2}
    MaxDepth = 2
    Calls = {"tryLock", "wait", "notify", "exit"}
    None = None
SYMMETRY Symmetry
INVARIANTS
    HolderOwns
    NobodyForgotten
    NoRingOfLocks
PROPERTY NotifyWakesAll
CHECK_DEADLOCK FALSE

SPECIFICATION Spec
CONSTANTS
    Threads = {t1, t2, t3}
    Timer = timer
    Monitors = {1, 2}
    Cores = 1
    Prios = {1, 2}
    MaxDepth = 1
    Calls = {"wait", "timedWait", "notify", "setPriority", "exit"}
    None = None
SYMMETRY Symmetry
INVARIANTS
    QueuesExact
    ListedOnce
    PropagatesToOwner
    InheritanceExact
    TimeoutWakes
CHECK_DEADLOCK FALSE

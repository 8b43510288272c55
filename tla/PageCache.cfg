SPECIFICATION Spec
CONSTANTS
    t1 = t1
    t2 = t2
    Pages = {p1, p2}
    Sectors = {s1}
    MaxSize = 2
    Threads = {t1, t2}
    Updater = u
    Calls <- AllCalls
    Allow = {}
    None = None
INVARIANTS
    OnePagePerOffset
    HeldStays
    RefExact
    ListsExact
    Coherent
CHECK_DEADLOCK FALSE

SPECIFICATION Spec
CONSTANTS
    CountOfClusters = 2
    BytsPerClus = 2
    MaxSize = 3
    Slots = {0, 1}
    Names = {a, b}
    Streams = {1, 2, 3}
    Threads = {t1, t2}
    Allow = {}
    None = None
SYMMETRY Symmetry
VIEW View
INVARIANT
    ChainsSound
    FreeSpaceExact
    HintIsRight
    BoundWhileOpen
    OnlyEmbraceStops
CHECK_DEADLOCK FALSE

\* Two bytes in two segments that may arrive out of order.
SPECIFICATION Spec
CONSTANTS
    Clients = {c1}
    Backlog = 1
    ClientBytes = 2
    ServerBytes = 0
    R2 = 1
    Room = 3
    Unreliable = TRUE
    Allow = {"gap"}
INVARIANT StreamIntact
VIEW View
CHECK_DEADLOCK FALSE

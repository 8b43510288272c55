\* rxmitTimer goes off while send() ends.
SPECIFICATION Spec
CONSTANTS
    Clients = {c1}
    Backlog = 1
    ClientBytes = 1
    ServerBytes = 0
    R2 = 1
    Room = 2
    Unreliable = TRUE
    Allow = {"sent"}
INVARIANT FinIsTimed
VIEW View
CHECK_DEADLOCK FALSE

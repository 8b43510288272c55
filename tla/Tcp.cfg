\* One connection over a network that loses, duplicates and delays segments; rxmitTimer
\* goes off outside send().
SPECIFICATION Spec
CONSTANTS
    Clients = {c1}
    Backlog = 1
    ClientBytes = 2
    ServerBytes = 0
    R2 = 1
    Room = 2
    Unreliable = TRUE
    Allow = {}
INVARIANTS StreamIntact EndsAgree FinIsLast AnswerIsTimed
VIEW View
CHECK_DEADLOCK FALSE

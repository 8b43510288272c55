\* Three threads, nesting up to two deep: enough for a holder, a thread in
\* the middle of wait() and one at the exchange.
SPECIFICATION FairSpec
CONSTANTS
    Threads = {t1, t2, t3}
    NoThread = NoThread
    MaxDepth = 2
INVARIANT HolderOwns
PROPERTIES ImplementsReentrantLock LockNeverWedges

--------------------------- MODULE ReentrantLock ---------------------------
(***************************************************************************)
(* What SpinLock promises its callers: a lock that one thread at a time    *)
(* holds, that its holder may take again, and that is free again after as  *)
(* many releases as there were acquisitions.                               *)
(***************************************************************************)
EXTENDS Naturals

CONSTANTS Threads, MaxDepth

VARIABLE depth      \* how many times each thread holds the lock

vars == depth

Init == depth = [t \in Threads |-> 0]

Acquire(t) ==
    /\ \A u \in Threads \ {t} : depth[u] = 0
    /\ depth[t] < MaxDepth
    /\ depth' = [depth EXCEPT ![t] = @ + 1]

Release(t) ==
    /\ depth[t] > 0
    /\ depth' = [depth EXCEPT ![t] = @ - 1]

Next == \E t \in Threads : Acquire(t) \/ Release(t)

Spec == Init /\ [][Next]_vars
=============================================================================

------------------------------- MODULE Monitor -------------------------------
(***************************************************************************)
(* Thread::Monitor (port/monitor.cpp): a reentrant monitor with a          *)
(* condition variable and with priority inheritance, used by threads on    *)
(* several cores.  It is built on two rendezvous points, the one where     *)
(* threads wait for the monitor and the condition variable, and on the     *)
(* lock of each thread.                                                    *)
(*                                                                         *)
(* Each thread has a program counter; the context switch is what Dispatch  *)
(* and ThreadLife say of it, here a thread that leaves its core and may    *)
(* come back once it is runnable.  Kernel code is not preempted, so at     *)
(* most Cores threads are in it; with one core it is one.  The timer       *)
(* interrupt of a timed wait is a process of its own.  A thread that is    *)
(* RUNNABLE and one that is RUNNING are treated alike by monitors, and are *)
(* both "ready".                                                           *)
(***************************************************************************)
EXTENDS Integers, FiniteSets, SequencesExt, Lists

CONSTANTS
    Threads,
    Timer,      \* the timer interrupt
    Monitors,   \* a set of numbers: the order in which clients nest them
    Cores,      \* how many cores there are
    Prios,      \* IThread.idl:39: from Lowest to Highest
    MaxDepth,   \* how deep a thread nests one monitor
    Calls,      \* the calls that are made, a subset of AllCalls
    None

AllCalls == {"tryLock", "wait", "timedWait", "notify", "setPriority", "exit"}

LockPoint(m) == <<"rendezvous", m>>
CvPoint(m) == <<"cv", m>>
Points == {"rendezvous", "cv"} \X Monitors

ASSUME MonitorAssumption ==
    /\ Timer \notin Threads
    /\ None \notin Threads \cup {Timer} \cup Monitors \cup Points
    /\ Monitors \subseteq Nat
    /\ Prios \subseteq Nat /\ \E e \in Prios : \A f \in Prios : f <= e
    /\ MaxDepth \in Nat \ {0}
    /\ Calls \subseteq AllCalls

Procs == Threads \cup {Timer}

VARIABLES
    \* Monitor
    owner, lockCount,
    \* Rendezvous
    rlock, queue,
    \* Thread
    state, base, prio, rendezvous,
    monitor,        \* the monitor the thread is trying to lock
    monitorList,    \* the monitors it owns
    tlock,
    alarm,          \* of a timed wait: "none", "pending" or "fired"
    \* what each process executes
    pc,
    pt,             \* the rendezvous point worked on; pt[2] is the monitor
    who,            \* another thread that is waited for or updated
    got,            \* the monitors that resetPriority() has locked
    ret,            \* where updatePriority() returns to
    count,          \* realCount of wait(), zero outside wait()
    depth           \* how many times each thread knows it holds each monitor

monitorVars == <<owner, lockCount>>
pointVars == <<rlock, queue>>
sleepVars == <<state, rendezvous>>
prioVars == <<base, prio>>
local == <<who, got, ret, count>>
vars == <<monitorVars, pointVars, sleepVars, prioVars, monitor, monitorList,
          tlock, alarm, pc, pt, local, depth>>

Init ==
    /\ owner = [m \in Monitors |-> None]
    /\ lockCount = [m \in Monitors |-> 0]
    /\ rlock = [r \in Points |-> None]
    /\ queue = [r \in Points |-> <<>>]
    /\ state = [t \in Threads |-> "ready"]
    /\ base \in [Threads -> Prios]
    /\ prio = base
    /\ rendezvous = [t \in Threads |-> None]
    /\ monitor = [t \in Threads |-> None]
    /\ monitorList = [t \in Threads |-> <<>>]
    /\ tlock = [t \in Threads |-> None]
    /\ alarm = [t \in Threads |-> "none"]
    /\ pc = [p \in Procs |-> "thread"]
    /\ pt = [p \in Procs |-> None]
    /\ who = [p \in Procs |-> None]
    /\ got = [p \in Procs |-> {}]
    /\ ret = [p \in Procs |-> "thread"]
    /\ count = [t \in Threads |-> 0]
    /\ depth = [t \in Threads |-> [m \in Monitors |-> 0]]

-----------------------------------------------------------------------------
At(p, place) == pc[p] = place
Goto(p, place) == pc' = [pc EXCEPT ![p] = place]
Free(lock) == lock = None
LockThread(t, p) == tlock' = [tlock EXCEPT ![t] = p]
LockAt(r, p) == rlock' = [rlock EXCEPT ![r] = p]
Work(p, r) == pt' = [pt EXCEPT ![p] = r]
Return(p) == Goto(p, "thread") /\ Work(p, None)

(* Operators whose comment begins with "Mistake" are not part of the model:  *)
(* each is the operator that follows it with one plausible error.            *)

Without(s, x) == Only(s, ToSet(s) \ {x})

(* A process enters kernel code, or a woken thread gets back into it, when a *)
(* core is not busy there.                                                   *)
InKernel(p) == pc[p] \notin {"thread", "waiting", "dead"}
CoreFree == Cardinality({p \in Procs : InKernel(p)}) < Cores
Enter(p, place) == At(p, "thread") /\ CoreFree /\ Goto(p, place)

(* Queue::addPrio(). *)
InsertPrio(q, t, p) ==
    LET lower == {i \in 1 .. Len(q) : prio[q[i]] < p}
    IN  InsertAt(q, IF lower = {} THEN Len(q) + 1 ELSE Min(lower), t)

(* Rendezvous::getPriority(): that of the first thread, or the lowest. *)
QueuePriority(m) ==
    LET q == queue[LockPoint(m)]
    IN  IF q = <<>> THEN Min(Prios) ELSE prio[q[1]]

-----------------------------------------------------------------------------
(* Monitor::lock().  Clients nest monitors in their order, so that they do   *)
(* not deadlock (which condLock() asserts at its end).                       *)
CallLock(t, m) ==
    /\ Enter(t, "sleep")
    /\ depth[t][m] < MaxDepth
    /\ \A n \in Monitors : n > m => depth[t][n] = 0
    /\ Work(t, LockPoint(m))
    /\ UNCHANGED <<monitorVars, pointVars, sleepVars, prioVars, monitor,
                   monitorList, tlock, alarm, local, depth>>

(* Mistake: the thread still seems to be trying to lock the monitor. *)
LockTakeKeepsMonitor(t) ==
    LET m == pt[t][2] IN
    /\ At(t, "sleep")
    /\ pt[t] = LockPoint(m)
    /\ Free(rlock[pt[t]])
    /\ owner[m] \in {None, t}
    /\ owner' = [owner EXCEPT ![m] = t]
    /\ lockCount' = [lockCount EXCEPT ![m] = @ + 1]
    /\ monitorList' = [monitorList EXCEPT
           ![t] = IF owner[m] = None THEN Append(@, m) ELSE @]
    /\ \/ /\ count[t] = 0
          /\ depth' = [depth EXCEPT ![t][m] = @ + 1]
          /\ Return(t)
       \/ count[t] > 0 /\ Goto(t, "restore") /\ UNCHANGED <<pt, depth>>
    /\ UNCHANGED <<pointVars, sleepVars, prioVars, monitor, tlock, alarm,
                   local>>

(* Rendezvous::sleep() and condLock(): the monitor is free, or the thread's  *)
(* own.  From wait() the thread goes on to restore the count.                *)
LockTake(t) ==
    LET m == pt[t][2] IN
    /\ At(t, "sleep")
    /\ pt[t] = LockPoint(m)
    /\ Free(rlock[pt[t]])
    /\ owner[m] \in {None, t}
    /\ owner' = [owner EXCEPT ![m] = t]
    /\ lockCount' = [lockCount EXCEPT ![m] = @ + 1]
    /\ monitor' = [monitor EXCEPT ![t] = None]
    /\ monitorList' = [monitorList EXCEPT
           ![t] = IF owner[m] = None THEN Append(@, m) ELSE @]
    /\ \/ /\ count[t] = 0
          /\ depth' = [depth EXCEPT ![t][m] = @ + 1]
          /\ Return(t)
       \/ count[t] > 0 /\ Goto(t, "restore") /\ UNCHANGED <<pt, depth>>
    /\ UNCHANGED <<pointVars, sleepVars, prioVars, tlock, alarm, local>>

LockContend(t) ==
    /\ At(t, "sleep")
    /\ pt[t][1] = "rendezvous"
    /\ Free(rlock[pt[t]])
    /\ owner[pt[t][2]] \notin {None, t}
    /\ LockAt(pt[t], t)
    /\ monitor' = [monitor EXCEPT ![t] = None]
    /\ Goto(t, "inherit")
    /\ UNCHANGED <<monitorVars, queue, sleepVars, prioVars, monitorList, tlock,
                   alarm, pt, local, depth>>

(* The owner inherits the priority of the thread.  Lock the thread; *)
Inherit(t) ==
    /\ At(t, "inherit")
    /\ Free(tlock[t])
    /\ LockThread(t, t)
    /\ Goto(t, "inheritOwner")
    /\ UNCHANGED <<monitorVars, pointVars, sleepVars, prioVars, monitor,
                   monitorList, alarm, pt, local, depth>>

Effective(t) == Max({QueuePriority(pt[t][2]), prio[t]})

(* lock the owner, whose priority may do as it is; *)
InheritNothing(t) ==
    LET o == owner[pt[t][2]] IN
    /\ At(t, "inheritOwner")
    /\ Free(tlock[o])
    /\ prio[o] >= Effective(t)
    /\ LockThread(t, None)
    /\ monitor' = [monitor EXCEPT ![t] = pt[t][2]]
    /\ Goto(t, "enqueue")
    /\ UNCHANGED <<monitorVars, pointVars, sleepVars, prioVars, monitorList,
                   alarm, pt, local, depth>>

InheritRaise(t) ==
    LET o == owner[pt[t][2]] IN
    /\ At(t, "inheritOwner")
    /\ Free(tlock[o])
    /\ prio[o] < Effective(t)
    /\ LockThread(o, t)
    /\ Goto(t, "raise")
    /\ UNCHANGED <<monitorVars, pointVars, sleepVars, prioVars, monitor,
                   monitorList, alarm, pt, local, depth>>

(* Mistake: the locks are kept while the owner is waited for. *)
InheritRetryHolds(t) ==
    LET o == owner[pt[t][2]] IN
    /\ At(t, "inheritOwner")
    /\ ~Free(tlock[o])
    /\ who' = [who EXCEPT ![t] = o]
    /\ Goto(t, "ownerWait")
    /\ UNCHANGED <<monitorVars, pointVars, tlock, sleepVars, prioVars, monitor, monitorList,
                   alarm, pt, got, ret, count, depth>>

(* or give everything up, wait for the owner's lock, and start again.        *)
InheritRetry(t) ==
    LET o == owner[pt[t][2]] IN
    /\ At(t, "inheritOwner")
    /\ ~Free(tlock[o])
    /\ LockThread(t, None)
    /\ LockAt(pt[t], None)
    /\ who' = [who EXCEPT ![t] = o]
    /\ Goto(t, "ownerWait")
    /\ UNCHANGED <<monitorVars, queue, sleepVars, prioVars, monitor, monitorList,
                   alarm, pt, got, ret, count, depth>>

OwnerWait(t) ==
    /\ At(t, "ownerWait")
    /\ Free(tlock[who[t]])
    /\ who' = [who EXCEPT ![t] = None]
    /\ Goto(t, "sleep")
    /\ UNCHANGED <<monitorVars, pointVars, sleepVars, prioVars, monitor,
                   monitorList, tlock, alarm, pt, got, ret, count, depth>>

(* Mistake: a thread that waits is left where it is in the queue. *)
SetEffectiveInPlace(u, e) ==
    /\ prio' = [prio EXCEPT ![u] = e]
    /\ UNCHANGED queue

(* Thread::setEffectivePriority().  A thread that waits is moved in the      *)
(* queue it is on; if that is for a monitor, the monitor's owner is next.    *)
SetEffective(u, e) ==
    \/ /\ state[u] = "ready"
       /\ prio' = [prio EXCEPT ![u] = e]
       /\ UNCHANGED queue
    \/ /\ state[u] = "WAITING"
       /\ Free(rlock[rendezvous[u]])
       /\ prio' = [prio EXCEPT ![u] = e]
       /\ queue' = [queue EXCEPT ![rendezvous[u]] = InsertPrio(Without(@, u), u, e)]
    \/ state[u] = "TERMINATED" /\ UNCHANGED <<prio, queue>>

(* Mistake: nobody is next. *)
NextOwnerNone(u) == None

NextOwner(u) ==
    IF state[u] = "WAITING" /\ monitor[u] # None THEN owner[monitor[u]] ELSE None

Raise(t) ==
    LET o == owner[pt[t][2]] IN
    /\ At(t, "raise")
    /\ SetEffective(o, Effective(t))
    /\ tlock' = [tlock EXCEPT ![o] = None, ![t] = None]
    /\ monitor' = [monitor EXCEPT ![t] = pt[t][2]]
    /\ who' = [who EXCEPT ![t] = NextOwner(o)]
    /\ ret' = [ret EXCEPT ![t] = IF NextOwner(o) = None THEN @ ELSE "enqueue"]
    /\ Goto(t, IF NextOwner(o) = None THEN "enqueue" ELSE "update")
    /\ UNCHANGED <<monitorVars, rlock, sleepVars, base, monitorList, alarm, pt,
                   got, count, depth>>

-----------------------------------------------------------------------------
(* Thread::updatePriority(): lock the thread, *)
Update(p) ==
    /\ At(p, "update")
    /\ Free(tlock[who[p]])
    /\ LockThread(who[p], p)
    /\ got' = [got EXCEPT ![p] = {}]
    /\ Goto(p, "reset")
    /\ UNCHANGED <<monitorVars, pointVars, sleepVars, prioVars, monitor,
                   monitorList, alarm, pt, who, ret, count, depth>>

(* in resetPriority() lock the monitors it owns, one after the other, *)
ToLock(p) == Only(monitorList[who[p]], Monitors \ got[p])

ResetLock(p) ==
    LET m == Head(ToLock(p)) IN
    /\ At(p, "reset")
    /\ ToLock(p) # <<>>
    /\ Free(rlock[LockPoint(m)])
    /\ LockAt(LockPoint(m), p)
    /\ got' = [got EXCEPT ![p] = @ \cup {m}]
    /\ UNCHANGED <<monitorVars, queue, sleepVars, prioVars, monitor, monitorList,
                   tlock, alarm, pc, pt, who, ret, count, depth>>

(* set the highest priority among its own and those of the threads that wait *)
(* for it, and go on to the thread it waits for itself.                      *)
Owed(p) == Max({base[who[p]]} \cup {QueuePriority(m) : m \in got[p]})

ResetPriority(p) ==
    LET u == who[p]
        e == Owed(p)
        next == IF prio[u] # e THEN NextOwner(u) ELSE None
    IN
    /\ At(p, "reset")
    /\ ToLock(p) = <<>>
    /\ \/ prio[u] # e /\ SetEffective(u, e)
       \/ prio[u] = e /\ UNCHANGED <<prio, queue>>
    /\ rlock' = [r \in Points |->
                    IF r \in {LockPoint(m) : m \in got[p]} THEN None ELSE rlock[r]]
    /\ LockThread(u, None)
    /\ got' = [got EXCEPT ![p] = {}]
    /\ who' = [who EXCEPT ![p] = next]
    /\ ret' = [ret EXCEPT ![p] = IF next = None THEN "thread" ELSE @]
    /\ Goto(p, IF next = None THEN ret[p] ELSE "update")
    /\ UNCHANGED <<monitorVars, sleepVars, base, monitor, monitorList, alarm, pt,
                   count, depth>>

(* Thread::setPriority(). *)
CallSetPriority(t, u, e) ==
    /\ "setPriority" \in Calls
    /\ base[u] # e
    /\ Enter(t, "update")
    /\ base' = [base EXCEPT ![u] = e]
    /\ who' = [who EXCEPT ![t] = u]
    /\ UNCHANGED <<monitorVars, pointVars, sleepVars, prio, monitor, monitorList,
                   tlock, alarm, pt, got, ret, count, depth>>

-----------------------------------------------------------------------------
(* The end of Rendezvous::sleep(): queue the thread, and keep it locked over *)
(* the context switch.                                                       *)
Enqueue(t) ==
    /\ At(t, "enqueue")
    /\ Free(tlock[t])
    /\ LockThread(t, t)
    /\ queue' = [queue EXCEPT ![pt[t]] = InsertPrio(@, t, prio[t])]
    /\ state' = [state EXCEPT ![t] = "WAITING"]
    /\ rendezvous' = [rendezvous EXCEPT ![t] = pt[t]]
    /\ LockAt(pt[t], None)
    /\ Goto(t, "switch")
    /\ UNCHANGED <<monitorVars, prioVars, monitor, monitorList, alarm, pt, local,
                   depth>>

Switch(t) ==
    /\ At(t, "switch")
    /\ LockThread(t, None)
    /\ Goto(t, "waiting")
    /\ UNCHANGED <<monitorVars, pointVars, sleepVars, prioVars, monitor,
                   monitorList, alarm, pt, local, depth>>

Resume(t) ==
    /\ At(t, "waiting")
    /\ state[t] = "ready"
    /\ CoreFree
    /\ Goto(t, "sleep")
    /\ UNCHANGED <<monitorVars, pointVars, sleepVars, prioVars, monitor,
                   monitorList, tlock, alarm, pt, local, depth>>

(* Rendezvous::wakeup(). *)
Wakeup(p) ==
    /\ At(p, "wakeup")
    /\ Free(rlock[pt[p]])
    /\ LockAt(pt[p], p)
    /\ Goto(p, "wake")
    /\ UNCHANGED <<monitorVars, queue, sleepVars, prioVars, monitor, monitorList,
                   tlock, alarm, pt, local, depth>>

WakeFirst(p) ==
    LET u == Head(queue[pt[p]]) IN
    /\ At(p, "wake")
    /\ queue[pt[p]] # <<>>
    /\ Free(tlock[u])
    /\ queue' = [queue EXCEPT ![pt[p]] = Tail(@)]
    /\ rendezvous' = [rendezvous EXCEPT ![u] = None]
    /\ state' = [state EXCEPT ![u] = "ready"]
    /\ UNCHANGED <<monitorVars, rlock, prioVars, monitor, monitorList, tlock,
                   alarm, pc, pt, local, depth>>

(* Mistake: a thread that is locked is passed over. *)
WakeBusyGivesUp(p) ==
    LET u == Head(queue[pt[p]]) IN
    /\ At(p, "wake")
    /\ queue[pt[p]] # <<>>
    /\ ~Free(tlock[u])
    /\ LockAt(pt[p], None)
    /\ Return(p)
    /\ UNCHANGED <<monitorVars, queue, sleepVars, prioVars, monitor, monitorList,
                   tlock, alarm, local, depth>>

WakeBusy(p) ==
    LET u == Head(queue[pt[p]]) IN
    /\ At(p, "wake")
    /\ queue[pt[p]] # <<>>
    /\ ~Free(tlock[u])
    /\ LockAt(pt[p], None)
    /\ who' = [who EXCEPT ![p] = u]
    /\ Goto(p, "wakeWait")
    /\ UNCHANGED <<monitorVars, queue, sleepVars, prioVars, monitor, monitorList,
                   tlock, alarm, pt, got, ret, count, depth>>

WakeWait(p) ==
    /\ At(p, "wakeWait")
    /\ Free(tlock[who[p]])
    /\ who' = [who EXCEPT ![p] = None]
    /\ Goto(p, "wakeup")
    /\ UNCHANGED <<monitorVars, pointVars, sleepVars, prioVars, monitor,
                   monitorList, tlock, alarm, pt, got, ret, count, depth>>

(* Back to wait(), with the condition variable still locked; to the next     *)
(* monitor of a thread that exits; or to the caller.                         *)
WakeDone(p) ==
    /\ At(p, "wake")
    /\ queue[pt[p]] = <<>>
    /\ LockAt(pt[p], None)
    /\ \/ /\ p \in Threads /\ count[p] > 0
          /\ Work(p, CvPoint(pt[p][2]))
          /\ Goto(p, "enqueue")
       \/ /\ p \in Threads /\ state[p] = "TERMINATED"
          /\ Goto(p, "exitNext")
          /\ Work(p, None)
       \/ /\ p \in Threads => count[p] = 0 /\ state[p] # "TERMINATED"
          /\ Return(p)
    /\ UNCHANGED <<monitorVars, queue, sleepVars, prioVars, monitor, monitorList,
                   tlock, alarm, local, depth>>

-----------------------------------------------------------------------------
(* Monitor::tryLock(). *)
CallTryLock(t, m) ==
    /\ "tryLock" \in Calls
    /\ Enter(t, "tryLock")
    /\ depth[t][m] < MaxDepth
    /\ Work(t, LockPoint(m))
    /\ UNCHANGED <<monitorVars, pointVars, sleepVars, prioVars, monitor,
                   monitorList, tlock, alarm, local, depth>>

TryLock(t) ==
    LET m == pt[t][2] IN
    /\ At(t, "tryLock")
    /\ Free(rlock[pt[t]])
    /\ \/ /\ owner[m] = None
          /\ owner' = [owner EXCEPT ![m] = t]
          /\ lockCount' = [lockCount EXCEPT ![m] = 1]
          /\ LockAt(pt[t], t)
          /\ Goto(t, "tryList")
          /\ UNCHANGED <<pt, depth>>
       \/ /\ owner[m] = t
          /\ lockCount' = [lockCount EXCEPT ![m] = @ + 1]
          /\ depth' = [depth EXCEPT ![t][m] = @ + 1]
          /\ Return(t)
          /\ UNCHANGED <<owner, rlock>>
       \/ /\ owner[m] \notin {None, t}
          /\ Return(t)
          /\ UNCHANGED <<owner, lockCount, rlock, depth>>
    /\ UNCHANGED <<queue, sleepVars, prioVars, monitor, monitorList, tlock,
                   alarm, local>>

TryList(t) ==
    LET m == pt[t][2] IN
    /\ At(t, "tryList")
    /\ Free(tlock[t])
    /\ monitorList' = [monitorList EXCEPT ![t] = Append(@, m)]
    /\ LockAt(pt[t], None)
    /\ depth' = [depth EXCEPT ![t][m] = @ + 1]
    /\ Return(t)
    /\ UNCHANGED <<monitorVars, queue, sleepVars, prioVars, monitor, tlock,
                   alarm, local>>

-----------------------------------------------------------------------------
(* Monitor::unlock() by a thread that holds the monitor. *)
CallUnlock(t, m) ==
    /\ Enter(t, "unlock")
    /\ depth[t][m] > 0
    /\ depth' = [depth EXCEPT ![t][m] = @ - 1]
    /\ Work(t, LockPoint(m))
    /\ UNCHANGED <<monitorVars, pointVars, sleepVars, prioVars, monitor,
                   monitorList, tlock, alarm, local>>

(* Rendezvous::wakeup() and condUnlock(): not the last time, or the monitor  *)
(* is given up: (callers own the monitor, so that the return for a thread    *)
(* that does not is not taken) *)
Unlock(t) ==
    LET m == pt[t][2] IN
    /\ At(t, "unlock")
    /\ Free(rlock[pt[t]])
    /\ owner[m] = t
    /\ lockCount' = [lockCount EXCEPT ![m] = @ - 1]
    /\ \/ lockCount[m] > 1 /\ Return(t) /\ UNCHANGED rlock
       \/ lockCount[m] = 1 /\ Goto(t, "unlockList") /\ LockAt(pt[t], t) /\ UNCHANGED pt
    /\ UNCHANGED <<owner, queue, sleepVars, prioVars, monitor, monitorList, tlock,
                   alarm, local, depth>>

(* off the list, no owner, and the inherited priority is given back before   *)
(* the waiters are woken.                                                    *)
UnlockList(t) ==
    LET m == pt[t][2] IN
    /\ At(t, "unlockList")
    /\ Free(tlock[t])
    /\ monitorList' = [monitorList EXCEPT ![t] = Without(@, m)]
    /\ owner' = [owner EXCEPT ![m] = None]
    /\ who' = [who EXCEPT ![t] = t]
    /\ ret' = [ret EXCEPT ![t] = "wake"]
    /\ Goto(t, "update")
    /\ UNCHANGED <<lockCount, pointVars, sleepVars, prioVars, monitor, tlock,
                   alarm, pt, got, count, depth>>

-----------------------------------------------------------------------------
(* Monitor::wait(), and wait(timeout), which sets the alarm first. *)
CallWait(t, m) ==
    /\ Enter(t, "sleep")
    /\ depth[t][m] > 0
    /\ \A n \in Monitors : n > m => depth[t][n] = 0
    /\ \/ "wait" \in Calls /\ UNCHANGED alarm
       \/ "timedWait" \in Calls /\ alarm' = [alarm EXCEPT ![t] = "pending"]
    /\ count' = [count EXCEPT ![t] = lockCount[m]]
    /\ depth' = [depth EXCEPT ![t][m] = 0]
    /\ Work(t, CvPoint(m))
    /\ UNCHANGED <<monitorVars, pointVars, sleepVars, prioVars, monitor,
                   monitorList, tlock, who, got, ret>>

(* Mistake: the condition variable is not locked. *)
WaitTestUnlocked(t) ==
    /\ At(t, "sleep")
    /\ pt[t][1] = "cv"
    /\ owner[pt[t][2]] = t
    /\ Free(rlock[pt[t]])
    /\ Goto(t, "waitRelease")
    /\ UNCHANGED <<monitorVars, pointVars, sleepVars, prioVars, monitor, monitorList,
                   tlock, alarm, pt, local, depth>>

(* condWait(), with the condition variable locked: no owner, *)
WaitTest(t) ==
    /\ At(t, "sleep")
    /\ pt[t][1] = "cv"
    /\ owner[pt[t][2]] = t
    /\ Free(rlock[pt[t]])
    /\ LockAt(pt[t], t)
    /\ Goto(t, "waitRelease")
    /\ UNCHANGED <<monitorVars, queue, sleepVars, prioVars, monitor, monitorList,
                   tlock, alarm, pt, local, depth>>

WaitRelease(t) ==
    LET m == pt[t][2] IN
    /\ At(t, "waitRelease")
    /\ Free(rlock[LockPoint(m)])
    /\ lockCount' = [lockCount EXCEPT ![m] = 0]
    /\ owner' = [owner EXCEPT ![m] = None]
    /\ Goto(t, "waitList")
    /\ UNCHANGED <<pointVars, sleepVars, prioVars, monitor, monitorList, tlock,
                   alarm, pt, local, depth>>

(* Mistake: the monitor stays on the list. *)
WaitListNot(t) ==
    LET m == pt[t][2] IN
    /\ At(t, "waitList")
    /\ Free(tlock[t])
    /\ LockThread(t, t)
    /\ Work(t, LockPoint(m))
    /\ who' = [who EXCEPT ![t] = t]
    /\ got' = [got EXCEPT ![t] = {}]
    /\ ret' = [ret EXCEPT ![t] = "wakeup"]
    /\ Goto(t, "reset")
    /\ UNCHANGED <<monitorVars, pointVars, sleepVars, prioVars, monitor, monitorList,
                   alarm,
                   count, depth>>

(* then off the list, the priority reset, and the waiters woken. *)
WaitList(t) ==
    LET m == pt[t][2] IN
    /\ At(t, "waitList")
    /\ Free(tlock[t])
    /\ LockThread(t, t)
    /\ monitorList' = [monitorList EXCEPT ![t] = Without(@, m)]
    /\ Work(t, LockPoint(m))
    /\ who' = [who EXCEPT ![t] = t]
    /\ got' = [got EXCEPT ![t] = {}]
    /\ ret' = [ret EXCEPT ![t] = "wakeup"]
    /\ Goto(t, "reset")
    /\ UNCHANGED <<monitorVars, pointVars, sleepVars, prioVars, monitor, alarm,
                   count, depth>>

(* Back from the condition variable: lock the monitor again, and restore the *)
(* count.                                                                    *)
WaitRelock(t) ==
    LET m == pt[t][2] IN
    /\ At(t, "sleep")
    /\ pt[t] = CvPoint(m)
    /\ owner[m] # t
    /\ Free(rlock[pt[t]])
    /\ Work(t, LockPoint(m))
    /\ UNCHANGED <<monitorVars, pointVars, sleepVars, prioVars, monitor,
                   monitorList, tlock, alarm, pc, local, depth>>

(* Mistake: the count is not restored. *)
WaitRestoreNot(t) ==
    LET m == pt[t][2] IN
    /\ At(t, "restore")
    /\ depth' = [depth EXCEPT ![t][m] = count[t]]
    /\ count' = [count EXCEPT ![t] = 0]
    /\ alarm' = [alarm EXCEPT ![t] = "none"]
    /\ Return(t)
    /\ UNCHANGED <<monitorVars, pointVars, sleepVars, prioVars, monitor, monitorList,
                   tlock, who, got, ret>>

WaitRestore(t) ==
    LET m == pt[t][2] IN
    /\ At(t, "restore")
    /\ lockCount' = [lockCount EXCEPT ![m] = count[t]]
    /\ depth' = [depth EXCEPT ![t][m] = count[t]]
    /\ count' = [count EXCEPT ![t] = 0]
    /\ alarm' = [alarm EXCEPT ![t] = "none"]
    /\ Return(t)
    /\ UNCHANGED <<owner, pointVars, sleepVars, prioVars, monitor, monitorList,
                   tlock, who, got, ret>>

(* Monitor::notify(), by a thread or as the callback of an alarm. *)
CallNotify(t, m) ==
    /\ "notify" \in Calls
    /\ Enter(t, "wakeup")
    /\ Work(t, CvPoint(m))
    /\ UNCHANGED <<monitorVars, pointVars, sleepVars, prioVars, monitor,
                   monitorList, tlock, alarm, local, depth>>

(* Mistake: nobody is woken. *)
AlarmExpiresQuietly(t) ==
    /\ At(Timer, "thread") /\ CoreFree
    /\ alarm[t] = "pending"
    /\ alarm' = [alarm EXCEPT ![t] = "fired"]
    /\ UNCHANGED <<monitorVars, pointVars, sleepVars, prioVars, monitor,
                   monitorList, tlock, pc, pt, local, depth>>

AlarmExpires(t) ==
    /\ Enter(Timer, "wakeup")
    /\ alarm[t] = "pending"
    /\ alarm' = [alarm EXCEPT ![t] = "fired"]
    /\ Work(Timer, CvPoint(pt[t][2]))
    /\ UNCHANGED <<monitorVars, pointVars, sleepVars, prioVars, monitor,
                   monitorList, tlock, local, depth>>

-----------------------------------------------------------------------------
(* Thread::exit() and unlockAllMonitors(): the thread stays locked. *)
CallExit(t) ==
    /\ "exit" \in Calls
    /\ Enter(t, "exit")
    /\ depth' = [depth EXCEPT ![t] = [m \in Monitors |-> 0]]
    /\ UNCHANGED <<monitorVars, pointVars, sleepVars, prioVars, monitor,
                   monitorList, tlock, alarm, pt, local>>

Exit(t) ==
    /\ At(t, "exit")
    /\ Free(tlock[t])
    /\ LockThread(t, t)
    /\ state' = [state EXCEPT ![t] = "TERMINATED"]
    /\ Goto(t, "exitNext")
    /\ UNCHANGED <<monitorVars, pointVars, rendezvous, prioVars, monitor,
                   monitorList, alarm, pt, local, depth>>

ExitUnlock(t) ==
    LET m == Head(monitorList[t]) IN
    /\ At(t, "exitNext")
    /\ monitorList[t] # <<>>
    /\ Free(rlock[LockPoint(m)])
    /\ LockAt(LockPoint(m), t)
    /\ lockCount' = [lockCount EXCEPT ![m] = 0]
    /\ owner' = [owner EXCEPT ![m] = None]
    /\ monitorList' = [monitorList EXCEPT ![t] = Tail(@)]
    /\ Work(t, LockPoint(m))
    /\ Goto(t, "wake")
    /\ UNCHANGED <<queue, sleepVars, prioVars, monitor, tlock, alarm, local, depth>>

ExitDone(t) ==
    /\ At(t, "exitNext")
    /\ monitorList[t] = <<>>
    /\ LockThread(t, None)
    /\ Goto(t, "dead")
    /\ UNCHANGED <<monitorVars, pointVars, sleepVars, prioVars, monitor,
                   monitorList, alarm, pt, local, depth>>

-----------------------------------------------------------------------------
Call(t) ==
    \/ CallExit(t)
    \/ \E m \in Monitors :
          \/ CallLock(t, m) \/ CallTryLock(t, m) \/ CallUnlock(t, m)
          \/ CallWait(t, m) \/ CallNotify(t, m)
    \/ \E u \in Threads, e \in Prios : CallSetPriority(t, u, e)

ThreadStep(t) ==
    \/ LockTake(t) \/ LockContend(t)
    \/ Inherit(t) \/ InheritNothing(t) \/ InheritRaise(t) \/ InheritRetry(t)
    \/ OwnerWait(t) \/ Raise(t)
    \/ Enqueue(t) \/ Switch(t) \/ Resume(t)
    \/ TryLock(t) \/ TryList(t) \/ Unlock(t) \/ UnlockList(t)
    \/ WaitTest(t) \/ WaitRelease(t) \/ WaitList(t) \/ WaitRelock(t) \/ WaitRestore(t)
    \/ Exit(t) \/ ExitUnlock(t) \/ ExitDone(t)
    \/ Update(t) \/ ResetLock(t) \/ ResetPriority(t)

WakeStep(p) ==
    \/ Wakeup(p) \/ WakeFirst(p) \/ WakeBusy(p) \/ WakeWait(p) \/ WakeDone(p)

Next ==
    \/ \E t \in Threads : Call(t) \/ ThreadStep(t) \/ AlarmExpires(t)
    \/ \E p \in Procs : WakeStep(p)

Spec == Init /\ [][Next]_vars

-----------------------------------------------------------------------------
Places == {"thread", "waiting", "dead",
           "sleep", "enqueue", "switch",
           "inherit", "inheritOwner", "raise", "ownerWait",
           "update", "reset", "tryLock", "tryList", "unlock", "unlockList",
           "waitRelease", "waitList", "restore", "wakeup", "wake", "wakeWait",
           "exit", "exitNext"}

(* Every field has its type. *)
TypeOK ==
    /\ owner \in [Monitors -> Threads \cup {None}]
    /\ lockCount \in [Monitors -> 0 .. MaxDepth]
    /\ rlock \in [Points -> Procs \cup {None}]
    /\ queue \in [Points -> Seq(Threads)]
    /\ state \in [Threads -> {"ready", "WAITING", "TERMINATED"}]
    /\ base \in [Threads -> Prios] /\ prio \in [Threads -> Prios]
    /\ rendezvous \in [Threads -> Points \cup {None}]
    /\ monitor \in [Threads -> Monitors \cup {None}]
    /\ monitorList \in [Threads -> Seq(Monitors)]
    /\ tlock \in [Threads -> Procs \cup {None}]
    /\ alarm \in [Threads -> {"none", "pending", "fired"}]
    /\ pc \in [Procs -> Places]
    /\ pt \in [Procs -> Points \cup {None}]
    /\ who \in [Procs -> Threads \cup {None}]
    /\ got \in [Procs -> SUBSET Monitors]
    /\ ret \in [Procs -> {"thread", "enqueue", "wake", "wakeup"}]
    /\ count \in [Threads -> 0 .. MaxDepth]
    /\ depth \in [Threads -> [Monitors -> 0 .. MaxDepth]]

(* What a thread that has come back from lock(), tryLock() or wait() knows   *)
(* is so: it is the owner, as many times as it has locked the monitor, until *)
(* it calls unlock() or wait() itself.  So no two threads hold a monitor.    *)
HolderOwns ==
    \A t \in Threads : \A m \in Monitors : depth[t][m] > 0 =>
        /\ owner[m] = t
        /\ lockCount[m] =
              depth[t][m] + (IF At(t, "unlock") /\ pt[t][2] = m THEN 1 ELSE 0)

(* A monitor without an owner does not keep threads waiting: whoever is on   *)
(* its queue, or about to be, has a process on its way to wake it.           *)
WakingAt(p, r) ==
    \/ pc[p] \in {"wakeup", "wake", "wakeWait"} /\ pt[p] = r
    \/ pc[p] \in {"update", "reset"} /\ ret[p] \in {"wake", "wakeup"} /\ pt[p] = r
    \/ At(p, "waitList") /\ r = LockPoint(pt[p][2])

NobodyForgotten ==
    \A m \in Monitors : owner[m] = None /\ queue[LockPoint(m)] # <<>> =>
        \E p \in Procs : WakingAt(p, LockPoint(m))

(* A thread waits for each monitor at most once, and as the monitor's queue  *)
(* says; the queues are in order of priority.                                *)
QueuesExact ==
    /\ \A r \in Points : \A i, j \in 1 .. Len(queue[r]) :
          i < j => queue[r][i] # queue[r][j] /\ prio[queue[r][i]] >= prio[queue[r][j]]
    /\ \A t \in Threads : \A r \in Points :
          (state[t] = "WAITING" /\ rendezvous[t] = r) <=> Contains(queue[r], t)

(* notify() by the owner of the monitor wakes every thread that has given    *)
(* the monitor up in wait(), even one that is not yet on the queue of the    *)
(* condition variable ("Wakes up all threads that are waiting on this        *)
(* monitor", IMonitor.idl:61).                                               *)
Unnotified(t, m) ==
    \/ Contains(queue[CvPoint(m)], t)
    \/ /\ count[t] > 0 /\ pt[t][2] = m
       /\ \/ pc[t] \in {"waitList", "wakeup", "wake", "wakeWait"}
          \/ At(t, "reset") /\ ret[t] = "wakeup"
          \/ At(t, "enqueue") /\ pt[t] = CvPoint(m)

NotifyWakesAll ==
    [][\A p \in Threads : \A m \in Monitors :
         WakeDone(p) /\ pt[p] = CvPoint(m) /\ owner[m] = p
            => \A t \in Threads : ~Unnotified(t, m)]_vars

(* A thread whose time is over is woken: "until either it reacquires the     *)
(* lock, or a specified time has elapsed", IMonitor.idl:53.                  *)
TimeoutWakes ==
    \A t \in Threads : \A m \in Monitors :
        alarm[t] = "fired" /\ Contains(queue[CvPoint(m)], t)
            => \E p \in Procs : WakingAt(p, CvPoint(m))

(* No ring of processes each of which spins on a lock the next one holds.    *)
WantsThread(p) ==
    CASE pc[p] \in {"inherit", "enqueue", "tryList", "unlockList", "waitList", "exit"} -> p
      [] pc[p] \in {"update", "ownerWait", "wakeWait"} -> who[p]
      [] OTHER -> None

WantsPoint(p) ==
    CASE pc[p] \in {"sleep", "tryLock", "unlock", "wakeup"} -> pt[p]
      [] At(p, "waitRelease") -> LockPoint(pt[p][2])
      [] At(p, "reset") /\ ToLock(p) # <<>> -> LockPoint(Head(ToLock(p)))
      [] At(p, "reset") /\ ToLock(p) = <<>> -> rendezvous[who[p]]
      [] At(p, "raise") -> rendezvous[owner[pt[p][2]]]
      [] At(p, "exitNext") /\ monitorList[p] # <<>> -> LockPoint(Head(monitorList[p]))
      [] OTHER -> None

SpinsOn(p, q) ==
    \/ WantsThread(p) # None /\ tlock[WantsThread(p)] = q
    \/ WantsPoint(p) # None /\ rlock[WantsPoint(p)] = q

NoRingOfLocks ==
    \A S \in SUBSET Procs \ {{}} : \E p \in S : \A q \in S : ~SpinsOn(p, q)

(* A monitor is on the list of the thread that owns it and, having one link, *)
(* on no other.                                                              *)
ListedOnce ==
    \A t, u \in Threads : \A m \in Monitors :
        Contains(monitorList[t], m) /\ Contains(monitorList[u], m) => t = u

(* A thread that waits for a monitor waits for its owner: asserted where the *)
(* priority is propagated to it, thread.cpp:117.                             *)
Propagates(p, u) ==
    /\ \/ At(p, "raise") /\ u = owner[pt[p][2]]
       \/ At(p, "reset") /\ ToLock(p) = <<>> /\ u = who[p] /\ prio[u] # Owed(p)
    /\ state[u] = "WAITING"
    /\ Free(rlock[rendezvous[u]])

PropagatesToOwner ==
    \A p \in Procs : \A u \in Threads :
        Propagates(p, u) /\ monitor[u] # None => owner[monitor[u]] # None

(* Priority inheritance is exact whenever nobody is in the middle of a call: *)
(* a thread has the highest of its own priority and those of the threads     *)
(* that wait for its monitors, through any number of monitors, and no more   *)
(* than that.                                                                *)
Waiters(t) ==
    UNION {Range(queue[LockPoint(m)]) : m \in {n \in Monitors : owner[n] = t}}

InheritanceExact ==
    (\A p \in Procs : ~InKernel(p)) =>
        \A t \in Threads : state[t] # "TERMINATED" =>
            prio[t] = Max({base[t]} \cup {prio[u] : u \in Waiters(t)})
=============================================================================

---------------------------- MODULE ThreadControl ----------------------------
(***************************************************************************)
(* What one thread does to another, on top of Dispatch: Thread::cancel(),  *)
(* Thread::setPriority() and a repeated Thread::start(), and what a thread *)
(* says about its own cancellation.  Each locks the target thread and      *)
(* changes it wherever it is: queued, waiting, or running on another core. *)
(* The threads hold no monitors here, so an effective priority is the base *)
(* priority.                                                               *)
(***************************************************************************)
EXTENDS Dispatch, Lists

CONSTANT Calls      \* the calls that are made, a subset of AllCalls

AllCalls == {"start", "cancel", "setPriority", "setCancelState", "setCancelType"}

ASSUME CallsAssumption == Calls \subseteq AllCalls

VARIABLES
    base,           \* Thread::base, the priority that was asked for
    asynchronous,   \* CANCEL_ASYNCHRONOUS in Thread::attr
    enabled,        \* CANCEL_ENABLE in Thread::attr
    requested       \* CANCEL_REQUESTED in Thread::attr

attr == <<asynchronous, enabled, requested>>
controlVars == <<vars, base, attr>>

ControlInit ==
    /\ Init
    /\ base = prio
    /\ asynchronous = [t \in Threads |-> FALSE]
    /\ enabled = [t \in Threads |-> TRUE]
    /\ requested = [t \in Threads |-> FALSE]

(* A call on thread u, which may be the caller. *)
CallOn(c, u, p) ==
    /\ Running(c)
    /\ peer' = [peer EXCEPT ![c] = u]
    /\ Goto(c, p)
    /\ UNCHANGED <<threadVars, pointVars, schedVars, current, self, point, after>>

Without(q, t) == Only(q, Threads \ {t})

(* Sched::unsetRun(). *)
BitsWithout(t) ==
    IF Without(runQueue[prio[t]], t) = <<>> THEN runQueueBits \ {prio[t]}
                                            ELSE runQueueBits

UnsetRun(t) ==
    /\ runQueue' = [runQueue EXCEPT ![prio[t]] = Without(@, t)]
    /\ runQueueBits' = BitsWithout(t)
    /\ UNCHANGED runQueueHint

-----------------------------------------------------------------------------
(* Thread::start() on a thread in any state. *)
CallStartAgain(c, u) ==
    /\ "start" \in Calls
    /\ state[u] # "NEW"
    /\ CallOn(c, u, "start")
    /\ UNCHANGED <<base, attr>>

(* Thread::setCancelState() and setCancelType() on the current thread. *)
SetCancelState(c) ==
    LET t == current[c] IN
    /\ "setCancelState" \in Calls
    /\ Running(c)
    /\ Free(tlock[t])
    /\ enabled' = [enabled EXCEPT ![t] = ~@]
    /\ UNCHANGED <<vars, base, asynchronous, requested>>

SetCancelType(c) ==
    LET t == current[c] IN
    /\ "setCancelType" \in Calls
    /\ Running(c)
    /\ Free(tlock[t])
    /\ asynchronous' = [asynchronous EXCEPT ![t] = ~@]
    /\ UNCHANGED <<vars, base, enabled, requested>>

(* Thread::testCancel(). *)
TestCancel(c) ==
    /\ Running(c)
    /\ requested[current[c]]
    /\ Goto(c, "exit")
    /\ UNCHANGED <<threadVars, pointVars, schedVars, current, self, point, peer,
                   after, base, attr>>

-----------------------------------------------------------------------------
(* Thread::cancel().  The test of CANCEL_DISABLE at its head is never true,  *)
(* the constant being zero.                                                  *)
CallCancel(c, u) ==
    /\ "cancel" \in Calls
    /\ CallOn(c, u, "cancel")
    /\ UNCHANGED <<base, attr>>

CancelLock(c) ==
    LET u == peer[c] IN
    /\ At(c, "cancel")
    /\ Free(tlock[u])
    /\ SetLock(u, c)
    /\ requested' = [requested EXCEPT ![u] = TRUE]
    /\ Goto(c, IF asynchronous[u] THEN "cancelAsync" ELSE "cancelDeferred")
    /\ UNCHANGED <<state, prio, core, rendezvous, val, alarm, label, pointVars,
                   schedVars, current, self, point, peer, after, base,
                   asynchronous, enabled>>

(* Deferred: a thread that waits is made runnable, to find the request.      *)
CancelDeferred(c) ==
    LET u == peer[c]
        r == rendezvous[u]
    IN
    /\ At(c, "cancelDeferred")
    /\ \/ /\ state[u] = "WAITING"
          /\ Free(rlock[r])
          /\ queue' = [queue EXCEPT ![r] = Without(@, u)]
          /\ rendezvous' = [rendezvous EXCEPT ![u] = NoPoint]
          /\ SetRun(u)
       \/ /\ state[u] # "WAITING"
          /\ UNCHANGED <<queue, rendezvous, state, schedVars>>
    /\ Goto(c, "cancelUnlock")
    /\ UNCHANGED <<prio, core, tlock, val, alarm, label, rlock, current, self,
                   point, peer, after, base, attr>>

CancelUnlock(c) ==
    /\ At(c, "cancelUnlock")
    /\ SetLock(peer[c], NoCore)
    /\ peer' = [peer EXCEPT ![c] = NoThread]
    /\ Goto(c, "thread")
    /\ UNCHANGED <<state, prio, core, rendezvous, val, alarm, label, pointVars,
                   schedVars, current, self, point, after, base, attr>>

(* Mistake: those that join the thread are not woken. *)
KillQuietly(c, u) ==
    /\ SetState(u, "TERMINATED")
    /\ point' = [point EXCEPT ![c] = JoinPoint(u)]
    /\ after' = [after EXCEPT ![c] = "killUnlock"]
    /\ Goto(c, "killUnlock")

(* TERMINATED, and those that join the thread are woken. *)
Kill(c, u) ==
    /\ SetState(u, "TERMINATED")
    /\ point' = [point EXCEPT ![c] = JoinPoint(u)]
    /\ after' = [after EXCEPT ![c] = "killUnlock"]
    /\ Goto(c, "wakeup")

(* Asynchronous: the thread is taken off the queue it is on. *)
CancelQueued(c) ==
    LET u == peer[c]
        r == rendezvous[u]
    IN
    /\ At(c, "cancelAsync")
    /\ \/ /\ state[u] = "RUNNABLE"
          /\ UnsetRun(u)
          /\ UNCHANGED <<queue, rendezvous>>
       \/ /\ state[u] = "WAITING"
          /\ Free(rlock[r])
          /\ queue' = [queue EXCEPT ![r] = Without(@, u)]
          /\ rendezvous' = [rendezvous EXCEPT ![u] = NoPoint]
          /\ UNCHANGED schedVars
    /\ Kill(c, u)
    /\ UNCHANGED <<prio, core, tlock, val, alarm, label, rlock, current, self,
                   peer, base, attr>>

(* One that runs is left to notice at its next reschedule().  It may change  *)
(* its state between the test and the assignment, if it is on another core.  *)
CancelRunning(c) ==
    /\ At(c, "cancelAsync")
    /\ state[peer[c]] = "RUNNING"
    /\ runQueueHint' = TRUE
    /\ Goto(c, "cancelKill")
    /\ UNCHANGED <<threadVars, pointVars, runQueue, runQueueBits, current, self,
                   point, peer, after, base, attr>>

CancelKill(c) ==
    /\ At(c, "cancelKill")
    /\ Kill(c, peer[c])
    /\ UNCHANGED <<prio, core, rendezvous, tlock, val, alarm, label, pointVars,
                   schedVars, current, self, peer, base, attr>>

(* One that is not alive is left alone. *)
CancelNothing(c) ==
    /\ At(c, "cancelAsync")
    /\ state[peer[c]] \in {"NEW", "TERMINATED"}
    /\ Goto(c, "cancelUnlock")
    /\ UNCHANGED <<threadVars, pointVars, schedVars, current, self, point, peer,
                   after, base, attr>>

(* Mistake: a thread that cancels itself goes on. *)
KillUnlockStays(c) ==
    /\ At(c, "killUnlock")
    /\ SetLock(point[c][2], NoCore)
    /\ point' = [point EXCEPT ![c] = NoPoint]
    /\ peer' = [peer EXCEPT ![c] = NoThread]
    /\ after' = [after EXCEPT ![c] = "isr"]
    /\ Goto(c, "thread")
    /\ UNCHANGED <<state, prio, core, rendezvous, val, alarm, label, pointVars,
                   schedVars, current, self, base, attr>>

KillUnlock(c) ==
    /\ At(c, "killUnlock")
    /\ SetLock(point[c][2], NoCore)
    /\ point' = [point EXCEPT ![c] = NoPoint]
    /\ peer' = [peer EXCEPT ![c] = NoThread]
    /\ after' = [after EXCEPT ![c] = "isr"]
    /\ Goto(c, "reschedule")
    /\ UNCHANGED <<state, prio, core, rendezvous, val, alarm, label, pointVars,
                   schedVars, current, self, base, attr>>

-----------------------------------------------------------------------------
(* Thread::setPriority(): the base priority is assigned without a lock, and  *)
(* updatePriority() follows if it is a new one.                              *)
CallSetPriority(c, u, p) ==
    /\ "setPriority" \in Calls
    /\ CallOn(c, u, IF base[u] # p THEN "updatePriority" ELSE "updated")
    /\ base' = [base EXCEPT ![u] = p]
    /\ UNCHANGED attr

UpdatePriority(c) ==
    LET u == peer[c] IN
    /\ At(c, "updatePriority")
    /\ Free(tlock[u])
    /\ SetLock(u, c)
    /\ Goto(c, IF prio[u] # base[u] THEN "setEffective" ELSE "updateUnlock")
    /\ UNCHANGED <<state, prio, core, rendezvous, val, alarm, label, pointVars,
                   schedVars, current, self, point, peer, after, base, attr>>

(* Mistake: the priority is assigned where the thread stands in its queue. *)
SetEffectivePriorityInPlace(c) ==
    /\ At(c, "setEffective")
    /\ prio' = [prio EXCEPT ![peer[c]] = base[peer[c]]]
    /\ Goto(c, "updateUnlock")
    /\ UNCHANGED <<state, core, rendezvous, tlock, val, alarm, label, pointVars, schedVars,
                   current, self, point, peer, after, base, attr>>

(* Thread::setEffectivePriority(): requeue the thread where its priority     *)
(* decides its place.                                                        *)
SetEffectivePriority(c) ==
    LET u == peer[c]
        p == base[u]
        r == rendezvous[u]
    IN
    /\ At(c, "setEffective")
    /\ \/ /\ state[u] = "RUNNABLE"
          /\ prio' = [prio EXCEPT ![u] = p]
          /\ runQueue' = [[runQueue EXCEPT ![prio[u]] = Without(@, u)]
                             EXCEPT ![p] = Append(@, u)]
          /\ runQueueBits' = {p} \cup BitsWithout(u)
          /\ runQueueHint' = TRUE
          /\ UNCHANGED queue
       \/ /\ state[u] = "WAITING"
          /\ Free(rlock[r])
          /\ prio' = [prio EXCEPT ![u] = p]
          /\ queue' = [queue EXCEPT ![r] = InsertPrio(Without(@, u), u, p)]
          /\ UNCHANGED schedVars
       \/ /\ state[u] = "RUNNING"
          /\ prio' = [prio EXCEPT ![u] = p]
          /\ runQueueHint' = TRUE
          /\ UNCHANGED <<runQueue, runQueueBits, queue>>
       \/ /\ state[u] \in {"NEW", "TERMINATED"}
          /\ UNCHANGED <<prio, schedVars, queue>>
    /\ Goto(c, "updateUnlock")
    /\ UNCHANGED <<state, core, rendezvous, tlock, val, alarm, label, rlock,
                   current, self, point, peer, after, base, attr>>

(* Mistake: the thread is not unlocked. *)
UpdateUnlockNot(c) ==
    /\ At(c, "updateUnlock")
    /\ Goto(c, "updated")
    /\ UNCHANGED <<threadVars, pointVars, schedVars, current, self, point, peer, after,
                   base, attr>>

UpdateUnlock(c) ==
    /\ At(c, "updateUnlock")
    /\ SetLock(peer[c], NoCore)
    /\ Goto(c, "updated")
    /\ UNCHANGED <<state, prio, core, rendezvous, val, alarm, label, pointVars,
                   schedVars, current, self, point, peer, after, base, attr>>

Updated(c) ==
    /\ At(c, "updated")
    /\ peer' = [peer EXCEPT ![c] = NoThread]
    /\ Goto(c, "reschedule")
    /\ UNCHANGED <<threadVars, pointVars, schedVars, current, self, point, after,
                   base, attr>>

-----------------------------------------------------------------------------
ControlCall(c) ==
    \/ SetCancelState(c) \/ SetCancelType(c) \/ TestCancel(c)
    \/ \E u \in Threads :
          \/ CallStartAgain(c, u) \/ CallCancel(c, u)
          \/ \E p \in Prios : CallSetPriority(c, u, p)

ControlStep(c) ==
    \/ CancelLock(c) \/ CancelDeferred(c) \/ CancelUnlock(c)
    \/ CancelQueued(c) \/ CancelRunning(c) \/ CancelKill(c) \/ CancelNothing(c)
    \/ KillUnlock(c)
    \/ UpdatePriority(c) \/ SetEffectivePriority(c) \/ UpdateUnlock(c) \/ Updated(c)

ControlNext ==
    \/ Next /\ UNCHANGED <<base, attr>>
    \/ \E c \in Cores : ControlCall(c) \/ ControlStep(c)

ControlSpec == ControlInit /\ [][ControlNext]_controlVars

-----------------------------------------------------------------------------
(* Every field has its type. *)
ControlTypeOK ==
    /\ FieldsOK
    /\ base \in [Threads -> Prios]
    /\ asynchronous \in [Threads -> BOOLEAN]
    /\ enabled \in [Threads -> BOOLEAN]
    /\ requested \in [Threads -> BOOLEAN]
    /\ after \in [Cores -> {"isr", "exitUnlock", "killUnlock"}]

(* A thread that executes a call of its own is RUNNING, whoever cancels it   *)
(* meanwhile: sleep() and exit() assert it, rendezvous.cpp:31 and            *)
(* thread.cpp:238.                                                           *)
CallerIsRunning ==
    \A c \in Cores : pc[c] \in {"sleep", "exit"} => state[current[c]] = "RUNNING"

(* On a uniprocessor cancel() and setPriority() find every lock free too,    *)
(* the one of the point at which the target waits included (lock.cpp:73).    *)
ControlNeverSpinsAlone ==
    /\ NeverSpinsAlone
    /\ Cores = {BootCore} =>
          LET u == peer[BootCore] IN
          /\ pc[BootCore] \in {"cancel", "updatePriority"} => Free(tlock[u])
          /\ pc[BootCore] \in {"cancelDeferred", "cancelAsync", "setEffective"}
                /\ state[u] = "WAITING" => Free(rlock[rendezvous[u]])
=============================================================================

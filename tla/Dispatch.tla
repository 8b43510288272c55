------------------------------ MODULE Dispatch ------------------------------
(***************************************************************************)
(* How the cores of a PC share the threads of the kernel: Thread and       *)
(* Thread::Rendezvous (port/thread.cpp, port/rendezvous.cpp), the run      *)
(* queue (port/sched.cpp), the context switch (pc/pc_thread.cpp,           *)
(* pc/pc_core.cpp) and the timer interrupt that wakes sleepers             *)
(* (port/alarm.cpp), for start, yield, exit, join and sleep.               *)
(*                                                                         *)
(* Each core has a program counter; what it executes is either a thread,   *)
(* an interrupt handler on top of one, or its own loop Core::reschedule(). *)
(* Kernel code runs with interrupts disabled, so a core is interrupted     *)
(* only in thread code and in the idle loop.  Every Lock is explicit (a    *)
(* thread's own, a rendezvous point's) except the scheduler's, whose       *)
(* critical sections never block and are single steps.  A lock is a bit in *)
(* the code; here it remembers the core that set it.                       *)
(***************************************************************************)
EXTENDS Integers, SequencesExt

CONSTANTS
    Threads,    \* all Thread objects
    Boot,       \* the thread esInit() makes of main()
    Cores,
    BootCore,   \* the bootstrap processor, which runs Boot and keeps time
    Prios,      \* the priorities in use
    NoThread,   \* null Thread*
    NoCore,     \* null Core*, and a free lock
    NoPoint     \* null Rendezvous*

ASSUME BootAssumption == Boot \in Threads /\ BootCore \in Cores
ASSUME PriosAssumption == Prios \subseteq Nat
ASSUME NullAssumption == NoThread \notin Threads /\ NoCore \notin Cores

(* The rendezvous points of a thread: where others wait for its end, and     *)
(* where it waits for its own alarm.                                         *)
JoinPoint(t) == <<"joinPoint", t>>
SleepPoint(t) == <<"sleepPoint", t>>
Points == {"joinPoint", "sleepPoint"} \X Threads

ASSUME PointAssumption == NoPoint \notin Points

VARIABLES
    \* Thread
    state, prio, core, rendezvous, tlock,
    val,        \* whether Thread::val holds the exit value yet
    alarm,      \* "off", "pending" or "due": now has reached nextTick
    label,      \* where a suspended thread resumes: the point in whose
                \* sleep() it is, or NoPoint in its own code
    \* Rendezvous
    rlock, queue,
    \* Sched
    runQueue, runQueueBits, runQueueHint,
    \* Core
    pc,
    current,    \* Core::current
    self,       \* the local variable current of Core::reschedule() and of
                \* dispatchException(): the thread whose context is in use
    point,      \* the rendezvous point the code being executed works on
    peer,       \* the thread being started, or taken off a queue
    after       \* where wakeup() returns to

threadVars == <<state, prio, core, rendezvous, tlock, val, alarm, label>>
pointVars == <<rlock, queue>>
schedVars == <<runQueue, runQueueBits, runQueueHint>>
coreVars == <<pc, current, self, point, peer, after>>
vars == <<threadVars, pointVars, schedVars, coreVars>>

Init ==
    /\ state = [t \in Threads |-> IF t = Boot THEN "RUNNING" ELSE "NEW"]
    /\ prio \in [Threads -> Prios]
    /\ core = [t \in Threads |-> IF t = Boot THEN BootCore ELSE NoCore]
    /\ rendezvous = [t \in Threads |-> NoPoint]
    /\ tlock = [t \in Threads |-> NoCore]
    /\ val = [t \in Threads |-> FALSE]
    /\ alarm = [t \in Threads |-> "off"]
    /\ label = [t \in Threads |-> NoPoint]
    /\ rlock = [r \in Points |-> NoCore]
    /\ queue = [r \in Points |-> <<>>]
    /\ runQueue = [p \in Prios |-> <<>>]
    /\ runQueueBits = {}
    /\ runQueueHint = FALSE
    /\ pc = [c \in Cores |-> IF c = BootCore THEN "thread" ELSE "select"]
    /\ current = [c \in Cores |-> IF c = BootCore THEN Boot ELSE NoThread]
    /\ self = [c \in Cores |-> IF c = BootCore THEN Boot ELSE NoThread]
    /\ point = [c \in Cores |-> NoPoint]
    /\ peer = [c \in Cores |-> NoThread]
    /\ after = [c \in Cores |-> "isr"]

-----------------------------------------------------------------------------
(* Sub-actions. *)

At(c, p) == pc[c] = p
Goto(c, p) == pc' = [pc EXCEPT ![c] = p]
Free(lock) == lock = NoCore
SetLock(t, c) == tlock' = [tlock EXCEPT ![t] = c]
SetState(t, s) == state' = [state EXCEPT ![t] = s]

(* Operators whose comment begins with "Mistake" are not part of the model:  *)
(* each is the operator that follows it with one plausible error, to show    *)
(* which property notices it.                                                *)

(* Mistake: setRun() does not set the bit of the queue. *)
SetRunNoBit(t) ==
    /\ SetState(t, "RUNNABLE")
    /\ runQueue' = [runQueue EXCEPT ![prio[t]] = Append(@, t)]
    /\ runQueueHint' = TRUE
    /\ UNCHANGED runQueueBits

(* Sched::setRun(). *)
SetRun(t) ==
    /\ SetState(t, "RUNNABLE")
    /\ runQueue' = [runQueue EXCEPT ![prio[t]] = Append(@, t)]
    /\ runQueueBits' = runQueueBits \cup {prio[t]}
    /\ runQueueHint' = TRUE

(* Queue::addPrio() of a thread with priority p: before the first of a lower *)
(* priority.                                                                 *)
InsertPrio(q, t, p) ==
    LET lower == {i \in 1 .. Len(q) : prio[q[i]] < p}
    IN  InsertAt(q, IF lower = {} THEN Len(q) + 1 ELSE Min(lower), t)

(* Thread::condJoin() and Thread::condSleep(). *)
Condition(r) ==
    IF r[1] = "joinPoint" THEN state[r[2]] = "TERMINATED"
                          ELSE alarm[r[2]] # "pending"

-----------------------------------------------------------------------------
(* Calls of the thread that is running.  Each is made in thread code, with   *)
(* interrupts enabled.                                                       *)

Running(c) == At(c, "thread")

(* Thread::start(), called once, by the creator of the thread. *)
CallStart(c, u) ==
    /\ Running(c)
    /\ state[u] = "NEW"
    /\ \A d \in Cores : ~(At(d, "start") /\ peer[d] = u)
    /\ peer' = [peer EXCEPT ![c] = u]
    /\ Goto(c, "start")
    /\ UNCHANGED <<threadVars, pointVars, schedVars, current, self, point, after>>

Start(c) ==
    LET u == peer[c] IN
    /\ At(c, "start")
    /\ Free(tlock[u])
    /\ SetLock(u, c)
    /\ \/ state[u] = "NEW" /\ SetRun(u)
       \/ state[u] # "NEW" /\ UNCHANGED <<state, schedVars>>
    /\ Goto(c, "startUnlock")
    /\ UNCHANGED <<prio, core, rendezvous, val, alarm, label, pointVars,
                   current, self, point, peer, after>>

(* Mistake: start() does not reschedule. *)
StartUnlockStays(c) ==
    /\ At(c, "startUnlock")
    /\ SetLock(peer[c], NoCore)
    /\ peer' = [peer EXCEPT ![c] = NoThread]
    /\ Goto(c, "thread")
    /\ UNCHANGED <<state, prio, core, rendezvous, val, alarm, label, pointVars,
                   schedVars, current, self, point, after>>

StartUnlock(c) ==
    /\ At(c, "startUnlock")
    /\ SetLock(peer[c], NoCore)
    /\ peer' = [peer EXCEPT ![c] = NoThread]
    /\ Goto(c, "reschedule")
    /\ UNCHANGED <<state, prio, core, rendezvous, val, alarm, label, pointVars,
                   schedVars, current, self, point, after>>

(* Sched::yield(). *)
CallYield(c) ==
    /\ Running(c)
    /\ Goto(c, "reschedule")
    /\ UNCHANGED <<threadVars, pointVars, schedVars, current, self, point, peer, after>>

(* Thread::join(). *)
CallJoin(c, u) ==
    /\ Running(c)
    /\ u # current[c]
    /\ point' = [point EXCEPT ![c] = JoinPoint(u)]
    /\ Goto(c, "sleep")
    /\ UNCHANGED <<threadVars, pointVars, schedVars, current, self, peer, after>>

(* Thread::sleep(): the alarm is set first.  An interval of zero sets none,  *)
(* and the alarm counts as expired.                                          *)
CallSleep(c) ==
    /\ Running(c)
    /\ \E a \in {"off", "pending"} : alarm' = [alarm EXCEPT ![current[c]] = a]
    /\ point' = [point EXCEPT ![c] = SleepPoint(current[c])]
    /\ Goto(c, "sleep")
    /\ UNCHANGED <<state, prio, core, rendezvous, tlock, val, label, pointVars,
                   schedVars, current, self, peer, after>>

(* Thread::exit(): TERMINATED under the thread's own lock, which is kept     *)
(* over the wake-up of those that join it.                                   *)
CallExit(c) ==
    /\ Running(c)
    /\ Goto(c, "exit")
    /\ UNCHANGED <<threadVars, pointVars, schedVars, current, self, point, peer, after>>

Exit(c) ==
    LET t == current[c] IN
    /\ At(c, "exit")
    /\ Free(tlock[t])
    /\ SetLock(t, c)
    /\ SetState(t, "TERMINATED")
    /\ Goto(c, "exitVal")
    /\ UNCHANGED <<prio, core, rendezvous, val, alarm, label, pointVars,
                   schedVars, current, self, point, peer, after>>

(* Mistake: the value is not stored. *)
ExitValForgets(c) ==
    LET t == current[c] IN
    /\ At(c, "exitVal")
    /\ point' = [point EXCEPT ![c] = JoinPoint(t)]
    /\ after' = [after EXCEPT ![c] = "exitUnlock"]
    /\ Goto(c, "wakeup")
    /\ UNCHANGED <<threadVars, pointVars, schedVars, current, self, peer>>

(* Mistake: exit() returns to its caller after waking the others. *)
ExitValReturns(c) ==
    LET t == current[c] IN
    /\ At(c, "exitVal")
    /\ val' = [val EXCEPT ![t] = TRUE]
    /\ point' = [point EXCEPT ![c] = JoinPoint(t)]
    /\ after' = [after EXCEPT ![c] = "thread"]
    /\ Goto(c, "wakeup")
    /\ UNCHANGED <<state, prio, core, rendezvous, tlock, alarm, label, pointVars,
                   schedVars, current, self, peer>>

ExitVal(c) ==
    LET t == current[c] IN
    /\ At(c, "exitVal")
    /\ val' = [val EXCEPT ![t] = TRUE]
    /\ point' = [point EXCEPT ![c] = JoinPoint(t)]
    /\ after' = [after EXCEPT ![c] = "exitUnlock"]
    /\ Goto(c, "wakeup")
    /\ UNCHANGED <<state, prio, core, rendezvous, tlock, alarm, label, pointVars,
                   schedVars, current, self, peer>>

ExitUnlock(c) ==
    /\ At(c, "exitUnlock")
    /\ SetLock(current[c], NoCore)
    /\ point' = [point EXCEPT ![c] = NoPoint]
    /\ after' = [after EXCEPT ![c] = "isr"]
    /\ Goto(c, "reschedule")
    /\ UNCHANGED <<state, prio, core, rendezvous, val, alarm, label, pointVars,
                   schedVars, current, self, peer>>

-----------------------------------------------------------------------------
(* Rendezvous::sleep(), from the top of its loop: lock the point, evaluate   *)
(* the condition, and return if it holds.                                    *)
SleepReturn(c) ==
    LET r == point[c] IN
    /\ At(c, "sleep")
    /\ Free(rlock[r])
    /\ Condition(r)
    /\ point' = [point EXCEPT ![c] = NoPoint]
    /\ Goto(c, "thread")
    /\ UNCHANGED <<threadVars, pointVars, schedVars, current, self, peer, after>>

SleepTest(c) ==
    LET r == point[c] IN
    /\ At(c, "sleep")
    /\ Free(rlock[r])
    /\ ~Condition(r)
    /\ rlock' = [rlock EXCEPT ![r] = c]
    /\ Goto(c, "enqueue")
    /\ UNCHANGED <<threadVars, queue, schedVars, current, self, point, peer, after>>

(* Lock the thread, queue it, and keep it locked over the context switch.    *)
SleepEnqueue(c) ==
    LET r == point[c]
        t == current[c]
    IN
    /\ At(c, "enqueue")
    /\ Free(tlock[t])
    /\ SetLock(t, c)
    /\ queue' = [queue EXCEPT ![r] = InsertPrio(@, t, prio[t])]
    /\ SetState(t, "WAITING")
    /\ rendezvous' = [rendezvous EXCEPT ![t] = r]
    /\ rlock' = [rlock EXCEPT ![r] = NoCore]
    /\ Goto(c, "reschedule")
    /\ UNCHANGED <<prio, core, val, alarm, label, schedVars, current, self, point, peer, after>>

(* Rendezvous::wakeup(): every thread on the queue, the first first.         *)
Wakeup(c) ==
    LET r == point[c] IN
    /\ At(c, "wakeup")
    /\ Free(rlock[r])
    /\ rlock' = [rlock EXCEPT ![r] = c]
    /\ Goto(c, "wake")
    /\ UNCHANGED <<threadVars, queue, schedVars, current, self, point, peer, after>>

(* Mistake: the point is not unlocked. *)
WakeDoneLocked(c) ==
    /\ At(c, "wake")
    /\ queue[point[c]] = <<>>
    /\ Goto(c, after[c])
    /\ UNCHANGED <<threadVars, pointVars, schedVars, current, self, point, peer, after>>

WakeDone(c) ==
    LET r == point[c] IN
    /\ At(c, "wake")
    /\ queue[r] = <<>>
    /\ rlock' = [rlock EXCEPT ![r] = NoCore]
    /\ Goto(c, after[c])
    /\ UNCHANGED <<threadVars, queue, schedVars, current, self, point, peer, after>>

WakeFirst(c) ==
    LET r == point[c]
        u == Head(queue[r])
    IN
    /\ At(c, "wake")
    /\ queue[r] # <<>>
    /\ Free(tlock[u])
    /\ SetLock(u, c)
    /\ queue' = [queue EXCEPT ![r] = Tail(@)]
    /\ rendezvous' = [rendezvous EXCEPT ![u] = NoPoint]
    /\ SetRun(u)
    /\ peer' = [peer EXCEPT ![c] = u]
    /\ Goto(c, "wakeUnlock")
    /\ UNCHANGED <<prio, core, val, alarm, label, rlock, current, self, point, after>>

WakeUnlock(c) ==
    /\ At(c, "wakeUnlock")
    /\ SetLock(peer[c], NoCore)
    /\ peer' = [peer EXCEPT ![c] = NoThread]
    /\ Goto(c, "wake")
    /\ UNCHANGED <<state, prio, core, rendezvous, val, alarm, label, pointVars,
                   schedVars, current, self, point, after>>

(* Mistake: a thread that is locked is passed over. *)
WakeBusyGivesUp(c) ==
    LET r == point[c] IN
    /\ At(c, "wake")
    /\ queue[r] # <<>>
    /\ ~Free(tlock[Head(queue[r])])
    /\ rlock' = [rlock EXCEPT ![r] = NoCore]
    /\ Goto(c, after[c])
    /\ UNCHANGED <<threadVars, queue, schedVars, current, self, point, peer, after>>

(* The first is still on its way out: give the point up and wait for it.     *)
WakeBusy(c) ==
    LET r == point[c]
        u == Head(queue[r])
    IN
    /\ At(c, "wake")
    /\ queue[r] # <<>>
    /\ ~Free(tlock[u])
    /\ rlock' = [rlock EXCEPT ![r] = NoCore]
    /\ peer' = [peer EXCEPT ![c] = u]
    /\ Goto(c, "wakeWait")
    /\ UNCHANGED <<threadVars, queue, schedVars, current, self, point, after>>

WakeWait(c) ==
    /\ At(c, "wakeWait")
    /\ Free(tlock[peer[c]])
    /\ peer' = [peer EXCEPT ![c] = NoThread]
    /\ Goto(c, "wakeup")
    /\ UNCHANGED <<threadVars, pointVars, schedVars, current, self, point, after>>

-----------------------------------------------------------------------------
(* Thread::reschedule(). *)

(* Nothing has been made runnable: the thread goes on.  Its lock is taken if *)
(* it can be, and released in any case.                                      *)
RescheduleStay(c) ==
    LET t == current[c] IN
    /\ At(c, "reschedule")
    /\ t # NoThread
    /\ state[t] = "RUNNING"
    /\ ~runQueueHint
    /\ SetLock(t, NoCore)
    /\ Goto(c, "thread")
    /\ UNCHANGED <<state, prio, core, rendezvous, val, alarm, label, pointVars,
                   schedVars, current, self, point, peer, after>>

(* Save the context in the thread's label and jump to Core::reschedule().    *)
RescheduleOut(c) ==
    LET t == current[c] IN
    /\ At(c, "reschedule")
    /\ t # NoThread
    /\ state[t] # "RUNNING" \/ runQueueHint
    /\ label' = [label EXCEPT ![t] = point[c]]
    /\ point' = [point EXCEPT ![c] = NoPoint]
    /\ Goto(c, "switch")
    /\ UNCHANGED <<state, prio, core, rendezvous, tlock, val, alarm, pointVars,
                   schedVars, current, self, peer, after>>

(* Out of an interrupt of the idle loop. *)
RescheduleIdle(c) ==
    /\ At(c, "reschedule")
    /\ current[c] = NoThread
    /\ Goto(c, "select")
    /\ UNCHANGED <<threadVars, pointVars, schedVars, current, self, point, peer, after>>

(* Mistake: the thread is not locked while it is switched away from. *)
SwitchLockNot(c) ==
    LET t == self[c] IN
    /\ At(c, "switch")
    /\ current' = [current EXCEPT ![c] = NoThread]
    /\ Goto(c, CASE state[t] = "TERMINATED" -> "leave"
                 [] state[t] = "RUNNING" -> "setRun"
                 [] OTHER -> "save")
    /\ UNCHANGED <<threadVars, pointVars, schedVars, self, point, peer, after>>

(* Mistake: a terminated thread is queued like a preempted one. *)
SwitchLockDead(c) ==
    LET t == self[c] IN
    /\ At(c, "switch")
    /\ SetLock(t, IF Free(tlock[t]) THEN c ELSE tlock[t])
    /\ current' = [current EXCEPT ![c] = NoThread]
    /\ Goto(c, IF state[t] = "WAITING" THEN "save" ELSE "setRun")
    /\ UNCHANGED <<state, prio, core, rendezvous, val, alarm, label, pointVars,
                   schedVars, self, point, peer, after>>

(* Core::reschedule().  The result of tryLock() is not looked at: the thread *)
(* is already locked when it comes from Rendezvous::sleep().                 *)
SwitchLock(c) ==
    LET t == self[c] IN
    /\ At(c, "switch")
    /\ SetLock(t, IF Free(tlock[t]) THEN c ELSE tlock[t])
    /\ current' = [current EXCEPT ![c] = NoThread]
    /\ Goto(c, CASE state[t] = "TERMINATED" -> "leave"
                 [] state[t] = "RUNNING" -> "setRun"
                 [] OTHER -> "save")
    /\ UNCHANGED <<state, prio, core, rendezvous, val, alarm, label, pointVars,
                   schedVars, self, point, peer, after>>

SwitchSetRun(c) ==
    /\ At(c, "setRun")
    /\ SetRun(self[c])
    /\ Goto(c, "save")
    /\ UNCHANGED <<prio, core, rendezvous, tlock, val, alarm, label, pointVars,
                   current, self, point, peer, after>>

(* Save the FPU and detach the thread from the core. *)
SwitchSave(c) ==
    /\ At(c, "save")
    /\ core' = [core EXCEPT ![self[c]] = NoCore]
    /\ Goto(c, "leave")
    /\ UNCHANGED <<state, prio, rendezvous, tlock, val, alarm, label, pointVars,
                   schedVars, current, self, point, peer, after>>

SwitchLeave(c) ==
    /\ At(c, "leave")
    /\ SetLock(self[c], NoCore)
    /\ self' = [self EXCEPT ![c] = NoThread]
    /\ Goto(c, "select")
    /\ UNCHANGED <<state, prio, core, rendezvous, val, alarm, label, pointVars,
                   schedVars, current, point, peer, after>>

(* Sched::selectThread(): the first of the highest priority, if it can be    *)
(* locked; otherwise the core goes round again.                              *)
Select(c) ==
    /\ At(c, "select")
    /\ \E p \in runQueueBits :
        LET t == Head(runQueue[p])
            rest == Tail(runQueue[p])
        IN
        /\ \A q \in runQueueBits : q <= p
        /\ Free(tlock[t])
        /\ SetLock(t, c)
        /\ runQueue' = [runQueue EXCEPT ![p] = rest]
        /\ runQueueBits' = IF rest = <<>> THEN runQueueBits \ {p} ELSE runQueueBits
        /\ SetState(t, "RUNNING")
        /\ core' = [core EXCEPT ![t] = c]
        /\ self' = [self EXCEPT ![c] = t]
    /\ Goto(c, "selected")
    /\ UNCHANGED <<prio, rendezvous, val, alarm, label, pointVars, runQueueHint,
                   current, point, peer, after>>

(* next->unlock(), core->current = next, and the jump to its label.          *)
Selected(c) ==
    LET t == self[c] IN
    /\ At(c, "selected")
    /\ SetLock(t, NoCore)
    /\ current' = [current EXCEPT ![c] = t]
    /\ point' = [point EXCEPT ![c] = label[t]]
    /\ label' = [label EXCEPT ![t] = NoPoint]
    /\ Goto(c, IF label[t] = NoPoint THEN "thread" ELSE "sleep")
    /\ UNCHANGED <<state, prio, core, rendezvous, val, alarm, pointVars,
                   schedVars, self, peer, after>>

-----------------------------------------------------------------------------
(* An interrupt, in thread code or in the idle loop: Core::current is null   *)
(* and rescheduling is frozen until the handler is done.  The timer of the   *)
(* boot core advances the clock, past the next tick of any alarms D.         *)
Interrupt(c) ==
    /\ pc[c] \in {"thread", "select"}
    /\ current' = [current EXCEPT ![c] = NoThread]
    /\ \E D \in SUBSET {t \in Threads : alarm[t] = "pending"} :
        /\ c # BootCore => D = {}
        /\ alarm' = [t \in Threads |-> IF t \in D THEN "due" ELSE alarm[t]]
    /\ Goto(c, "isr")
    /\ UNCHANGED <<state, prio, core, rendezvous, tlock, val, label, pointVars,
                   schedVars, self, point, peer, after>>

(* Mistake: the callback is not called. *)
AlarmExpireSilently(c) ==
    /\ At(c, "isr")
    /\ c = BootCore
    /\ \E t \in Threads :
        /\ alarm[t] = "due"
        /\ alarm' = [alarm EXCEPT ![t] = "off"]
    /\ UNCHANGED <<state, prio, core, rendezvous, tlock, val, label, pointVars,
                   schedVars, coreVars>>

(* Alarm::Queue::process(): take an expired alarm off, then call back        *)
(* Thread::invoke(), which wakes the sleep point, without the alarm lock.    *)
AlarmExpire(c) ==
    /\ At(c, "isr")
    /\ c = BootCore
    /\ \E t \in Threads :
        /\ alarm[t] = "due"
        /\ alarm' = [alarm EXCEPT ![t] = "off"]
        /\ point' = [point EXCEPT ![c] = SleepPoint(t)]
    /\ Goto(c, "wakeup")
    /\ UNCHANGED <<state, prio, core, rendezvous, tlock, val, label, pointVars,
                   schedVars, current, self, peer, after>>

InterruptEnd(c) ==
    /\ At(c, "isr")
    /\ c = BootCore => \A t \in Threads : alarm[t] # "due"
    /\ current' = [current EXCEPT ![c] = self[c]]
    /\ point' = [point EXCEPT ![c] = NoPoint]
    /\ Goto(c, "reschedule")
    /\ UNCHANGED <<threadVars, pointVars, schedVars, self, peer, after>>

-----------------------------------------------------------------------------
Call(c) ==
    \/ CallYield(c) \/ CallSleep(c) \/ CallExit(c)
    \/ \E u \in Threads : CallStart(c, u) \/ CallJoin(c, u)

Step(c) ==
    \/ Start(c) \/ StartUnlock(c)
    \/ Exit(c) \/ ExitVal(c) \/ ExitUnlock(c)
    \/ SleepReturn(c) \/ SleepTest(c) \/ SleepEnqueue(c)
    \/ Wakeup(c) \/ WakeDone(c) \/ WakeFirst(c) \/ WakeUnlock(c)
    \/ WakeBusy(c) \/ WakeWait(c)
    \/ RescheduleStay(c) \/ RescheduleOut(c) \/ RescheduleIdle(c)
    \/ SwitchLock(c) \/ SwitchSetRun(c) \/ SwitchSave(c) \/ SwitchLeave(c)
    \/ Select(c) \/ Selected(c)
    \/ AlarmExpire(c) \/ InterruptEnd(c)

Next == \E c \in Cores : Call(c) \/ Step(c) \/ Interrupt(c)

Spec == Init /\ [][Next]_vars

(* A core goes on executing kernel code; a pending interrupt is taken when   *)
(* the core next enables interrupts, however briefly; handlers leave an idle *)
(* core time to look at the run queue between two interrupts; and the clock  *)
(* of the boot core keeps running, so no alarm stays in the future for ever. *)
(* Nothing is assumed of what threads call.                                  *)
ClockPasses(t) ==
    /\ Interrupt(BootCore)
    /\ alarm[t] = "pending"
    /\ alarm'[t] = "due"

Fairness ==
    /\ \A c \in Cores :
          WF_vars(Step(c)) /\ SF_vars(Select(c)) /\ SF_vars(Interrupt(c))
    /\ \A t \in Threads : SF_vars(ClockPasses(t))

FairSpec == Spec /\ Fairness

-----------------------------------------------------------------------------
FieldsOK ==
    /\ state \in [Threads -> {"NEW", "RUNNABLE", "RUNNING", "WAITING", "TERMINATED"}]
    /\ prio \in [Threads -> Prios]
    /\ core \in [Threads -> Cores \cup {NoCore}]
    /\ rendezvous \in [Threads -> Points \cup {NoPoint}]
    /\ tlock \in [Threads -> Cores \cup {NoCore}]
    /\ val \in [Threads -> BOOLEAN]
    /\ alarm \in [Threads -> {"off", "pending", "due"}]
    /\ label \in [Threads -> Points \cup {NoPoint}]
    /\ rlock \in [Points -> Cores \cup {NoCore}]
    /\ queue \in [Points -> Seq(Threads)]
    /\ runQueue \in [Prios -> Seq(Threads)]
    /\ runQueueBits \subseteq Prios
    /\ runQueueHint \in BOOLEAN
    /\ current \in [Cores -> Threads \cup {NoThread}]
    /\ self \in [Cores -> Threads \cup {NoThread}]
    /\ point \in [Cores -> Points \cup {NoPoint}]
    /\ peer \in [Cores -> Threads \cup {NoThread}]

(* Every field has its type. *)
TypeOK ==
    /\ FieldsOK
    /\ pc \in [Cores ->
               {"thread", "start", "startUnlock", "exit", "exitVal", "exitUnlock",
                "sleep", "enqueue", "wakeup", "wake", "wakeUnlock", "wakeWait",
                "reschedule", "switch", "setRun", "save", "leave", "select",
                "selected", "isr"}]
    /\ after \in [Cores -> {"isr", "exitUnlock"}]

(* No thread is on two cores: a thread that another core is still switching  *)
(* away from is not selected, although it is already on the run queue or was *)
(* woken meanwhile, because its lock is held until its context is saved (the *)
(* note at rendezvous.cpp:46).  And Thread::core names the core that runs    *)
(* it, as asserted at pc_thread.cpp:64 and pc_core.cpp:637.                  *)
OnOneCore ==
    /\ \A c, d \in Cores : self[c] = self[d] /\ self[c] # NoThread => c = d
    /\ \A c \in Cores :
          self[c] # NoThread /\ pc[c] # "leave" => core[self[c]] = c

(* The run queue and the states agree: the threads that are RUNNABLE are the *)
(* ones queued, each once and in the queue of its priority, and the bit map  *)
(* tells which queues are not empty (what selectThread() relies on at        *)
(* sched.cpp:81-95).                                                         *)
Queued(t) == \E i \in 1 .. Len(runQueue[prio[t]]) : runQueue[prio[t]][i] = t

RunQueueExact ==
    /\ \A p \in Prios : p \in runQueueBits <=> runQueue[p] # <<>>
    /\ \A p \in Prios : \A i \in 1 .. Len(runQueue[p]) :
          /\ state[runQueue[p][i]] = "RUNNABLE"
          /\ prio[runQueue[p][i]] = p
          /\ \A j \in 1 .. Len(runQueue[p]) : runQueue[p][i] = runQueue[p][j] => i = j
    /\ \A t \in Threads : state[t] = "RUNNABLE" => Queued(t)

(* A thread is WAITING exactly while it is on the queue of the rendezvous    *)
(* point it names, and that queue is in order of priority (rendezvous.cpp:70 *)
(* and Queue::addPrio()).                                                    *)
WaitQueueExact ==
    /\ \A r \in Points : \A i \in 1 .. Len(queue[r]) :
          /\ state[queue[r][i]] = "WAITING"
          /\ rendezvous[queue[r][i]] = r
          /\ \A j \in 1 .. Len(queue[r]) :
                /\ queue[r][i] = queue[r][j] => i = j
                /\ i < j => prio[queue[r][i]] >= prio[queue[r][j]]
    /\ \A t \in Threads : state[t] = "WAITING" =>
          /\ rendezvous[t] \in Points
          /\ \E i \in 1 .. Len(queue[rendezvous[t]]) : queue[rendezvous[t]][i] = t

(* A core releases only a lock that it holds itself.  Lock::unlock() checks  *)
(* no more than that the bit is set (lock.cpp:84), and the context switch    *)
(* unlocks a thread whether or not its tryLock() succeeded.                  *)
UnlocksOwnLock ==
    \A c \in Cores :
        /\ pc[c] \in {"startUnlock", "wakeUnlock"} => tlock[peer[c]] = c
        /\ pc[c] \in {"leave", "selected", "exitUnlock"} => tlock[self[c]] = c
        /\ pc[c] \in {"wake", "wakeUnlock", "enqueue"} => rlock[point[c]] = c
        /\ At(c, "reschedule") /\ self[c] # NoThread /\ state[self[c]] = "RUNNING"
              => Free(tlock[self[c]])

(* No wake-up is lost: whoever waits for a thread that is gone, or for an    *)
(* alarm that has been taken off its queue, has a core coming to wake it,    *)
(* even if it decided to wait just before (rendezvous.cpp:29-49).            *)
Waking(c, r) ==
    \/ pc[c] \in {"wakeup", "wake", "wakeUnlock", "wakeWait"} /\ point[c] = r
    \/ At(c, "exitVal") /\ r = JoinPoint(current[c])

Awaited(r) ==
    queue[r] # <<>> \/ \E c \in Cores : At(c, "enqueue") /\ point[c] = r

NoLostWakeup ==
    \A r \in Points : Awaited(r) /\ Condition(r) =>
        \/ \E c \in Cores : Waking(c, r)
        \/ r[1] = "sleepPoint" /\ alarm[r[2]] = "due"

(* On a uniprocessor no lock is ever found taken: lock() asserts it at       *)
(* lock.cpp:73, for nobody else could release it.                            *)
NeverSpinsAlone ==
    Cores = {BootCore} =>
        /\ pc[BootCore] = "start" => Free(tlock[peer[BootCore]])
        /\ pc[BootCore] \in {"exit", "enqueue"} => Free(tlock[current[BootCore]])
        /\ pc[BootCore] \in {"sleep", "wakeup"} => Free(rlock[point[BootCore]])
        /\ pc[BootCore] # "wakeWait"

(* On a uniprocessor a thread never executes while one of a higher priority  *)
(* is runnable: each way of making a thread runnable ends in a reschedule(). *)
HighestRuns ==
    Cores = {BootCore} /\ Running(BootCore) =>
        \A u \in Threads : state[u] = "RUNNABLE" => prio[u] <= prio[current[BootCore]]

(* join() returns the value the thread exited with. *)
JoinGetsValue ==
    [][\A c \in Cores : \A u \in Threads :
         SleepReturn(c) /\ point[c] = JoinPoint(u) => val[u]]_vars

(* The dispatcher implements the life cycle of es::Thread. *)
Life == INSTANCE ThreadLife WITH life <- state, on <- self
ImplementsThreadLife == Life!Spec

(* A thread that waits for one that terminates, or for its alarm, gets back  *)
(* to its own code, if there is only one priority.                           *)
Resumes(t) == \E c \in Cores : Running(c) /\ current[c] = t

JoinReturns ==
    \A t, u \in Threads :
        rendezvous[t] = JoinPoint(u) /\ state[u] = "TERMINATED" ~> Resumes(t)

SleepReturns == \A t \in Threads : rendezvous[t] = SleepPoint(t) ~> Resumes(t)

(* A core does not spin for ever: it gets back to a thread or to the idle    *)
(* loop from wherever it is in the kernel (the bound asserted at lock.cpp:56 *)
(* is met).                                                                  *)
KernelIsLeft ==
    \A c \in Cores :
        pc[c] \notin {"thread", "select"} ~> pc[c] \in {"thread", "select"}
=============================================================================

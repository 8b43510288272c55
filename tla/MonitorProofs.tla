--------------------------- MODULE MonitorProofs ---------------------------
(***************************************************************************)
(* Monitor for every number of threads, cores, monitors and priorities:    *)
(* who holds a monitor owns it, the queues are exact, and no thread that   *)
(* waits for a monitor or that is notified is forgotten; and what one core *)
(* adds to that.                                                           *)
(***************************************************************************)
EXTENDS Monitor, ListLemmas

-----------------------------------------------------------------------------
(* The inductive invariant. *)

LockPoints == {"rendezvous"} \X Monitors
CvPoints == {"cv"} \X Monitors

AtMonitor == {"inherit", "inheritOwner", "raise", "ownerWait", "tryLock", "tryList",
              "unlock", "unlockList", "restore"}
AtCondition == {"waitRelease", "waitList"}
AtPoint == {"sleep", "enqueue", "switch", "waiting", "wakeup", "wake", "wakeWait"}
Asleep == {"sleep", "enqueue", "switch", "waiting"}
Waking == {"wakeup", "wake", "wakeWait"}
Updating == {"update", "reset"}

(* What the variables of a process hold at each place. *)
PlaceOK(p) ==
    /\ pc[p] \in AtMonitor => pt[p] \in LockPoints
    /\ pc[p] \in AtCondition => pt[p] \in CvPoints
    /\ pc[p] \in AtPoint => pt[p] \in Points
    /\ pc[p] \in Updating /\ ret[p] # "thread" => pt[p] \in LockPoints
    /\ pc[p] \in Updating \cup {"ownerWait", "wakeWait"} => who[p] \in Threads
    /\ pc[p] \notin Updating => ret[p] = "thread"
    /\ pc[p] # "reset" => got[p] = {}

OnCondition(t) ==
    \/ pc[t] \in AtCondition \cup {"restore"}
    \/ pc[t] \in Asleep /\ pt[t] \in CvPoints
    \/ pc[t] \in Updating /\ ret[t] = "wakeup"

(* A thread in wait(): count is what it will restore. *)
WaitOK(t) ==
    /\ count[t] > 0 =>
         /\ pt[t] \in Points /\ depth[t][pt[t][2]] = 0
         /\ \/ pc[t] \in AtCondition \cup Asleep
                  \cup {"inherit", "inheritOwner", "raise", "ownerWait", "restore"}
            \/ pc[t] \in Updating /\ ret[t] \in {"enqueue", "wakeup"}
            \/ pc[t] \in Waking /\ pt[t] \in LockPoints
    /\ OnCondition(t) => count[t] > 0
    /\ alarm[t] # "none" => count[t] > 0

(* A thread that waits, or that has ended. *)
Ending(t) == pc[t] = "exit" \/ state[t] = "TERMINATED"

StateOK(t) ==
    /\ state[t] = "WAITING" => pc[t] \in {"switch", "waiting"} /\ rendezvous[t] = pt[t]
    /\ state[t] = "TERMINATED" => pc[t] \in {"exitNext", "dead"} \cup Waking
    /\ pc[t] \in {"exitNext", "dead"} => state[t] = "TERMINATED"
    /\ Ending(t) => count[t] = 0 /\ \A m \in Monitors : depth[t][m] = 0
    /\ monitor[t] # None =>
          /\ pt[t] = LockPoint(monitor[t])
          /\ \/ pc[t] \in Asleep
             \/ pc[t] \in Updating /\ ret[t] = "enqueue"
    /\ \A m \in Monitors : pt[t] = LockPoint(m) => depth[t][m] < MaxDepth

PlacesOK == \A p \in Procs : PlaceOK(p)
WaitsOK == \A t \in Threads : WaitOK(t)
StatesOK == \A t \in Threads : StateOK(t)
TimerOK == pc[Timer] \in {"thread"} \cup Waking

(* Which rendezvous points a process has locked: the one it works on, that   *)
(* of the condition variable all through condWait(), and in resetPriority()  *)
(* those of the monitors it has got.                                         *)
WorksLocked(p) ==
    \/ pc[p] \in {"inherit", "inheritOwner", "raise", "enqueue", "unlockList", "tryList",
                  "wake"} \cup AtCondition
    \/ pc[p] \in Updating /\ ret[p] \in {"enqueue", "wake"}

WaitsLocked(p) ==
    \/ pc[p] \in Updating /\ ret[p] = "wakeup"
    \/ pc[p] \in Waking /\ p \in Threads /\ count[p] > 0

HoldsPoint(p, r) ==
    \/ WorksLocked(p) /\ r = pt[p]
    \/ WaitsLocked(p) /\ r = CvPoint(pt[p][2])

PointsHeldBy(p) ==
    /\ \A r \in Points : HoldsPoint(p, r) => rlock[r] = p
    /\ \A m \in got[p] : rlock[LockPoint(m)] = p /\ ~HoldsPoint(p, LockPoint(m))

PointsHeld == \A p \in Procs : PointsHeldBy(p)

(* Who owns a monitor: a thread that knows it does, that is about to know or *)
(* to give it up, or that ends.                                              *)
Passing(t, m) ==
    \/ pc[t] \in {"unlock", "unlockList", "tryList", "waitRelease", "restore"}
         /\ pt[t][2] = m
    \/ pc[t] = "sleep" /\ pt[t] = CvPoint(m)
    \/ Ending(t)

OwnerOK(t, m) ==
    /\ depth[t][m] > 0 => owner[m] = t
    /\ owner[m] = t /\ depth[t][m] > 0 =>
          lockCount[m] = depth[t][m] +
             (IF pc[t] = "unlock" /\ pt[t][2] = m THEN 1 ELSE 0)
    /\ owner[m] = t /\ depth[t][m] = 0 => Passing(t, m)
    /\ pc[t] \in {"unlock", "unlockList", "tryList", "waitRelease", "restore"}
         /\ pt[t][2] = m => owner[m] = t
    /\ pc[t] = "unlock" /\ pt[t][2] = m => lockCount[m] = depth[t][m] + 1
    /\ pc[t] = "unlockList" /\ pt[t][2] = m => lockCount[m] = 0 /\ depth[t][m] = 0
    /\ pc[t] = "tryList" /\ pt[t][2] = m => lockCount[m] = 1 /\ depth[t][m] = 0

OwnersOK ==
    /\ \A t \in Threads : \A m \in Monitors : OwnerOK(t, m)
    /\ \A m \in Monitors : owner[m] = None => lockCount[m] = 0

(* The list of a thread is that of the monitors it owns but for the moments  *)
(* in which condTryLock() has yet to link and condWait() to unlink one.      *)
ListOK(t) ==
    /\ Once(monitorList[t])
    /\ \A m \in Monitors : m \in ToSet(monitorList[t]) <=>
          \/ owner[m] = t /\ ~(pc[t] = "tryList" /\ pt[t][2] = m)
          \/ pc[t] = "waitList" /\ pt[t][2] = m

ListsOK == \A t \in Threads : ListOK(t)

(* A thread that holds the point of a monitor to queue itself there queues   *)
(* for an owner.                                                             *)
Contends(t) ==
    \/ pc[t] \in {"inherit", "inheritOwner", "raise"}
    \/ pc[t] \in Updating /\ ret[t] = "enqueue"
    \/ pc[t] = "enqueue" /\ pt[t] \in LockPoints

ContendersOK == \A t \in Threads : Contends(t) => owner[pt[t][2]] # None

CountsOK == TypeOK /\ PlacesOK /\ WaitsOK /\ StatesOK /\ TimerOK
IndInv == /\ CountsOK /\ PointsHeld /\ OwnersOK /\ ListsOK
          /\ QueuesExact /\ ContendersOK /\ NobodyForgotten

(* What one core adds: one process is in the kernel at a time. *)
OneInKernel == \A p, q \in Procs : InKernel(p) /\ InKernel(q) => p = q

(* The monitor that condWait() has given up is not taken before it is off    *)
(* the list, nor does the alarm go off before the thread is on the queue.    *)
GivenUp ==
    \A t \in Threads : pc[t] = "waitList" => owner[pt[t][2]] = None

Entering(t) ==
    \/ pc[t] = "sleep" /\ pt[t] \in CvPoints /\ owner[pt[t][2]] = t
    \/ pc[t] \in AtCondition
    \/ WaitsLocked(t)
    \/ pc[t] = "enqueue" /\ pt[t] \in CvPoints

AlarmsOK == \A t \in Threads : alarm[t] = "fired" => ~Entering(t)

(* condWait() resets the priority of its own thread alone. *)
OwnUpdates ==
    \A t \in Threads : pc[t] \in Updating /\ ret[t] = "wakeup" => who[t] = t

UpInv == IndInv /\ OneInKernel /\ GivenUp /\ AlarmsOK /\ TimeoutWakes /\ OwnUpdates

-----------------------------------------------------------------------------
(* Priorities and queues. *)

LEMMA PrioFacts ==
  /\ Prios \subseteq Nat
  /\ Min(Prios) \in Prios
  /\ \A N \in SUBSET Prios : N # {} => Max(N) \in N
<1>1. PICK b \in Prios : \A e \in Prios : e <= b
  BY MonitorAssumption
<1>2. Prios \subseteq Nat /\ Prios # {} /\ b \in Nat
  BY <1>1, MonitorAssumption
<1>3. Min(Prios) \in Prios
  BY <1>2, MinOfNaturals
<1>4. ASSUME NEW N \in SUBSET Prios, N # {} PROVE Max(N) \in N
  <2>1. N \in SUBSET Nat /\ \A j \in N : j <= b
    BY <1>1, <1>2
  <2> QED
    BY <2>1, <1>2, <1>4, MaxOfNaturals
<1> QED
  BY <1>2, <1>3, <1>4

(* t may stand before u. *)
InOrder(f) == {x \in Threads \X Threads : x[1] # x[2] /\ f[x[1]] >= f[x[2]]}

(* QueuesExact in terms of orders and sets. *)
LEMMA QueuesExactIs ==
  ASSUME TypeOK
  PROVE  QueuesExact <=>
           /\ \A r \in Points : Ordered(queue[r], InOrder(prio))
           /\ \A t \in Threads : \A r \in Points :
                 (state[t] = "WAITING" /\ rendezvous[t] = r) <=> t \in ToSet(queue[r])
<1>1. \A r \in Points : queue[r] \in Seq(Threads)
  BY DEF TypeOK
<1>2. ASSUME NEW r \in Points
      PROVE  \A i \in 1 .. Len(queue[r]) : queue[r][i] \in Threads
  BY <1>1
<1>3. \A r \in Points : Ordered(queue[r], InOrder(prio)) <=>
         \A i, j \in 1 .. Len(queue[r]) :
            i < j => queue[r][i] # queue[r][j] /\ prio[queue[r][i]] >= prio[queue[r][j]]
  BY <1>2 DEF Ordered, InOrder
<1>4. \A r \in Points : \A t : Contains(queue[r], t) <=> t \in ToSet(queue[r])
  BY <1>1, ListElements DEF Contains
<1> QED
  BY <1>3, <1>4 DEF QueuesExact

LEMMA QueuesExactIsNext ==
  ASSUME TypeOK'
  PROVE  QueuesExact' <=>
           /\ \A r \in Points : Ordered(queue'[r], InOrder(prio'))
           /\ \A t \in Threads : \A r \in Points :
                 (state'[t] = "WAITING" /\ rendezvous'[t] = r) <=> t \in ToSet(queue'[r])
<1>1. \A r \in Points : queue'[r] \in Seq(Threads)
  BY DEF TypeOK
<1>2. ASSUME NEW r \in Points
      PROVE  \A i \in 1 .. Len(queue'[r]) : queue'[r][i] \in Threads
  BY <1>1
<1>3. \A r \in Points : Ordered(queue'[r], InOrder(prio')) <=>
         \A i, j \in 1 .. Len(queue'[r]) :
            i < j => queue'[r][i] # queue'[r][j] /\ prio'[queue'[r][i]] >= prio'[queue'[r][j]]
  BY <1>2 DEF Ordered, InOrder
<1>4. \A r \in Points : \A t : Contains(queue'[r], t) <=> t \in ToSet(queue'[r])
  BY <1>1, ListElements DEF Contains
<1> QED
  BY <1>3, <1>4 DEF QueuesExact

(* Nobody is twice on an ordered queue. *)
LEMMA OrderedOnce ==
  ASSUME NEW q \in Seq(Threads), NEW f, Ordered(q, InOrder(f))
  PROVE  Once(q)
<1>1. Len(q) \in Nat
  BY LenProperties
<1>2. ASSUME NEW i \in 1 .. Len(q), NEW j \in 1 .. Len(q), q[i] = q[j] PROVE i = j
  <2>1. ~(i < j) /\ ~(j < i)
    BY <1>2 DEF Ordered, InOrder
  <2> QED
    BY <2>1, <1>1
<1> QED
  BY <1>2 DEF Once

(* Only the priorities of those on a queue matter to its order. *)
LEMMA OrderedFrame ==
  ASSUME NEW q \in Seq(Threads), NEW f, NEW g, Ordered(q, InOrder(f)),
         \A t \in ToSet(q) : g[t] = f[t]
  PROVE  Ordered(q, InOrder(g))
BY ListElements DEF Ordered, InOrder

(* Rendezvous::wakeup() takes the first off a queue. *)
LEMMA QueueTail ==
  ASSUME NEW q \in Seq(Threads), q # <<>>, NEW f, Ordered(q, InOrder(f))
  PROVE  /\ Head(q) \in Threads
         /\ Head(q) \in ToSet(q)
         /\ Tail(q) \in Seq(Threads)
         /\ Ordered(Tail(q), InOrder(f))
         /\ ToSet(Tail(q)) = ToSet(q) \ {Head(q)}
<1>1. Once(q)
  BY OrderedOnce
<1>2. /\ Head(q) \in ToSet(q) /\ Tail(q) \in Seq(Threads)
      /\ ToSet(Tail(q)) = ToSet(q) \ {Head(q)}
  BY <1>1, TailLists
<1> QED
  BY <1>2, TailOrdered, ListElements

(* Unlinking one. *)
LEMMA WithoutLists ==
  ASSUME NEW S, NEW q \in Seq(S), NEW x
  PROVE  /\ Without(q, x) \in Seq(S)
         /\ ToSet(Without(q, x)) = ToSet(q) \ {x}
         /\ Once(q) => Once(Without(q, x))
         /\ \A R : Ordered(q, R) => Ordered(Without(q, x), R)
BY OnlyLists, OnlyOrdered DEF Without

(* Queue::addPrio() of a thread that is not on the queue. *)
LEMMA InsertPrioLists ==
  ASSUME NEW q \in Seq(Threads), NEW u \in Threads, u \notin ToSet(q), NEW e \in Nat,
         prio \in [Threads -> Nat], Ordered(q, InOrder(prio))
  PROVE  /\ InsertPrio(q, u, e) \in Seq(Threads)
         /\ ToSet(InsertPrio(q, u, e)) = ToSet(q) \cup {u}
         /\ Ordered(InsertPrio(q, u, e), InOrder([prio EXCEPT ![u] = e]))
<1> DEFINE lower == {i \in 1 .. Len(q) : prio[q[i]] < e}
           k == IF lower = {} THEN Len(q) + 1 ELSE Min(lower)
           f == [prio EXCEPT ![u] = e]
<1>1. Len(q) \in Nat /\ \A i \in 1 .. Len(q) :
         q[i] \in Threads /\ q[i] # u /\ q[i] \in ToSet(q) /\ prio[q[i]] \in Nat
  <2>1. Len(q) \in Nat /\ \A i \in 1 .. Len(q) : q[i] \in Threads /\ q[i] \in ToSet(q)
    BY LenProperties, ListElements
  <2> QED
    BY <2>1
<1>2. InsertPrio(q, u, e) = InsertAt(q, k, u)
  BY DEF InsertPrio
<1>3. k \in 1 .. Len(q) + 1 /\ \A i \in 1 .. Len(q) :
         IF i < k THEN prio[q[i]] >= e ELSE k \in 1 .. Len(q) /\ prio[q[k]] < e
  <2>1. CASE lower = {}
    <3>1. k = Len(q) + 1 /\ \A i \in 1 .. Len(q) : prio[q[i]] >= e
      BY SMTT(30), <2>1, <1>1
    <3> HIDE DEF k, lower
    <3> QED
      BY <3>1, <1>1
  <2>2. CASE lower # {}
    <3>1. lower \in SUBSET Nat
      OBVIOUS
    <3>2. Min(lower) \in lower /\ \A j \in lower : Min(lower) <= j
      BY <3>1, <2>2, MinOfNaturals
    <3>3. ASSUME NEW i \in 1 .. Len(q), i < Min(lower) PROVE prio[q[i]] >= e
      <4>1. i \notin lower
        BY <3>2, <3>3
      <4> QED
        BY <4>1, <1>1
    <3>4. k = Min(lower) /\ k \in 1 .. Len(q) /\ prio[q[k]] < e
      BY <3>2, <2>2
    <3> HIDE DEF k, lower
    <3> QED
      BY <3>3, <3>4, <1>1
  <2> QED
    BY <2>1, <2>2
<1> HIDE DEF k
<1>4. \A i \in 1 .. Len(q) : i >= k => prio[q[i]] < e
  <2> SUFFICES ASSUME NEW i \in 1 .. Len(q), i >= k PROVE prio[q[i]] < e
    OBVIOUS
  <2>1. k \in 1 .. Len(q) /\ prio[q[k]] < e /\ prio[q[k]] \in Nat /\ prio[q[i]] \in Nat
    BY <1>1, <1>3
  <2>2. CASE i = k
    BY <2>1, <2>2
  <2>3. CASE i > k
    <3>1. prio[q[k]] >= prio[q[i]]
      BY <2>1, <2>3 DEF Ordered, InOrder
    <3> QED
      BY <2>1, <3>1
  <2> QED
    BY <2>2, <2>3, <1>3
<1>5. f[u] = e /\ \A t \in Threads : t # u => f[t] = prio[t]
  BY DEF f
<1> HIDE DEF f
<1>6. Ordered(q, InOrder(f))
  BY <1>1, <1>5, OrderedFrame, ListElements
<1>7. \A i \in 1 .. Len(q) :
         IF i < k THEN <<q[i], u>> \in InOrder(f) ELSE <<u, q[i]>> \in InOrder(f)
  <2> SUFFICES ASSUME NEW i \in 1 .. Len(q)
               PROVE  IF i < k THEN <<q[i], u>> \in InOrder(f) ELSE <<u, q[i]>> \in InOrder(f)
    OBVIOUS
  <2>1. q[i] \in Threads /\ q[i] # u /\ f[q[i]] = prio[q[i]] /\ prio[q[i]] \in Nat
    BY <1>1, <1>5
  <2>2. IF i < k THEN f[q[i]] >= e ELSE e >= f[q[i]]
    BY <2>1, <1>3, <1>4
  <2> QED
    BY <2>1, <2>2, <1>5 DEF InOrder
<1>8. Ordered(InsertAt(q, k, u), InOrder(f)) /\ ToSet(InsertAt(q, k, u)) = ToSet(q) \cup {u}
  BY <1>3, <1>6, <1>7, InsertAtOrdered
<1>9. InsertAt(q, k, u) \in Seq(Threads)
  BY <1>3, InsertAtElements
<1> QED
  BY <1>2, <1>8, <1>9 DEF f

LEMMA PointFacts ==
  /\ \A m \in Monitors : /\ LockPoint(m) \in LockPoints /\ LockPoint(m)[2] = m
                         /\ CvPoint(m) \in CvPoints /\ CvPoint(m)[2] = m
  /\ \A r \in LockPoints : r[2] \in Monitors /\ r = LockPoint(r[2]) /\ r[1] = "rendezvous"
  /\ \A r \in CvPoints : r[2] \in Monitors /\ r = CvPoint(r[2]) /\ r[1] = "cv"
  /\ \A r \in Points : r \in LockPoints \/ r \in CvPoints
  /\ LockPoints \subseteq Points /\ CvPoints \subseteq Points
  /\ \A r \in LockPoints : r \notin CvPoints
  /\ None \notin Points /\ None \notin Monitors /\ None \notin Procs
BY MonitorAssumption DEF LockPoint, CvPoint, LockPoints, CvPoints, Points, Procs

-----------------------------------------------------------------------------
(* What a step of process p leaves of the others: their own variables but    *)
(* for a wake-up and an alarm, the points they have locked and the monitors  *)
(* they own.                                                                 *)
KeepsPlaces(p) == \A q \in Procs \ {p} :
    pc'[q] = pc[q] /\ pt'[q] = pt[q] /\ who'[q] = who[q] /\ got'[q] = got[q] /\ ret'[q] = ret[q]

KeepsThreads(p) == \A u \in Threads \ {p} :
    /\ count'[u] = count[u] /\ depth'[u] = depth[u]
    /\ monitorList'[u] = monitorList[u] /\ monitor'[u] = monitor[u]
    /\ \/ state'[u] = state[u] /\ rendezvous'[u] = rendezvous[u]
       \/ state[u] = "WAITING" /\ state'[u] = "ready"
    /\ \/ alarm'[u] = alarm[u]
       \/ alarm[u] = "pending" /\ alarm'[u] = "fired"

KeepsPoints(p) == \A r \in Points : rlock'[r] # rlock[r] => rlock[r] \in {None, p}

KeepsOwners(p) == \A m \in Monitors :
    \/ owner'[m] = owner[m] /\ lockCount'[m] = lockCount[m]
    \/ /\ owner[m] \in {None, p} /\ owner'[m] \in {None, p}
       /\ owner'[m] = None => rlock[LockPoint(m)] \in {None, p}

KeepsOthers(p) == KeepsPlaces(p) /\ KeepsThreads(p) /\ KeepsPoints(p) /\ KeepsOwners(p)

USE DEF At, Goto, Free, LockThread, LockAt, Work, Return, Enter,
        monitorVars, pointVars, sleepVars, prioVars, local

LEMMA ThreadKeeps ==
  ASSUME TypeOK, NEW t \in Threads, Call(t) \/ ThreadStep(t)
  PROVE  KeepsPlaces(t) /\ KeepsThreads(t)
<1>1. CASE Call(t)
  BY <1>1 DEF TypeOK, Procs, KeepsPlaces, KeepsThreads, Call, CallExit, CallLock, CallTryLock,
              CallUnlock, CallWait, CallNotify, CallSetPriority
<1>2. CASE ThreadStep(t)
  <2>1. KeepsPlaces(t)
    BY ZenonT(30), <1>2 DEF TypeOK, Procs, KeepsPlaces, ThreadStep, LockTake, LockContend, Inherit,
                InheritNothing, InheritRaise, InheritRetry, OwnerWait, Raise, Enqueue, Switch,
                Resume, TryLock, TryList, Unlock, UnlockList, WaitTest, WaitRelease, WaitList,
                WaitRelock, WaitRestore, Exit, ExitUnlock, ExitDone, Update, ResetLock,
                ResetPriority
  <2>2. CASE \/ LockTake(t) \/ LockContend(t) \/ Inherit(t) \/ InheritNothing(t)
             \/ InheritRaise(t) \/ InheritRetry(t) \/ OwnerWait(t) \/ Raise(t)
             \/ Update(t) \/ ResetLock(t) \/ ResetPriority(t)
    BY <2>1, <2>2 DEF TypeOK, KeepsThreads, LockTake, LockContend, Inherit, InheritNothing,
                InheritRaise, InheritRetry, OwnerWait, Raise, Update, ResetLock, ResetPriority
  <2>3. CASE \/ Enqueue(t) \/ Switch(t) \/ Resume(t) \/ TryLock(t) \/ TryList(t)
             \/ Unlock(t) \/ UnlockList(t)
    BY <2>1, <2>3 DEF TypeOK, KeepsThreads, Enqueue, Switch, Resume, TryLock, TryList, Unlock,
                UnlockList
  <2>4. CASE \/ WaitTest(t) \/ WaitRelease(t) \/ WaitList(t) \/ WaitRelock(t)
             \/ WaitRestore(t) \/ Exit(t) \/ ExitUnlock(t) \/ ExitDone(t)
    BY <2>1, <2>4 DEF TypeOK, KeepsThreads, WaitTest, WaitRelease, WaitList, WaitRelock,
                WaitRestore, Exit, ExitUnlock, ExitDone
  <2> QED
    BY <1>2, <2>1, <2>2, <2>3, <2>4 DEF ThreadStep
<1> QED
  BY <1>1, <1>2

(* The first of a queue waits there. *)
LEMMA WaitsFirst ==
  ASSUME TypeOK, QueuesExact, NEW r \in Points, queue[r] # <<>>
  PROVE  /\ Head(queue[r]) \in Threads
         /\ Head(queue[r]) \in ToSet(queue[r])
         /\ state[Head(queue[r])] = "WAITING" /\ rendezvous[Head(queue[r])] = r
         /\ Tail(queue[r]) \in Seq(Threads)
         /\ Ordered(Tail(queue[r]), InOrder(prio))
         /\ ToSet(Tail(queue[r])) = ToSet(queue[r]) \ {Head(queue[r])}
<1>1. queue[r] \in Seq(Threads) /\ Ordered(queue[r], InOrder(prio))
  BY QueuesExactIs DEF TypeOK
<1> QED
  BY <1>1, QueueTail, QueuesExactIs

LEMMA WakeKeeps ==
  ASSUME TypeOK, PlacesOK, QueuesExact, NEW p \in Procs, WakeStep(p)
  PROVE  KeepsPlaces(p) /\ KeepsThreads(p)
<1>1. KeepsPlaces(p)
  BY DEF TypeOK, Procs, KeepsPlaces, WakeStep, Wakeup, WakeFirst, WakeBusy, WakeWait, WakeDone
<1>2. CASE WakeFirst(p)
  <2>1. pt[p] \in Points
    BY <1>2 DEF WakeFirst, PlacesOK, PlaceOK, AtPoint
  <2>2. state[Head(queue[pt[p]])] = "WAITING" /\ Head(queue[pt[p]]) \in Threads
    BY <1>2, <2>1, WaitsFirst DEF WakeFirst
  <2> QED
    BY <1>1, <1>2, <2>2 DEF WakeFirst, TypeOK, KeepsThreads
<1>3. CASE Wakeup(p) \/ WakeBusy(p) \/ WakeWait(p) \/ WakeDone(p)
  BY <1>1, <1>3 DEF TypeOK, KeepsThreads, Wakeup, WakeBusy, WakeWait, WakeDone
<1> QED
  BY <1>2, <1>3 DEF WakeStep

LEMMA AlarmKeeps ==
  ASSUME TypeOK, NEW t \in Threads, AlarmExpires(t)
  PROVE  KeepsPlaces(Timer) /\ KeepsThreads(Timer)
BY DEF TypeOK, Procs, KeepsPlaces, KeepsThreads, AlarmExpires

(* A lock of a point is taken when it is free and released by its holder.    *)
LEMMA PointsKept ==
  ASSUME TypeOK, PlacesOK, PointsHeld, NEW p \in Procs,
         (p \in Threads /\ (Call(p) \/ ThreadStep(p))) \/ WakeStep(p)
  PROVE  KeepsPoints(p)
<1>1. CASE p \in Threads /\ Call(p)
  BY <1>1 DEF KeepsPoints, Call, CallExit, CallLock, CallTryLock, CallUnlock, CallWait,
              CallNotify, CallSetPriority
<1>2. CASE p \in Threads /\
        ( \/ LockTake(p) \/ Inherit(p) \/ InheritNothing(p) \/ InheritRaise(p) \/ OwnerWait(p)
          \/ Raise(p) \/ Update(p) \/ Switch(p) \/ Resume(p) \/ UnlockList(p) \/ WaitRelease(p)
          \/ WaitList(p) \/ WaitRelock(p) \/ WaitRestore(p) \/ Exit(p) \/ ExitDone(p) )
  <2>1. UNCHANGED rlock
    BY <1>2 DEF LockTake, Inherit, InheritNothing, InheritRaise, OwnerWait, Raise, Update,
                Switch, Resume, UnlockList, WaitRelease, WaitList, WaitRelock, WaitRestore,
                Exit, ExitDone
  <2> QED
    BY <2>1 DEF KeepsPoints
<1>3. CASE \/ p \in Threads /\ ( \/ LockContend(p) \/ TryLock(p) \/ Unlock(p)
                                \/ WaitTest(p) \/ ResetLock(p) \/ ExitUnlock(p) )
           \/ Wakeup(p)
  BY <1>3 DEF TypeOK, KeepsPoints, LockContend, TryLock, Unlock, WaitTest, ResetLock,
              ExitUnlock, Wakeup
<1>4. CASE \/ p \in Threads /\ (InheritRetry(p) \/ Enqueue(p) \/ TryList(p))
           \/ WakeBusy(p) \/ WakeDone(p)
  <2>1. HoldsPoint(p, pt[p]) /\ pt[p] \in Points
    BY <1>4, PointFacts DEF InheritRetry, Enqueue, TryList, WakeBusy, WakeDone, HoldsPoint,
                WorksLocked, PlacesOK, PlaceOK, AtMonitor, AtPoint
  <2>2. rlock[pt[p]] = p
    BY <2>1 DEF PointsHeld, PointsHeldBy
  <2> QED
    BY <1>4, <2>2 DEF TypeOK, KeepsPoints, InheritRetry, Enqueue, TryList, WakeBusy, WakeDone
<1>5. CASE p \in Threads /\ ResetPriority(p)
  BY <1>5 DEF TypeOK, KeepsPoints, ResetPriority, PointsHeld, PointsHeldBy
<1>6. CASE WakeFirst(p) \/ WakeWait(p)
  BY <1>6 DEF KeepsPoints, WakeFirst, WakeWait
<1> QED
  BY <1>1, <1>2, <1>3, <1>4, <1>5, <1>6 DEF ThreadStep, WakeStep

(* Thread::unlockAllMonitors() unlocks a monitor of the thread's own. *)
LEMMA ListedFirst ==
  ASSUME TypeOK, ListsOK, NEW t \in Threads, monitorList[t] # <<>>, pc[t] # "waitList"
  PROVE  /\ Head(monitorList[t]) \in Monitors
         /\ owner[Head(monitorList[t])] = t
         /\ Tail(monitorList[t]) \in Seq(Monitors)
         /\ ToSet(Tail(monitorList[t])) = ToSet(monitorList[t]) \ {Head(monitorList[t])}
         /\ Once(Tail(monitorList[t]))
<1>1. monitorList[t] \in Seq(Monitors) /\ Once(monitorList[t])
  BY DEF TypeOK, ListsOK, ListOK
<1>2. /\ Head(monitorList[t]) \in ToSet(monitorList[t])
      /\ Tail(monitorList[t]) \in Seq(Monitors)
      /\ ToSet(Tail(monitorList[t])) = ToSet(monitorList[t]) \ {Head(monitorList[t])}
      /\ Once(Tail(monitorList[t]))
  BY <1>1, TailLists
<1>3. Head(monitorList[t]) \in Monitors
  BY <1>1, <1>2, ListElements
<1> QED
  BY <1>2, <1>3 DEF ListsOK, ListOK

(* A monitor is taken when it has no owner and given up by its owner, with   *)
(* its point locked or free.                                                 *)
LEMMA OwnersKept ==
  ASSUME TypeOK, PlacesOK, PointsHeld, OwnersOK, ListsOK, NEW t \in Threads,
         Call(t) \/ ThreadStep(t)
  PROVE  KeepsOwners(t)
<1>1. CASE UNCHANGED monitorVars
  BY <1>1 DEF KeepsOwners
<1> DEFINE m == pt[t][2]
<1>2. CASE LockTake(t) \/ TryLock(t)
  <2>1. m \in Monitors
    BY <1>2, PointFacts DEF LockTake, TryLock, PlacesOK, PlaceOK, AtMonitor, AtPoint, Procs
  <2>2. \/ owner[m] \in {None, t} /\ owner'[m] = t
        \/ UNCHANGED monitorVars
    BY <1>2, <2>1 DEF LockTake, TryLock, TypeOK
  <2>3. \A n \in Monitors : n # m => owner'[n] = owner[n] /\ lockCount'[n] = lockCount[n]
    BY <1>2, <2>1 DEF LockTake, TryLock, TypeOK
  <2> HIDE DEF m
  <2>4. None # t
    BY PointFacts DEF Procs
  <2> QED
    BY <1>1, <2>1, <2>2, <2>3, <2>4 DEF KeepsOwners
<1>3. CASE Unlock(t) \/ UnlockList(t) \/ WaitRelease(t) \/ WaitRestore(t)
  <2>1. m \in Monitors
    BY <1>3, PointFacts DEF Unlock, UnlockList, WaitRelease, WaitRestore, PlacesOK, PlaceOK,
                AtMonitor, AtCondition, Procs
  <2>2. owner[m] = t
    BY <1>3, <2>1 DEF Unlock, UnlockList, WaitRelease, WaitRestore, OwnersOK, OwnerOK
  <2>3. \/ owner'[m] = t
        \/ owner'[m] = None /\ rlock[LockPoint(m)] \in {None, t}
    <3>1. CASE UnlockList(t)
      <4>1. HoldsPoint(t, pt[t]) /\ pt[t] = LockPoint(m) /\ pt[t] \in Points
        BY <3>1, PointFacts DEF UnlockList, HoldsPoint, WorksLocked, PlacesOK, PlaceOK,
                    AtMonitor, Procs
      <4> QED
        BY <3>1, <2>1, <4>1 DEF UnlockList, PointsHeld, PointsHeldBy, TypeOK, Procs
    <3>2. CASE Unlock(t) \/ WaitRelease(t) \/ WaitRestore(t)
      BY <3>2, <2>1, <2>2 DEF Unlock, WaitRelease, WaitRestore, TypeOK
    <3> QED
      BY <1>3, <3>1, <3>2
  <2>4. \A n \in Monitors : n # m => owner'[n] = owner[n] /\ lockCount'[n] = lockCount[n]
    BY <1>3, <2>1 DEF Unlock, UnlockList, WaitRelease, WaitRestore, TypeOK
  <2> HIDE DEF m
  <2>5. None # t
    BY PointFacts DEF Procs
  <2> QED
    BY <2>1, <2>2, <2>3, <2>4, <2>5 DEF KeepsOwners
<1>4. CASE ExitUnlock(t)
  <2> DEFINE n == Head(monitorList[t])
  <2>1. n \in Monitors /\ owner[n] = t
    BY <1>4, ListedFirst DEF ExitUnlock
  <2>2. /\ owner'[n] = None /\ rlock[LockPoint(n)] = None
        /\ \A k \in Monitors : k # n => owner'[k] = owner[k] /\ lockCount'[k] = lockCount[k]
    BY <1>4, <2>1 DEF ExitUnlock, TypeOK
  <2> HIDE DEF n
  <2> QED
    BY <2>1, <2>2 DEF KeepsOwners
<1>5. CASE Call(t)
  BY <1>1, <1>5 DEF Call, CallExit, CallLock, CallTryLock, CallUnlock, CallWait,
              CallNotify, CallSetPriority
<1>6. CASE \/ LockContend(t) \/ Inherit(t) \/ InheritNothing(t) \/ InheritRaise(t)
           \/ InheritRetry(t) \/ OwnerWait(t) \/ Raise(t) \/ Enqueue(t) \/ Switch(t)
           \/ Resume(t) \/ TryList(t) \/ WaitTest(t) \/ WaitList(t) \/ WaitRelock(t)
           \/ Exit(t) \/ ExitDone(t) \/ Update(t) \/ ResetLock(t) \/ ResetPriority(t)
  BY <1>1, <1>6 DEF LockContend, Inherit, InheritNothing, InheritRaise, InheritRetry,
              OwnerWait, Raise, Enqueue, Switch, Resume, TryList, WaitTest, WaitList,
              WaitRelock, Exit, ExitDone, Update, ResetLock, ResetPriority
<1> QED
  BY <1>2, <1>3, <1>4, <1>5, <1>6 DEF ThreadStep

-----------------------------------------------------------------------------
(* So a step leaves what the invariant says of the other processes.          *)
LEMMA OthersPlaces ==
  ASSUME PlacesOK, NEW p \in Procs, KeepsPlaces(p), NEW q \in Procs, q # p
  PROVE  PlaceOK(q)'
<1>1. pc'[q] = pc[q] /\ pt'[q] = pt[q] /\ who'[q] = who[q] /\ got'[q] = got[q] /\ ret'[q] = ret[q]
  BY DEF KeepsPlaces
<1>2. PlaceOK(q)
  BY DEF PlacesOK
<1> QED
  BY <1>1, <1>2 DEF PlaceOK

LEMMA OthersThreads ==
  ASSUME WaitsOK, StatesOK, NEW p \in Procs, KeepsPlaces(p), KeepsThreads(p),
         NEW u \in Threads, u # p
  PROVE  WaitOK(u)' /\ StateOK(u)'
<1>1. pc'[u] = pc[u] /\ pt'[u] = pt[u] /\ ret'[u] = ret[u]
  BY DEF KeepsPlaces, Procs
<1>2. /\ count'[u] = count[u] /\ depth'[u] = depth[u] /\ monitor'[u] = monitor[u]
      /\ \/ state'[u] = state[u] /\ rendezvous'[u] = rendezvous[u]
         \/ state[u] = "WAITING" /\ state'[u] = "ready"
      /\ \/ alarm'[u] = alarm[u]
         \/ alarm[u] = "pending" /\ alarm'[u] = "fired"
  BY DEF KeepsThreads
<1>3. WaitOK(u) /\ StateOK(u)
  BY DEF WaitsOK, StatesOK
<1>4. WaitOK(u)'
  BY <1>1, <1>2, <1>3 DEF WaitOK, OnCondition
<1>5. StateOK(u)'
  BY <1>1, <1>2, <1>3 DEF StateOK, Ending
<1> QED
  BY <1>4, <1>5

LEMMA OthersPoints ==
  ASSUME TypeOK, PlacesOK, PointsHeld, NEW p \in Procs,
         KeepsPlaces(p), KeepsThreads(p), KeepsPoints(p), NEW q \in Procs, q # p
  PROVE  PointsHeldBy(q)'
<1>1. pc'[q] = pc[q] /\ pt'[q] = pt[q] /\ ret'[q] = ret[q] /\ got'[q] = got[q]
  BY DEF KeepsPlaces
<1>2. q \in Threads => count'[q] = count[q]
  BY DEF KeepsThreads
<1>3. \A r : HoldsPoint(q, r)' <=> HoldsPoint(q, r)
  BY <1>1, <1>2 DEF HoldsPoint, WorksLocked, WaitsLocked
<1>4. \A r \in Points : rlock[r] = q => rlock'[r] = q
  BY PointFacts DEF KeepsPoints
<1>5. \A m \in got[q] : LockPoint(m) \in Points
  BY PointFacts DEF TypeOK
<1> QED
  BY <1>1, <1>3, <1>4, <1>5 DEF PointsHeld, PointsHeldBy

LEMMA OthersOwners ==
  ASSUME TypeOK, OwnersOK, ListsOK, NEW p \in Procs,
         KeepsPlaces(p), KeepsThreads(p), KeepsOwners(p), NEW u \in Threads, u # p
  PROVE  (\A m \in Monitors : OwnerOK(u, m)') /\ ListOK(u)'
<1>1. pc'[u] = pc[u] /\ pt'[u] = pt[u]
  BY DEF KeepsPlaces, Procs
<1>2. depth'[u] = depth[u] /\ monitorList'[u] = monitorList[u]
      /\ (state'[u] = "TERMINATED" <=> state[u] = "TERMINATED")
  BY DEF KeepsThreads
<1>3. \A m \in Monitors : /\ owner'[m] = u <=> owner[m] = u
                          /\ owner[m] = u => lockCount'[m] = lockCount[m]
  BY PointFacts DEF KeepsOwners, Procs
<1>4. ASSUME NEW m \in Monitors PROVE OwnerOK(u, m)'
  <2>1. OwnerOK(u, m) /\ depth'[u][m] = depth[u][m]
    BY <1>2 DEF OwnersOK
  <2>2. Passing(u, m)' <=> Passing(u, m)
    BY <1>1, <1>2 DEF Passing, Ending
  <2>3. (owner'[m] = u <=> owner[m] = u) /\ (owner[m] = u => lockCount'[m] = lockCount[m])
    BY <1>3
  <2> QED
    BY <1>1, <2>1, <2>2, <2>3 DEF OwnerOK
<1>5. ListOK(u)'
  <2>1. ListOK(u)
    BY DEF ListsOK
  <2> QED
    BY <1>1, <1>2, <1>3, <2>1 DEF ListOK
<1> QED
  BY <1>4, <1>5

LEMMA OthersContend ==
  ASSUME TypeOK, PlacesOK, PointsHeld, ContendersOK, NEW p \in Procs,
         KeepsPlaces(p), KeepsOwners(p), NEW u \in Threads, u # p
  PROVE  Contends(u)' => owner'[pt'[u][2]] # None
<1>1. pc'[u] = pc[u] /\ pt'[u] = pt[u] /\ ret'[u] = ret[u]
  BY DEF KeepsPlaces, Procs
<1> SUFFICES ASSUME Contends(u) PROVE owner'[pt[u][2]] # None
  BY <1>1 DEF Contends
<1>2. pt[u] \in LockPoints
  BY DEF Contends, PlacesOK, PlaceOK, AtMonitor, Updating, Procs
<1>3. PICK m \in Monitors : m = pt[u][2] /\ pt[u] = LockPoint(m) /\ pt[u] \in Points
  BY <1>2, PointFacts
<1>4. HoldsPoint(u, pt[u])
  BY DEF Contends, HoldsPoint, WorksLocked
<1>5. rlock[LockPoint(m)] = u
  BY <1>3, <1>4 DEF PointsHeld, PointsHeldBy, Procs
<1>6. owner[m] # None
  BY <1>3 DEF ContendersOK
<1>7. None # u
  BY PointFacts DEF Procs
<1> QED
  BY <1>3, <1>5, <1>6, <1>7 DEF KeepsOwners

-----------------------------------------------------------------------------
(* Priorities change by setEffectivePriority() alone.                        *)
LEMMA QueuePriorityType ==
  ASSUME TypeOK, NEW m \in Monitors
  PROVE  QueuePriority(m) \in Prios
<1>1. queue[LockPoint(m)] \in Seq(Threads)
  BY PointFacts DEF TypeOK
<1> QED
  BY <1>1, PrioFacts DEF QueuePriority, TypeOK

LEMMA EffectiveType ==
  ASSUME TypeOK, NEW t \in Threads, pt[t] \in LockPoints
  PROVE  Effective(t) \in Prios
<1>1. {QueuePriority(pt[t][2]), prio[t]} \in SUBSET Prios
  BY QueuePriorityType, PointFacts DEF TypeOK
<1> QED
  BY <1>1, PrioFacts DEF Effective

LEMMA OwedType ==
  ASSUME TypeOK, NEW p \in Procs, who[p] \in Threads
  PROVE  Owed(p) \in Prios
<1>1. {base[who[p]]} \cup {QueuePriority(m) : m \in got[p]} \in SUBSET Prios
  BY QueuePriorityType DEF TypeOK
<1> QED
  BY <1>1, PrioFacts DEF Owed

(* A thread that waits is on the queue of the point it works on.             *)
LEMMA WaitsAt ==
  ASSUME TypeOK, PlacesOK, StatesOK, QueuesExact, NEW u \in Threads, state[u] = "WAITING"
  PROVE  rendezvous[u] \in Points /\ rendezvous[u] = pt[u] /\ u \in ToSet(queue[rendezvous[u]])
<1>1. rendezvous[u] = pt[u] /\ pt[u] \in Points
  BY DEF StatesOK, StateOK, PlacesOK, PlaceOK, AtPoint, Procs
<1> QED
  BY <1>1, QueuesExactIs

LEMMA SetEffectiveKeeps ==
  ASSUME TypeOK, PlacesOK, StatesOK, QueuesExact, NEW u \in Threads, NEW e \in Prios,
         SetEffective(u, e)
  PROVE  /\ prio' \in [Threads -> Prios]
         /\ queue' \in [Points -> Seq(Threads)]
         /\ \A r \in Points : Ordered(queue'[r], InOrder(prio'))
         /\ \A r \in Points : ToSet(queue'[r]) = ToSet(queue[r])
<1>1. /\ prio \in [Threads -> Prios] /\ queue \in [Points -> Seq(Threads)]
      /\ \A r \in Points : Ordered(queue[r], InOrder(prio))
      /\ \A t \in Threads : \A r \in Points :
            (state[t] = "WAITING" /\ rendezvous[t] = r) <=> t \in ToSet(queue[r])
  BY QueuesExactIs DEF TypeOK
<1>2. prio \in [Threads -> Nat] /\ e \in Nat
  BY <1>1, PrioFacts
<1>3. CASE state[u] = "ready" /\ prio' = [prio EXCEPT ![u] = e] /\ UNCHANGED queue
  <2>1. prio' \in [Threads -> Prios] /\ \A t \in Threads : t # u => prio'[t] = prio[t]
    BY <1>1, <1>3
  <2>2. ASSUME NEW r \in Points PROVE Ordered(queue'[r], InOrder(prio'))
    <3>1. queue[r] \in Seq(Threads) /\ Ordered(queue[r], InOrder(prio))
      BY <1>1
    <3>2. \A t \in ToSet(queue[r]) : t \in Threads /\ t # u
      BY <3>1, <1>1, <1>3, ListElements
    <3>3. \A t \in ToSet(queue[r]) : prio'[t] = prio[t]
      BY <2>1, <3>2
    <3> QED
      BY <1>3, <3>1, <3>3, OrderedFrame
  <2> QED
    BY <1>1, <1>3, <2>1, <2>2
<1>4. CASE state[u] = "TERMINATED" /\ UNCHANGED <<prio, queue>>
  BY <1>1, <1>4
<1>5. CASE /\ state[u] = "WAITING"
           /\ prio' = [prio EXCEPT ![u] = e]
           /\ queue' = [queue EXCEPT
                ![rendezvous[u]] = InsertPrio(Without(queue[rendezvous[u]], u), u, e)]
  <2> DEFINE p == rendezvous[u]
             w == Without(queue[p], u)
             i == InsertPrio(w, u, e)
  <2>1. p \in Points /\ u \in ToSet(queue[p])
    BY <1>5, WaitsAt
  <2>2. w \in Seq(Threads) /\ ToSet(w) = ToSet(queue[p]) \ {u} /\ Ordered(w, InOrder(prio))
    BY <1>1, <2>1, WithoutLists
  <2> HIDE DEF w
  <2>3. /\ i \in Seq(Threads) /\ ToSet(i) = ToSet(w) \cup {u}
        /\ Ordered(i, InOrder([prio EXCEPT ![u] = e]))
    BY <1>2, <2>2, InsertPrioLists
  <2>4. queue' = [queue EXCEPT ![p] = i]
    BY <1>5 DEF w
  <2> HIDE DEF i, p
  <2>5. prio' \in [Threads -> Prios] /\ queue' \in [Points -> Seq(Threads)]
    BY <1>1, <1>5, <2>1, <2>3, <2>4
  <2>6. queue'[p] = i /\ \A r \in Points : r # p => queue'[r] = queue[r]
    BY <1>1, <2>1, <2>4
  <2>7. \A r \in Points : ToSet(queue'[r]) = ToSet(queue[r])
    <3>1. ToSet(queue'[p]) = ToSet(queue[p])
      BY <2>1, <2>2, <2>3, <2>6
    <3> QED
      BY <2>6, <3>1
  <2>8. ASSUME NEW r \in Points, r # p PROVE Ordered(queue'[r], InOrder(prio'))
    <3>1. queue[r] \in Seq(Threads) /\ Ordered(queue[r], InOrder(prio)) /\ queue'[r] = queue[r]
      BY <1>1, <2>6, <2>8
    <3>2. \A t \in ToSet(queue[r]) : t \in Threads /\ t # u
      BY <3>1, <1>1, <2>1, <2>8, ListElements DEF p
    <3>3. \A t \in ToSet(queue[r]) : prio'[t] = prio[t]
      BY <1>1, <1>5, <3>2
    <3> QED
      BY <3>1, <3>3, OrderedFrame
  <2>9. Ordered(queue'[p], InOrder(prio'))
    BY <1>5, <2>3, <2>6
  <2> QED
    BY <2>5, <2>7, <2>8, <2>9
<1> QED
  BY <1>3, <1>4, <1>5 DEF SetEffective

-----------------------------------------------------------------------------
(* Types. *)

(* A call to lock() or tryLock() finds the count as the thread knows it.     *)
LEMMA LockRoom ==
  ASSUME TypeOK, PlacesOK, WaitsOK, StatesOK, OwnersOK, NEW t \in Threads,
         NEW m \in Monitors, pc[t] \in {"sleep", "tryLock"}, pt[t] = LockPoint(m),
         owner[m] \in {None, t}
  PROVE  /\ lockCount[m] = depth[t][m] /\ depth[t][m] < MaxDepth
         /\ owner[m] = t => depth[t][m] > 0 /\ count[t] = 0
<1>1. depth[t][m] \in 0 .. MaxDepth /\ depth[t][m] < MaxDepth /\ OwnerOK(t, m)
  BY DEF TypeOK, StatesOK, StateOK, OwnersOK
<1>2. pt[t] # CvPoint(m) /\ LockPoint(m)[2] = m /\ None # t
  BY PointFacts DEF Procs
<1>3. state[t] # "TERMINATED"
  BY DEF StatesOK, StateOK, Waking
<1>4. CASE owner[m] = t
  <2>1. depth[t][m] > 0
    BY <1>1, <1>2, <1>3, <1>4 DEF OwnerOK, Passing, Ending
  <2>2. lockCount[m] = depth[t][m]
    BY <1>1, <1>4, <2>1 DEF OwnerOK
  <2>3. count[t] \in 0 .. MaxDepth /\ ~(count[t] > 0)
    BY <1>2, <2>1 DEF TypeOK, WaitsOK, WaitOK
  <2> QED
    BY <1>1, <2>1, <2>2, <2>3
<1>5. CASE owner[m] = None
  <2>1. lockCount[m] = 0 /\ ~(depth[t][m] > 0)
    BY <1>1, <1>2, <1>5 DEF OwnersOK, OwnerOK
  <2> QED
    BY <1>1, <1>2, <1>5, <2>1
<1> QED
  BY <1>4, <1>5

LEMMA CallTypes ==
  ASSUME TypeOK, NEW t \in Threads, Call(t)
  PROVE  TypeOK'
<1>1. CASE CallExit(t)
  BY <1>1, MonitorAssumption DEF CallExit, TypeOK, Places, Procs
<1>2. ASSUME NEW m \in Monitors, CallLock(t, m) PROVE TypeOK'
  BY <1>2, PointFacts DEF CallLock, TypeOK, Places, Procs
<1>3. ASSUME NEW m \in Monitors, CallTryLock(t, m) PROVE TypeOK'
  BY <1>3, PointFacts DEF CallTryLock, TypeOK, Places, Procs
<1>4. ASSUME NEW m \in Monitors, CallNotify(t, m) PROVE TypeOK'
  BY <1>4, PointFacts DEF CallNotify, TypeOK, Places, Procs
<1>5. ASSUME NEW m \in Monitors, CallUnlock(t, m) PROVE TypeOK'
  <2>1. depth[t][m] - 1 \in 0 .. MaxDepth
    BY <1>5, MonitorAssumption DEF CallUnlock, TypeOK
  <2>2. depth' \in [Threads -> [Monitors -> 0 .. MaxDepth]]
    BY <1>5, <2>1 DEF CallUnlock, TypeOK
  <2>3. pc' \in [Procs -> Places] /\ pt' \in [Procs -> Points \cup {None}]
    BY <1>5, PointFacts DEF CallUnlock, TypeOK, Places, Procs
  <2> QED
    BY <1>5, <2>2, <2>3 DEF CallUnlock, TypeOK
<1>6. ASSUME NEW m \in Monitors, CallWait(t, m) PROVE TypeOK'
  <2>1. depth' \in [Threads -> [Monitors -> 0 .. MaxDepth]]
    BY <1>6, MonitorAssumption DEF CallWait, TypeOK
  <2>2. /\ count' \in [Threads -> 0 .. MaxDepth]
        /\ alarm' \in [Threads -> {"none", "pending", "fired"}]
    BY <1>6 DEF CallWait, TypeOK
  <2>3. pc' \in [Procs -> Places] /\ pt' \in [Procs -> Points \cup {None}]
    BY <1>6, PointFacts DEF CallWait, TypeOK, Places, Procs
  <2> QED
    BY <1>6, <2>1, <2>2, <2>3 DEF CallWait, TypeOK
<1>7. ASSUME NEW u \in Threads, NEW e \in Prios, CallSetPriority(t, u, e) PROVE TypeOK'
  BY <1>7 DEF CallSetPriority, TypeOK, Places, Procs
<1> QED
  BY <1>1, <1>2, <1>3, <1>4, <1>5, <1>6, <1>7 DEF Call

LEMMA LockTypes ==
  ASSUME TypeOK, PlacesOK, WaitsOK, StatesOK, OwnersOK, ContendersOK, QueuesExact,
         NEW t \in Threads,
         \/ LockTake(t) \/ LockContend(t) \/ Inherit(t) \/ InheritNothing(t)
         \/ InheritRaise(t) \/ InheritRetry(t) \/ OwnerWait(t) \/ Raise(t)
  PROVE  TypeOK'
<1>1. CASE LockTake(t)
  <2>1. PICK m \in Monitors : m = pt[t][2] /\ pt[t] = LockPoint(m)
    BY <1>1, PointFacts DEF LockTake, PlacesOK, PlaceOK, AtPoint, Procs
  <2>2. lockCount[m] + 1 \in 0 .. MaxDepth /\ depth[t][m] + 1 \in 0 .. MaxDepth
    <3>1. lockCount[m] \in 0 .. MaxDepth /\ depth[t][m] \in 0 .. MaxDepth /\ MaxDepth \in Nat
      BY MonitorAssumption DEF TypeOK
    <3>2. lockCount[m] = depth[t][m] /\ depth[t][m] < MaxDepth
      BY <1>1, <2>1, LockRoom DEF LockTake
    <3> QED
      BY <3>1, <3>2
  <2>3. monitorList' \in [Threads -> Seq(Monitors)]
    BY <1>1, <2>1, AppendProperties DEF LockTake, TypeOK
  <2>4. depth' \in [Threads -> [Monitors -> 0 .. MaxDepth]]
    <3>1. CASE depth' = [depth EXCEPT ![t][m] = @ + 1]
      BY <3>1, <2>2 DEF TypeOK
    <3>2. CASE UNCHANGED depth
      BY <3>2 DEF TypeOK
    <3> QED
      BY <1>1, <2>1, <3>1, <3>2 DEF LockTake
  <2>5. /\ owner' \in [Monitors -> Threads \cup {None}]
        /\ lockCount' \in [Monitors -> 0 .. MaxDepth]
        /\ monitor' \in [Threads -> Monitors \cup {None}]
    BY <1>1, <2>1, <2>2 DEF LockTake, TypeOK
  <2>6. pc' \in [Procs -> Places] /\ pt' \in [Procs -> Points \cup {None}]
    BY ZenonT(30), <1>1 DEF LockTake, TypeOK, Places
  <2> QED
    BY <1>1, <2>3, <2>4, <2>5, <2>6 DEF LockTake, TypeOK
<1>2. CASE LockContend(t)
  BY <1>2 DEF LockContend, TypeOK, Places, Procs
<1>3. CASE Inherit(t)
  BY <1>3 DEF Inherit, TypeOK, Places, Procs
<1>4. ASSUME pc[t] \in {"inheritOwner", "raise"}
      PROVE  /\ pt[t] \in LockPoints /\ pt[t][2] \in Monitors /\ owner[pt[t][2]] \in Threads
  BY <1>4, PointFacts DEF ContendersOK, Contends, PlacesOK, PlaceOK, AtMonitor, TypeOK, Procs
<1>5. CASE InheritNothing(t)
  BY <1>4, <1>5 DEF InheritNothing, TypeOK, Places, Procs
<1>6. CASE InheritRaise(t)
  BY <1>4, <1>6 DEF InheritRaise, TypeOK, Places, Procs
<1>7. CASE InheritRetry(t)
  BY <1>4, <1>7 DEF InheritRetry, TypeOK, Places, Procs
<1>8. CASE OwnerWait(t)
  BY <1>8 DEF OwnerWait, TypeOK, Places, Procs
<1>9. CASE Raise(t)
  <2>1. PICK m \in Monitors : m = pt[t][2] /\ pt[t] \in LockPoints /\ owner[m] \in Threads
    BY <1>4, <1>9 DEF Raise
  <2>2. Effective(t) \in Prios
    BY <2>1, EffectiveType
  <2>3. prio' \in [Threads -> Prios] /\ queue' \in [Points -> Seq(Threads)]
    BY <1>9, <2>1, <2>2, SetEffectiveKeeps DEF Raise
  <2>4. NextOwner(owner[m]) \in Threads \cup {None}
    BY <2>1 DEF NextOwner, TypeOK
  <2> QED
    BY <1>9, <2>1, <2>3, <2>4 DEF Raise, TypeOK, Places, Procs
<1> QED
  BY <1>1, <1>2, <1>3, <1>5, <1>6, <1>7, <1>8, <1>9

LEMMA UpdateTypes ==
  ASSUME TypeOK, PlacesOK, StatesOK, QueuesExact, NEW t \in Threads,
         Update(t) \/ ResetLock(t) \/ ResetPriority(t)
  PROVE  TypeOK'
<1>1. CASE Update(t)
  BY <1>1 DEF Update, TypeOK, Places, Procs
<1>2. CASE ResetLock(t)
  <2>1. who[t] \in Threads /\ monitorList[who[t]] \in Seq(Monitors)
    BY <1>2 DEF ResetLock, PlacesOK, PlaceOK, Updating, Procs, TypeOK
  <2>2. ToLock(t) \in Seq(Monitors) /\ ToLock(t) # <<>>
    BY <1>2, <2>1, OnlyLists DEF ToLock, ResetLock
  <2>3. Head(ToLock(t)) \in Monitors
    BY <2>2
  <2> QED
    BY <1>2, <2>3 DEF ResetLock, TypeOK, Procs
<1>3. CASE ResetPriority(t)
  <2> DEFINE u == who[t]
             next == IF prio[u] # Owed(t) THEN NextOwner(u) ELSE None
  <2>1. u \in Threads
    BY <1>3 DEF ResetPriority, PlacesOK, PlaceOK, Updating, Procs
  <2>2. prio' \in [Threads -> Prios] /\ queue' \in [Points -> Seq(Threads)]
    <3>1. Owed(t) \in Prios
      BY <2>1, OwedType DEF Procs
    <3>2. SetEffective(u, Owed(t)) \/ UNCHANGED <<prio, queue>>
      BY <1>3 DEF ResetPriority
    <3> QED
      BY <2>1, <3>1, <3>2, SetEffectiveKeeps DEF TypeOK
  <2>3. next \in Threads \cup {None}
    BY <2>1 DEF NextOwner, TypeOK
  <2>4. rlock' \in [Points -> Procs \cup {None}]
    BY <1>3 DEF ResetPriority, TypeOK
  <2>5. /\ who' = [who EXCEPT ![t] = next]
        /\ ret' = [ret EXCEPT ![t] = IF next = None THEN "thread" ELSE @]
        /\ pc' = [pc EXCEPT ![t] = IF next = None THEN ret[t] ELSE "update"]
        /\ tlock' = [tlock EXCEPT ![u] = None]
        /\ got' = [got EXCEPT ![t] = {}]
        /\ UNCHANGED <<monitorVars, sleepVars, base, monitor, monitorList, alarm, pt,
                       count, depth>>
    BY <1>3 DEF ResetPriority
  <2> HIDE DEF next, u
  <2>6. pc' \in [Procs -> Places]
    BY <2>5 DEF TypeOK, Places
  <2> QED
    BY <2>1, <2>2, <2>3, <2>4, <2>5, <2>6 DEF TypeOK, Procs
<1> QED
  BY <1>1, <1>2, <1>3

LEMMA SleepTypes ==
  ASSUME TypeOK, PlacesOK, WaitsOK, StatesOK, QueuesExact, NEW t \in Threads,
         Enqueue(t) \/ Switch(t) \/ Resume(t)
  PROVE  TypeOK'
<1>1. CASE Enqueue(t)
  <2>1. pt[t] \in Points
    BY <1>1 DEF Enqueue, PlacesOK, PlaceOK, AtPoint, Procs
  <2>2. InsertPrio(queue[pt[t]], t, prio[t]) \in Seq(Threads)
    <3>1. /\ queue[pt[t]] \in Seq(Threads) /\ Ordered(queue[pt[t]], InOrder(prio))
          /\ t \notin ToSet(queue[pt[t]])
      BY <1>1, <2>1, QueuesExactIs DEF Enqueue, TypeOK, StatesOK, StateOK
    <3>2. prio \in [Threads -> Nat] /\ prio[t] \in Nat
      BY PrioFacts DEF TypeOK
    <3> QED
      BY <3>1, <3>2, InsertPrioLists
  <2>3. queue' \in [Points -> Seq(Threads)]
    BY <1>1, <2>2 DEF Enqueue, TypeOK
  <2> QED
    BY <1>1, <2>1, <2>3 DEF Enqueue, TypeOK, Places, Procs
<1>2. CASE Switch(t)
  BY <1>2 DEF Switch, TypeOK, Places, Procs
<1>3. CASE Resume(t)
  BY <1>3 DEF Resume, TypeOK, Places, Procs
<1> QED
  BY <1>1, <1>2, <1>3

LEMMA OwnTypes ==
  ASSUME TypeOK, PlacesOK, WaitsOK, StatesOK, OwnersOK, NEW t \in Threads,
         TryLock(t) \/ TryList(t) \/ Unlock(t) \/ UnlockList(t)
  PROVE  TypeOK'
<1>1. PICK m \in Monitors : m = pt[t][2] /\ pt[t] = LockPoint(m) /\ pt[t] \in Points
  BY PointFacts DEF TryLock, TryList, Unlock, UnlockList, PlacesOK, PlaceOK, AtMonitor, Procs
<1>2. lockCount[m] \in 0 .. MaxDepth /\ depth[t][m] \in 0 .. MaxDepth /\ MaxDepth \in Nat \ {0}
  BY MonitorAssumption DEF TypeOK
<1>3. CASE TryLock(t)
  <2>5. t # None
    BY PointFacts DEF Procs
  <2>1. owner[m] \in {None, t} =>
           lockCount[m] + 1 \in 0 .. MaxDepth /\ depth[t][m] + 1 \in 0 .. MaxDepth
    <3>1. pc[t] = "tryLock"
      BY <1>3 DEF TryLock
    <3>2. owner[m] \in {None, t} => lockCount[m] = depth[t][m] /\ depth[t][m] < MaxDepth
      BY <1>1, <3>1, LockRoom
    <3> QED
      BY <1>2, <3>2
  <2>2. CASE owner[m] = None
    <3>1. /\ owner' = [owner EXCEPT ![m] = t]
          /\ lockCount' = [lockCount EXCEPT ![m] = 1]
          /\ rlock' = [rlock EXCEPT ![pt[t]] = t]
          /\ pc' = [pc EXCEPT ![t] = "tryList"]
          /\ UNCHANGED <<pt, depth>>
      BY ZenonT(30), <1>1, <1>3, <2>2, <2>5 DEF TryLock
    <3>2. /\ owner' \in [Monitors -> Threads \cup {None}]
          /\ lockCount' \in [Monitors -> 0 .. MaxDepth]
      BY <1>2, <3>1 DEF TypeOK
    <3>3. pc' \in [Procs -> Places] /\ rlock' \in [Points -> Procs \cup {None}]
      BY <3>1 DEF TypeOK, Places, Procs
    <3> QED
      BY <1>3, <3>1, <3>2, <3>3 DEF TryLock, TypeOK
  <2>3. CASE owner[m] = t
    <3>1. /\ lockCount' = [lockCount EXCEPT ![m] = @ + 1]
          /\ depth' = [depth EXCEPT ![t][m] = @ + 1]
          /\ pc' = [pc EXCEPT ![t] = "thread"] /\ pt' = [pt EXCEPT ![t] = None]
          /\ UNCHANGED <<owner, rlock>>
      BY <1>1, <1>3, <2>3, PointFacts DEF TryLock, Procs
    <3>2. depth' \in [Threads -> [Monitors -> 0 .. MaxDepth]]
      BY <2>1, <2>3, <3>1 DEF TypeOK
    <3>3. lockCount' \in [Monitors -> 0 .. MaxDepth]
      BY <2>1, <2>3, <3>1 DEF TypeOK
    <3> QED
      BY <1>3, <3>1, <3>2, <3>3 DEF TryLock, TypeOK, Places
  <2>4. CASE owner[m] \notin {None, t}
    BY <1>1, <1>3, <2>4 DEF TryLock, TypeOK, Places
  <2> QED
    BY <2>2, <2>3, <2>4
<1>4. CASE TryList(t)
  <2>1. depth[t][m] + 1 \in 0 .. MaxDepth
    <3>1. OwnerOK(t, m) /\ pc[t] = "tryList" /\ pt[t][2] = m
      BY <1>1, <1>4 DEF TryList, OwnersOK
    <3>2. depth[t][m] = 0
      BY <3>1 DEF OwnerOK
    <3> QED
      BY <1>2, <3>2
  <2>2. depth' \in [Threads -> [Monitors -> 0 .. MaxDepth]]
    BY <1>1, <1>4, <2>1 DEF TryList, TypeOK
  <2>3. monitorList' \in [Threads -> Seq(Monitors)]
    BY <1>1, <1>4, AppendProperties DEF TryList, TypeOK
  <2>4. pc' \in [Procs -> Places] /\ pt' \in [Procs -> Points \cup {None}]
    BY <1>4 DEF TryList, TypeOK, Places
  <2>5. rlock' \in [Points -> Procs \cup {None}]
    BY <1>4 DEF TryList, TypeOK
  <2> QED
    BY <1>4, <2>2, <2>3, <2>4, <2>5 DEF TryList, TypeOK
<1>5. CASE Unlock(t)
  <2>1. lockCount[m] - 1 \in 0 .. MaxDepth
    BY <1>1, <1>2, <1>5 DEF Unlock
  <2>2. lockCount' \in [Monitors -> 0 .. MaxDepth]
    BY <1>1, <1>5, <2>1 DEF Unlock, TypeOK
  <2>3. CASE lockCount[m] > 1
    <3>1. /\ pc' = [pc EXCEPT ![t] = "thread"] /\ pt' = [pt EXCEPT ![t] = None]
          /\ UNCHANGED rlock
      BY <1>1, <1>5, <2>3 DEF Unlock
    <3> QED
      BY <1>5, <2>2, <3>1 DEF Unlock, TypeOK, Places
  <2>4. CASE lockCount[m] = 1
    <3>1. /\ pc' = [pc EXCEPT ![t] = "unlockList"] /\ rlock' = [rlock EXCEPT ![pt[t]] = t]
          /\ UNCHANGED pt
      BY <1>1, <1>5, <2>4 DEF Unlock
    <3> QED
      BY <1>5, <2>2, <3>1 DEF Unlock, TypeOK, Places, Procs
  <2> QED
    BY <1>1, <1>5, <2>3, <2>4 DEF Unlock
<1>6. CASE UnlockList(t)
  <2>1. Without(monitorList[t], m) \in Seq(Monitors)
    BY WithoutLists DEF TypeOK
  <2>2. monitorList' \in [Threads -> Seq(Monitors)]
    BY <1>1, <1>6, <2>1 DEF UnlockList, TypeOK
  <2> QED
    BY <1>1, <1>6, <2>2 DEF UnlockList, TypeOK, Places
<1> QED
  BY <1>3, <1>4, <1>5, <1>6

LEMMA WaitTypes ==
  ASSUME TypeOK, PlacesOK, NEW t \in Threads,
         \/ WaitTest(t) \/ WaitRelease(t) \/ WaitList(t) \/ WaitRelock(t) \/ WaitRestore(t)
  PROVE  TypeOK'
<1>1. PICK m \in Monitors :
        m = pt[t][2] /\ LockPoint(m) \in Points /\ pt[t] \in Points
  BY PointFacts DEF WaitTest, WaitRelease, WaitList, WaitRelock, WaitRestore, PlacesOK, PlaceOK,
              AtMonitor, AtCondition, AtPoint, Procs
<1>2. CASE WaitTest(t)
  BY <1>2 DEF WaitTest, TypeOK, Places, Procs
<1>3. CASE WaitRelease(t)
  <2>1. 0 \in 0 .. MaxDepth
    BY MonitorAssumption
  <2> QED
    BY <1>3, <2>1 DEF WaitRelease, TypeOK, Places
<1>4. CASE WaitList(t)
  <2>1. Without(monitorList[t], m) \in Seq(Monitors)
    BY WithoutLists DEF TypeOK
  <2>2. monitorList' \in [Threads -> Seq(Monitors)]
    BY <1>1, <1>4, <2>1 DEF WaitList, TypeOK
  <2>3. pt' \in [Procs -> Points \cup {None}] /\ tlock' \in [Threads -> Procs \cup {None}]
    BY <1>1, <1>4 DEF WaitList, TypeOK, Procs
  <2> QED
    BY <1>4, <2>2, <2>3 DEF WaitList, TypeOK, Places
<1>5. CASE WaitRelock(t)
  <2>1. pt' \in [Procs -> Points \cup {None}]
    BY <1>1, <1>5 DEF WaitRelock, TypeOK
  <2> QED
    BY <1>5, <2>1 DEF WaitRelock, TypeOK
<1>6. CASE WaitRestore(t)
  <2>1. count[t] \in 0 .. MaxDepth /\ 0 \in 0 .. MaxDepth
    BY MonitorAssumption DEF TypeOK
  <2>2. /\ depth' \in [Threads -> [Monitors -> 0 .. MaxDepth]]
        /\ lockCount' \in [Monitors -> 0 .. MaxDepth]
        /\ count' \in [Threads -> 0 .. MaxDepth]
    BY <1>1, <1>6, <2>1 DEF WaitRestore, TypeOK
  <2>3. pc' \in [Procs -> Places] /\ pt' \in [Procs -> Points \cup {None}]
    BY <1>6 DEF WaitRestore, TypeOK, Places
  <2> QED
    BY <1>6, <2>2, <2>3 DEF WaitRestore, TypeOK
<1> QED
  BY <1>2, <1>3, <1>4, <1>5, <1>6

LEMMA ExitTypes ==
  ASSUME TypeOK, ListsOK, NEW t \in Threads, Exit(t) \/ ExitUnlock(t) \/ ExitDone(t)
  PROVE  TypeOK'
<1>1. CASE Exit(t)
  BY <1>1 DEF Exit, TypeOK, Places, Procs
<1>2. CASE ExitUnlock(t)
  <2>1. PICK m \in Monitors : m = Head(monitorList[t]) /\ LockPoint(m) \in Points
    BY <1>2, ListedFirst, PointFacts DEF ExitUnlock
  <2>2. Tail(monitorList[t]) \in Seq(Monitors)
    BY <1>2, ListedFirst DEF ExitUnlock
  <2>3. /\ lockCount' \in [Monitors -> 0 .. MaxDepth]
        /\ owner' \in [Monitors -> Threads \cup {None}]
        /\ monitorList' \in [Threads -> Seq(Monitors)]
    BY <1>2, <2>1, <2>2, MonitorAssumption DEF ExitUnlock, TypeOK
  <2>4. /\ pt' \in [Procs -> Points \cup {None}] /\ rlock' \in [Points -> Procs \cup {None}]
        /\ pc' \in [Procs -> Places]
    BY <1>2, <2>1 DEF ExitUnlock, TypeOK, Places, Procs
  <2> QED
    BY <1>2, <2>3, <2>4 DEF ExitUnlock, TypeOK
<1>3. CASE ExitDone(t)
  BY <1>3 DEF ExitDone, TypeOK, Places
<1> QED
  BY <1>1, <1>2, <1>3

LEMMA AlarmTypes ==
  ASSUME TypeOK, WaitsOK, NEW t \in Threads, AlarmExpires(t)
  PROVE  TypeOK' /\ CvPoint(pt[t][2]) \in Points
<1>1. CvPoint(pt[t][2]) \in Points
  BY PointFacts DEF AlarmExpires, WaitsOK, WaitOK
<1>2. alarm' \in [Threads -> {"none", "pending", "fired"}]
  BY DEF AlarmExpires, TypeOK
<1>3. pc' \in [Procs -> Places] /\ pt' \in [Procs -> Points \cup {None}]
  BY <1>1 DEF AlarmExpires, TypeOK, Places
<1> QED
  BY <1>1, <1>2, <1>3 DEF AlarmExpires, TypeOK

LEMMA WakeTypes ==
  ASSUME TypeOK, PlacesOK, QueuesExact, NEW p \in Procs, WakeStep(p)
  PROVE  TypeOK'
<1>1. pt[p] \in Points /\ CvPoint(pt[p][2]) \in Points
  BY PointFacts DEF WakeStep, Wakeup, WakeFirst, WakeBusy, WakeWait, WakeDone, PlacesOK, PlaceOK,
              AtPoint
<1>2. CASE Wakeup(p)
  BY <1>1, <1>2 DEF Wakeup, TypeOK, Places
<1>3. CASE WakeFirst(p)
  <2>1. Head(queue[pt[p]]) \in Threads /\ Tail(queue[pt[p]]) \in Seq(Threads)
    BY <1>1, <1>3, WaitsFirst DEF WakeFirst
  <2> QED
    BY <1>1, <1>3, <2>1 DEF WakeFirst, TypeOK
<1>4. CASE WakeBusy(p)
  <2>1. Head(queue[pt[p]]) \in Threads
    BY <1>1, <1>4, WaitsFirst DEF WakeBusy
  <2> QED
    BY <1>1, <1>4, <2>1 DEF WakeBusy, TypeOK, Places
<1>5. CASE WakeWait(p)
  BY <1>1, <1>5 DEF WakeWait, TypeOK, Places
<1>6. CASE WakeDone(p)
  <2>1. \E place \in {"enqueue", "exitNext", "thread"}, r \in {CvPoint(pt[p][2]), None} :
           pc' = [pc EXCEPT ![p] = place] /\ pt' = [pt EXCEPT ![p] = r]
    BY <1>6 DEF WakeDone
  <2>2. pc' \in [Procs -> Places]
    BY <2>1 DEF TypeOK, Places
  <2>3. pt' \in [Procs -> Points \cup {None}]
    BY <1>1, <2>1 DEF TypeOK
  <2>4. rlock' \in [Points -> Procs \cup {None}]
    BY <1>6 DEF WakeDone, TypeOK
  <2> QED
    BY <1>6, <2>2, <2>3, <2>4 DEF WakeDone, TypeOK
<1> QED
  BY <1>2, <1>3, <1>4, <1>5, <1>6 DEF WakeStep

LEMMA TypesStep ==
  ASSUME CountsOK, PointsHeld, OwnersOK, ListsOK, QueuesExact, ContendersOK, Next
  PROVE  TypeOK'
<1>1. ASSUME NEW t \in Threads, ThreadStep(t) PROVE TypeOK'
  BY <1>1, LockTypes, UpdateTypes, SleepTypes, OwnTypes, WaitTypes, ExitTypes
     DEF ThreadStep, CountsOK
<1>2. ASSUME NEW t \in Threads, Call(t) \/ AlarmExpires(t) PROVE TypeOK'
  BY <1>2, CallTypes, AlarmTypes DEF CountsOK
<1>3. ASSUME NEW p \in Procs, WakeStep(p) PROVE TypeOK'
  BY <1>3, WakeTypes DEF CountsOK
<1> QED
  BY <1>1, <1>2, <1>3 DEF Next

-----------------------------------------------------------------------------
(* The invariant by process.                                                 *)
ThreadOK(t) ==
    /\ WaitOK(t) /\ StateOK(t) /\ ListOK(t)
    /\ \A m \in Monitors : OwnerOK(t, m)
    /\ Contends(t) => owner[pt[t][2]] # None

ActorOK(p) == PlaceOK(p) /\ PointsHeldBy(p) /\ (p \in Threads => ThreadOK(p))

Sound ==
    /\ TypeOK /\ TimerOK
    /\ \A p \in Procs : ActorOK(p)
    /\ \A m \in Monitors : owner[m] = None => lockCount[m] = 0

LEMMA SoundIs ==
  Sound <=> CountsOK /\ PointsHeld /\ OwnersOK /\ ListsOK /\ ContendersOK
BY DEF CountsOK, PlacesOK, WaitsOK, StatesOK, PointsHeld, OwnersOK, ListsOK, ContendersOK,
       Sound, ActorOK, ThreadOK, Procs

LEMMA ThreadKnown ==
  ASSUME Sound, NEW t \in Threads
  PROVE  /\ t \in Procs /\ t # None
         /\ depth[t] \in [Monitors -> 0 .. MaxDepth] /\ count[t] \in 0 .. MaxDepth
         /\ owner \in [Monitors -> Threads \cup {None}]
         /\ lockCount \in [Monitors -> 0 .. MaxDepth]
         /\ rlock \in [Points -> Procs \cup {None}]
         /\ pt[t] \in Points \cup {None} /\ who[t] \in Threads \cup {None}
         /\ got[t] \in SUBSET Monitors /\ monitorList[t] \in Seq(Monitors)
         /\ MaxDepth \in Nat \ {0}
BY PointFacts, MonitorAssumption DEF Sound, TypeOK, Procs

LEMMA ThreadHere ==
  ASSUME Sound, NEW t \in Threads
  PROVE  ActorOK(t) /\ ThreadOK(t) /\ t # None
BY ThreadKnown DEF Sound, ActorOK, Procs

-----------------------------------------------------------------------------
(* The places of a process; from here on they are always expanded. *)
USE DEF AtMonitor, AtCondition, AtPoint, Asleep, Waking, Updating

(* What each step makes of its own thread.  First the calls, *)
LEMMA CallExitOwn ==
  ASSUME Sound, NEW t \in Threads, CallExit(t)
  PROVE  ActorOK(t)'
<1>1. /\ pc[t] = "thread" /\ pc'[t] = "exit" /\ pt'[t] = pt[t] /\ who'[t] = who[t]
      /\ got'[t] = got[t] /\ ret'[t] = ret[t] /\ count'[t] = count[t]
      /\ depth'[t] = [m \in Monitors |-> 0] /\ state'[t] = state[t]
      /\ rendezvous'[t] = rendezvous[t] /\ monitor'[t] = monitor[t]
      /\ alarm'[t] = alarm[t] /\ monitorList'[t] = monitorList[t] /\ owner' = owner
      /\ lockCount' = lockCount /\ rlock' = rlock
  BY ThreadKnown DEF CallExit, Sound, TypeOK
<1>2. ActorOK(t) /\ ThreadOK(t) /\ t # None
  BY ThreadHere
<1>3. PlaceOK(t)'
  BY <1>1, <1>2, ThreadKnown, PointFacts DEF ActorOK, ThreadOK, PlaceOK
<1>4. WaitOK(t)'
  BY <1>1, <1>2, ThreadKnown, PointFacts DEF ActorOK, ThreadOK, WaitOK, OnCondition, PlaceOK
<1>5. StateOK(t)'
  <2>1. count[t] = 0 /\ state[t] = "ready" /\ monitor[t] = None
    BY <1>1, <1>2, ThreadKnown DEF ThreadOK, WaitOK, StateOK, Sound, TypeOK
  <2>2. \A n \in Monitors : depth'[t][n] = 0
    BY <1>1
  <2> QED
    BY <1>1, <2>1, <2>2, ThreadKnown DEF StateOK, Ending
<1>6. PointsHeldBy(t)'
  BY <1>1, <1>2, ThreadKnown, PointFacts
     DEF ActorOK, ThreadOK, PointsHeldBy, HoldsPoint, WorksLocked, WaitsLocked, PlaceOK,
         WaitOK, OnCondition
<1>7. ListOK(t)'
  BY <1>1, <1>2, ThreadKnown, PointFacts DEF ActorOK, ThreadOK, ListOK
<1>8. \A n \in Monitors : OwnerOK(t, n)'
  BY <1>1, <1>2, ThreadKnown, PointFacts
     DEF ActorOK, ThreadOK, OwnerOK, Passing, Ending, StateOK, ListOK
<1>9. Contends(t)' => owner'[pt'[t][2]] # None
  BY <1>1, <1>2, ThreadKnown, PointFacts DEF ActorOK, ThreadOK, Contends, PlaceOK
<1> QED
  BY <1>3, <1>4, <1>5, <1>6, <1>7, <1>8, <1>9 DEF ActorOK, ThreadOK

LEMMA CallLockOwn ==
  ASSUME Sound, NEW t \in Threads, NEW m \in Monitors, CallLock(t, m)
  PROVE  ActorOK(t)'
<1>1. /\ pc[t] = "thread" /\ depth[t][m] < MaxDepth /\ pc'[t] = "sleep"
      /\ pt'[t] = LockPoint(m) /\ who'[t] = who[t] /\ got'[t] = got[t] /\ ret'[t] = ret[t]
      /\ count'[t] = count[t] /\ depth'[t] = depth[t] /\ state'[t] = state[t]
      /\ rendezvous'[t] = rendezvous[t] /\ monitor'[t] = monitor[t]
      /\ alarm'[t] = alarm[t] /\ monitorList'[t] = monitorList[t] /\ owner' = owner
      /\ lockCount' = lockCount /\ rlock' = rlock
  BY ThreadKnown DEF CallLock, Sound, TypeOK
<1>2. ActorOK(t) /\ ThreadOK(t) /\ t # None
  BY ThreadHere
<1>3. PlaceOK(t)'
  BY <1>1, <1>2, ThreadKnown, PointFacts DEF ActorOK, ThreadOK, PlaceOK
<1>4. WaitOK(t)'
  BY <1>1, <1>2, ThreadKnown, PointFacts DEF ActorOK, ThreadOK, WaitOK, OnCondition, PlaceOK
<1>5. StateOK(t)'
  <2>1. \A n \in Monitors : LockPoint(m) = LockPoint(n) => n = m
    BY PointFacts
  <2>2. state[t] = "ready" /\ monitor[t] = None
    BY <1>1, <1>2, ThreadKnown, PointFacts DEF ThreadOK, StateOK, Sound, TypeOK
  <2> QED
    BY <1>1, <1>2, <2>1, <2>2, ThreadKnown DEF ThreadOK, StateOK, Ending
<1>6. PointsHeldBy(t)'
  BY <1>1, <1>2, ThreadKnown, PointFacts
     DEF ActorOK, ThreadOK, PointsHeldBy, HoldsPoint, WorksLocked, WaitsLocked, PlaceOK,
         WaitOK, OnCondition
<1>7. ListOK(t)'
  BY <1>1, <1>2, ThreadKnown, PointFacts DEF ActorOK, ThreadOK, ListOK
<1>8. \A n \in Monitors : OwnerOK(t, n)'
  BY <1>1, <1>2, ThreadKnown, PointFacts
     DEF ActorOK, ThreadOK, OwnerOK, Passing, Ending, StateOK, ListOK
<1>9. Contends(t)' => owner'[pt'[t][2]] # None
  BY <1>1, <1>2, ThreadKnown, PointFacts DEF ActorOK, ThreadOK, Contends, PlaceOK
<1> QED
  BY <1>3, <1>4, <1>5, <1>6, <1>7, <1>8, <1>9 DEF ActorOK, ThreadOK

LEMMA CallTryLockOwn ==
  ASSUME Sound, NEW t \in Threads, NEW m \in Monitors, CallTryLock(t, m)
  PROVE  ActorOK(t)'
<1>1. /\ pc[t] = "thread" /\ depth[t][m] < MaxDepth /\ pc'[t] = "tryLock"
      /\ pt'[t] = LockPoint(m) /\ who'[t] = who[t] /\ got'[t] = got[t] /\ ret'[t] = ret[t]
      /\ count'[t] = count[t] /\ depth'[t] = depth[t] /\ state'[t] = state[t]
      /\ rendezvous'[t] = rendezvous[t] /\ monitor'[t] = monitor[t]
      /\ alarm'[t] = alarm[t] /\ monitorList'[t] = monitorList[t] /\ owner' = owner
      /\ lockCount' = lockCount /\ rlock' = rlock
  BY ThreadKnown DEF CallTryLock, Sound, TypeOK
<1>2. ActorOK(t) /\ ThreadOK(t) /\ t # None
  BY ThreadHere
<1>3. PlaceOK(t)'
  BY <1>1, <1>2, ThreadKnown, PointFacts DEF ActorOK, ThreadOK, PlaceOK
<1>4. WaitOK(t)'
  BY <1>1, <1>2, ThreadKnown, PointFacts DEF ActorOK, ThreadOK, WaitOK, OnCondition, PlaceOK
<1>5. StateOK(t)'
  <2>1. \A n \in Monitors : LockPoint(m) = LockPoint(n) => n = m
    BY PointFacts
  <2>2. state[t] = "ready" /\ monitor[t] = None
    BY <1>1, <1>2, ThreadKnown, PointFacts DEF ThreadOK, StateOK, Sound, TypeOK
  <2> QED
    BY <1>1, <1>2, <2>1, <2>2, ThreadKnown DEF ThreadOK, StateOK, Ending
<1>6. PointsHeldBy(t)'
  BY <1>1, <1>2, ThreadKnown, PointFacts
     DEF ActorOK, ThreadOK, PointsHeldBy, HoldsPoint, WorksLocked, WaitsLocked, PlaceOK,
         WaitOK, OnCondition
<1>7. ListOK(t)'
  BY <1>1, <1>2, ThreadKnown, PointFacts DEF ActorOK, ThreadOK, ListOK
<1>8. \A n \in Monitors : OwnerOK(t, n)'
  BY <1>1, <1>2, ThreadKnown, PointFacts
     DEF ActorOK, ThreadOK, OwnerOK, Passing, Ending, StateOK, ListOK
<1>9. Contends(t)' => owner'[pt'[t][2]] # None
  BY <1>1, <1>2, ThreadKnown, PointFacts DEF ActorOK, ThreadOK, Contends, PlaceOK
<1> QED
  BY <1>3, <1>4, <1>5, <1>6, <1>7, <1>8, <1>9 DEF ActorOK, ThreadOK

LEMMA CallUnlockOwn ==
  ASSUME Sound, NEW t \in Threads, NEW m \in Monitors, CallUnlock(t, m)
  PROVE  ActorOK(t)'
<1>1. /\ pc[t] = "thread" /\ depth[t][m] > 0 /\ pc'[t] = "unlock" /\ pt'[t] = LockPoint(m)
      /\ who'[t] = who[t] /\ got'[t] = got[t] /\ ret'[t] = ret[t] /\ count'[t] = count[t]
      /\ depth'[t] = [depth[t] EXCEPT ![m] = @ - 1] /\ state'[t] = state[t]
      /\ rendezvous'[t] = rendezvous[t] /\ monitor'[t] = monitor[t]
      /\ alarm'[t] = alarm[t] /\ monitorList'[t] = monitorList[t] /\ owner' = owner
      /\ lockCount' = lockCount /\ rlock' = rlock
  BY ThreadKnown DEF CallUnlock, Sound, TypeOK
<1>2. ActorOK(t) /\ ThreadOK(t) /\ t # None
  BY ThreadHere
<1>3. PlaceOK(t)'
  BY <1>1, <1>2, ThreadKnown, PointFacts DEF ActorOK, ThreadOK, PlaceOK
<1>4. WaitOK(t)'
  BY <1>1, <1>2, ThreadKnown, PointFacts DEF ActorOK, ThreadOK, WaitOK, OnCondition, PlaceOK
<1>5. StateOK(t)'
  <2>1. \A n \in Monitors : LockPoint(m) = LockPoint(n) => n = m
    BY PointFacts
  <2>2. state[t] = "ready" /\ monitor[t] = None
    BY <1>1, <1>2, ThreadKnown, PointFacts DEF ThreadOK, StateOK, Sound, TypeOK
  <2> QED
    BY <1>1, <1>2, <2>1, <2>2, ThreadKnown DEF ThreadOK, StateOK, Ending
<1>6. PointsHeldBy(t)'
  BY <1>1, <1>2, ThreadKnown, PointFacts
     DEF ActorOK, ThreadOK, PointsHeldBy, HoldsPoint, WorksLocked, WaitsLocked, PlaceOK,
         WaitOK, OnCondition
<1>7. ListOK(t)'
  BY <1>1, <1>2, ThreadKnown, PointFacts DEF ActorOK, ThreadOK, ListOK
<1>8. \A n \in Monitors : OwnerOK(t, n)'
  BY <1>1, <1>2, ThreadKnown, PointFacts
     DEF ActorOK, ThreadOK, OwnerOK, Passing, Ending, StateOK, ListOK
<1>9. Contends(t)' => owner'[pt'[t][2]] # None
  BY <1>1, <1>2, ThreadKnown, PointFacts DEF ActorOK, ThreadOK, Contends, PlaceOK
<1> QED
  BY <1>3, <1>4, <1>5, <1>6, <1>7, <1>8, <1>9 DEF ActorOK, ThreadOK

LEMMA CallWaitOwn ==
  ASSUME Sound, NEW t \in Threads, NEW m \in Monitors, CallWait(t, m)
  PROVE  ActorOK(t)'
<1>1. /\ pc[t] = "thread" /\ depth[t][m] > 0 /\ pc'[t] = "sleep" /\ pt'[t] = CvPoint(m)
      /\ who'[t] = who[t] /\ got'[t] = got[t] /\ ret'[t] = ret[t]
      /\ count'[t] = lockCount[m] /\ depth'[t] = [depth[t] EXCEPT ![m] = 0]
      /\ state'[t] = state[t] /\ rendezvous'[t] = rendezvous[t]
      /\ monitor'[t] = monitor[t] /\ monitorList'[t] = monitorList[t] /\ owner' = owner
      /\ lockCount' = lockCount /\ rlock' = rlock
  BY ThreadKnown DEF CallWait, Sound, TypeOK
<1>2. ActorOK(t) /\ ThreadOK(t) /\ t # None
  BY ThreadHere
<1>3. PlaceOK(t)'
  BY <1>1, <1>2, ThreadKnown, PointFacts DEF ActorOK, ThreadOK, PlaceOK
<1>4. WaitOK(t)'
  <2>1. lockCount[m] > 0
    BY <1>1, <1>2, ThreadKnown DEF ThreadOK, OwnerOK
  <2>2. CvPoint(m)[2] = m /\ CvPoint(m) \in CvPoints /\ CvPoint(m) \in Points
    BY PointFacts
  <2> QED
    BY <1>1, <2>1, <2>2, ThreadKnown DEF WaitOK, OnCondition
<1>5. StateOK(t)'
  BY <1>1, <1>2, ThreadKnown, PointFacts
     DEF ActorOK, ThreadOK, StateOK, Ending, WaitOK, OnCondition
<1>6. PointsHeldBy(t)'
  BY <1>1, <1>2, ThreadKnown, PointFacts
     DEF ActorOK, ThreadOK, PointsHeldBy, HoldsPoint, WorksLocked, WaitsLocked, PlaceOK,
         WaitOK, OnCondition
<1>7. ListOK(t)'
  BY <1>1, <1>2, ThreadKnown, PointFacts DEF ActorOK, ThreadOK, ListOK
<1>8. \A n \in Monitors : OwnerOK(t, n)'
  BY <1>1, <1>2, ThreadKnown, PointFacts
     DEF ActorOK, ThreadOK, OwnerOK, Passing, Ending, StateOK, ListOK
<1>9. Contends(t)' => owner'[pt'[t][2]] # None
  BY <1>1, <1>2, ThreadKnown, PointFacts DEF ActorOK, ThreadOK, Contends, PlaceOK
<1> QED
  BY <1>3, <1>4, <1>5, <1>6, <1>7, <1>8, <1>9 DEF ActorOK, ThreadOK

LEMMA CallNotifyOwn ==
  ASSUME Sound, NEW t \in Threads, NEW m \in Monitors, CallNotify(t, m)
  PROVE  ActorOK(t)'
<1>1. /\ pc[t] = "thread" /\ pc'[t] = "wakeup" /\ pt'[t] = CvPoint(m) /\ who'[t] = who[t]
      /\ got'[t] = got[t] /\ ret'[t] = ret[t] /\ count'[t] = count[t]
      /\ depth'[t] = depth[t] /\ state'[t] = state[t] /\ rendezvous'[t] = rendezvous[t]
      /\ monitor'[t] = monitor[t] /\ alarm'[t] = alarm[t]
      /\ monitorList'[t] = monitorList[t] /\ owner' = owner /\ lockCount' = lockCount
      /\ rlock' = rlock
  BY ThreadKnown DEF CallNotify, Sound, TypeOK
<1>2. ActorOK(t) /\ ThreadOK(t) /\ t # None
  BY ThreadHere
<1>3. PlaceOK(t)'
  BY <1>1, <1>2, ThreadKnown, PointFacts DEF ActorOK, ThreadOK, PlaceOK
<1>4. WaitOK(t)'
  BY <1>1, <1>2, ThreadKnown, PointFacts DEF ActorOK, ThreadOK, WaitOK, OnCondition, PlaceOK
<1>5. StateOK(t)'
  BY <1>1, <1>2, ThreadKnown, PointFacts
     DEF ActorOK, ThreadOK, StateOK, Ending, WaitOK, OnCondition
<1>6. PointsHeldBy(t)'
  <2>1. count[t] = 0 /\ got[t] = {}
    BY <1>1, <1>2, ThreadKnown DEF ThreadOK, ActorOK, WaitOK, PlaceOK
  <2>2. \A r \in Points : ~HoldsPoint(t, r)'
    BY <1>1, <2>1 DEF HoldsPoint, WorksLocked, WaitsLocked
  <2> QED
    BY <1>1, <2>1, <2>2 DEF PointsHeldBy
<1>7. ListOK(t)'
  BY <1>1, <1>2, ThreadKnown, PointFacts DEF ActorOK, ThreadOK, ListOK
<1>8. \A n \in Monitors : OwnerOK(t, n)'
  BY <1>1, <1>2, ThreadKnown, PointFacts
     DEF ActorOK, ThreadOK, OwnerOK, Passing, Ending, StateOK, ListOK
<1>9. Contends(t)' => owner'[pt'[t][2]] # None
  BY <1>1, <1>2, ThreadKnown, PointFacts DEF ActorOK, ThreadOK, Contends, PlaceOK
<1> QED
  BY <1>3, <1>4, <1>5, <1>6, <1>7, <1>8, <1>9 DEF ActorOK, ThreadOK

LEMMA CallSetPriorityOwn ==
  ASSUME Sound, NEW t \in Threads, NEW u \in Threads, NEW e \in Prios, CallSetPriority(t, u, e)
  PROVE  ActorOK(t)'
<1>1. /\ pc[t] = "thread" /\ pc'[t] = "update" /\ pt'[t] = pt[t] /\ who'[t] = u
      /\ got'[t] = got[t] /\ ret'[t] = ret[t] /\ count'[t] = count[t]
      /\ depth'[t] = depth[t] /\ state'[t] = state[t] /\ rendezvous'[t] = rendezvous[t]
      /\ monitor'[t] = monitor[t] /\ alarm'[t] = alarm[t]
      /\ monitorList'[t] = monitorList[t] /\ owner' = owner /\ lockCount' = lockCount
      /\ rlock' = rlock
  BY ThreadKnown DEF CallSetPriority, Sound, TypeOK
<1>2. ActorOK(t) /\ ThreadOK(t) /\ t # None
  BY ThreadHere
<1>3. PlaceOK(t)'
  BY <1>1, <1>2, ThreadKnown, PointFacts DEF ActorOK, ThreadOK, PlaceOK
<1>4. WaitOK(t)'
  BY <1>1, <1>2, ThreadKnown, PointFacts DEF ActorOK, ThreadOK, WaitOK, OnCondition, PlaceOK
<1>5. StateOK(t)'
  BY <1>1, <1>2, ThreadKnown, PointFacts
     DEF ActorOK, ThreadOK, StateOK, Ending, WaitOK, OnCondition
<1>6. PointsHeldBy(t)'
  BY <1>1, <1>2, ThreadKnown, PointFacts
     DEF ActorOK, ThreadOK, PointsHeldBy, HoldsPoint, WorksLocked, WaitsLocked, PlaceOK,
         WaitOK, OnCondition
<1>7. ListOK(t)'
  BY <1>1, <1>2, ThreadKnown, PointFacts DEF ActorOK, ThreadOK, ListOK
<1>8. \A n \in Monitors : OwnerOK(t, n)'
  BY <1>1, <1>2, ThreadKnown, PointFacts
     DEF ActorOK, ThreadOK, OwnerOK, Passing, Ending, StateOK, ListOK
<1>9. Contends(t)' => owner'[pt'[t][2]] # None
  BY <1>1, <1>2, ThreadKnown, PointFacts DEF ActorOK, ThreadOK, Contends, PlaceOK
<1> QED
  BY <1>3, <1>4, <1>5, <1>6, <1>7, <1>8, <1>9 DEF ActorOK, ThreadOK

(* lock(), with the inheritance of the priority, *)
LEMMA LockTakeOwn ==
  ASSUME Sound, NEW t \in Threads, LockTake(t)
  PROVE  ActorOK(t)'
<1>0. PICK m \in Monitors : m = pt[t][2] /\ pt[t] = LockPoint(m) /\ pt[t] \in Points
  BY ThreadKnown, PointFacts DEF LockTake, Sound, ActorOK, PlaceOK
<1>1. /\ pc[t] = "sleep" /\ pt[t] = LockPoint(m) /\ owner[m] \in {None, t}
      /\ who'[t] = who[t] /\ got'[t] = got[t] /\ ret'[t] = ret[t] /\ count'[t] = count[t]
      /\ state'[t] = state[t] /\ rendezvous'[t] = rendezvous[t] /\ monitor'[t] = None
      /\ alarm'[t] = alarm[t]
      /\ monitorList'[t] = IF owner[m] = None THEN Append(monitorList[t], m) ELSE monitorList[t]
      /\ owner' = [owner EXCEPT ![m] = t] /\ lockCount' = [lockCount EXCEPT ![m] = @ + 1]
      /\ rlock' = rlock
      /\ \/ /\ count[t] = 0 /\ depth'[t] = [depth[t] EXCEPT ![m] = @ + 1]
            /\ pc'[t] = "thread" /\ pt'[t] = None
         \/ count[t] > 0 /\ pc'[t] = "restore" /\ pt'[t] = pt[t] /\ depth'[t] = depth[t]
  BY ZenonT(30), <1>0, ThreadKnown DEF LockTake, Sound, TypeOK
<1>2. ActorOK(t) /\ ThreadOK(t) /\ t # None
  BY ThreadHere
<1>3. PlaceOK(t)'
  BY <1>0, <1>1, <1>2, ThreadKnown, PointFacts DEF ActorOK, ThreadOK, PlaceOK
<1>4. WaitOK(t)'
  BY <1>0, <1>1, <1>2, ThreadKnown, PointFacts
     DEF ActorOK, ThreadOK, WaitOK, OnCondition, PlaceOK
<1>5. StateOK(t)'
  BY <1>0, <1>1, <1>2, ThreadKnown, PointFacts
     DEF ActorOK, ThreadOK, StateOK, Ending, WaitOK, OnCondition
<1>6. PointsHeldBy(t)'
  BY <1>0, <1>1, <1>2, ThreadKnown, PointFacts
     DEF ActorOK, ThreadOK, PointsHeldBy, HoldsPoint, WorksLocked, WaitsLocked, PlaceOK,
         WaitOK, OnCondition
<1>7. ListOK(t)'
  <2>1. ListOK(t) /\ pc[t] = "sleep" /\ pc'[t] \in {"thread", "restore"}
    BY <1>1, <1>2 DEF ThreadOK
  <2>2. CASE owner[m] = None
    <3>1. Once(monitorList[t]) /\ m \notin ToSet(monitorList[t])
      BY <2>1, <2>2, ThreadKnown DEF ListOK
    <3>2. monitorList'[t] = Append(monitorList[t], m)
      BY <1>1, <2>2
    <3>3. Once(monitorList'[t]) /\ ToSet(monitorList'[t]) = ToSet(monitorList[t]) \cup {m}
      BY <3>1, <3>2, ThreadKnown, AppendLists
    <3> QED
      BY <1>1, <2>1, <3>3, ThreadKnown DEF ListOK
  <2>3. CASE owner[m] = t
    BY <1>1, <2>1, <2>3, ThreadKnown DEF ListOK
  <2> QED
    BY <1>1, <2>2, <2>3
<1>8. \A n \in Monitors : OwnerOK(t, n)'
  <2>1. \A n \in Monitors : OwnerOK(t, n)
    BY <1>2 DEF ThreadOK
  <2>2. ASSUME NEW n \in Monitors, n # m PROVE OwnerOK(t, n)'
    <3>1. /\ owner'[n] = owner[n] /\ lockCount'[n] = lockCount[n] /\ depth'[t][n] = depth[t][n]
          /\ pc[t] = "sleep" /\ pt[t] # CvPoint(n) /\ pc'[t] \in {"thread", "restore"}
          /\ pc'[t] = "restore" => pt'[t][2] = m
          /\ state'[t] = state[t]
      BY <1>0, <1>1, <2>2, ThreadKnown, PointFacts
    <3>2. OwnerOK(t, n)
      BY <2>1
    <3> QED
      BY <2>2, <3>1, <3>2 DEF OwnerOK, Passing, Ending
  <2>3. OwnerOK(t, m)'
    <3>0. lockCount[m] = depth[t][m]
      BY <1>0, <1>1, LockRoom, SoundIs DEF CountsOK
    <3>1. /\ lockCount[m] = depth[t][m] /\ depth[t][m] \in Nat
          /\ owner'[m] = t /\ lockCount'[m] = depth[t][m] + 1
      BY <1>1, <3>0, ThreadKnown
    <3>2. count[t] > 0 => depth[t][m] = 0
      BY <1>0, <1>2 DEF ThreadOK, WaitOK
    <3>3. CASE /\ depth'[t] = [depth[t] EXCEPT ![m] = @ + 1]
               /\ pc'[t] = "thread"
      <4>1. depth'[t][m] = depth[t][m] + 1
        BY <3>3, ThreadKnown
      <4> QED
        BY <3>1, <3>3, <4>1 DEF OwnerOK
    <3>4. CASE count[t] > 0 /\ pc'[t] = "restore" /\ pt'[t] = pt[t] /\ depth'[t] = depth[t]
      BY <1>0, <3>1, <3>2, <3>4 DEF OwnerOK, Passing
    <3> QED
      BY <1>1, <3>3, <3>4
  <2> QED
    BY <2>2, <2>3
<1>9. Contends(t)' => owner'[pt'[t][2]] # None
  BY <1>0, <1>1, <1>2, ThreadKnown, PointFacts DEF ActorOK, ThreadOK, Contends, PlaceOK
<1> QED
  BY <1>3, <1>4, <1>5, <1>6, <1>7, <1>8, <1>9 DEF ActorOK, ThreadOK

LEMMA LockContendOwn ==
  ASSUME Sound, NEW t \in Threads, LockContend(t)
  PROVE  ActorOK(t)'
<1>0. PICK m \in Monitors : m = pt[t][2] /\ pt[t] = LockPoint(m) /\ pt[t] \in Points
  BY ThreadKnown, PointFacts DEF LockContend, Sound, ActorOK, PlaceOK
<1>1. /\ pc[t] = "sleep" /\ pt[t] = LockPoint(m) /\ owner[m] \notin {None, t}
      /\ pc'[t] = "inherit" /\ pt'[t] = pt[t] /\ who'[t] = who[t] /\ got'[t] = got[t]
      /\ ret'[t] = ret[t] /\ count'[t] = count[t] /\ depth'[t] = depth[t]
      /\ state'[t] = state[t] /\ rendezvous'[t] = rendezvous[t] /\ monitor'[t] = None
      /\ alarm'[t] = alarm[t] /\ monitorList'[t] = monitorList[t] /\ owner' = owner
      /\ lockCount' = lockCount /\ rlock' = [rlock EXCEPT ![pt[t]] = t]
  BY <1>0, ThreadKnown DEF LockContend, Sound, TypeOK
<1>2. ActorOK(t) /\ ThreadOK(t) /\ t # None
  BY ThreadHere
<1>3. PlaceOK(t)'
  BY <1>0, <1>1, <1>2, ThreadKnown, PointFacts DEF ActorOK, ThreadOK, PlaceOK
<1>4. WaitOK(t)'
  BY <1>0, <1>1, <1>2, ThreadKnown, PointFacts
     DEF ActorOK, ThreadOK, WaitOK, OnCondition, PlaceOK
<1>5. StateOK(t)'
  BY <1>0, <1>1, <1>2, ThreadKnown, PointFacts
     DEF ActorOK, ThreadOK, StateOK, Ending, WaitOK, OnCondition
<1>6. PointsHeldBy(t)'
  BY <1>0, <1>1, <1>2, ThreadKnown, PointFacts
     DEF ActorOK, ThreadOK, PointsHeldBy, HoldsPoint, WorksLocked, WaitsLocked, PlaceOK,
         WaitOK, OnCondition
<1>7. ListOK(t)'
  BY <1>0, <1>1, <1>2, ThreadKnown, PointFacts DEF ActorOK, ThreadOK, ListOK
<1>8. \A n \in Monitors : OwnerOK(t, n)'
  BY <1>0, <1>1, <1>2, ThreadKnown, PointFacts
     DEF ActorOK, ThreadOK, OwnerOK, Passing, Ending, StateOK, ListOK
<1>9. Contends(t)' => owner'[pt'[t][2]] # None
  BY <1>0, <1>1, <1>2, ThreadKnown, PointFacts DEF ActorOK, ThreadOK, Contends, PlaceOK
<1> QED
  BY <1>3, <1>4, <1>5, <1>6, <1>7, <1>8, <1>9 DEF ActorOK, ThreadOK

LEMMA InheritOwn ==
  ASSUME Sound, NEW t \in Threads, Inherit(t)
  PROVE  ActorOK(t)'
<1>1. /\ pc[t] = "inherit" /\ pc'[t] = "inheritOwner" /\ pt'[t] = pt[t]
      /\ who'[t] = who[t] /\ got'[t] = got[t] /\ ret'[t] = ret[t] /\ count'[t] = count[t]
      /\ depth'[t] = depth[t] /\ state'[t] = state[t] /\ rendezvous'[t] = rendezvous[t]
      /\ monitor'[t] = monitor[t] /\ alarm'[t] = alarm[t]
      /\ monitorList'[t] = monitorList[t] /\ owner' = owner /\ lockCount' = lockCount
      /\ rlock' = rlock
  BY ThreadKnown DEF Inherit, Sound, TypeOK
<1>2. ActorOK(t) /\ ThreadOK(t) /\ t # None
  BY ThreadHere
<1>3. PlaceOK(t)'
  BY <1>1, <1>2, ThreadKnown, PointFacts DEF ActorOK, ThreadOK, PlaceOK
<1>4. WaitOK(t)'
  BY <1>1, <1>2, ThreadKnown, PointFacts DEF ActorOK, ThreadOK, WaitOK, OnCondition, PlaceOK
<1>5. StateOK(t)'
  BY <1>1, <1>2, ThreadKnown, PointFacts
     DEF ActorOK, ThreadOK, StateOK, Ending, WaitOK, OnCondition
<1>6. PointsHeldBy(t)'
  BY <1>1, <1>2, ThreadKnown, PointFacts
     DEF ActorOK, ThreadOK, PointsHeldBy, HoldsPoint, WorksLocked, WaitsLocked, PlaceOK,
         WaitOK, OnCondition
<1>7. ListOK(t)'
  BY <1>1, <1>2, ThreadKnown, PointFacts DEF ActorOK, ThreadOK, ListOK
<1>8. \A n \in Monitors : OwnerOK(t, n)'
  BY <1>1, <1>2, ThreadKnown, PointFacts
     DEF ActorOK, ThreadOK, OwnerOK, Passing, Ending, StateOK, ListOK
<1>9. Contends(t)' => owner'[pt'[t][2]] # None
  BY <1>1, <1>2, ThreadKnown, PointFacts DEF ActorOK, ThreadOK, Contends, PlaceOK
<1> QED
  BY <1>3, <1>4, <1>5, <1>6, <1>7, <1>8, <1>9 DEF ActorOK, ThreadOK

LEMMA InheritNothingOwn ==
  ASSUME Sound, NEW t \in Threads, InheritNothing(t)
  PROVE  ActorOK(t)'
<1>0. PICK m \in Monitors : m = pt[t][2] /\ pt[t] = LockPoint(m) /\ pt[t] \in Points
  BY ThreadKnown, PointFacts DEF InheritNothing, Sound, ActorOK, PlaceOK
<1>1. /\ pc[t] = "inheritOwner" /\ pt[t] = LockPoint(m) /\ pc'[t] = "enqueue"
      /\ pt'[t] = pt[t] /\ who'[t] = who[t] /\ got'[t] = got[t] /\ ret'[t] = ret[t]
      /\ count'[t] = count[t] /\ depth'[t] = depth[t] /\ state'[t] = state[t]
      /\ rendezvous'[t] = rendezvous[t] /\ monitor'[t] = m /\ alarm'[t] = alarm[t]
      /\ monitorList'[t] = monitorList[t] /\ owner' = owner /\ lockCount' = lockCount
      /\ rlock' = rlock
  BY <1>0, ThreadKnown DEF InheritNothing, Sound, TypeOK
<1>2. ActorOK(t) /\ ThreadOK(t) /\ t # None
  BY ThreadHere
<1>3. PlaceOK(t)'
  BY <1>0, <1>1, <1>2, ThreadKnown, PointFacts DEF ActorOK, ThreadOK, PlaceOK
<1>4. WaitOK(t)'
  BY <1>0, <1>1, <1>2, ThreadKnown, PointFacts
     DEF ActorOK, ThreadOK, WaitOK, OnCondition, PlaceOK
<1>5. StateOK(t)'
  BY <1>0, <1>1, <1>2, ThreadKnown, PointFacts
     DEF ActorOK, ThreadOK, StateOK, Ending, WaitOK, OnCondition
<1>6. PointsHeldBy(t)'
  BY <1>0, <1>1, <1>2, ThreadKnown, PointFacts
     DEF ActorOK, ThreadOK, PointsHeldBy, HoldsPoint, WorksLocked, WaitsLocked, PlaceOK,
         WaitOK, OnCondition
<1>7. ListOK(t)'
  BY <1>0, <1>1, <1>2, ThreadKnown, PointFacts DEF ActorOK, ThreadOK, ListOK
<1>8. \A n \in Monitors : OwnerOK(t, n)'
  BY <1>0, <1>1, <1>2, ThreadKnown, PointFacts
     DEF ActorOK, ThreadOK, OwnerOK, Passing, Ending, StateOK, ListOK
<1>9. Contends(t)' => owner'[pt'[t][2]] # None
  BY <1>0, <1>1, <1>2, ThreadKnown, PointFacts DEF ActorOK, ThreadOK, Contends, PlaceOK
<1> QED
  BY <1>3, <1>4, <1>5, <1>6, <1>7, <1>8, <1>9 DEF ActorOK, ThreadOK

LEMMA InheritRaiseOwn ==
  ASSUME Sound, NEW t \in Threads, InheritRaise(t)
  PROVE  ActorOK(t)'
<1>1. /\ pc[t] = "inheritOwner" /\ pc'[t] = "raise" /\ pt'[t] = pt[t] /\ who'[t] = who[t]
      /\ got'[t] = got[t] /\ ret'[t] = ret[t] /\ count'[t] = count[t]
      /\ depth'[t] = depth[t] /\ state'[t] = state[t] /\ rendezvous'[t] = rendezvous[t]
      /\ monitor'[t] = monitor[t] /\ alarm'[t] = alarm[t]
      /\ monitorList'[t] = monitorList[t] /\ owner' = owner /\ lockCount' = lockCount
      /\ rlock' = rlock
  BY ThreadKnown DEF InheritRaise, Sound, TypeOK
<1>2. ActorOK(t) /\ ThreadOK(t) /\ t # None
  BY ThreadHere
<1>3. PlaceOK(t)'
  BY <1>1, <1>2, ThreadKnown, PointFacts DEF ActorOK, ThreadOK, PlaceOK
<1>4. WaitOK(t)'
  BY <1>1, <1>2, ThreadKnown, PointFacts DEF ActorOK, ThreadOK, WaitOK, OnCondition, PlaceOK
<1>5. StateOK(t)'
  BY <1>1, <1>2, ThreadKnown, PointFacts
     DEF ActorOK, ThreadOK, StateOK, Ending, WaitOK, OnCondition
<1>6. PointsHeldBy(t)'
  BY <1>1, <1>2, ThreadKnown, PointFacts
     DEF ActorOK, ThreadOK, PointsHeldBy, HoldsPoint, WorksLocked, WaitsLocked, PlaceOK,
         WaitOK, OnCondition
<1>7. ListOK(t)'
  BY <1>1, <1>2, ThreadKnown, PointFacts DEF ActorOK, ThreadOK, ListOK
<1>8. \A n \in Monitors : OwnerOK(t, n)'
  BY <1>1, <1>2, ThreadKnown, PointFacts
     DEF ActorOK, ThreadOK, OwnerOK, Passing, Ending, StateOK, ListOK
<1>9. Contends(t)' => owner'[pt'[t][2]] # None
  BY <1>1, <1>2, ThreadKnown, PointFacts DEF ActorOK, ThreadOK, Contends, PlaceOK
<1> QED
  BY <1>3, <1>4, <1>5, <1>6, <1>7, <1>8, <1>9 DEF ActorOK, ThreadOK

LEMMA InheritRetryOwn ==
  ASSUME Sound, NEW t \in Threads, InheritRetry(t)
  PROVE  ActorOK(t)'
<1>0. PICK m \in Monitors : m = pt[t][2] /\ pt[t] = LockPoint(m) /\ pt[t] \in Points
  BY ThreadKnown, PointFacts DEF InheritRetry, Sound, ActorOK, PlaceOK
<1>o. owner[m] \in Threads
  BY <1>0, ThreadHere, ThreadKnown DEF InheritRetry, ThreadOK, Contends
<1>1. /\ pc[t] = "inheritOwner" /\ pt[t] = LockPoint(m) /\ owner[m] \in Threads
      /\ pc'[t] = "ownerWait" /\ pt'[t] = pt[t] /\ who'[t] = owner[m] /\ got'[t] = got[t]
      /\ ret'[t] = ret[t] /\ count'[t] = count[t] /\ depth'[t] = depth[t]
      /\ state'[t] = state[t] /\ rendezvous'[t] = rendezvous[t]
      /\ monitor'[t] = monitor[t] /\ alarm'[t] = alarm[t]
      /\ monitorList'[t] = monitorList[t] /\ owner' = owner /\ lockCount' = lockCount
      /\ rlock' = [rlock EXCEPT ![pt[t]] = None]
  BY <1>0, <1>o, ThreadKnown DEF InheritRetry, Sound, TypeOK
<1>2. ActorOK(t) /\ ThreadOK(t) /\ t # None
  BY ThreadHere
<1>3. PlaceOK(t)'
  BY <1>0, <1>1, <1>2, ThreadKnown, PointFacts DEF ActorOK, ThreadOK, PlaceOK
<1>4. WaitOK(t)'
  BY <1>0, <1>1, <1>2, ThreadKnown, PointFacts
     DEF ActorOK, ThreadOK, WaitOK, OnCondition, PlaceOK
<1>5. StateOK(t)'
  BY <1>0, <1>1, <1>2, ThreadKnown, PointFacts
     DEF ActorOK, ThreadOK, StateOK, Ending, WaitOK, OnCondition
<1>6. PointsHeldBy(t)'
  BY <1>0, <1>1, <1>2, ThreadKnown, PointFacts
     DEF ActorOK, ThreadOK, PointsHeldBy, HoldsPoint, WorksLocked, WaitsLocked, PlaceOK,
         WaitOK, OnCondition
<1>7. ListOK(t)'
  BY <1>0, <1>1, <1>2, ThreadKnown, PointFacts DEF ActorOK, ThreadOK, ListOK
<1>8. \A n \in Monitors : OwnerOK(t, n)'
  BY <1>0, <1>1, <1>2, ThreadKnown, PointFacts
     DEF ActorOK, ThreadOK, OwnerOK, Passing, Ending, StateOK, ListOK
<1>9. Contends(t)' => owner'[pt'[t][2]] # None
  BY <1>0, <1>1, <1>2, ThreadKnown, PointFacts DEF ActorOK, ThreadOK, Contends, PlaceOK
<1> QED
  BY <1>3, <1>4, <1>5, <1>6, <1>7, <1>8, <1>9 DEF ActorOK, ThreadOK

LEMMA OwnerWaitOwn ==
  ASSUME Sound, NEW t \in Threads, OwnerWait(t)
  PROVE  ActorOK(t)'
<1>1. /\ pc[t] = "ownerWait" /\ pc'[t] = "sleep" /\ pt'[t] = pt[t] /\ who'[t] = None
      /\ got'[t] = got[t] /\ ret'[t] = ret[t] /\ count'[t] = count[t]
      /\ depth'[t] = depth[t] /\ state'[t] = state[t] /\ rendezvous'[t] = rendezvous[t]
      /\ monitor'[t] = monitor[t] /\ alarm'[t] = alarm[t]
      /\ monitorList'[t] = monitorList[t] /\ owner' = owner /\ lockCount' = lockCount
      /\ rlock' = rlock
  BY ThreadKnown DEF OwnerWait, Sound, TypeOK
<1>2. ActorOK(t) /\ ThreadOK(t) /\ t # None
  BY ThreadHere
<1>3. PlaceOK(t)'
  BY <1>1, <1>2, ThreadKnown, PointFacts DEF ActorOK, ThreadOK, PlaceOK
<1>4. WaitOK(t)'
  BY <1>1, <1>2, ThreadKnown, PointFacts DEF ActorOK, ThreadOK, WaitOK, OnCondition, PlaceOK
<1>5. StateOK(t)'
  BY <1>1, <1>2, ThreadKnown, PointFacts
     DEF ActorOK, ThreadOK, StateOK, Ending, WaitOK, OnCondition
<1>6. PointsHeldBy(t)'
  BY <1>1, <1>2, ThreadKnown, PointFacts
     DEF ActorOK, ThreadOK, PointsHeldBy, HoldsPoint, WorksLocked, WaitsLocked, PlaceOK,
         WaitOK, OnCondition
<1>7. ListOK(t)'
  BY <1>1, <1>2, ThreadKnown, PointFacts DEF ActorOK, ThreadOK, ListOK
<1>8. \A n \in Monitors : OwnerOK(t, n)'
  BY <1>1, <1>2, ThreadKnown, PointFacts
     DEF ActorOK, ThreadOK, OwnerOK, Passing, Ending, StateOK, ListOK
<1>9. Contends(t)' => owner'[pt'[t][2]] # None
  BY <1>1, <1>2, ThreadKnown, PointFacts DEF ActorOK, ThreadOK, Contends, PlaceOK
<1> QED
  BY <1>3, <1>4, <1>5, <1>6, <1>7, <1>8, <1>9 DEF ActorOK, ThreadOK

LEMMA RaiseOwn ==
  ASSUME Sound, NEW t \in Threads, Raise(t)
  PROVE  ActorOK(t)'
<1>0. PICK m \in Monitors : m = pt[t][2] /\ pt[t] = LockPoint(m) /\ pt[t] \in Points
  BY ThreadKnown, PointFacts DEF Raise, Sound, ActorOK, PlaceOK
<1>n. owner[m] \in Threads
  BY <1>0, ThreadHere, ThreadKnown DEF Raise, ThreadOK, Contends
<1>o. NextOwner(owner[m]) \in Threads \cup {None}
  BY <1>n DEF NextOwner, Sound, TypeOK
<1>1. /\ pc[t] = "raise" /\ pt[t] = LockPoint(m)
      /\ pc'[t] = IF who'[t] = None THEN "enqueue" ELSE "update"
      /\ pt'[t] = pt[t] /\ got'[t] = got[t]
      /\ ret'[t] = IF who'[t] = None THEN ret[t] ELSE "enqueue"
      /\ count'[t] = count[t] /\ depth'[t] = depth[t] /\ state'[t] = state[t]
      /\ rendezvous'[t] = rendezvous[t] /\ monitor'[t] = m /\ alarm'[t] = alarm[t]
      /\ monitorList'[t] = monitorList[t] /\ owner' = owner /\ lockCount' = lockCount
      /\ rlock' = rlock /\ who'[t] \in Threads \cup {None}
  BY <1>0, <1>o, ThreadKnown DEF Raise, Sound, TypeOK
<1>2. ActorOK(t) /\ ThreadOK(t) /\ t # None
  BY ThreadHere
<1>3. PlaceOK(t)'
  BY <1>0, <1>1, <1>2, ThreadKnown, PointFacts DEF ActorOK, ThreadOK, PlaceOK
<1>4. WaitOK(t)'
  BY <1>0, <1>1, <1>2, ThreadKnown, PointFacts
     DEF ActorOK, ThreadOK, WaitOK, OnCondition, PlaceOK
<1>5. StateOK(t)'
  BY <1>0, <1>1, <1>2, ThreadKnown, PointFacts
     DEF ActorOK, ThreadOK, StateOK, Ending, WaitOK, OnCondition
<1>6. PointsHeldBy(t)'
  BY <1>0, <1>1, <1>2, ThreadKnown, PointFacts
     DEF ActorOK, ThreadOK, PointsHeldBy, HoldsPoint, WorksLocked, WaitsLocked, PlaceOK,
         WaitOK, OnCondition
<1>7. ListOK(t)'
  BY <1>0, <1>1, <1>2, ThreadKnown, PointFacts DEF ActorOK, ThreadOK, ListOK
<1>8. \A n \in Monitors : OwnerOK(t, n)'
  BY <1>0, <1>1, <1>2, ThreadKnown, PointFacts
     DEF ActorOK, ThreadOK, OwnerOK, Passing, Ending, StateOK, ListOK
<1>9. Contends(t)' => owner'[pt'[t][2]] # None
  BY <1>0, <1>1, <1>2, ThreadKnown, PointFacts DEF ActorOK, ThreadOK, Contends, PlaceOK
<1> QED
  BY <1>3, <1>4, <1>5, <1>6, <1>7, <1>8, <1>9 DEF ActorOK, ThreadOK

(* the sleep and the return from it, *)
LEMMA EnqueueOwn ==
  ASSUME Sound, NEW t \in Threads, Enqueue(t)
  PROVE  ActorOK(t)'
<1>1. /\ pc[t] = "enqueue" /\ pc'[t] = "switch" /\ pt'[t] = pt[t] /\ who'[t] = who[t]
      /\ got'[t] = got[t] /\ ret'[t] = ret[t] /\ count'[t] = count[t]
      /\ depth'[t] = depth[t] /\ state'[t] = "WAITING" /\ rendezvous'[t] = pt[t]
      /\ monitor'[t] = monitor[t] /\ alarm'[t] = alarm[t]
      /\ monitorList'[t] = monitorList[t] /\ owner' = owner /\ lockCount' = lockCount
      /\ rlock' = [rlock EXCEPT ![pt[t]] = None]
  BY ThreadKnown DEF Enqueue, Sound, TypeOK
<1>2. ActorOK(t) /\ ThreadOK(t) /\ t # None
  BY ThreadHere
<1>3. PlaceOK(t)'
  BY <1>1, <1>2, ThreadKnown, PointFacts DEF ActorOK, ThreadOK, PlaceOK
<1>4. WaitOK(t)'
  BY <1>1, <1>2, ThreadKnown, PointFacts DEF ActorOK, ThreadOK, WaitOK, OnCondition, PlaceOK
<1>5. StateOK(t)'
  BY <1>1, <1>2, ThreadKnown, PointFacts
     DEF ActorOK, ThreadOK, StateOK, Ending, WaitOK, OnCondition
<1>6. PointsHeldBy(t)'
  BY <1>1, <1>2, ThreadKnown, PointFacts
     DEF ActorOK, ThreadOK, PointsHeldBy, HoldsPoint, WorksLocked, WaitsLocked, PlaceOK,
         WaitOK, OnCondition
<1>7. ListOK(t)'
  BY <1>1, <1>2, ThreadKnown, PointFacts DEF ActorOK, ThreadOK, ListOK
<1>8. \A n \in Monitors : OwnerOK(t, n)'
  BY <1>1, <1>2 DEF ThreadOK, OwnerOK, Passing, Ending, StateOK
<1>9. Contends(t)' => owner'[pt'[t][2]] # None
  BY <1>1, <1>2, ThreadKnown, PointFacts DEF ActorOK, ThreadOK, Contends, PlaceOK
<1> QED
  BY <1>3, <1>4, <1>5, <1>6, <1>7, <1>8, <1>9 DEF ActorOK, ThreadOK

LEMMA SwitchOwn ==
  ASSUME Sound, NEW t \in Threads, Switch(t)
  PROVE  ActorOK(t)'
<1>1. /\ pc[t] = "switch" /\ pc'[t] = "waiting" /\ pt'[t] = pt[t] /\ who'[t] = who[t]
      /\ got'[t] = got[t] /\ ret'[t] = ret[t] /\ count'[t] = count[t]
      /\ depth'[t] = depth[t] /\ state'[t] = state[t] /\ rendezvous'[t] = rendezvous[t]
      /\ monitor'[t] = monitor[t] /\ alarm'[t] = alarm[t]
      /\ monitorList'[t] = monitorList[t] /\ owner' = owner /\ lockCount' = lockCount
      /\ rlock' = rlock
  BY ThreadKnown DEF Switch, Sound, TypeOK
<1>2. ActorOK(t) /\ ThreadOK(t) /\ t # None
  BY ThreadHere
<1>3. PlaceOK(t)'
  BY <1>1, <1>2, ThreadKnown, PointFacts DEF ActorOK, ThreadOK, PlaceOK
<1>4. WaitOK(t)'
  BY <1>1, <1>2, ThreadKnown, PointFacts DEF ActorOK, ThreadOK, WaitOK, OnCondition, PlaceOK
<1>5. StateOK(t)'
  BY <1>1, <1>2, ThreadKnown, PointFacts
     DEF ActorOK, ThreadOK, StateOK, Ending, WaitOK, OnCondition
<1>6. PointsHeldBy(t)'
  BY <1>1, <1>2, ThreadKnown, PointFacts
     DEF ActorOK, ThreadOK, PointsHeldBy, HoldsPoint, WorksLocked, WaitsLocked, PlaceOK,
         WaitOK, OnCondition
<1>7. ListOK(t)'
  BY <1>1, <1>2, ThreadKnown, PointFacts DEF ActorOK, ThreadOK, ListOK
<1>8. \A n \in Monitors : OwnerOK(t, n)'
  BY <1>1, <1>2, ThreadKnown, PointFacts
     DEF ActorOK, ThreadOK, OwnerOK, Passing, Ending, StateOK, ListOK
<1>9. Contends(t)' => owner'[pt'[t][2]] # None
  BY <1>1, <1>2, ThreadKnown, PointFacts DEF ActorOK, ThreadOK, Contends, PlaceOK
<1> QED
  BY <1>3, <1>4, <1>5, <1>6, <1>7, <1>8, <1>9 DEF ActorOK, ThreadOK

LEMMA ResumeOwn ==
  ASSUME Sound, NEW t \in Threads, Resume(t)
  PROVE  ActorOK(t)'
<1>1. /\ pc[t] = "waiting" /\ state[t] = "ready" /\ pc'[t] = "sleep" /\ pt'[t] = pt[t]
      /\ who'[t] = who[t] /\ got'[t] = got[t] /\ ret'[t] = ret[t] /\ count'[t] = count[t]
      /\ depth'[t] = depth[t] /\ state'[t] = state[t] /\ rendezvous'[t] = rendezvous[t]
      /\ monitor'[t] = monitor[t] /\ alarm'[t] = alarm[t]
      /\ monitorList'[t] = monitorList[t] /\ owner' = owner /\ lockCount' = lockCount
      /\ rlock' = rlock
  BY ThreadKnown DEF Resume, Sound, TypeOK
<1>2. ActorOK(t) /\ ThreadOK(t) /\ t # None
  BY ThreadHere
<1>3. PlaceOK(t)'
  BY <1>1, <1>2, ThreadKnown, PointFacts DEF ActorOK, ThreadOK, PlaceOK
<1>4. WaitOK(t)'
  BY <1>1, <1>2, ThreadKnown, PointFacts DEF ActorOK, ThreadOK, WaitOK, OnCondition, PlaceOK
<1>5. StateOK(t)'
  BY <1>1, <1>2, ThreadKnown, PointFacts
     DEF ActorOK, ThreadOK, StateOK, Ending, WaitOK, OnCondition
<1>6. PointsHeldBy(t)'
  BY <1>1, <1>2, ThreadKnown, PointFacts
     DEF ActorOK, ThreadOK, PointsHeldBy, HoldsPoint, WorksLocked, WaitsLocked, PlaceOK,
         WaitOK, OnCondition
<1>7. ListOK(t)'
  BY <1>1, <1>2, ThreadKnown, PointFacts DEF ActorOK, ThreadOK, ListOK
<1>8. \A n \in Monitors : OwnerOK(t, n)'
  BY <1>1, <1>2, ThreadKnown, PointFacts
     DEF ActorOK, ThreadOK, OwnerOK, Passing, Ending, StateOK, ListOK
<1>9. Contends(t)' => owner'[pt'[t][2]] # None
  BY <1>1, <1>2, ThreadKnown, PointFacts DEF ActorOK, ThreadOK, Contends, PlaceOK
<1> QED
  BY <1>3, <1>4, <1>5, <1>6, <1>7, <1>8, <1>9 DEF ActorOK, ThreadOK

(* tryLock() and unlock(), *)
LEMMA TryLockOwn ==
  ASSUME Sound, NEW t \in Threads, TryLock(t)
  PROVE  ActorOK(t)'
<1>0. PICK m \in Monitors : m = pt[t][2] /\ pt[t] = LockPoint(m) /\ pt[t] \in Points
  BY ThreadKnown, PointFacts DEF TryLock, Sound, ActorOK, PlaceOK
<1>1. /\ pc[t] = "tryLock" /\ pt[t] = LockPoint(m) /\ who'[t] = who[t] /\ got'[t] = got[t]
      /\ ret'[t] = ret[t] /\ count'[t] = count[t] /\ state'[t] = state[t]
      /\ rendezvous'[t] = rendezvous[t] /\ monitor'[t] = monitor[t]
      /\ alarm'[t] = alarm[t] /\ monitorList'[t] = monitorList[t]
      /\ \/ /\ owner[m] = None /\ owner' = [owner EXCEPT ![m] = t]
            /\ lockCount' = [lockCount EXCEPT ![m] = 1] /\ rlock' = [rlock EXCEPT ![pt[t]] = t]
            /\ pc'[t] = "tryList" /\ pt'[t] = pt[t] /\ depth'[t] = depth[t]
         \/ /\ owner[m] = t /\ lockCount' = [lockCount EXCEPT ![m] = @ + 1]
            /\ depth'[t] = [depth[t] EXCEPT ![m] = @ + 1]
            /\ pc'[t] = "thread" /\ pt'[t] = None /\ UNCHANGED <<owner, rlock>>
         \/ /\ owner[m] \notin {None, t} /\ pc'[t] = "thread" /\ pt'[t] = None
            /\ depth'[t] = depth[t] /\ UNCHANGED <<owner, lockCount, rlock>>
  BY ZenonT(30), <1>0, ThreadKnown DEF TryLock, Sound, TypeOK
<1>2. ActorOK(t) /\ ThreadOK(t) /\ t # None
  BY ThreadHere
<1>3. PlaceOK(t)'
  BY <1>0, <1>1, <1>2, ThreadKnown, PointFacts DEF ActorOK, ThreadOK, PlaceOK
<1>4. WaitOK(t)'
  BY <1>0, <1>1, <1>2, ThreadKnown, PointFacts
     DEF ActorOK, ThreadOK, WaitOK, OnCondition, PlaceOK
<1>5. StateOK(t)'
  BY <1>0, <1>1, <1>2, ThreadKnown, PointFacts
     DEF ActorOK, ThreadOK, StateOK, Ending, WaitOK, OnCondition
<1>6. PointsHeldBy(t)'
  BY <1>0, <1>1, <1>2, ThreadKnown, PointFacts
     DEF ActorOK, ThreadOK, PointsHeldBy, HoldsPoint, WorksLocked, WaitsLocked, PlaceOK,
         WaitOK, OnCondition
<1>7. ListOK(t)'
  BY <1>0, <1>1, <1>2, ThreadKnown, PointFacts DEF ActorOK, ThreadOK, ListOK
<1>8. \A n \in Monitors : OwnerOK(t, n)'
  <2>1. \A n \in Monitors : OwnerOK(t, n)
    BY <1>2 DEF ThreadOK
  <2>2. ASSUME NEW n \in Monitors, n # m PROVE OwnerOK(t, n)'
    <3>1. OwnerOK(t, n)
      BY <2>1
    <3> QED
      BY <1>0, <1>1, <1>2, <2>2, <3>1, ThreadKnown, PointFacts DEF OwnerOK, Passing, Ending
  <2>3. OwnerOK(t, m)'
    <3>1. owner[m] \in {None, t} => lockCount[m] = depth[t][m]
      BY <1>0, <1>1, LockRoom, SoundIs DEF CountsOK
    <3>2. owner[m] = None => depth[t][m] = 0
      BY <2>1, ThreadKnown DEF OwnerOK
    <3>3. CASE owner[m] = None
      <4>1. /\ owner'[m] = t /\ lockCount'[m] = 1 /\ depth'[t][m] = 0
            /\ pc'[t] = "tryList" /\ pt'[t][2] = m
        BY <1>0, <1>1, <3>2, <3>3, ThreadKnown
      <4> QED
        BY <4>1 DEF OwnerOK, Passing
    <3>4. CASE owner[m] = t
      <4>1. /\ owner'[m] = t /\ lockCount'[m] = depth'[t][m] /\ depth'[t][m] \in Nat \ {0}
            /\ pc'[t] = "thread"
        BY <1>0, <1>1, <3>1, <3>4, ThreadKnown
      <4> QED
        BY <4>1 DEF OwnerOK
    <3>5. CASE owner[m] \notin {None, t}
      <4>1. owner'[m] = owner[m] /\ depth'[t][m] = depth[t][m] /\ pc'[t] = "thread"
        BY <1>0, <1>1, <3>5, ThreadKnown
      <4> QED
        BY <2>1, <3>5, <4>1 DEF OwnerOK
    <3> QED
      BY <3>3, <3>4, <3>5
  <2> QED
    BY <2>2, <2>3
<1>9. Contends(t)' => owner'[pt'[t][2]] # None
  BY <1>0, <1>1, <1>2, ThreadKnown, PointFacts DEF ActorOK, ThreadOK, Contends, PlaceOK
<1> QED
  BY <1>3, <1>4, <1>5, <1>6, <1>7, <1>8, <1>9 DEF ActorOK, ThreadOK

LEMMA TryListOwn ==
  ASSUME Sound, NEW t \in Threads, TryList(t)
  PROVE  ActorOK(t)'
<1>0. PICK m \in Monitors : m = pt[t][2] /\ pt[t] = LockPoint(m) /\ pt[t] \in Points
  BY ThreadKnown, PointFacts DEF TryList, Sound, ActorOK, PlaceOK
<1>1. /\ pc[t] = "tryList" /\ pt[t] = LockPoint(m) /\ pc'[t] = "thread" /\ pt'[t] = None
      /\ who'[t] = who[t] /\ got'[t] = got[t] /\ ret'[t] = ret[t] /\ count'[t] = count[t]
      /\ depth'[t] = [depth[t] EXCEPT ![m] = @ + 1] /\ state'[t] = state[t]
      /\ rendezvous'[t] = rendezvous[t] /\ monitor'[t] = monitor[t]
      /\ alarm'[t] = alarm[t] /\ monitorList'[t] = Append(monitorList[t], m)
      /\ owner' = owner /\ lockCount' = lockCount
      /\ rlock' = [rlock EXCEPT ![pt[t]] = None]
  BY <1>0, ThreadKnown DEF TryList, Sound, TypeOK
<1>2. ActorOK(t) /\ ThreadOK(t) /\ t # None
  BY ThreadHere
<1>3. PlaceOK(t)'
  BY <1>0, <1>1, <1>2, ThreadKnown, PointFacts DEF ActorOK, ThreadOK, PlaceOK
<1>4. WaitOK(t)'
  BY <1>0, <1>1, <1>2, ThreadKnown, PointFacts
     DEF ActorOK, ThreadOK, WaitOK, OnCondition, PlaceOK
<1>5. StateOK(t)'
  BY <1>0, <1>1, <1>2, ThreadKnown, PointFacts
     DEF ActorOK, ThreadOK, StateOK, Ending, WaitOK, OnCondition
<1>6. PointsHeldBy(t)'
  BY <1>0, <1>1, <1>2, ThreadKnown, PointFacts
     DEF ActorOK, ThreadOK, PointsHeldBy, HoldsPoint, WorksLocked, WaitsLocked, PlaceOK,
         WaitOK, OnCondition
<1>7. ListOK(t)'
  <2>1. Once(monitorList[t]) /\ m \notin ToSet(monitorList[t]) /\ owner[m] = t
    BY <1>0, <1>1, <1>2 DEF ThreadOK, ListOK, OwnerOK
  <2>2. Once(monitorList'[t]) /\ ToSet(monitorList'[t]) = ToSet(monitorList[t]) \cup {m}
    BY <1>1, <2>1, ThreadKnown, AppendLists
  <2> QED
    BY <1>0, <1>1, <1>2, <2>1, <2>2, ThreadKnown DEF ThreadOK, ListOK
<1>8. \A n \in Monitors : OwnerOK(t, n)'
  <2>1. \A n \in Monitors : OwnerOK(t, n)
    BY <1>2 DEF ThreadOK
  <2>2. ASSUME NEW n \in Monitors, n # m PROVE OwnerOK(t, n)'
    <3>1. OwnerOK(t, n)
      BY <2>1
    <3> QED
      BY <1>0, <1>1, <1>2, <2>2, <3>1, ThreadKnown, PointFacts DEF OwnerOK, Passing, Ending
  <2>3. OwnerOK(t, m)'
    <3>0. OwnerOK(t, m) /\ pc[t] = "tryList" /\ pt[t][2] = m
      BY <1>0, <1>1, <2>1
    <3>1. owner[m] = t /\ lockCount[m] = 1 /\ depth[t][m] = 0
      BY <3>0 DEF OwnerOK
    <3>8. /\ depth'[t][m] = 0 + 1 /\ lockCount'[m] = 1 /\ owner'[m] = t /\ pc'[t] = "thread"
      BY <1>1, <3>1, ThreadKnown
    <3> QED
      BY <1>2, <3>8 DEF OwnerOK, Passing
  <2> QED
    BY <2>2, <2>3
<1>9. Contends(t)' => owner'[pt'[t][2]] # None
  BY <1>0, <1>1, <1>2, ThreadKnown, PointFacts DEF ActorOK, ThreadOK, Contends, PlaceOK
<1> QED
  BY <1>3, <1>4, <1>5, <1>6, <1>7, <1>8, <1>9 DEF ActorOK, ThreadOK

LEMMA UnlockOwn ==
  ASSUME Sound, NEW t \in Threads, Unlock(t)
  PROVE  ActorOK(t)'
<1>0. PICK m \in Monitors : m = pt[t][2] /\ pt[t] = LockPoint(m) /\ pt[t] \in Points
  BY ThreadKnown, PointFacts DEF Unlock, Sound, ActorOK, PlaceOK
<1>1. /\ pc[t] = "unlock" /\ pt[t] = LockPoint(m) /\ who'[t] = who[t] /\ got'[t] = got[t]
      /\ ret'[t] = ret[t] /\ count'[t] = count[t] /\ depth'[t] = depth[t]
      /\ state'[t] = state[t] /\ rendezvous'[t] = rendezvous[t]
      /\ monitor'[t] = monitor[t] /\ alarm'[t] = alarm[t]
      /\ monitorList'[t] = monitorList[t] /\ owner' = owner
      /\ lockCount' = [lockCount EXCEPT ![m] = @ - 1]
      /\ \/ lockCount[m] > 1 /\ pc'[t] = "thread" /\ pt'[t] = None /\ rlock' = rlock
         \/ lockCount[m] = 1 /\ pc'[t] = "unlockList" /\ pt'[t] = pt[t]
            /\ rlock' = [rlock EXCEPT ![pt[t]] = t]
  BY <1>0, ThreadKnown DEF Unlock, Sound, TypeOK
<1>2. ActorOK(t) /\ ThreadOK(t) /\ t # None
  BY ThreadHere
<1>3. PlaceOK(t)'
  BY <1>0, <1>1, <1>2, ThreadKnown, PointFacts DEF ActorOK, ThreadOK, PlaceOK
<1>4. WaitOK(t)'
  BY <1>0, <1>1, <1>2, ThreadKnown, PointFacts
     DEF ActorOK, ThreadOK, WaitOK, OnCondition, PlaceOK
<1>5. StateOK(t)'
  BY <1>0, <1>1, <1>2, ThreadKnown, PointFacts
     DEF ActorOK, ThreadOK, StateOK, Ending, WaitOK, OnCondition
<1>6. PointsHeldBy(t)'
  BY <1>0, <1>1, <1>2, ThreadKnown, PointFacts
     DEF ActorOK, ThreadOK, PointsHeldBy, HoldsPoint, WorksLocked, WaitsLocked, PlaceOK,
         WaitOK, OnCondition
<1>7. ListOK(t)'
  BY <1>0, <1>1, <1>2, ThreadKnown, PointFacts DEF ActorOK, ThreadOK, ListOK
<1>8. \A n \in Monitors : OwnerOK(t, n)'
  <2>1. \A n \in Monitors : OwnerOK(t, n)
    BY <1>2 DEF ThreadOK
  <2>2. ASSUME NEW n \in Monitors, n # m PROVE OwnerOK(t, n)'
    <3>1. OwnerOK(t, n)
      BY <2>1
    <3> QED
      BY <1>0, <1>1, <1>2, <2>2, <3>1, ThreadKnown, PointFacts DEF OwnerOK, Passing, Ending
  <2>3. OwnerOK(t, m)'
    <3>1. owner[m] = t /\ lockCount[m] = depth[t][m] + 1
      BY <1>0, <1>1, <2>1 DEF OwnerOK
    <3>a. owner'[m] = t /\ depth'[t][m] = depth[t][m] /\ lockCount'[m] = lockCount[m] - 1
      BY <1>0, <1>1, <3>1, ThreadKnown
    <3>b. depth[t][m] \in Nat
      BY ThreadKnown
    <3>2. /\ lockCount'[m] = depth'[t][m] /\ depth'[t][m] \in Nat
          /\ depth'[t][m] = lockCount[m] - 1
      BY <3>1, <3>a, <3>b
    <3>3. \/ pc'[t] = "thread" /\ lockCount[m] > 1
          \/ pc'[t] = "unlockList" /\ pt'[t][2] = m /\ lockCount[m] = 1
      BY <1>0, <1>1
    <3> QED
      BY <1>2, <3>1, <3>2, <3>3, <3>a DEF OwnerOK, Passing
  <2> QED
    BY <2>2, <2>3
<1>9. Contends(t)' => owner'[pt'[t][2]] # None
  BY <1>0, <1>1, <1>2, ThreadKnown, PointFacts DEF ActorOK, ThreadOK, Contends, PlaceOK
<1> QED
  BY <1>3, <1>4, <1>5, <1>6, <1>7, <1>8, <1>9 DEF ActorOK, ThreadOK

LEMMA UnlockListOwn ==
  ASSUME Sound, NEW t \in Threads, UnlockList(t)
  PROVE  ActorOK(t)'
<1>0. PICK m \in Monitors : m = pt[t][2] /\ pt[t] = LockPoint(m) /\ pt[t] \in Points
  BY ThreadKnown, PointFacts DEF UnlockList, Sound, ActorOK, PlaceOK
<1>1. /\ pc[t] = "unlockList" /\ pt[t] = LockPoint(m) /\ pc'[t] = "update"
      /\ pt'[t] = pt[t] /\ who'[t] = t /\ got'[t] = got[t] /\ ret'[t] = "wake"
      /\ count'[t] = count[t] /\ depth'[t] = depth[t] /\ state'[t] = state[t]
      /\ rendezvous'[t] = rendezvous[t] /\ monitor'[t] = monitor[t]
      /\ alarm'[t] = alarm[t] /\ monitorList'[t] = Without(monitorList[t], m)
      /\ owner' = [owner EXCEPT ![m] = None] /\ lockCount' = lockCount /\ rlock' = rlock
  BY <1>0, ThreadKnown DEF UnlockList, Sound, TypeOK
<1>2. ActorOK(t) /\ ThreadOK(t) /\ t # None
  BY ThreadHere
<1>3. PlaceOK(t)'
  BY <1>0, <1>1, <1>2, ThreadKnown, PointFacts DEF ActorOK, ThreadOK, PlaceOK
<1>4. WaitOK(t)'
  BY <1>0, <1>1, <1>2, ThreadKnown, PointFacts
     DEF ActorOK, ThreadOK, WaitOK, OnCondition, PlaceOK
<1>5. StateOK(t)'
  BY <1>0, <1>1, <1>2, ThreadKnown, PointFacts
     DEF ActorOK, ThreadOK, StateOK, Ending, WaitOK, OnCondition
<1>6. PointsHeldBy(t)'
  BY <1>0, <1>1, <1>2, ThreadKnown, PointFacts
     DEF ActorOK, ThreadOK, PointsHeldBy, HoldsPoint, WorksLocked, WaitsLocked, PlaceOK,
         WaitOK, OnCondition
<1>7. ListOK(t)'
  <2>1. Once(monitorList[t])
    BY <1>2 DEF ThreadOK, ListOK
  <2>2. Once(monitorList'[t]) /\ ToSet(monitorList'[t]) = ToSet(monitorList[t]) \ {m}
    BY <1>1, <2>1, ThreadKnown, WithoutLists
  <2> QED
    BY <1>0, <1>1, <1>2, <2>2, ThreadKnown DEF ThreadOK, ListOK
<1>8. \A n \in Monitors : OwnerOK(t, n)'
  <2>1. \A n \in Monitors : OwnerOK(t, n)
    BY <1>2 DEF ThreadOK
  <2>2. ASSUME NEW n \in Monitors, n # m PROVE OwnerOK(t, n)'
    <3>1. OwnerOK(t, n)
      BY <2>1
    <3> QED
      BY <1>0, <1>1, <1>2, <2>2, <3>1, ThreadKnown, PointFacts DEF OwnerOK, Passing, Ending
  <2>3. OwnerOK(t, m)'
    <3>8. /\ depth'[t][m] = 0 /\ owner'[m] = None /\ pc'[t] = "update"
      BY <1>0, <1>1, <2>1, ThreadKnown DEF OwnerOK
    <3> QED
      BY <1>2, <3>8 DEF OwnerOK, Passing
  <2> QED
    BY <2>2, <2>3
<1>9. Contends(t)' => owner'[pt'[t][2]] # None
  BY <1>0, <1>1, <1>2, ThreadKnown, PointFacts DEF ActorOK, ThreadOK, Contends, PlaceOK
<1> QED
  BY <1>3, <1>4, <1>5, <1>6, <1>7, <1>8, <1>9 DEF ActorOK, ThreadOK

(* wait(), *)
LEMMA WaitTestOwn ==
  ASSUME Sound, NEW t \in Threads, WaitTest(t)
  PROVE  ActorOK(t)'
<1>0. PICK m \in Monitors :
        m = pt[t][2] /\ pt[t] = CvPoint(m) /\ pt[t] \in Points /\ LockPoint(m) \in Points
  BY ThreadKnown, PointFacts DEF WaitTest, Sound, ActorOK, PlaceOK
<1>1. /\ pc[t] = "sleep" /\ pt[t] = CvPoint(m) /\ owner[m] = t /\ pc'[t] = "waitRelease"
      /\ pt'[t] = pt[t] /\ who'[t] = who[t] /\ got'[t] = got[t] /\ ret'[t] = ret[t]
      /\ count'[t] = count[t] /\ depth'[t] = depth[t] /\ state'[t] = state[t]
      /\ rendezvous'[t] = rendezvous[t] /\ monitor'[t] = monitor[t]
      /\ alarm'[t] = alarm[t] /\ monitorList'[t] = monitorList[t] /\ owner' = owner
      /\ lockCount' = lockCount /\ rlock' = [rlock EXCEPT ![pt[t]] = t]
  BY <1>0, ThreadKnown DEF WaitTest, Sound, TypeOK
<1>2. ActorOK(t) /\ ThreadOK(t) /\ t # None
  BY ThreadHere
<1>3. PlaceOK(t)'
  BY <1>0, <1>1, <1>2, ThreadKnown, PointFacts DEF ActorOK, ThreadOK, PlaceOK
<1>4. WaitOK(t)'
  BY <1>0, <1>1, <1>2, ThreadKnown, PointFacts
     DEF ActorOK, ThreadOK, WaitOK, OnCondition, PlaceOK
<1>5. StateOK(t)'
  <2>1. pt[t] \in CvPoints /\ pt[t] \notin LockPoints
    BY <1>0, PointFacts
  <2>2. count[t] > 0 /\ depth[t][m] = 0
    BY <1>0, <1>1, <1>2, <2>1 DEF ThreadOK, WaitOK, OnCondition
  <2>3. monitor[t] = None
    <3>1. StateOK(t) /\ monitor[t] \in Monitors \cup {None}
      BY <1>2 DEF ThreadOK, Sound, TypeOK
    <3> QED
      BY <2>1, <3>1, PointFacts DEF StateOK
  <2> QED
    BY <1>0, <1>1, <1>2, <2>1, <2>3, ThreadKnown, PointFacts DEF ThreadOK, StateOK, Ending
<1>6. PointsHeldBy(t)'
  BY <1>0, <1>1, <1>2, ThreadKnown, PointFacts
     DEF ActorOK, ThreadOK, PointsHeldBy, HoldsPoint, WorksLocked, WaitsLocked, PlaceOK,
         WaitOK, OnCondition
<1>7. ListOK(t)'
  BY <1>0, <1>1, <1>2, ThreadKnown, PointFacts DEF ActorOK, ThreadOK, ListOK
<1>8. \A n \in Monitors : OwnerOK(t, n)'
  BY <1>0, <1>1, <1>2, ThreadKnown, PointFacts
     DEF ActorOK, ThreadOK, OwnerOK, Passing, Ending, StateOK, ListOK
<1>9. Contends(t)' => owner'[pt'[t][2]] # None
  BY <1>0, <1>1, <1>2, ThreadKnown, PointFacts DEF ActorOK, ThreadOK, Contends, PlaceOK
<1> QED
  BY <1>3, <1>4, <1>5, <1>6, <1>7, <1>8, <1>9 DEF ActorOK, ThreadOK

LEMMA WaitReleaseOwn ==
  ASSUME Sound, NEW t \in Threads, WaitRelease(t)
  PROVE  ActorOK(t)'
<1>0. PICK m \in Monitors :
        m = pt[t][2] /\ pt[t] = CvPoint(m) /\ pt[t] \in Points /\ LockPoint(m) \in Points
  BY ThreadKnown, PointFacts DEF WaitRelease, Sound, ActorOK, PlaceOK
<1>1. /\ pc[t] = "waitRelease" /\ pt[t] = CvPoint(m) /\ pc'[t] = "waitList"
      /\ pt'[t] = pt[t] /\ who'[t] = who[t] /\ got'[t] = got[t] /\ ret'[t] = ret[t]
      /\ count'[t] = count[t] /\ depth'[t] = depth[t] /\ state'[t] = state[t]
      /\ rendezvous'[t] = rendezvous[t] /\ monitor'[t] = monitor[t]
      /\ alarm'[t] = alarm[t] /\ monitorList'[t] = monitorList[t]
      /\ owner' = [owner EXCEPT ![m] = None] /\ lockCount' = [lockCount EXCEPT ![m] = 0]
      /\ rlock' = rlock
  BY <1>0, ThreadKnown DEF WaitRelease, Sound, TypeOK
<1>2. ActorOK(t) /\ ThreadOK(t) /\ t # None
  BY ThreadHere
<1>3. PlaceOK(t)'
  BY <1>0, <1>1, <1>2, ThreadKnown, PointFacts DEF ActorOK, ThreadOK, PlaceOK
<1>4. WaitOK(t)'
  BY <1>0, <1>1, <1>2, ThreadKnown, PointFacts
     DEF ActorOK, ThreadOK, WaitOK, OnCondition, PlaceOK
<1>5. StateOK(t)'
  BY <1>0, <1>1, <1>2, ThreadKnown, PointFacts
     DEF ActorOK, ThreadOK, StateOK, Ending, WaitOK, OnCondition
<1>6. PointsHeldBy(t)'
  BY <1>0, <1>1, <1>2, ThreadKnown, PointFacts
     DEF ActorOK, ThreadOK, PointsHeldBy, HoldsPoint, WorksLocked, WaitsLocked, PlaceOK,
         WaitOK, OnCondition
<1>7. ListOK(t)'
  <2>1. owner[m] = t
    BY <1>0, <1>1, <1>2 DEF ThreadOK, OwnerOK
  <2> QED
    BY <1>0, <1>1, <1>2, <2>1, ThreadKnown DEF ThreadOK, ListOK
<1>8. \A n \in Monitors : OwnerOK(t, n)'
  <2>1. \A n \in Monitors : OwnerOK(t, n)
    BY <1>2 DEF ThreadOK
  <2>2. ASSUME NEW n \in Monitors, n # m PROVE OwnerOK(t, n)'
    <3>1. OwnerOK(t, n)
      BY <2>1
    <3> QED
      BY <1>0, <1>1, <1>2, <2>2, <3>1, ThreadKnown, PointFacts DEF OwnerOK, Passing, Ending
  <2>3. OwnerOK(t, m)'
    <3>1. depth[t][m] = 0
      BY <1>0, <1>1, <1>2 DEF ThreadOK, WaitOK, OnCondition
    <3>2. depth'[t][m] = 0 /\ owner'[m] = None /\ pc'[t] = "waitList"
      BY <1>0, <1>1, <3>1, ThreadKnown
    <3> QED
      BY <1>2, <3>2 DEF OwnerOK
  <2> QED
    BY <2>2, <2>3
<1>9. Contends(t)' => owner'[pt'[t][2]] # None
  BY <1>0, <1>1, <1>2, ThreadKnown, PointFacts DEF ActorOK, ThreadOK, Contends, PlaceOK
<1> QED
  BY <1>3, <1>4, <1>5, <1>6, <1>7, <1>8, <1>9 DEF ActorOK, ThreadOK

LEMMA WaitListOwn ==
  ASSUME Sound, NEW t \in Threads, WaitList(t)
  PROVE  ActorOK(t)'
<1>0. PICK m \in Monitors :
        m = pt[t][2] /\ pt[t] = CvPoint(m) /\ pt[t] \in Points /\ LockPoint(m) \in Points
  BY ThreadKnown, PointFacts DEF WaitList, Sound, ActorOK, PlaceOK
<1>1. /\ pc[t] = "waitList" /\ pt[t] = CvPoint(m) /\ pc'[t] = "reset"
      /\ pt'[t] = LockPoint(m) /\ who'[t] = t /\ got'[t] = {} /\ ret'[t] = "wakeup"
      /\ count'[t] = count[t] /\ depth'[t] = depth[t] /\ state'[t] = state[t]
      /\ rendezvous'[t] = rendezvous[t] /\ monitor'[t] = monitor[t]
      /\ alarm'[t] = alarm[t] /\ monitorList'[t] = Without(monitorList[t], m)
      /\ owner' = owner /\ lockCount' = lockCount /\ rlock' = rlock
  BY <1>0, ThreadKnown DEF WaitList, Sound, TypeOK
<1>2. ActorOK(t) /\ ThreadOK(t) /\ t # None
  BY ThreadHere
<1>3. PlaceOK(t)'
  <2>1. LockPoint(m) \in LockPoints /\ LockPoint(m) \in Points
    BY PointFacts
  <2> QED
    BY <1>1, <2>1 DEF PlaceOK
<1>4. WaitOK(t)'
  <2>1. pt[t] \in CvPoints /\ pt[t] \notin LockPoints
    BY <1>0, PointFacts
  <2>2. count[t] > 0 /\ depth[t][m] = 0
    BY <1>0, <1>1, <1>2, <2>1 DEF ThreadOK, WaitOK, OnCondition
  <2>3. LockPoint(m) \in Points /\ LockPoint(m)[2] = m
    BY PointFacts
  <2> QED
    BY <1>1, <2>2, <2>3 DEF WaitOK
<1>5. StateOK(t)'
  <2>1. pt[t] \in CvPoints /\ pt[t] \notin LockPoints
    BY <1>0, PointFacts
  <2>2. count[t] > 0 /\ depth[t][m] = 0
    BY <1>0, <1>1, <1>2, <2>1 DEF ThreadOK, WaitOK, OnCondition
  <2>3. monitor[t] = None
    <3>1. StateOK(t) /\ monitor[t] \in Monitors \cup {None}
      BY <1>2 DEF ThreadOK, Sound, TypeOK
    <3> QED
      BY <2>1, <3>1, PointFacts DEF StateOK
  <2>4. \A n \in Monitors : LockPoint(m) = LockPoint(n) => depth[t][n] < MaxDepth
    <3>1. \A n \in Monitors : LockPoint(m) = LockPoint(n) => n = m
      BY PointFacts
    <3> QED
      BY <2>2, <3>1, ThreadKnown
  <2>5. state[t] = "ready"
    BY <1>1, <1>2 DEF ThreadOK, StateOK, Sound, TypeOK
  <2> QED
    BY <1>1, <1>2, <2>2, <2>3, <2>4, <2>5, ThreadKnown DEF ThreadOK, StateOK, Ending
<1>6. PointsHeldBy(t)'
  <2>1. count[t] > 0 /\ got[t] = {}
    BY <1>1, <1>2 DEF ThreadOK, ActorOK, WaitOK, OnCondition, PlaceOK
  <2>2. rlock[CvPoint(m)] = t
    BY <1>0, <1>1, <1>2, PointFacts DEF ActorOK, PointsHeldBy, HoldsPoint, WorksLocked
  <2>3. ASSUME NEW r \in Points, HoldsPoint(t, r)' PROVE r = CvPoint(m)
    <3>1. pt'[t][2] = m
      BY <1>1, PointFacts
    <3>2. ~WorksLocked(t)'
      BY <1>1 DEF WorksLocked
    <3> QED
      BY <2>3, <3>1, <3>2 DEF HoldsPoint
  <2> QED
    BY <1>1, <2>1, <2>2, <2>3 DEF PointsHeldBy
<1>7. ListOK(t)'
  <2>1. Once(monitorList[t])
    BY <1>2 DEF ThreadOK, ListOK
  <2>2. Once(monitorList'[t]) /\ ToSet(monitorList'[t]) = ToSet(monitorList[t]) \ {m}
    BY <1>1, <2>1, ThreadKnown, WithoutLists
  <2>3. owner[m] # t
    BY <1>0, <1>1, <1>2, ThreadKnown, PointFacts
       DEF ThreadOK, OwnerOK, Passing, Ending, StateOK, WaitOK, OnCondition
  <2> QED
    BY <1>0, <1>1, <1>2, <2>2, <2>3, ThreadKnown DEF ThreadOK, ListOK
<1>8. \A n \in Monitors : OwnerOK(t, n)'
  BY <1>0, <1>1, <1>2, ThreadKnown, PointFacts
     DEF ActorOK, ThreadOK, OwnerOK, Passing, Ending, StateOK, ListOK
<1>9. Contends(t)' => owner'[pt'[t][2]] # None
  BY <1>0, <1>1, <1>2, ThreadKnown, PointFacts DEF ActorOK, ThreadOK, Contends, PlaceOK
<1> QED
  BY <1>3, <1>4, <1>5, <1>6, <1>7, <1>8, <1>9 DEF ActorOK, ThreadOK

LEMMA WaitRelockOwn ==
  ASSUME Sound, NEW t \in Threads, WaitRelock(t)
  PROVE  ActorOK(t)'
<1>0. PICK m \in Monitors :
        m = pt[t][2] /\ pt[t] = CvPoint(m) /\ pt[t] \in Points /\ LockPoint(m) \in Points
  BY ThreadKnown, PointFacts DEF WaitRelock, Sound, ActorOK, PlaceOK
<1>1. /\ pc[t] = "sleep" /\ pt[t] = CvPoint(m) /\ owner[m] # t /\ pc'[t] = pc[t]
      /\ pt'[t] = LockPoint(m) /\ who'[t] = who[t] /\ got'[t] = got[t] /\ ret'[t] = ret[t]
      /\ count'[t] = count[t] /\ depth'[t] = depth[t] /\ state'[t] = state[t]
      /\ rendezvous'[t] = rendezvous[t] /\ monitor'[t] = monitor[t]
      /\ alarm'[t] = alarm[t] /\ monitorList'[t] = monitorList[t] /\ owner' = owner
      /\ lockCount' = lockCount /\ rlock' = rlock
  BY <1>0, ThreadKnown DEF WaitRelock, Sound, TypeOK
<1>2. ActorOK(t) /\ ThreadOK(t) /\ t # None
  BY ThreadHere
<1>3. PlaceOK(t)'
  BY <1>0, <1>1, <1>2, ThreadKnown, PointFacts DEF ActorOK, ThreadOK, PlaceOK
<1>4. WaitOK(t)'
  <2>1. pt[t] \in CvPoints /\ pt[t] \notin LockPoints
    BY <1>0, PointFacts
  <2>2. count[t] > 0 /\ depth[t][m] = 0
    BY <1>0, <1>1, <1>2, <2>1 DEF ThreadOK, WaitOK, OnCondition
  <2>3. LockPoint(m) \in Points /\ LockPoint(m)[2] = m /\ LockPoint(m) \notin CvPoints
    BY PointFacts
  <2> QED
    BY <1>1, <1>2, <2>2, <2>3 DEF ThreadOK, WaitOK, OnCondition
<1>5. StateOK(t)'
  <2>1. pt[t] \in CvPoints /\ pt[t] \notin LockPoints
    BY <1>0, PointFacts
  <2>2. count[t] > 0 /\ depth[t][m] = 0
    BY <1>0, <1>1, <1>2, <2>1 DEF ThreadOK, WaitOK, OnCondition
  <2>3. monitor[t] = None
    <3>1. StateOK(t) /\ monitor[t] \in Monitors \cup {None}
      BY <1>2 DEF ThreadOK, Sound, TypeOK
    <3> QED
      BY <2>1, <3>1, PointFacts DEF StateOK
  <2>4. \A n \in Monitors : LockPoint(m) = LockPoint(n) => depth[t][n] < MaxDepth
    <3>1. \A n \in Monitors : LockPoint(m) = LockPoint(n) => n = m
      BY PointFacts
    <3> QED
      BY <2>2, <3>1, ThreadKnown
  <2>5. state[t] = "ready"
    BY <1>1, <1>2 DEF ThreadOK, StateOK, Sound, TypeOK
  <2> QED
    BY <1>1, <1>2, <2>2, <2>3, <2>4, <2>5, ThreadKnown DEF ThreadOK, StateOK, Ending
<1>6. PointsHeldBy(t)'
  BY <1>0, <1>1, <1>2, ThreadKnown, PointFacts
     DEF ActorOK, ThreadOK, PointsHeldBy, HoldsPoint, WorksLocked, WaitsLocked, PlaceOK,
         WaitOK, OnCondition
<1>7. ListOK(t)'
  BY <1>0, <1>1, <1>2, ThreadKnown, PointFacts DEF ActorOK, ThreadOK, ListOK
<1>8. \A n \in Monitors : OwnerOK(t, n)'
  BY <1>0, <1>1, <1>2, ThreadKnown, PointFacts
     DEF ActorOK, ThreadOK, OwnerOK, Passing, Ending, StateOK, ListOK
<1>9. Contends(t)' => owner'[pt'[t][2]] # None
  BY <1>0, <1>1, <1>2, ThreadKnown, PointFacts DEF ActorOK, ThreadOK, Contends, PlaceOK
<1> QED
  BY <1>3, <1>4, <1>5, <1>6, <1>7, <1>8, <1>9 DEF ActorOK, ThreadOK

LEMMA WaitRestoreOwn ==
  ASSUME Sound, NEW t \in Threads, WaitRestore(t)
  PROVE  ActorOK(t)'
<1>0. PICK m \in Monitors : m = pt[t][2] /\ pt[t] = LockPoint(m) /\ pt[t] \in Points
  BY ThreadKnown, PointFacts DEF WaitRestore, Sound, ActorOK, PlaceOK
<1>1. /\ pc[t] = "restore" /\ pt[t] = LockPoint(m) /\ pc'[t] = "thread" /\ pt'[t] = None
      /\ who'[t] = who[t] /\ got'[t] = got[t] /\ ret'[t] = ret[t] /\ count'[t] = 0
      /\ depth'[t] = [depth[t] EXCEPT ![m] = count[t]] /\ state'[t] = state[t]
      /\ rendezvous'[t] = rendezvous[t] /\ monitor'[t] = monitor[t] /\ alarm'[t] = "none"
      /\ monitorList'[t] = monitorList[t] /\ owner' = owner
      /\ lockCount' = [lockCount EXCEPT ![m] = count[t]] /\ rlock' = rlock
  BY <1>0, ThreadKnown DEF WaitRestore, Sound, TypeOK
<1>2. ActorOK(t) /\ ThreadOK(t) /\ t # None
  BY ThreadHere
<1>3. PlaceOK(t)'
  BY <1>0, <1>1, <1>2, ThreadKnown, PointFacts DEF ActorOK, ThreadOK, PlaceOK
<1>4. WaitOK(t)'
  BY <1>0, <1>1, <1>2, ThreadKnown, PointFacts
     DEF ActorOK, ThreadOK, WaitOK, OnCondition, PlaceOK
<1>5. StateOK(t)'
  BY <1>0, <1>1, <1>2, ThreadKnown, PointFacts
     DEF ActorOK, ThreadOK, StateOK, Ending, WaitOK, OnCondition
<1>6. PointsHeldBy(t)'
  BY <1>0, <1>1, <1>2, ThreadKnown, PointFacts
     DEF ActorOK, ThreadOK, PointsHeldBy, HoldsPoint, WorksLocked, WaitsLocked, PlaceOK,
         WaitOK, OnCondition
<1>7. ListOK(t)'
  BY <1>0, <1>1, <1>2, ThreadKnown, PointFacts DEF ActorOK, ThreadOK, ListOK
<1>8. \A n \in Monitors : OwnerOK(t, n)'
  <2>1. \A n \in Monitors : OwnerOK(t, n)
    BY <1>2 DEF ThreadOK
  <2>2. ASSUME NEW n \in Monitors, n # m PROVE OwnerOK(t, n)'
    <3>1. OwnerOK(t, n)
      BY <2>1
    <3> QED
      BY <1>0, <1>1, <1>2, <2>2, <3>1, ThreadKnown, PointFacts DEF OwnerOK, Passing, Ending
  <2>3. OwnerOK(t, m)'
    <3>1. count[t] \in Nat \ {0}
      BY <1>1, <1>2, ThreadKnown DEF ThreadOK, WaitOK, OnCondition
    <3>2. owner'[m] = t
      BY <1>0, <1>1, <2>1 DEF OwnerOK
    <3>3. depth'[t][m] = count[t] /\ lockCount'[m] = count[t] /\ pc'[t] = "thread"
      BY <1>1, ThreadKnown
    <3> QED
      BY <3>1, <3>2, <3>3 DEF OwnerOK
  <2> QED
    BY <2>2, <2>3
<1>9. Contends(t)' => owner'[pt'[t][2]] # None
  BY <1>0, <1>1, <1>2, ThreadKnown, PointFacts DEF ActorOK, ThreadOK, Contends, PlaceOK
<1> QED
  BY <1>3, <1>4, <1>5, <1>6, <1>7, <1>8, <1>9 DEF ActorOK, ThreadOK

(* exit() and unlockAllMonitors(), *)
LEMMA ExitOwn ==
  ASSUME Sound, NEW t \in Threads, Exit(t)
  PROVE  ActorOK(t)'
<1>1. /\ pc[t] = "exit" /\ pc'[t] = "exitNext" /\ pt'[t] = pt[t] /\ who'[t] = who[t]
      /\ got'[t] = got[t] /\ ret'[t] = ret[t] /\ count'[t] = count[t]
      /\ depth'[t] = depth[t] /\ state'[t] = "TERMINATED"
      /\ rendezvous'[t] = rendezvous[t] /\ monitor'[t] = monitor[t]
      /\ alarm'[t] = alarm[t] /\ monitorList'[t] = monitorList[t] /\ owner' = owner
      /\ lockCount' = lockCount /\ rlock' = rlock
  BY ThreadKnown DEF Exit, Sound, TypeOK
<1>2. ActorOK(t) /\ ThreadOK(t) /\ t # None
  BY ThreadHere
<1>3. PlaceOK(t)'
  BY <1>1, <1>2, ThreadKnown, PointFacts DEF ActorOK, ThreadOK, PlaceOK
<1>4. WaitOK(t)'
  BY <1>1, <1>2, ThreadKnown, PointFacts DEF ActorOK, ThreadOK, WaitOK, OnCondition, PlaceOK
<1>5. StateOK(t)'
  BY <1>1, <1>2, ThreadKnown, PointFacts
     DEF ActorOK, ThreadOK, StateOK, Ending, WaitOK, OnCondition
<1>6. PointsHeldBy(t)'
  BY <1>1, <1>2, ThreadKnown, PointFacts
     DEF ActorOK, ThreadOK, PointsHeldBy, HoldsPoint, WorksLocked, WaitsLocked, PlaceOK,
         WaitOK, OnCondition
<1>7. ListOK(t)'
  BY <1>1, <1>2, ThreadKnown, PointFacts DEF ActorOK, ThreadOK, ListOK
<1>8. \A n \in Monitors : OwnerOK(t, n)'
  BY <1>1, <1>2, ThreadKnown, PointFacts
     DEF ActorOK, ThreadOK, OwnerOK, Passing, Ending, StateOK, ListOK
<1>9. Contends(t)' => owner'[pt'[t][2]] # None
  BY <1>1, <1>2, ThreadKnown, PointFacts DEF ActorOK, ThreadOK, Contends, PlaceOK
<1> QED
  BY <1>3, <1>4, <1>5, <1>6, <1>7, <1>8, <1>9 DEF ActorOK, ThreadOK

LEMMA ExitUnlockOwn ==
  ASSUME Sound, NEW t \in Threads, ExitUnlock(t)
  PROVE  ActorOK(t)'
<1>0. PICK m \in Monitors : /\ m = Head(monitorList[t]) /\ owner[m] = t
                         /\ LockPoint(m) \in Points /\ LockPoint(m)[2] = m
                         /\ Once(Tail(monitorList[t]))
                         /\ ToSet(Tail(monitorList[t])) = ToSet(monitorList[t]) \ {m}
  BY ListedFirst, SoundIs, PointFacts DEF ExitUnlock, CountsOK
<1>1. /\ pc[t] = "exitNext" /\ m = Head(monitorList[t]) /\ owner[m] = t /\ pc'[t] = "wake"
      /\ pt'[t] = LockPoint(m) /\ who'[t] = who[t] /\ got'[t] = got[t] /\ ret'[t] = ret[t]
      /\ count'[t] = count[t] /\ depth'[t] = depth[t] /\ state'[t] = state[t]
      /\ rendezvous'[t] = rendezvous[t] /\ monitor'[t] = monitor[t]
      /\ alarm'[t] = alarm[t] /\ monitorList'[t] = Tail(monitorList[t])
      /\ owner' = [owner EXCEPT ![m] = None] /\ lockCount' = [lockCount EXCEPT ![m] = 0]
      /\ rlock' = [rlock EXCEPT ![LockPoint(m)] = t]
  BY <1>0, ThreadKnown DEF ExitUnlock, Sound, TypeOK
<1>2. ActorOK(t) /\ ThreadOK(t) /\ t # None
  BY ThreadHere
<1>3. PlaceOK(t)'
  BY <1>0, <1>1, <1>2, ThreadKnown, PointFacts DEF ActorOK, ThreadOK, PlaceOK
<1>4. WaitOK(t)'
  BY <1>0, <1>1, <1>2, ThreadKnown, PointFacts
     DEF ActorOK, ThreadOK, WaitOK, OnCondition, PlaceOK
<1>5. StateOK(t)'
  <2>1. count[t] = 0 /\ state[t] = "TERMINATED" /\ monitor[t] = None
    BY <1>1, <1>2 DEF ThreadOK, StateOK, Ending
  <2> QED
    BY <1>1, <1>2, <2>1, ThreadKnown DEF ThreadOK, StateOK, Ending
<1>6. PointsHeldBy(t)'
  <2>1. count[t] = 0 /\ got[t] = {}
    BY <1>1, <1>2 DEF ThreadOK, ActorOK, PlaceOK, StateOK, Ending
  <2>2. \A r \in Points : HoldsPoint(t, r)' => r = LockPoint(m)
    BY <1>1, <2>1 DEF HoldsPoint, WorksLocked, WaitsLocked
  <2> QED
    BY <1>1, <2>1, <2>2, ThreadKnown DEF PointsHeldBy
<1>7. ListOK(t)'
  <2>1. Once(monitorList'[t]) /\ ToSet(monitorList'[t]) = ToSet(monitorList[t]) \ {m}
    BY <1>0, <1>1
  <2> QED
    BY <1>1, <1>2, <2>1, ThreadKnown DEF ThreadOK, ListOK
<1>8. \A n \in Monitors : OwnerOK(t, n)'
  BY <1>0, <1>1, <1>2, ThreadKnown, PointFacts
     DEF ActorOK, ThreadOK, OwnerOK, Passing, Ending, StateOK, ListOK
<1>9. Contends(t)' => owner'[pt'[t][2]] # None
  BY <1>0, <1>1, <1>2, ThreadKnown, PointFacts DEF ActorOK, ThreadOK, Contends, PlaceOK
<1> QED
  BY <1>3, <1>4, <1>5, <1>6, <1>7, <1>8, <1>9 DEF ActorOK, ThreadOK

LEMMA ExitDoneOwn ==
  ASSUME Sound, NEW t \in Threads, ExitDone(t)
  PROVE  ActorOK(t)'
<1>1. /\ pc[t] = "exitNext" /\ monitorList[t] = <<>> /\ pc'[t] = "dead" /\ pt'[t] = pt[t]
      /\ who'[t] = who[t] /\ got'[t] = got[t] /\ ret'[t] = ret[t] /\ count'[t] = count[t]
      /\ depth'[t] = depth[t] /\ state'[t] = state[t] /\ rendezvous'[t] = rendezvous[t]
      /\ monitor'[t] = monitor[t] /\ alarm'[t] = alarm[t]
      /\ monitorList'[t] = monitorList[t] /\ owner' = owner /\ lockCount' = lockCount
      /\ rlock' = rlock
  BY ThreadKnown DEF ExitDone, Sound, TypeOK
<1>2. ActorOK(t) /\ ThreadOK(t) /\ t # None
  BY ThreadHere
<1>3. PlaceOK(t)'
  BY <1>1, <1>2, ThreadKnown, PointFacts DEF ActorOK, ThreadOK, PlaceOK
<1>4. WaitOK(t)'
  BY <1>1, <1>2, ThreadKnown, PointFacts DEF ActorOK, ThreadOK, WaitOK, OnCondition, PlaceOK
<1>5. StateOK(t)'
  BY <1>1, <1>2, ThreadKnown, PointFacts
     DEF ActorOK, ThreadOK, StateOK, Ending, WaitOK, OnCondition
<1>6. PointsHeldBy(t)'
  BY <1>1, <1>2, ThreadKnown, PointFacts
     DEF ActorOK, ThreadOK, PointsHeldBy, HoldsPoint, WorksLocked, WaitsLocked, PlaceOK,
         WaitOK, OnCondition
<1>7. ListOK(t)'
  BY <1>1, <1>2, ThreadKnown, PointFacts DEF ActorOK, ThreadOK, ListOK
<1>8. \A n \in Monitors : OwnerOK(t, n)'
  BY <1>1, <1>2, ThreadKnown, PointFacts
     DEF ActorOK, ThreadOK, OwnerOK, Passing, Ending, StateOK, ListOK
<1>9. Contends(t)' => owner'[pt'[t][2]] # None
  BY <1>1, <1>2, ThreadKnown, PointFacts DEF ActorOK, ThreadOK, Contends, PlaceOK
<1> QED
  BY <1>3, <1>4, <1>5, <1>6, <1>7, <1>8, <1>9 DEF ActorOK, ThreadOK

(* and updatePriority().                                                     *)
LEMMA UpdateOwn ==
  ASSUME Sound, NEW t \in Threads, Update(t)
  PROVE  ActorOK(t)'
<1>1. /\ pc[t] = "update" /\ pc'[t] = "reset" /\ pt'[t] = pt[t] /\ who'[t] = who[t]
      /\ got'[t] = {} /\ ret'[t] = ret[t] /\ count'[t] = count[t] /\ depth'[t] = depth[t]
      /\ state'[t] = state[t] /\ rendezvous'[t] = rendezvous[t]
      /\ monitor'[t] = monitor[t] /\ alarm'[t] = alarm[t]
      /\ monitorList'[t] = monitorList[t] /\ owner' = owner /\ lockCount' = lockCount
      /\ rlock' = rlock
  BY ThreadKnown DEF Update, Sound, TypeOK
<1>2. ActorOK(t) /\ ThreadOK(t) /\ t # None
  BY ThreadHere
<1>3. PlaceOK(t)'
  BY <1>1, <1>2, ThreadKnown, PointFacts DEF ActorOK, ThreadOK, PlaceOK
<1>4. WaitOK(t)'
  BY <1>1, <1>2, ThreadKnown, PointFacts DEF ActorOK, ThreadOK, WaitOK, OnCondition, PlaceOK
<1>5. StateOK(t)'
  BY <1>1, <1>2, ThreadKnown, PointFacts
     DEF ActorOK, ThreadOK, StateOK, Ending, WaitOK, OnCondition
<1>6. PointsHeldBy(t)'
  BY <1>1, <1>2, ThreadKnown, PointFacts
     DEF ActorOK, ThreadOK, PointsHeldBy, HoldsPoint, WorksLocked, WaitsLocked, PlaceOK,
         WaitOK, OnCondition
<1>7. ListOK(t)'
  BY <1>1, <1>2, ThreadKnown, PointFacts DEF ActorOK, ThreadOK, ListOK
<1>8. \A n \in Monitors : OwnerOK(t, n)'
  BY <1>1, <1>2, ThreadKnown, PointFacts
     DEF ActorOK, ThreadOK, OwnerOK, Passing, Ending, StateOK, ListOK
<1>9. Contends(t)' => owner'[pt'[t][2]] # None
  BY <1>1, <1>2, ThreadKnown, PointFacts DEF ActorOK, ThreadOK, Contends, PlaceOK
<1> QED
  BY <1>3, <1>4, <1>5, <1>6, <1>7, <1>8, <1>9 DEF ActorOK, ThreadOK

LEMMA ResetLockOwn ==
  ASSUME Sound, NEW t \in Threads, ResetLock(t)
  PROVE  ActorOK(t)'
<1>0. PICK m \in Monitors : /\ m = Head(ToLock(t)) /\ m \notin got[t]
                         /\ LockPoint(m) \in Points
  <2>1. who[t] \in Threads /\ monitorList[who[t]] \in Seq(Monitors)
    BY ThreadHere DEF ResetLock, ActorOK, PlaceOK, Sound, TypeOK
  <2>2. /\ ToLock(t) \in Seq(Monitors) /\ ToLock(t) # <<>>
        /\ ToSet(ToLock(t)) \cap got[t] = {}
    BY <2>1, OnlyLists DEF ToLock, ResetLock
  <2>3. Head(ToLock(t)) \in Monitors /\ Head(ToLock(t)) \in ToSet(ToLock(t))
    BY <2>2, ListElements
  <2> QED
    BY <2>2, <2>3, PointFacts
<1>1. /\ pc[t] = "reset" /\ m \notin got[t] /\ rlock[LockPoint(m)] = None
      /\ pc'[t] = pc[t] /\ pt'[t] = pt[t] /\ who'[t] = who[t] /\ got'[t] = got[t] \cup {m}
      /\ ret'[t] = ret[t] /\ count'[t] = count[t] /\ depth'[t] = depth[t]
      /\ state'[t] = state[t] /\ rendezvous'[t] = rendezvous[t]
      /\ monitor'[t] = monitor[t] /\ alarm'[t] = alarm[t]
      /\ monitorList'[t] = monitorList[t] /\ owner' = owner /\ lockCount' = lockCount
      /\ rlock' = [rlock EXCEPT ![LockPoint(m)] = t]
  BY <1>0, ThreadKnown DEF ResetLock, Sound, TypeOK
<1>2. ActorOK(t) /\ ThreadOK(t) /\ t # None
  BY ThreadHere
<1>3. PlaceOK(t)'
  BY <1>0, <1>1, <1>2, ThreadKnown, PointFacts DEF ActorOK, ThreadOK, PlaceOK
<1>4. WaitOK(t)'
  BY <1>0, <1>1, <1>2, ThreadKnown, PointFacts
     DEF ActorOK, ThreadOK, WaitOK, OnCondition, PlaceOK
<1>5. StateOK(t)'
  BY <1>0, <1>1, <1>2, ThreadKnown, PointFacts
     DEF ActorOK, ThreadOK, StateOK, Ending, WaitOK, OnCondition
<1>6. PointsHeldBy(t)'
  BY <1>0, <1>1, <1>2, ThreadKnown, PointFacts
     DEF ActorOK, ThreadOK, PointsHeldBy, HoldsPoint, WorksLocked, WaitsLocked, PlaceOK,
         WaitOK, OnCondition
<1>7. ListOK(t)'
  BY <1>0, <1>1, <1>2, ThreadKnown, PointFacts DEF ActorOK, ThreadOK, ListOK
<1>8. \A n \in Monitors : OwnerOK(t, n)'
  BY <1>0, <1>1, <1>2, ThreadKnown, PointFacts
     DEF ActorOK, ThreadOK, OwnerOK, Passing, Ending, StateOK, ListOK
<1>9. Contends(t)' => owner'[pt'[t][2]] # None
  BY <1>0, <1>1, <1>2, ThreadKnown, PointFacts DEF ActorOK, ThreadOK, Contends, PlaceOK
<1> QED
  BY <1>3, <1>4, <1>5, <1>6, <1>7, <1>8, <1>9 DEF ActorOK, ThreadOK

LEMMA ResetPriorityOwn ==
  ASSUME Sound, NEW t \in Threads, ResetPriority(t)
  PROVE  ActorOK(t)'
<1>0. ActorOK(t) /\ ThreadOK(t) /\ t # None
  BY ThreadHere
<1>1. PICK x : /\ x \in Threads \cup {None} /\ who'[t] = x
               /\ pc'[t] = (IF x = None THEN ret[t] ELSE "update")
               /\ ret'[t] = (IF x = None THEN "thread" ELSE ret[t])
  <2> DEFINE next == IF prio[who[t]] # Owed(t) THEN NextOwner(who[t]) ELSE None
  <2>1. who[t] \in Threads
    BY <1>0 DEF ResetPriority, ActorOK, PlaceOK
  <2>2. next \in Threads \cup {None}
    BY <2>1 DEF NextOwner, Sound, TypeOK
  <2>3. /\ who' = [who EXCEPT ![t] = next]
        /\ pc' = [pc EXCEPT ![t] = IF next = None THEN ret[t] ELSE "update"]
        /\ ret' = [ret EXCEPT ![t] = IF next = None THEN "thread" ELSE @]
    BY DEF ResetPriority
  <2> HIDE DEF next
  <2> QED
    BY <2>2, <2>3, ThreadKnown DEF Sound, TypeOK
<1>2. /\ pc[t] = "reset" /\ ret[t] \in {"thread", "enqueue", "wake", "wakeup"}
      /\ pt' = pt /\ got'[t] = {} /\ count' = count /\ depth' = depth /\ state' = state
      /\ rendezvous' = rendezvous /\ monitor' = monitor /\ alarm' = alarm
      /\ monitorList' = monitorList /\ owner' = owner /\ lockCount' = lockCount
      /\ \A r \in Points :
            rlock'[r] = IF r \in {LockPoint(m) : m \in got[t]} THEN None ELSE rlock[r]
  BY ThreadKnown DEF ResetPriority, Sound, TypeOK
<1>3. PlaceOK(t)'
  BY <1>0, <1>1, <1>2, PointFacts DEF ActorOK, PlaceOK
<1>4. WaitOK(t)'
  <2>1. CASE x = None
    BY <1>0, <1>1, <1>2, <2>1, PointFacts
       DEF ActorOK, PlaceOK, ThreadOK, WaitOK, OnCondition
  <2>2. CASE x # None
    BY <1>0, <1>1, <1>2, <2>2, ThreadKnown DEF ThreadOK, WaitOK, OnCondition
  <2> QED
    BY <2>1, <2>2
<1>5. StateOK(t)'
  BY <1>0, <1>1, <1>2 DEF ThreadOK, StateOK, Ending
<1>6. PointsHeldBy(t)'
  <2>1. ret[t] = "wake" => ~(count[t] > 0)
    BY <1>0, <1>2 DEF ThreadOK, WaitOK
  <2>2. ASSUME NEW r \in Points, HoldsPoint(t, r)' PROVE HoldsPoint(t, r)
    <3>1. CASE x = None
      BY <1>1, <1>2, <2>1, <2>2, <3>1 DEF HoldsPoint, WorksLocked, WaitsLocked
    <3>2. CASE x # None
      BY <1>1, <1>2, <2>2, <3>2 DEF HoldsPoint, WorksLocked, WaitsLocked
    <3> QED
      BY <3>1, <3>2
  <2>3. \A r \in Points : HoldsPoint(t, r) => rlock'[r] = t
    BY <1>0, <1>2 DEF ActorOK, PointsHeldBy
  <2> QED
    BY <1>2, <2>2, <2>3 DEF PointsHeldBy
<1>7. ListOK(t)'
  BY <1>0, <1>1, <1>2 DEF ThreadOK, ListOK
<1>8. ASSUME NEW m \in Monitors PROVE OwnerOK(t, m)'
  <2>1. OwnerOK(t, m) /\ Ending(t)' = Ending(t)
    BY <1>0, <1>1, <1>2 DEF ThreadOK, StateOK, Ending
  <2> QED
    BY <1>1, <1>2, <2>1 DEF OwnerOK, Passing, Ending
<1>9. Contends(t)' => owner'[pt'[t][2]] # None
  BY <1>0, <1>1, <1>2 DEF ThreadOK, Contends
<1> QED
  BY <1>3, <1>4, <1>5, <1>6, <1>7, <1>8, <1>9 DEF ActorOK, ThreadOK

(* Rendezvous::wakeup(), also as the callback of an alarm. *)
LEMMA WakeThread ==
  ASSUME Sound, QueuesExact, NEW p \in Procs, WakeStep(p)
  PROVE  /\ ActorOK(p) /\ pc[p] \in Waking /\ pt[p] \in Points /\ p # None
         /\ CvPoint(pt[p][2]) \in CvPoints /\ CvPoint(pt[p][2]) \in Points
         /\ ret'[p] = ret[p] /\ got'[p] = got[p] /\ got[p] = {} /\ ret[p] = "thread"
         /\ count' = count /\ depth' = depth /\ monitor' = monitor /\ alarm' = alarm
         /\ monitorList' = monitorList /\ owner' = owner /\ lockCount' = lockCount
         /\ p \in Threads => state'[p] = state[p] /\ rendezvous'[p] = rendezvous[p]
<1>1. ActorOK(p) /\ p # None
  BY PointFacts DEF Sound
<1>2. pc[p] \in Waking
  BY DEF WakeStep, Wakeup, WakeFirst, WakeBusy, WakeWait, WakeDone
<1>3. pt[p] \in Points /\ got[p] = {} /\ ret[p] = "thread"
  BY <1>1, <1>2 DEF ActorOK, PlaceOK
<1>4. CvPoint(pt[p][2]) \in CvPoints /\ CvPoint(pt[p][2]) \in Points
  BY <1>3, PointFacts
<1>5. /\ ret' = ret /\ got' = got
      /\ count' = count /\ depth' = depth /\ monitor' = monitor /\ alarm' = alarm
      /\ monitorList' = monitorList /\ owner' = owner /\ lockCount' = lockCount
  BY DEF WakeStep, Wakeup, WakeFirst, WakeBusy, WakeWait, WakeDone
<1>6. p \in Threads => state'[p] = state[p] /\ rendezvous'[p] = rendezvous[p]
  <2>1. CASE WakeFirst(p)
    <3>1. PICK u \in Threads : u = Head(queue[pt[p]]) /\ state[u] = "WAITING"
      BY <1>3, <2>1, WaitsFirst DEF WakeFirst, Sound
    <3>2. u # p
      BY <1>2, <3>1, ThreadHere DEF ThreadOK, StateOK
    <3> QED
      BY <2>1, <3>1, <3>2 DEF WakeFirst, Sound, TypeOK
  <2>2. CASE Wakeup(p) \/ WakeBusy(p) \/ WakeWait(p) \/ WakeDone(p)
    BY <2>2 DEF Wakeup, WakeBusy, WakeWait, WakeDone
  <2> QED
    BY <2>1, <2>2 DEF WakeStep
<1> QED
  BY <1>1, <1>2, <1>3, <1>4, <1>5, <1>6

LEMMA WakeOwn ==
  ASSUME Sound, QueuesExact, NEW p \in Procs, WakeStep(p)
  PROVE  ActorOK(p)'
<1>0. p \in Threads => ThreadOK(p)
  BY ThreadHere
<1>1. \/ /\ pc[p] = "wakeup" /\ pc'[p] = "wake" /\ pt'[p] = pt[p] /\ who'[p] = who[p]
         /\ rlock' = [rlock EXCEPT ![pt[p]] = p]
      \/ /\ pc[p] = "wake" /\ pc'[p] = "wake" /\ pt'[p] = pt[p] /\ who'[p] = who[p]
         /\ rlock' = rlock
      \/ /\ pc[p] = "wake" /\ pc'[p] = "wakeWait" /\ pt'[p] = pt[p] /\ who'[p] \in Threads
         /\ rlock' = [rlock EXCEPT ![pt[p]] = None]
      \/ /\ pc[p] = "wakeWait" /\ pc'[p] = "wakeup" /\ pt'[p] = pt[p] /\ rlock' = rlock
      \/ /\ pc[p] = "wake" /\ rlock' = [rlock EXCEPT ![pt[p]] = None]
         /\ \/ /\ p \in Threads /\ count[p] > 0
               /\ pc'[p] = "enqueue" /\ pt'[p] = CvPoint(pt[p][2])
            \/ /\ p \in Threads /\ state[p] = "TERMINATED"
               /\ pc'[p] = "exitNext" /\ pt'[p] = None
            \/ /\ p \in Threads => count[p] = 0 /\ state[p] # "TERMINATED"
               /\ pc'[p] = "thread" /\ pt'[p] = None
  <2>1. CASE Wakeup(p)
    BY <2>1 DEF Wakeup, Sound, TypeOK
  <2>2. CASE WakeFirst(p)
    BY <2>2 DEF WakeFirst, Sound, TypeOK
  <2>3. CASE WakeBusy(p)
    <3>1. Head(queue[pt[p]]) \in Threads
      BY <2>3, WakeThread, WaitsFirst DEF WakeBusy, Sound
    <3> QED
      BY <2>3, <3>1 DEF WakeBusy, Sound, TypeOK
  <2>4. CASE WakeWait(p)
    BY <2>4 DEF WakeWait, Sound, TypeOK
  <2>5. CASE WakeDone(p)
    BY <2>5 DEF WakeDone, Sound, TypeOK
  <2> QED
    BY <2>1, <2>2, <2>3, <2>4, <2>5 DEF WakeStep
<1>2. PlaceOK(p)'
  BY <1>1, WakeThread DEF ActorOK, PlaceOK
<1>3. p \in Threads /\ count[p] > 0 => pt[p] \in LockPoints /\ pt[p] # CvPoint(pt[p][2])
  BY <1>0, WakeThread, PointFacts DEF ThreadOK, WaitOK
<1>4. PointsHeldBy(p)'
  <2>1. ASSUME NEW r \in Points, HoldsPoint(p, r)' PROVE rlock'[r] = p
    <3>1. CASE pc'[p] = "enqueue"
      <4>1. r = CvPoint(pt[p][2]) /\ rlock' = [rlock EXCEPT ![pt[p]] = None]
        BY <1>1, <2>1, <3>1 DEF HoldsPoint, WorksLocked, WaitsLocked
      <4>2. p \in Threads /\ count[p] > 0
        BY <1>1, <3>1
      <4>3. rlock[r] = p
        BY <4>1, <4>2, WakeThread DEF ActorOK, PointsHeldBy, HoldsPoint, WaitsLocked
      <4> QED
        BY <1>3, <4>1, <4>2, <4>3 DEF Sound, TypeOK
    <3>2. CASE pc'[p] = "wake" /\ r = pt[p]
      BY <1>1, <3>2, WakeThread
         DEF Sound, TypeOK, ActorOK, PointsHeldBy, HoldsPoint, WorksLocked
    <3>3. CASE pc'[p] \in Waking /\ ~(pc'[p] = "wake" /\ r = pt[p])
      <4>1. p \in Threads /\ count[p] > 0 /\ r = CvPoint(pt[p][2])
        BY <1>1, <2>1, <3>3, WakeThread DEF HoldsPoint, WorksLocked, WaitsLocked
      <4>2. rlock[r] = p
        BY <4>1, WakeThread DEF ActorOK, PointsHeldBy, HoldsPoint, WaitsLocked
      <4> QED
        BY <1>1, <1>3, <3>3, <4>1, <4>2 DEF Sound, TypeOK
    <3>4. CASE pc'[p] \in {"exitNext", "thread"}
      BY <2>1, <3>4 DEF HoldsPoint, WorksLocked, WaitsLocked
    <3> QED
      BY <1>1, <3>1, <3>2, <3>3, <3>4 
  <2> QED
    BY <2>1, WakeThread DEF PointsHeldBy
<1>5. ASSUME p \in Threads PROVE ThreadOK(p)'
  <2>1. WaitOK(p)'
    <3>1. WaitOK(p) /\ (state[p] = "TERMINATED" => count[p] = 0)
      BY <1>0, <1>5 DEF ThreadOK, StateOK, Ending
    <3>2. CASE count[p] > 0
      <4>1. /\ pt[p][2] \in Monitors /\ CvPoint(pt[p][2])[2] = pt[p][2]
            /\ pt[p] \notin CvPoints /\ depth[p][pt[p][2]] = 0
        BY <1>3, <1>5, <3>1, <3>2, PointFacts DEF WaitOK
      <4>2. \/ pc'[p] \in Waking /\ pt'[p] = pt[p]
            \/ pc'[p] = "enqueue" /\ pt'[p] = CvPoint(pt[p][2])
        BY <1>1, <1>5, <3>1, <3>2, ThreadKnown 
      <4> QED
        BY <1>3, <1>5, <3>2, <4>1, <4>2, WakeThread DEF WaitOK
    <3>3. CASE ~(count[p] > 0)
      BY <1>1, <3>1, <3>3, WakeThread DEF WaitOK, OnCondition
    <3> QED
      BY <3>2, <3>3
  <2>2. StateOK(p)'
    BY <1>0, <1>1, <1>5, WakeThread, ThreadKnown, PointFacts DEF ThreadOK, StateOK, Ending
  <2>3. ListOK(p)'
    BY <1>0, <1>1, <1>5, WakeThread DEF ThreadOK, ListOK
  <2>4. ASSUME NEW m \in Monitors PROVE OwnerOK(p, m)'
    BY <1>0, <1>1, <1>5, WakeThread DEF ThreadOK, OwnerOK, Passing, Ending
  <2>5. ~Contends(p)'
    BY <1>1, WakeThread, PointFacts DEF Contends
  <2> QED
    BY <2>1, <2>2, <2>3, <2>4, <2>5 DEF ThreadOK
<1> QED
  BY <1>2, <1>4, <1>5 DEF ActorOK

LEMMA AlarmOwn ==
  ASSUME Sound, NEW t \in Threads, AlarmExpires(t)
  PROVE  ActorOK(Timer)'
<1>1. Timer \in Procs /\ Timer \notin Threads
  BY MonitorAssumption DEF Procs
<1>2. CvPoint(pt[t][2]) \in Points
  BY AlarmTypes, SoundIs DEF CountsOK
<1>3. /\ pc'[Timer] = "wakeup" /\ pt'[Timer] = CvPoint(pt[t][2]) /\ got'[Timer] = got[Timer]
      /\ ret'[Timer] = ret[Timer] /\ pc[Timer] = "thread"
  BY <1>1 DEF AlarmExpires, Sound, TypeOK
<1>4. got[Timer] = {} /\ ret[Timer] = "thread"
  BY <1>1, <1>3 DEF Sound, ActorOK, PlaceOK
<1>5. PlaceOK(Timer)'
  BY <1>2, <1>3, <1>4 DEF PlaceOK
<1>6. PointsHeldBy(Timer)'
  BY <1>1, <1>3, <1>4 DEF PointsHeldBy, HoldsPoint, WorksLocked, WaitsLocked
<1> QED
  BY <1>1, <1>5, <1>6 DEF ActorOK

LEMMA ThreadOwn ==
  ASSUME Sound, NEW t \in Threads, Call(t) \/ ThreadStep(t)
  PROVE  ActorOK(t)'
<1>1. CASE Call(t)
  BY <1>1, CallExitOwn, CallLockOwn, CallTryLockOwn, CallUnlockOwn, CallWaitOwn, CallNotifyOwn,
     CallSetPriorityOwn DEF Call
<1>2. CASE \/ LockTake(t) \/ LockContend(t) \/ Inherit(t) \/ InheritNothing(t)
           \/ InheritRaise(t) \/ InheritRetry(t) \/ OwnerWait(t) \/ Raise(t)
  BY <1>2, LockTakeOwn, LockContendOwn, InheritOwn, InheritNothingOwn, InheritRaiseOwn,
     InheritRetryOwn, OwnerWaitOwn, RaiseOwn
<1>3. CASE \/ Enqueue(t) \/ Switch(t) \/ Resume(t) \/ TryLock(t) \/ TryList(t)
           \/ Unlock(t) \/ UnlockList(t)
  BY <1>3, EnqueueOwn, SwitchOwn, ResumeOwn, TryLockOwn, TryListOwn, UnlockOwn, UnlockListOwn
<1>4. CASE \/ WaitTest(t) \/ WaitRelease(t) \/ WaitList(t) \/ WaitRelock(t) \/ WaitRestore(t)
           \/ Exit(t) \/ ExitUnlock(t) \/ ExitDone(t)
           \/ Update(t) \/ ResetLock(t) \/ ResetPriority(t)
  BY <1>4, WaitTestOwn, WaitReleaseOwn, WaitListOwn, WaitRelockOwn, WaitRestoreOwn, ExitOwn,
     ExitUnlockOwn, ExitDoneOwn, UpdateOwn, ResetLockOwn, ResetPriorityOwn
<1> QED
  BY <1>1, <1>2, <1>3, <1>4 DEF ThreadStep

(* A monitor that is given up is given up altogether. *)
LEMMA GivenUpAltogether ==
  ASSUME Sound, NEW t \in Threads, Call(t) \/ ThreadStep(t), KeepsOwners(t),
         NEW m \in Monitors, owner'[m] = None
  PROVE  lockCount'[m] = 0
<1>1. owner[m] = None => lockCount[m] = 0
  BY DEF Sound
<1>2. CASE owner'[m] = owner[m] /\ lockCount'[m] = lockCount[m]
  BY <1>1, <1>2
<1>3. CASE ~(owner'[m] = owner[m] /\ lockCount'[m] = lockCount[m])
  <2>1. CASE UNCHANGED monitorVars
    BY <1>3, <2>1
  <2>2. CASE LockTake(t) \/ TryLock(t)
    <3>1. t # None /\ owner \in [Monitors -> Threads \cup {None}]
      BY ThreadKnown
    <3> QED
      BY <1>3, <2>2, <3>1 DEF LockTake, TryLock, Sound, TypeOK
  <2>3. CASE Unlock(t) \/ WaitRestore(t)
    <3>1. PICK n \in Monitors : n = pt[t][2] /\ owner[n] = t /\ t # None
      BY <2>3, ThreadHere, PointFacts DEF Unlock, WaitRestore, ActorOK, ThreadOK, PlaceOK, OwnerOK
    <3>2. owner' = owner /\ (m # n => lockCount'[m] = lockCount[m])
      BY <2>3, <3>1 DEF Unlock, WaitRestore, Sound, TypeOK
    <3> QED
      BY <1>3, <3>1, <3>2
  <2>4. CASE UnlockList(t)
    <3>1. PICK n \in Monitors : n = pt[t][2] /\ lockCount[n] = 0
      BY <2>4, ThreadHere, PointFacts DEF UnlockList, ActorOK, ThreadOK, PlaceOK, OwnerOK
    <3> QED
      BY <1>3, <2>4, <3>1 DEF UnlockList, Sound, TypeOK
  <2>5. CASE WaitRelease(t) \/ ExitUnlock(t)
    BY <1>3, <2>5 DEF WaitRelease, ExitUnlock, Sound, TypeOK
  <2>6. CASE Call(t)
    BY <2>1, <2>6 DEF Call, CallExit, CallLock, CallTryLock, CallUnlock, CallWait, CallNotify,
                CallSetPriority
  <2>7. CASE \/ LockContend(t) \/ Inherit(t) \/ InheritNothing(t) \/ InheritRaise(t)
             \/ InheritRetry(t) \/ OwnerWait(t) \/ Raise(t) \/ Enqueue(t) \/ Switch(t)
             \/ Resume(t) \/ TryList(t) \/ WaitTest(t) \/ WaitList(t) \/ WaitRelock(t)
             \/ Exit(t) \/ ExitDone(t) \/ Update(t) \/ ResetLock(t) \/ ResetPriority(t)
    BY <2>1, <2>7 DEF LockContend, Inherit, InheritNothing, InheritRaise, InheritRetry,
                OwnerWait, Raise, Enqueue, Switch, Resume, TryList, WaitTest, WaitList,
                WaitRelock, Exit, ExitDone, Update, ResetLock, ResetPriority
  <2> QED
    BY <2>2, <2>3, <2>4, <2>5, <2>6, <2>7 DEF ThreadStep
<1> QED
  BY <1>2, <1>3

LEMMA OthersSound ==
  ASSUME Sound, NEW p \in Procs, KeepsOthers(p), NEW q \in Procs, q # p
  PROVE  ActorOK(q)'
<1>1. PlaceOK(q)'
  BY OthersPlaces, SoundIs DEF CountsOK, KeepsOthers
<1>2. PointsHeldBy(q)'
  BY OthersPoints, SoundIs DEF CountsOK, KeepsOthers
<1>3. ASSUME q \in Threads PROVE ThreadOK(q)'
  <2>1. WaitOK(q)' /\ StateOK(q)'
    BY <1>3, OthersThreads, SoundIs DEF CountsOK, KeepsOthers
  <2>2. (\A m \in Monitors : OwnerOK(q, m)') /\ ListOK(q)'
    BY <1>3, OthersOwners, SoundIs DEF CountsOK, KeepsOthers
  <2>3. Contends(q)' => owner'[pt'[q][2]] # None
    BY <1>3, OthersContend, SoundIs DEF CountsOK, KeepsOthers
  <2> QED
    BY <2>1, <2>2, <2>3 DEF ThreadOK
<1> QED
  BY <1>1, <1>2, <1>3 DEF ActorOK

LEMMA SoundStep ==
  ASSUME Sound, QueuesExact, Next
  PROVE  Sound'
<1>1. TypeOK'
  BY TypesStep, SoundIs
<1>2. Timer \in Procs /\ Timer \notin Threads
  BY MonitorAssumption DEF Procs
<1>3. ASSUME NEW t \in Threads, Call(t) \/ ThreadStep(t)
      PROVE  Sound'
  <2>1. t \in Procs
    BY DEF Procs
  <2>2. KeepsOthers(t)
    BY <1>3, <2>1, ThreadKeeps, PointsKept, OwnersKept, SoundIs DEF CountsOK, KeepsOthers
  <2>3. \A q \in Procs : ActorOK(q)'
    BY <1>3, <2>1, <2>2, ThreadOwn, OthersSound
  <2>4. \A m \in Monitors : owner'[m] = None => lockCount'[m] = 0
    BY <1>3, <2>2, GivenUpAltogether DEF KeepsOthers
  <2>5. TimerOK'
    BY <1>2, <2>2 DEF KeepsOthers, KeepsPlaces, Sound, TimerOK
  <2> QED
    BY <1>1, <2>3, <2>4, <2>5 DEF Sound
<1>4. ASSUME NEW t \in Threads, AlarmExpires(t)
      PROVE  Sound'
  <2>1. UNCHANGED <<rlock, owner, lockCount>>
    BY <1>4 DEF AlarmExpires
  <2>2. KeepsOthers(Timer)
    BY <1>4, <2>1, AlarmKeeps DEF Sound, KeepsOthers, KeepsPoints, KeepsOwners
  <2>3. \A q \in Procs : ActorOK(q)'
    BY <1>2, <1>4, <2>2, AlarmOwn, OthersSound
  <2>4. TimerOK'
    BY <1>2, <1>4 DEF AlarmExpires, TimerOK, Sound, TypeOK
  <2> QED
    BY <1>1, <2>1, <2>3, <2>4 DEF Sound
<1>5. ASSUME NEW p \in Procs, WakeStep(p)
      PROVE  Sound'
  <2>1. UNCHANGED <<owner, lockCount>>
    BY <1>5, WakeThread
  <2>2. KeepsOthers(p)
    <3>1. KeepsPlaces(p) /\ KeepsThreads(p) /\ KeepsPoints(p)
      BY <1>5, WakeKeeps, PointsKept, SoundIs DEF CountsOK
    <3> QED
      BY <2>1, <3>1 DEF KeepsOthers, KeepsOwners
  <2>3. \A q \in Procs : ActorOK(q)'
    BY <1>5, <2>2, WakeOwn, OthersSound
  <2>4. TimerOK'
    <3>1. CASE p = Timer
      BY <1>2, <1>5, <3>1 DEF WakeStep, Wakeup, WakeFirst, WakeBusy, WakeWait, WakeDone,
                  TimerOK, Sound, TypeOK
    <3>2. CASE p # Timer
      BY <1>2, <2>2, <3>2 DEF KeepsOthers, KeepsPlaces, Sound, TimerOK
    <3> QED
      BY <3>1, <3>2
  <2> QED
    BY <1>1, <2>1, <2>3, <2>4 DEF Sound
<1> QED
  BY <1>3, <1>4, <1>5 DEF Next

-----------------------------------------------------------------------------
(* The queues stay exact.  They and the priorities change when a thread goes *)
(* to sleep and is woken, and by setEffectivePriority().                     *)
LEMMA QueuesSame ==
  ASSUME QueuesExact, UNCHANGED <<queue, prio, state, rendezvous>>
  PROVE  QueuesExact'
BY DEF QueuesExact

LEMMA SetEffectiveQueues ==
  ASSUME Sound, QueuesExact, TypeOK', NEW u \in Threads, NEW e \in Prios, SetEffective(u, e),
         UNCHANGED <<state, rendezvous>>
  PROVE  QueuesExact'
<1>1. /\ \A r \in Points : Ordered(queue'[r], InOrder(prio'))
      /\ \A r \in Points : ToSet(queue'[r]) = ToSet(queue[r])
  BY SetEffectiveKeeps, SoundIs DEF CountsOK
<1>2. \A t \in Threads : \A r \in Points :
        (state[t] = "WAITING" /\ rendezvous[t] = r) <=> t \in ToSet(queue[r])
  BY QueuesExactIs DEF Sound
<1> QED
  BY <1>1, <1>2, QueuesExactIsNext

LEMMA EnqueueQueues ==
  ASSUME Sound, QueuesExact, TypeOK', NEW t \in Threads, Enqueue(t)
  PROVE  QueuesExact'
<1>1. PICK p \in Points : p = pt[t]
  BY ThreadHere DEF Enqueue, ActorOK, PlaceOK
<1>2. state[t] # "WAITING"
  BY ThreadHere DEF Enqueue, ThreadOK, StateOK
<1>3. /\ \A r \in Points : queue[r] \in Seq(Threads) /\ Ordered(queue[r], InOrder(prio))
      /\ \A u \in Threads : \A r \in Points :
            (state[u] = "WAITING" /\ rendezvous[u] = r) <=> u \in ToSet(queue[r])
  BY QueuesExactIs DEF Sound, TypeOK
<1>4. prio \in [Threads -> Nat] /\ prio[t] \in Nat /\ prio' = prio
  BY ZenonT(30), PrioFacts DEF Enqueue, Sound, TypeOK
<1>5. t \notin ToSet(queue[p])
  BY <1>2, <1>3
<1>6. PICK q : q = InsertPrio(queue[p], t, prio[t])
  OBVIOUS
<1>7. ToSet(q) = ToSet(queue[p]) \cup {t} /\ Ordered(q, InOrder(prio))
  <2>1. [prio EXCEPT ![t] = prio[t]] = prio
    BY <1>4
  <2> QED
    BY <1>3, <1>4, <1>5, <1>6, <2>1, InsertPrioLists
<1>8. /\ queue'[p] = q /\ \A r \in Points : r # p => queue'[r] = queue[r]
      /\ state'[t] = "WAITING" /\ rendezvous'[t] = p
      /\ \A u \in Threads : u # t => state'[u] = state[u] /\ rendezvous'[u] = rendezvous[u]
  BY <1>1, <1>6 DEF Enqueue, Sound, TypeOK
<1>9. \A r \in Points : Ordered(queue'[r], InOrder(prio'))
  BY <1>3, <1>4, <1>7, <1>8
<1>10. \A u \in Threads : \A r \in Points :
         (state'[u] = "WAITING" /\ rendezvous'[u] = r) <=> u \in ToSet(queue'[r])
  <2> SUFFICES ASSUME NEW u \in Threads, NEW r \in Points
               PROVE  (state'[u] = "WAITING" /\ rendezvous'[u] = r) <=> u \in ToSet(queue'[r])
    OBVIOUS
  <2>1. CASE u = t
    BY <1>2, <1>3, <1>7, <1>8, <2>1
  <2>2. CASE u # t
    BY <1>3, <1>7, <1>8, <2>2
  <2> QED
    BY <2>1, <2>2
<1> QED
  BY <1>9, <1>10, QueuesExactIsNext

LEMMA WakeFirstQueues ==
  ASSUME Sound, QueuesExact, TypeOK', NEW p \in Procs, WakeFirst(p)
  PROVE  QueuesExact'
<1>1. PICK r \in Points : r = pt[p] /\ queue[r] # <<>>
  BY DEF WakeFirst, Sound, ActorOK, PlaceOK
<1>2. PICK u \in Threads : u = Head(queue[r])
  BY <1>1, WaitsFirst DEF Sound
<1>3. /\ state[u] = "WAITING" /\ rendezvous[u] = r
      /\ Ordered(Tail(queue[r]), InOrder(prio))
      /\ ToSet(Tail(queue[r])) = ToSet(queue[r]) \ {u}
  BY <1>1, <1>2, WaitsFirst DEF Sound
<1>4. /\ \A s \in Points : Ordered(queue[s], InOrder(prio))
      /\ \A t \in Threads : \A s \in Points :
            (state[t] = "WAITING" /\ rendezvous[t] = s) <=> t \in ToSet(queue[s])
  BY QueuesExactIs DEF Sound
<1>5. /\ queue'[r] = Tail(queue[r]) /\ \A s \in Points : s # r => queue'[s] = queue[s]
      /\ state'[u] = "ready" /\ prio' = prio
      /\ \A t \in Threads : t # u => state'[t] = state[t] /\ rendezvous'[t] = rendezvous[t]
  BY <1>1, <1>2 DEF WakeFirst, Sound, TypeOK
<1>6. \A s \in Points : Ordered(queue'[s], InOrder(prio'))
  BY <1>3, <1>4, <1>5
<1>7. \A t \in Threads : \A s \in Points :
         (state'[t] = "WAITING" /\ rendezvous'[t] = s) <=> t \in ToSet(queue'[s])
  <2> SUFFICES ASSUME NEW t \in Threads, NEW s \in Points
               PROVE  (state'[t] = "WAITING" /\ rendezvous'[t] = s) <=> t \in ToSet(queue'[s])
    OBVIOUS
  <2>1. CASE t = u
    BY <1>3, <1>4, <1>5, <2>1
  <2>2. CASE t # u
    BY <1>3, <1>4, <1>5, <2>2
  <2> QED
    BY <2>1, <2>2
<1> QED
  BY <1>6, <1>7, QueuesExactIsNext

LEMMA ExitQueues ==
  ASSUME Sound, QueuesExact, NEW t \in Threads, Exit(t)
  PROVE  QueuesExact'
<1>1. state[t] # "WAITING"
  BY ThreadHere DEF Exit, ThreadOK, StateOK
<1>2. \A u \in Threads : (state'[u] = "WAITING" <=> state[u] = "WAITING")
  BY <1>1 DEF Exit, Sound, TypeOK
<1>3. UNCHANGED <<queue, prio, rendezvous>>
  BY DEF Exit
<1> QED
  BY <1>2, <1>3 DEF QueuesExact

LEMMA QueuesStep ==
  ASSUME Sound, QueuesExact, Next
  PROVE  QueuesExact'
<1>1. TypeOK'
  BY TypesStep, SoundIs
<1>2. ASSUME NEW t \in Threads, Call(t) \/ AlarmExpires(t)
      PROVE  QueuesExact'
  BY <1>2, QueuesSame DEF Call, CallExit, CallLock, CallTryLock, CallUnlock, CallWait,
     CallNotify, CallSetPriority, AlarmExpires
<1>3. ASSUME NEW t \in Threads, ThreadStep(t)
      PROVE  QueuesExact'
  <2>1. CASE \/ LockTake(t) \/ LockContend(t) \/ Inherit(t) \/ InheritNothing(t)
             \/ InheritRaise(t) \/ InheritRetry(t) \/ OwnerWait(t) \/ Switch(t) \/ Resume(t)
             \/ TryLock(t) \/ TryList(t) \/ Unlock(t) \/ UnlockList(t)
    BY <2>1, QueuesSame DEF LockTake, LockContend, Inherit, InheritNothing, InheritRaise,
       InheritRetry, OwnerWait, Switch, Resume, TryLock, TryList, Unlock, UnlockList
  <2>2. CASE \/ WaitTest(t) \/ WaitRelease(t) \/ WaitList(t) \/ WaitRelock(t) \/ WaitRestore(t)
             \/ ExitUnlock(t) \/ ExitDone(t) \/ Update(t) \/ ResetLock(t)
    BY <2>2, QueuesSame DEF WaitTest, WaitRelease, WaitList, WaitRelock, WaitRestore,
       ExitUnlock, ExitDone, Update, ResetLock
  <2>3. CASE Raise(t)
    <3>1. pt[t] \in LockPoints /\ owner[pt[t][2]] \in Threads
      BY <2>3, ThreadHere, ThreadKnown, PointFacts
         DEF Raise, ActorOK, ThreadOK, PlaceOK, Contends
    <3>2. Effective(t) \in Prios
      BY <3>1, EffectiveType DEF Sound
    <3> QED
      BY <1>1, <2>3, <3>1, <3>2, SetEffectiveQueues DEF Raise
  <2>4. CASE ResetPriority(t)
    <3>1. who[t] \in Threads /\ t \in Procs
      BY <2>4, ThreadHere, ThreadKnown DEF ResetPriority, ActorOK, PlaceOK
    <3>2. Owed(t) \in Prios
      BY <3>1, OwedType DEF Sound
    <3>3. UNCHANGED <<state, rendezvous>> /\
          (SetEffective(who[t], Owed(t)) \/ UNCHANGED <<prio, queue>>)
      BY <2>4 DEF ResetPriority
    <3> QED
      BY <1>1, <3>1, <3>2, <3>3, SetEffectiveQueues, QueuesSame
  <2> QED
    BY <1>1, <1>3, <2>1, <2>2, <2>3, <2>4, EnqueueQueues, ExitQueues DEF ThreadStep
<1>4. ASSUME NEW p \in Procs, WakeStep(p)
      PROVE  QueuesExact'
  <2>1. CASE Wakeup(p) \/ WakeBusy(p) \/ WakeWait(p) \/ WakeDone(p)
    BY <2>1, QueuesSame DEF Wakeup, WakeBusy, WakeWait, WakeDone
  <2> QED
    BY <1>1, <1>4, <2>1, WakeFirstQueues DEF WakeStep
<1> QED
  BY <1>2, <1>3, <1>4 DEF Next

-----------------------------------------------------------------------------
(* Nobody is forgotten.  A thread queues itself for a monitor that has an    *)
(* owner,                                                                    *)
LEMMA QueueFilled ==
  ASSUME Sound, QueuesExact, Next, NEW m \in Monitors,
         queue[LockPoint(m)] = <<>>, queue'[LockPoint(m)] # <<>>
  PROVE  owner[m] # None /\ owner' = owner
<1>1. TypeOK' /\ LockPoint(m) \in Points /\ LockPoint(m)[2] = m
  BY TypesStep, SoundIs, PointFacts
<1>2. queue[LockPoint(m)] \in Seq(Threads) /\ queue'[LockPoint(m)] \in Seq(Threads)
  BY <1>1 DEF TypeOK, Sound
<1>3. ToSet(queue[LockPoint(m)]) = {} /\ ToSet(queue'[LockPoint(m)]) # {}
  <2>1. Len(queue'[LockPoint(m)]) \in Nat \ {0}
    BY <1>2, LenProperties, EmptySeq
  <2>2. 1 \in 1 .. Len(queue'[LockPoint(m)])
    BY <2>1
  <2>3. queue'[LockPoint(m)][1] \in ToSet(queue'[LockPoint(m)])
    BY <1>2, <2>2, ListElements
  <2>4. ToSet(queue[LockPoint(m)]) = {}
    BY DEF ToSet
  <2> QED
    BY <2>3, <2>4
<1>4. ASSUME NEW t \in Threads, Call(t) \/ AlarmExpires(t) PROVE queue' = queue
  BY <1>4 DEF Call, CallExit, CallLock, CallTryLock, CallUnlock, CallWait, CallNotify,
     CallSetPriority, AlarmExpires
<1>5. ASSUME NEW t \in Threads, ThreadStep(t), queue'[LockPoint(m)] # queue[LockPoint(m)]
      PROVE  Enqueue(t)
  <2>1. CASE \/ LockTake(t) \/ LockContend(t) \/ Inherit(t) \/ InheritNothing(t)
             \/ InheritRaise(t) \/ InheritRetry(t) \/ OwnerWait(t) \/ Switch(t) \/ Resume(t)
             \/ TryLock(t) \/ TryList(t) \/ Unlock(t) \/ UnlockList(t)
    BY <1>5, <2>1 DEF LockTake, LockContend, Inherit, InheritNothing, InheritRaise,
       InheritRetry, OwnerWait, Switch, Resume, TryLock, TryList, Unlock, UnlockList
  <2>2. CASE \/ WaitTest(t) \/ WaitRelease(t) \/ WaitList(t) \/ WaitRelock(t) \/ WaitRestore(t)
             \/ Exit(t) \/ ExitUnlock(t) \/ ExitDone(t) \/ Update(t) \/ ResetLock(t)
    BY <1>5, <2>2 DEF WaitTest, WaitRelease, WaitList, WaitRelock, WaitRestore,
       Exit, ExitUnlock, ExitDone, Update, ResetLock
  <2>3. CASE Raise(t)
    <3>1. pt[t] \in LockPoints /\ owner[pt[t][2]] \in Threads
      BY <2>3, ThreadHere, ThreadKnown, PointFacts
         DEF Raise, ActorOK, ThreadOK, PlaceOK, Contends
    <3>2. Effective(t) \in Prios
      BY <3>1, EffectiveType DEF Sound
    <3>3. ToSet(queue'[LockPoint(m)]) = ToSet(queue[LockPoint(m)])
      BY <1>1, <2>3, <3>1, <3>2, SetEffectiveKeeps, SoundIs DEF Raise, CountsOK
    <3> QED
      BY <1>3, <3>3
  <2>4. CASE ResetPriority(t)
    <3>1. who[t] \in Threads /\ t \in Procs
      BY <2>4, ThreadHere, ThreadKnown DEF ResetPriority, ActorOK, PlaceOK
    <3>2. Owed(t) \in Prios
      BY <3>1, OwedType DEF Sound
    <3>3. SetEffective(who[t], Owed(t)) \/ queue' = queue
      BY <2>4 DEF ResetPriority
    <3>4. ToSet(queue'[LockPoint(m)]) = ToSet(queue[LockPoint(m)])
      BY <1>1, <3>1, <3>2, <3>3, SetEffectiveKeeps, SoundIs DEF CountsOK
    <3> QED
      BY <1>3, <3>4
  <2> QED
    BY <1>5, <2>1, <2>2, <2>3, <2>4 DEF ThreadStep
<1>6. ASSUME NEW p \in Procs, WakeStep(p) PROVE queue'[LockPoint(m)] = queue[LockPoint(m)]
  <2>1. CASE WakeFirst(p)
    <3>1. pt[p] # LockPoint(m)
      BY <2>1 DEF WakeFirst
    <3> QED
      BY <1>1, <2>1, <3>1 DEF WakeFirst, Sound, TypeOK
  <2>2. CASE Wakeup(p) \/ WakeBusy(p) \/ WakeWait(p) \/ WakeDone(p)
    BY <2>2 DEF Wakeup, WakeBusy, WakeWait, WakeDone
  <2> QED
    BY <1>6, <2>1, <2>2 DEF WakeStep
<1>7. PICK t \in Threads : Enqueue(t)
  BY <1>4, <1>5, <1>6 DEF Next
<1>8. pt[t] = LockPoint(m) /\ owner' = owner
  BY <1>1, <1>7 DEF Enqueue, Sound, TypeOK
<1>9. Contends(t)
  BY <1>7, <1>8, PointFacts DEF Enqueue, Contends
<1> QED
  BY <1>1, <1>8, <1>9, ThreadHere DEF ThreadOK

(* who gives a monitor up goes on to wake who waits for it,                  *)
LEMMA WakesAfter ==
  ASSUME Sound, NEW t \in Threads, Call(t) \/ ThreadStep(t), NEW m \in Monitors,
         owner[m] # None, owner'[m] = None
  PROVE  WakingAt(t, LockPoint(m))'
<1>1. CASE LockTake(t) \/ TryLock(t)
  <2>1. t # None /\ owner \in [Monitors -> Threads \cup {None}]
    BY ThreadKnown
  <2>2. owner' = owner \/ \E n : owner' = [owner EXCEPT ![n] = t]
    BY <1>1 DEF LockTake, TryLock
  <2> QED
    BY <2>1, <2>2
<1>2. CASE UnlockList(t)
  <2>1. PICK n \in Monitors : n = pt[t][2] /\ pt[t] = LockPoint(n)
    BY <1>2, ThreadHere, PointFacts DEF UnlockList, ActorOK, PlaceOK
  <2>2. n = m
    BY <1>2, <2>1 DEF UnlockList, Sound, TypeOK
  <2>3. pc'[t] = "update" /\ ret'[t] = "wake" /\ pt'[t] = LockPoint(m)
    BY <1>2, <2>1, <2>2, ThreadKnown DEF UnlockList, Sound, TypeOK
  <2> QED
    BY <2>3 DEF WakingAt
<1>3. CASE WaitRelease(t)
  <2>1. pt[t][2] = m /\ pt'[t] = pt[t]
    BY <1>3 DEF WaitRelease, Sound, TypeOK
  <2>2. pc'[t] = "waitList"
    BY <1>3, ThreadKnown DEF WaitRelease, Sound, TypeOK
  <2> QED
    BY <2>1, <2>2 DEF WakingAt, LockPoint
<1>4. CASE ExitUnlock(t)
  <2>1. Head(monitorList[t]) = m
    BY <1>4 DEF ExitUnlock, Sound, TypeOK
  <2>2. pc'[t] = "wake" /\ pt'[t] = LockPoint(m)
    BY <1>4, <2>1, ThreadKnown DEF ExitUnlock, Sound, TypeOK
  <2> QED
    BY <2>2 DEF WakingAt
<1>5. CASE owner' = owner
  BY <1>5
<1>6. CASE Call(t)
  BY <1>5, <1>6 DEF Call, CallExit, CallLock, CallTryLock, CallUnlock, CallWait, CallNotify,
              CallSetPriority
<1>7. CASE \/ LockContend(t) \/ Inherit(t) \/ InheritNothing(t) \/ InheritRaise(t)
           \/ InheritRetry(t) \/ OwnerWait(t) \/ Raise(t) \/ Enqueue(t) \/ Switch(t)
           \/ Resume(t) \/ TryList(t) \/ WaitTest(t) \/ WaitList(t) \/ WaitRelock(t)
           \/ Exit(t) \/ ExitDone(t) \/ Update(t) \/ ResetLock(t) \/ ResetPriority(t)
           \/ Unlock(t) \/ WaitRestore(t)
  BY <1>5, <1>7 DEF LockContend, Inherit, InheritNothing, InheritRaise, InheritRetry,
              OwnerWait, Raise, Enqueue, Switch, Resume, TryList, WaitTest, WaitList,
              WaitRelock, Exit, ExitDone, Update, ResetLock, ResetPriority, Unlock, WaitRestore
<1> QED
  BY <1>1, <1>2, <1>3, <1>4, <1>6, <1>7 DEF ThreadStep

(* and does not leave until the queue is empty.                              *)
LEMMA WakingStays ==
  ASSUME Sound, QueuesExact, NEW p \in Procs,
         (p \in Threads /\ (Call(p) \/ ThreadStep(p))) \/ WakeStep(p),
         NEW r \in Points, queue[r] # <<>>, WakingAt(p, r)
  PROVE  WakingAt(p, r)'
<1>1. PlaceOK(p) /\ pc \in [Procs -> Places] /\ pt \in [Procs -> Points \cup {None}]
      /\ ret \in [Procs -> {"thread", "enqueue", "wake", "wakeup"}]
  BY DEF Sound, ActorOK, TypeOK
<1>2. CASE WakeStep(p)
  <2>1. pc[p] \in Waking /\ pt[p] = r
    BY <1>2, WakeThread DEF WakingAt
  <2>2. ~WakeDone(p)
    BY <2>1 DEF WakeDone
  <2>3. pc'[p] \in Waking /\ pt'[p] = r
    BY <1>1, <1>2, <2>1, <2>2 DEF WakeStep, Wakeup, WakeFirst, WakeBusy, WakeWait
  <2> QED
    BY <2>3 DEF WakingAt
<1>3. CASE p \in Threads /\ Call(p)
  <2>1. pc[p] = "thread"
    BY <1>3 DEF Call, CallExit, CallLock, CallTryLock, CallUnlock, CallWait, CallNotify,
                CallSetPriority
  <2> QED
    BY <2>1 DEF WakingAt
<1>4. CASE p \in Threads /\ (Update(p) \/ ResetLock(p))
  <2>1. pc'[p] = "reset" /\ pt'[p] = pt[p] /\ ret'[p] = ret[p] /\ pc[p] \in Updating
    BY <1>1, <1>4 DEF Update, ResetLock
  <2> QED
    BY <2>1 DEF WakingAt
<1>5. CASE p \in Threads /\ ResetPriority(p)
  <2>1. pt' = pt /\ pc[p] = "reset"
    BY <1>5 DEF ResetPriority
  <2>2. \/ pc'[p] = ret[p]
        \/ pc'[p] = "update" /\ ret'[p] = ret[p]
    <3>1. \E x : /\ pc' = [pc EXCEPT ![p] = IF x = None THEN ret[p] ELSE "update"]
                 /\ ret' = [ret EXCEPT ![p] = IF x = None THEN "thread" ELSE ret[p]]
      BY <1>1, <1>5 DEF ResetPriority
    <3> QED
      BY <1>1, <3>1
  <2> QED
    BY <2>1, <2>2 DEF WakingAt
<1>6. CASE p \in Threads /\ WaitList(p)
  <2>1. pc[p] = "waitList" /\ pc'[p] = "reset" /\ ret'[p] = "wakeup"
        /\ pt'[p] = LockPoint(pt[p][2])
    BY <1>1, <1>6 DEF WaitList
  <2> QED
    BY <2>1 DEF WakingAt
<1>7. CASE p \in Threads /\
           ( \/ LockTake(p) \/ LockContend(p) \/ Inherit(p) \/ InheritNothing(p)
             \/ InheritRaise(p) \/ InheritRetry(p) \/ OwnerWait(p) \/ Raise(p) \/ Enqueue(p)
             \/ Switch(p) \/ Resume(p) \/ TryLock(p) \/ TryList(p) \/ Unlock(p)
             \/ UnlockList(p) \/ WaitTest(p) \/ WaitRelease(p) \/ WaitRelock(p)
             \/ WaitRestore(p) \/ Exit(p) \/ ExitUnlock(p) \/ ExitDone(p) )
  <2>1. pc[p] \notin Waking \cup Updating \cup {"waitList"}
    BY <1>7 DEF LockTake, LockContend, Inherit, InheritNothing, InheritRaise, InheritRetry,
       OwnerWait, Raise, Enqueue, Switch, Resume, TryLock, TryList, Unlock, UnlockList,
       WaitTest, WaitRelease, WaitRelock, WaitRestore, Exit, ExitUnlock, ExitDone
  <2> QED
    BY <2>1 DEF WakingAt
<1> QED
  BY <1>2, <1>3, <1>4, <1>5, <1>6, <1>7 DEF ThreadStep

(* A process that is on its way is not turned back by another one.           *)
LEMMA OthersWaking ==
  ASSUME NEW p \in Procs, KeepsPlaces(p), NEW q \in Procs, q # p, NEW r \in Points,
         WakingAt(q, r)
  PROVE  WakingAt(q, r)'
BY DEF KeepsPlaces, WakingAt

LEMMA WakingKept ==
  ASSUME Sound, QueuesExact, Next, NEW r \in Points, queue[r] # <<>>,
         NEW q \in Procs, WakingAt(q, r)
  PROVE  WakingAt(q, r)'
<1>1. ASSUME NEW t \in Threads, Call(t) \/ ThreadStep(t) PROVE WakingAt(q, r)'
  <2>1. t \in Procs /\ KeepsPlaces(t)
    BY <1>1, ThreadKeeps DEF Sound, Procs
  <2> QED
    BY <1>1, <2>1, WakingStays, OthersWaking
<1>2. ASSUME NEW t \in Threads, AlarmExpires(t) PROVE WakingAt(q, r)'
  <2>1. Timer \in Procs /\ KeepsPlaces(Timer)
    BY <1>2, AlarmKeeps DEF Sound, Procs
  <2>2. q # Timer
    BY <1>2 DEF AlarmExpires, WakingAt
  <2> QED
    BY <2>1, <2>2, OthersWaking
<1>3. ASSUME NEW p \in Procs, WakeStep(p) PROVE WakingAt(q, r)'
  <2>1. KeepsPlaces(p)
    BY <1>3, WakeKeeps, SoundIs DEF CountsOK
  <2> QED
    BY <1>3, <2>1, WakingStays, OthersWaking
<1> QED
  BY <1>1, <1>2, <1>3 DEF Next

LEMMA ForgottenStep ==
  ASSUME Sound, QueuesExact, NobodyForgotten, Next
  PROVE  NobodyForgotten'
<1> SUFFICES ASSUME NEW m \in Monitors, owner'[m] = None, queue'[LockPoint(m)] # <<>>
             PROVE  \E p \in Procs : WakingAt(p, LockPoint(m))'
  BY DEF NobodyForgotten
<1>1. queue[LockPoint(m)] # <<>>
  BY QueueFilled
<1>2. CASE owner[m] = None
  <2>1. PICK q \in Procs : WakingAt(q, LockPoint(m))
    BY <1>1, <1>2 DEF NobodyForgotten
  <2> QED
    BY <1>1, <2>1, WakingKept, PointFacts
<1>3. CASE owner[m] # None
  <2>1. PICK t \in Threads : Call(t) \/ ThreadStep(t)
    <3>1. ASSUME NEW p \in Procs, WakeStep(p) PROVE FALSE
      BY <1>3, <3>1, WakeThread
    <3>2. ASSUME NEW t \in Threads, AlarmExpires(t) PROVE FALSE
      BY <1>3, <3>2 DEF AlarmExpires
    <3> QED
      BY <3>1, <3>2 DEF Next
  <2> QED
    BY <1>3, <2>1, WakesAfter DEF Procs
<1> QED
  BY <1>2, <1>3

-----------------------------------------------------------------------------
(* The theorems. *)
LEMMA IndInvIs ==
  IndInv <=> Sound /\ QueuesExact /\ NobodyForgotten
BY SoundIs DEF IndInv

LEMMA IndInvInit ==
  ASSUME Init
  PROVE  IndInv
<1>1. 0 \in 0 .. MaxDepth
  BY MonitorAssumption
<1>2. TypeOK
  <2>1. <<>> \in Seq(Threads) /\ <<>> \in Seq(Monitors) /\ "thread" \in Places
    BY EmptySeq DEF Places
  <2> QED
    BY <1>1, <2>1 DEF Init, TypeOK
<1>3. TimerOK
  BY DEF Init, TimerOK, Procs
<1>4. \A m \in Monitors : owner[m] = None => lockCount[m] = 0
  BY DEF Init
<1>5. ASSUME NEW p \in Procs
      PROVE  PlaceOK(p) /\ PointsHeldBy(p)
  <2>1. pc[p] = "thread" /\ ret[p] = "thread" /\ got[p] = {}
    BY DEF Init
  <2> QED
    BY <2>1 DEF PlaceOK, PointsHeldBy, HoldsPoint, WorksLocked, WaitsLocked
<1>6. ASSUME NEW t \in Threads
      PROVE  ThreadOK(t)
  <2>1. /\ pc[t] = "thread" /\ ret[t] = "thread" /\ pt[t] = None
        /\ state[t] = "ready" /\ monitor[t] = None /\ monitorList[t] = <<>>
        /\ alarm[t] = "none" /\ count[t] = 0
        /\ \A m \in Monitors : depth[t][m] = 0 /\ owner[m] = None
    BY DEF Init, Procs
  <2>2. t # None /\ \A m \in Monitors : LockPoint(m) # None
    BY PointFacts DEF Procs
  <2>3. WaitOK(t) /\ ~Contends(t)
    BY <2>1 DEF WaitOK, OnCondition, Contends
  <2>4. StateOK(t)
    BY <2>1, <2>2 DEF StateOK, Ending
  <2>5. ToSet(monitorList[t]) = {} /\ Once(monitorList[t])
    BY <2>1 DEF ToSet, Once
  <2>6. ListOK(t)
    BY <2>1, <2>2, <2>5 DEF ListOK
  <2>7. \A m \in Monitors : OwnerOK(t, m)
    BY <2>1, <2>2 DEF OwnerOK, Passing
  <2> QED
    BY <2>3, <2>4, <2>6, <2>7 DEF ThreadOK
<1>7. \A r \in Points : queue[r] = <<>>
  BY DEF Init
<1>8. QueuesExact
  <2>1. \A r \in Points : ToSet(queue[r]) = {} /\ Ordered(queue[r], InOrder(prio))
    BY <1>7 DEF ToSet, Ordered
  <2>2. \A t \in Threads : state[t] = "ready"
    BY DEF Init
  <2> QED
    BY <1>2, <2>1, <2>2, QueuesExactIs
<1>9. NobodyForgotten
  BY <1>7, PointFacts DEF NobodyForgotten
<1> QED
  BY <1>2, <1>3, <1>4, <1>5, <1>6, <1>8, <1>9, IndInvIs DEF Sound, ActorOK

LEMMA IndInvStep ==
  ASSUME IndInv, [Next]_vars
  PROVE  IndInv'
<1>0. Sound' /\ QueuesExact' /\ NobodyForgotten' => IndInv'
  BY DEF IndInv, CountsOK, PlacesOK, WaitsOK, StatesOK, PointsHeld, OwnersOK, ListsOK,
         ContendersOK, Sound, ActorOK, ThreadOK, Procs
<1>1. CASE Next
  BY <1>0, <1>1, SoundStep, QueuesStep, ForgottenStep, IndInvIs
<1>2. CASE UNCHANGED vars
  <2>1. Sound'
    BY <1>2, IndInvIs DEF vars, Sound, TypeOK, TimerOK, ActorOK, PlaceOK, PointsHeldBy,
       HoldsPoint, WorksLocked, WaitsLocked, ThreadOK, WaitOK, OnCondition, StateOK, Ending,
       ListOK, OwnerOK, Passing, Contends
  <2>2. QueuesExact'
    BY <1>2, QueuesSame, IndInvIs DEF vars
  <2>3. NobodyForgotten'
    BY <1>2, IndInvIs DEF vars, NobodyForgotten, WakingAt
  <2> QED
    BY <1>0, <2>1, <2>2, <2>3
<1> QED
  BY <1>1, <1>2

(* The invariant from which all the others follow: of each process where it  *)
(* is in monitor.cpp and which locks it holds there, of each monitor who     *)
(* owns it and who is on its way to wake its waiters.                        *)
THEOREM MonitorInductive == Spec => []IndInv
<1>1. Init => IndInv
  BY IndInvInit
<1>2. IndInv /\ [Next]_vars => IndInv'
  BY IndInvStep
<1> QED
  BY <1>1, <1>2, PTL DEF Spec

(* Every field of every Monitor, Rendezvous and Thread has its type.         *)
THEOREM MonitorTypes == Spec => []TypeOK
<1>1. IndInv => TypeOK
  BY DEF IndInv, CountsOK
<1> QED
  BY <1>1, MonitorInductive, PTL

(* A thread that has come back from Monitor::lock(), tryLock() or wait() is  *)
(* the owner, as many times as it knows: mutual exclusion, and a recursion   *)
(* count that wait() restores.                                               *)
THEOREM MonitorHolderOwns == Spec => []HolderOwns
<1>1. IndInv => HolderOwns
  BY DEF IndInv, OwnersOK, OwnerOK, HolderOwns
<1> QED
  BY <1>1, MonitorInductive, PTL

(* Rendezvous queues hold exactly the threads that wait there, once and in   *)
(* order of priority, through setEffectivePriority() and wakeup() alike.     *)
THEOREM MonitorQueuesExact == Spec => []QueuesExact
<1>1. IndInv => QueuesExact
  BY DEF IndInv
<1> QED
  BY <1>1, MonitorInductive, PTL

(* Monitor::unlock(), wait() and unlockAllMonitors() leave no thread behind  *)
(* on the queue of a monitor that has no owner.                              *)
THEOREM MonitorNobodyForgotten == Spec => []NobodyForgotten
<1>1. IndInv => NobodyForgotten
  BY DEF IndInv
<1> QED
  BY <1>1, MonitorInductive, PTL

(* notify() cannot end before a thread that is in the middle of wait() is on *)
(* the queue, because condWait() has the condition variable locked from its  *)
(* test of the owner to the queue.                                           *)
LEMMA NotifyWakes ==
  ASSUME IndInv, NEW p \in Threads, NEW m \in Monitors, WakeDone(p), pt[p] = CvPoint(m),
         NEW t \in Threads
  PROVE  ~Unnotified(t, m)
<1>1. CvPoint(m) \in Points /\ CvPoint(m) \in CvPoints /\ CvPoint(m) \notin LockPoints
      /\ CvPoint(m)[2] = m
  BY PointFacts
<1>2. p \in Procs /\ ActorOK(p) /\ ThreadOK(p)
  BY IndInvIs, ThreadHere, ThreadKnown
<1>3. t \in Procs /\ ActorOK(t) /\ ThreadOK(t)
  BY IndInvIs, ThreadHere, ThreadKnown
<1>4. pc[p] = "wake" /\ queue[CvPoint(m)] = <<>> /\ rlock[CvPoint(m)] = p
  BY <1>1, <1>2 DEF WakeDone, ActorOK, PointsHeldBy, HoldsPoint, WorksLocked
<1>5. ~Contains(queue[CvPoint(m)], t)
  BY <1>4 DEF Contains
<1> SUFFICES ASSUME count[t] > 0, pt[t][2] = m,
                    \/ pc[t] \in {"waitList", "wakeup", "wake", "wakeWait"}
                    \/ At(t, "reset") /\ ret[t] = "wakeup"
                    \/ At(t, "enqueue") /\ pt[t] = CvPoint(m)
             PROVE  FALSE
  BY <1>5 DEF Unnotified
<1>6. HoldsPoint(t, CvPoint(m))
  <2>1. CASE pc[t] = "waitList"
    <3>1. pt[t] \in CvPoints
      BY <1>3, <2>1 DEF ActorOK, PlaceOK
    <3>2. pt[t] = CvPoint(m)
      BY <3>1, PointFacts
    <3> QED
      BY <2>1, <3>2 DEF HoldsPoint, WorksLocked
  <2>2. CASE pc[t] # "waitList"
    BY <1>3, <2>2 DEF HoldsPoint, WorksLocked, WaitsLocked
  <2> QED
    BY <2>1, <2>2
<1>7. t = p
  BY <1>1, <1>3, <1>4, <1>6 DEF ActorOK, PointsHeldBy
<1>8. pt[t] \in LockPoints
  BY <1>3, <1>4, <1>7 DEF ThreadOK, WaitOK
<1> QED
  BY <1>1, <1>7, <1>8

(* Monitor::notify() wakes every thread that has given the monitor up in     *)
(* wait().                                                                   *)
THEOREM MonitorNotifyWakesAll == Spec => NotifyWakesAll
<1>1. IndInv /\ [Next]_vars =>
        [\A p \in Threads : \A m \in Monitors :
           WakeDone(p) /\ pt[p] = CvPoint(m) /\ owner[m] = p
             => \A t \in Threads : ~Unnotified(t, m)]_vars
  BY NotifyWakes
<1> QED
  BY <1>1, MonitorInductive, PTL DEF Spec, NotifyWakesAll

-----------------------------------------------------------------------------
(* One core.  A step is one process's, *)
Acts(p) ==
    \/ p \in Threads /\ (Call(p) \/ ThreadStep(p))
    \/ WakeStep(p)
    \/ p = Timer /\ \E t \in Threads : AlarmExpires(t)

LEMMA OneActs ==
  ASSUME Sound, QueuesExact, Next
  PROVE  \E p \in Procs : Acts(p) /\ KeepsOthers(p)
<1>1. ASSUME NEW t \in Threads, Call(t) \/ ThreadStep(t)
      PROVE  \E p \in Procs : Acts(p) /\ KeepsOthers(p)
  <2>1. t \in Procs
    BY DEF Procs
  <2>2. KeepsOthers(t)
    BY <1>1, <2>1, ThreadKeeps, PointsKept, OwnersKept, SoundIs DEF CountsOK, KeepsOthers
  <2> QED
    BY <1>1, <2>1, <2>2 DEF Acts
<1>2. ASSUME NEW t \in Threads, AlarmExpires(t)
      PROVE  \E p \in Procs : Acts(p) /\ KeepsOthers(p)
  <2>1. UNCHANGED <<rlock, owner, lockCount>>
    BY <1>2 DEF AlarmExpires
  <2>2. KeepsOthers(Timer)
    BY <1>2, <2>1, AlarmKeeps DEF Sound, KeepsOthers, KeepsPoints, KeepsOwners
  <2> QED
    BY <1>2, <2>2 DEF Acts, Procs
<1>3. ASSUME NEW q \in Procs, WakeStep(q)
      PROVE  \E p \in Procs : Acts(p) /\ KeepsOthers(p)
  <2>1. UNCHANGED <<owner, lockCount>>
    BY <1>3, WakeThread
  <2>2. KeepsPlaces(q) /\ KeepsThreads(q) /\ KeepsPoints(q)
    BY <1>3, WakeKeeps, PointsKept, SoundIs DEF CountsOK
  <2> QED
    BY <1>3, <2>1, <2>2 DEF Acts, KeepsOthers, KeepsOwners
<1> QED
  BY <1>1, <1>2, <1>3 DEF Next

(* and that process is alone in the kernel, or enters it when nobody is.     *)
LEMMA FreeIsEmpty ==
  ASSUME Cores = 1, OneInKernel, CoreFree, NEW q \in Procs
  PROVE  ~InKernel(q)
<1> SUFFICES ASSUME InKernel(q) PROVE FALSE
  OBVIOUS
<1>1. {p \in Procs : InKernel(p)} = {q}
  BY DEF OneInKernel
<1>2. Cardinality({q}) = 1
  BY FS_Singleton
<1> QED
  BY <1>1, <1>2 DEF CoreFree

LEMMA ActsAlone ==
  ASSUME Cores = 1, OneInKernel, NEW p \in Procs, Acts(p), NEW q \in Procs, q # p
  PROVE  ~InKernel(q)
<1>1. ASSUME CoreFree PROVE ~InKernel(q)
  BY <1>1, FreeIsEmpty
<1>2. ASSUME InKernel(p) PROVE ~InKernel(q)
  BY <1>2 DEF OneInKernel
<1>3. CASE p \in Threads /\ Call(p)
  BY <1>1, <1>3 DEF Call, CallExit, CallLock, CallTryLock, CallUnlock, CallWait, CallNotify,
     CallSetPriority
<1>4. CASE p \in Threads /\ ThreadStep(p)
  BY <1>1, <1>2, <1>4 DEF ThreadStep, LockTake, LockContend, Inherit, InheritNothing,
     InheritRaise, InheritRetry, OwnerWait, Raise, Enqueue, Switch, Resume, TryLock, TryList,
     Unlock, UnlockList, WaitTest, WaitRelease, WaitList, WaitRelock, WaitRestore, Exit,
     ExitUnlock, ExitDone, Update, ResetLock, ResetPriority, InKernel
<1>5. CASE WakeStep(p)
  BY <1>2, <1>5 DEF WakeStep, Wakeup, WakeFirst, WakeBusy, WakeWait, WakeDone, InKernel
<1>6. CASE p = Timer /\ \E t \in Threads : AlarmExpires(t)
  BY <1>1, <1>6 DEF AlarmExpires
<1> QED
  BY <1>3, <1>4, <1>5, <1>6 DEF Acts

LEMMA OneInKernelStep ==
  ASSUME Cores = 1, OneInKernel, NEW p \in Procs, Acts(p), KeepsPlaces(p)
  PROVE  OneInKernel'
<1>1. ASSUME NEW q \in Procs, InKernel(q)' PROVE q = p
  <2> SUFFICES ASSUME q # p PROVE FALSE
    OBVIOUS
  <2>1. ~InKernel(q) /\ pc'[q] = pc[q]
    BY ActsAlone DEF KeepsPlaces
  <2> QED
    BY <1>1, <2>1 DEF InKernel
<1> QED
  BY <1>1 DEF OneInKernel

(* So condWait() is not interrupted, *)
LEMMA GivenUpStep ==
  ASSUME Cores = 1, Sound, QueuesExact, OneInKernel, GivenUp, Next
  PROVE  GivenUp'
<1>1. PICK p \in Procs : Acts(p) /\ KeepsOthers(p)
  BY OneActs
<1> SUFFICES ASSUME NEW t \in Threads, pc'[t] = "waitList" PROVE owner'[pt'[t][2]] = None
  BY DEF GivenUp
<1>2. CASE t # p
  <2>1. pc'[t] = pc[t] /\ ~InKernel(t)
    BY <1>1, <1>2, ActsAlone DEF KeepsOthers, KeepsPlaces, Procs
  <2> QED
    BY <2>1 DEF InKernel
<1>3. CASE t = p
  <2>1. ~WakeStep(t) /\ t # Timer
    BY <1>1, <1>3, WakeThread, MonitorAssumption DEF WakeStep, Wakeup, WakeFirst, WakeBusy,
       WakeWait, WakeDone, Sound, TypeOK
  <2>2. CASE Call(t)
    BY <1>1, <1>3, <2>2 DEF Call, CallExit, CallLock, CallTryLock, CallUnlock, CallWait,
       CallNotify, CallSetPriority, Sound, TypeOK
  <2>3. CASE WaitRelease(t)
    <3>1. pt[t][2] \in Monitors
      BY <2>3, ThreadHere, PointFacts DEF WaitRelease, ActorOK, PlaceOK
    <3> QED
      BY <2>3, <3>1 DEF WaitRelease, Sound, TypeOK
  <2>4. CASE \/ LockTake(t) \/ LockContend(t) \/ Inherit(t) \/ InheritNothing(t)
             \/ InheritRaise(t) \/ InheritRetry(t) \/ OwnerWait(t) \/ Raise(t) \/ Enqueue(t)
             \/ Switch(t) \/ Resume(t) \/ TryLock(t) \/ TryList(t) \/ Unlock(t)
             \/ UnlockList(t)
    <3>1. pc'[t] # "waitList"
      BY SMTT(30), <1>1, <1>3, <2>4 DEF LockTake, LockContend, Inherit, InheritNothing, InheritRaise,
         InheritRetry, OwnerWait, Raise, Enqueue, Switch, Resume, TryLock, TryList, Unlock,
         UnlockList, Sound, TypeOK
    <3> QED
      BY <3>1
  <2>5. CASE \/ WaitTest(t) \/ WaitList(t) \/ WaitRelock(t) \/ WaitRestore(t) \/ Exit(t)
             \/ ExitUnlock(t) \/ ExitDone(t) \/ Update(t) \/ ResetLock(t) \/ ResetPriority(t)
    <3>1. pc'[t] # "waitList"
      BY ZenonT(30), <1>1, <1>3, <2>5 DEF WaitTest, WaitList, WaitRelock, WaitRestore, Exit, ExitUnlock,
         ExitDone, Update, ResetLock, ResetPriority, Sound, TypeOK
    <3> QED
      BY <3>1
  <2> QED
    BY <1>1, <1>3, <2>1, <2>2, <2>3, <2>4, <2>5 DEF Acts, ThreadStep
<1> QED
  BY <1>2, <1>3

LEMMA OwnUpdatesStep ==
  ASSUME Sound, QueuesExact, OwnUpdates, Next
  PROVE  OwnUpdates'
<1>1. PICK p \in Procs : Acts(p) /\ KeepsOthers(p)
  BY OneActs
<1> SUFFICES ASSUME NEW t \in Threads, pc'[t] \in Updating, ret'[t] = "wakeup"
             PROVE  who'[t] = t
  BY DEF OwnUpdates
<1>2. CASE t # p
  BY <1>1, <1>2 DEF KeepsOthers, KeepsPlaces, OwnUpdates, Procs
<1>3. CASE t = p
  <2>0. t \in Procs /\ ActorOK(t) /\ ThreadOK(t) /\ t # Timer
    BY ThreadHere, ThreadKnown, MonitorAssumption
  <2>1. CASE WakeStep(t)
    <3>1. ret'[t] = "thread"
      BY <2>0, <2>1, WakeThread
    <3> QED
      BY <3>1
  <2>2. CASE Call(t)
    <3>1. pc[t] = "thread" /\ ret' = ret
      BY <2>2 DEF Call, CallExit, CallLock, CallTryLock, CallUnlock, CallWait, CallNotify,
         CallSetPriority
    <3> QED
      BY <2>0, <3>1 DEF ActorOK, PlaceOK
  <2>3. CASE WaitList(t)
    BY <2>0, <2>3 DEF WaitList, Sound, TypeOK
  <2>4. CASE Update(t) \/ ResetLock(t)
    BY <2>0, <2>4 DEF Update, ResetLock, OwnUpdates, Sound, TypeOK
  <2>5. CASE ResetPriority(t)
    <3>1. pc[t] = "reset"
      BY <2>5 DEF ResetPriority
    <3>2. \E x : /\ ret' = [ret EXCEPT ![t] = IF x = None THEN "thread" ELSE ret[t]]
                 /\ x = IF prio[who[t]] # Owed(t) THEN NextOwner(who[t]) ELSE None
      BY <2>5 DEF ResetPriority
    <3>3. ret[t] = "wakeup" /\ NextOwner(who[t]) # None
      BY <2>0, <3>2 DEF Sound, TypeOK
    <3>4. who[t] = t
      BY <3>1, <3>3 DEF OwnUpdates
    <3>5. state[t] # "WAITING"
      BY <2>0, <3>1 DEF ThreadOK, StateOK
    <3> QED
      BY <3>3, <3>4, <3>5 DEF NextOwner
  <2>6. CASE \/ LockTake(t) \/ LockContend(t) \/ Inherit(t) \/ InheritNothing(t)
             \/ InheritRaise(t) \/ InheritRetry(t) \/ OwnerWait(t) \/ Enqueue(t)
             \/ Switch(t) \/ Resume(t) \/ TryLock(t) \/ TryList(t) \/ Unlock(t)
             \/ WaitTest(t) \/ WaitRelease(t) \/ WaitRelock(t) \/ WaitRestore(t) \/ Exit(t)
             \/ ExitUnlock(t) \/ ExitDone(t)
    <3>1. pc[t] \notin Updating /\ ret' = ret
      BY <2>6 DEF LockTake, LockContend, Inherit, InheritNothing, InheritRaise, InheritRetry,
         OwnerWait, Enqueue, Switch, Resume, TryLock, TryList, Unlock, WaitTest, WaitRelease,
         WaitRelock, WaitRestore, Exit, ExitUnlock, ExitDone
    <3> QED
      BY <2>0, <3>1 DEF ActorOK, PlaceOK
  <2>7. CASE Raise(t)
    <3>1. pc[t] = "raise"
      BY <2>7 DEF Raise
    <3>2. \E x : ret' = [ret EXCEPT ![t] = IF x = None THEN ret[t] ELSE "enqueue"]
      BY <2>7 DEF Raise
    <3> QED
      BY <2>0, <3>1, <3>2 DEF ActorOK, PlaceOK, Sound, TypeOK
  <2>8. CASE UnlockList(t)
    BY <2>0, <2>8 DEF UnlockList, Sound, TypeOK
  <2> QED
    BY <1>1, <1>3, <2>0, <2>1, <2>2, <2>3, <2>4, <2>5, <2>6, <2>7, <2>8 DEF Acts, ThreadStep
<1> QED
  BY <1>2, <1>3

(* a thread enters the condition variable by wait(), and not by waking up,   *)
LEMMA EnteringBegins ==
  ASSUME Sound, QueuesExact, NEW t \in Threads, Call(t) \/ ThreadStep(t) \/ WakeStep(t),
         Entering(t)', ~Entering(t)
  PROVE  \E m \in Monitors : CallWait(t, m)
<1> SUFFICES ASSUME \A m \in Monitors : ~CallWait(t, m) PROVE FALSE
  OBVIOUS
<1>0. ActorOK(t) /\ ThreadOK(t) /\ t # None /\ t \in Procs
  BY ThreadHere, ThreadKnown
<1>1. CASE WakeStep(t)
  <2>1. pc[t] \in Waking /\ count' = count /\ ret'[t] = "thread"
    BY <1>1, WakeThread, ThreadKnown
  <2>2. ~(count[t] > 0)
    BY <2>1 DEF Entering, WaitsLocked
  <2>3. pc'[t] \in Waking \cup {"exitNext", "thread"}
    BY <1>0, <1>1, <2>2 DEF WakeStep, Wakeup, WakeFirst, WakeBusy, WakeWait, WakeDone, Sound,
       TypeOK
  <2> QED
    BY <2>1, <2>2, <2>3 DEF Entering, WaitsLocked
<1>2. CASE Call(t)
  <2>1. pc[t] = "thread" /\ ret[t] = "thread" /\ count[t] = 0
    BY <1>0, <1>2, ThreadKnown DEF Call, CallExit, CallLock, CallTryLock, CallUnlock, CallWait,
       CallNotify, CallSetPriority, ActorOK, PlaceOK, ThreadOK, WaitOK
  <2>2. ret' = ret /\ count' = count
    BY <1>2 DEF Call, CallExit, CallLock, CallTryLock, CallUnlock, CallNotify, CallSetPriority
  <2>3. \/ pc'[t] \in {"exit", "tryLock", "unlock", "wakeup", "update"}
        \/ pc'[t] = "sleep" /\ pt'[t] \in LockPoints
    BY <1>0, <1>2, PointFacts DEF Call, CallExit, CallLock, CallTryLock, CallUnlock, CallNotify,
       CallSetPriority, Sound, TypeOK
  <2> QED
    BY <2>1, <2>2, <2>3, PointFacts DEF Entering, WaitsLocked
<1>3. CASE \/ LockTake(t) \/ LockContend(t) \/ Inherit(t) \/ InheritNothing(t)
           \/ InheritRaise(t) \/ InheritRetry(t) \/ OwnerWait(t)
  <2>1. ret' = ret /\ ret[t] = "thread"
    BY <1>0, <1>3 DEF LockTake, LockContend, Inherit, InheritNothing, InheritRaise,
       InheritRetry, OwnerWait, ActorOK, PlaceOK
  <2>2. \/ pc'[t] \in {"thread", "restore", "inherit", "inheritOwner", "raise", "ownerWait"}
        \/ pc'[t] \in {"enqueue", "sleep"} /\ pt'[t] \in LockPoints
    BY <1>0, <1>3 DEF LockTake, LockContend, Inherit, InheritNothing, InheritRaise,
       InheritRetry, OwnerWait, ActorOK, PlaceOK, Sound, TypeOK
  <2> QED
    BY <2>1, <2>2, PointFacts DEF Entering, WaitsLocked
<1>4. CASE Raise(t)
  <2>1. ret[t] = "thread" /\ pt[t] \in LockPoints
    BY <1>0, <1>4 DEF Raise, ActorOK, PlaceOK
  <2>2. \E x : /\ ret' = [ret EXCEPT ![t] = IF x = None THEN ret[t] ELSE "enqueue"]
               /\ pc' = [pc EXCEPT ![t] = IF x = None THEN "enqueue" ELSE "update"]
               /\ pt' = pt
    BY <1>4 DEF Raise
  <2>3. /\ pt'[t] \in LockPoints /\ pc'[t] \in {"enqueue", "update"}
        /\ ret'[t] \in {"thread", "enqueue"}
    BY <1>0, <2>1, <2>2 DEF Sound, TypeOK
  <2> QED
    BY <2>3, PointFacts DEF Entering, WaitsLocked
<1>5. CASE Resume(t)
  <2>1. pc[t] = "waiting" /\ pc'[t] = "sleep" /\ pt' = pt /\ owner' = owner
    BY <1>0, <1>5 DEF Resume, Sound, TypeOK
  <2>2. PICK m \in Monitors : pt[t] = CvPoint(m) /\ pt[t] \in CvPoints /\ pt[t][2] = m
                              /\ owner[m] = t
    BY <2>1, PointFacts DEF Entering, WaitsLocked
  <2>3. count[t] > 0 /\ depth[t][m] = 0
    BY <1>0, <2>1, <2>2 DEF ThreadOK, WaitOK, OnCondition
  <2>4. ~Ending(t)
    BY <1>0, <2>3 DEF ThreadOK, StateOK
  <2> QED
    BY <1>0, <2>1, <2>2, <2>3, <2>4 DEF ThreadOK, OwnerOK, Passing
<1>6. CASE \/ Enqueue(t) \/ Switch(t) \/ TryLock(t) \/ TryList(t) \/ Unlock(t)
           \/ WaitRestore(t) \/ Exit(t) \/ ExitDone(t)
  <2>1. pc'[t] \in {"switch", "waiting", "tryList", "thread", "unlockList", "exitNext", "dead"}
    BY <1>0, <1>6 DEF Enqueue, Switch, TryLock, TryList, Unlock, WaitRestore, Exit, ExitDone,
       Sound, TypeOK
  <2> QED
    BY <2>1 DEF Entering, WaitsLocked
<1>7. CASE UnlockList(t) \/ ExitUnlock(t)
  <2>1. CASE UnlockList(t)
    <3>1. pc'[t] = "update" /\ ret'[t] = "wake"
      BY <1>0, <2>1 DEF UnlockList, Sound, TypeOK
    <3> QED
      BY <3>1 DEF Entering, WaitsLocked
  <2>2. CASE ExitUnlock(t)
    <3>1. pc'[t] = "wake" /\ count' = count /\ pc[t] = "exitNext"
      BY <1>0, <2>2 DEF ExitUnlock, Sound, TypeOK
    <3>2. count[t] = 0
      BY <1>0, <3>1 DEF ThreadOK, StateOK, Ending
    <3> QED
      BY <3>1, <3>2 DEF Entering, WaitsLocked
  <2> QED
    BY <1>7, <2>1, <2>2
<1>8. CASE WaitTest(t) \/ WaitRelease(t) \/ WaitList(t)
  <2>1. CASE WaitTest(t)
    <3>1. pt[t] \in CvPoints
      BY <1>0, <2>1, PointFacts DEF WaitTest, ActorOK, PlaceOK
    <3> QED
      BY <2>1, <3>1 DEF WaitTest, Entering
  <2>2. CASE WaitRelease(t) \/ WaitList(t)
    BY <2>2 DEF WaitRelease, WaitList, Entering
  <2> QED
    BY <1>8, <2>1, <2>2
<1>9. CASE WaitRelock(t)
  <2>1. PICK m \in Monitors : m = pt[t][2]
    BY <1>0, <1>9, PointFacts DEF WaitRelock, ActorOK, PlaceOK
  <2>2. pc'[t] = "sleep" /\ pt'[t] = LockPoint(m)
    BY <1>0, <1>9, <2>1 DEF WaitRelock, Sound, TypeOK
  <2> QED
    BY <2>2, PointFacts DEF Entering, WaitsLocked
<1>10. CASE Update(t) \/ ResetLock(t)
  <2>1. pc[t] \in Updating /\ pc'[t] = "reset" /\ ret' = ret
    BY <1>0, <1>10 DEF Update, ResetLock, Sound, TypeOK
  <2> QED
    BY <2>1 DEF Entering, WaitsLocked
<1>11. CASE ResetPriority(t)
  <2>1. pc[t] = "reset" /\ pt' = pt /\ count' = count
    BY <1>11 DEF ResetPriority
  <2>2. ret[t] # "wakeup"
    BY <2>1 DEF Entering, WaitsLocked
  <2>3. \E x : /\ ret' = [ret EXCEPT ![t] = IF x = None THEN "thread" ELSE ret[t]]
               /\ pc' = [pc EXCEPT ![t] = IF x = None THEN ret[t] ELSE "update"]
    BY <1>11 DEF ResetPriority
  <2>4. \/ pc'[t] = "update" /\ ret'[t] = ret[t]
        \/ pc'[t] = ret[t] /\ ret'[t] = "thread"
    BY <1>0, <2>3 DEF Sound, TypeOK
  <2>5. ret[t] \in {"thread", "enqueue", "wake"}
    BY <1>0, <2>2 DEF Sound, TypeOK
  <2>6. ret[t] = "wake" => ~(count[t] > 0)
    BY <1>0, <2>1 DEF ThreadOK, WaitOK
  <2>7. ret[t] = "enqueue" => pt[t] \notin CvPoints
    BY <1>0, <2>1, PointFacts DEF ActorOK, PlaceOK
  <2> QED
    BY <2>1, <2>4, <2>5, <2>6, <2>7 DEF Entering, WaitsLocked
<1> QED
  BY <1>1, <1>2, <1>3, <1>4, <1>5, <1>6, <1>7, <1>8, <1>9, <1>10, <1>11 DEF ThreadStep

LEMMA OthersEntering ==
  ASSUME NEW p \in Procs, KeepsOthers(p), NEW t \in Threads, t # p, Entering(t)'
  PROVE  Entering(t)
<1>1. pc'[t] = pc[t] /\ pt'[t] = pt[t] /\ ret'[t] = ret[t] /\ count'[t] = count[t]
  BY DEF KeepsOthers, KeepsPlaces, KeepsThreads, Procs
<1>2. \A m \in Monitors : owner'[m] = t => owner[m] = t
  BY PointFacts DEF KeepsOthers, KeepsOwners, Procs
<1> QED
  BY <1>1, <1>2, PointFacts DEF Entering, WaitsLocked

(* the alarm does not go off before the thread is on the queue,              *)
LEMMA AlarmSet ==
  ASSUME NEW p \in Procs, Acts(p), KeepsOthers(p), Sound, QueuesExact,
         NEW t \in Threads, alarm'[t] = "fired"
  PROVE  \/ alarm[t] = "fired" /\ \A m \in Monitors : ~CallWait(t, m)
         \/ AlarmExpires(t)
<1>1. CASE t # p
  <2>1. \A m \in Monitors : ~CallWait(t, m)
    <3> SUFFICES ASSUME NEW m \in Monitors, CallWait(t, m) PROVE FALSE
      OBVIOUS
    <3>1. pc'[t] # pc[t]
      BY ThreadKnown DEF CallWait, Sound, TypeOK
    <3> QED
      BY <1>1, <3>1 DEF KeepsOthers, KeepsPlaces, Procs
  <2>2. CASE alarm[t] = "fired"
    BY <2>1, <2>2
  <2>3. CASE alarm[t] # "fired"
    <3>1. alarm[t] = "pending"
      BY <1>1, <2>3 DEF KeepsOthers, KeepsThreads
    <3>2. ~WakeStep(p)
      BY <2>3, WakeThread
    <3>3. ~(p \in Threads /\ (Call(p) \/ ThreadStep(p)))
      <4> SUFFICES ASSUME p \in Threads, Call(p) \/ ThreadStep(p) PROVE FALSE
        OBVIOUS
      <4>1. alarm' = alarm \/ \E e : alarm' = [alarm EXCEPT ![p] = e]
        BY DEF Call, CallExit, CallLock, CallTryLock, CallUnlock, CallWait, CallNotify,
           CallSetPriority, ThreadStep, LockTake, LockContend, Inherit, InheritNothing,
           InheritRaise, InheritRetry, OwnerWait, Raise, Enqueue, Switch, Resume, TryLock,
           TryList, Unlock, UnlockList, WaitTest, WaitRelease, WaitList, WaitRelock,
           WaitRestore, Exit, ExitUnlock, ExitDone, Update, ResetLock, ResetPriority
      <4> QED
        BY <1>1, <2>3, <4>1 DEF Sound, TypeOK
    <3>4. PICK u \in Threads : AlarmExpires(u)
      BY <3>2, <3>3 DEF Acts
    <3>5. u = t
      BY <2>3, <3>4 DEF AlarmExpires, Sound, TypeOK
    <3> QED
      BY <3>4, <3>5
  <2> QED
    BY <2>2, <2>3
<1>2. CASE t = p
  <2>0. ThreadOK(t) /\ t \in Procs /\ t # Timer /\ alarm \in [Threads -> {"none", "pending", "fired"}]
    BY ThreadHere, ThreadKnown, MonitorAssumption DEF Sound, TypeOK
  <2>1. CASE \E m \in Monitors : CallWait(t, m)
    <3>1. PICK m \in Monitors : CallWait(t, m)
      BY <2>1
    <3>2. pc[t] = "thread"
      BY <3>1 DEF CallWait
    <3>3. alarm[t] = "none"
      BY <2>0, <3>2 DEF ThreadOK, WaitOK
    <3>4. alarm'[t] # "fired"
      BY <2>0, <3>1, <3>3 DEF CallWait
    <3> QED
      BY <3>4
  <2>2. CASE ~(\E m \in Monitors : CallWait(t, m))
    <3>1. CASE WakeStep(t)
      BY <2>0, <2>2, <3>1, WakeThread
    <3>2. CASE WaitRestore(t)
      <4>1. alarm'[t] = "none"
        BY <2>0, <3>2 DEF WaitRestore
      <4> QED
        BY <4>1
    <3>3. CASE ~WakeStep(t) /\ ~WaitRestore(t)
      <4>1. Call(t) \/ ThreadStep(t)
        BY <1>2, <2>0, <3>3 DEF Acts
      <4>2. alarm' = alarm
        BY <2>2, <3>3, <4>1 DEF Call, CallExit, CallLock, CallTryLock, CallUnlock, CallNotify,
           CallSetPriority, ThreadStep, LockTake, LockContend, Inherit, InheritNothing,
           InheritRaise, InheritRetry, OwnerWait, Raise, Enqueue, Switch, Resume, TryLock,
           TryList, Unlock, UnlockList, WaitTest, WaitRelease, WaitList, WaitRelock,
           Exit, ExitUnlock, ExitDone, Update, ResetLock, ResetPriority
      <4> QED
        BY <2>2, <4>2
    <3> QED
      BY <3>1, <3>2, <3>3
  <2> QED
    BY <2>1, <2>2
<1> QED
  BY <1>1, <1>2

LEMMA AlarmsStep ==
  ASSUME Cores = 1, Sound, QueuesExact, OneInKernel, AlarmsOK, Next
  PROVE  AlarmsOK'
<1>1. PICK p \in Procs : Acts(p) /\ KeepsOthers(p)
  BY OneActs
<1> SUFFICES ASSUME NEW t \in Threads, alarm'[t] = "fired", Entering(t)' PROVE FALSE
  BY DEF AlarmsOK
<1>2. CASE AlarmExpires(t)
  <2>1. pc[t] \in {"thread", "waiting", "dead"} /\ t \in Procs /\ t # Timer
    BY <1>2, FreeIsEmpty, MonitorAssumption DEF AlarmExpires, InKernel, Procs
  <2>2. pc'[t] = pc[t]
    BY <1>2, <2>1 DEF AlarmExpires, Sound, TypeOK
  <2> QED
    BY <2>1, <2>2 DEF Entering, WaitsLocked
<1>3. CASE alarm[t] = "fired" /\ \A m \in Monitors : ~CallWait(t, m)
  <2>1. ~Entering(t)
    BY <1>3 DEF AlarmsOK
  <2>2. t = p
    BY <1>1, <2>1, OthersEntering
  <2>3. t # Timer
    BY MonitorAssumption
  <2> QED
    BY <1>1, <1>3, <2>1, <2>2, <2>3, EnteringBegins DEF Acts
<1> QED
  BY <1>1, <1>2, <1>3, AlarmSet
(* and by then the alarm's callback finds the thread.                        *)
LEMMA TimeoutStep ==
  ASSUME Sound, QueuesExact, AlarmsOK, TimeoutWakes, Next
  PROVE  TimeoutWakes'
<1>1. PICK p \in Procs : Acts(p) /\ KeepsOthers(p)
  BY OneActs
<1>2. TypeOK' /\ QueuesExact'
  BY TypesStep, QueuesStep, SoundIs
<1> SUFFICES ASSUME NEW t \in Threads, NEW m \in Monitors, alarm'[t] = "fired",
                    Contains(queue'[CvPoint(m)], t)
             PROVE  \E q \in Procs : WakingAt(q, CvPoint(m))'
  BY DEF TimeoutWakes
<1>3. CvPoint(m) \in Points /\ CvPoint(m) \in CvPoints /\ CvPoint(m)[2] = m
  BY PointFacts
<1>4. state'[t] = "WAITING" /\ rendezvous'[t] = CvPoint(m)
  BY <1>2, <1>3 DEF QueuesExact
<1>5. CASE AlarmExpires(t)
  <2>1. state[t] = "WAITING" /\ rendezvous[t] = CvPoint(m)
    BY <1>4, <1>5 DEF AlarmExpires
  <2>2. pt[t] = CvPoint(m)
    BY <2>1, ThreadHere DEF ThreadOK, StateOK
  <2>3. Timer \in Procs /\ pc'[Timer] = "wakeup" /\ pt'[Timer] = CvPoint(m)
    BY <1>3, <1>5, <2>2 DEF AlarmExpires, Procs, Sound, TypeOK
  <2> QED
    BY <2>3 DEF WakingAt
<1>6. CASE alarm[t] = "fired"
  <2>1. CASE state[t] = "WAITING" /\ rendezvous[t] = CvPoint(m)
    <3>1. Contains(queue[CvPoint(m)], t)
      BY <1>3, <2>1 DEF QueuesExact
    <3>2. PICK q \in Procs : WakingAt(q, CvPoint(m))
      BY <1>6, <3>1 DEF TimeoutWakes
    <3>3. queue[CvPoint(m)] # <<>>
      BY <3>1 DEF Contains
    <3> QED
      BY <1>3, <3>2, <3>3, WakingKept
  <2>2. CASE ~(state[t] = "WAITING" /\ rendezvous[t] = CvPoint(m))
    <3>1. t = p
      BY <1>1, <1>4, <2>2 DEF KeepsOthers, KeepsThreads
    <3>2. ~WakeStep(t) /\ t # Timer
      BY <1>4, <2>2, <3>1, WakeThread, MonitorAssumption
    <3>3. Enqueue(t)
      BY <1>1, <1>4, <2>2, <3>1, <3>2 DEF Acts, Call, CallExit, CallLock, CallTryLock,
         CallUnlock, CallWait, CallNotify, CallSetPriority, ThreadStep, LockTake, LockContend,
         Inherit, InheritNothing, InheritRaise, InheritRetry, OwnerWait, Raise, Switch, Resume,
         TryLock, TryList, Unlock, UnlockList, WaitTest, WaitRelease, WaitList, WaitRelock,
         WaitRestore, Exit, ExitUnlock, ExitDone, Update, ResetLock, ResetPriority, Sound, TypeOK
    <3>4. pc[t] = "enqueue" /\ pt[t] = CvPoint(m)
      BY <1>4, <3>3 DEF Enqueue, Sound, TypeOK
    <3>5. Entering(t)
      BY <1>3, <3>4 DEF Entering
    <3> QED
      BY <1>6, <3>5 DEF AlarmsOK
  <2> QED
    BY <2>1, <2>2
<1> QED
  BY <1>1, <1>5, <1>6, AlarmSet

LEMMA UpInvInit ==
  ASSUME Init
  PROVE  UpInv
<1>1. \A p \in Procs : pc[p] = "thread"
  BY DEF Init
<1>2. \A t \in Threads : pc[t] = "thread" /\ alarm[t] = "none"
  BY <1>1 DEF Init, Procs
<1> QED
  BY <1>1, <1>2, IndInvInit DEF UpInv, OneInKernel, InKernel, GivenUp, AlarmsOK, TimeoutWakes,
     OwnUpdates

LEMMA UpInvStep ==
  ASSUME Cores = 1, UpInv, [Next]_vars
  PROVE  UpInv'
<1>1. IndInv'
  BY IndInvStep DEF UpInv
<1>2. CASE Next
  <2>1. Sound /\ QueuesExact /\ OneInKernel /\ GivenUp /\ AlarmsOK /\ TimeoutWakes /\ OwnUpdates
    BY IndInvIs DEF UpInv
  <2>2. OneInKernel'
    BY <1>2, <2>1, OneActs, OneInKernelStep DEF KeepsOthers
  <2>3. GivenUp' /\ AlarmsOK' /\ TimeoutWakes' /\ OwnUpdates'
    BY <1>2, <2>1, GivenUpStep, AlarmsStep, TimeoutStep, OwnUpdatesStep
  <2> QED
    BY <1>1, <2>2, <2>3 DEF UpInv
<1>3. CASE UNCHANGED vars
  BY <1>1, <1>3 DEF UpInv, vars, OneInKernel, InKernel, GivenUp, AlarmsOK, Entering,
     WaitsLocked, TimeoutWakes, WakingAt, OwnUpdates
<1> QED
  BY <1>2, <1>3

(* With one core a thread in condWait() is not interrupted, nor does the     *)
(* timer's callback come in between.                                         *)
THEOREM MonitorOneCore ==
  ASSUME Cores = 1
  PROVE  Spec => []UpInv
<1>1. Init => UpInv
  BY UpInvInit
<1>2. UpInv /\ [Next]_vars => UpInv'
  BY UpInvStep
<1> QED
  BY <1>1, <1>2, PTL DEF Spec

(* A monitor, whose one link condWait() takes off the list only after it has *)
(* given the monitor up, is on one list at most.                             *)
THEOREM MonitorListedOnce ==
  ASSUME Cores = 1
  PROVE  Spec => []ListedOnce
<1>1. UpInv => ListedOnce
  <2> SUFFICES ASSUME UpInv, NEW t \in Threads, NEW u \in Threads, NEW m \in Monitors,
                      Contains(monitorList[t], m), Contains(monitorList[u], m)
               PROVE  t = u
    BY DEF ListedOnce
  <2>1. Sound /\ OneInKernel /\ GivenUp
    BY IndInvIs DEF UpInv
  <2>2. ASSUME NEW v \in Threads, Contains(monitorList[v], m)
        PROVE  \/ owner[m] = v
               \/ pc[v] = "waitList" /\ pt[v][2] = m
    <3>1. m \in ToSet(monitorList[v])
      BY <2>1, <2>2, ThreadKnown, ListElements DEF Contains
    <3>2. ListOK(v)
      BY <2>1, ThreadHere DEF ThreadOK
    <3> QED
      BY <3>1, <3>2 DEF ListOK
  <2>3. CASE pc[t] = "waitList" /\ pc[u] = "waitList"
    BY <2>1, <2>3 DEF OneInKernel, InKernel, Procs
  <2>4. CASE owner[m] = t \/ owner[m] = u
    <3>1. owner[m] # None
      BY <2>1, <2>4, ThreadKnown
    <3>2. owner[m] = t /\ owner[m] = u
      BY <2>1, <2>2, <3>1 DEF GivenUp
    <3> QED
      BY <3>2
  <2> QED
    BY <2>2, <2>3, <2>4
<1> QED
  BY <1>1, MonitorOneCore, PTL

(* A thread whose timed wait is over is off the queue of the condition       *)
(* variable, or about to be taken off it.                                    *)
THEOREM MonitorTimeoutWakes ==
  ASSUME Cores = 1
  PROVE  Spec => []TimeoutWakes
<1>1. UpInv => TimeoutWakes
  BY DEF UpInv
<1> QED
  BY <1>1, MonitorOneCore, PTL

(* Thread::setEffectivePriority() finds an owner to propagate a priority to, *)
(* as it asserts.                                                            *)
LEMMA PropagatesUp ==
  ASSUME UpInv, NEW p \in Procs, NEW u \in Threads, Propagates(p, u), monitor[u] # None
  PROVE  owner[monitor[u]] # None
<1>1. Sound /\ QueuesExact /\ NobodyForgotten /\ OneInKernel /\ OwnUpdates
  BY IndInvIs DEF UpInv
<1>2. PICK n \in Monitors : n = monitor[u]
  BY <1>1 DEF Sound, TypeOK
<1>3. state[u] = "WAITING" /\ Free(rlock[rendezvous[u]])
  BY DEF Propagates
<1>4. rendezvous[u] = LockPoint(n) /\ pc[u] \in {"switch", "waiting"}
  BY <1>1, <1>2, <1>3, ThreadHere DEF ThreadOK, StateOK
<1>5. queue[LockPoint(n)] # <<>>
  <2>1. Contains(queue[LockPoint(n)], u)
    BY <1>1, <1>3, <1>4, PointFacts DEF QueuesExact
  <2> QED
    BY <2>1 DEF Contains
<1> SUFFICES ASSUME owner[n] = None PROVE FALSE
  BY <1>2
<1>6. PICK q \in Procs : WakingAt(q, LockPoint(n))
  BY <1>1, <1>5 DEF NobodyForgotten
<1>7. p = q
  <2>1. InKernel(p) /\ InKernel(q)
    BY <1>6 DEF Propagates, WakingAt, InKernel
  <2> QED
    BY <1>1, <2>1 DEF OneInKernel
<1>8. pc[p] = "reset" /\ u = who[p] /\ ret[p] \in {"wake", "wakeup"} /\ pt[p] = LockPoint(n)
  BY <1>6, <1>7 DEF Propagates, WakingAt
<1>9. CASE ret[p] = "wake"
  <2>1. rlock[LockPoint(n)] = p
    BY <1>1, <1>8, <1>9, PointFacts DEF Sound, ActorOK, PointsHeldBy, HoldsPoint, WorksLocked
  <2> QED
    BY <1>3, <1>4, <2>1, PointFacts
<1>10. CASE ret[p] = "wakeup"
  <2>1. p \in Threads
    BY <1>1, <1>8 DEF Sound, TimerOK, Procs
  <2>2. u = p
    BY <1>1, <1>8, <1>10, <2>1 DEF OwnUpdates
  <2> QED
    BY <1>4, <1>8, <2>2
<1> QED
  BY <1>8, <1>9, <1>10

THEOREM MonitorPropagatesToOwner ==
  ASSUME Cores = 1
  PROVE  Spec => []PropagatesToOwner
<1>1. UpInv => PropagatesToOwner
  BY PropagatesUp DEF PropagatesToOwner
<1> QED
  BY <1>1, MonitorOneCore, PTL

=============================================================================

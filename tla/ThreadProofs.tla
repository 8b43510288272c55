---------------------------- MODULE ThreadProofs ----------------------------
(***************************************************************************)
(* First Dispatch, for any number of threads, cores and priorities: its    *)
(* types, the agreement of locks, queues and states, that no thread is on  *)
(* two cores, that no wake-up is lost, and that it implements ThreadLife.  *)
(*                                                                         *)
(* Then ThreadControl on a uniprocessor, for any number of threads and     *)
(* priorities and whatever calls are made: a thread that executes a call   *)
(* of its own is RUNNING, no lock is ever found taken, the queues agree    *)
(* with the states and no wake-up is lost; and, unless threads are         *)
(* cancelled, the thread of the highest priority runs and join() finds the *)
(* exit value.  With interrupts disabled a kernel call of the only core is *)
(* one piece, so the place at which the core is tells which locks are held *)
(* and for which thread.                                                   *)
(***************************************************************************)
EXTENDS ThreadControl, ListLemmas

-----------------------------------------------------------------------------
(* The two kinds of queues. *)

(* The first of a run queue whose bit is set is a runnable thread.           *)
LEMMA RunQueueHead ==
  ASSUME FieldsOK, RunQueueExact, NEW p \in runQueueBits
  PROVE  /\ p \in Prios
         /\ runQueue[p] # <<>>
         /\ Head(runQueue[p]) \in Threads
         /\ Head(runQueue[p]) = runQueue[p][1]
         /\ state[Head(runQueue[p])] = "RUNNABLE"
         /\ prio[Head(runQueue[p])] = p
<1>1. p \in Prios /\ runQueue[p] \in Seq(Threads) /\ runQueue[p] # <<>>
  BY DEF FieldsOK, RunQueueExact
<1>2. 1 \in 1 .. Len(runQueue[p]) /\ Head(runQueue[p]) = runQueue[p][1]
      /\ Head(runQueue[p]) \in Threads
  BY <1>1
<1> QED
  BY <1>1, <1>2 DEF RunQueueExact

(* The first of a wait queue is a thread that waits there.                   *)
LEMMA WaitQueueHead ==
  ASSUME FieldsOK, WaitQueueExact, NEW r \in Points, queue[r] # <<>>
  PROVE  /\ Head(queue[r]) \in Threads
         /\ Head(queue[r]) = queue[r][1]
         /\ state[Head(queue[r])] = "WAITING"
         /\ rendezvous[Head(queue[r])] = r
<1>1. queue[r] \in Seq(Threads)
  BY DEF FieldsOK
<1>2. 1 \in 1 .. Len(queue[r]) /\ Head(queue[r]) = queue[r][1] /\ Head(queue[r]) \in Threads
  BY <1>1
<1> QED
  BY <1>2 DEF WaitQueueExact

(* A step that makes no thread runnable, or not so, leaves the run queue     *)
(* exact if it leaves it alone.                                              *)
LEMMA RunQueueFrame ==
  ASSUME FieldsOK, RunQueueExact, UNCHANGED <<prio, runQueue, runQueueBits>>,
         \A t \in Threads : state'[t] = "RUNNABLE" <=> state[t] = "RUNNABLE"
  PROVE  RunQueueExact'
<1>1. ASSUME NEW p \in Prios, NEW i \in 1 .. Len(runQueue[p])
      PROVE  runQueue[p][i] \in Threads
  BY DEF FieldsOK
<1> QED
  BY <1>1 DEF RunQueueExact, Queued

(* Likewise for the wait queues.                                             *)
LEMMA WaitQueueFrame ==
  ASSUME FieldsOK, WaitQueueExact, UNCHANGED <<prio, queue, rendezvous>>,
         \A t \in Threads : state'[t] = "WAITING" <=> state[t] = "WAITING"
  PROVE  WaitQueueExact'
<1>1. ASSUME NEW r \in Points, NEW i \in 1 .. Len(queue[r])
      PROVE  queue[r][i] \in Threads
  BY DEF FieldsOK
<1> QED
  BY <1>1 DEF WaitQueueExact

(* Sched::setRun() of a thread that is not runnable.                         *)
LEMMA SetRunKeeps ==
  ASSUME FieldsOK, RunQueueExact, NEW t \in Threads, state[t] # "RUNNABLE",
         SetRun(t), UNCHANGED prio
  PROVE  /\ RunQueueExact'
         /\ runQueue' \in [Prios -> Seq(Threads)]
         /\ runQueueBits' \subseteq Prios
         /\ runQueueHint' \in BOOLEAN
<1> DEFINE p0 == prio[t]
           q0 == runQueue[p0]
           q1 == Append(q0, t)
<1>1. p0 \in Prios /\ q0 \in Seq(Threads)
  BY DEF FieldsOK
<1>2. /\ q1 \in Seq(Threads)
      /\ q1 # <<>>
      /\ Len(q1) = Len(q0) + 1
      /\ \A i \in 1 .. Len(q0) : q1[i] = q0[i]
      /\ q1[Len(q0) + 1] = t
  BY <1>1, AppendProperties
<1>3. /\ runQueue'[p0] = q1
      /\ \A p \in Prios \ {p0} : runQueue'[p] = runQueue[p]
      /\ runQueue' \in [Prios -> Seq(Threads)]
  BY <1>1, <1>2 DEF SetRun, FieldsOK, FieldsOK
<1>4. /\ state'[t] = "RUNNABLE"
      /\ \A u \in Threads \ {t} : state'[u] = state[u]
  BY DEF SetRun, SetState, FieldsOK, FieldsOK
<1>5. \A p \in Prios : \A i \in 1 .. Len(runQueue[p]) :
         runQueue[p][i] \in Threads \ {t}
  BY DEF RunQueueExact, FieldsOK, FieldsOK
<1>6. \A p \in Prios : p \in runQueueBits' <=> runQueue'[p] # <<>>
  BY <1>1, <1>2, <1>3 DEF SetRun, RunQueueExact
<1> HIDE DEF q1
<1>7. ASSUME NEW p \in Prios, NEW i \in 1 .. Len(runQueue'[p])
      PROVE  /\ state'[runQueue'[p][i]] = "RUNNABLE"
             /\ prio'[runQueue'[p][i]] = p
             /\ \A j \in 1 .. Len(runQueue'[p]) :
                   runQueue'[p][i] = runQueue'[p][j] => i = j
  <2>1. CASE p # p0
    BY <2>1, <1>3, <1>4, <1>5 DEF RunQueueExact
  <2>2. CASE p = p0
    <3>1. i \in 1 .. Len(q0) \/ i = Len(q0) + 1
      BY <2>2, <1>1, <1>2, <1>3
    <3>2. \A j \in 1 .. Len(runQueue'[p]) : j \in 1 .. Len(q0) \/ j = Len(q0) + 1
      BY <2>2, <1>1, <1>2, <1>3
    <3>3. \A j \in 1 .. Len(q0) :
            /\ q1[j] = q0[j]
            /\ q0[j] \in Threads \ {t}
            /\ state[q0[j]] = "RUNNABLE"
            /\ prio[q0[j]] = p0
      BY <1>1, <1>2, <1>5 DEF RunQueueExact
    <3>4. \A j, k \in 1 .. Len(q0) : q0[j] = q0[k] => j = k
      BY <1>1 DEF RunQueueExact
    <3>5. runQueue'[p] = q1 /\ prio[t] = p /\ q1[Len(q0) + 1] = t /\ p0 = p
      BY <2>2, <1>2, <1>3
    <3> HIDE DEF q0, p0
    <3>6. CASE i \in 1 .. Len(q0)
      <4>1. q1[i] = q0[i] /\ q0[i] \in Threads \ {t} /\ prio[q0[i]] = p
            /\ state'[q0[i]] = "RUNNABLE"
        BY <3>3, <3>5, <3>6, <1>4
      <4>2. ASSUME NEW j \in 1 .. Len(runQueue'[p]), q1[i] = q1[j] PROVE i = j
        <5>1. CASE j \in 1 .. Len(q0)
          BY <3>3, <3>4, <3>6, <4>2, <5>1
        <5>2. CASE j = Len(q0) + 1
          BY <3>5, <4>1, <4>2, <5>2
        <5> QED
          BY <3>2, <5>1, <5>2
      <4> QED
        BY <3>5, <4>1, <4>2
    <3>7. CASE i = Len(q0) + 1
      <4>1. ASSUME NEW j \in 1 .. Len(runQueue'[p]), q1[i] = q1[j] PROVE i = j
        <5>1. CASE j \in 1 .. Len(q0)
          BY <3>3, <3>5, <3>7, <4>1, <5>1
        <5> QED
          BY <3>2, <3>7, <5>1
      <4> QED
        BY <3>5, <3>7, <4>1, <1>4
    <3> QED
      BY <3>1, <3>6, <3>7
  <2> QED
    BY <2>1, <2>2
<1>8. ASSUME NEW u \in Threads, state'[u] = "RUNNABLE" PROVE Queued(u)'
  <2>1. CASE u = t
    <3>1. Len(q0) + 1 \in 1 .. Len(q1) /\ q1[Len(q0) + 1] = t
      BY <1>1, <1>2
    <3> QED
      BY <2>1, <3>1, <1>3 DEF Queued
  <2>2. CASE u # t
    <3>1. PICK i \in 1 .. Len(runQueue[prio[u]]) : runQueue[prio[u]][i] = u
      BY <1>4, <1>8, <2>2 DEF RunQueueExact, Queued
    <3>2. prio[u] \in Prios
      BY DEF FieldsOK
    <3>3. CASE prio[u] = p0
      <4>1. i \in 1 .. Len(q1) /\ q1[i] = u
        BY <3>1, <3>3, <1>1, <1>2
      <4> QED
        BY <3>3, <4>1, <1>3 DEF Queued
    <3>4. CASE prio[u] # p0
      BY <3>1, <3>2, <3>4, <1>3 DEF Queued
    <3> QED
      BY <3>3, <3>4
  <2> QED
    BY <2>1, <2>2
<1>9. runQueueBits' \subseteq Prios /\ runQueueHint' \in BOOLEAN
  BY <1>1 DEF SetRun, FieldsOK, FieldsOK
<1> QED
  BY <1>3, <1>6, <1>7, <1>8, <1>9, Zenon DEF RunQueueExact

(* Sched::selectThread() takes the first of a queue and makes it RUNNING.    *)
LEMMA SelectKeeps ==
  ASSUME FieldsOK, RunQueueExact, UNCHANGED prio, NEW p0 \in runQueueBits,
         runQueue' = [runQueue EXCEPT ![p0] = Tail(runQueue[p0])],
         runQueueBits' = IF Tail(runQueue[p0]) = <<>> THEN runQueueBits \ {p0}
                                                      ELSE runQueueBits,
         SetState(Head(runQueue[p0]), "RUNNING")
  PROVE  /\ RunQueueExact'
         /\ runQueue' \in [Prios -> Seq(Threads)]
         /\ runQueueBits' \subseteq Prios
<1> DEFINE q0 == runQueue[p0]
           q1 == Tail(q0)
           t == Head(q0)
<1>1. /\ p0 \in Prios
      /\ q0 \in Seq(Threads)
      /\ q0 # <<>>
      /\ t \in Threads
      /\ t = q0[1]
      /\ state[t] = "RUNNABLE"
      /\ prio[t] = p0
  BY RunQueueHead DEF FieldsOK
<1>2. /\ q1 \in Seq(Threads)
      /\ Len(q1) = Len(q0) - 1
      /\ \A i \in 1 .. Len(q1) : q1[i] = q0[i + 1]
  BY <1>1, HeadTailProperties
<1>3. /\ runQueue'[p0] = q1
      /\ \A p \in Prios \ {p0} : runQueue'[p] = runQueue[p]
      /\ runQueue' \in [Prios -> Seq(Threads)]
  BY <1>1, <1>2 DEF FieldsOK
<1>4. \A u \in Threads \ {t} : state'[u] = state[u]
  BY DEF SetState, FieldsOK, FieldsOK
<1>5. \A p \in Prios : p \in runQueueBits' <=> runQueue'[p] # <<>>
  BY <1>1, <1>3 DEF RunQueueExact
<1>6. runQueueBits' \subseteq Prios
  BY DEF FieldsOK
<1>7. \A i \in 1 .. Len(q1) : i + 1 \in 1 .. Len(q0) /\ q0[i + 1] # t /\ q0[i + 1] \in Threads
  BY <1>1, <1>2 DEF RunQueueExact
<1> HIDE DEF q1, t
<1>8. ASSUME NEW p \in Prios, NEW i \in 1 .. Len(runQueue'[p])
      PROVE  /\ state'[runQueue'[p][i]] = "RUNNABLE"
             /\ prio'[runQueue'[p][i]] = p
             /\ \A j \in 1 .. Len(runQueue'[p]) :
                   runQueue'[p][i] = runQueue'[p][j] => i = j
  <2>1. CASE p # p0
    <3>1. runQueue[p][i] \in Threads \ {t}
      BY <2>1, <1>1, <1>3 DEF RunQueueExact, FieldsOK, FieldsOK
    <3> QED
      BY <2>1, <3>1, <1>3, <1>4 DEF RunQueueExact
  <2>2. CASE p = p0
    <3>1. i \in 1 .. Len(q1) /\ q1[i] = q0[i + 1] /\ i + 1 \in 1 .. Len(q0)
          /\ q0[i + 1] \in Threads \ {t}
      BY <2>2, <1>2, <1>3, <1>7
    <3>2. \A j \in 1 .. Len(q1) : q1[j] = q0[j + 1] /\ j + 1 \in 1 .. Len(q0)
      BY <1>2, <1>7
    <3>3. state[q0[i + 1]] = "RUNNABLE" /\ prio[q0[i + 1]] = p
          /\ \A j \in 1 .. Len(q1) : q0[i + 1] = q0[j + 1] => i + 1 = j + 1
      BY <2>2, <3>1, <3>2 DEF RunQueueExact
    <3> QED
      BY <2>2, <3>1, <3>2, <3>3, <1>2, <1>3, <1>4
  <2> QED
    BY <2>1, <2>2
<1>9. ASSUME NEW u \in Threads, state'[u] = "RUNNABLE" PROVE Queued(u)'
  <2>1. u # t /\ state[u] = "RUNNABLE"
    BY <1>1, <1>4, <1>9 DEF SetState, FieldsOK, FieldsOK, t
  <2>2. PICK i \in 1 .. Len(runQueue[prio[u]]) : runQueue[prio[u]][i] = u
    BY <2>1 DEF RunQueueExact, Queued
  <2>3. prio[u] \in Prios
    BY DEF FieldsOK
  <2>4. CASE prio[u] # p0
    BY <2>2, <2>3, <2>4, <1>3 DEF Queued
  <2>5. CASE prio[u] = p0
    <3>1. i # 1
      BY <2>1, <2>2, <2>5, <1>1
    <3>2. i - 1 \in 1 .. Len(q1) /\ q1[i - 1] = q0[(i - 1) + 1] /\ (i - 1) + 1 = i
      BY <2>2, <2>5, <3>1, <1>1, <1>2
    <3>3. i - 1 \in 1 .. Len(runQueue'[prio[u]]) /\ runQueue'[prio[u]][i - 1] = u
      BY <2>2, <2>5, <3>2, <1>3
    <3> QED
      BY <3>3 DEF Queued
  <2> QED
    BY <2>4, <2>5
<1> QED
  BY <1>3, <1>5, <1>6, <1>8, <1>9, Zenon DEF RunQueueExact

(* WakeFirst() takes the first of a wait queue. *)
LEMMA WakeFirstKeeps ==
  ASSUME FieldsOK, WaitQueueExact, UNCHANGED prio, NEW r0 \in Points, queue[r0] # <<>>,
         queue' = [queue EXCEPT ![r0] = Tail(queue[r0])],
         rendezvous' = [rendezvous EXCEPT ![Head(queue[r0])] = NoPoint],
         SetState(Head(queue[r0]), "RUNNABLE")
  PROVE  WaitQueueExact' /\ queue' \in [Points -> Seq(Threads)]
<1> DEFINE q0 == queue[r0]
           q1 == Tail(q0)
           t == Head(q0)
<1>1. q0 \in Seq(Threads) /\ t \in Threads /\ t = q0[1] /\ state[t] = "WAITING"
      /\ rendezvous[t] = r0
  BY WaitQueueHead DEF FieldsOK
<1>2. /\ q1 \in Seq(Threads)
      /\ Len(q1) = Len(q0) - 1
      /\ \A i \in 1 .. Len(q1) : q1[i] = q0[i + 1]
  BY <1>1, HeadTailProperties
<1>3. /\ queue'[r0] = q1
      /\ \A r \in Points \ {r0} : queue'[r] = queue[r]
      /\ queue' \in [Points -> Seq(Threads)]
  BY <1>1, <1>2 DEF FieldsOK
<1>4. \A u \in Threads \ {t} : state'[u] = state[u] /\ rendezvous'[u] = rendezvous[u]
  BY DEF SetState, FieldsOK, FieldsOK
<1>5. state'[t] = "RUNNABLE"
  BY <1>1 DEF SetState, FieldsOK, FieldsOK
<1>6. \A i \in 1 .. Len(q1) : i + 1 \in 1 .. Len(q0) /\ q0[i + 1] \in Threads \ {t}
  BY <1>1, <1>2 DEF WaitQueueExact
<1> HIDE DEF q1, t
<1>7. ASSUME NEW r \in Points, NEW i \in 1 .. Len(queue'[r])
      PROVE  /\ state'[queue'[r][i]] = "WAITING"
             /\ rendezvous'[queue'[r][i]] = r
             /\ \A j \in 1 .. Len(queue'[r]) :
                   /\ queue'[r][i] = queue'[r][j] => i = j
                   /\ i < j => prio'[queue'[r][i]] >= prio'[queue'[r][j]]
  <2>1. CASE r # r0
    <3>1. queue[r][i] \in Threads \ {t}
      BY <2>1, <1>1, <1>3 DEF WaitQueueExact, FieldsOK, FieldsOK
    <3> QED
      BY <2>1, <3>1, <1>3, <1>4 DEF WaitQueueExact
  <2>2. CASE r = r0
    <3>1. i \in 1 .. Len(q1) /\ q1[i] = q0[i + 1] /\ i + 1 \in 1 .. Len(q0)
          /\ q0[i + 1] \in Threads \ {t}
      BY <2>2, <1>2, <1>3, <1>6
    <3>2. \A j \in 1 .. Len(q1) : q1[j] = q0[j + 1] /\ j + 1 \in 1 .. Len(q0)
      BY <1>2, <1>6
    <3>3. state[q0[i + 1]] = "WAITING" /\ rendezvous[q0[i + 1]] = r
          /\ \A j \in 1 .. Len(q1) :
                /\ q0[i + 1] = q0[j + 1] => i + 1 = j + 1
                /\ i + 1 < j + 1 => prio[q0[i + 1]] >= prio[q0[j + 1]]
      BY <2>2, <3>1, <3>2 DEF WaitQueueExact
    <3>4. \A j \in 1 .. Len(q1) : (i + 1 = j + 1 => i = j) /\ (i < j => i + 1 < j + 1)
      BY <3>1
    <3> QED
      BY <2>2, <3>1, <3>2, <3>3, <3>4, <1>2, <1>3, <1>4
  <2> QED
    BY <2>1, <2>2
<1>8. ASSUME NEW u \in Threads, state'[u] = "WAITING"
      PROVE  /\ rendezvous'[u] \in Points
             /\ \E i \in 1 .. Len(queue'[rendezvous'[u]]) : queue'[rendezvous'[u]][i] = u
  <2>1. u # t /\ state[u] = "WAITING" /\ rendezvous'[u] = rendezvous[u]
    BY <1>4, <1>5, <1>8
  <2>2. rendezvous[u] \in Points
    BY <2>1 DEF WaitQueueExact
  <2>3. PICK i \in 1 .. Len(queue[rendezvous[u]]) : queue[rendezvous[u]][i] = u
    BY <2>1 DEF WaitQueueExact
  <2>4. CASE rendezvous[u] # r0
    BY <2>1, <2>2, <2>3, <2>4, <1>3
  <2>5. CASE rendezvous[u] = r0
    <3>1. i # 1
      BY <2>1, <2>3, <2>5, <1>1
    <3>2. i - 1 \in 1 .. Len(q1) /\ q1[i - 1] = q0[(i - 1) + 1] /\ (i - 1) + 1 = i
      BY <2>3, <2>5, <3>1, <1>1, <1>2
    <3> QED
      BY <2>1, <2>2, <2>3, <2>5, <3>2, <1>3
  <2> QED
    BY <2>4, <2>5
<1> QED
  BY <1>3, <1>7, <1>8, Zenon DEF WaitQueueExact

(* InsertPrio() inserts behind every thread of at least priority p and ahead *)
(* of the first of a lower one.                                              *)
LEMMA InsertPrioPlace ==
  ASSUME FieldsOK, NEW q \in Seq(Threads), NEW t \in Threads, NEW p \in Prios
  PROVE  \E k \in 1 .. Len(q) + 1 :
           /\ InsertPrio(q, t, p) = InsertAt(q, k, t)
           /\ \A i \in 1 .. Len(q) : i < k => prio[q[i]] >= p
           /\ k <= Len(q) => prio[q[k]] < p
<1> DEFINE lower == {i \in 1 .. Len(q) : prio[q[i]] < p}
<1>0. \A u \in Threads : prio[u] \in Nat
  BY PriosAssumption DEF FieldsOK
<1>1. \A i \in 1 .. Len(q) : q[i] \in Threads /\ prio[q[i]] \in Nat
  BY <1>0
<1>2. p \in Nat
  BY PriosAssumption
<1>3. CASE lower = {}
  <2>1. Len(q) + 1 \in 1 .. Len(q) + 1
    OBVIOUS
  <2>2. \A i \in 1 .. Len(q) : prio[q[i]] >= p
    BY <1>1, <1>2, <1>3
  <2>3. InsertPrio(q, t, p) = InsertAt(q, Len(q) + 1, t)
    BY <1>3 DEF InsertPrio
  <2> QED
    BY <2>1, <2>2, <2>3
<1>4. CASE lower # {}
  <2>1. lower \in SUBSET Nat
    OBVIOUS
  <2>2. Min(lower) \in lower /\ \A j \in lower : Min(lower) <= j
    BY <2>1, <1>4, MinOfNaturals
  <2>3. Min(lower) \in 1 .. Len(q) + 1 /\ prio[q[Min(lower)]] < p
    BY <2>2
  <2>4. ASSUME NEW i \in 1 .. Len(q), i < Min(lower) PROVE prio[q[i]] >= p
    <3>1. i \notin lower
      BY <2>2, <2>3, <2>4
    <3> QED
      BY <3>1, <1>1, <1>2
  <2>5. InsertPrio(q, t, p) = InsertAt(q, Min(lower), t)
    BY <1>4 DEF InsertPrio
  <2> QED
    BY <2>3, <2>4, <2>5
<1> QED
  BY <1>3, <1>4

(* So the rest keeps its order around the new thread. *)
LEMMA InsertPrioElements ==
  ASSUME FieldsOK, NEW q \in Seq(Threads), NEW t \in Threads, NEW p \in Prios
  PROVE  /\ InsertPrio(q, t, p) \in Seq(Threads)
         /\ Len(InsertPrio(q, t, p)) = Len(q) + 1
         /\ \E k \in 1 .. Len(q) + 1 :
              /\ \A i \in 1 .. Len(q) + 1 : InsertPrio(q, t, p)[i] =
                    IF i < k THEN q[i] ELSE IF i = k THEN t ELSE q[i - 1]
              /\ \A i \in 1 .. Len(q) : i < k => prio[q[i]] >= p
              /\ k <= Len(q) => prio[q[k]] < p
<1>1. PICK k \in 1 .. Len(q) + 1 :
         /\ InsertPrio(q, t, p) = InsertAt(q, k, t)
         /\ \A i \in 1 .. Len(q) : i < k => prio[q[i]] >= p
         /\ k <= Len(q) => prio[q[k]] < p
  BY InsertPrioPlace
<1>2. /\ InsertAt(q, k, t) \in Seq(Threads)
      /\ Len(InsertAt(q, k, t)) = Len(q) + 1
      /\ \A i \in 1 .. Len(q) + 1 : InsertAt(q, k, t)[i] =
            IF i < k THEN q[i] ELSE IF i = k THEN t ELSE q[i - 1]
  BY InsertAtElements
<1> QED
  BY <1>1, <1>2, Zenon

(* SleepEnqueue() puts a thread that does not wait yet on a wait queue.      *)
LEMMA SleepEnqueueKeeps ==
  ASSUME FieldsOK, WaitQueueExact, UNCHANGED prio, NEW r0 \in Points, NEW t \in Threads,
         state[t] # "WAITING",
         queue' = [queue EXCEPT ![r0] = InsertPrio(queue[r0], t, prio[t])],
         rendezvous' = [rendezvous EXCEPT ![t] = r0],
         SetState(t, "WAITING")
  PROVE  /\ WaitQueueExact'
         /\ queue' \in [Points -> Seq(Threads)]
         /\ queue'[r0] # <<>>
<1> DEFINE q0 == queue[r0]
           q1 == InsertPrio(q0, t, prio[t])
           old(i, k) == IF i < k THEN i ELSE i - 1
<1>1. q0 \in Seq(Threads) /\ prio[t] \in Prios
  BY DEF FieldsOK
<1>2. \A u \in Threads : prio[u] \in Nat
  BY PriosAssumption DEF FieldsOK
<1>3. q1 \in Seq(Threads) /\ Len(q1) = Len(q0) + 1
  BY <1>1, InsertPrioElements
<1>4. PICK k \in 1 .. Len(q0) + 1 :
        /\ \A i \in 1 .. Len(q0) + 1 :
              q1[i] = IF i < k THEN q0[i] ELSE IF i = k THEN t ELSE q0[i - 1]
        /\ \A i \in 1 .. Len(q0) : i < k => prio[q0[i]] >= prio[t]
        /\ k <= Len(q0) => prio[q0[k]] < prio[t]
  BY <1>1, InsertPrioElements
<1> HIDE DEF q1
<1>5. /\ q1[k] = t
      /\ k \in 1 .. Len(q1)
      /\ \A i \in 1 .. Len(q1) : i # k =>
            old(i, k) \in 1 .. Len(q0) /\ q1[i] = q0[old(i, k)]
      /\ \A i, j \in 1 .. Len(q1) : i # k /\ j # k =>
            (old(i, k) = old(j, k) => i = j) /\ (i < j => old(i, k) < old(j, k))
  BY <1>1, <1>3, <1>4
<1>6. /\ queue'[r0] = q1
      /\ \A r \in Points \ {r0} : queue'[r] = queue[r]
      /\ queue' \in [Points -> Seq(Threads)]
  BY <1>1, <1>3 DEF FieldsOK, q1
<1>7. /\ \A u \in Threads \ {t} : state'[u] = state[u] /\ rendezvous'[u] = rendezvous[u]
      /\ state'[t] = "WAITING"
      /\ rendezvous'[t] = r0
  BY DEF SetState, FieldsOK, FieldsOK
<1>8. \A r \in Points : \A i \in 1 .. Len(queue[r]) : queue[r][i] \in Threads \ {t}
  BY DEF WaitQueueExact, FieldsOK, FieldsOK
<1>9. ASSUME NEW i \in 1 .. Len(q0)
      PROVE  /\ q0[i] \in Threads \ {t}
             /\ state[q0[i]] = "WAITING"
             /\ rendezvous[q0[i]] = r0
             /\ \A j \in 1 .. Len(q0) :
                   (q0[i] = q0[j] => i = j) /\ (i < j => prio[q0[i]] >= prio[q0[j]])
  BY <1>8 DEF WaitQueueExact
<1>10. ASSUME NEW j \in 1 .. Len(q0), j >= k PROVE prio[t] > prio[q0[j]]
  <2>1. prio[t] \in Nat /\ prio[q0[j]] \in Nat
    BY <1>2, <1>9
  <2>2. CASE j = k
    BY <2>1, <2>2, <1>4
  <2>3. CASE j > k
    <3>1. k \in 1 .. Len(q0)
      BY <1>1, <2>3
    <3>2. prio[q0[k]] < prio[t] /\ prio[q0[k]] >= prio[q0[j]] /\ prio[q0[k]] \in Nat
      BY <3>1, <2>3, <1>2, <1>4, <1>9
    <3> QED
      BY <2>1, <3>2
  <2> QED
    BY <1>10, <2>2, <2>3
<1> HIDE DEF q0
<1>11. ASSUME NEW i \in 1 .. Len(q1)
       PROVE  /\ state'[q1[i]] = "WAITING"
              /\ rendezvous'[q1[i]] = r0
              /\ \A j \in 1 .. Len(q1) : q1[i] = q1[j] => i = j
  <2>1. CASE i = k
    <3>1. \A j \in 1 .. Len(q1) : j # k => q1[j] # t
      BY <1>5, <1>9
    <3> QED
      BY <2>1, <3>1, <1>5, <1>7
  <2>2. CASE i # k
    <3>1. q1[i] = q0[old(i, k)] /\ old(i, k) \in 1 .. Len(q0)
      BY <2>2, <1>5
    <3>2. q1[i] \in Threads \ {t} /\ state'[q1[i]] = "WAITING" /\ rendezvous'[q1[i]] = r0
      BY <3>1, <1>7, <1>9
    <3>3. ASSUME NEW j \in 1 .. Len(q1), q1[i] = q1[j] PROVE i = j
      <4>1. j # k /\ q1[j] = q0[old(j, k)] /\ old(j, k) \in 1 .. Len(q0)
        BY <3>2, <3>3, <1>5
      <4>2. old(i, k) = old(j, k)
        BY <3>1, <3>3, <4>1, <1>9
      <4> QED
        BY <2>2, <4>1, <4>2, <1>5
    <3> QED
      BY <3>2, <3>3
  <2> QED
    BY <2>1, <2>2
<1>12. ASSUME NEW i \in 1 .. Len(q1), NEW j \in 1 .. Len(q1), i < j
       PROVE  prio[q1[i]] >= prio[q1[j]]
  <2>1. CASE i = k
    <3>1. j # k /\ old(j, k) \in 1 .. Len(q0) /\ q1[j] = q0[old(j, k)] /\ old(j, k) >= k
      BY <2>1, <1>5, <1>12
    <3>2. prio[t] > prio[q1[j]] /\ prio[t] \in Nat /\ prio[q1[j]] \in Nat
      BY <3>1, <1>2, <1>9, <1>10
    <3> QED
      BY <2>1, <3>2, <1>5
  <2>2. CASE j = k
    <3>1. i # k /\ i < k /\ i \in 1 .. Len(q0) /\ q1[i] = q0[i]
      BY <2>2, <1>5, <1>12
    <3> QED
      BY <2>2, <3>1, <1>4, <1>5
  <2>3. CASE i # k /\ j # k
    <3>1. /\ old(i, k) \in 1 .. Len(q0) /\ q1[i] = q0[old(i, k)]
          /\ old(j, k) \in 1 .. Len(q0) /\ q1[j] = q0[old(j, k)]
          /\ old(i, k) < old(j, k)
      BY <2>3, <1>5, <1>12
    <3> QED
      BY <3>1, <1>9
  <2> QED
    BY <2>1, <2>2, <2>3
<1>13. ASSUME NEW r \in Points, NEW i \in 1 .. Len(queue'[r])
       PROVE  /\ state'[queue'[r][i]] = "WAITING"
              /\ rendezvous'[queue'[r][i]] = r
              /\ \A j \in 1 .. Len(queue'[r]) :
                    /\ queue'[r][i] = queue'[r][j] => i = j
                    /\ i < j => prio'[queue'[r][i]] >= prio'[queue'[r][j]]
  <2>1. CASE r = r0
    BY <2>1, <1>6, <1>11, <1>12
  <2>2. CASE r # r0
    <3>1. queue'[r] = queue[r] /\ queue[r][i] \in Threads \ {t}
      BY <2>2, <1>6, <1>8
    <3> QED
      BY <3>1, <1>7 DEF WaitQueueExact
  <2> QED
    BY <2>1, <2>2
<1>14. ASSUME NEW u \in Threads, state'[u] = "WAITING"
       PROVE  /\ rendezvous'[u] \in Points
              /\ \E i \in 1 .. Len(queue'[rendezvous'[u]]) : queue'[rendezvous'[u]][i] = u
  <2>1. CASE u = t
    BY <2>1, <1>5, <1>6, <1>7
  <2>2. CASE u # t
    <3>1. state[u] = "WAITING" /\ rendezvous'[u] = rendezvous[u]
      BY <2>2, <1>7, <1>14
    <3>2. rendezvous[u] \in Points
      BY <3>1 DEF WaitQueueExact
    <3>3. PICK i \in 1 .. Len(queue[rendezvous[u]]) : queue[rendezvous[u]][i] = u
      BY <3>1 DEF WaitQueueExact
    <3>4. CASE rendezvous[u] # r0
      BY <3>1, <3>2, <3>3, <3>4, <1>6
    <3>5. CASE rendezvous[u] = r0
      <4>1. i \in 1 .. Len(q0) /\ q0[i] = u
        BY <3>3, <3>5 DEF q0
      <4>2. \E j \in 1 .. Len(q1) : q1[j] = q0[i]
        <5>1. CASE i < k
          <6>1. i \in 1 .. Len(q1) /\ q1[i] = q0[i]
            BY <4>1, <5>1, <1>3, <1>4
          <6> QED
            BY <6>1
        <5>2. CASE i >= k
          <6>1. i + 1 \in 1 .. Len(q1) /\ q1[i + 1] = q0[(i + 1) - 1] /\ (i + 1) - 1 = i
            BY <4>1, <5>2, <1>3, <1>4
          <6> QED
            BY <6>1
        <5> QED
          BY <5>1, <5>2, <4>1
      <4> QED
        BY <3>1, <3>2, <3>5, <4>1, <4>2, <1>6
    <3> QED
      BY <3>4, <3>5
  <2> QED
    BY <2>1, <2>2
<1>15. queue'[r0] # <<>>
  BY <1>5, <1>6
<1> QED
  BY <1>6, <1>13, <1>14, <1>15, Zenon DEF WaitQueueExact

-----------------------------------------------------------------------------

(* Where a core is in the code of the thread it runs, and in wakeup().       *)
OwnCode == {"thread", "start", "startUnlock", "sleep", "enqueue", "exit"}
WakeCode == {"wakeup", "wake", "wakeUnlock", "wakeWait"}

Exiting(c) ==
    \/ pc[c] \in {"exitVal", "exitUnlock"}
    \/ pc[c] \in WakeCode /\ after[c] = "exitUnlock"

Handling(c) == pc[c] = "isr" \/ (pc[c] \in WakeCode /\ after[c] = "isr")

(* What each place in the code knows of the core's thread ...                *)
ThreadAt(c) ==
    /\ pc[c] \in OwnCode =>
          self[c] \in Threads /\ current[c] = self[c] /\ state[self[c]] = "RUNNING"
    /\ Exiting(c) =>
          self[c] \in Threads /\ current[c] = self[c] /\ state[self[c]] = "TERMINATED"
    /\ Handling(c) /\ self[c] \in Threads => state[self[c]] = "RUNNING"
    /\ pc[c] = "reschedule" => current[c] = self[c]
    /\ pc[c] = "switch" => self[c] \in Threads
    /\ pc[c] \in {"reschedule", "switch"} /\ self[c] \in Threads =>
          state[self[c]] \in {"RUNNING", "WAITING", "TERMINATED"}
    /\ pc[c] \in {"setRun", "selected"} =>
          self[c] \in Threads /\ state[self[c]] = "RUNNING"
    /\ pc[c] = "save" =>
          self[c] \in Threads /\ state[self[c]] \in {"RUNNABLE", "WAITING"}
    /\ pc[c] = "leave" =>
          self[c] \in Threads /\ state[self[c]] \in {"RUNNABLE", "WAITING", "TERMINATED"}
    /\ pc[c] = "select" => self[c] = NoThread

(* ... of its local variables ...                                            *)
LocalsAt(c) ==
    /\ pc[c] \in WakeCode \cup {"sleep", "enqueue"} => point[c] \in Points
    /\ pc[c] \in {"start", "startUnlock", "wakeUnlock", "wakeWait"} => peer[c] \in Threads
    /\ after[c] = "exitUnlock" => Exiting(c)
    /\ Exiting(c) /\ pc[c] # "exitVal" => after[c] = "exitUnlock"

(* ... and of the thread it starts or wakes: that thread is on no core.      *)
PeerAt(c) ==
    /\ pc[c] = "start" =>
          /\ state[peer[c]] = "NEW"
          /\ \A d \in Cores : pc[d] = "start" /\ peer[d] = peer[c] => d = c
    /\ pc[c] \in {"startUnlock", "wakeUnlock"} =>
          /\ state[peer[c]] = "RUNNABLE"
          /\ \A d \in Cores : self[d] # peer[c]

Places == \A c \in Cores : ThreadAt(c) /\ LocalsAt(c) /\ PeerAt(c)

(* A lock is held exactly by the core whose place in the code says so.       *)
Holds(c, t) ==
    \/ pc[c] \in {"startUnlock", "wakeUnlock"} /\ peer[c] = t
    \/ /\ self[c] = t
       /\ \/ Exiting(c)
          \/ pc[c] \in {"setRun", "save", "leave", "selected"}
          \/ pc[c] \in {"reschedule", "switch"} /\ state[t] = "WAITING"

HoldsPoint(c, r) == pc[c] \in {"enqueue", "wake", "wakeUnlock"} /\ point[c] = r

ThreadLocks == \A t \in Threads, c \in Cores : tlock[t] = c <=> Holds(c, t)
PointLocks == \A r \in Points, c \in Cores : rlock[r] = c <=> HoldsPoint(c, r)

(* Only its own thread ever waits at a sleep point, and a core in thread     *)
(* code works on no point.                                                   *)
OwnSleepPoint(r, t) == r \in Points /\ r[1] = "sleepPoint" => r[2] = t

SleepsAtOwnPoint ==
    /\ \A t \in Threads : OwnSleepPoint(label[t], t) /\ OwnSleepPoint(rendezvous[t], t)
    /\ \A c \in Cores :
          /\ pc[c] \in {"thread", "start", "startUnlock"} => point[c] = NoPoint
          /\ pc[c] = "reschedule" /\ self[c] \in Threads /\ state[self[c]] = "RUNNING" =>
                point[c] = NoPoint
          /\ pc[c] \in {"sleep", "enqueue", "reschedule"} => OwnSleepPoint(point[c], self[c])

IndInv ==
    /\ TypeOK
    /\ Places
    /\ ThreadLocks
    /\ PointLocks
    /\ OnOneCore
    /\ RunQueueExact
    /\ WaitQueueExact
    /\ SleepsAtOwnPoint
    /\ NoLostWakeup

-----------------------------------------------------------------------------
(* The actions that move a thread between queues, in terms of that thread.   *)
SelectsThread(c, t) ==
    /\ pc[c] = "select" /\ pc' = [pc EXCEPT ![c] = "selected"]
    /\ state[t] = "RUNNABLE" /\ state' = [state EXCEPT ![t] = "RUNNING"]
    /\ tlock[t] = NoCore /\ tlock' = [tlock EXCEPT ![t] = c]
    /\ \A d \in Cores : self[d] # t
    /\ core' = [core EXCEPT ![t] = c]
    /\ self' = [self EXCEPT ![c] = t]
    /\ runQueue' \in [Prios -> Seq(Threads)]
    /\ runQueueBits' \subseteq Prios
    /\ UNCHANGED <<prio, rendezvous, val, alarm, label, rlock, queue, runQueueHint,
                   current, point, peer, after>>

RunQueueTyped ==
    /\ runQueue \in [Prios -> Seq(Threads)]
    /\ runQueueBits \subseteq Prios
    /\ runQueueHint \in BOOLEAN

SetsRunSelf(c, t) ==
    /\ pc[c] = "setRun" /\ pc' = [pc EXCEPT ![c] = "save"]
    /\ self[c] = t
    /\ state[t] = "RUNNING" /\ state' = [state EXCEPT ![t] = "RUNNABLE"]
    /\ RunQueueTyped'
    /\ UNCHANGED <<prio, core, rendezvous, tlock, val, alarm, label, rlock, queue,
                   current, self, point, peer, after>>

StartsThread(c, t) ==
    /\ pc[c] = "start" /\ pc' = [pc EXCEPT ![c] = "startUnlock"]
    /\ peer[c] = t
    /\ state[t] = "NEW" /\ state' = [state EXCEPT ![t] = "RUNNABLE"]
    /\ tlock[t] = NoCore /\ tlock' = [tlock EXCEPT ![t] = c]
    /\ \A d \in Cores : self[d] # t
    /\ RunQueueTyped'
    /\ UNCHANGED <<prio, core, rendezvous, val, alarm, label, rlock, queue, current,
                   self, point, peer, after>>

WakesThread(c, t) ==
    /\ pc[c] = "wake" /\ pc' = [pc EXCEPT ![c] = "wakeUnlock"]
    /\ state[t] = "WAITING" /\ state' = [state EXCEPT ![t] = "RUNNABLE"]
    /\ tlock[t] = NoCore /\ tlock' = [tlock EXCEPT ![t] = c]
    /\ \A d \in Cores : self[d] # t
    /\ rendezvous' = [rendezvous EXCEPT ![t] = NoPoint]
    /\ peer' = [peer EXCEPT ![c] = t]
    /\ RunQueueTyped'
    /\ queue' \in [Points -> Seq(Threads)]
    /\ \A r \in Points : queue'[r] # <<>> => queue[r] # <<>>
    /\ UNCHANGED <<prio, core, val, alarm, label, rlock, current, self, point, after>>

QueuesSelf(c, t) ==
    /\ pc[c] = "enqueue" /\ pc' = [pc EXCEPT ![c] = "reschedule"]
    /\ self[c] = t /\ current[c] = t /\ point[c] \in Points
    /\ state[t] = "RUNNING" /\ state' = [state EXCEPT ![t] = "WAITING"]
    /\ tlock[t] = NoCore /\ tlock' = [tlock EXCEPT ![t] = c]
    /\ rendezvous' = [rendezvous EXCEPT ![t] = point[c]]
    /\ rlock' = [rlock EXCEPT ![point[c]] = NoCore]
    /\ queue' \in [Points -> Seq(Threads)]
    /\ \A r \in Points : queue'[r] # <<>> => queue[r] # <<>> \/ r = point[c]
    /\ UNCHANGED <<prio, core, val, alarm, label, runQueue, runQueueBits, runQueueHint,
                   current, self, point, peer, after>>

(* A runnable thread that nobody has locked is on no core. *)
LEMMA OffCores ==
  ASSUME IndInv, NEW t \in Threads, state[t] = "RUNNABLE", Free(tlock[t]), NEW c \in Cores
  PROVE  self[c] # t
<1> SUFFICES ASSUME self[c] = t PROVE FALSE
  OBVIOUS
<1>1. pc[c] \in {"save", "leave"}
  BY NullAssumption DEF IndInv, TypeOK, Places, ThreadAt, Exiting, Handling, OwnCode, WakeCode
<1>2. Holds(c, t)
  BY <1>1 DEF Holds
<1> QED
  BY <1>2, NullAssumption DEF IndInv, ThreadLocks, Free

(* Nor is one that waits, or is still new. *)
LEMMA OffCoresWaiting ==
  ASSUME IndInv, NEW t \in Threads, state[t] \in {"NEW", "WAITING"}, Free(tlock[t]),
         NEW c \in Cores
  PROVE  self[c] # t
<1> SUFFICES ASSUME self[c] = t PROVE FALSE
  OBVIOUS
<1>1. state[t] = "WAITING" /\ pc[c] \in {"reschedule", "switch", "save", "leave"}
  BY NullAssumption DEF IndInv, TypeOK, Places, ThreadAt, Exiting, Handling, OwnCode, WakeCode
<1>2. Holds(c, t)
  BY <1>1 DEF Holds
<1> QED
  BY <1>2, NullAssumption DEF IndInv, ThreadLocks, Free

(* selectThread() takes a runnable thread that is on no core, and the run    *)
(* queue stays exact.                                                        *)
LEMMA SelectEffect ==
  ASSUME IndInv, NEW c \in Cores, Select(c)
  PROVE  RunQueueExact' /\ \E t \in Threads : SelectsThread(c, t)
<1>1. FieldsOK /\ RunQueueExact /\ UNCHANGED prio
  BY DEF IndInv, TypeOK, Select
<1>2. PICK p \in runQueueBits :
        /\ Free(tlock[Head(runQueue[p])])
        /\ SetLock(Head(runQueue[p]), c)
        /\ runQueue' = [runQueue EXCEPT ![p] = Tail(runQueue[p])]
        /\ runQueueBits' = IF Tail(runQueue[p]) = <<>> THEN runQueueBits \ {p}
                                                      ELSE runQueueBits
        /\ SetState(Head(runQueue[p]), "RUNNING")
        /\ core' = [core EXCEPT ![Head(runQueue[p])] = c]
        /\ self' = [self EXCEPT ![c] = Head(runQueue[p])]
  BY Zenon DEF Select
<1>3. /\ RunQueueExact'
      /\ runQueue' \in [Prios -> Seq(Threads)]
      /\ runQueueBits' \subseteq Prios
  BY <1>1, <1>2, SelectKeeps, Zenon
<1>4. Head(runQueue[p]) \in Threads /\ state[Head(runQueue[p])] = "RUNNABLE"
  BY <1>1, RunQueueHead, Zenon
<1>5. \A d \in Cores : self[d] # Head(runQueue[p])
  BY <1>2, <1>4, OffCores, Zenon
<1> QED
  BY <1>2, <1>3, <1>4, <1>5, Zenon
  DEF Select, SelectsThread, At, Goto, Free, SetLock, SetState, pointVars

(* A preempted thread goes back on the run queue, which stays exact.         *)
LEMMA SwitchSetRunEffect ==
  ASSUME IndInv, NEW c \in Cores, SwitchSetRun(c)
  PROVE  RunQueueExact' /\ \E t \in Threads : SetsRunSelf(c, t)
<1>1. self[c] \in Threads /\ state[self[c]] = "RUNNING"
  BY DEF IndInv, Places, ThreadAt, SwitchSetRun, At
<1>2. FieldsOK /\ RunQueueExact /\ UNCHANGED prio /\ SetRun(self[c])
  BY DEF IndInv, TypeOK, SwitchSetRun
<1>3. state[self[c]] # "RUNNABLE"
  BY <1>1
<1> QED
  BY <1>1, <1>2, <1>3, SetRunKeeps, Zenon
  DEF SwitchSetRun, SetsRunSelf, RunQueueTyped, At, Goto, SetRun, SetState, pointVars

(* start() queues a new thread that is on no core, and the run queue stays   *)
(* exact.                                                                    *)
LEMMA StartEffect ==
  ASSUME IndInv, NEW c \in Cores, Start(c)
  PROVE  RunQueueExact' /\ \E t \in Threads : StartsThread(c, t)
<1>1. peer[c] \in Threads /\ state[peer[c]] = "NEW"
  BY DEF IndInv, Places, LocalsAt, PeerAt, Start, At
<1>2. /\ FieldsOK /\ RunQueueExact /\ UNCHANGED prio /\ SetRun(peer[c])
      /\ Free(tlock[peer[c]]) /\ SetLock(peer[c], c)
  BY <1>1 DEF IndInv, TypeOK, Start
<1>3. state[peer[c]] # "RUNNABLE"
  BY <1>1
<1>4. /\ RunQueueExact'
      /\ runQueue' \in [Prios -> Seq(Threads)]
      /\ runQueueBits' \subseteq Prios
      /\ runQueueHint' \in BOOLEAN
  BY <1>1, <1>2, <1>3, SetRunKeeps, Zenon
<1>5. \A d \in Cores : self[d] # peer[c]
  BY <1>1, <1>2, OffCoresWaiting
<1> QED
  BY <1>1, <1>2, <1>4, <1>5, Zenon
  DEF Start, StartsThread, RunQueueTyped, At, Goto, SetRun, SetState, SetLock, Free,
      pointVars

(* wakeup() moves a waiting thread that is on no core to the run queue; both *)
(* queues stay exact.                                                        *)
LEMMA WakeFirstEffect ==
  ASSUME IndInv, NEW c \in Cores, WakeFirst(c)
  PROVE  RunQueueExact' /\ WaitQueueExact' /\ \E t \in Threads : WakesThread(c, t)
<1> DEFINE t == Head(queue[point[c]])
<1>1. /\ FieldsOK /\ RunQueueExact /\ WaitQueueExact /\ UNCHANGED prio
      /\ queue[point[c]] # <<>>
      /\ Free(tlock[t]) /\ SetLock(t, c) /\ SetRun(t)
      /\ queue' = [queue EXCEPT ![point[c]] = Tail(queue[point[c]])]
      /\ rendezvous' = [rendezvous EXCEPT ![t] = NoPoint]
      /\ peer' = [peer EXCEPT ![c] = t]
  BY Zenon DEF IndInv, TypeOK, WakeFirst
<1>2. point[c] \in Points
  BY DEF IndInv, Places, LocalsAt, WakeCode, WakeFirst, At
<1>3. t \in Threads /\ state[t] = "WAITING"
  BY <1>1, <1>2, WaitQueueHead, Zenon
<1>4. state[t] # "RUNNABLE" /\ SetState(t, "RUNNABLE")
  BY <1>1, <1>3 DEF SetRun
<1> HIDE DEF t
<1>5. /\ RunQueueExact'
      /\ runQueue' \in [Prios -> Seq(Threads)]
      /\ runQueueBits' \subseteq Prios
      /\ runQueueHint' \in BOOLEAN
  BY <1>1, <1>3, <1>4, SetRunKeeps, Zenon
<1>6. WaitQueueExact' /\ queue' \in [Points -> Seq(Threads)]
  BY <1>1, <1>2, <1>4, WakeFirstKeeps, Zenon DEF t
<1>7. \A d \in Cores : self[d] # t
  BY <1>1, <1>3, OffCoresWaiting
<1>8. \A r \in Points : queue'[r] # <<>> => queue[r] # <<>>
  BY <1>1, <1>2 DEF TypeOK, FieldsOK
<1> QED
  BY <1>1, <1>3, <1>4, <1>5, <1>6, <1>7, <1>8, Zenon
  DEF WakeFirst, WakesThread, RunQueueTyped, At, Goto, SetState, SetLock, Free

(* sleep() queues the running thread at its point, and the queue stays       *)
(* exact.                                                                    *)
LEMMA SleepEnqueueEffect ==
  ASSUME IndInv, NEW c \in Cores, SleepEnqueue(c)
  PROVE  WaitQueueExact' /\ \E t \in Threads : QueuesSelf(c, t)
<1>1. /\ self[c] \in Threads /\ current[c] = self[c] /\ state[self[c]] = "RUNNING"
      /\ point[c] \in Points
  BY DEF IndInv, Places, ThreadAt, LocalsAt, OwnCode, SleepEnqueue, At
<1>2. /\ FieldsOK /\ WaitQueueExact /\ UNCHANGED prio
      /\ queue' = [queue EXCEPT ![point[c]] =
                      InsertPrio(queue[point[c]], self[c], prio[self[c]])]
      /\ rendezvous' = [rendezvous EXCEPT ![self[c]] = point[c]]
      /\ SetState(self[c], "WAITING")
      /\ Free(tlock[self[c]]) /\ SetLock(self[c], c)
  BY <1>1 DEF IndInv, TypeOK, SleepEnqueue
<1>3. state[self[c]] # "WAITING"
  BY <1>1
<1>4. WaitQueueExact' /\ queue' \in [Points -> Seq(Threads)]
  BY <1>1, <1>2, <1>3, SleepEnqueueKeeps, Zenon
<1>5. \A r \in Points : queue'[r] # <<>> => queue[r] # <<>> \/ r = point[c]
  BY <1>1, <1>2 DEF TypeOK, FieldsOK
<1> QED
  BY <1>1, <1>2, <1>4, <1>5, Zenon
  DEF SleepEnqueue, QueuesSelf, At, Goto, SetState, SetLock, Free, schedVars

(* A core that switches gets the lock of its thread, or has it already.      *)
SwitchesFrom(c, t) ==
    /\ pc[c] = "switch" /\ self[c] = t
    /\ tlock[t] \in {NoCore, c} /\ tlock' = [tlock EXCEPT ![t] = c]
    /\ \/ state[t] = "TERMINATED" /\ pc' = [pc EXCEPT ![c] = "leave"]
       \/ state[t] = "RUNNING" /\ pc' = [pc EXCEPT ![c] = "setRun"]
       \/ state[t] = "WAITING" /\ pc' = [pc EXCEPT ![c] = "save"]
    /\ current' = [current EXCEPT ![c] = NoThread]
    /\ UNCHANGED <<state, prio, core, rendezvous, val, alarm, label, rlock, queue,
                   runQueue, runQueueBits, runQueueHint, self, point, peer, after>>

(* When a core switches, nobody else holds the lock of its thread, so that   *)
(* it holds the lock after tryLock() whatever that returned.                 *)
LEMMA SwitchLockEffect ==
  ASSUME IndInv, NEW c \in Cores, SwitchLock(c)
  PROVE  \E t \in Threads : SwitchesFrom(c, t)
<1> DEFINE t == self[c]
<1>1. /\ t \in Threads
      /\ state[t] \in {"RUNNING", "WAITING", "TERMINATED"}
      /\ pc[c] = "switch"
  BY DEF IndInv, Places, ThreadAt, SwitchLock, At
<1> HIDE DEF t
<1>2. ASSUME NEW d \in Cores, tlock[t] = d PROVE d = c
  <2>1. Holds(d, t)
    BY <1>1, <1>2 DEF IndInv, ThreadLocks
  <2>2. ~(pc[d] \in {"startUnlock", "wakeUnlock"} /\ peer[d] = t)
    BY <1>1 DEF IndInv, Places, PeerAt
  <2>3. self[d] = t
    BY <2>1, <2>2 DEF Holds
  <2> QED
    BY <2>3, <1>1, NullAssumption DEF IndInv, OnOneCore, t
<1>3. tlock[t] \in {NoCore, c}
  BY <1>1, <1>2 DEF IndInv, TypeOK, FieldsOK
<1>4. tlock' = [tlock EXCEPT ![t] = c]
  BY <1>3 DEF SwitchLock, SetLock, Free, t
<1>5. pc' = [pc EXCEPT ![c] = CASE state[t] = "TERMINATED" -> "leave"
                                [] state[t] = "RUNNING" -> "setRun"
                                [] OTHER -> "save"]
  BY Zenon DEF SwitchLock, Goto, t
<1>6. \/ state[t] = "TERMINATED" /\ pc' = [pc EXCEPT ![c] = "leave"]
      \/ state[t] = "RUNNING" /\ pc' = [pc EXCEPT ![c] = "setRun"]
      \/ state[t] = "WAITING" /\ pc' = [pc EXCEPT ![c] = "save"]
  BY <1>1, <1>5
<1>7. self[c] = t
  BY DEF t
<1> QED
  BY <1>1, <1>3, <1>4, <1>6, <1>7, Zenon
  DEF SwitchLock, SwitchesFrom, pointVars, schedVars

-----------------------------------------------------------------------------
(* Each conjunct, action by action. *)

(* The types. *)
LEMMA TypeStep ==
  ASSUME IndInv, [Next]_vars
  PROVE  TypeOK'
<1> USE BootAssumption, NullAssumption, PointAssumption DEF TypeOK, FieldsOK, Places,
        ThreadAt, LocalsAt, PeerAt, Exiting, Handling, OwnCode, WakeCode,
        ThreadLocks, Holds, Goto, At, SetLock, SetState, SetRun, Free,
        Running, Points, JoinPoint, SleepPoint
<1>a. TypeOK /\ Places
  BY DEF IndInv
<1>1. ASSUME NEW c \in Cores, CallYield(c) PROVE TypeOK'
  BY <1>a, <1>1 DEF CallYield, threadVars, pointVars, schedVars
<1>2. ASSUME NEW c \in Cores, CallSleep(c) PROVE TypeOK'
  <2>1. current[c] \in Threads /\ SleepPoint(current[c]) \in Points
    BY <1>a, <1>2 DEF CallSleep
  <2>2. alarm' \in [Threads -> {"off", "pending", "due"}]
    BY <1>a, <2>1, <1>2 DEF CallSleep
  <2> QED
    BY <1>a, <1>2, <2>1, <2>2 DEF CallSleep, pointVars, schedVars
<1>3. ASSUME NEW c \in Cores, CallExit(c) PROVE TypeOK'
  BY <1>a, <1>3 DEF CallExit, threadVars, pointVars, schedVars
<1>4. ASSUME NEW c \in Cores, NEW u \in Threads, CallStart(c, u) PROVE TypeOK'
  BY <1>a, <1>4 DEF CallStart, threadVars, pointVars, schedVars
<1>5. ASSUME NEW c \in Cores, NEW u \in Threads, CallJoin(c, u) PROVE TypeOK'
  BY <1>a, <1>5 DEF CallJoin, threadVars, pointVars, schedVars
<1>6. ASSUME NEW c \in Cores, Start(c) PROVE TypeOK'
  <2>1. PICK t \in Threads : StartsThread(c, t)
    BY <1>6, StartEffect, Zenon
  <2> QED
    BY <1>a, <2>1 DEF StartsThread, RunQueueTyped
<1>7. ASSUME NEW c \in Cores, StartUnlock(c) PROVE TypeOK'
  BY <1>a, <1>7 DEF StartUnlock, threadVars, pointVars, schedVars
<1>8. ASSUME NEW c \in Cores, Exit(c) PROVE TypeOK'
  BY <1>a, <1>8 DEF Exit, threadVars, pointVars, schedVars
<1>9. ASSUME NEW c \in Cores, ExitVal(c) PROVE TypeOK'
  BY <1>a, <1>9 DEF ExitVal, threadVars, pointVars, schedVars
<1>10. ASSUME NEW c \in Cores, ExitUnlock(c) PROVE TypeOK'
  BY <1>a, <1>10 DEF ExitUnlock, threadVars, pointVars, schedVars
<1>11. ASSUME NEW c \in Cores, SleepReturn(c) PROVE TypeOK'
  BY <1>a, <1>11 DEF SleepReturn, threadVars, pointVars, schedVars
<1>12. ASSUME NEW c \in Cores, SleepTest(c) PROVE TypeOK'
  BY <1>a, <1>12 DEF SleepTest, threadVars, pointVars, schedVars
<1>13. ASSUME NEW c \in Cores, SleepEnqueue(c) PROVE TypeOK'
  <2>1. PICK t \in Threads : QueuesSelf(c, t)
    BY <1>13, SleepEnqueueEffect, Zenon
  <2> QED
    BY <1>a, <2>1 DEF QueuesSelf
<1>14. ASSUME NEW c \in Cores, Wakeup(c) PROVE TypeOK'
  BY <1>a, <1>14 DEF Wakeup, threadVars, pointVars, schedVars
<1>15. ASSUME NEW c \in Cores, WakeDone(c) PROVE TypeOK'
  BY <1>a, <1>15 DEF WakeDone, threadVars, pointVars, schedVars
<1>16. ASSUME NEW c \in Cores, WakeFirst(c) PROVE TypeOK'
  <2>1. PICK t \in Threads : WakesThread(c, t)
    BY <1>16, WakeFirstEffect, Zenon
  <2> QED
    BY <1>a, <2>1 DEF WakesThread, RunQueueTyped
<1>17. ASSUME NEW c \in Cores, WakeUnlock(c) PROVE TypeOK'
  BY <1>a, <1>17 DEF WakeUnlock, threadVars, pointVars, schedVars
<1>18. ASSUME NEW c \in Cores, WakeBusy(c) PROVE TypeOK'
  BY <1>a, <1>18 DEF WakeBusy, threadVars, pointVars, schedVars
<1>19. ASSUME NEW c \in Cores, WakeWait(c) PROVE TypeOK'
  BY <1>a, <1>19 DEF WakeWait, threadVars, pointVars, schedVars
<1>20. ASSUME NEW c \in Cores, RescheduleStay(c) PROVE TypeOK'
  BY <1>a, <1>20 DEF RescheduleStay, threadVars, pointVars, schedVars
<1>21. ASSUME NEW c \in Cores, RescheduleOut(c) PROVE TypeOK'
  BY <1>a, <1>21 DEF RescheduleOut, threadVars, pointVars, schedVars
<1>22. ASSUME NEW c \in Cores, RescheduleIdle(c) PROVE TypeOK'
  BY <1>a, <1>22 DEF RescheduleIdle, threadVars, pointVars, schedVars
<1>23. ASSUME NEW c \in Cores, SwitchLock(c) PROVE TypeOK'
  <2>1. PICK t \in Threads : SwitchesFrom(c, t)
    BY <1>23, SwitchLockEffect, Zenon
  <2>2. PICK p \in {"leave", "setRun", "save"} : pc' = [pc EXCEPT ![c] = p]
    BY <2>1 DEF SwitchesFrom
  <2> QED
    BY <1>a, <2>1, <2>2 DEF SwitchesFrom
<1>24. ASSUME NEW c \in Cores, SwitchSetRun(c) PROVE TypeOK'
  <2>1. PICK t \in Threads : SetsRunSelf(c, t)
    BY <1>24, SwitchSetRunEffect, Zenon
  <2> QED
    BY <1>a, <2>1 DEF SetsRunSelf, RunQueueTyped
<1>25. ASSUME NEW c \in Cores, SwitchSave(c) PROVE TypeOK'
  BY <1>a, <1>25 DEF SwitchSave, threadVars, pointVars, schedVars
<1>26. ASSUME NEW c \in Cores, SwitchLeave(c) PROVE TypeOK'
  BY <1>a, <1>26 DEF SwitchLeave, threadVars, pointVars, schedVars
<1>27. ASSUME NEW c \in Cores, Select(c) PROVE TypeOK'
  <2>1. PICK t \in Threads : SelectsThread(c, t)
    BY <1>27, SelectEffect, Zenon
  <2> QED
    BY <1>a, <2>1 DEF SelectsThread
<1>28. ASSUME NEW c \in Cores, Selected(c) PROVE TypeOK'
  BY <1>a, <1>28 DEF Selected, threadVars, pointVars, schedVars
<1>29. ASSUME NEW c \in Cores, AlarmExpire(c) PROVE TypeOK'
  BY <1>a, <1>29 DEF AlarmExpire, threadVars, pointVars, schedVars
<1>30. ASSUME NEW c \in Cores, InterruptEnd(c) PROVE TypeOK'
  BY <1>a, <1>30 DEF InterruptEnd, threadVars, pointVars, schedVars
<1>31. ASSUME NEW c \in Cores, Interrupt(c) PROVE TypeOK'
  BY <1>a, <1>31 DEF Interrupt, threadVars, pointVars, schedVars
<1>32. CASE UNCHANGED vars
  BY <1>a, <1>32 DEF vars, coreVars, threadVars, pointVars, schedVars
<1> QED
  BY <1>1, <1>2, <1>3, <1>4, <1>5, <1>6, <1>7, <1>8, <1>9, <1>10, <1>11,
     <1>12, <1>13, <1>14, <1>15, <1>16, <1>17, <1>18, <1>19, <1>20, <1>21,
     <1>22, <1>23, <1>24, <1>25, <1>26, <1>27, <1>28, <1>29, <1>30, <1>31,
     <1>32 DEF Next, Call, Step

(* Each place in the code keeps what it knows of the core and its thread. *)
LEMMA PlacesStep ==
  ASSUME IndInv, [Next]_vars
  PROVE  Places'
<1> USE BootAssumption, NullAssumption, PointAssumption DEF TypeOK, FieldsOK, Places,
        ThreadAt, LocalsAt, PeerAt, Exiting, Handling, OwnCode, WakeCode,
        ThreadLocks, Holds, Goto, At, SetLock, SetState, SetRun, Free,
        Running, Points, JoinPoint, SleepPoint, OnOneCore
<1>a. TypeOK /\ Places /\ ThreadLocks /\ OnOneCore
  BY DEF IndInv
<1>1. ASSUME NEW c \in Cores, CallYield(c) PROVE Places'
  BY <1>a, <1>1 DEF CallYield, threadVars, pointVars, schedVars
<1>2. ASSUME NEW c \in Cores, CallSleep(c) PROVE Places'
  BY <1>a, <1>2 DEF CallSleep, threadVars, pointVars, schedVars
<1>3. ASSUME NEW c \in Cores, CallExit(c) PROVE Places'
  BY <1>a, <1>3 DEF CallExit, threadVars, pointVars, schedVars
<1>4. ASSUME NEW c \in Cores, NEW u \in Threads, CallStart(c, u) PROVE Places'
  BY <1>a, <1>4 DEF CallStart, threadVars, pointVars, schedVars
<1>5. ASSUME NEW c \in Cores, NEW u \in Threads, CallJoin(c, u) PROVE Places'
  BY <1>a, <1>5 DEF CallJoin, threadVars, pointVars, schedVars
<1>6. ASSUME NEW c \in Cores, Start(c) PROVE Places'
  <2>1. PICK t \in Threads : StartsThread(c, t)
    BY <1>6, StartEffect, Zenon
  <2> QED
    BY <1>a, <2>1 DEF StartsThread, RunQueueTyped
<1>7. ASSUME NEW c \in Cores, StartUnlock(c) PROVE Places'
  BY <1>a, <1>7 DEF StartUnlock, threadVars, pointVars, schedVars
<1>8. ASSUME NEW c \in Cores, Exit(c) PROVE Places'
  BY <1>a, <1>8 DEF Exit, threadVars, pointVars, schedVars
<1>9. ASSUME NEW c \in Cores, ExitVal(c) PROVE Places'
  BY <1>a, <1>9 DEF ExitVal, threadVars, pointVars, schedVars
<1>10. ASSUME NEW c \in Cores, ExitUnlock(c) PROVE Places'
  BY <1>a, <1>10 DEF ExitUnlock, threadVars, pointVars, schedVars
<1>11. ASSUME NEW c \in Cores, SleepReturn(c) PROVE Places'
  BY <1>a, <1>11 DEF SleepReturn, threadVars, pointVars, schedVars
<1>12. ASSUME NEW c \in Cores, SleepTest(c) PROVE Places'
  BY <1>a, <1>12 DEF SleepTest, threadVars, pointVars, schedVars
<1>13. ASSUME NEW c \in Cores, SleepEnqueue(c) PROVE Places'
  <2>1. PICK t \in Threads : QueuesSelf(c, t)
    BY <1>13, SleepEnqueueEffect, Zenon
  <2> QED
    BY <1>a, <2>1 DEF QueuesSelf
<1>14. ASSUME NEW c \in Cores, Wakeup(c) PROVE Places'
  BY <1>a, <1>14 DEF Wakeup, threadVars, pointVars, schedVars
<1>15. ASSUME NEW c \in Cores, WakeDone(c) PROVE Places'
  BY <1>a, <1>15 DEF WakeDone, threadVars, pointVars, schedVars
<1>16. ASSUME NEW c \in Cores, WakeFirst(c) PROVE Places'
  <2>1. PICK t \in Threads : WakesThread(c, t)
    BY <1>16, WakeFirstEffect, Zenon
  <2> QED
    BY <1>a, <2>1 DEF WakesThread, RunQueueTyped
<1>17. ASSUME NEW c \in Cores, WakeUnlock(c) PROVE Places'
  BY <1>a, <1>17 DEF WakeUnlock, threadVars, pointVars, schedVars
<1>18. ASSUME NEW c \in Cores, WakeBusy(c) PROVE Places'
  BY <1>a, <1>18 DEF WakeBusy, threadVars, pointVars, schedVars
<1>19. ASSUME NEW c \in Cores, WakeWait(c) PROVE Places'
  BY <1>a, <1>19 DEF WakeWait, threadVars, pointVars, schedVars
<1>20. ASSUME NEW c \in Cores, RescheduleStay(c) PROVE Places'
  BY <1>a, <1>20 DEF RescheduleStay, threadVars, pointVars, schedVars
<1>21. ASSUME NEW c \in Cores, RescheduleOut(c) PROVE Places'
  BY <1>a, <1>21 DEF RescheduleOut, threadVars, pointVars, schedVars
<1>22. ASSUME NEW c \in Cores, RescheduleIdle(c) PROVE Places'
  BY <1>a, <1>22 DEF RescheduleIdle, threadVars, pointVars, schedVars
<1>23. ASSUME NEW c \in Cores, SwitchLock(c) PROVE Places'
  <2>1. PICK t \in Threads : SwitchesFrom(c, t)
    BY <1>23, SwitchLockEffect, Zenon
  <2> QED
    BY <1>a, <2>1 DEF SwitchesFrom
<1>24. ASSUME NEW c \in Cores, SwitchSetRun(c) PROVE Places'
  <2>1. PICK t \in Threads : SetsRunSelf(c, t)
    BY <1>24, SwitchSetRunEffect, Zenon
  <2> QED
    BY <1>a, <2>1 DEF SetsRunSelf, RunQueueTyped
<1>25. ASSUME NEW c \in Cores, SwitchSave(c) PROVE Places'
  BY <1>a, <1>25 DEF SwitchSave, threadVars, pointVars, schedVars
<1>26. ASSUME NEW c \in Cores, SwitchLeave(c) PROVE Places'
  BY <1>a, <1>26 DEF SwitchLeave, threadVars, pointVars, schedVars
<1>27. ASSUME NEW c \in Cores, Select(c) PROVE Places'
  <2>1. PICK t \in Threads : SelectsThread(c, t)
    BY <1>27, SelectEffect, Zenon
  <2> QED
    BY <1>a, <2>1 DEF SelectsThread
<1>28. ASSUME NEW c \in Cores, Selected(c) PROVE Places'
  BY <1>a, <1>28 DEF Selected, threadVars, pointVars, schedVars
<1>29. ASSUME NEW c \in Cores, AlarmExpire(c) PROVE Places'
  BY <1>a, <1>29 DEF AlarmExpire, threadVars, pointVars, schedVars
<1>30. ASSUME NEW c \in Cores, InterruptEnd(c) PROVE Places'
  BY <1>a, <1>30 DEF InterruptEnd, threadVars, pointVars, schedVars
<1>31. ASSUME NEW c \in Cores, Interrupt(c) PROVE Places'
  BY <1>a, <1>31 DEF Interrupt, threadVars, pointVars, schedVars
<1>32. CASE UNCHANGED vars
  BY <1>a, <1>32 DEF vars, coreVars, threadVars, pointVars, schedVars
<1> QED
  BY <1>1, <1>2, <1>3, <1>4, <1>5, <1>6, <1>7, <1>8, <1>9, <1>10, <1>11,
     <1>12, <1>13, <1>14, <1>15, <1>16, <1>17, <1>18, <1>19, <1>20, <1>21,
     <1>22, <1>23, <1>24, <1>25, <1>26, <1>27, <1>28, <1>29, <1>30, <1>31,
     <1>32 DEF Next, Call, Step

(* The locks of the threads are held where the code says. *)
LEMMA ThreadLocksStep ==
  ASSUME IndInv, [Next]_vars
  PROVE  ThreadLocks'
<1> USE BootAssumption, NullAssumption, PointAssumption DEF TypeOK, FieldsOK, Places,
        ThreadAt, LocalsAt, PeerAt, Exiting, Handling, OwnCode, WakeCode,
        ThreadLocks, Holds, Goto, At, SetLock, SetState, SetRun, Free,
        Running, Points, JoinPoint, SleepPoint, OnOneCore
<1>a. TypeOK /\ Places /\ ThreadLocks /\ OnOneCore
  BY DEF IndInv
<1>1. ASSUME NEW c \in Cores, CallYield(c) PROVE ThreadLocks'
  BY <1>a, <1>1 DEF CallYield, threadVars, pointVars, schedVars
<1>2. ASSUME NEW c \in Cores, CallSleep(c) PROVE ThreadLocks'
  BY <1>a, <1>2 DEF CallSleep, threadVars, pointVars, schedVars
<1>3. ASSUME NEW c \in Cores, CallExit(c) PROVE ThreadLocks'
  BY <1>a, <1>3 DEF CallExit, threadVars, pointVars, schedVars
<1>4. ASSUME NEW c \in Cores, NEW u \in Threads, CallStart(c, u) PROVE ThreadLocks'
  BY <1>a, <1>4 DEF CallStart, threadVars, pointVars, schedVars
<1>5. ASSUME NEW c \in Cores, NEW u \in Threads, CallJoin(c, u) PROVE ThreadLocks'
  BY <1>a, <1>5 DEF CallJoin, threadVars, pointVars, schedVars
<1>6. ASSUME NEW c \in Cores, Start(c) PROVE ThreadLocks'
  <2>1. PICK t \in Threads : StartsThread(c, t)
    BY <1>6, StartEffect, Zenon
  <2> QED
    BY <1>a, <2>1 DEF StartsThread, RunQueueTyped
<1>7. ASSUME NEW c \in Cores, StartUnlock(c) PROVE ThreadLocks'
  BY <1>a, <1>7 DEF StartUnlock, threadVars, pointVars, schedVars
<1>8. ASSUME NEW c \in Cores, Exit(c) PROVE ThreadLocks'
  BY <1>a, <1>8 DEF Exit, threadVars, pointVars, schedVars
<1>9. ASSUME NEW c \in Cores, ExitVal(c) PROVE ThreadLocks'
  BY <1>a, <1>9 DEF ExitVal, threadVars, pointVars, schedVars
<1>10. ASSUME NEW c \in Cores, ExitUnlock(c) PROVE ThreadLocks'
  BY <1>a, <1>10 DEF ExitUnlock, threadVars, pointVars, schedVars
<1>11. ASSUME NEW c \in Cores, SleepReturn(c) PROVE ThreadLocks'
  BY <1>a, <1>11 DEF SleepReturn, threadVars, pointVars, schedVars
<1>12. ASSUME NEW c \in Cores, SleepTest(c) PROVE ThreadLocks'
  BY <1>a, <1>12 DEF SleepTest, threadVars, pointVars, schedVars
<1>13. ASSUME NEW c \in Cores, SleepEnqueue(c) PROVE ThreadLocks'
  <2>1. PICK t \in Threads : QueuesSelf(c, t)
    BY <1>13, SleepEnqueueEffect, Zenon
  <2> QED
    BY <1>a, <2>1 DEF QueuesSelf
<1>14. ASSUME NEW c \in Cores, Wakeup(c) PROVE ThreadLocks'
  BY <1>a, <1>14 DEF Wakeup, threadVars, pointVars, schedVars
<1>15. ASSUME NEW c \in Cores, WakeDone(c) PROVE ThreadLocks'
  BY SMTT(30), <1>a, <1>15 DEF WakeDone, threadVars, pointVars, schedVars
<1>16. ASSUME NEW c \in Cores, WakeFirst(c) PROVE ThreadLocks'
  <2>1. PICK t \in Threads : WakesThread(c, t)
    BY <1>16, WakeFirstEffect, Zenon
  <2> QED
    BY <1>a, <2>1 DEF WakesThread, RunQueueTyped
<1>17. ASSUME NEW c \in Cores, WakeUnlock(c) PROVE ThreadLocks'
  BY <1>a, <1>17 DEF WakeUnlock, threadVars, pointVars, schedVars
<1>18. ASSUME NEW c \in Cores, WakeBusy(c) PROVE ThreadLocks'
  BY <1>a, <1>18 DEF WakeBusy, threadVars, pointVars, schedVars
<1>19. ASSUME NEW c \in Cores, WakeWait(c) PROVE ThreadLocks'
  BY <1>a, <1>19 DEF WakeWait, threadVars, pointVars, schedVars
<1>20. ASSUME NEW c \in Cores, RescheduleStay(c) PROVE ThreadLocks'
  BY <1>a, <1>20 DEF RescheduleStay, threadVars, pointVars, schedVars
<1>21. ASSUME NEW c \in Cores, RescheduleOut(c) PROVE ThreadLocks'
  BY <1>a, <1>21 DEF RescheduleOut, threadVars, pointVars, schedVars
<1>22. ASSUME NEW c \in Cores, RescheduleIdle(c) PROVE ThreadLocks'
  BY <1>a, <1>22 DEF RescheduleIdle, threadVars, pointVars, schedVars
<1>23. ASSUME NEW c \in Cores, SwitchLock(c) PROVE ThreadLocks'
  <2>1. PICK t \in Threads : SwitchesFrom(c, t)
    BY <1>23, SwitchLockEffect, Zenon
  <2> QED
    BY <1>a, <2>1 DEF SwitchesFrom
<1>24. ASSUME NEW c \in Cores, SwitchSetRun(c) PROVE ThreadLocks'
  <2>1. PICK t \in Threads : SetsRunSelf(c, t)
    BY <1>24, SwitchSetRunEffect, Zenon
  <2> QED
    BY <1>a, <2>1 DEF SetsRunSelf, RunQueueTyped
<1>25. ASSUME NEW c \in Cores, SwitchSave(c) PROVE ThreadLocks'
  BY <1>a, <1>25 DEF SwitchSave, threadVars, pointVars, schedVars
<1>26. ASSUME NEW c \in Cores, SwitchLeave(c) PROVE ThreadLocks'
  BY <1>a, <1>26 DEF SwitchLeave, threadVars, pointVars, schedVars
<1>27. ASSUME NEW c \in Cores, Select(c) PROVE ThreadLocks'
  <2>1. PICK t \in Threads : SelectsThread(c, t)
    BY <1>27, SelectEffect, Zenon
  <2> QED
    BY <1>a, <2>1 DEF SelectsThread
<1>28. ASSUME NEW c \in Cores, Selected(c) PROVE ThreadLocks'
  BY <1>a, <1>28 DEF Selected, threadVars, pointVars, schedVars
<1>29. ASSUME NEW c \in Cores, AlarmExpire(c) PROVE ThreadLocks'
  BY <1>a, <1>29 DEF AlarmExpire, threadVars, pointVars, schedVars
<1>30. ASSUME NEW c \in Cores, InterruptEnd(c) PROVE ThreadLocks'
  BY <1>a, <1>30 DEF InterruptEnd, threadVars, pointVars, schedVars
<1>31. ASSUME NEW c \in Cores, Interrupt(c) PROVE ThreadLocks'
  BY <1>a, <1>31 DEF Interrupt, threadVars, pointVars, schedVars
<1>32. CASE UNCHANGED vars
  BY <1>a, <1>32 DEF vars, coreVars, threadVars, pointVars, schedVars
<1> QED
  BY <1>1, <1>2, <1>3, <1>4, <1>5, <1>6, <1>7, <1>8, <1>9, <1>10, <1>11,
     <1>12, <1>13, <1>14, <1>15, <1>16, <1>17, <1>18, <1>19, <1>20, <1>21,
     <1>22, <1>23, <1>24, <1>25, <1>26, <1>27, <1>28, <1>29, <1>30, <1>31,
     <1>32 DEF Next, Call, Step

(* The locks of the rendezvous points are held where the code says. *)
LEMMA PointLocksStep ==
  ASSUME IndInv, [Next]_vars
  PROVE  PointLocks'
<1> USE BootAssumption, NullAssumption, PointAssumption DEF TypeOK, FieldsOK, Places,
        ThreadAt, LocalsAt, PeerAt, Exiting, Handling, OwnCode, WakeCode,
        ThreadLocks, Holds, Goto, At, SetLock, SetState, SetRun, Free,
        Running, Points, JoinPoint, SleepPoint, HoldsPoint, PointLocks
<1>a. TypeOK /\ Places /\ PointLocks
  BY DEF IndInv
<1>1. ASSUME NEW c \in Cores, CallYield(c) PROVE PointLocks'
  BY <1>a, <1>1 DEF CallYield, threadVars, pointVars, schedVars
<1>2. ASSUME NEW c \in Cores, CallSleep(c) PROVE PointLocks'
  BY <1>a, <1>2 DEF CallSleep, threadVars, pointVars, schedVars
<1>3. ASSUME NEW c \in Cores, CallExit(c) PROVE PointLocks'
  BY <1>a, <1>3 DEF CallExit, threadVars, pointVars, schedVars
<1>4. ASSUME NEW c \in Cores, NEW u \in Threads, CallStart(c, u) PROVE PointLocks'
  BY <1>a, <1>4 DEF CallStart, threadVars, pointVars, schedVars
<1>5. ASSUME NEW c \in Cores, NEW u \in Threads, CallJoin(c, u) PROVE PointLocks'
  BY <1>a, <1>5 DEF CallJoin, threadVars, pointVars, schedVars
<1>6. ASSUME NEW c \in Cores, Start(c) PROVE PointLocks'
  <2>1. PICK t \in Threads : StartsThread(c, t)
    BY <1>6, StartEffect, Zenon
  <2> QED
    BY <1>a, <2>1 DEF StartsThread, RunQueueTyped
<1>7. ASSUME NEW c \in Cores, StartUnlock(c) PROVE PointLocks'
  BY <1>a, <1>7 DEF StartUnlock, threadVars, pointVars, schedVars
<1>8. ASSUME NEW c \in Cores, Exit(c) PROVE PointLocks'
  BY <1>a, <1>8 DEF Exit, threadVars, pointVars, schedVars
<1>9. ASSUME NEW c \in Cores, ExitVal(c) PROVE PointLocks'
  BY <1>a, <1>9 DEF ExitVal, threadVars, pointVars, schedVars
<1>10. ASSUME NEW c \in Cores, ExitUnlock(c) PROVE PointLocks'
  BY <1>a, <1>10 DEF ExitUnlock, threadVars, pointVars, schedVars
<1>11. ASSUME NEW c \in Cores, SleepReturn(c) PROVE PointLocks'
  BY <1>a, <1>11 DEF SleepReturn, threadVars, pointVars, schedVars
<1>12. ASSUME NEW c \in Cores, SleepTest(c) PROVE PointLocks'
  BY <1>a, <1>12 DEF SleepTest, threadVars, pointVars, schedVars
<1>13. ASSUME NEW c \in Cores, SleepEnqueue(c) PROVE PointLocks'
  <2>1. PICK t \in Threads : QueuesSelf(c, t)
    BY <1>13, SleepEnqueueEffect, Zenon
  <2> QED
    BY <1>a, <2>1 DEF QueuesSelf
<1>14. ASSUME NEW c \in Cores, Wakeup(c) PROVE PointLocks'
  BY <1>a, <1>14 DEF Wakeup, threadVars, pointVars, schedVars
<1>15. ASSUME NEW c \in Cores, WakeDone(c) PROVE PointLocks'
  <2>1. pc'[c] \in {"isr", "exitUnlock"} /\ \A d \in Cores \ {c} : pc'[d] = pc[d]
    BY <1>a, <1>15 DEF WakeDone
  <2> QED
    BY <1>a, <1>15, <2>1 DEF WakeDone, threadVars
<1>16. ASSUME NEW c \in Cores, WakeFirst(c) PROVE PointLocks'
  <2>1. PICK t \in Threads : WakesThread(c, t)
    BY <1>16, WakeFirstEffect, Zenon
  <2> QED
    BY <1>a, <2>1 DEF WakesThread, RunQueueTyped
<1>17. ASSUME NEW c \in Cores, WakeUnlock(c) PROVE PointLocks'
  BY <1>a, <1>17 DEF WakeUnlock, threadVars, pointVars, schedVars
<1>18. ASSUME NEW c \in Cores, WakeBusy(c) PROVE PointLocks'
  BY <1>a, <1>18 DEF WakeBusy, threadVars, pointVars, schedVars
<1>19. ASSUME NEW c \in Cores, WakeWait(c) PROVE PointLocks'
  BY <1>a, <1>19 DEF WakeWait, threadVars, pointVars, schedVars
<1>20. ASSUME NEW c \in Cores, RescheduleStay(c) PROVE PointLocks'
  BY <1>a, <1>20 DEF RescheduleStay, threadVars, pointVars, schedVars
<1>21. ASSUME NEW c \in Cores, RescheduleOut(c) PROVE PointLocks'
  BY <1>a, <1>21 DEF RescheduleOut, threadVars, pointVars, schedVars
<1>22. ASSUME NEW c \in Cores, RescheduleIdle(c) PROVE PointLocks'
  BY <1>a, <1>22 DEF RescheduleIdle, threadVars, pointVars, schedVars
<1>23. ASSUME NEW c \in Cores, SwitchLock(c) PROVE PointLocks'
  <2>1. PICK t \in Threads : SwitchesFrom(c, t)
    BY <1>23, SwitchLockEffect, Zenon
  <2> QED
    BY <1>a, <2>1 DEF SwitchesFrom
<1>24. ASSUME NEW c \in Cores, SwitchSetRun(c) PROVE PointLocks'
  <2>1. PICK t \in Threads : SetsRunSelf(c, t)
    BY <1>24, SwitchSetRunEffect, Zenon
  <2> QED
    BY <1>a, <2>1 DEF SetsRunSelf, RunQueueTyped
<1>25. ASSUME NEW c \in Cores, SwitchSave(c) PROVE PointLocks'
  BY <1>a, <1>25 DEF SwitchSave, threadVars, pointVars, schedVars
<1>26. ASSUME NEW c \in Cores, SwitchLeave(c) PROVE PointLocks'
  BY <1>a, <1>26 DEF SwitchLeave, threadVars, pointVars, schedVars
<1>27. ASSUME NEW c \in Cores, Select(c) PROVE PointLocks'
  <2>1. PICK t \in Threads : SelectsThread(c, t)
    BY <1>27, SelectEffect, Zenon
  <2> QED
    BY <1>a, <2>1 DEF SelectsThread
<1>28. ASSUME NEW c \in Cores, Selected(c) PROVE PointLocks'
  BY <1>a, <1>28 DEF Selected, threadVars, pointVars, schedVars
<1>29. ASSUME NEW c \in Cores, AlarmExpire(c) PROVE PointLocks'
  BY <1>a, <1>29 DEF AlarmExpire, threadVars, pointVars, schedVars
<1>30. ASSUME NEW c \in Cores, InterruptEnd(c) PROVE PointLocks'
  BY <1>a, <1>30 DEF InterruptEnd, threadVars, pointVars, schedVars
<1>31. ASSUME NEW c \in Cores, Interrupt(c) PROVE PointLocks'
  BY <1>a, <1>31 DEF Interrupt, threadVars, pointVars, schedVars
<1>32. CASE UNCHANGED vars
  BY <1>a, <1>32 DEF vars, coreVars, threadVars, pointVars, schedVars
<1> QED
  BY <1>1, <1>2, <1>3, <1>4, <1>5, <1>6, <1>7, <1>8, <1>9, <1>10, <1>11,
     <1>12, <1>13, <1>14, <1>15, <1>16, <1>17, <1>18, <1>19, <1>20, <1>21,
     <1>22, <1>23, <1>24, <1>25, <1>26, <1>27, <1>28, <1>29, <1>30, <1>31,
     <1>32 DEF Next, Call, Step

(* A thread is taken by a core only when no other core is still on it. *)
LEMMA OnOneCoreStep ==
  ASSUME IndInv, [Next]_vars
  PROVE  OnOneCore'
<1> USE BootAssumption, NullAssumption, PointAssumption DEF TypeOK, FieldsOK, Places,
        ThreadAt, LocalsAt, PeerAt, Exiting, Handling, OwnCode, WakeCode,
        ThreadLocks, Holds, Goto, At, SetLock, SetState, SetRun, Free,
        Running, Points, JoinPoint, SleepPoint, OnOneCore
<1>a. TypeOK /\ Places /\ ThreadLocks /\ OnOneCore
  BY DEF IndInv
<1>1. ASSUME NEW c \in Cores, CallYield(c) PROVE OnOneCore'
  BY <1>a, <1>1 DEF CallYield, threadVars, pointVars, schedVars
<1>2. ASSUME NEW c \in Cores, CallSleep(c) PROVE OnOneCore'
  BY <1>a, <1>2 DEF CallSleep, threadVars, pointVars, schedVars
<1>3. ASSUME NEW c \in Cores, CallExit(c) PROVE OnOneCore'
  BY <1>a, <1>3 DEF CallExit, threadVars, pointVars, schedVars
<1>4. ASSUME NEW c \in Cores, NEW u \in Threads, CallStart(c, u) PROVE OnOneCore'
  BY <1>a, <1>4 DEF CallStart, threadVars, pointVars, schedVars
<1>5. ASSUME NEW c \in Cores, NEW u \in Threads, CallJoin(c, u) PROVE OnOneCore'
  BY <1>a, <1>5 DEF CallJoin, threadVars, pointVars, schedVars
<1>6. ASSUME NEW c \in Cores, Start(c) PROVE OnOneCore'
  <2>1. PICK t \in Threads : StartsThread(c, t)
    BY <1>6, StartEffect, Zenon
  <2> QED
    BY <1>a, <2>1 DEF StartsThread, RunQueueTyped
<1>7. ASSUME NEW c \in Cores, StartUnlock(c) PROVE OnOneCore'
  BY <1>a, <1>7 DEF StartUnlock, threadVars, pointVars, schedVars
<1>8. ASSUME NEW c \in Cores, Exit(c) PROVE OnOneCore'
  BY <1>a, <1>8 DEF Exit, threadVars, pointVars, schedVars
<1>9. ASSUME NEW c \in Cores, ExitVal(c) PROVE OnOneCore'
  BY <1>a, <1>9 DEF ExitVal, threadVars, pointVars, schedVars
<1>10. ASSUME NEW c \in Cores, ExitUnlock(c) PROVE OnOneCore'
  BY <1>a, <1>10 DEF ExitUnlock, threadVars, pointVars, schedVars
<1>11. ASSUME NEW c \in Cores, SleepReturn(c) PROVE OnOneCore'
  BY <1>a, <1>11 DEF SleepReturn, threadVars, pointVars, schedVars
<1>12. ASSUME NEW c \in Cores, SleepTest(c) PROVE OnOneCore'
  BY <1>a, <1>12 DEF SleepTest, threadVars, pointVars, schedVars
<1>13. ASSUME NEW c \in Cores, SleepEnqueue(c) PROVE OnOneCore'
  <2>1. PICK t \in Threads : QueuesSelf(c, t)
    BY <1>13, SleepEnqueueEffect, Zenon
  <2> QED
    BY <1>a, <2>1 DEF QueuesSelf
<1>14. ASSUME NEW c \in Cores, Wakeup(c) PROVE OnOneCore'
  BY <1>a, <1>14 DEF Wakeup, threadVars, pointVars, schedVars
<1>15. ASSUME NEW c \in Cores, WakeDone(c) PROVE OnOneCore'
  BY <1>a, <1>15 DEF WakeDone, threadVars, pointVars, schedVars
<1>16. ASSUME NEW c \in Cores, WakeFirst(c) PROVE OnOneCore'
  <2>1. PICK t \in Threads : WakesThread(c, t)
    BY <1>16, WakeFirstEffect, Zenon
  <2> QED
    BY <1>a, <2>1 DEF WakesThread, RunQueueTyped
<1>17. ASSUME NEW c \in Cores, WakeUnlock(c) PROVE OnOneCore'
  BY <1>a, <1>17 DEF WakeUnlock, threadVars, pointVars, schedVars
<1>18. ASSUME NEW c \in Cores, WakeBusy(c) PROVE OnOneCore'
  BY <1>a, <1>18 DEF WakeBusy, threadVars, pointVars, schedVars
<1>19. ASSUME NEW c \in Cores, WakeWait(c) PROVE OnOneCore'
  BY <1>a, <1>19 DEF WakeWait, threadVars, pointVars, schedVars
<1>20. ASSUME NEW c \in Cores, RescheduleStay(c) PROVE OnOneCore'
  BY <1>a, <1>20 DEF RescheduleStay, threadVars, pointVars, schedVars
<1>21. ASSUME NEW c \in Cores, RescheduleOut(c) PROVE OnOneCore'
  BY <1>a, <1>21 DEF RescheduleOut, threadVars, pointVars, schedVars
<1>22. ASSUME NEW c \in Cores, RescheduleIdle(c) PROVE OnOneCore'
  BY <1>a, <1>22 DEF RescheduleIdle, threadVars, pointVars, schedVars
<1>23. ASSUME NEW c \in Cores, SwitchLock(c) PROVE OnOneCore'
  <2>1. PICK t \in Threads : SwitchesFrom(c, t)
    BY <1>23, SwitchLockEffect, Zenon
  <2> QED
    BY <1>a, <2>1 DEF SwitchesFrom
<1>24. ASSUME NEW c \in Cores, SwitchSetRun(c) PROVE OnOneCore'
  <2>1. PICK t \in Threads : SetsRunSelf(c, t)
    BY <1>24, SwitchSetRunEffect, Zenon
  <2> QED
    BY <1>a, <2>1 DEF SetsRunSelf, RunQueueTyped
<1>25. ASSUME NEW c \in Cores, SwitchSave(c) PROVE OnOneCore'
  BY <1>a, <1>25 DEF SwitchSave, threadVars, pointVars, schedVars
<1>26. ASSUME NEW c \in Cores, SwitchLeave(c) PROVE OnOneCore'
  BY <1>a, <1>26 DEF SwitchLeave, threadVars, pointVars, schedVars
<1>27. ASSUME NEW c \in Cores, Select(c) PROVE OnOneCore'
  <2>1. PICK t \in Threads : SelectsThread(c, t)
    BY <1>27, SelectEffect, Zenon
  <2> QED
    BY <1>a, <2>1 DEF SelectsThread
<1>28. ASSUME NEW c \in Cores, Selected(c) PROVE OnOneCore'
  BY <1>a, <1>28 DEF Selected, threadVars, pointVars, schedVars
<1>29. ASSUME NEW c \in Cores, AlarmExpire(c) PROVE OnOneCore'
  BY <1>a, <1>29 DEF AlarmExpire, threadVars, pointVars, schedVars
<1>30. ASSUME NEW c \in Cores, InterruptEnd(c) PROVE OnOneCore'
  BY <1>a, <1>30 DEF InterruptEnd, threadVars, pointVars, schedVars
<1>31. ASSUME NEW c \in Cores, Interrupt(c) PROVE OnOneCore'
  BY <1>a, <1>31 DEF Interrupt, threadVars, pointVars, schedVars
<1>32. CASE UNCHANGED vars
  BY <1>a, <1>32 DEF vars, coreVars, threadVars, pointVars, schedVars
<1> QED
  BY <1>1, <1>2, <1>3, <1>4, <1>5, <1>6, <1>7, <1>8, <1>9, <1>10, <1>11,
     <1>12, <1>13, <1>14, <1>15, <1>16, <1>17, <1>18, <1>19, <1>20, <1>21,
     <1>22, <1>23, <1>24, <1>25, <1>26, <1>27, <1>28, <1>29, <1>30, <1>31,
     <1>32 DEF Next, Call, Step

(* The steps that move no thread between states or queues. *)
MovesNothing(c) ==
    \/ CallYield(c) \/ CallSleep(c) \/ CallExit(c)
    \/ \E u \in Threads : CallStart(c, u) \/ CallJoin(c, u)
    \/ StartUnlock(c) \/ ExitVal(c) \/ ExitUnlock(c)
    \/ SleepReturn(c) \/ SleepTest(c)
    \/ Wakeup(c) \/ WakeDone(c) \/ WakeUnlock(c) \/ WakeBusy(c) \/ WakeWait(c)
    \/ RescheduleStay(c) \/ RescheduleOut(c) \/ RescheduleIdle(c)
    \/ SwitchLock(c) \/ SwitchSave(c) \/ Selected(c)
    \/ AlarmExpire(c) \/ InterruptEnd(c) \/ Interrupt(c)

(* They leave states, queues and the threads of the cores as they are.       *)
LEMMA MovesNothingFrame ==
  ASSUME NEW c \in Cores, MovesNothing(c)
  PROVE  UNCHANGED <<state, prio, rendezvous, queue, runQueue, runQueueBits, self>>
BY DEF MovesNothing, CallYield, CallSleep, CallExit, CallStart, CallJoin, StartUnlock,
       ExitVal, ExitUnlock, SleepReturn, SleepTest, Wakeup, WakeDone, WakeUnlock,
       WakeBusy, WakeWait, RescheduleStay, RescheduleOut, RescheduleIdle, SwitchLock,
       SwitchSave, Selected, AlarmExpire, InterruptEnd, Interrupt, threadVars,
       pointVars, schedVars

(* Every other step is one of seven.                                         *)
LEMMA NextMoves ==
  ASSUME Next
  PROVE  \E c \in Cores :
            \/ MovesNothing(c) \/ Start(c) \/ Exit(c) \/ SleepEnqueue(c) \/ WakeFirst(c)
            \/ SwitchSetRun(c) \/ SwitchLeave(c) \/ Select(c)
BY Zenon DEF Next, Call, Step, MovesNothing

(* exit() ends the running thread and leaves the queues alone.               *)
LEMMA ExitEffect ==
  ASSUME IndInv, NEW c \in Cores, Exit(c)
  PROVE  /\ self[c] \in Threads /\ state[self[c]] = "RUNNING"
         /\ state' = [state EXCEPT ![self[c]] = "TERMINATED"]
         /\ UNCHANGED <<prio, rendezvous, queue, runQueue, runQueueBits, self>>
BY DEF IndInv, Places, ThreadAt, OwnCode, Exit, At, SetState, pointVars, schedVars

(* A core leaves a thread only when that thread has stopped running.         *)
LEMMA SwitchLeaveEffect ==
  ASSUME IndInv, NEW c \in Cores, SwitchLeave(c)
  PROVE  /\ self[c] \in Threads /\ state[self[c]] # "RUNNING"
         /\ self' = [self EXCEPT ![c] = NoThread]
         /\ UNCHANGED <<state, prio, rendezvous, queue, runQueue, runQueueBits>>
BY DEF IndInv, Places, ThreadAt, SwitchLeave, At, pointVars, schedVars

(* The run queue stays exact. *)
LEMMA RunQueueStep ==
  ASSUME IndInv, [Next]_vars
  PROVE  RunQueueExact'
<1>a. TypeOK /\ FieldsOK /\ RunQueueExact
  BY DEF IndInv, TypeOK
<1>b. state \in [Threads -> {"NEW", "RUNNABLE", "RUNNING", "WAITING", "TERMINATED"}]
  BY <1>a DEF TypeOK, FieldsOK
<1>1. ASSUME UNCHANGED <<state, prio, runQueue, runQueueBits>> PROVE RunQueueExact'
  BY <1>a, <1>1, RunQueueFrame
<1>2. ASSUME NEW c \in Cores, MovesNothing(c) PROVE RunQueueExact'
  BY <1>1, <1>2, MovesNothingFrame
<1>3. ASSUME NEW c \in Cores, Start(c) PROVE RunQueueExact'
  BY <1>3, StartEffect
<1>4. ASSUME NEW c \in Cores, Exit(c) PROVE RunQueueExact'
  <2>1. \A t \in Threads : state'[t] = "RUNNABLE" <=> state[t] = "RUNNABLE"
    BY <1>4, <1>b, ExitEffect
  <2> QED
    BY <1>a, <1>4, <2>1, ExitEffect, RunQueueFrame
<1>5. ASSUME NEW c \in Cores, SleepEnqueue(c) PROVE RunQueueExact'
  <2>1. PICK t \in Threads : QueuesSelf(c, t)
    BY <1>5, SleepEnqueueEffect
  <2>2. \A u \in Threads : state'[u] = "RUNNABLE" <=> state[u] = "RUNNABLE"
    BY <1>b, <2>1 DEF QueuesSelf
  <2>3. UNCHANGED <<prio, runQueue, runQueueBits>>
    BY <2>1 DEF QueuesSelf
  <2> QED
    BY <1>a, <2>2, <2>3, RunQueueFrame
<1>6. ASSUME NEW c \in Cores, WakeFirst(c) PROVE RunQueueExact'
  BY <1>6, WakeFirstEffect
<1>7. ASSUME NEW c \in Cores, SwitchSetRun(c) PROVE RunQueueExact'
  BY <1>7, SwitchSetRunEffect
<1>8. ASSUME NEW c \in Cores, SwitchLeave(c) PROVE RunQueueExact'
  BY <1>1, <1>8, SwitchLeaveEffect
<1>9. ASSUME NEW c \in Cores, Select(c) PROVE RunQueueExact'
  BY <1>9, SelectEffect
<1>10. CASE UNCHANGED vars
  BY <1>1, <1>10 DEF vars, threadVars, schedVars
<1> QED
  BY <1>2, <1>3, <1>4, <1>5, <1>6, <1>7, <1>8, <1>9, <1>10, NextMoves

(* The wait queues stay exact. *)
LEMMA WaitQueueStep ==
  ASSUME IndInv, [Next]_vars
  PROVE  WaitQueueExact'
<1>a. TypeOK /\ FieldsOK /\ WaitQueueExact
  BY DEF IndInv, TypeOK
<1>b. state \in [Threads -> {"NEW", "RUNNABLE", "RUNNING", "WAITING", "TERMINATED"}]
  BY <1>a DEF TypeOK, FieldsOK
<1>1. ASSUME UNCHANGED <<state, prio, queue, rendezvous>> PROVE WaitQueueExact'
  BY <1>a, <1>1, WaitQueueFrame
<1>2. ASSUME NEW c \in Cores, MovesNothing(c) PROVE WaitQueueExact'
  BY <1>1, <1>2, MovesNothingFrame
<1>3. ASSUME NEW c \in Cores, Start(c) PROVE WaitQueueExact'
  <2>1. PICK t \in Threads : StartsThread(c, t)
    BY <1>3, StartEffect
  <2>2. \A u \in Threads : state'[u] = "WAITING" <=> state[u] = "WAITING"
    BY <1>b, <2>1 DEF StartsThread
  <2>3. UNCHANGED <<prio, queue, rendezvous>>
    BY <2>1 DEF StartsThread
  <2> QED
    BY <1>a, <2>2, <2>3, WaitQueueFrame
<1>4. ASSUME NEW c \in Cores, Exit(c) PROVE WaitQueueExact'
  <2>1. \A t \in Threads : state'[t] = "WAITING" <=> state[t] = "WAITING"
    BY <1>4, <1>b, ExitEffect
  <2> QED
    BY <1>a, <1>4, <2>1, ExitEffect, WaitQueueFrame
<1>5. ASSUME NEW c \in Cores, SleepEnqueue(c) PROVE WaitQueueExact'
  BY <1>5, SleepEnqueueEffect
<1>6. ASSUME NEW c \in Cores, WakeFirst(c) PROVE WaitQueueExact'
  BY <1>6, WakeFirstEffect
<1>7. ASSUME NEW c \in Cores, SwitchSetRun(c) PROVE WaitQueueExact'
  <2>1. PICK t \in Threads : SetsRunSelf(c, t)
    BY <1>7, SwitchSetRunEffect
  <2>2. \A u \in Threads : state'[u] = "WAITING" <=> state[u] = "WAITING"
    BY <1>b, <2>1 DEF SetsRunSelf
  <2>3. UNCHANGED <<prio, queue, rendezvous>>
    BY <2>1 DEF SetsRunSelf
  <2> QED
    BY <1>a, <2>2, <2>3, WaitQueueFrame
<1>8. ASSUME NEW c \in Cores, SwitchLeave(c) PROVE WaitQueueExact'
  BY <1>1, <1>8, SwitchLeaveEffect
<1>9. ASSUME NEW c \in Cores, Select(c) PROVE WaitQueueExact'
  <2>1. PICK t \in Threads : SelectsThread(c, t)
    BY <1>9, SelectEffect
  <2>2. \A u \in Threads : state'[u] = "WAITING" <=> state[u] = "WAITING"
    BY <1>b, <2>1 DEF SelectsThread
  <2>3. UNCHANGED <<prio, queue, rendezvous>>
    BY <2>1 DEF SelectsThread
  <2> QED
    BY <1>a, <2>2, <2>3, WaitQueueFrame
<1>10. CASE UNCHANGED vars
  BY <1>1, <1>10 DEF vars, threadVars, pointVars
<1> QED
  BY <1>2, <1>3, <1>4, <1>5, <1>6, <1>7, <1>8, <1>9, <1>10, NextMoves

(* A thread waits at its own sleep point only. *)
LEMMA SleepPointStep ==
  ASSUME IndInv, [Next]_vars
  PROVE  SleepsAtOwnPoint'
<1> USE BootAssumption, NullAssumption, PointAssumption DEF TypeOK, FieldsOK, Places,
        ThreadAt, LocalsAt, PeerAt, Exiting, Handling, OwnCode, WakeCode,
        ThreadLocks, Holds, Goto, At, SetLock, SetState, SetRun, Free,
        Running, Points, JoinPoint, SleepPoint, OnOneCore, SleepsAtOwnPoint,
        OwnSleepPoint
<1>a. TypeOK /\ Places /\ OnOneCore /\ SleepsAtOwnPoint
  BY DEF IndInv
<1>1. ASSUME NEW c \in Cores, CallYield(c) PROVE SleepsAtOwnPoint'
  BY <1>a, <1>1 DEF CallYield, threadVars, pointVars, schedVars
<1>2. ASSUME NEW c \in Cores, CallSleep(c) PROVE SleepsAtOwnPoint'
  BY <1>a, <1>2 DEF CallSleep, threadVars, pointVars, schedVars
<1>3. ASSUME NEW c \in Cores, CallExit(c) PROVE SleepsAtOwnPoint'
  BY <1>a, <1>3 DEF CallExit, threadVars, pointVars, schedVars
<1>4. ASSUME NEW c \in Cores, NEW u \in Threads, CallStart(c, u) PROVE SleepsAtOwnPoint'
  BY <1>a, <1>4 DEF CallStart, threadVars, pointVars, schedVars
<1>5. ASSUME NEW c \in Cores, NEW u \in Threads, CallJoin(c, u) PROVE SleepsAtOwnPoint'
  BY <1>a, <1>5 DEF CallJoin, threadVars, pointVars, schedVars
<1>6. ASSUME NEW c \in Cores, Start(c) PROVE SleepsAtOwnPoint'
  <2>1. PICK t \in Threads : StartsThread(c, t)
    BY <1>6, StartEffect, Zenon
  <2> QED
    BY <1>a, <2>1 DEF StartsThread, RunQueueTyped
<1>7. ASSUME NEW c \in Cores, StartUnlock(c) PROVE SleepsAtOwnPoint'
  BY <1>a, <1>7 DEF StartUnlock, threadVars, pointVars, schedVars
<1>8. ASSUME NEW c \in Cores, Exit(c) PROVE SleepsAtOwnPoint'
  BY <1>a, <1>8 DEF Exit, threadVars, pointVars, schedVars
<1>9. ASSUME NEW c \in Cores, ExitVal(c) PROVE SleepsAtOwnPoint'
  BY <1>a, <1>9 DEF ExitVal, threadVars, pointVars, schedVars
<1>10. ASSUME NEW c \in Cores, ExitUnlock(c) PROVE SleepsAtOwnPoint'
  BY <1>a, <1>10 DEF ExitUnlock, threadVars, pointVars, schedVars
<1>11. ASSUME NEW c \in Cores, SleepReturn(c) PROVE SleepsAtOwnPoint'
  BY <1>a, <1>11 DEF SleepReturn, threadVars, pointVars, schedVars
<1>12. ASSUME NEW c \in Cores, SleepTest(c) PROVE SleepsAtOwnPoint'
  BY <1>a, <1>12 DEF SleepTest, threadVars, pointVars, schedVars
<1>13. ASSUME NEW c \in Cores, SleepEnqueue(c) PROVE SleepsAtOwnPoint'
  <2>1. PICK t \in Threads : QueuesSelf(c, t)
    BY <1>13, SleepEnqueueEffect, Zenon
  <2> QED
    BY <1>a, <2>1 DEF QueuesSelf
<1>14. ASSUME NEW c \in Cores, Wakeup(c) PROVE SleepsAtOwnPoint'
  BY <1>a, <1>14 DEF Wakeup, threadVars, pointVars, schedVars
<1>15. ASSUME NEW c \in Cores, WakeDone(c) PROVE SleepsAtOwnPoint'
  <2>1. pc'[c] \in {"isr", "exitUnlock"} /\ \A d \in Cores \ {c} : pc'[d] = pc[d]
    BY <1>a, <1>15 DEF WakeDone
  <2> QED
    BY <1>a, <1>15, <2>1 DEF WakeDone, threadVars
<1>16. ASSUME NEW c \in Cores, WakeFirst(c) PROVE SleepsAtOwnPoint'
  <2>1. PICK t \in Threads : WakesThread(c, t)
    BY <1>16, WakeFirstEffect, Zenon
  <2> QED
    BY <1>a, <2>1 DEF WakesThread, RunQueueTyped
<1>17. ASSUME NEW c \in Cores, WakeUnlock(c) PROVE SleepsAtOwnPoint'
  BY <1>a, <1>17 DEF WakeUnlock, threadVars, pointVars, schedVars
<1>18. ASSUME NEW c \in Cores, WakeBusy(c) PROVE SleepsAtOwnPoint'
  BY <1>a, <1>18 DEF WakeBusy, threadVars, pointVars, schedVars
<1>19. ASSUME NEW c \in Cores, WakeWait(c) PROVE SleepsAtOwnPoint'
  BY <1>a, <1>19 DEF WakeWait, threadVars, pointVars, schedVars
<1>20. ASSUME NEW c \in Cores, RescheduleStay(c) PROVE SleepsAtOwnPoint'
  BY <1>a, <1>20 DEF RescheduleStay, threadVars, pointVars, schedVars
<1>21. ASSUME NEW c \in Cores, RescheduleOut(c) PROVE SleepsAtOwnPoint'
  BY <1>a, <1>21 DEF RescheduleOut, threadVars, pointVars, schedVars
<1>22. ASSUME NEW c \in Cores, RescheduleIdle(c) PROVE SleepsAtOwnPoint'
  BY <1>a, <1>22 DEF RescheduleIdle, threadVars, pointVars, schedVars
<1>23. ASSUME NEW c \in Cores, SwitchLock(c) PROVE SleepsAtOwnPoint'
  <2>1. PICK t \in Threads : SwitchesFrom(c, t)
    BY <1>23, SwitchLockEffect, Zenon
  <2> QED
    BY <1>a, <2>1 DEF SwitchesFrom
<1>24. ASSUME NEW c \in Cores, SwitchSetRun(c) PROVE SleepsAtOwnPoint'
  <2>1. PICK t \in Threads : SetsRunSelf(c, t)
    BY <1>24, SwitchSetRunEffect, Zenon
  <2> QED
    BY <1>a, <2>1 DEF SetsRunSelf, RunQueueTyped
<1>25. ASSUME NEW c \in Cores, SwitchSave(c) PROVE SleepsAtOwnPoint'
  BY <1>a, <1>25 DEF SwitchSave, threadVars, pointVars, schedVars
<1>26. ASSUME NEW c \in Cores, SwitchLeave(c) PROVE SleepsAtOwnPoint'
  BY <1>a, <1>26 DEF SwitchLeave, threadVars, pointVars, schedVars
<1>27. ASSUME NEW c \in Cores, Select(c) PROVE SleepsAtOwnPoint'
  <2>1. PICK t \in Threads : SelectsThread(c, t)
    BY <1>27, SelectEffect, Zenon
  <2> QED
    BY <1>a, <2>1 DEF SelectsThread
<1>28. ASSUME NEW c \in Cores, Selected(c) PROVE SleepsAtOwnPoint'
  BY <1>a, <1>28 DEF Selected, threadVars, pointVars, schedVars
<1>29. ASSUME NEW c \in Cores, AlarmExpire(c) PROVE SleepsAtOwnPoint'
  BY <1>a, <1>29 DEF AlarmExpire, threadVars, pointVars, schedVars
<1>30. ASSUME NEW c \in Cores, InterruptEnd(c) PROVE SleepsAtOwnPoint'
  BY <1>a, <1>30 DEF InterruptEnd, threadVars, pointVars, schedVars
<1>31. ASSUME NEW c \in Cores, Interrupt(c) PROVE SleepsAtOwnPoint'
  BY <1>a, <1>31 DEF Interrupt, threadVars, pointVars, schedVars
<1>32. CASE UNCHANGED vars
  BY <1>a, <1>32 DEF vars, coreVars, threadVars, pointVars, schedVars
<1> QED
  BY <1>1, <1>2, <1>3, <1>4, <1>5, <1>6, <1>7, <1>8, <1>9, <1>10, <1>11,
     <1>12, <1>13, <1>14, <1>15, <1>16, <1>17, <1>18, <1>19, <1>20, <1>21,
     <1>22, <1>23, <1>24, <1>25, <1>26, <1>27, <1>28, <1>29, <1>30, <1>31,
     <1>32 DEF Next, Call, Step

(* A step that touches neither the waiting nor the waking keeps the promise. *)
Quiet ==
    /\ \A r \in Points : queue'[r] # <<>> => queue[r] # <<>>
    /\ \A t \in Threads : state'[t] = "TERMINATED" => state[t] = "TERMINATED"
    /\ \A t \in Threads : alarm'[t] \in {alarm[t], "pending", "due"}
    /\ \A t \in Threads : alarm[t] = "due" => alarm'[t] = "due"
    /\ \A d \in Cores :
          /\ pc'[d] = "enqueue" => pc[d] = "enqueue" /\ point'[d] = point[d]
          /\ pc[d] \in WakeCode => pc'[d] \in WakeCode /\ point'[d] = point[d]
          /\ pc[d] = "exitVal" => pc'[d] = "exitVal" /\ current'[d] = current[d]

Promised(r) ==
    (\E c \in Cores : Waking(c, r)) \/ (r[1] = "sleepPoint" /\ alarm[r[2]] = "due")

(* Whoever is promised a wake-up before such a step still is after it.       *)
LEMMA QuietKeeps ==
  ASSUME NoLostWakeup, Quiet
  PROVE  NoLostWakeup'
<1> SUFFICES ASSUME NEW r \in Points, Awaited(r)', Condition(r)' PROVE Promised(r)'
  BY DEF NoLostWakeup, Promised
<1>1. r[1] \in {"joinPoint", "sleepPoint"} /\ r[2] \in Threads
  BY DEF Points
<1>2. Awaited(r)
  BY DEF Quiet, Awaited, At
<1>3. CASE r[1] = "sleepPoint" /\ alarm'[r[2]] = "due"
  BY <1>3, Zenon DEF Promised
<1>4. CASE ~(r[1] = "sleepPoint" /\ alarm'[r[2]] = "due")
  <2>1. Condition(r) /\ ~(r[1] = "sleepPoint" /\ alarm[r[2]] = "due")
    BY <1>1, <1>4 DEF Quiet, Condition
  <2>2. PICK d \in Cores : Waking(d, r)
    BY <1>2, <2>1 DEF NoLostWakeup
  <2>3. Waking(d, r)'
    BY <2>2 DEF Quiet, Waking, WakeCode, At
  <2> QED
    BY <2>3 DEF Promised
<1> QED
  BY <1>3, <1>4

(* Nobody waits at the sleep point of a thread that is running.              *)
LEMMA SleepPointEmpty ==
  ASSUME IndInv, NEW t \in Threads, state[t] = "RUNNING"
  PROVE  queue[SleepPoint(t)] = <<>>
<1> DEFINE r == SleepPoint(t)
           h == Head(queue[r])
<1> SUFFICES ASSUME queue[r] # <<>> PROVE FALSE
  OBVIOUS
<1>1. r \in Points /\ r[1] = "sleepPoint" /\ r[2] = t
  BY DEF SleepPoint, Points
<1>2. TypeOK /\ FieldsOK /\ WaitQueueExact /\ SleepsAtOwnPoint
  BY DEF IndInv, TypeOK
<1> HIDE DEF r
<1>3. h \in Threads /\ state[h] = "WAITING" /\ rendezvous[h] = r
  BY <1>1, <1>2, WaitQueueHead, Zenon
<1> HIDE DEF h
<1>4. h = t
  BY <1>1, <1>2, <1>3 DEF SleepsAtOwnPoint, OwnSleepPoint
<1> QED
  BY <1>3, <1>4

(* Nor does another thread get ready to wait there.                          *)
LEMMA EnqueuesAtOwnPoint ==
  ASSUME IndInv, NEW d \in Cores, pc[d] = "enqueue", NEW r \in Points, point[d] = r,
         r[1] = "sleepPoint"
  PROVE  self[d] = r[2]
BY Zenon DEF IndInv, SleepsAtOwnPoint, OwnSleepPoint

(* A wake-up that is due stays due until it is made. *)
LEMMA NoLostWakeupStep ==
  ASSUME IndInv, [Next]_vars
  PROVE  NoLostWakeup'
<1> USE BootAssumption, NullAssumption, PointAssumption DEF TypeOK, FieldsOK, Places,
        ThreadAt, LocalsAt, PeerAt, Exiting, Handling, OwnCode, WakeCode,
        ThreadLocks, Holds, Goto, At, SetLock, SetState, SetRun, Free,
        Running, Points, JoinPoint, SleepPoint
<1>a. TypeOK /\ Places /\ PointLocks /\ OnOneCore /\ SleepsAtOwnPoint /\ NoLostWakeup
  BY DEF IndInv
<1>1. ASSUME NEW c \in Cores, CallYield(c) PROVE Quiet
  BY <1>a, <1>1 DEF Quiet, CallYield, threadVars, pointVars, schedVars
<1>2. ASSUME NEW c \in Cores, CallSleep(c) PROVE NoLostWakeup'
  <2> SUFFICES ASSUME NEW r \in Points, Awaited(r)', Condition(r)' PROVE Promised(r)'
    BY DEF NoLostWakeup, Promised
  <2>1. r[1] \in {"joinPoint", "sleepPoint"} /\ r[2] \in Threads
        /\ r = <<r[1], r[2]>>
    BY DEF Points
  <2> DEFINE t == self[c]
  <2>2. /\ t \in Threads /\ state[t] = "RUNNING" /\ current[c] = t /\ pc[c] = "thread"
        /\ UNCHANGED <<state, queue, current>>
        /\ pc' = [pc EXCEPT ![c] = "sleep"]
        /\ point' = [point EXCEPT ![c] = SleepPoint(t)]
    BY <1>a, <1>2 DEF CallSleep, pointVars
  <2>8. \A u \in Threads : u # t => alarm'[u] = alarm[u]
    BY <1>a, <2>2, <1>2 DEF CallSleep
  <2> HIDE DEF t
  <2>3. Awaited(r)
    BY <1>a, <2>2 DEF Awaited
  <2>4. r # SleepPoint(t)
    <3> SUFFICES ASSUME r = SleepPoint(t) PROVE FALSE
      OBVIOUS
    <3>1. queue[r] = <<>>
      BY <2>2, SleepPointEmpty, Zenon
    <3>2. PICK d \in Cores : pc[d] = "enqueue" /\ point[d] = r
      BY <2>3, <3>1 DEF Awaited
    <3>3. r[1] = "sleepPoint" /\ r[2] = t
      OBVIOUS
    <3>4. self[d] = t
      BY <3>2, <3>3, EnqueuesAtOwnPoint
    <3>5. self[c] = t /\ t # NoThread
      BY <2>2 DEF t
    <3>6. c = d
      BY <1>a, <3>4, <3>5 DEF OnOneCore
    <3> QED
      BY <2>2, <3>2, <3>6
  <2>5. Condition(r) /\ (r[1] = "sleepPoint" => alarm'[r[2]] = alarm[r[2]])
    BY <2>1, <2>2, <2>4, <2>8 DEF Condition
  <2>6. Promised(r)
    BY <1>a, <2>3, <2>5, Zenon DEF NoLostWakeup, Promised
  <2>7. ASSUME NEW d \in Cores, Waking(d, r) PROVE Waking(d, r)'
    BY <1>a, <2>2, <2>7 DEF Waking
  <2> QED
    BY <2>5, <2>6, <2>7 DEF Promised
<1>3. ASSUME NEW c \in Cores, CallExit(c) PROVE Quiet
  BY <1>a, <1>3 DEF Quiet, CallExit, threadVars, pointVars, schedVars
<1>4. ASSUME NEW c \in Cores, NEW u \in Threads, CallStart(c, u) PROVE Quiet
  BY <1>a, <1>4 DEF Quiet, CallStart, threadVars, pointVars, schedVars
<1>5. ASSUME NEW c \in Cores, NEW u \in Threads, CallJoin(c, u) PROVE Quiet
  BY <1>a, <1>5 DEF Quiet, CallJoin, threadVars, pointVars, schedVars
<1>6. ASSUME NEW c \in Cores, Start(c) PROVE Quiet
  <2>1. PICK t \in Threads : StartsThread(c, t)
    BY <1>6, StartEffect, Zenon
  <2> QED
    BY <1>a, <2>1 DEF StartsThread, Quiet
<1>7. ASSUME NEW c \in Cores, StartUnlock(c) PROVE Quiet
  BY <1>a, <1>7 DEF Quiet, StartUnlock, threadVars, pointVars, schedVars
<1>8. ASSUME NEW c \in Cores, Exit(c) PROVE NoLostWakeup'
  <2> SUFFICES ASSUME NEW r \in Points, Awaited(r)', Condition(r)' PROVE Promised(r)'
    BY DEF NoLostWakeup, Promised
  <2>1. r[1] \in {"joinPoint", "sleepPoint"} /\ r[2] \in Threads
        /\ r = <<r[1], r[2]>>
    BY DEF Points
  <2> DEFINE t == self[c]
  <2>2. /\ t \in Threads /\ current[c] = t /\ pc[c] = "exit"
        /\ UNCHANGED <<queue, current, point, alarm>>
        /\ pc' = [pc EXCEPT ![c] = "exitVal"]
        /\ \A u \in Threads : u # t => state'[u] = state[u]
    BY <1>a, <1>8 DEF Exit, pointVars
  <2> HIDE DEF t
  <2>3. CASE r = JoinPoint(t)
    <3>1. Waking(c, r)'
      BY <1>a, <2>2, <2>3 DEF Waking
    <3> QED
      BY <3>1 DEF Promised
  <2>4. CASE r # JoinPoint(t)
    <3>1. Awaited(r) /\ Condition(r)
      BY <1>a, <2>1, <2>2, <2>4 DEF Awaited, Condition
    <3>2. Promised(r)
      BY <1>a, <3>1, Zenon DEF NoLostWakeup, Promised
    <3>3. ASSUME NEW d \in Cores, Waking(d, r) PROVE Waking(d, r)'
      BY <1>a, <2>2, <3>3 DEF Waking
    <3> QED
      BY <2>2, <3>2, <3>3 DEF Promised
  <2> QED
    BY <2>3, <2>4
<1>9. ASSUME NEW c \in Cores, ExitVal(c) PROVE NoLostWakeup'
  <2> SUFFICES ASSUME NEW r \in Points, Awaited(r)', Condition(r)' PROVE Promised(r)'
    BY DEF NoLostWakeup, Promised
  <2>1. r[1] \in {"joinPoint", "sleepPoint"} /\ r[2] \in Threads
        /\ r = <<r[1], r[2]>>
    BY DEF Points
  <2>2. /\ pc[c] = "exitVal"
        /\ UNCHANGED <<queue, current, state, alarm>>
        /\ pc' = [pc EXCEPT ![c] = "wakeup"]
        /\ point' = [point EXCEPT ![c] = JoinPoint(current[c])]
    BY <1>a, <1>9 DEF ExitVal, pointVars
  <2>3. Awaited(r) /\ Condition(r)
    BY <1>a, <2>1, <2>2 DEF Awaited, Condition
  <2>4. Promised(r)
    BY <1>a, <2>3, Zenon DEF NoLostWakeup, Promised
  <2>5. ASSUME NEW d \in Cores, Waking(d, r) PROVE Waking(d, r)'
    BY <1>a, <2>2, <2>5 DEF Waking
  <2> QED
    BY <2>2, <2>4, <2>5 DEF Promised
<1>10. ASSUME NEW c \in Cores, ExitUnlock(c) PROVE Quiet
  BY <1>a, <1>10 DEF Quiet, ExitUnlock, threadVars, pointVars, schedVars
<1>11. ASSUME NEW c \in Cores, SleepReturn(c) PROVE Quiet
  BY <1>a, <1>11 DEF Quiet, SleepReturn, threadVars, pointVars, schedVars
<1>12. ASSUME NEW c \in Cores, SleepTest(c) PROVE NoLostWakeup'
  <2> SUFFICES ASSUME NEW r \in Points, Awaited(r)', Condition(r)' PROVE Promised(r)'
    BY DEF NoLostWakeup, Promised
  <2>1. r[1] \in {"joinPoint", "sleepPoint"} /\ r[2] \in Threads
        /\ r = <<r[1], r[2]>>
    BY DEF Points
  <2>2. /\ pc[c] = "sleep" /\ ~Condition(point[c])
        /\ UNCHANGED <<queue, current, state, alarm, point>>
        /\ pc' = [pc EXCEPT ![c] = "enqueue"]
    BY <1>a, <1>12 DEF SleepTest, threadVars
  <2>3. Condition(r)
    BY <2>2 DEF Condition
  <2>4. Awaited(r)
    BY <1>a, <2>2, <2>3 DEF Awaited
  <2>5. Promised(r)
    BY <1>a, <2>3, <2>4, Zenon DEF NoLostWakeup, Promised
  <2>6. ASSUME NEW d \in Cores, Waking(d, r) PROVE Waking(d, r)'
    BY <1>a, <2>2, <2>6 DEF Waking
  <2> QED
    BY <2>2, <2>5, <2>6 DEF Promised
<1>13. ASSUME NEW c \in Cores, SleepEnqueue(c) PROVE NoLostWakeup'
  <2> SUFFICES ASSUME NEW r \in Points, Awaited(r)', Condition(r)' PROVE Promised(r)'
    BY DEF NoLostWakeup, Promised
  <2>1. r[1] \in {"joinPoint", "sleepPoint"} /\ r[2] \in Threads
        /\ r = <<r[1], r[2]>>
    BY DEF Points
  <2>2. PICK t \in Threads : QueuesSelf(c, t)
    BY <1>13, SleepEnqueueEffect, Zenon
  <2>3. Awaited(r) /\ Condition(r)
    BY <1>a, <2>1, <2>2 DEF QueuesSelf, Awaited, Condition
  <2>4. Promised(r)
    BY <1>a, <2>3, Zenon DEF NoLostWakeup, Promised
  <2>5. ASSUME NEW d \in Cores, Waking(d, r) PROVE Waking(d, r)'
    BY <1>a, <2>2, <2>5 DEF QueuesSelf, Waking
  <2> QED
    BY <2>2, <2>4, <2>5 DEF QueuesSelf, Promised
<1>14. ASSUME NEW c \in Cores, Wakeup(c) PROVE Quiet
  BY <1>a, <1>14 DEF Quiet, Wakeup, threadVars, pointVars, schedVars
<1>15. ASSUME NEW c \in Cores, WakeDone(c) PROVE NoLostWakeup'
  <2> SUFFICES ASSUME NEW r \in Points, Awaited(r)', Condition(r)' PROVE Promised(r)'
    BY DEF NoLostWakeup, Promised
  <2>1. r[1] \in {"joinPoint", "sleepPoint"} /\ r[2] \in Threads
        /\ r = <<r[1], r[2]>>
    BY DEF Points
  <2>2. /\ pc[c] = "wake" /\ queue[point[c]] = <<>> /\ point[c] \in Points
        /\ UNCHANGED <<queue, current, state, alarm, point>>
        /\ pc'[c] \in {"isr", "exitUnlock"}
        /\ \A d \in Cores \ {c} : pc'[d] = pc[d]
    BY <1>a, <1>15 DEF WakeDone, threadVars
  <2>3. Awaited(r) /\ Condition(r)
    BY <1>a, <2>1, <2>2 DEF Awaited, Condition
  <2>4. r # point[c]
    <3> SUFFICES ASSUME r = point[c] PROVE FALSE
      OBVIOUS
    <3>1. PICK d \in Cores : pc[d] = "enqueue" /\ point[d] = r
      BY <2>2, <2>3 DEF Awaited
    <3>2. rlock[r] = d /\ rlock[r] = c
      BY <1>a, <2>2, <3>1 DEF PointLocks, HoldsPoint
    <3> QED
      BY <2>2, <3>1, <3>2
  <2>5. Promised(r)
    BY <1>a, <2>3, Zenon DEF NoLostWakeup, Promised
  <2>6. ASSUME NEW d \in Cores, Waking(d, r) PROVE Waking(d, r)'
    BY <1>a, <2>2, <2>4, <2>6 DEF Waking
  <2> QED
    BY <2>2, <2>5, <2>6 DEF Promised
<1>16. ASSUME NEW c \in Cores, WakeFirst(c) PROVE Quiet
  <2>1. PICK t \in Threads : WakesThread(c, t)
    BY <1>16, WakeFirstEffect, Zenon
  <2> QED
    BY <1>a, <2>1 DEF WakesThread, Quiet
<1>17. ASSUME NEW c \in Cores, WakeUnlock(c) PROVE Quiet
  BY <1>a, <1>17 DEF Quiet, WakeUnlock, threadVars, pointVars, schedVars
<1>18. ASSUME NEW c \in Cores, WakeBusy(c) PROVE Quiet
  BY <1>a, <1>18 DEF Quiet, WakeBusy, threadVars, pointVars, schedVars
<1>19. ASSUME NEW c \in Cores, WakeWait(c) PROVE Quiet
  BY <1>a, <1>19 DEF Quiet, WakeWait, threadVars, pointVars, schedVars
<1>20. ASSUME NEW c \in Cores, RescheduleStay(c) PROVE Quiet
  BY <1>a, <1>20 DEF Quiet, RescheduleStay, threadVars, pointVars, schedVars
<1>21. ASSUME NEW c \in Cores, RescheduleOut(c) PROVE Quiet
  BY <1>a, <1>21 DEF Quiet, RescheduleOut, threadVars, pointVars, schedVars
<1>22. ASSUME NEW c \in Cores, RescheduleIdle(c) PROVE Quiet
  BY <1>a, <1>22 DEF Quiet, RescheduleIdle, threadVars, pointVars, schedVars
<1>23. ASSUME NEW c \in Cores, SwitchLock(c) PROVE Quiet
  <2>1. PICK t \in Threads : SwitchesFrom(c, t)
    BY <1>23, SwitchLockEffect, Zenon
  <2> QED
    BY <1>a, <2>1 DEF SwitchesFrom, Quiet
<1>24. ASSUME NEW c \in Cores, SwitchSetRun(c) PROVE Quiet
  <2>1. PICK t \in Threads : SetsRunSelf(c, t)
    BY <1>24, SwitchSetRunEffect, Zenon
  <2> QED
    BY <1>a, <2>1 DEF SetsRunSelf, Quiet
<1>25. ASSUME NEW c \in Cores, SwitchSave(c) PROVE Quiet
  BY <1>a, <1>25 DEF Quiet, SwitchSave, threadVars, pointVars, schedVars
<1>26. ASSUME NEW c \in Cores, SwitchLeave(c) PROVE Quiet
  BY <1>a, <1>26 DEF Quiet, SwitchLeave, threadVars, pointVars, schedVars
<1>27. ASSUME NEW c \in Cores, Select(c) PROVE Quiet
  <2>1. PICK t \in Threads : SelectsThread(c, t)
    BY <1>27, SelectEffect, Zenon
  <2> QED
    BY <1>a, <2>1 DEF SelectsThread, Quiet
<1>28. ASSUME NEW c \in Cores, Selected(c) PROVE Quiet
  BY <1>a, <1>28 DEF Quiet, Selected, threadVars, pointVars, schedVars
<1>29. ASSUME NEW c \in Cores, AlarmExpire(c) PROVE NoLostWakeup'
  <2> SUFFICES ASSUME NEW r \in Points, Awaited(r)', Condition(r)' PROVE Promised(r)'
    BY DEF NoLostWakeup, Promised
  <2>1. r[1] \in {"joinPoint", "sleepPoint"} /\ r[2] \in Threads
        /\ r = <<r[1], r[2]>>
    BY DEF Points
  <2>2. PICK t \in Threads :
          /\ alarm' = [alarm EXCEPT ![t] = "off"]
          /\ point' = [point EXCEPT ![c] = SleepPoint(t)]
    BY <1>29 DEF AlarmExpire
  <2>3. /\ pc[c] = "isr"
        /\ UNCHANGED <<queue, current, state>>
        /\ pc' = [pc EXCEPT ![c] = "wakeup"]
    BY <1>a, <1>29 DEF AlarmExpire, pointVars
  <2>4. CASE r = SleepPoint(t)
    <3>1. Waking(c, r)'
      BY <1>a, <2>2, <2>3, <2>4 DEF Waking
    <3> QED
      BY <3>1 DEF Promised
  <2>5. CASE r # SleepPoint(t)
    <3>1. r[1] = "sleepPoint" => alarm'[r[2]] = alarm[r[2]]
      BY <1>a, <2>1, <2>2, <2>5
    <3>2. Awaited(r) /\ Condition(r)
      BY <1>a, <2>1, <2>2, <2>3, <3>1 DEF Awaited, Condition
    <3>3. Promised(r)
      BY <1>a, <3>2, Zenon DEF NoLostWakeup, Promised
    <3>4. ASSUME NEW d \in Cores, Waking(d, r) PROVE Waking(d, r)'
      BY <1>a, <2>2, <2>3, <3>4 DEF Waking
    <3> QED
      BY <3>1, <3>3, <3>4 DEF Promised
  <2> QED
    BY <2>4, <2>5
<1>30. ASSUME NEW c \in Cores, InterruptEnd(c) PROVE Quiet
  BY <1>a, <1>30 DEF Quiet, InterruptEnd, threadVars, pointVars, schedVars
<1>31. ASSUME NEW c \in Cores, Interrupt(c) PROVE Quiet
  BY <1>a, <1>31 DEF Quiet, Interrupt, threadVars, pointVars, schedVars
<1>32. ASSUME UNCHANGED vars PROVE Quiet
  BY <1>a, <1>32 DEF Quiet, vars, coreVars, threadVars, pointVars, schedVars
<1>b. Quiet => NoLostWakeup'
  BY <1>a, QuietKeeps, Zenon
<1> QED
  BY <1>1, <1>2, <1>3, <1>4, <1>5, <1>6, <1>7, <1>8, <1>9, <1>10, <1>11,
     <1>12, <1>13, <1>14, <1>15, <1>16, <1>17, <1>18, <1>19, <1>20, <1>21,
     <1>22, <1>23, <1>24, <1>25, <1>26, <1>27, <1>28, <1>29, <1>30, <1>31,
     <1>32, <1>b DEF Next, Call, Step

-----------------------------------------------------------------------------
(* The state that esInit() sets up satisfies the invariant.                  *)
LEMMA InitHolds == Init => IndInv
<1> SUFFICES ASSUME Init PROVE IndInv
  OBVIOUS
<1> USE BootAssumption, NullAssumption, PointAssumption DEF Init
<1>1. TypeOK
  <2>1. <<>> \in Seq(Threads)
    OBVIOUS
  <2>2. queue \in [Points -> Seq(Threads)] /\ runQueue \in [Prios -> Seq(Threads)]
    BY <2>1
  <2> QED
    BY <2>2 DEF TypeOK, FieldsOK
<1>2. Places
  BY DEF Places, ThreadAt, LocalsAt, PeerAt, Exiting, Handling, OwnCode, WakeCode
<1>3. ThreadLocks
  BY DEF ThreadLocks, Holds, Exiting, WakeCode
<1>4. PointLocks
  BY DEF PointLocks, HoldsPoint
<1>5. OnOneCore
  BY DEF OnOneCore
<1>6. RunQueueExact
  BY DEF RunQueueExact
<1>7. WaitQueueExact
  BY DEF WaitQueueExact
<1>8. SleepsAtOwnPoint
  BY DEF SleepsAtOwnPoint, OwnSleepPoint
<1>9. NoLostWakeup
  BY DEF NoLostWakeup, Awaited, At
<1> QED
  BY <1>1, <1>2, <1>3, <1>4, <1>5, <1>6, <1>7, <1>8, <1>9 DEF IndInv

(* Every step keeps the invariant.                                           *)
LEMMA StepKeeps ==
  ASSUME IndInv, [Next]_vars
  PROVE  IndInv'
BY TypeStep, PlacesStep, ThreadLocksStep, PointLocksStep, OnOneCoreStep, RunQueueStep,
   WaitQueueStep, SleepPointStep, NoLostWakeupStep, Zenon
DEF IndInv

(* So it holds always.                                                       *)
LEMMA InvariantHolds == Spec => []IndInv
BY InitHolds, StepKeeps, PTL DEF Spec

(* The types of Thread, Rendezvous, Sched and Core hold. *)
THEOREM DispatchTypes == Spec => []TypeOK
<1>1. IndInv => TypeOK
  BY DEF IndInv
<1> QED
  BY <1>1, InvariantHolds, PTL

(* No thread is ever on two cores: the lock that a thread's core keeps until *)
(* Core::reschedule() has saved its context excludes selectThread().         *)
THEOREM DispatchOnOneCore == Spec => []OnOneCore
<1>1. IndInv => OnOneCore
  BY DEF IndInv
<1> QED
  BY <1>1, InvariantHolds, PTL

(* Sched::setRun() and Sched::selectThread() keep the run queue, its bit map *)
(* and the states of the threads in agreement.                               *)
THEOREM DispatchRunQueueExact == Spec => []RunQueueExact
<1>1. IndInv => RunQueueExact
  BY DEF IndInv
<1> QED
  BY <1>1, InvariantHolds, PTL

(* Rendezvous::sleep() and Rendezvous::wakeup() keep the wait queues and the *)
(* states of the threads in agreement, and the queues in order of priority.  *)
THEOREM DispatchWaitQueueExact == Spec => []WaitQueueExact
<1>1. IndInv => WaitQueueExact
  BY DEF IndInv
<1> QED
  BY <1>1, InvariantHolds, PTL

(* No wakeup() is lost between the test of a condition and the queueing of   *)
(* the thread in Rendezvous::sleep().                                        *)
THEOREM DispatchNoLostWakeup == Spec => []NoLostWakeup
<1>1. IndInv => NoLostWakeup
  BY DEF IndInv
<1> QED
  BY <1>1, InvariantHolds, PTL

(* Every Lock::unlock() of thread and rendezvous point code releases a lock  *)
(* that the same core has taken.                                             *)
THEOREM DispatchUnlocksOwnLock == Spec => []UnlocksOwnLock
<1>1. ASSUME IndInv PROVE UnlocksOwnLock
  <2> SUFFICES ASSUME NEW c \in Cores
               PROVE  /\ pc[c] \in {"startUnlock", "wakeUnlock"} => tlock[peer[c]] = c
                      /\ pc[c] \in {"leave", "selected", "exitUnlock"} => tlock[self[c]] = c
                      /\ pc[c] \in {"wake", "wakeUnlock", "enqueue"} => rlock[point[c]] = c
                      /\ At(c, "reschedule") /\ self[c] # NoThread
                            /\ state[self[c]] = "RUNNING" => Free(tlock[self[c]])
    BY DEF UnlocksOwnLock
  <2>a. TypeOK /\ ThreadAt(c) /\ LocalsAt(c) /\ ThreadLocks /\ PointLocks
    BY <1>1 DEF IndInv, Places
  <2>1. pc[c] \in {"startUnlock", "wakeUnlock"} => tlock[peer[c]] = c
    BY <2>a DEF LocalsAt, ThreadLocks, Holds
  <2>2. pc[c] \in {"leave", "selected", "exitUnlock"} => tlock[self[c]] = c
    BY <2>a DEF ThreadAt, ThreadLocks, Holds, Exiting
  <2>3. pc[c] \in {"wake", "wakeUnlock", "enqueue"} => rlock[point[c]] = c
    BY <2>a DEF LocalsAt, WakeCode, PointLocks, HoldsPoint
  <2>4. ASSUME pc[c] = "reschedule", self[c] # NoThread, state[self[c]] = "RUNNING"
        PROVE  tlock[self[c]] = NoCore
    <3>1. self[c] \in Threads
      BY <2>a, <2>4 DEF TypeOK, FieldsOK
    <3>2. ASSUME NEW d \in Cores, tlock[self[c]] = d PROVE FALSE
      <4>1. Holds(d, self[c])
        BY <2>a, <3>1, <3>2 DEF ThreadLocks
      <4>2. ~(pc[d] \in {"startUnlock", "wakeUnlock"} /\ peer[d] = self[c])
        BY <1>1, <2>4 DEF IndInv, Places, PeerAt
      <4>3. d = c
        BY <1>1, <2>4, <4>1, <4>2 DEF IndInv, OnOneCore, Holds
      <4> QED
        BY <2>4, <4>1, <4>2, <4>3 DEF Holds, Exiting, WakeCode
    <3> QED
      BY <2>a, <3>1, <3>2 DEF TypeOK, FieldsOK
  <2> QED
    BY <2>1, <2>2, <2>3, <2>4 DEF At, Free
<1> QED
  BY <1>1, InvariantHolds, PTL

(* Every step of the dispatcher is a step in the life of a thread, or none. *)
LEMMA StepRefines ==
  ASSUME IndInv, [Next]_vars
  PROVE  [Life!Next]_Life!vars
<1> USE DEF Life!Next, Life!vars
<1>1. ASSUME NEW c \in Cores, MovesNothing(c) PROVE UNCHANGED Life!vars
  BY <1>1, MovesNothingFrame
<1>2. ASSUME NEW c \in Cores, Start(c) PROVE Life!Next
  <2>1. PICK t \in Threads : StartsThread(c, t)
    BY <1>2, StartEffect
  <2>2. Life!Start(t)
    BY <2>1 DEF StartsThread, Life!Start, Life!Move
  <2> QED
    BY <2>2
<1>3. ASSUME NEW c \in Cores, Exit(c) PROVE Life!Next
  <2>1. self[c] \in Threads /\ Life!Terminate(self[c])
    BY <1>3, ExitEffect DEF Life!Terminate, Life!Move
  <2> QED
    BY <2>1
<1>4. ASSUME NEW c \in Cores, SleepEnqueue(c) PROVE Life!Next
  <2>1. PICK t \in Threads : QueuesSelf(c, t)
    BY <1>4, SleepEnqueueEffect
  <2>2. Life!Block(t)
    BY <2>1 DEF QueuesSelf, Life!Block, Life!Executing, Life!Move
  <2> QED
    BY <2>2
<1>5. ASSUME NEW c \in Cores, WakeFirst(c) PROVE Life!Next
  <2>1. PICK t \in Threads : WakesThread(c, t)
    BY <1>5, WakeFirstEffect
  <2>2. Life!Wake(t)
    BY <2>1 DEF WakesThread, Life!Wake, Life!Move
  <2> QED
    BY <2>2
<1>6. ASSUME NEW c \in Cores, SwitchSetRun(c) PROVE Life!Next
  <2>1. PICK t \in Threads : SetsRunSelf(c, t)
    BY <1>6, SwitchSetRunEffect
  <2>2. Life!Preempt(t)
    BY <2>1 DEF SetsRunSelf, Life!Preempt, Life!Executing, Life!Move
  <2> QED
    BY <2>2
<1>7. ASSUME NEW c \in Cores, SwitchLeave(c) PROVE Life!Next
  <2>1. Life!Leave(c)
    BY <1>7, SwitchLeaveEffect, NullAssumption DEF Life!Leave
  <2> QED
    BY <2>1
<1>8. ASSUME NEW c \in Cores, Select(c) PROVE Life!Next
  <2>1. PICK t \in Threads : SelectsThread(c, t)
    BY <1>8, SelectEffect
  <2>2. self[c] = NoThread
    BY <2>1 DEF IndInv, Places, ThreadAt, SelectsThread
  <2>3. Life!Dispatch(c, t)
    BY <2>1, <2>2 DEF SelectsThread, Life!Dispatch, Life!Executing, Life!Move
  <2> QED
    BY <2>3
<1>9. CASE UNCHANGED vars
  BY <1>9 DEF vars, threadVars, coreVars
<1> QED
  BY <1>1, <1>2, <1>3, <1>4, <1>5, <1>6, <1>7, <1>8, <1>9, NextMoves

(* The dispatcher implements the life cycle of es::Thread. *)
THEOREM DispatchRefines == Spec => ImplementsThreadLife
<1>1. Init => Life!Init
  BY DEF Init, Life!Init
<1> QED
  BY <1>1, InvariantHolds, StepRefines, PTL DEF Spec, ImplementsThreadLife, Life!Spec

-----------------------------------------------------------------------------
(* ThreadControl on one core. *)

(* The places in the code that Dispatch does not have. *)
CancelCode == {"cancel", "cancelDeferred", "cancelAsync", "cancelKill", "cancelUnlock"}
PriorityCode == {"updatePriority", "setEffective", "updateUnlock", "updated"}

ControlPlaces ==
    OwnCode \cup WakeCode \cup CancelCode \cup PriorityCode \cup
    {"exitVal", "exitUnlock", "killUnlock", "reschedule", "switch", "setRun",
     "save", "leave", "select", "selected", "isr"}

(* Where the only core is: its place, its thread, the thread and the point   *)
(* it works on, and where wakeup() returns to.                               *)
Place == pc[BootCore]
Me == self[BootCore]
Other == peer[BootCore]
Spot == point[BootCore]
Back == after[BootCore]

MeExits == Exiting(BootCore)
MeInterrupted == Handling(BootCore)
MeKills == Place = "killUnlock" \/ (Place \in WakeCode /\ Back = "killUnlock")

ControlTypes ==
    /\ ControlTypeOK
    /\ pc \in [Cores -> ControlPlaces]

(* What each place in the code knows of the core's thread ...                *)
ThreadKnown ==
    /\ Place \in OwnCode \cup CancelCode \cup PriorityCode =>
          Me \in Threads /\ current[BootCore] = Me /\ state[Me] = "RUNNING"
    /\ MeExits => Me \in Threads /\ current[BootCore] = Me /\ state[Me] = "TERMINATED"
    /\ MeKills => /\ Me \in Threads /\ current[BootCore] = Me
                  /\ state[Me] \in {"RUNNING", "TERMINATED"}
    /\ MeInterrupted /\ Me \in Threads => state[Me] = "RUNNING"
    /\ Place = "reschedule" => current[BootCore] = Me
    /\ Place = "switch" => Me \in Threads
    /\ Place \in {"reschedule", "switch"} /\ Me \in Threads =>
          state[Me] \in {"RUNNING", "WAITING", "TERMINATED"}
    /\ Place \in {"setRun", "selected"} => Me \in Threads /\ state[Me] = "RUNNING"
    /\ Place = "save" => Me \in Threads /\ state[Me] \in {"RUNNABLE", "WAITING"}
    /\ Place = "leave" =>
          Me \in Threads /\ state[Me] \in {"RUNNABLE", "WAITING", "TERMINATED"}
    /\ Place = "select" => Me = NoThread
    /\ Me \in Threads /\ Place # "leave" => core[Me] = BootCore
    /\ \A t \in Threads : state[t] = "RUNNING" => t = Me

(* ... and of its local variables: the thread and the point it works on.     *)
LocalsKnown ==
    /\ Place \in WakeCode \cup {"sleep", "enqueue"} => Spot \in Points
    /\ MeKills => Spot \in Points /\ Spot[1] = "joinPoint" /\ state[Spot[2]] = "TERMINATED"
    /\ Place \in CancelCode \cup PriorityCode \cup {"start", "startUnlock", "wakeUnlock"} =>
          Other \in Threads
    /\ Place = "wakeUnlock" => state[Other] = "RUNNABLE"
    /\ Place = "cancelKill" => state[Other] = "RUNNING"
    /\ Place # "wakeWait"
    /\ Back = "exitUnlock" => MeExits
    /\ Back = "killUnlock" => MeKills
    /\ MeExits /\ Place # "exitVal" => Back = "exitUnlock"
    /\ Place = "killUnlock" => Back = "killUnlock"

(* Exactly these locks are held. *)
LockHeld(t) ==
    \/ /\ Place \in {"startUnlock", "wakeUnlock", "cancelDeferred", "cancelAsync",
                     "cancelKill", "cancelUnlock", "setEffective", "updateUnlock"}
       /\ Other = t
    \/ MeKills /\ Spot[2] = t
    \/ /\ Me = t
       /\ \/ MeExits
          \/ Place \in {"setRun", "save", "leave", "selected"}
          \/ Place \in {"reschedule", "switch"} /\ state[t] = "WAITING"

ThreadLocksKnown == \A t \in Threads : tlock[t] # NoCore <=> LockHeld(t)
PointLocksKnown == \A r \in Points : rlock[r] # NoCore <=> HoldsPoint(BootCore, r)
LocksKnown == ThreadLocksKnown /\ PointLocksKnown

(* selectThread() has found the queues empty as long as the hint is not set. *)
HintKnown == ~runQueueHint => runQueueBits = {}

(* Only its own thread ever waits at a sleep point, and a core in thread     *)
(* code works on no point.                                                   *)
SpotsKnown ==
    /\ \A t \in Threads : OwnSleepPoint(label[t], t) /\ OwnSleepPoint(rendezvous[t], t)
    /\ Place \in CancelCode \cup PriorityCode \cup
                 {"thread", "start", "startUnlock", "exit"} => Spot = NoPoint
    /\ Place = "reschedule" /\ Me \in Threads /\ state[Me] = "RUNNING" => Spot = NoPoint
    /\ Place \in {"sleep", "enqueue", "reschedule"} => OwnSleepPoint(Spot, Me)

(* No wake-up is lost. *)
WakeUpsKnown ==
    /\ Place = "enqueue" => ~Condition(Spot)
    /\ \A r \in Points : queue[r] # <<>> /\ Condition(r) =>
          Waking(BootCore, r) \/ (r[1] = "sleepPoint" /\ alarm[r[2]] = "due")

(* If no thread is cancelled, a thread stores its exit value, and the thread *)
(* that was selected is of the highest priority.                             *)
NobodyCancelled ==
    /\ Place \notin CancelCode /\ ~MeKills
    /\ \A t \in Threads : state[t] = "TERMINATED" =>
          val[t] \/ (Place = "exitVal" /\ Me = t)
    /\ Place \in {"thread", "sleep", "selected"} =>
          \A t \in Threads : state[t] = "RUNNABLE" => prio[t] <= prio[Me]

ControlInd ==
    /\ ControlTypes
    /\ ThreadKnown
    /\ LocalsKnown
    /\ LocksKnown
    /\ HintKnown
    /\ RunQueueExact
    /\ WaitQueueExact
    /\ SpotsKnown
    /\ WakeUpsKnown
    /\ "cancel" \notin Calls => NobodyCancelled

-----------------------------------------------------------------------------
(* The queues as sets of threads.                                            *)
NotBelow(f) == {x \in Threads \X Threads : f[x[1]] >= f[x[2]]}

RunQueueSets ==
    /\ runQueue \in [Prios -> Seq(Threads)]
    /\ \A p \in Prios :
          /\ p \in runQueueBits <=> runQueue[p] # <<>>
          /\ Once(runQueue[p])
          /\ ToSet(runQueue[p]) = {t \in Threads : state[t] = "RUNNABLE" /\ prio[t] = p}

WaitQueueSets ==
    /\ queue \in [Points -> Seq(Threads)]
    /\ \A t \in Threads : state[t] = "WAITING" => rendezvous[t] \in Points
    /\ \A r \in Points :
          /\ Once(queue[r])
          /\ Ordered(queue[r], NotBelow(prio))
          /\ ToSet(queue[r]) = {t \in Threads : state[t] = "WAITING" /\ rendezvous[t] = r}

LEMMA RunQueueIsSets ==
  ASSUME FieldsOK, RunQueueExact
  PROVE  RunQueueSets
<1>1. runQueue \in [Prios -> Seq(Threads)] /\ prio \in [Threads -> Prios]
  BY DEF FieldsOK
<1>2. ASSUME NEW p \in Prios
      PROVE  /\ p \in runQueueBits <=> runQueue[p] # <<>>
             /\ Once(runQueue[p])
             /\ ToSet(runQueue[p]) = {t \in Threads : state[t] = "RUNNABLE" /\ prio[t] = p}
  <2>1. runQueue[p] \in Seq(Threads)
    BY <1>1
  <2>2. /\ \A x : x \in ToSet(runQueue[p]) <=> \E i \in 1 .. Len(runQueue[p]) : runQueue[p][i] = x
        /\ ToSet(runQueue[p]) \subseteq Threads
    BY <2>1, ListElements
  <2>3. ASSUME NEW t \in Threads, state[t] = "RUNNABLE", prio[t] = p
        PROVE  \E i \in 1 .. Len(runQueue[p]) : runQueue[p][i] = t
    BY <2>3 DEF RunQueueExact, Queued
  <2> QED
    BY <2>2, <2>3 DEF RunQueueExact, Once
<1> QED
  BY <1>1, <1>2 DEF RunQueueSets

LEMMA RunQueueFromSets ==
  ASSUME RunQueueSets', prio' \in [Threads -> Prios]
  PROVE  RunQueueExact'
<1>1. ASSUME NEW p \in Prios
      PROVE  \A x : x \in ToSet(runQueue'[p]) <=> \E i \in 1 .. Len(runQueue'[p]) : runQueue'[p][i] = x
  BY ListElements DEF RunQueueSets
<1>2. ASSUME NEW t \in Threads, state'[t] = "RUNNABLE" PROVE Queued(t)'
  BY <1>1, <1>2 DEF RunQueueSets, Queued
<1>3. ASSUME NEW p \in Prios, NEW i \in 1 .. Len(runQueue'[p])
      PROVE  /\ state'[runQueue'[p][i]] = "RUNNABLE"
             /\ prio'[runQueue'[p][i]] = p
             /\ \A j \in 1 .. Len(runQueue'[p]) : runQueue'[p][i] = runQueue'[p][j] => i = j
  <2>1. runQueue'[p][i] \in ToSet(runQueue'[p])
    BY <1>1
  <2> QED
    BY <2>1 DEF RunQueueSets, Once
<1> QED
  BY <1>2, <1>3 DEF RunQueueSets, RunQueueExact

LEMMA WaitQueueIsSets ==
  ASSUME FieldsOK, WaitQueueExact
  PROVE  WaitQueueSets
<1>1. queue \in [Points -> Seq(Threads)] /\ prio \in [Threads -> Prios]
  BY DEF FieldsOK
<1>2. ASSUME NEW r \in Points
      PROVE  /\ Once(queue[r])
             /\ Ordered(queue[r], NotBelow(prio))
             /\ ToSet(queue[r]) = {t \in Threads : state[t] = "WAITING" /\ rendezvous[t] = r}
  <2>1. queue[r] \in Seq(Threads)
    BY <1>1
  <2>2. /\ \A x : x \in ToSet(queue[r]) <=> \E i \in 1 .. Len(queue[r]) : queue[r][i] = x
        /\ ToSet(queue[r]) \subseteq Threads
    BY <2>1, ListElements
  <2>3. ASSUME NEW t \in Threads, state[t] = "WAITING", rendezvous[t] = r
        PROVE  \E i \in 1 .. Len(queue[r]) : queue[r][i] = t
    BY <2>3 DEF WaitQueueExact
  <2>4. Once(queue[r])
    BY DEF WaitQueueExact, Once
  <2>5. \A i \in 1 .. Len(queue[r]) : queue[r][i] \in Threads
    BY <2>2
  <2>6. Ordered(queue[r], NotBelow(prio))
    BY <2>5 DEF WaitQueueExact, Ordered, NotBelow
  <2>7. ToSet(queue[r]) = {t \in Threads : state[t] = "WAITING" /\ rendezvous[t] = r}
    BY <2>2, <2>3 DEF WaitQueueExact
  <2> QED
    BY <2>4, <2>6, <2>7
<1>3. \A t \in Threads : state[t] = "WAITING" => rendezvous[t] \in Points
  BY DEF WaitQueueExact
<1> QED
  BY <1>1, <1>2, <1>3 DEF WaitQueueSets

LEMMA WaitQueueFromSets ==
  ASSUME WaitQueueSets'
  PROVE  WaitQueueExact'
<1>1. ASSUME NEW r \in Points
      PROVE  \A x : x \in ToSet(queue'[r]) <=> \E i \in 1 .. Len(queue'[r]) : queue'[r][i] = x
  BY ListElements DEF WaitQueueSets
<1>2. ASSUME NEW r \in Points, NEW i \in 1 .. Len(queue'[r])
      PROVE  /\ state'[queue'[r][i]] = "WAITING"
             /\ rendezvous'[queue'[r][i]] = r
             /\ \A j \in 1 .. Len(queue'[r]) :
                   /\ queue'[r][i] = queue'[r][j] => i = j
                   /\ i < j => prio'[queue'[r][i]] >= prio'[queue'[r][j]]
  <2>1. queue'[r][i] \in ToSet(queue'[r])
    BY <1>1
  <2>2. state'[queue'[r][i]] = "WAITING" /\ rendezvous'[queue'[r][i]] = r
    BY <2>1 DEF WaitQueueSets
  <2>3. ASSUME NEW j \in 1 .. Len(queue'[r]), i < j
        PROVE  prio'[queue'[r][i]] >= prio'[queue'[r][j]]
    <3>1. <<queue'[r][i], queue'[r][j]>> \in NotBelow(prio')
      BY <2>3 DEF WaitQueueSets, Ordered
    <3> QED
      BY <3>1 DEF NotBelow
  <2>4. \A j \in 1 .. Len(queue'[r]) : queue'[r][i] = queue'[r][j] => i = j
    BY DEF WaitQueueSets, Once
  <2> QED
    BY <2>2, <2>3, <2>4
<1>3. ASSUME NEW t \in Threads, state'[t] = "WAITING"
      PROVE  /\ rendezvous'[t] \in Points
             /\ \E i \in 1 .. Len(queue'[rendezvous'[t]]) : queue'[rendezvous'[t]][i] = t
  BY <1>1, <1>3 DEF WaitQueueSets
<1> QED
  BY <1>2, <1>3, Zenon DEF WaitQueueExact

(* Where a thread does not stand in a queue, its priority does not matter.   *)
LEMMA RunQueueRests ==
  ASSUME FieldsOK, RunQueueExact, prio' \in [Threads -> Prios],
         UNCHANGED <<runQueue, runQueueBits>>,
         \A t \in Threads : state'[t] = "RUNNABLE" <=> state[t] = "RUNNABLE",
         \A t \in Threads : state[t] = "RUNNABLE" => prio'[t] = prio[t]
  PROVE  RunQueueExact'
<1>1. RunQueueSets
  BY RunQueueIsSets
<1>2. RunQueueSets'
  BY <1>1 DEF RunQueueSets
<1> QED
  BY <1>2, RunQueueFromSets

LEMMA OrderRests ==
  ASSUME NEW q \in Seq(Threads), NEW f, NEW g, Ordered(q, NotBelow(f)),
         \A t \in ToSet(q) : g[t] = f[t]
  PROVE  Ordered(q, NotBelow(g))
BY ListElements DEF Ordered, NotBelow

LEMMA WaitQueueRests ==
  ASSUME FieldsOK, WaitQueueExact, UNCHANGED <<queue, rendezvous>>,
         \A t \in Threads : state'[t] = "WAITING" <=> state[t] = "WAITING",
         \A t \in Threads : state[t] = "WAITING" => prio'[t] = prio[t]
  PROVE  WaitQueueExact'
<1>1. WaitQueueSets
  BY WaitQueueIsSets
<1>2. ASSUME NEW r \in Points PROVE Ordered(queue[r], NotBelow(prio'))
  BY <1>1, OrderRests DEF WaitQueueSets
<1>3. WaitQueueSets'
  BY <1>1, <1>2 DEF WaitQueueSets
<1> QED
  BY <1>3, WaitQueueFromSets

(* What is left of a queue when a thread is taken off. *)
LEMMA WithoutLeaves ==
  ASSUME NEW q \in Seq(Threads), Once(q), NEW t
  PROVE  /\ Without(q, t) \in Seq(Threads)
         /\ ToSet(Without(q, t)) = ToSet(q) \ {t}
         /\ Once(Without(q, t))
<1>1. ToSet(q) \subseteq Threads
  BY ListElements
<1> QED
  BY <1>1, OnlyLists DEF Without

LEMMA EmptyIsNone ==
  ASSUME NEW S, NEW q \in Seq(S)
  PROVE  q = <<>> <=> ToSet(q) = {}
<1>1. q = <<>> <=> Len(q) = 0
  BY EmptySeq
<1>2. Len(q) \in Nat /\ \A x : x \in ToSet(q) <=> \E i \in 1 .. Len(q) : q[i] = x
  BY ListElements, LenProperties
<1>3. ASSUME Len(q) # 0 PROVE ToSet(q) # {}
  <2>1. 1 \in 1 .. Len(q)
    BY <1>2, <1>3
  <2> QED
    BY <2>1, <1>2
<1>4. ASSUME Len(q) = 0 PROVE ToSet(q) = {}
  BY <1>2, <1>4
<1> QED
  BY <1>1, <1>3, <1>4

(* Sched::unsetRun() of a thread that is runnable no more. *)
LEMMA UnsetRunKeeps ==
  ASSUME FieldsOK, RunQueueExact, NEW t \in Threads, state[t] = "RUNNABLE",
         UnsetRun(t), UNCHANGED prio, NEW s, s # "RUNNABLE", SetState(t, s)
  PROVE  RunQueueExact' /\ RunQueueTyped' /\ runQueueBits' \subseteq runQueueBits
<1> DEFINE p0 == prio[t]
           q0 == Without(runQueue[p0], t)
<1>1. p0 \in Prios /\ runQueue \in [Prios -> Seq(Threads)] /\ prio \in [Threads -> Prios]
      /\ runQueueBits \subseteq Prios /\ runQueueHint \in BOOLEAN
      /\ state \in [Threads -> {"NEW", "RUNNABLE", "RUNNING", "WAITING", "TERMINATED"}]
  BY DEF FieldsOK
<1>2. RunQueueSets
  BY RunQueueIsSets
<1>3. q0 \in Seq(Threads) /\ ToSet(q0) = ToSet(runQueue[p0]) \ {t} /\ Once(q0)
  BY <1>1, <1>2, WithoutLeaves DEF RunQueueSets
<1>4. /\ runQueue' = [runQueue EXCEPT ![p0] = q0]
      /\ runQueueBits' = IF q0 = <<>> THEN runQueueBits \ {p0} ELSE runQueueBits
      /\ runQueueHint' = runQueueHint
  BY DEF UnsetRun, BitsWithout
<1> HIDE DEF q0
<1>5. /\ runQueue' \in [Prios -> Seq(Threads)]
      /\ runQueue'[p0] = q0
      /\ \A p \in Prios \ {p0} : runQueue'[p] = runQueue[p]
  BY <1>1, <1>3, <1>4
<1>6. \A u \in Threads : state'[u] = "RUNNABLE" <=> state[u] = "RUNNABLE" /\ u # t
  BY <1>1 DEF SetState
<1>7. ASSUME NEW p \in Prios
      PROVE  /\ p \in runQueueBits' <=> runQueue'[p] # <<>>
             /\ Once(runQueue'[p])
             /\ ToSet(runQueue'[p]) = {u \in Threads : state'[u] = "RUNNABLE" /\ prio'[u] = p}
  <2>1. CASE p = p0
    <3>1. runQueue'[p] = q0 /\ Once(q0)
      BY <2>1, <1>3, <1>5
    <3>2. ToSet(runQueue[p]) = {u \in Threads : state[u] = "RUNNABLE" /\ prio[u] = p}
      BY <1>2 DEF RunQueueSets
    <3>3. ToSet(q0) = {u \in Threads : state'[u] = "RUNNABLE" /\ prio'[u] = p}
      BY <2>1, <3>2, <1>3, <1>6
    <3>4. p \in runQueueBits
      <4>1. t \in ToSet(runQueue[p])
        BY <3>2, <2>1
      <4>2. runQueue[p] # <<>>
        BY <4>1, <1>1, EmptyIsNone
      <4> QED
        BY <4>2, <1>2 DEF RunQueueSets
    <3> HIDE DEF p0
    <3> QED
      BY <2>1, <3>1, <3>3, <3>4, <1>4
  <2>2. CASE p # p0
    <3>1. runQueue'[p] = runQueue[p] /\ (p \in runQueueBits' <=> p \in runQueueBits)
      BY <2>2, <1>4, <1>5
    <3>2. /\ p \in runQueueBits <=> runQueue[p] # <<>>
          /\ Once(runQueue[p])
          /\ ToSet(runQueue[p]) = {u \in Threads : state[u] = "RUNNABLE" /\ prio[u] = p}
      BY <1>2 DEF RunQueueSets
    <3>3. {u \in Threads : state[u] = "RUNNABLE" /\ prio[u] = p}
             = {u \in Threads : state'[u] = "RUNNABLE" /\ prio'[u] = p}
      BY <2>2, <1>6
    <3> QED
      BY <3>1, <3>2, <3>3
  <2> QED
    BY <2>1, <2>2
<1>8. RunQueueSets'
  BY <1>5, <1>7, Zenon DEF RunQueueSets
<1>9. runQueueBits' \subseteq runQueueBits /\ runQueueBits' \subseteq Prios
  BY <1>1, <1>4
<1> QED
  BY <1>1, <1>4, <1>5, <1>8, <1>9, RunQueueFromSets DEF RunQueueTyped

(* Thread::setEffectivePriority() of a runnable thread: to the end of the    *)
(* queue of its new priority.                                                *)
LEMMA RequeueKeeps ==
  ASSUME FieldsOK, RunQueueExact, NEW t \in Threads, state[t] = "RUNNABLE",
         UNCHANGED state, NEW p1 \in Prios,
         prio' = [prio EXCEPT ![t] = p1],
         runQueue' = [[runQueue EXCEPT ![prio[t]] = Without(@, t)] EXCEPT ![p1] = Append(@, t)],
         runQueueBits' = {p1} \cup BitsWithout(t)
  PROVE  /\ RunQueueExact'
         /\ runQueue' \in [Prios -> Seq(Threads)]
         /\ runQueueBits' \subseteq Prios
<1> DEFINE p0 == prio[t]
           q0 == Without(runQueue[p0], t)
           Q == [runQueue EXCEPT ![p0] = q0]
           q1 == Append(Q[p1], t)
<1>1. p0 \in Prios /\ runQueue \in [Prios -> Seq(Threads)] /\ prio \in [Threads -> Prios]
      /\ runQueueBits \subseteq Prios
  BY DEF FieldsOK
<1>2. RunQueueSets
  BY RunQueueIsSets
<1>3. q0 \in Seq(Threads) /\ ToSet(q0) = ToSet(runQueue[p0]) \ {t} /\ Once(q0)
  BY <1>1, <1>2, WithoutLeaves DEF RunQueueSets
<1>4. /\ runQueue' = [Q EXCEPT ![p1] = q1]
      /\ runQueueBits' = {p1} \cup (IF q0 = <<>> THEN runQueueBits \ {p0} ELSE runQueueBits)
  BY DEF BitsWithout
<1> HIDE DEF q0
<1>5. /\ Q \in [Prios -> Seq(Threads)]
      /\ Q[p0] = q0
      /\ \A p \in Prios \ {p0} : Q[p] = runQueue[p]
  BY <1>1, <1>3
<1> HIDE DEF Q
<1>6. ASSUME NEW p \in Prios
      PROVE  /\ Once(Q[p])
             /\ ToSet(Q[p]) = {u \in Threads \ {t} : state[u] = "RUNNABLE" /\ prio[u] = p}
             /\ p # p1 => (p \in runQueueBits' <=> Q[p] # <<>>)
  <2>1. /\ p \in runQueueBits <=> runQueue[p] # <<>>
        /\ Once(runQueue[p])
        /\ ToSet(runQueue[p]) = {u \in Threads : state[u] = "RUNNABLE" /\ prio[u] = p}
    BY <1>2 DEF RunQueueSets
  <2>2. CASE p = p0
    <3>1. p \in runQueueBits
      <4>1. t \in ToSet(runQueue[p])
        BY <2>1, <2>2
      <4>2. runQueue[p] # <<>>
        BY <4>1, <1>1, EmptyIsNone
      <4> QED
        BY <4>2, <2>1
    <3>2. ToSet(q0) = {u \in Threads \ {t} : state[u] = "RUNNABLE" /\ prio[u] = p}
      BY <2>1, <2>2, <1>3
    <3> QED
      BY <2>2, <3>1, <3>2, <1>3, <1>4, <1>5
  <2>3. CASE p # p0
    <3>1. Q[p] = runQueue[p] /\ (p # p1 => (p \in runQueueBits' <=> p \in runQueueBits))
      BY <2>3, <1>4, <1>5
    <3>2. {u \in Threads : state[u] = "RUNNABLE" /\ prio[u] = p}
             = {u \in Threads \ {t} : state[u] = "RUNNABLE" /\ prio[u] = p}
      BY <2>3
    <3> QED
      BY <2>1, <3>1, <3>2
  <2> QED
    BY <2>2, <2>3
<1>7. /\ q1 \in Seq(Threads)
      /\ ToSet(q1) = ToSet(Q[p1]) \cup {t}
      /\ Once(q1)
  BY <1>5, <1>6, AppendLists
<1>8. /\ runQueue' \in [Prios -> Seq(Threads)]
      /\ runQueue'[p1] = q1
      /\ \A p \in Prios \ {p1} : runQueue'[p] = Q[p]
  BY <1>4, <1>5, <1>7
<1> HIDE DEF q1
<1>9. \A u \in Threads : prio'[u] = IF u = t THEN p1 ELSE prio[u]
  BY <1>1
<1>10. ASSUME NEW p \in Prios
       PROVE  /\ p \in runQueueBits' <=> runQueue'[p] # <<>>
              /\ Once(runQueue'[p])
              /\ ToSet(runQueue'[p]) = {u \in Threads : state'[u] = "RUNNABLE" /\ prio'[u] = p}
  <2>1. CASE p = p1
    <3>1. runQueue'[p] = q1
      BY <2>1, <1>8
    <3>2. ToSet(q1) = {u \in Threads : state'[u] = "RUNNABLE" /\ prio'[u] = p}
      BY <2>1, <1>6, <1>7, <1>9
    <3>3. q1 # <<>>
      BY <1>7, EmptyIsNone
    <3>4. p \in runQueueBits'
      BY <2>1, <1>4
    <3> QED
      BY <3>1, <3>2, <3>3, <3>4, <1>7
  <2>2. CASE p # p1
    <3>1. runQueue'[p] = Q[p]
      BY <2>2, <1>8
    <3>2. {u \in Threads \ {t} : state[u] = "RUNNABLE" /\ prio[u] = p}
             = {u \in Threads : state'[u] = "RUNNABLE" /\ prio'[u] = p}
      BY <2>2, <1>9
    <3> QED
      BY <2>2, <3>1, <3>2, <1>6
  <2> QED
    BY <2>1, <2>2
<1>11. RunQueueSets'
  BY <1>8, <1>10, Zenon DEF RunQueueSets
<1>12. runQueueBits' \subseteq Prios /\ prio' \in [Threads -> Prios]
  BY <1>1, <1>4
<1> QED
  BY <1>8, <1>11, <1>12, RunQueueFromSets

(* cancel() takes a thread off the point at which it waits. *)
LEMMA UnwaitKeeps ==
  ASSUME FieldsOK, WaitQueueExact, NEW t \in Threads, state[t] = "WAITING",
         queue' = [queue EXCEPT ![rendezvous[t]] = Without(@, t)],
         rendezvous' = [rendezvous EXCEPT ![t] = NoPoint],
         UNCHANGED prio, NEW s, s # "WAITING", SetState(t, s)
  PROVE  /\ WaitQueueExact'
         /\ queue' \in [Points -> Seq(Threads)]
         /\ \A r \in Points : queue'[r] # <<>> => queue[r] # <<>>
<1> DEFINE r0 == rendezvous[t]
           q0 == Without(queue[r0], t)
<1>1. queue \in [Points -> Seq(Threads)]
      /\ state \in [Threads -> {"NEW", "RUNNABLE", "RUNNING", "WAITING", "TERMINATED"}]
      /\ rendezvous \in [Threads -> Points \cup {NoPoint}]
  BY DEF FieldsOK
<1>2. WaitQueueSets
  BY WaitQueueIsSets
<1>3. r0 \in Points
  BY <1>2 DEF WaitQueueSets
<1>4. /\ Once(queue[r0]) /\ Ordered(queue[r0], NotBelow(prio))
      /\ ToSet(queue[r0]) = {u \in Threads : state[u] = "WAITING" /\ rendezvous[u] = r0}
  BY <1>2, <1>3 DEF WaitQueueSets
<1>5. q0 \in Seq(Threads) /\ ToSet(q0) = ToSet(queue[r0]) \ {t} /\ Once(q0)
  BY <1>1, <1>3, <1>4, WithoutLeaves
<1>6. Ordered(q0, NotBelow(prio))
  BY <1>1, <1>3, <1>4, OnlyOrdered DEF Without
<1> HIDE DEF q0
<1>7. /\ queue' \in [Points -> Seq(Threads)]
      /\ queue'[r0] = q0
      /\ \A r \in Points \ {r0} : queue'[r] = queue[r]
  BY <1>1, <1>3, <1>5 DEF q0
<1>8. \A u \in Threads : /\ state'[u] = "WAITING" <=> state[u] = "WAITING" /\ u # t
                         /\ u # t => rendezvous'[u] = rendezvous[u]
  BY <1>1 DEF SetState
<1>9. ASSUME NEW r \in Points
      PROVE  /\ Once(queue'[r])
             /\ Ordered(queue'[r], NotBelow(prio'))
             /\ ToSet(queue'[r]) = {u \in Threads : state'[u] = "WAITING" /\ rendezvous'[u] = r}
  <2>1. CASE r = r0
    <3>1. ToSet(q0) = {u \in Threads : state'[u] = "WAITING" /\ rendezvous'[u] = r}
      BY <2>1, <1>4, <1>5, <1>8
    <3> QED
      BY <2>1, <3>1, <1>5, <1>6, <1>7
  <2>2. CASE r # r0
    <3>1. queue'[r] = queue[r]
      BY <2>2, <1>7
    <3>2. {u \in Threads : state[u] = "WAITING" /\ rendezvous[u] = r}
             = {u \in Threads : state'[u] = "WAITING" /\ rendezvous'[u] = r}
      BY <2>2, <1>8
    <3> QED
      BY <3>1, <3>2, <1>2 DEF WaitQueueSets
  <2> QED
    BY <2>1, <2>2
<1>10. \A u \in Threads : state'[u] = "WAITING" => rendezvous'[u] \in Points
  BY <1>2, <1>8 DEF WaitQueueSets
<1>11. WaitQueueSets'
  BY <1>7, <1>9, <1>10, Zenon DEF WaitQueueSets
<1>12. t \in ToSet(queue[r0])
  BY <1>4
<1>13. \A r \in Points : queue'[r] # <<>> => queue[r] # <<>>
  BY <1>1, <1>3, <1>7, <1>12, EmptyIsNone
<1> QED
  BY <1>7, <1>11, <1>13, WaitQueueFromSets

(* A thread that is not on a queue is on it once when it is inserted. *)
LEMMA InsertAtOnce ==
  ASSUME NEW q \in Seq(Threads), Once(q), NEW t \in Threads, t \notin ToSet(q),
         NEW k \in 1 .. Len(q) + 1
  PROVE  Once(InsertAt(q, k, t))
<1> DEFINE a == InsertAt(q, k, t)
           old(i) == IF i < k THEN i ELSE i - 1
<1>1. /\ Len(a) = Len(q) + 1
      /\ \A i \in 1 .. Len(q) + 1 :
            a[i] = IF i < k THEN q[i] ELSE IF i = k THEN t ELSE q[i - 1]
      /\ Len(q) \in Nat
  BY InsertAtElements, LenProperties
<1> HIDE DEF a
<1>2. a[k] = t
  BY <1>1
<1>3. \A i \in 1 .. Len(a) : i # k => old(i) \in 1 .. Len(q) /\ a[i] = q[old(i)]
  BY <1>1
<1>4. \A i \in 1 .. Len(q) : q[i] # t
  BY ListElements
<1>5. ASSUME NEW i \in 1 .. Len(a), NEW j \in 1 .. Len(a), a[i] = a[j] PROVE i = j
  <2>1. CASE i = k \/ j = k
    BY <1>2, <1>3, <1>4, <1>5, <2>1
  <2>2. CASE i # k /\ j # k
    <3>1. old(i) = old(j)
      BY <1>3, <1>5, <2>2 DEF Once
    <3> QED
      BY <2>2, <3>1, <1>1
  <2> QED
    BY <2>1, <2>2
<1> QED
  BY <1>5 DEF Once, a

(* Thread::setEffectivePriority() of a thread that waits: to where its new   *)
(* priority belongs.                                                         *)
LEMMA MoveWaitingKeeps ==
  ASSUME FieldsOK, WaitQueueExact, NEW t \in Threads, state[t] = "WAITING",
         NEW p1 \in Prios, prio' = [prio EXCEPT ![t] = p1],
         queue' = [queue EXCEPT ![rendezvous[t]] = InsertPrio(Without(@, t), t, p1)],
         UNCHANGED <<state, rendezvous>>
  PROVE  /\ WaitQueueExact'
         /\ queue' \in [Points -> Seq(Threads)]
         /\ \A r \in Points : queue'[r] # <<>> => queue[r] # <<>>
<1> DEFINE r0 == rendezvous[t]
           q0 == Without(queue[r0], t)
           q1 == InsertPrio(q0, t, p1)
<1>1. queue \in [Points -> Seq(Threads)] /\ prio \in [Threads -> Prios]
  BY DEF FieldsOK
<1>2. WaitQueueSets
  BY WaitQueueIsSets
<1>3. r0 \in Points
  BY <1>2 DEF WaitQueueSets
<1>4. /\ Once(queue[r0]) /\ Ordered(queue[r0], NotBelow(prio))
      /\ ToSet(queue[r0]) = {u \in Threads : state[u] = "WAITING" /\ rendezvous[u] = r0}
  BY <1>2, <1>3 DEF WaitQueueSets
<1>5. q0 \in Seq(Threads) /\ ToSet(q0) = ToSet(queue[r0]) \ {t} /\ Once(q0)
  BY <1>1, <1>3, <1>4, WithoutLeaves
<1>6. Ordered(q0, NotBelow(prio))
  BY <1>1, <1>3, <1>4, OnlyOrdered DEF Without
<1> HIDE DEF q0
<1>7. \A u \in Threads : prio'[u] = IF u = t THEN p1 ELSE prio[u]
  BY <1>1
<1>8. ToSet(q0) \subseteq Threads /\ \A u \in ToSet(q0) : prio'[u] = prio[u]
  BY <1>5, <1>7, ListElements
<1>9. Ordered(q0, NotBelow(prio'))
  BY <1>5, <1>6, <1>8, OrderRests
<1>10. PICK k \in 1 .. Len(q0) + 1 :
         /\ q1 = InsertAt(q0, k, t)
         /\ \A i \in 1 .. Len(q0) : i < k => prio[q0[i]] >= p1
         /\ k <= Len(q0) => prio[q0[k]] < p1
  BY <1>5, InsertPrioPlace
<1>11. ASSUME NEW i \in 1 .. Len(q0)
       PROVE  IF i < k THEN <<q0[i], t>> \in NotBelow(prio') ELSE <<t, q0[i]>> \in NotBelow(prio')
  <2>1. q0[i] \in ToSet(q0) /\ q0[i] \in Threads
    BY <1>5, <1>8, ListElements
  <2>2. prio'[q0[i]] = prio[q0[i]] /\ prio'[t] = p1 /\ p1 \in Nat /\ prio[q0[i]] \in Nat
    BY <2>1, <1>1, <1>7, <1>8, PriosAssumption
  <2>3. CASE i < k
    BY <2>1, <2>2, <2>3, <1>10 DEF NotBelow
  <2>4. CASE ~(i < k)
    <3>1. Len(q0) \in Nat
      BY <1>5, LenProperties
    <3>2. k \in 1 .. Len(q0)
      BY <2>4, <3>1
    <3>3. prio[q0[k]] < p1 /\ prio[q0[k]] \in Nat
      <4>1. q0[k] \in Threads
        BY <3>2, <1>5, <1>8, ListElements
      <4> QED
        BY <4>1, <3>2, <1>1, <1>10, PriosAssumption
    <3>4. prio[q0[k]] >= prio[q0[i]]
      <4>1. CASE i = k
        BY <4>1, <3>3
      <4>2. CASE i # k
        <5>1. k < i
          BY <4>2, <2>4, <3>2
        <5>2. <<q0[k], q0[i]>> \in NotBelow(prio)
          BY <5>1, <3>2, <1>6 DEF Ordered
        <5> QED
          BY <5>2 DEF NotBelow
      <4> QED
        BY <4>1, <4>2
    <3> QED
      BY <2>1, <2>2, <2>4, <3>3, <3>4 DEF NotBelow
  <2> QED
    BY <2>3, <2>4
<1>12. /\ Ordered(q1, NotBelow(prio'))
       /\ ToSet(q1) = ToSet(q0) \cup {t}
  <2>1. \A i \in 1 .. Len(q0) : IF i < k THEN <<q0[i], t>> \in NotBelow(prio')
                                         ELSE <<t, q0[i]>> \in NotBelow(prio')
    BY <1>11
  <2>2. /\ Ordered(InsertAt(q0, k, t), NotBelow(prio'))
        /\ ToSet(InsertAt(q0, k, t)) = ToSet(q0) \cup {t}
    BY <1>5, <1>9, <2>1, InsertAtOrdered, ZenonT(30)
  <2> QED
    BY <1>10, <2>2
<1>13. q1 \in Seq(Threads)
  BY <1>5, InsertPrioElements
<1>14. Once(q1)
  BY <1>5, <1>10, InsertAtOnce
<1>15. t \in ToSet(queue[r0])
  BY <1>4
<1> HIDE DEF q1
<1>16. /\ queue' \in [Points -> Seq(Threads)]
       /\ queue'[r0] = q1
       /\ \A r \in Points \ {r0} : queue'[r] = queue[r]
  BY <1>1, <1>3, <1>13 DEF q0, q1
<1>17. ASSUME NEW r \in Points
       PROVE  /\ Once(queue'[r])
              /\ Ordered(queue'[r], NotBelow(prio'))
              /\ ToSet(queue'[r]) = {u \in Threads : state'[u] = "WAITING" /\ rendezvous'[u] = r}
  <2>1. CASE r = r0
    <3>1. ToSet(q1) = {u \in Threads : state'[u] = "WAITING" /\ rendezvous'[u] = r}
      BY <2>1, <1>4, <1>5, <1>12, <1>15
    <3> QED
      BY <2>1, <3>1, <1>12, <1>14, <1>16
  <2>2. CASE r # r0
    <3>1. /\ queue'[r] = queue[r] /\ queue[r] \in Seq(Threads) /\ Once(queue[r])
          /\ Ordered(queue[r], NotBelow(prio))
          /\ ToSet(queue[r]) = {u \in Threads : state[u] = "WAITING" /\ rendezvous[u] = r}
      BY <2>2, <1>1, <1>2, <1>16 DEF WaitQueueSets
    <3>2. \A u \in ToSet(queue[r]) : prio'[u] = prio[u]
      BY <2>2, <3>1, <1>7
    <3>3. Ordered(queue[r], NotBelow(prio'))
      BY <3>1, <3>2, OrderRests
    <3> QED
      BY <3>1, <3>3
  <2> QED
    BY <2>1, <2>2
<1>18. WaitQueueSets'
  BY <1>2, <1>16, <1>17, Zenon DEF WaitQueueSets
<1>19. \A r \in Points : queue'[r] # <<>> => queue[r] # <<>>
  BY <1>1, <1>3, <1>15, <1>16, EmptyIsNone
<1> QED
  BY <1>16, <1>18, <1>19, WaitQueueFromSets

-----------------------------------------------------------------------------
(* The steps of the only core. *)
LEMMA StepsAre ==
  ASSUME Cores = {BootCore}, [ControlNext]_controlVars
  PROVE  LET c == BootCore IN
         \/ UNCHANGED controlVars
         \/ /\ UNCHANGED <<base, attr>>
            /\ \/ CallYield(c) \/ CallSleep(c) \/ CallExit(c)
               \/ \E u \in Threads : CallStart(c, u) \/ CallJoin(c, u)
               \/ Step(c) \/ Interrupt(c)
         \/ SetCancelState(c) \/ SetCancelType(c) \/ TestCancel(c)
         \/ \E u \in Threads :
               \/ CallStartAgain(c, u) \/ CallCancel(c, u)
               \/ \E p \in Prios : CallSetPriority(c, u, p)
         \/ ControlStep(c)
BY Zenon DEF ControlNext, Next, Call, ControlCall

(* The queues, and what is sound about them. *)
QueuesSound ==
    /\ RunQueueTyped
    /\ queue \in [Points -> Seq(Threads)]
    /\ HintKnown
    /\ RunQueueExact
    /\ WaitQueueExact

(* A queue of a point only gets a thread from sleep(). *)
QueueGrows == \A r \in Points :
    queue'[r] # <<>> => queue[r] # <<>> \/ (Place = "enqueue" /\ r = Spot)

LEMMA QueuesAre ==
  ASSUME ControlInd
  PROVE  /\ FieldsOK /\ QueuesSound
         /\ ControlTypes /\ ThreadKnown /\ LocalsKnown
         /\ prio \in [Threads -> Prios] /\ base \in [Threads -> Prios]
         /\ state \in [Threads -> {"NEW", "RUNNABLE", "RUNNING", "WAITING", "TERMINATED"}]
BY DEF ControlInd, ControlTypes, ControlTypeOK, FieldsOK, QueuesSound, RunQueueTyped

(* The steps that leave every queue alone, and with it who is queued: a      *)
(* thread that runs may end, and its priority may change.                    *)
QueuesRest ==
    /\ UNCHANGED <<runQueue, runQueueBits, queue, rendezvous>>
    /\ (runQueueHint' = runQueueHint \/ runQueueHint' = TRUE)
    /\ \A t \in Threads : state[t] \in {"RUNNABLE", "WAITING"} \/ state'[t] \in {"RUNNABLE", "WAITING"}
          => state'[t] = state[t] /\ prio'[t] = prio[t]

LEMMA QueuesRestKeep ==
  ASSUME ControlInd, QueuesRest, prio' \in [Threads -> Prios]
  PROVE  QueuesSound' /\ QueueGrows
<1>1. FieldsOK /\ QueuesSound
  BY QueuesAre
<1>2. /\ UNCHANGED <<runQueue, runQueueBits, queue, rendezvous>>
      /\ (runQueueHint' = runQueueHint \/ runQueueHint' = TRUE)
      /\ \A t \in Threads : /\ state'[t] = "RUNNABLE" <=> state[t] = "RUNNABLE"
                            /\ state'[t] = "WAITING" <=> state[t] = "WAITING"
                            /\ state[t] = "RUNNABLE" => prio'[t] = prio[t]
                            /\ state[t] = "WAITING" => prio'[t] = prio[t]
  BY DEF QueuesRest
<1>3. RunQueueExact'
  BY <1>1, <1>2, RunQueueRests DEF QueuesSound
<1>4. WaitQueueExact'
  BY <1>1, <1>2, WaitQueueRests DEF QueuesSound
<1> QED
  <2>1. RunQueueTyped'
    BY <1>1, <1>2, Zenon DEF QueuesSound, RunQueueTyped
  <2>2. HintKnown'
    <3>1. runQueueHint \in BOOLEAN /\ (~runQueueHint => runQueueBits = {})
      BY <1>1 DEF QueuesSound, RunQueueTyped, HintKnown
    <3>2. CASE runQueueHint' = runQueueHint
      BY <1>2, <3>1, <3>2 DEF HintKnown
    <3>3. CASE runQueueHint' = TRUE
      BY <3>3 DEF HintKnown
    <3> QED
      BY <1>2, <3>2, <3>3
  <2> QED
    BY <1>1, <1>2, <1>3, <1>4, <2>1, <2>2 DEF QueuesSound, QueueGrows

(* Sched::setRun() of a thread that is not queued, at any place. *)
LEMMA SetRunSound ==
  ASSUME ControlInd, NEW t \in Threads, state[t] # "RUNNABLE", SetRun(t), UNCHANGED prio
  PROVE  RunQueueExact' /\ RunQueueTyped' /\ HintKnown'
<1>1. FieldsOK /\ RunQueueExact
  BY QueuesAre DEF QueuesSound
<1>2. runQueueHint' = TRUE
  BY DEF SetRun
<1> QED
  BY <1>1, <1>2, SetRunKeeps DEF RunQueueTyped, HintKnown

(* ... that leaves the threads that wait alone. *)
LEMMA SetRunAlone ==
  ASSUME ControlInd, NEW t \in Threads, state[t] \notin {"RUNNABLE", "WAITING"}, SetRun(t),
         UNCHANGED <<prio, queue, rendezvous>>
  PROVE  QueuesSound' /\ QueueGrows
<1>1. RunQueueExact' /\ RunQueueTyped' /\ HintKnown'
  BY SetRunSound
<1>2. FieldsOK /\ QueuesSound
  BY QueuesAre
<1>3. \A u \in Threads : state'[u] = "WAITING" <=> state[u] = "WAITING"
  BY <1>2 DEF FieldsOK, SetRun, SetState
<1>4. WaitQueueExact'
  BY <1>2, <1>3, WaitQueueRests DEF QueuesSound
<1> QED
  BY <1>1, <1>2, <1>4 DEF QueuesSound, QueueGrows

(* Sched::selectThread() takes a runnable thread. *)
TakesThread(t) ==
    /\ state[t] = "RUNNABLE" /\ state' = [state EXCEPT ![t] = "RUNNING"]
    /\ tlock[t] = NoCore /\ tlock' = [tlock EXCEPT ![t] = BootCore]
    /\ core' = [core EXCEPT ![t] = BootCore]
    /\ self' = [self EXCEPT ![BootCore] = t]
    /\ \A u \in Threads : state[u] = "RUNNABLE" => prio[u] <= prio[t]

LEMMA SelectTakes ==
  ASSUME ControlInd, Select(BootCore)
  PROVE  QueuesSound' /\ QueueGrows /\ \E t \in Threads : TakesThread(t)
<1>1. FieldsOK /\ QueuesSound
  BY QueuesAre
<1>2. PICK p \in runQueueBits :
        /\ \A q \in runQueueBits : q <= p
        /\ Free(tlock[Head(runQueue[p])])
        /\ SetLock(Head(runQueue[p]), BootCore)
        /\ runQueue' = [runQueue EXCEPT ![p] = Tail(runQueue[p])]
        /\ runQueueBits' = IF Tail(runQueue[p]) = <<>> THEN runQueueBits \ {p}
                                                      ELSE runQueueBits
        /\ SetState(Head(runQueue[p]), "RUNNING")
        /\ core' = [core EXCEPT ![Head(runQueue[p])] = BootCore]
        /\ self' = [self EXCEPT ![BootCore] = Head(runQueue[p])]
  BY Zenon DEF Select
<1>3. UNCHANGED <<prio, queue, rendezvous, runQueueHint>>
  BY DEF Select, pointVars
<1>4. /\ RunQueueExact'
      /\ runQueue' \in [Prios -> Seq(Threads)]
      /\ runQueueBits' \subseteq Prios
  BY <1>1, <1>2, <1>3, SelectKeeps, Zenon DEF QueuesSound
<1>5. Head(runQueue[p]) \in Threads /\ state[Head(runQueue[p])] = "RUNNABLE"
      /\ prio[Head(runQueue[p])] = p
  BY <1>1, RunQueueHead, Zenon DEF QueuesSound
<1>6. \A u \in Threads : state'[u] = "WAITING" <=> state[u] = "WAITING"
  BY <1>1, <1>2, <1>5 DEF FieldsOK, SetState
<1>7. WaitQueueExact'
  BY <1>1, <1>3, <1>6, WaitQueueRests DEF QueuesSound
<1>8. runQueueHint' \in BOOLEAN /\ (~runQueueHint' => runQueueBits' = {})
  BY <1>1, <1>2, <1>3 DEF FieldsOK, QueuesSound, HintKnown
<1>9. QueuesSound' /\ QueueGrows
  BY <1>1, <1>3, <1>4, <1>7, <1>8 DEF FieldsOK, QueuesSound, RunQueueTyped, HintKnown, QueueGrows
<1>10. ASSUME NEW u \in Threads, state[u] = "RUNNABLE" PROVE prio[u] <= p
  <2>1. runQueue[prio[u]] # <<>> /\ prio[u] \in Prios
    <3>1. prio[u] \in Prios /\ runQueue[prio[u]] \in Seq(Threads)
      BY <1>1 DEF FieldsOK
    <3>2. Queued(u)
      BY <1>1, <1>10 DEF QueuesSound, RunQueueExact
    <3> QED
      BY <3>1, <3>2, EmptySeq DEF Queued
  <2>2. prio[u] \in runQueueBits
    BY <1>1, <2>1 DEF QueuesSound, RunQueueExact
  <2> QED
    BY <1>2, <2>2
<1>11. TakesThread(Head(runQueue[p]))
  BY <1>2, <1>5, <1>10, Zenon DEF TakesThread, SetLock, SetState, Free
<1> QED
  BY <1>5, <1>9, <1>11

(* Rendezvous::wakeup() wakes the first that waits at the point. *)
WakesUp(t) ==
    /\ state[t] = "WAITING" /\ state' = [state EXCEPT ![t] = "RUNNABLE"]
    /\ tlock' = [tlock EXCEPT ![t] = BootCore]
    /\ rendezvous' = [rendezvous EXCEPT ![t] = NoPoint]
    /\ peer' = [peer EXCEPT ![BootCore] = t]

LEMMA WakeFirstWakes ==
  ASSUME ControlInd, WakeFirst(BootCore)
  PROVE  QueuesSound' /\ QueueGrows /\ \E t \in Threads : WakesUp(t)
<1> DEFINE t == Head(queue[Spot])
<1>1. /\ queue[Spot] # <<>>
      /\ Free(tlock[t]) /\ SetLock(t, BootCore) /\ SetRun(t)
      /\ queue' = [queue EXCEPT ![Spot] = Tail(queue[Spot])]
      /\ rendezvous' = [rendezvous EXCEPT ![t] = NoPoint]
      /\ peer' = [peer EXCEPT ![BootCore] = t]
      /\ UNCHANGED prio /\ Place = "wake"
  BY Zenon DEF WakeFirst, Spot, Place, At
<1>2. FieldsOK /\ QueuesSound /\ Spot \in Points
  BY <1>1, QueuesAre DEF LocalsKnown, WakeCode
<1>3. t \in Threads /\ state[t] = "WAITING"
  BY <1>1, <1>2, WaitQueueHead, Zenon DEF QueuesSound
<1> HIDE DEF t
<1>4. SetState(t, "RUNNABLE")
  BY <1>1 DEF SetRun
<1>5. RunQueueExact' /\ RunQueueTyped' /\ HintKnown'
  BY <1>1, <1>3, SetRunSound
<1>6. WaitQueueExact' /\ queue' \in [Points -> Seq(Threads)]
  BY <1>1, <1>2, <1>4, WakeFirstKeeps, Zenon DEF QueuesSound, t
<1>7. QueueGrows
  BY <1>1, <1>2 DEF FieldsOK, QueueGrows
<1>8. WakesUp(t)
  BY <1>1, <1>3, <1>4 DEF WakesUp, SetLock, SetState
<1> QED
  BY <1>3, <1>5, <1>6, <1>7, <1>8 DEF QueuesSound

(* What the steps between two queues do to them. *)
LEMMA SleepEnqueueSound ==
  ASSUME ControlInd, SleepEnqueue(BootCore)
  PROVE  QueuesSound' /\ QueueGrows
<1>1. Me \in Threads /\ current[BootCore] = Me /\ state[Me] = "RUNNING" /\ Spot \in Points
      /\ Place = "enqueue"
  BY DEF ControlInd, ThreadKnown, LocalsKnown, OwnCode, SleepEnqueue, At, Place
<1>2. /\ FieldsOK /\ QueuesSound /\ UNCHANGED <<prio, runQueue, runQueueBits, runQueueHint>>
      /\ queue' = [queue EXCEPT ![Spot] = InsertPrio(queue[Spot], Me, prio[Me])]
      /\ rendezvous' = [rendezvous EXCEPT ![Me] = Spot]
      /\ SetState(Me, "WAITING")
  BY <1>1, QueuesAre DEF SleepEnqueue, schedVars, Spot
<1>3. state[Me] # "WAITING"
  BY <1>1
<1>4. WaitQueueExact' /\ queue' \in [Points -> Seq(Threads)]
  BY <1>1, <1>2, <1>3, SleepEnqueueKeeps, Zenon DEF QueuesSound
<1>5. \A u \in Threads : state'[u] = "RUNNABLE" <=> state[u] = "RUNNABLE"
  BY <1>1, <1>2 DEF FieldsOK, SetState
<1>6. RunQueueExact'
  BY <1>2, <1>5, RunQueueFrame DEF QueuesSound
<1>7. RunQueueTyped' /\ HintKnown'
  BY <1>2, Zenon DEF QueuesSound, RunQueueTyped, HintKnown
<1>8. QueueGrows
  BY <1>1, <1>2 DEF FieldsOK, QueueGrows
<1> QED
  BY <1>4, <1>6, <1>7, <1>8 DEF QueuesSound

LEMMA CancelDeferredSound ==
  ASSUME ControlInd, CancelDeferred(BootCore)
  PROVE  QueuesSound' /\ QueueGrows
<1>1. Other \in Threads /\ UNCHANGED prio
  BY DEF ControlInd, LocalsKnown, CancelCode, CancelDeferred, At, Place
<1>2. CASE state[Other] # "WAITING"
  <2>1. UNCHANGED <<queue, rendezvous, state, runQueue, runQueueBits, runQueueHint>>
    BY <1>2 DEF CancelDeferred, schedVars, Other
  <2>2. QueuesRest /\ prio' \in [Threads -> Prios]
    BY <1>1, <2>1, QueuesAre, Zenon DEF QueuesRest
  <2> QED
    BY <2>2, QueuesRestKeep
<1>3. CASE state[Other] = "WAITING"
  <2>1. /\ queue' = [queue EXCEPT ![rendezvous[Other]] = Without(@, Other)]
        /\ rendezvous' = [rendezvous EXCEPT ![Other] = NoPoint]
        /\ SetRun(Other)
    BY <1>3 DEF CancelDeferred, Other
  <2>2. RunQueueExact' /\ RunQueueTyped' /\ HintKnown'
    BY <1>1, <1>3, <2>1, SetRunSound
  <2>3. FieldsOK /\ WaitQueueExact
    BY QueuesAre DEF QueuesSound
  <2>4. SetState(Other, "RUNNABLE")
    BY <2>1 DEF SetRun
  <2>5. /\ WaitQueueExact' /\ queue' \in [Points -> Seq(Threads)]
        /\ \A r \in Points : queue'[r] # <<>> => queue[r] # <<>>
    BY <1>1, <1>3, <2>1, <2>3, <2>4, UnwaitKeeps
  <2> QED
    BY <2>2, <2>5 DEF QueuesSound, QueueGrows
<1> QED
  BY <1>2, <1>3

LEMMA CancelQueuedSound ==
  ASSUME ControlInd, CancelQueued(BootCore)
  PROVE  QueuesSound' /\ QueueGrows
<1>1. Other \in Threads /\ UNCHANGED prio /\ SetState(Other, "TERMINATED")
  BY DEF ControlInd, LocalsKnown, CancelCode, CancelQueued, Kill, At, Place, Other
<1>2. FieldsOK /\ QueuesSound
  BY QueuesAre
<1>3. CASE state[Other] = "RUNNABLE"
  <2>1. UnsetRun(Other) /\ UNCHANGED <<queue, rendezvous>>
    BY <1>3 DEF CancelQueued, Other
  <2>2. RunQueueExact' /\ RunQueueTyped' /\ runQueueBits' \subseteq runQueueBits
    BY <1>1, <1>2, <1>3, <2>1, UnsetRunKeeps DEF QueuesSound
  <2>3. \A u \in Threads : state'[u] = "WAITING" <=> state[u] = "WAITING"
    BY <1>1, <1>2, <1>3 DEF FieldsOK, SetState
  <2>4. WaitQueueExact'
    BY <1>1, <1>2, <2>1, <2>3, WaitQueueRests DEF QueuesSound
  <2>5. runQueueHint' = runQueueHint
    BY <2>1 DEF UnsetRun
  <2>6. HintKnown'
    <3>1. runQueueHint \in BOOLEAN /\ (~runQueueHint => runQueueBits = {})
      BY <1>2 DEF QueuesSound, RunQueueTyped, HintKnown
    <3> QED
      BY <2>2, <2>5, <3>1 DEF HintKnown
  <2> QED
    BY <1>2, <2>1, <2>2, <2>4, <2>6 DEF QueuesSound, QueueGrows
<1>4. CASE state[Other] = "WAITING"
  <2>1. /\ queue' = [queue EXCEPT ![rendezvous[Other]] = Without(@, Other)]
        /\ rendezvous' = [rendezvous EXCEPT ![Other] = NoPoint]
        /\ UNCHANGED <<runQueue, runQueueBits, runQueueHint>>
    BY <1>4 DEF CancelQueued, schedVars, Other
  <2>2. /\ WaitQueueExact' /\ queue' \in [Points -> Seq(Threads)]
        /\ \A r \in Points : queue'[r] # <<>> => queue[r] # <<>>
    BY <1>1, <1>2, <1>4, <2>1, UnwaitKeeps DEF QueuesSound
  <2>3. \A u \in Threads : state'[u] = "RUNNABLE" <=> state[u] = "RUNNABLE"
    BY <1>1, <1>2, <1>4 DEF FieldsOK, SetState
  <2>4. RunQueueExact'
    BY <1>1, <1>2, <2>1, <2>3, RunQueueFrame DEF QueuesSound
  <2>5. RunQueueTyped' /\ HintKnown'
    BY <1>2, <2>1, Zenon DEF QueuesSound, RunQueueTyped, HintKnown
  <2> QED
    BY <2>2, <2>4, <2>5 DEF QueuesSound, QueueGrows
<1>5. state[Other] \in {"RUNNABLE", "WAITING"}
  BY DEF CancelQueued, Other
<1> QED
  BY <1>3, <1>4, <1>5

LEMMA SetEffectiveSound ==
  ASSUME ControlInd, SetEffectivePriority(BootCore)
  PROVE  QueuesSound' /\ QueueGrows /\ prio' \in [Threads -> Prios]
<1> DEFINE u == Other
           p == base[u]
<1>1. u \in Threads /\ UNCHANGED <<state, rendezvous>>
  BY DEF ControlInd, LocalsKnown, PriorityCode, SetEffectivePriority, At, Place
<1>2. /\ FieldsOK /\ QueuesSound /\ prio \in [Threads -> Prios] /\ p \in Prios
      /\ state[u] \in {"NEW", "RUNNABLE", "RUNNING", "WAITING", "TERMINATED"}
  BY <1>1, QueuesAre
<1>3. CASE state[u] = "RUNNABLE"
  <2>1. /\ prio' = [prio EXCEPT ![u] = p]
        /\ runQueue' = [[runQueue EXCEPT ![prio[u]] = Without(@, u)] EXCEPT ![p] = Append(@, u)]
        /\ runQueueBits' = {p} \cup BitsWithout(u)
        /\ runQueueHint' = TRUE
        /\ UNCHANGED queue
    BY <1>3 DEF SetEffectivePriority, Other
  <2> HIDE DEF p
  <2>2. /\ RunQueueExact'
        /\ runQueue' \in [Prios -> Seq(Threads)]
        /\ runQueueBits' \subseteq Prios
    BY <1>1, <1>2, <1>3, <2>1, RequeueKeeps DEF QueuesSound
  <2>3. \A t \in Threads : state[t] = "WAITING" => prio'[t] = prio[t]
    BY <1>2, <1>3, <2>1
  <2>4. WaitQueueExact'
    BY <1>1, <1>2, <2>1, <2>3, WaitQueueRests DEF QueuesSound
  <2>5. prio' \in [Threads -> Prios]
    BY <1>2, <2>1
  <2> QED
    BY <1>2, <2>1, <2>2, <2>4, <2>5 DEF QueuesSound, RunQueueTyped, HintKnown, QueueGrows
<1>4. CASE state[u] = "WAITING"
  <2>1. /\ prio' = [prio EXCEPT ![u] = p]
        /\ queue' = [queue EXCEPT ![rendezvous[u]] = InsertPrio(Without(@, u), u, p)]
        /\ UNCHANGED <<runQueue, runQueueBits, runQueueHint>>
    BY <1>4 DEF SetEffectivePriority, schedVars, Other
  <2> HIDE DEF p
  <2>2. /\ WaitQueueExact' /\ queue' \in [Points -> Seq(Threads)]
        /\ \A r \in Points : queue'[r] # <<>> => queue[r] # <<>>
    BY <1>1, <1>2, <1>4, <2>1, MoveWaitingKeeps DEF QueuesSound
  <2>3. \A t \in Threads : state[t] = "RUNNABLE" => prio'[t] = prio[t]
    BY <1>2, <1>4, <2>1
  <2>4. prio' \in [Threads -> Prios]
    BY <1>2, <2>1
  <2>5. RunQueueExact'
    BY <1>1, <1>2, <2>1, <2>3, <2>4, RunQueueRests DEF QueuesSound
  <2>6. RunQueueTyped' /\ HintKnown'
    BY <1>2, <2>1, Zenon DEF QueuesSound, RunQueueTyped, HintKnown
  <2> QED
    BY <2>2, <2>4, <2>5, <2>6 DEF QueuesSound, QueueGrows
<1>5. CASE state[u] = "RUNNING"
  <2>1. /\ prio' = [prio EXCEPT ![u] = p]
        /\ runQueueHint' = TRUE
        /\ UNCHANGED <<runQueue, runQueueBits, queue>>
    BY <1>5 DEF SetEffectivePriority, Other
  <2> HIDE DEF p
  <2>2. QueuesRest /\ prio' \in [Threads -> Prios]
    BY <1>1, <1>2, <1>5, <2>1 DEF QueuesRest
  <2> QED
    BY <2>2, QueuesRestKeep
<1>6. CASE state[u] \in {"NEW", "TERMINATED"}
  <2>1. UNCHANGED <<prio, runQueue, runQueueBits, runQueueHint, queue>>
    BY <1>6 DEF SetEffectivePriority, schedVars, Other
  <2>2. QueuesRest /\ prio' \in [Threads -> Prios]
    BY <1>1, <1>2, <2>1, Zenon DEF QueuesRest
  <2> QED
    BY <2>2, QueuesRestKeep
<1> QED
  BY <1>2, <1>3, <1>4, <1>5, <1>6

(* The steps that make a thread neither runnable nor waiting, nor change the *)
(* priority of one that is.                                                  *)
Idles ==
    /\ UNCHANGED <<runQueue, runQueueBits, runQueueHint, queue, rendezvous, prio, state>>


LEMMA IdlesKeep ==
  ASSUME ControlInd, Idles
  PROVE  QueuesSound' /\ QueueGrows
<1>1. QueuesRest /\ prio' \in [Threads -> Prios]
  BY QueuesAre, Zenon DEF Idles, QueuesRest
<1> QED
  BY <1>1, QueuesRestKeep

(* A thread that runs ends. *)
LEMMA EndsKeep ==
  ASSUME ControlInd, NEW t, state[t] = "RUNNING", state' = [state EXCEPT ![t] = "TERMINATED"],
         UNCHANGED <<runQueue, runQueueBits, runQueueHint, queue, rendezvous, prio>>
  PROVE  QueuesSound' /\ QueueGrows
<1>1. QueuesRest /\ prio' \in [Threads -> Prios]
  BY QueuesAre DEF QueuesRest
<1> QED
  BY <1>1, QueuesRestKeep

(* Every step keeps the queues sound.                                         *)
LEMMA QueuesStep ==
  ASSUME Cores = {BootCore}, ControlInd, [ControlNext]_controlVars
  PROVE  QueuesSound' /\ QueueGrows
<1>1. ASSUME CallYield(BootCore) PROVE QueuesSound' /\ QueueGrows
  BY <1>1, IdlesKeep, Zenon DEF Idles, CallYield, threadVars, pointVars, schedVars
<1>2. ASSUME CallSleep(BootCore) PROVE QueuesSound' /\ QueueGrows
  BY <1>2, IdlesKeep, Zenon DEF Idles, CallSleep, threadVars, pointVars, schedVars
<1>3. ASSUME CallExit(BootCore) PROVE QueuesSound' /\ QueueGrows
  BY <1>3, IdlesKeep, Zenon DEF Idles, CallExit, threadVars, pointVars, schedVars
<1>4. ASSUME NEW u \in Threads, CallStart(BootCore, u) PROVE QueuesSound' /\ QueueGrows
  BY <1>4, IdlesKeep, Zenon DEF Idles, CallStart, threadVars, pointVars, schedVars
<1>5. ASSUME NEW u \in Threads, CallJoin(BootCore, u) PROVE QueuesSound' /\ QueueGrows
  BY <1>5, IdlesKeep, Zenon DEF Idles, CallJoin, threadVars, pointVars, schedVars
<1>6. ASSUME Start(BootCore) PROVE QueuesSound' /\ QueueGrows
  <2>1. CASE state[Other] = "NEW"
    <3>1. SetRun(Other) /\ UNCHANGED <<prio, queue, rendezvous>> /\ Other \in Threads
      BY <1>6, <2>1 DEF ControlInd, LocalsKnown, Place, At, Start, Other, pointVars
    <3> QED
      BY <2>1, <3>1, SetRunAlone
  <2>2. CASE state[Other] # "NEW"
    <3>1. Idles
      BY <1>6, <2>2 DEF Start, Other, schedVars, pointVars, Idles
    <3> QED
      BY <3>1, IdlesKeep
  <2> QED
    BY <2>1, <2>2
<1>7. ASSUME StartUnlock(BootCore) PROVE QueuesSound' /\ QueueGrows
  BY <1>7, IdlesKeep, Zenon DEF Idles, StartUnlock, threadVars, pointVars, schedVars
<1>8. ASSUME Exit(BootCore) PROVE QueuesSound' /\ QueueGrows
  <2>1. /\ state[Me] = "RUNNING" /\ state' = [state EXCEPT ![Me] = "TERMINATED"]
        /\ UNCHANGED <<runQueue, runQueueBits, runQueueHint, queue, rendezvous, prio>>
    BY <1>8 DEF ControlInd, ThreadKnown, OwnCode, Place, At, Exit, SetState, schedVars, pointVars
  <2> QED
    BY <2>1, EndsKeep
<1>9. ASSUME ExitVal(BootCore) PROVE QueuesSound' /\ QueueGrows
  BY <1>9, IdlesKeep, Zenon DEF Idles, ExitVal, threadVars, pointVars, schedVars
<1>10. ASSUME ExitUnlock(BootCore) PROVE QueuesSound' /\ QueueGrows
  BY <1>10, IdlesKeep, Zenon DEF Idles, ExitUnlock, threadVars, pointVars, schedVars
<1>11. ASSUME SleepReturn(BootCore) PROVE QueuesSound' /\ QueueGrows
  BY <1>11, IdlesKeep, Zenon DEF Idles, SleepReturn, threadVars, pointVars, schedVars
<1>12. ASSUME SleepTest(BootCore) PROVE QueuesSound' /\ QueueGrows
  BY <1>12, IdlesKeep, Zenon DEF Idles, SleepTest, threadVars, pointVars, schedVars
<1>13. ASSUME SleepEnqueue(BootCore) PROVE QueuesSound' /\ QueueGrows
  BY <1>13, SleepEnqueueSound
<1>14. ASSUME Wakeup(BootCore) PROVE QueuesSound' /\ QueueGrows
  BY <1>14, IdlesKeep, Zenon DEF Idles, Wakeup, threadVars, pointVars, schedVars
<1>15. ASSUME WakeDone(BootCore) PROVE QueuesSound' /\ QueueGrows
  BY <1>15, IdlesKeep, Zenon DEF Idles, WakeDone, threadVars, pointVars, schedVars
<1>16. ASSUME WakeFirst(BootCore) PROVE QueuesSound' /\ QueueGrows
  BY <1>16, WakeFirstWakes
<1>17. ASSUME WakeUnlock(BootCore) PROVE QueuesSound' /\ QueueGrows
  BY <1>17, IdlesKeep, Zenon DEF Idles, WakeUnlock, threadVars, pointVars, schedVars
<1>18. ASSUME WakeBusy(BootCore) PROVE QueuesSound' /\ QueueGrows
  BY <1>18, IdlesKeep, Zenon DEF Idles, WakeBusy, threadVars, pointVars, schedVars
<1>19. ASSUME WakeWait(BootCore) PROVE QueuesSound' /\ QueueGrows
  BY <1>19, IdlesKeep, Zenon DEF Idles, WakeWait, threadVars, pointVars, schedVars
<1>20. ASSUME RescheduleStay(BootCore) PROVE QueuesSound' /\ QueueGrows
  BY <1>20, IdlesKeep, Zenon DEF Idles, RescheduleStay, threadVars, pointVars, schedVars
<1>21. ASSUME RescheduleOut(BootCore) PROVE QueuesSound' /\ QueueGrows
  BY <1>21, IdlesKeep, Zenon DEF Idles, RescheduleOut, threadVars, pointVars, schedVars
<1>22. ASSUME RescheduleIdle(BootCore) PROVE QueuesSound' /\ QueueGrows
  BY <1>22, IdlesKeep, Zenon DEF Idles, RescheduleIdle, threadVars, pointVars, schedVars
<1>23. ASSUME SwitchLock(BootCore) PROVE QueuesSound' /\ QueueGrows
  BY <1>23, IdlesKeep, Zenon DEF Idles, SwitchLock, threadVars, pointVars, schedVars
<1>24. ASSUME SwitchSetRun(BootCore) PROVE QueuesSound' /\ QueueGrows
  <2>1. Me \in Threads /\ state[Me] = "RUNNING"
    BY <1>24 DEF ControlInd, ThreadKnown, SwitchSetRun, At, Place
  <2>2. SetRun(Me) /\ UNCHANGED <<prio, queue, rendezvous>>
    BY <1>24 DEF SwitchSetRun, Me, pointVars
  <2> QED
    BY <2>1, <2>2, SetRunAlone
<1>25. ASSUME SwitchSave(BootCore) PROVE QueuesSound' /\ QueueGrows
  BY <1>25, IdlesKeep, Zenon DEF Idles, SwitchSave, threadVars, pointVars, schedVars
<1>26. ASSUME SwitchLeave(BootCore) PROVE QueuesSound' /\ QueueGrows
  BY <1>26, IdlesKeep, Zenon DEF Idles, SwitchLeave, threadVars, pointVars, schedVars
<1>27. ASSUME Select(BootCore) PROVE QueuesSound' /\ QueueGrows
  BY <1>27, SelectTakes
<1>28. ASSUME Selected(BootCore) PROVE QueuesSound' /\ QueueGrows
  BY <1>28, IdlesKeep, Zenon DEF Idles, Selected, threadVars, pointVars, schedVars
<1>29. ASSUME AlarmExpire(BootCore) PROVE QueuesSound' /\ QueueGrows
  BY <1>29, IdlesKeep, Zenon DEF Idles, AlarmExpire, threadVars, pointVars, schedVars
<1>30. ASSUME InterruptEnd(BootCore) PROVE QueuesSound' /\ QueueGrows
  BY <1>30, IdlesKeep, Zenon DEF Idles, InterruptEnd, threadVars, pointVars, schedVars
<1>31. ASSUME Interrupt(BootCore) PROVE QueuesSound' /\ QueueGrows
  BY <1>31, IdlesKeep, Zenon DEF Idles, Interrupt, threadVars, pointVars, schedVars
<1>32. ASSUME SetCancelState(BootCore) PROVE QueuesSound' /\ QueueGrows
  BY <1>32, IdlesKeep, Zenon DEF Idles, SetCancelState, vars, threadVars, pointVars, schedVars
<1>33. ASSUME SetCancelType(BootCore) PROVE QueuesSound' /\ QueueGrows
  BY <1>33, IdlesKeep, Zenon DEF Idles, SetCancelType, vars, threadVars, pointVars, schedVars
<1>34. ASSUME TestCancel(BootCore) PROVE QueuesSound' /\ QueueGrows
  BY <1>34, IdlesKeep, Zenon DEF Idles, TestCancel, threadVars, pointVars, schedVars
<1>35. ASSUME NEW u \in Threads, CallStartAgain(BootCore, u) PROVE QueuesSound' /\ QueueGrows
  BY <1>35, IdlesKeep, Zenon DEF Idles, CallStartAgain, CallOn, threadVars, pointVars, schedVars
<1>36. ASSUME NEW u \in Threads, CallCancel(BootCore, u) PROVE QueuesSound' /\ QueueGrows
  BY <1>36, IdlesKeep, Zenon DEF Idles, CallCancel, CallOn, threadVars, pointVars, schedVars
<1>37. ASSUME NEW u \in Threads, NEW p \in Prios, CallSetPriority(BootCore, u, p) PROVE QueuesSound' /\ QueueGrows
  BY <1>37, IdlesKeep, Zenon DEF Idles, CallSetPriority, CallOn, threadVars, pointVars, schedVars
<1>38. ASSUME CancelLock(BootCore) PROVE QueuesSound' /\ QueueGrows
  BY <1>38, IdlesKeep, Zenon DEF Idles, CancelLock, threadVars, pointVars, schedVars
<1>39. ASSUME CancelDeferred(BootCore) PROVE QueuesSound' /\ QueueGrows
  BY <1>39, CancelDeferredSound
<1>40. ASSUME CancelUnlock(BootCore) PROVE QueuesSound' /\ QueueGrows
  BY <1>40, IdlesKeep, Zenon DEF Idles, CancelUnlock, threadVars, pointVars, schedVars
<1>41. ASSUME CancelQueued(BootCore) PROVE QueuesSound' /\ QueueGrows
  BY <1>41, CancelQueuedSound
<1>42. ASSUME CancelRunning(BootCore) PROVE QueuesSound' /\ QueueGrows
  <2>1. QueuesRest /\ prio' \in [Threads -> Prios]
    BY <1>42, QueuesAre DEF QueuesRest, CancelRunning, threadVars, pointVars
  <2> QED
    BY <2>1, QueuesRestKeep
<1>43. ASSUME CancelKill(BootCore) PROVE QueuesSound' /\ QueueGrows
  <2>1. /\ state[Other] = "RUNNING" /\ state' = [state EXCEPT ![Other] = "TERMINATED"]
        /\ UNCHANGED <<runQueue, runQueueBits, runQueueHint, queue, rendezvous, prio>>
    BY <1>43 DEF ControlInd, LocalsKnown, Place, At, CancelKill, Kill, Other, SetState,
              schedVars, pointVars
  <2> QED
    BY <2>1, EndsKeep
<1>44. ASSUME CancelNothing(BootCore) PROVE QueuesSound' /\ QueueGrows
  BY <1>44, IdlesKeep, Zenon DEF Idles, CancelNothing, threadVars, pointVars, schedVars
<1>45. ASSUME KillUnlock(BootCore) PROVE QueuesSound' /\ QueueGrows
  BY <1>45, IdlesKeep, Zenon DEF Idles, KillUnlock, threadVars, pointVars, schedVars
<1>46. ASSUME UpdatePriority(BootCore) PROVE QueuesSound' /\ QueueGrows
  BY <1>46, IdlesKeep, Zenon DEF Idles, UpdatePriority, threadVars, pointVars, schedVars
<1>47. ASSUME SetEffectivePriority(BootCore) PROVE QueuesSound' /\ QueueGrows
  BY <1>47, SetEffectiveSound
<1>48. ASSUME UpdateUnlock(BootCore) PROVE QueuesSound' /\ QueueGrows
  BY <1>48, IdlesKeep, Zenon DEF Idles, UpdateUnlock, threadVars, pointVars, schedVars
<1>49. ASSUME Updated(BootCore) PROVE QueuesSound' /\ QueueGrows
  BY <1>49, IdlesKeep, Zenon DEF Idles, Updated, threadVars, pointVars, schedVars
<1>50. CASE UNCHANGED controlVars
  BY <1>50, IdlesKeep, Zenon DEF Idles, controlVars, vars, threadVars, pointVars, schedVars
<1> QED
  BY StepsAre, Zenon, <1>1, <1>2, <1>3, <1>4, <1>5, <1>6, <1>7, <1>8, <1>9,
     <1>10, <1>11, <1>12, <1>13, <1>14, <1>15, <1>16, <1>17, <1>18, <1>19, <1>20,
     <1>21, <1>22, <1>23, <1>24, <1>25, <1>26, <1>27, <1>28, <1>29, <1>30, <1>31,
     <1>32, <1>33, <1>34, <1>35, <1>36, <1>37, <1>38, <1>39, <1>40, <1>41, <1>42,
     <1>43, <1>44, <1>45, <1>46, <1>47, <1>48, <1>49, <1>50 DEF Step, ControlStep


(* The types.                                                                 *)
LEMMA ControlTypesStep ==
  ASSUME Cores = {BootCore}, ControlInd, [ControlNext]_controlVars
  PROVE  ControlTypes'
<1> USE BootAssumption, NullAssumption, PointAssumption
    DEF ControlTypes, ControlTypeOK, FieldsOK, RunQueueTyped, ControlPlaces, OwnCode, WakeCode,
        CancelCode, PriorityCode, Goto, At, SetLock, SetState, SetRun, Free, Running,
        Points, JoinPoint, SleepPoint
<1>a. ControlTypes /\ ThreadKnown /\ LocalsKnown
  BY QueuesAre
<1>b. RunQueueTyped' /\ queue' \in [Points -> Seq(Threads)]
  BY QueuesStep DEF QueuesSound
<1>c. \A a : pc' = [pc EXCEPT ![BootCore] = a] /\ a \in ControlPlaces => pc' \in [Cores -> ControlPlaces]
  BY <1>a
<1>1. ASSUME CallYield(BootCore), UNCHANGED <<base, attr>>
      PROVE ControlTypes'
  BY <1>a, <1>b, <1>1 DEF CallYield, attr, threadVars, pointVars, schedVars
<1>2. ASSUME CallSleep(BootCore), UNCHANGED <<base, attr>>
      PROVE ControlTypes'
  <2>1. current[BootCore] \in Threads /\ SleepPoint(current[BootCore]) \in Points
    BY <1>a, <1>2 DEF CallSleep, ThreadKnown, Place, Me
  <2>2. alarm' \in [Threads -> {"off", "pending", "due"}]
    BY <1>a, <2>1, <1>2 DEF CallSleep
  <2> QED
    BY <1>a, <1>b, <2>1, <2>2, <1>2 DEF CallSleep, pointVars, schedVars, attr
<1>3. ASSUME CallExit(BootCore), UNCHANGED <<base, attr>>
      PROVE ControlTypes'
  BY <1>a, <1>b, <1>3 DEF CallExit, attr, threadVars, pointVars, schedVars
<1>4. ASSUME NEW u \in Threads, CallStart(BootCore, u), UNCHANGED <<base, attr>>
      PROVE ControlTypes'
  BY <1>a, <1>b, <1>4 DEF CallStart, attr, threadVars, pointVars, schedVars
<1>5. ASSUME NEW u \in Threads, CallJoin(BootCore, u), UNCHANGED <<base, attr>>
      PROVE ControlTypes'
  BY <1>a, <1>b, <1>5 DEF CallJoin, attr, threadVars, pointVars, schedVars
<1>6. ASSUME Start(BootCore), UNCHANGED <<base, attr>>
      PROVE ControlTypes'
  BY <1>a, <1>b, <1>6 DEF Start, attr, threadVars, pointVars, schedVars
<1>7. ASSUME StartUnlock(BootCore), UNCHANGED <<base, attr>>
      PROVE ControlTypes'
  BY <1>a, <1>b, <1>7 DEF StartUnlock, attr, threadVars, pointVars, schedVars
<1>8. ASSUME Exit(BootCore), UNCHANGED <<base, attr>>
      PROVE ControlTypes'
  BY <1>a, <1>b, <1>8 DEF Exit, attr, threadVars, pointVars, schedVars
<1>9. ASSUME ExitVal(BootCore), UNCHANGED <<base, attr>>
      PROVE ControlTypes'
  <2>1. current[BootCore] \in Threads /\ JoinPoint(current[BootCore]) \in Points
    BY <1>a, <1>9 DEF ExitVal, ThreadKnown, MeExits, Exiting
  <2> QED
    BY <1>a, <1>b, <2>1, <1>9 DEF ExitVal, attr, pointVars, schedVars
<1>10. ASSUME ExitUnlock(BootCore), UNCHANGED <<base, attr>>
      PROVE ControlTypes'
  BY <1>a, <1>b, <1>10 DEF ExitUnlock, attr, threadVars, pointVars, schedVars
<1>11. ASSUME SleepReturn(BootCore), UNCHANGED <<base, attr>>
      PROVE ControlTypes'
  BY <1>a, <1>b, <1>11 DEF SleepReturn, attr, threadVars, pointVars, schedVars
<1>12. ASSUME SleepTest(BootCore), UNCHANGED <<base, attr>>
      PROVE ControlTypes'
  BY <1>a, <1>b, <1>12 DEF SleepTest, attr, threadVars, pointVars, schedVars
<1>13. ASSUME SleepEnqueue(BootCore), UNCHANGED <<base, attr>>
      PROVE ControlTypes'
  BY <1>a, <1>b, <1>13 DEF SleepEnqueue, attr, threadVars, pointVars, schedVars
<1>14. ASSUME Wakeup(BootCore), UNCHANGED <<base, attr>>
      PROVE ControlTypes'
  BY <1>a, <1>b, <1>14 DEF Wakeup, attr, threadVars, pointVars, schedVars
<1>15. ASSUME WakeDone(BootCore), UNCHANGED <<base, attr>>
      PROVE ControlTypes'
  BY <1>a, <1>b, <1>15 DEF WakeDone, attr, threadVars, pointVars, schedVars
<1>16. ASSUME WakeFirst(BootCore), UNCHANGED <<base, attr>>
      PROVE ControlTypes'
  <2>1. PICK t \in Threads : WakesUp(t)
    BY <1>16, WakeFirstWakes, Zenon
  <2>2. /\ pc' = [pc EXCEPT ![BootCore] = "wakeUnlock"]
        /\ UNCHANGED <<prio, core, val, alarm, label, rlock, current, self, point, after>>
    BY <1>16, Zenon DEF WakeFirst
  <2> QED
    BY <1>a, <1>b, <2>1, <2>2, <1>16 DEF WakesUp, attr
<1>17. ASSUME WakeUnlock(BootCore), UNCHANGED <<base, attr>>
      PROVE ControlTypes'
  BY <1>a, <1>b, <1>17 DEF WakeUnlock, attr, threadVars, pointVars, schedVars
<1>18. ASSUME WakeBusy(BootCore), UNCHANGED <<base, attr>>
      PROVE ControlTypes'
  <2>1. queue[Spot] \in Seq(Threads) /\ queue[Spot] # <<>>
    BY <1>a, <1>18 DEF WakeBusy, LocalsKnown, Place, Spot
  <2>2. Head(queue[Spot]) \in Threads
    BY <2>1
  <2>3. /\ peer' \in [Cores -> Threads \cup {NoThread}] /\ rlock' \in [Points -> Cores \cup {NoCore}]
        /\ pc' \in [Cores -> ControlPlaces]
    BY <1>a, <2>2, <1>18 DEF WakeBusy, Spot
  <2> QED
    BY <1>a, <1>b, <2>3, <1>18 DEF WakeBusy, attr, threadVars, schedVars
<1>19. ASSUME WakeWait(BootCore), UNCHANGED <<base, attr>>
      PROVE ControlTypes'
  BY <1>a, <1>b, <1>19 DEF WakeWait, attr, threadVars, pointVars, schedVars
<1>20. ASSUME RescheduleStay(BootCore), UNCHANGED <<base, attr>>
      PROVE ControlTypes'
  BY <1>a, <1>b, <1>20 DEF RescheduleStay, attr, threadVars, pointVars, schedVars
<1>21. ASSUME RescheduleOut(BootCore), UNCHANGED <<base, attr>>
      PROVE ControlTypes'
  BY <1>a, <1>b, <1>21 DEF RescheduleOut, attr, threadVars, pointVars, schedVars
<1>22. ASSUME RescheduleIdle(BootCore), UNCHANGED <<base, attr>>
      PROVE ControlTypes'
  BY <1>a, <1>b, <1>22 DEF RescheduleIdle, attr, threadVars, pointVars, schedVars
<1>23. ASSUME SwitchLock(BootCore), UNCHANGED <<base, attr>>
      PROVE ControlTypes'
  BY <1>a, <1>b, <1>23 DEF SwitchLock, attr, threadVars, pointVars, schedVars
<1>24. ASSUME SwitchSetRun(BootCore), UNCHANGED <<base, attr>>
      PROVE ControlTypes'
  BY <1>a, <1>b, <1>24 DEF SwitchSetRun, attr, threadVars, pointVars, schedVars
<1>25. ASSUME SwitchSave(BootCore), UNCHANGED <<base, attr>>
      PROVE ControlTypes'
  BY <1>a, <1>b, <1>25 DEF SwitchSave, attr, threadVars, pointVars, schedVars
<1>26. ASSUME SwitchLeave(BootCore), UNCHANGED <<base, attr>>
      PROVE ControlTypes'
  BY <1>a, <1>b, <1>26 DEF SwitchLeave, attr, threadVars, pointVars, schedVars
<1>27. ASSUME Select(BootCore), UNCHANGED <<base, attr>>
      PROVE ControlTypes'
  <2>1. PICK t \in Threads : TakesThread(t)
    BY <1>27, SelectTakes, Zenon
  <2> QED
    BY <1>a, <1>b, <2>1, <1>27 DEF Select, TakesThread, pointVars, attr
<1>28. ASSUME Selected(BootCore), UNCHANGED <<base, attr>>
      PROVE ControlTypes'
  <2>1. Me \in Threads
    BY <1>a, <1>28 DEF Selected, ThreadKnown, Place
  <2>2. pc' \in [Cores -> ControlPlaces] /\ current' \in [Cores -> Threads \cup {NoThread}]
    BY <1>a, <2>1, <1>28 DEF Selected, Me
  <2>3. label' \in [Threads -> Points \cup {NoPoint}] /\ point' \in [Cores -> Points \cup {NoPoint}]
    BY <1>a, <2>1, <1>28 DEF Selected, Me
  <2> QED
    BY <1>a, <1>b, <2>1, <2>2, <2>3, <1>28 DEF Selected, Me, attr, pointVars, schedVars
<1>29. ASSUME AlarmExpire(BootCore), UNCHANGED <<base, attr>>
      PROVE ControlTypes'
  <2>1. PICK t \in Threads : /\ alarm' = [alarm EXCEPT ![t] = "off"]
                            /\ point' = [point EXCEPT ![BootCore] = SleepPoint(t)]
    BY <1>29 DEF AlarmExpire
  <2>2. SleepPoint(t) \in Points
    OBVIOUS
  <2> QED
    BY <1>a, <1>b, <2>1, <2>2, <1>29 DEF AlarmExpire, attr, pointVars, schedVars
<1>30. ASSUME InterruptEnd(BootCore), UNCHANGED <<base, attr>>
      PROVE ControlTypes'
  BY <1>a, <1>b, <1>30 DEF InterruptEnd, attr, threadVars, pointVars, schedVars
<1>31. ASSUME Interrupt(BootCore), UNCHANGED <<base, attr>>
      PROVE ControlTypes'
  BY <1>a, <1>b, <1>31 DEF Interrupt, attr, threadVars, pointVars, schedVars
<1>32. ASSUME SetCancelState(BootCore) PROVE ControlTypes'
  BY <1>a, <1>b, <1>32 DEF SetCancelState, attr, threadVars, pointVars, schedVars, coreVars, vars
<1>33. ASSUME SetCancelType(BootCore) PROVE ControlTypes'
  BY <1>a, <1>b, <1>33 DEF SetCancelType, attr, threadVars, pointVars, schedVars, coreVars, vars
<1>34. ASSUME TestCancel(BootCore) PROVE ControlTypes'
  BY <1>a, <1>b, <1>34 DEF TestCancel, attr, threadVars, pointVars, schedVars
<1>35. ASSUME NEW u \in Threads, CallStartAgain(BootCore, u) PROVE ControlTypes'
  BY <1>a, <1>b, <1>35 DEF CallStartAgain, CallOn, attr, threadVars, pointVars, schedVars
<1>36. ASSUME NEW u \in Threads, CallCancel(BootCore, u) PROVE ControlTypes'
  BY <1>a, <1>b, <1>36 DEF CallCancel, CallOn, attr, threadVars, pointVars, schedVars
<1>37. ASSUME NEW u \in Threads, NEW p \in Prios, CallSetPriority(BootCore, u, p) PROVE ControlTypes'
  BY <1>a, <1>b, <1>37 DEF CallSetPriority, CallOn, attr, threadVars, pointVars, schedVars
<1>38. ASSUME CancelLock(BootCore) PROVE ControlTypes'
  BY <1>a, <1>b, <1>38 DEF CancelLock, attr, threadVars, pointVars, schedVars
<1>39. ASSUME CancelDeferred(BootCore) PROVE ControlTypes'
  BY <1>a, <1>b, <1>39 DEF CancelDeferred, attr, threadVars, pointVars, schedVars
<1>40. ASSUME CancelUnlock(BootCore) PROVE ControlTypes'
  BY <1>a, <1>b, <1>40 DEF CancelUnlock, attr, threadVars, pointVars, schedVars
<1>41. ASSUME CancelQueued(BootCore) PROVE ControlTypes'
  <2>1. Other \in Threads /\ JoinPoint(Other) \in Points
    BY <1>a, <1>41 DEF CancelQueued, LocalsKnown, Place
  <2> QED
    BY <1>a, <1>b, <2>1, <1>41 DEF CancelQueued, Kill, Other, attr, pointVars, schedVars
<1>42. ASSUME CancelRunning(BootCore) PROVE ControlTypes'
  BY <1>a, <1>b, <1>42 DEF CancelRunning, attr, threadVars, pointVars, schedVars
<1>43. ASSUME CancelKill(BootCore) PROVE ControlTypes'
  <2>1. Other \in Threads /\ JoinPoint(Other) \in Points
    BY <1>a, <1>43 DEF CancelKill, LocalsKnown, Place
  <2> QED
    BY <1>a, <1>b, <2>1, <1>43 DEF CancelKill, Kill, Other, attr, pointVars, schedVars
<1>44. ASSUME CancelNothing(BootCore) PROVE ControlTypes'
  BY <1>a, <1>b, <1>44 DEF CancelNothing, attr, threadVars, pointVars, schedVars
<1>45. ASSUME KillUnlock(BootCore) PROVE ControlTypes'
  BY <1>a, <1>b, <1>45 DEF KillUnlock, attr, threadVars, pointVars, schedVars
<1>46. ASSUME UpdatePriority(BootCore) PROVE ControlTypes'
  BY <1>a, <1>b, <1>46 DEF UpdatePriority, attr, threadVars, pointVars, schedVars
<1>47. ASSUME SetEffectivePriority(BootCore) PROVE ControlTypes'
  <2>1. prio' \in [Threads -> Prios]
    BY <1>47, SetEffectiveSound
  <2> QED
    BY <1>a, <1>b, <2>1, <1>47 DEF SetEffectivePriority, attr
<1>48. ASSUME UpdateUnlock(BootCore) PROVE ControlTypes'
  BY <1>a, <1>b, <1>48 DEF UpdateUnlock, attr, threadVars, pointVars, schedVars
<1>49. ASSUME Updated(BootCore) PROVE ControlTypes'
  BY <1>a, <1>b, <1>49 DEF Updated, attr, threadVars, pointVars, schedVars
<1>50. CASE UNCHANGED controlVars
  BY <1>a, <1>b, <1>50 DEF attr, threadVars, pointVars, schedVars, coreVars, vars, controlVars
<1> QED
  BY StepsAre, Zenon, <1>1, <1>2, <1>3, <1>4, <1>5, <1>6, <1>7, <1>8, <1>9,
     <1>10, <1>11, <1>12, <1>13, <1>14, <1>15, <1>16, <1>17, <1>18, <1>19, <1>20,
     <1>21, <1>22, <1>23, <1>24, <1>25, <1>26, <1>27, <1>28, <1>29, <1>30, <1>31,
     <1>32, <1>33, <1>34, <1>35, <1>36, <1>37, <1>38, <1>39, <1>40, <1>41, <1>42,
     <1>43, <1>44, <1>45, <1>46, <1>47, <1>48, <1>49, <1>50 DEF Step, ControlStep

(* The thread of the core.                                                    *)
LEMMA ThreadKnownStep ==
  ASSUME Cores = {BootCore}, ControlInd, [ControlNext]_controlVars
  PROVE  ThreadKnown'
<1> USE BootAssumption, NullAssumption
    DEF ThreadKnown, Place, Me, MeExits, MeInterrupted, MeKills, Exiting, Handling,
        Back, OwnCode, WakeCode, CancelCode, PriorityCode, Goto, At, SetLock, SetState, SetRun, Free,
        Running
<1>a. ThreadKnown /\ LocalsKnown
  BY QueuesAre
<1>b. /\ pc \in [Cores -> ControlPlaces]
      /\ state \in [Threads -> {"NEW", "RUNNABLE", "RUNNING", "WAITING", "TERMINATED"}]
      /\ core \in [Threads -> Cores \cup {NoCore}]
      /\ current \in [Cores -> Threads \cup {NoThread}]
      /\ self \in [Cores -> Threads \cup {NoThread}]
      /\ after \in [Cores -> {"isr", "exitUnlock", "killUnlock"}]
  BY QueuesAre DEF ControlTypes, ControlTypeOK, FieldsOK
<1>1. ASSUME CallYield(BootCore) PROVE ThreadKnown'
  BY <1>a, <1>b, <1>1 DEF CallYield, attr, threadVars, pointVars, schedVars
<1>2. ASSUME CallSleep(BootCore) PROVE ThreadKnown'
  BY <1>a, <1>b, <1>2 DEF CallSleep, attr, threadVars, pointVars, schedVars
<1>3. ASSUME CallExit(BootCore) PROVE ThreadKnown'
  BY <1>a, <1>b, <1>3 DEF CallExit, attr, threadVars, pointVars, schedVars
<1>4. ASSUME NEW u \in Threads, CallStart(BootCore, u) PROVE ThreadKnown'
  BY <1>a, <1>b, <1>4 DEF CallStart, attr, threadVars, pointVars, schedVars
<1>5. ASSUME NEW u \in Threads, CallJoin(BootCore, u) PROVE ThreadKnown'
  BY <1>a, <1>b, <1>5 DEF CallJoin, attr, threadVars, pointVars, schedVars
<1>6. ASSUME Start(BootCore) PROVE ThreadKnown'
  BY <1>a, <1>b, <1>6 DEF Start, attr, threadVars, pointVars, schedVars, LocalsKnown, Other
<1>7. ASSUME StartUnlock(BootCore) PROVE ThreadKnown'
  BY <1>a, <1>b, <1>7 DEF StartUnlock, attr, threadVars, pointVars, schedVars
<1>8. ASSUME Exit(BootCore) PROVE ThreadKnown'
  BY <1>a, <1>b, <1>8 DEF Exit, attr, threadVars, pointVars, schedVars
<1>9. ASSUME ExitVal(BootCore) PROVE ThreadKnown'
  BY <1>a, <1>b, <1>9 DEF ExitVal, attr, threadVars, pointVars, schedVars
<1>10. ASSUME ExitUnlock(BootCore) PROVE ThreadKnown'
  BY <1>a, <1>b, <1>10 DEF ExitUnlock, attr, threadVars, pointVars, schedVars
<1>11. ASSUME SleepReturn(BootCore) PROVE ThreadKnown'
  BY <1>a, <1>b, <1>11 DEF SleepReturn, attr, threadVars, pointVars, schedVars
<1>12. ASSUME SleepTest(BootCore) PROVE ThreadKnown'
  BY <1>a, <1>b, <1>12 DEF SleepTest, attr, threadVars, pointVars, schedVars
<1>13. ASSUME SleepEnqueue(BootCore) PROVE ThreadKnown'
  BY <1>a, <1>b, <1>13 DEF SleepEnqueue, attr, threadVars, pointVars, schedVars
<1>14. ASSUME Wakeup(BootCore) PROVE ThreadKnown'
  BY <1>a, <1>b, <1>14 DEF Wakeup, attr, threadVars, pointVars, schedVars
<1>15. ASSUME WakeDone(BootCore) PROVE ThreadKnown'
  BY <1>a, <1>b, <1>15 DEF WakeDone, attr, threadVars, pointVars, schedVars
<1>16. ASSUME WakeFirst(BootCore) PROVE ThreadKnown'
  <2>1. PICK t \in Threads : WakesUp(t)
    BY <1>16, WakeFirstWakes, Zenon
  <2>2. /\ Place = "wake" /\ pc' = [pc EXCEPT ![BootCore] = "wakeUnlock"]
        /\ UNCHANGED <<core, current, self, after>>
    BY <1>16, Zenon DEF WakeFirst
  <2> QED
    BY <1>a, <1>b, <2>1, <2>2 DEF WakesUp
<1>17. ASSUME WakeUnlock(BootCore) PROVE ThreadKnown'
  BY <1>a, <1>b, <1>17 DEF WakeUnlock, attr, threadVars, pointVars, schedVars
<1>18. ASSUME WakeBusy(BootCore) PROVE ThreadKnown'
  BY <1>a, <1>b, <1>18 DEF WakeBusy, attr, threadVars, pointVars, schedVars
<1>19. ASSUME WakeWait(BootCore) PROVE ThreadKnown'
  BY <1>a, <1>b, <1>19 DEF WakeWait, attr, threadVars, pointVars, schedVars
<1>20. ASSUME RescheduleStay(BootCore) PROVE ThreadKnown'
  BY <1>a, <1>b, <1>20 DEF RescheduleStay, attr, threadVars, pointVars, schedVars
<1>21. ASSUME RescheduleOut(BootCore) PROVE ThreadKnown'
  BY <1>a, <1>b, <1>21 DEF RescheduleOut, attr, threadVars, pointVars, schedVars
<1>22. ASSUME RescheduleIdle(BootCore) PROVE ThreadKnown'
  BY <1>a, <1>b, <1>22 DEF RescheduleIdle, attr, threadVars, pointVars, schedVars
<1>23. ASSUME SwitchLock(BootCore) PROVE ThreadKnown'
  BY <1>a, <1>b, <1>23 DEF SwitchLock, attr, threadVars, pointVars, schedVars
<1>24. ASSUME SwitchSetRun(BootCore) PROVE ThreadKnown'
  BY <1>a, <1>b, <1>24 DEF SwitchSetRun, attr, threadVars, pointVars, schedVars
<1>25. ASSUME SwitchSave(BootCore) PROVE ThreadKnown'
  BY <1>a, <1>b, <1>25 DEF SwitchSave, attr, threadVars, pointVars, schedVars
<1>26. ASSUME SwitchLeave(BootCore) PROVE ThreadKnown'
  BY <1>a, <1>b, <1>26 DEF SwitchLeave, attr, threadVars, pointVars, schedVars
<1>27. ASSUME Select(BootCore) PROVE ThreadKnown'
  <2>1. PICK t \in Threads : TakesThread(t)
    BY <1>27, SelectTakes, Zenon
  <2>2. /\ Place = "select" /\ pc' = [pc EXCEPT ![BootCore] = "selected"]
        /\ UNCHANGED <<current, after>>
    BY <1>27, Zenon DEF Select
  <2> QED
    BY <1>a, <1>b, <2>1, <2>2 DEF TakesThread
<1>28. ASSUME Selected(BootCore) PROVE ThreadKnown'
  BY <1>a, <1>b, <1>28 DEF Selected, attr, threadVars, pointVars, schedVars
<1>29. ASSUME AlarmExpire(BootCore) PROVE ThreadKnown'
  BY <1>a, <1>b, <1>29 DEF AlarmExpire, attr, threadVars, pointVars, schedVars, LocalsKnown, Other
<1>30. ASSUME InterruptEnd(BootCore) PROVE ThreadKnown'
  BY <1>a, <1>b, <1>30 DEF InterruptEnd, attr, threadVars, pointVars, schedVars
<1>31. ASSUME Interrupt(BootCore) PROVE ThreadKnown'
  BY <1>a, <1>b, <1>31 DEF Interrupt, attr, threadVars, pointVars, schedVars
<1>32. ASSUME SetCancelState(BootCore) PROVE ThreadKnown'
  BY <1>a, <1>b, <1>32 DEF SetCancelState, attr, threadVars, pointVars, schedVars, coreVars, vars
<1>33. ASSUME SetCancelType(BootCore) PROVE ThreadKnown'
  BY <1>a, <1>b, <1>33 DEF SetCancelType, attr, threadVars, pointVars, schedVars, coreVars, vars
<1>34. ASSUME TestCancel(BootCore) PROVE ThreadKnown'
  BY <1>a, <1>b, <1>34 DEF TestCancel, attr, threadVars, pointVars, schedVars
<1>35. ASSUME NEW u \in Threads, CallStartAgain(BootCore, u) PROVE ThreadKnown'
  BY <1>a, <1>b, <1>35 DEF CallStartAgain, CallOn, attr, threadVars, pointVars, schedVars
<1>36. ASSUME NEW u \in Threads, CallCancel(BootCore, u) PROVE ThreadKnown'
  BY <1>a, <1>b, <1>36 DEF CallCancel, CallOn, attr, threadVars, pointVars, schedVars
<1>37. ASSUME NEW u \in Threads, NEW p \in Prios, CallSetPriority(BootCore, u, p) PROVE ThreadKnown'
  BY <1>a, <1>b, <1>37 DEF CallSetPriority, CallOn, attr, threadVars, pointVars, schedVars
<1>38. ASSUME CancelLock(BootCore) PROVE ThreadKnown'
  BY <1>a, <1>b, <1>38 DEF CancelLock, attr, threadVars, pointVars, schedVars, LocalsKnown, Other
<1>39. ASSUME CancelDeferred(BootCore) PROVE ThreadKnown'
  BY <1>a, <1>b, <1>39 DEF CancelDeferred, attr, threadVars, pointVars, schedVars, LocalsKnown, Other
<1>40. ASSUME CancelUnlock(BootCore) PROVE ThreadKnown'
  BY <1>a, <1>b, <1>40 DEF CancelUnlock, attr, threadVars, pointVars, schedVars
<1>41. ASSUME CancelQueued(BootCore) PROVE ThreadKnown'
  BY <1>a, <1>b, <1>41 DEF CancelQueued, Kill, attr, threadVars, pointVars, schedVars, LocalsKnown, Other
<1>42. ASSUME CancelRunning(BootCore) PROVE ThreadKnown'
  BY <1>a, <1>b, <1>42 DEF CancelRunning, attr, threadVars, pointVars, schedVars, LocalsKnown, Other
<1>43. ASSUME CancelKill(BootCore) PROVE ThreadKnown'
  BY <1>a, <1>b, <1>43 DEF CancelKill, Kill, attr, threadVars, pointVars, schedVars, LocalsKnown, Other
<1>44. ASSUME CancelNothing(BootCore) PROVE ThreadKnown'
  BY <1>a, <1>b, <1>44 DEF CancelNothing, attr, threadVars, pointVars, schedVars
<1>45. ASSUME KillUnlock(BootCore) PROVE ThreadKnown'
  BY <1>a, <1>b, <1>45 DEF KillUnlock, attr, threadVars, pointVars, schedVars
<1>46. ASSUME UpdatePriority(BootCore) PROVE ThreadKnown'
  BY <1>a, <1>b, <1>46 DEF UpdatePriority, attr, threadVars, pointVars, schedVars
<1>47. ASSUME SetEffectivePriority(BootCore) PROVE ThreadKnown'
  BY <1>a, <1>b, <1>47 DEF SetEffectivePriority, attr, threadVars, pointVars, schedVars
<1>48. ASSUME UpdateUnlock(BootCore) PROVE ThreadKnown'
  BY <1>a, <1>b, <1>48 DEF UpdateUnlock, attr, threadVars, pointVars, schedVars
<1>49. ASSUME Updated(BootCore) PROVE ThreadKnown'
  BY <1>a, <1>b, <1>49 DEF Updated, attr, threadVars, pointVars, schedVars
<1>50. CASE UNCHANGED controlVars
  BY <1>a, <1>b, <1>50 DEF attr, threadVars, pointVars, schedVars, coreVars, vars, controlVars
<1> QED
  BY StepsAre, Zenon, <1>1, <1>2, <1>3, <1>4, <1>5, <1>6, <1>7, <1>8, <1>9,
     <1>10, <1>11, <1>12, <1>13, <1>14, <1>15, <1>16, <1>17, <1>18, <1>19, <1>20,
     <1>21, <1>22, <1>23, <1>24, <1>25, <1>26, <1>27, <1>28, <1>29, <1>30, <1>31,
     <1>32, <1>33, <1>34, <1>35, <1>36, <1>37, <1>38, <1>39, <1>40, <1>41, <1>42,
     <1>43, <1>44, <1>45, <1>46, <1>47, <1>48, <1>49, <1>50 DEF Step, ControlStep

(* A thread that waits is not locked by the only core, which looks for it.   *)
LEMMA NeverBusy ==
  ASSUME ControlInd
  PROVE  ~WakeBusy(BootCore)
<1> SUFFICES ASSUME WakeBusy(BootCore) PROVE FALSE
  OBVIOUS
<1>1. /\ FieldsOK /\ QueuesSound /\ LocksKnown /\ ThreadKnown /\ LocalsKnown
      /\ Place = "wake" /\ queue[Spot] # <<>> /\ Spot \in Points
      /\ tlock[Head(queue[Spot])] # NoCore
  BY QueuesAre DEF ControlInd, WakeBusy, Place, At, Spot, Free, LocalsKnown, WakeCode
<1>2. Head(queue[Spot]) \in Threads /\ state[Head(queue[Spot])] = "WAITING"
  BY <1>1, WaitQueueHead, Zenon DEF QueuesSound
<1>3. LockHeld(Head(queue[Spot]))
  BY <1>1, <1>2 DEF LocksKnown, ThreadLocksKnown
<1> QED
  BY <1>1, <1>2, <1>3 DEF LockHeld, LocalsKnown, ThreadKnown, MeKills, MeExits, Exiting, Place, Me

(* The local variables of the code the core executes.                         *)
LEMMA LocalsKnownStep ==
  ASSUME Cores = {BootCore}, ControlInd, [ControlNext]_controlVars
  PROVE  LocalsKnown'
<1> USE BootAssumption, NullAssumption, PointAssumption
    DEF LocalsKnown, Place, Me, Other, Spot, Back, MeExits, MeInterrupted, MeKills, Exiting,
        Handling, OwnCode, WakeCode, CancelCode, PriorityCode, Goto, At, SetLock, SetState,
        SetRun, Free, Running, Points, JoinPoint, SleepPoint
<1>a. ThreadKnown /\ LocalsKnown /\ LocksKnown
  BY QueuesAre DEF ControlInd
<1>b. /\ pc \in [Cores -> ControlPlaces]
      /\ state \in [Threads -> {"NEW", "RUNNABLE", "RUNNING", "WAITING", "TERMINATED"}]
      /\ current \in [Cores -> Threads \cup {NoThread}]
      /\ label \in [Threads -> Points \cup {NoPoint}]
      /\ self \in [Cores -> Threads \cup {NoThread}]
      /\ point \in [Cores -> Points \cup {NoPoint}]
      /\ peer \in [Cores -> Threads \cup {NoThread}]
      /\ after \in [Cores -> {"isr", "exitUnlock", "killUnlock"}]
  BY QueuesAre DEF ControlTypes, ControlTypeOK, FieldsOK
<1>1. ASSUME CallYield(BootCore) PROVE LocalsKnown'
  BY <1>a, <1>b, <1>1 DEF CallYield, attr, threadVars, pointVars, schedVars
<1>2. ASSUME CallSleep(BootCore) PROVE LocalsKnown'
  BY <1>a, <1>b, <1>2 DEF CallSleep, attr, threadVars, pointVars, schedVars, ThreadKnown
<1>3. ASSUME CallExit(BootCore) PROVE LocalsKnown'
  BY <1>a, <1>b, <1>3 DEF CallExit, attr, threadVars, pointVars, schedVars
<1>4. ASSUME NEW u \in Threads, CallStart(BootCore, u) PROVE LocalsKnown'
  BY <1>a, <1>b, <1>4 DEF CallStart, attr, threadVars, pointVars, schedVars, ThreadKnown
<1>5. ASSUME NEW u \in Threads, CallJoin(BootCore, u) PROVE LocalsKnown'
  BY <1>a, <1>b, <1>5 DEF CallJoin, attr, threadVars, pointVars, schedVars, ThreadKnown
<1>6. ASSUME Start(BootCore) PROVE LocalsKnown'
  BY <1>a, <1>b, <1>6 DEF Start, attr, threadVars, pointVars, schedVars, ThreadKnown
<1>7. ASSUME StartUnlock(BootCore) PROVE LocalsKnown'
  BY <1>a, <1>b, <1>7 DEF StartUnlock, attr, threadVars, pointVars, schedVars
<1>8. ASSUME Exit(BootCore) PROVE LocalsKnown'
  BY <1>a, <1>b, <1>8 DEF Exit, attr, threadVars, pointVars, schedVars, ThreadKnown
<1>9. ASSUME ExitVal(BootCore) PROVE LocalsKnown'
  BY <1>a, <1>b, <1>9 DEF ExitVal, attr, threadVars, pointVars, schedVars, ThreadKnown
<1>10. ASSUME ExitUnlock(BootCore) PROVE LocalsKnown'
  BY <1>a, <1>b, <1>10 DEF ExitUnlock, attr, threadVars, pointVars, schedVars
<1>11. ASSUME SleepReturn(BootCore) PROVE LocalsKnown'
  BY <1>a, <1>b, <1>11 DEF SleepReturn, attr, threadVars, pointVars, schedVars
<1>12. ASSUME SleepTest(BootCore) PROVE LocalsKnown'
  BY <1>a, <1>b, <1>12 DEF SleepTest, attr, threadVars, pointVars, schedVars, ThreadKnown
<1>13. ASSUME SleepEnqueue(BootCore) PROVE LocalsKnown'
  BY <1>a, <1>b, <1>13 DEF SleepEnqueue, attr, threadVars, pointVars, schedVars, ThreadKnown
<1>14. ASSUME Wakeup(BootCore) PROVE LocalsKnown'
  BY <1>a, <1>b, <1>14 DEF Wakeup, attr, threadVars, pointVars, schedVars
<1>15. ASSUME WakeDone(BootCore) PROVE LocalsKnown'
  BY <1>a, <1>b, <1>15 DEF WakeDone, attr, threadVars, pointVars, schedVars
<1>16. ASSUME WakeFirst(BootCore) PROVE LocalsKnown'
  <2>1. PICK t \in Threads : WakesUp(t)
    BY <1>16, WakeFirstWakes, Zenon
  <2>2. /\ Place = "wake" /\ pc' = [pc EXCEPT ![BootCore] = "wakeUnlock"]
        /\ UNCHANGED <<core, current, self, after, point>>
    BY <1>16, Zenon DEF WakeFirst
  <2> QED
    BY <1>a, <1>b, <2>1, <2>2 DEF WakesUp
<1>17. ASSUME WakeUnlock(BootCore) PROVE LocalsKnown'
  BY <1>a, <1>b, <1>17 DEF WakeUnlock, attr, threadVars, pointVars, schedVars
<1>18. ASSUME WakeBusy(BootCore) PROVE LocalsKnown'
  <2>1. ~WakeBusy(BootCore)
    BY NeverBusy
  <2> QED
    BY <1>18, <2>1
<1>19. ASSUME WakeWait(BootCore) PROVE LocalsKnown'
  BY <1>a, <1>b, <1>19 DEF WakeWait, attr, threadVars, pointVars, schedVars
<1>20. ASSUME RescheduleStay(BootCore) PROVE LocalsKnown'
  BY <1>a, <1>b, <1>20 DEF RescheduleStay, attr, threadVars, pointVars, schedVars
<1>21. ASSUME RescheduleOut(BootCore) PROVE LocalsKnown'
  BY <1>a, <1>b, <1>21 DEF RescheduleOut, attr, threadVars, pointVars, schedVars, ThreadKnown
<1>22. ASSUME RescheduleIdle(BootCore) PROVE LocalsKnown'
  BY <1>a, <1>b, <1>22 DEF RescheduleIdle, attr, threadVars, pointVars, schedVars
<1>23. ASSUME SwitchLock(BootCore) PROVE LocalsKnown'
  BY <1>a, <1>b, <1>23 DEF SwitchLock, attr, threadVars, pointVars, schedVars, ThreadKnown
<1>24. ASSUME SwitchSetRun(BootCore) PROVE LocalsKnown'
  BY <1>a, <1>b, <1>24 DEF SwitchSetRun, attr, threadVars, pointVars, schedVars, ThreadKnown
<1>25. ASSUME SwitchSave(BootCore) PROVE LocalsKnown'
  BY <1>a, <1>b, <1>25 DEF SwitchSave, attr, threadVars, pointVars, schedVars
<1>26. ASSUME SwitchLeave(BootCore) PROVE LocalsKnown'
  BY <1>a, <1>b, <1>26 DEF SwitchLeave, attr, threadVars, pointVars, schedVars
<1>27. ASSUME Select(BootCore) PROVE LocalsKnown'
  <2>1. PICK t \in Threads : TakesThread(t)
    BY <1>27, SelectTakes, Zenon
  <2>2. /\ Place = "select" /\ pc' = [pc EXCEPT ![BootCore] = "selected"]
        /\ UNCHANGED <<current, after, point, peer>>
    BY <1>27, Zenon DEF Select
  <2> QED
    BY <1>a, <1>b, <2>1, <2>2 DEF TakesThread
<1>28. ASSUME Selected(BootCore) PROVE LocalsKnown'
  BY <1>a, <1>b, <1>28 DEF Selected, attr, threadVars, pointVars, schedVars, ThreadKnown
<1>29. ASSUME AlarmExpire(BootCore) PROVE LocalsKnown'
  BY <1>a, <1>b, <1>29 DEF AlarmExpire, attr, threadVars, pointVars, schedVars
<1>30. ASSUME InterruptEnd(BootCore) PROVE LocalsKnown'
  BY <1>a, <1>b, <1>30 DEF InterruptEnd, attr, threadVars, pointVars, schedVars
<1>31. ASSUME Interrupt(BootCore) PROVE LocalsKnown'
  BY <1>a, <1>b, <1>31 DEF Interrupt, attr, threadVars, pointVars, schedVars
<1>32. ASSUME SetCancelState(BootCore) PROVE LocalsKnown'
  BY <1>a, <1>b, <1>32 DEF SetCancelState, attr, threadVars, pointVars, schedVars, coreVars, vars
<1>33. ASSUME SetCancelType(BootCore) PROVE LocalsKnown'
  BY <1>a, <1>b, <1>33 DEF SetCancelType, attr, threadVars, pointVars, schedVars, coreVars, vars
<1>34. ASSUME TestCancel(BootCore) PROVE LocalsKnown'
  BY <1>a, <1>b, <1>34 DEF TestCancel, attr, threadVars, pointVars, schedVars
<1>35. ASSUME NEW u \in Threads, CallStartAgain(BootCore, u) PROVE LocalsKnown'
  BY <1>a, <1>b, <1>35 DEF CallStartAgain, CallOn, attr, threadVars, pointVars, schedVars, ThreadKnown
<1>36. ASSUME NEW u \in Threads, CallCancel(BootCore, u) PROVE LocalsKnown'
  BY <1>a, <1>b, <1>36 DEF CallCancel, CallOn, attr, threadVars, pointVars, schedVars, ThreadKnown
<1>37. ASSUME NEW u \in Threads, NEW p \in Prios, CallSetPriority(BootCore, u, p) PROVE LocalsKnown'
  BY <1>a, <1>b, <1>37 DEF CallSetPriority, CallOn, attr, threadVars, pointVars, schedVars, ThreadKnown
<1>38. ASSUME CancelLock(BootCore) PROVE LocalsKnown'
  BY <1>a, <1>b, <1>38 DEF CancelLock, attr, threadVars, pointVars, schedVars, ThreadKnown
<1>39. ASSUME CancelDeferred(BootCore) PROVE LocalsKnown'
  BY <1>a, <1>b, <1>39 DEF CancelDeferred, attr, threadVars, pointVars, schedVars, ThreadKnown
<1>40. ASSUME CancelUnlock(BootCore) PROVE LocalsKnown'
  BY <1>a, <1>b, <1>40 DEF CancelUnlock, attr, threadVars, pointVars, schedVars
<1>41. ASSUME CancelQueued(BootCore) PROVE LocalsKnown'
  BY <1>a, <1>b, <1>41 DEF CancelQueued, Kill, attr, threadVars, pointVars, schedVars, ThreadKnown
<1>42. ASSUME CancelRunning(BootCore) PROVE LocalsKnown'
  BY <1>a, <1>b, <1>42 DEF CancelRunning, attr, threadVars, pointVars, schedVars, ThreadKnown
<1>43. ASSUME CancelKill(BootCore) PROVE LocalsKnown'
  BY <1>a, <1>b, <1>43 DEF CancelKill, Kill, attr, threadVars, pointVars, schedVars, ThreadKnown
<1>44. ASSUME CancelNothing(BootCore) PROVE LocalsKnown'
  BY <1>a, <1>b, <1>44 DEF CancelNothing, attr, threadVars, pointVars, schedVars
<1>45. ASSUME KillUnlock(BootCore) PROVE LocalsKnown'
  BY <1>a, <1>b, <1>45 DEF KillUnlock, attr, threadVars, pointVars, schedVars
<1>46. ASSUME UpdatePriority(BootCore) PROVE LocalsKnown'
  BY <1>a, <1>b, <1>46 DEF UpdatePriority, attr, threadVars, pointVars, schedVars
<1>47. ASSUME SetEffectivePriority(BootCore) PROVE LocalsKnown'
  BY <1>a, <1>b, <1>47 DEF SetEffectivePriority, attr, threadVars, pointVars, schedVars, ThreadKnown
<1>48. ASSUME UpdateUnlock(BootCore) PROVE LocalsKnown'
  BY <1>a, <1>b, <1>48 DEF UpdateUnlock, attr, threadVars, pointVars, schedVars
<1>49. ASSUME Updated(BootCore) PROVE LocalsKnown'
  BY <1>a, <1>b, <1>49 DEF Updated, attr, threadVars, pointVars, schedVars
<1>50. CASE UNCHANGED controlVars
  BY <1>a, <1>b, <1>50 DEF attr, threadVars, pointVars, schedVars, coreVars, vars, controlVars
<1> QED
  BY StepsAre, Zenon, <1>1, <1>2, <1>3, <1>4, <1>5, <1>6, <1>7, <1>8, <1>9,
     <1>10, <1>11, <1>12, <1>13, <1>14, <1>15, <1>16, <1>17, <1>18, <1>19, <1>20,
     <1>21, <1>22, <1>23, <1>24, <1>25, <1>26, <1>27, <1>28, <1>29, <1>30, <1>31,
     <1>32, <1>33, <1>34, <1>35, <1>36, <1>37, <1>38, <1>39, <1>40, <1>41, <1>42,
     <1>43, <1>44, <1>45, <1>46, <1>47, <1>48, <1>49, <1>50 DEF Step, ControlStep

(* The locks of the threads.                                                  *)
LEMMA ThreadLocksKnownStep ==
  ASSUME Cores = {BootCore}, ControlInd, [ControlNext]_controlVars
  PROVE  ThreadLocksKnown'
<1> USE BootAssumption, NullAssumption
    DEF ThreadLocksKnown, LockHeld, Place, Me, Other, Spot, Back, MeExits, MeKills, Exiting, MeInterrupted, Handling,
        OwnCode, WakeCode, CancelCode, PriorityCode, Goto, At, SetLock, SetState,
        SetRun, Free, Running
<1>a. ThreadKnown /\ LocalsKnown /\ ThreadLocksKnown
  BY QueuesAre DEF ControlInd, LocksKnown
<1>b. /\ pc \in [Cores -> ControlPlaces]
      /\ state \in [Threads -> {"NEW", "RUNNABLE", "RUNNING", "WAITING", "TERMINATED"}]
      /\ tlock \in [Threads -> Cores \cup {NoCore}]
      /\ current \in [Cores -> Threads \cup {NoThread}]
      /\ self \in [Cores -> Threads \cup {NoThread}]
      /\ point \in [Cores -> Points \cup {NoPoint}]
      /\ peer \in [Cores -> Threads \cup {NoThread}]
      /\ after \in [Cores -> {"isr", "exitUnlock", "killUnlock"}]
  BY QueuesAre DEF ControlTypes, ControlTypeOK, FieldsOK
<1>1. ASSUME CallYield(BootCore) PROVE ThreadLocksKnown'
  BY <1>a, <1>b, <1>1 DEF CallYield, attr, threadVars, pointVars, schedVars,
          ThreadKnown, LocalsKnown
<1>2. ASSUME CallSleep(BootCore) PROVE ThreadLocksKnown'
  BY <1>a, <1>b, <1>2 DEF CallSleep, attr, threadVars, pointVars, schedVars,
          ThreadKnown, LocalsKnown
<1>3. ASSUME CallExit(BootCore) PROVE ThreadLocksKnown'
  BY <1>a, <1>b, <1>3 DEF CallExit, attr, threadVars, pointVars, schedVars,
          ThreadKnown, LocalsKnown
<1>4. ASSUME NEW u \in Threads, CallStart(BootCore, u) PROVE ThreadLocksKnown'
  BY <1>a, <1>b, <1>4 DEF CallStart, attr, threadVars, pointVars, schedVars,
          ThreadKnown, LocalsKnown
<1>5. ASSUME NEW u \in Threads, CallJoin(BootCore, u) PROVE ThreadLocksKnown'
  BY <1>a, <1>b, <1>5 DEF CallJoin, attr, threadVars, pointVars, schedVars,
          ThreadKnown, LocalsKnown
<1>6. ASSUME Start(BootCore) PROVE ThreadLocksKnown'
  BY <1>a, <1>b, <1>6 DEF Start, attr, threadVars, pointVars, schedVars,
          ThreadKnown, LocalsKnown
<1>7. ASSUME StartUnlock(BootCore) PROVE ThreadLocksKnown'
  BY <1>a, <1>b, <1>7 DEF StartUnlock, attr, threadVars, pointVars, schedVars,
          ThreadKnown, LocalsKnown
<1>8. ASSUME Exit(BootCore) PROVE ThreadLocksKnown'
  BY <1>a, <1>b, <1>8 DEF Exit, attr, threadVars, pointVars, schedVars,
          ThreadKnown, LocalsKnown
<1>9. ASSUME ExitVal(BootCore) PROVE ThreadLocksKnown'
  BY <1>a, <1>b, <1>9 DEF ExitVal, JoinPoint, attr, threadVars, pointVars, schedVars,
          ThreadKnown, LocalsKnown
<1>10. ASSUME ExitUnlock(BootCore) PROVE ThreadLocksKnown'
  BY <1>a, <1>b, <1>10 DEF ExitUnlock, attr, threadVars, pointVars, schedVars,
          ThreadKnown, LocalsKnown
<1>11. ASSUME SleepReturn(BootCore) PROVE ThreadLocksKnown'
  BY <1>a, <1>b, <1>11 DEF SleepReturn, attr, threadVars, pointVars, schedVars,
          ThreadKnown, LocalsKnown
<1>12. ASSUME SleepTest(BootCore) PROVE ThreadLocksKnown'
  BY <1>a, <1>b, <1>12 DEF SleepTest, attr, threadVars, pointVars, schedVars,
          ThreadKnown, LocalsKnown
<1>13. ASSUME SleepEnqueue(BootCore) PROVE ThreadLocksKnown'
  BY <1>a, <1>b, <1>13 DEF SleepEnqueue, attr, threadVars, pointVars, schedVars,
          ThreadKnown, LocalsKnown
<1>14. ASSUME Wakeup(BootCore) PROVE ThreadLocksKnown'
  BY <1>a, <1>b, <1>14 DEF Wakeup, attr, threadVars, pointVars, schedVars,
          ThreadKnown, LocalsKnown
<1>15. ASSUME WakeDone(BootCore) PROVE ThreadLocksKnown'
  BY <1>a, <1>b, <1>15 DEF WakeDone, attr, threadVars, pointVars, schedVars,
          ThreadKnown, LocalsKnown
<1>16. ASSUME WakeFirst(BootCore) PROVE ThreadLocksKnown'
  <2>1. PICK t \in Threads : WakesUp(t)
    BY <1>16, WakeFirstWakes, Zenon
  <2>2. /\ Place = "wake" /\ pc' = [pc EXCEPT ![BootCore] = "wakeUnlock"]
        /\ UNCHANGED <<core, current, self, after, point>>
    BY <1>16, Zenon DEF WakeFirst
  <2> QED
    BY <1>a, <1>b, <2>1, <2>2 DEF WakesUp, ThreadKnown, LocalsKnown
<1>17. ASSUME WakeUnlock(BootCore) PROVE ThreadLocksKnown'
  BY <1>a, <1>b, <1>17 DEF WakeUnlock, attr, threadVars, pointVars, schedVars,
          ThreadKnown, LocalsKnown
<1>18. ASSUME WakeBusy(BootCore) PROVE ThreadLocksKnown'
  <2>1. ~WakeBusy(BootCore)
    BY NeverBusy
  <2> QED
    BY <1>18, <2>1
<1>19. ASSUME WakeWait(BootCore) PROVE ThreadLocksKnown'
  BY <1>a, <1>b, <1>19 DEF WakeWait, attr, threadVars, pointVars, schedVars,
          ThreadKnown, LocalsKnown
<1>20. ASSUME RescheduleStay(BootCore) PROVE ThreadLocksKnown'
  BY <1>a, <1>b, <1>20 DEF RescheduleStay, attr, threadVars, pointVars, schedVars,
          ThreadKnown, LocalsKnown
<1>21. ASSUME RescheduleOut(BootCore) PROVE ThreadLocksKnown'
  BY <1>a, <1>b, <1>21 DEF RescheduleOut, attr, threadVars, pointVars, schedVars,
          ThreadKnown, LocalsKnown
<1>22. ASSUME RescheduleIdle(BootCore) PROVE ThreadLocksKnown'
  BY <1>a, <1>b, <1>22 DEF RescheduleIdle, attr, threadVars, pointVars, schedVars,
          ThreadKnown, LocalsKnown
<1>23. ASSUME SwitchLock(BootCore) PROVE ThreadLocksKnown'
  BY <1>a, <1>b, <1>23 DEF SwitchLock, attr, threadVars, pointVars, schedVars,
          ThreadKnown, LocalsKnown
<1>24. ASSUME SwitchSetRun(BootCore) PROVE ThreadLocksKnown'
  BY <1>a, <1>b, <1>24 DEF SwitchSetRun, attr, threadVars, pointVars, schedVars,
          ThreadKnown, LocalsKnown
<1>25. ASSUME SwitchSave(BootCore) PROVE ThreadLocksKnown'
  BY <1>a, <1>b, <1>25 DEF SwitchSave, attr, threadVars, pointVars, schedVars,
          ThreadKnown, LocalsKnown
<1>26. ASSUME SwitchLeave(BootCore) PROVE ThreadLocksKnown'
  BY <1>a, <1>b, <1>26 DEF SwitchLeave, attr, threadVars, pointVars, schedVars,
          ThreadKnown, LocalsKnown
<1>27. ASSUME Select(BootCore) PROVE ThreadLocksKnown'
  <2>1. PICK t \in Threads : TakesThread(t)
    BY <1>27, SelectTakes, Zenon
  <2>2. /\ Place = "select" /\ pc' = [pc EXCEPT ![BootCore] = "selected"]
        /\ UNCHANGED <<current, after, point, peer>>
    BY <1>27, Zenon DEF Select
  <2> QED
    BY <1>a, <1>b, <2>1, <2>2 DEF TakesThread, ThreadKnown, LocalsKnown
<1>28. ASSUME Selected(BootCore) PROVE ThreadLocksKnown'
  BY <1>a, <1>b, <1>28 DEF Selected, attr, threadVars, pointVars, schedVars,
          ThreadKnown, LocalsKnown
<1>29. ASSUME AlarmExpire(BootCore) PROVE ThreadLocksKnown'
  BY <1>a, <1>b, <1>29 DEF AlarmExpire, attr, threadVars, pointVars, schedVars,
          ThreadKnown, LocalsKnown
<1>30. ASSUME InterruptEnd(BootCore) PROVE ThreadLocksKnown'
  BY <1>a, <1>b, <1>30 DEF InterruptEnd, attr, threadVars, pointVars, schedVars,
          ThreadKnown, LocalsKnown
<1>31. ASSUME Interrupt(BootCore) PROVE ThreadLocksKnown'
  BY <1>a, <1>b, <1>31 DEF Interrupt, attr, threadVars, pointVars, schedVars,
          ThreadKnown, LocalsKnown
<1>32. ASSUME SetCancelState(BootCore) PROVE ThreadLocksKnown'
  BY <1>a, <1>b, <1>32 DEF SetCancelState, attr, threadVars, pointVars, schedVars, coreVars, vars,
          ThreadKnown, LocalsKnown
<1>33. ASSUME SetCancelType(BootCore) PROVE ThreadLocksKnown'
  BY <1>a, <1>b, <1>33 DEF SetCancelType, attr, threadVars, pointVars, schedVars, coreVars, vars,
          ThreadKnown, LocalsKnown
<1>34. ASSUME TestCancel(BootCore) PROVE ThreadLocksKnown'
  BY <1>a, <1>b, <1>34 DEF TestCancel, attr, threadVars, pointVars, schedVars,
          ThreadKnown, LocalsKnown
<1>35. ASSUME NEW u \in Threads, CallStartAgain(BootCore, u) PROVE ThreadLocksKnown'
  BY <1>a, <1>b, <1>35 DEF CallStartAgain, CallOn, attr, threadVars, pointVars, schedVars,
          ThreadKnown, LocalsKnown
<1>36. ASSUME NEW u \in Threads, CallCancel(BootCore, u) PROVE ThreadLocksKnown'
  BY <1>a, <1>b, <1>36 DEF CallCancel, CallOn, attr, threadVars, pointVars, schedVars,
          ThreadKnown, LocalsKnown
<1>37. ASSUME NEW u \in Threads, NEW p \in Prios, CallSetPriority(BootCore, u, p) PROVE ThreadLocksKnown'
  BY <1>a, <1>b, <1>37 DEF CallSetPriority, CallOn, attr, threadVars, pointVars, schedVars,
          ThreadKnown, LocalsKnown
<1>38. ASSUME CancelLock(BootCore) PROVE ThreadLocksKnown'
  BY <1>a, <1>b, <1>38 DEF CancelLock, attr, threadVars, pointVars, schedVars,
          ThreadKnown, LocalsKnown
<1>39. ASSUME CancelDeferred(BootCore) PROVE ThreadLocksKnown'
  BY <1>a, <1>b, <1>39 DEF CancelDeferred, attr, threadVars, pointVars, schedVars,
          ThreadKnown, LocalsKnown
<1>40. ASSUME CancelUnlock(BootCore) PROVE ThreadLocksKnown'
  BY <1>a, <1>b, <1>40 DEF CancelUnlock, attr, threadVars, pointVars, schedVars,
          ThreadKnown, LocalsKnown
<1>41. ASSUME CancelQueued(BootCore) PROVE ThreadLocksKnown'
  BY <1>a, <1>b, <1>41 DEF CancelQueued, Kill, JoinPoint, attr, threadVars, pointVars, schedVars,
          ThreadKnown, LocalsKnown
<1>42. ASSUME CancelRunning(BootCore) PROVE ThreadLocksKnown'
  BY <1>a, <1>b, <1>42 DEF CancelRunning, attr, threadVars, pointVars, schedVars,
          ThreadKnown, LocalsKnown
<1>43. ASSUME CancelKill(BootCore) PROVE ThreadLocksKnown'
  BY <1>a, <1>b, <1>43 DEF CancelKill, Kill, JoinPoint, attr, threadVars, pointVars, schedVars,
          ThreadKnown, LocalsKnown
<1>44. ASSUME CancelNothing(BootCore) PROVE ThreadLocksKnown'
  BY <1>a, <1>b, <1>44 DEF CancelNothing, attr, threadVars, pointVars, schedVars,
          ThreadKnown, LocalsKnown
<1>45. ASSUME KillUnlock(BootCore) PROVE ThreadLocksKnown'
  BY <1>a, <1>b, <1>45 DEF KillUnlock, attr, threadVars, pointVars, schedVars,
          ThreadKnown, LocalsKnown
<1>46. ASSUME UpdatePriority(BootCore) PROVE ThreadLocksKnown'
  BY <1>a, <1>b, <1>46 DEF UpdatePriority, attr, threadVars, pointVars, schedVars,
          ThreadKnown, LocalsKnown
<1>47. ASSUME SetEffectivePriority(BootCore) PROVE ThreadLocksKnown'
  BY <1>a, <1>b, <1>47 DEF SetEffectivePriority, attr, threadVars, pointVars, schedVars,
          ThreadKnown, LocalsKnown
<1>48. ASSUME UpdateUnlock(BootCore) PROVE ThreadLocksKnown'
  BY <1>a, <1>b, <1>48 DEF UpdateUnlock, attr, threadVars, pointVars, schedVars,
          ThreadKnown, LocalsKnown
<1>49. ASSUME Updated(BootCore) PROVE ThreadLocksKnown'
  BY <1>a, <1>b, <1>49 DEF Updated, attr, threadVars, pointVars, schedVars,
          ThreadKnown, LocalsKnown
<1>50. CASE UNCHANGED controlVars
  BY <1>a, <1>b, <1>50 DEF attr, threadVars, pointVars, schedVars, coreVars, vars, controlVars,
          ThreadKnown, LocalsKnown
<1> QED
  BY StepsAre, Zenon, <1>1, <1>2, <1>3, <1>4, <1>5, <1>6, <1>7, <1>8, <1>9,
     <1>10, <1>11, <1>12, <1>13, <1>14, <1>15, <1>16, <1>17, <1>18, <1>19, <1>20,
     <1>21, <1>22, <1>23, <1>24, <1>25, <1>26, <1>27, <1>28, <1>29, <1>30, <1>31,
     <1>32, <1>33, <1>34, <1>35, <1>36, <1>37, <1>38, <1>39, <1>40, <1>41, <1>42,
     <1>43, <1>44, <1>45, <1>46, <1>47, <1>48, <1>49, <1>50 DEF Step, ControlStep

(* The locks of the rendezvous points.                                        *)
LEMMA PointLocksKnownStep ==
  ASSUME Cores = {BootCore}, ControlInd, [ControlNext]_controlVars
  PROVE  PointLocksKnown'
<1> USE BootAssumption, NullAssumption, PointAssumption
    DEF PointLocksKnown, HoldsPoint, Place, Me, Other, Spot, Back, MeExits, MeInterrupted, MeKills, Exiting,
        Handling, OwnCode, WakeCode, CancelCode, PriorityCode, Goto, At, SetLock, SetState,
        SetRun, Free, Running
<1>a. PointLocksKnown /\ LocalsKnown
  BY QueuesAre DEF ControlInd, LocksKnown
<1>b. /\ pc \in [Cores -> ControlPlaces]
      /\ rlock \in [Points -> Cores \cup {NoCore}]
      /\ point \in [Cores -> Points \cup {NoPoint}]
      /\ after \in [Cores -> {"isr", "exitUnlock", "killUnlock"}]
  BY QueuesAre DEF ControlTypes, ControlTypeOK, FieldsOK
<1>1. ASSUME CallYield(BootCore) PROVE PointLocksKnown'
  BY <1>a, <1>b, <1>1 DEF CallYield, attr, threadVars, pointVars, schedVars,
          LocalsKnown
<1>2. ASSUME CallSleep(BootCore) PROVE PointLocksKnown'
  BY <1>a, <1>b, <1>2 DEF CallSleep, attr, threadVars, pointVars, schedVars,
          LocalsKnown
<1>3. ASSUME CallExit(BootCore) PROVE PointLocksKnown'
  BY <1>a, <1>b, <1>3 DEF CallExit, attr, threadVars, pointVars, schedVars,
          LocalsKnown
<1>4. ASSUME NEW u \in Threads, CallStart(BootCore, u) PROVE PointLocksKnown'
  BY <1>a, <1>b, <1>4 DEF CallStart, attr, threadVars, pointVars, schedVars,
          LocalsKnown
<1>5. ASSUME NEW u \in Threads, CallJoin(BootCore, u) PROVE PointLocksKnown'
  BY <1>a, <1>b, <1>5 DEF CallJoin, attr, threadVars, pointVars, schedVars,
          LocalsKnown
<1>6. ASSUME Start(BootCore) PROVE PointLocksKnown'
  BY <1>a, <1>b, <1>6 DEF Start, attr, threadVars, pointVars, schedVars,
          LocalsKnown
<1>7. ASSUME StartUnlock(BootCore) PROVE PointLocksKnown'
  BY <1>a, <1>b, <1>7 DEF StartUnlock, attr, threadVars, pointVars, schedVars,
          LocalsKnown
<1>8. ASSUME Exit(BootCore) PROVE PointLocksKnown'
  BY <1>a, <1>b, <1>8 DEF Exit, attr, threadVars, pointVars, schedVars,
          LocalsKnown
<1>9. ASSUME ExitVal(BootCore) PROVE PointLocksKnown'
  BY <1>a, <1>b, <1>9 DEF ExitVal, JoinPoint, attr, threadVars, pointVars, schedVars,
          LocalsKnown
<1>10. ASSUME ExitUnlock(BootCore) PROVE PointLocksKnown'
  BY <1>a, <1>b, <1>10 DEF ExitUnlock, attr, threadVars, pointVars, schedVars,
          LocalsKnown
<1>11. ASSUME SleepReturn(BootCore) PROVE PointLocksKnown'
  BY <1>a, <1>b, <1>11 DEF SleepReturn, attr, threadVars, pointVars, schedVars,
          LocalsKnown
<1>12. ASSUME SleepTest(BootCore) PROVE PointLocksKnown'
  BY <1>a, <1>b, <1>12 DEF SleepTest, attr, threadVars, pointVars, schedVars,
          LocalsKnown
<1>13. ASSUME SleepEnqueue(BootCore) PROVE PointLocksKnown'
  BY <1>a, <1>b, <1>13 DEF SleepEnqueue, attr, threadVars, pointVars, schedVars,
          LocalsKnown
<1>14. ASSUME Wakeup(BootCore) PROVE PointLocksKnown'
  BY <1>a, <1>b, <1>14 DEF Wakeup, attr, threadVars, pointVars, schedVars,
          LocalsKnown
<1>15. ASSUME WakeDone(BootCore) PROVE PointLocksKnown'
  BY <1>a, <1>b, <1>15 DEF WakeDone, attr, threadVars, pointVars, schedVars,
          LocalsKnown
<1>16. ASSUME WakeFirst(BootCore) PROVE PointLocksKnown'
  <2>1. PICK t \in Threads : WakesUp(t)
    BY <1>16, WakeFirstWakes, Zenon
  <2>2. /\ Place = "wake" /\ pc' = [pc EXCEPT ![BootCore] = "wakeUnlock"]
        /\ UNCHANGED <<rlock, point>>
    BY <1>16, Zenon DEF WakeFirst
  <2> QED
    BY <1>a, <1>b, <2>1, <2>2 DEF WakesUp, LocalsKnown
<1>17. ASSUME WakeUnlock(BootCore) PROVE PointLocksKnown'
  BY <1>a, <1>b, <1>17 DEF WakeUnlock, attr, threadVars, pointVars, schedVars,
          LocalsKnown
<1>18. ASSUME WakeBusy(BootCore) PROVE PointLocksKnown'
  BY <1>18, NeverBusy
<1>19. ASSUME WakeWait(BootCore) PROVE PointLocksKnown'
  BY <1>a, <1>b, <1>19 DEF WakeWait, attr, threadVars, pointVars, schedVars,
          LocalsKnown
<1>20. ASSUME RescheduleStay(BootCore) PROVE PointLocksKnown'
  BY <1>a, <1>b, <1>20 DEF RescheduleStay, attr, threadVars, pointVars, schedVars,
          LocalsKnown
<1>21. ASSUME RescheduleOut(BootCore) PROVE PointLocksKnown'
  BY <1>a, <1>b, <1>21 DEF RescheduleOut, attr, threadVars, pointVars, schedVars,
          LocalsKnown
<1>22. ASSUME RescheduleIdle(BootCore) PROVE PointLocksKnown'
  BY <1>a, <1>b, <1>22 DEF RescheduleIdle, attr, threadVars, pointVars, schedVars,
          LocalsKnown
<1>23. ASSUME SwitchLock(BootCore) PROVE PointLocksKnown'
  BY <1>a, <1>b, <1>23 DEF SwitchLock, attr, threadVars, pointVars, schedVars,
          LocalsKnown
<1>24. ASSUME SwitchSetRun(BootCore) PROVE PointLocksKnown'
  BY <1>a, <1>b, <1>24 DEF SwitchSetRun, attr, threadVars, pointVars, schedVars,
          LocalsKnown
<1>25. ASSUME SwitchSave(BootCore) PROVE PointLocksKnown'
  BY <1>a, <1>b, <1>25 DEF SwitchSave, attr, threadVars, pointVars, schedVars,
          LocalsKnown
<1>26. ASSUME SwitchLeave(BootCore) PROVE PointLocksKnown'
  BY <1>a, <1>b, <1>26 DEF SwitchLeave, attr, threadVars, pointVars, schedVars,
          LocalsKnown
<1>27. ASSUME Select(BootCore) PROVE PointLocksKnown'
  <2>1. PICK t \in Threads : TakesThread(t)
    BY <1>27, SelectTakes, Zenon
  <2>2. /\ Place = "select" /\ pc' = [pc EXCEPT ![BootCore] = "selected"]
        /\ UNCHANGED <<rlock, point>>
    BY <1>27, Zenon DEF Select, pointVars
  <2> QED
    BY <1>a, <1>b, <2>1, <2>2 DEF TakesThread, LocalsKnown
<1>28. ASSUME Selected(BootCore) PROVE PointLocksKnown'
  BY <1>a, <1>b, <1>28 DEF Selected, attr, threadVars, pointVars, schedVars,
          LocalsKnown
<1>29. ASSUME AlarmExpire(BootCore) PROVE PointLocksKnown'
  BY <1>a, <1>b, <1>29 DEF AlarmExpire, attr, threadVars, pointVars, schedVars,
          LocalsKnown
<1>30. ASSUME InterruptEnd(BootCore) PROVE PointLocksKnown'
  BY <1>a, <1>b, <1>30 DEF InterruptEnd, attr, threadVars, pointVars, schedVars,
          LocalsKnown
<1>31. ASSUME Interrupt(BootCore) PROVE PointLocksKnown'
  BY <1>a, <1>b, <1>31 DEF Interrupt, attr, threadVars, pointVars, schedVars,
          LocalsKnown
<1>32. ASSUME SetCancelState(BootCore) PROVE PointLocksKnown'
  BY <1>a, <1>b, <1>32 DEF SetCancelState, attr, threadVars, pointVars, schedVars, coreVars, vars,
          LocalsKnown
<1>33. ASSUME SetCancelType(BootCore) PROVE PointLocksKnown'
  BY <1>a, <1>b, <1>33 DEF SetCancelType, attr, threadVars, pointVars, schedVars, coreVars, vars,
          LocalsKnown
<1>34. ASSUME TestCancel(BootCore) PROVE PointLocksKnown'
  BY <1>a, <1>b, <1>34 DEF TestCancel, attr, threadVars, pointVars, schedVars,
          LocalsKnown
<1>35. ASSUME NEW u \in Threads, CallStartAgain(BootCore, u) PROVE PointLocksKnown'
  BY <1>a, <1>b, <1>35 DEF CallStartAgain, CallOn, attr, threadVars, pointVars, schedVars,
          LocalsKnown
<1>36. ASSUME NEW u \in Threads, CallCancel(BootCore, u) PROVE PointLocksKnown'
  BY <1>a, <1>b, <1>36 DEF CallCancel, CallOn, attr, threadVars, pointVars, schedVars,
          LocalsKnown
<1>37. ASSUME NEW u \in Threads, NEW p \in Prios, CallSetPriority(BootCore, u, p) PROVE PointLocksKnown'
  BY <1>a, <1>b, <1>37 DEF CallSetPriority, CallOn, attr, threadVars, pointVars, schedVars,
          LocalsKnown
<1>38. ASSUME CancelLock(BootCore) PROVE PointLocksKnown'
  BY <1>a, <1>b, <1>38 DEF CancelLock, attr, threadVars, pointVars, schedVars,
          LocalsKnown
<1>39. ASSUME CancelDeferred(BootCore) PROVE PointLocksKnown'
  BY <1>a, <1>b, <1>39 DEF CancelDeferred, attr, threadVars, pointVars, schedVars,
          LocalsKnown
<1>40. ASSUME CancelUnlock(BootCore) PROVE PointLocksKnown'
  BY <1>a, <1>b, <1>40 DEF CancelUnlock, attr, threadVars, pointVars, schedVars,
          LocalsKnown
<1>41. ASSUME CancelQueued(BootCore) PROVE PointLocksKnown'
  BY <1>a, <1>b, <1>41 DEF CancelQueued, Kill, JoinPoint, attr, threadVars, pointVars, schedVars,
          LocalsKnown
<1>42. ASSUME CancelRunning(BootCore) PROVE PointLocksKnown'
  BY <1>a, <1>b, <1>42 DEF CancelRunning, attr, threadVars, pointVars, schedVars,
          LocalsKnown
<1>43. ASSUME CancelKill(BootCore) PROVE PointLocksKnown'
  BY <1>a, <1>b, <1>43 DEF CancelKill, Kill, JoinPoint, attr, threadVars, pointVars, schedVars,
          LocalsKnown
<1>44. ASSUME CancelNothing(BootCore) PROVE PointLocksKnown'
  BY <1>a, <1>b, <1>44 DEF CancelNothing, attr, threadVars, pointVars, schedVars,
          LocalsKnown
<1>45. ASSUME KillUnlock(BootCore) PROVE PointLocksKnown'
  BY <1>a, <1>b, <1>45 DEF KillUnlock, attr, threadVars, pointVars, schedVars,
          LocalsKnown
<1>46. ASSUME UpdatePriority(BootCore) PROVE PointLocksKnown'
  BY <1>a, <1>b, <1>46 DEF UpdatePriority, attr, threadVars, pointVars, schedVars,
          LocalsKnown
<1>47. ASSUME SetEffectivePriority(BootCore) PROVE PointLocksKnown'
  BY <1>a, <1>b, <1>47 DEF SetEffectivePriority, attr, threadVars, pointVars, schedVars,
          LocalsKnown
<1>48. ASSUME UpdateUnlock(BootCore) PROVE PointLocksKnown'
  BY <1>a, <1>b, <1>48 DEF UpdateUnlock, attr, threadVars, pointVars, schedVars,
          LocalsKnown
<1>49. ASSUME Updated(BootCore) PROVE PointLocksKnown'
  BY <1>a, <1>b, <1>49 DEF Updated, attr, threadVars, pointVars, schedVars,
          LocalsKnown
<1>50. CASE UNCHANGED controlVars
  BY <1>a, <1>b, <1>50 DEF attr, threadVars, pointVars, schedVars, coreVars, vars, controlVars,
          LocalsKnown
<1> QED
  BY StepsAre, Zenon, <1>1, <1>2, <1>3, <1>4, <1>5, <1>6, <1>7, <1>8, <1>9,
     <1>10, <1>11, <1>12, <1>13, <1>14, <1>15, <1>16, <1>17, <1>18, <1>19, <1>20,
     <1>21, <1>22, <1>23, <1>24, <1>25, <1>26, <1>27, <1>28, <1>29, <1>30, <1>31,
     <1>32, <1>33, <1>34, <1>35, <1>36, <1>37, <1>38, <1>39, <1>40, <1>41, <1>42,
     <1>43, <1>44, <1>45, <1>46, <1>47, <1>48, <1>49, <1>50 DEF Step, ControlStep


(* The sleep points.                                                          *)
LEMMA SpotsKnownStep ==
  ASSUME Cores = {BootCore}, ControlInd, [ControlNext]_controlVars
  PROVE  SpotsKnown'
<1> USE BootAssumption, NullAssumption, PointAssumption
    DEF SpotsKnown, OwnSleepPoint, Points, JoinPoint, SleepPoint, Place, Me, Other, Spot, Back, MeExits, MeInterrupted, MeKills, Exiting,
        Handling, OwnCode, WakeCode, CancelCode, PriorityCode, Goto, At, SetLock, SetState,
        SetRun, Free, Running
<1>a. SpotsKnown /\ ThreadKnown /\ LocalsKnown
  BY QueuesAre DEF ControlInd
<1>b. /\ pc \in [Cores -> ControlPlaces]
      /\ state \in [Threads -> {"NEW", "RUNNABLE", "RUNNING", "WAITING", "TERMINATED"}]
      /\ label \in [Threads -> Points \cup {NoPoint}]
      /\ rendezvous \in [Threads -> Points \cup {NoPoint}]
      /\ point \in [Cores -> Points \cup {NoPoint}]
      /\ current \in [Cores -> Threads \cup {NoThread}]
      /\ self \in [Cores -> Threads \cup {NoThread}]
      /\ after \in [Cores -> {"isr", "exitUnlock", "killUnlock"}]
  BY QueuesAre DEF ControlTypes, ControlTypeOK, FieldsOK
<1>1. ASSUME CallYield(BootCore) PROVE SpotsKnown'
  BY <1>a, <1>b, <1>1 DEF CallYield, attr, threadVars, pointVars, schedVars,
          ThreadKnown, LocalsKnown
<1>2. ASSUME CallSleep(BootCore) PROVE SpotsKnown'
  BY <1>a, <1>b, <1>2 DEF CallSleep, attr, threadVars, pointVars, schedVars,
          ThreadKnown, LocalsKnown
<1>3. ASSUME CallExit(BootCore) PROVE SpotsKnown'
  BY <1>a, <1>b, <1>3 DEF CallExit, attr, threadVars, pointVars, schedVars,
          ThreadKnown, LocalsKnown
<1>4. ASSUME NEW u \in Threads, CallStart(BootCore, u) PROVE SpotsKnown'
  BY <1>a, <1>b, <1>4 DEF CallStart, attr, threadVars, pointVars, schedVars,
          ThreadKnown, LocalsKnown
<1>5. ASSUME NEW u \in Threads, CallJoin(BootCore, u) PROVE SpotsKnown'
  BY <1>a, <1>b, <1>5 DEF CallJoin, attr, threadVars, pointVars, schedVars,
          ThreadKnown, LocalsKnown
<1>6. ASSUME Start(BootCore) PROVE SpotsKnown'
  BY <1>a, <1>b, <1>6 DEF Start, attr, threadVars, pointVars, schedVars,
          ThreadKnown, LocalsKnown
<1>7. ASSUME StartUnlock(BootCore) PROVE SpotsKnown'
  BY <1>a, <1>b, <1>7 DEF StartUnlock, attr, threadVars, pointVars, schedVars,
          ThreadKnown, LocalsKnown
<1>8. ASSUME Exit(BootCore) PROVE SpotsKnown'
  BY <1>a, <1>b, <1>8 DEF Exit, attr, threadVars, pointVars, schedVars,
          ThreadKnown, LocalsKnown
<1>9. ASSUME ExitVal(BootCore) PROVE SpotsKnown'
  BY <1>a, <1>b, <1>9 DEF ExitVal, JoinPoint, attr, threadVars, pointVars, schedVars,
          ThreadKnown, LocalsKnown
<1>10. ASSUME ExitUnlock(BootCore) PROVE SpotsKnown'
  BY <1>a, <1>b, <1>10 DEF ExitUnlock, attr, threadVars, pointVars, schedVars,
          ThreadKnown, LocalsKnown
<1>11. ASSUME SleepReturn(BootCore) PROVE SpotsKnown'
  BY <1>a, <1>b, <1>11 DEF SleepReturn, attr, threadVars, pointVars, schedVars,
          ThreadKnown, LocalsKnown
<1>12. ASSUME SleepTest(BootCore) PROVE SpotsKnown'
  BY <1>a, <1>b, <1>12 DEF SleepTest, attr, threadVars, pointVars, schedVars,
          ThreadKnown, LocalsKnown
<1>13. ASSUME SleepEnqueue(BootCore) PROVE SpotsKnown'
  BY <1>a, <1>b, <1>13 DEF SleepEnqueue, attr, threadVars, pointVars, schedVars,
          ThreadKnown, LocalsKnown
<1>14. ASSUME Wakeup(BootCore) PROVE SpotsKnown'
  BY <1>a, <1>b, <1>14 DEF Wakeup, attr, threadVars, pointVars, schedVars,
          ThreadKnown, LocalsKnown
<1>15. ASSUME WakeDone(BootCore) PROVE SpotsKnown'
  BY <1>a, <1>b, <1>15 DEF WakeDone, attr, threadVars, pointVars, schedVars,
          ThreadKnown, LocalsKnown
<1>16. ASSUME WakeFirst(BootCore) PROVE SpotsKnown'
  <2>1. PICK t \in Threads : WakesUp(t)
    BY <1>16, WakeFirstWakes, Zenon
  <2>2. /\ Place = "wake" /\ pc' = [pc EXCEPT ![BootCore] = "wakeUnlock"]
        /\ UNCHANGED <<label, point, current, self, after>>
    BY <1>16, Zenon DEF WakeFirst
  <2> QED
    BY <1>a, <1>b, <2>1, <2>2 DEF WakesUp, ThreadKnown, LocalsKnown
<1>17. ASSUME WakeUnlock(BootCore) PROVE SpotsKnown'
  BY <1>a, <1>b, <1>17 DEF WakeUnlock, attr, threadVars, pointVars, schedVars,
          ThreadKnown, LocalsKnown
<1>18. ASSUME WakeBusy(BootCore) PROVE SpotsKnown'
  BY <1>18, NeverBusy
<1>19. ASSUME WakeWait(BootCore) PROVE SpotsKnown'
  BY <1>a, <1>b, <1>19 DEF WakeWait, attr, threadVars, pointVars, schedVars,
          ThreadKnown, LocalsKnown
<1>20. ASSUME RescheduleStay(BootCore) PROVE SpotsKnown'
  BY <1>a, <1>b, <1>20 DEF RescheduleStay, attr, threadVars, pointVars, schedVars,
          ThreadKnown, LocalsKnown
<1>21. ASSUME RescheduleOut(BootCore) PROVE SpotsKnown'
  BY <1>a, <1>b, <1>21 DEF RescheduleOut, attr, threadVars, pointVars, schedVars,
          ThreadKnown, LocalsKnown
<1>22. ASSUME RescheduleIdle(BootCore) PROVE SpotsKnown'
  BY <1>a, <1>b, <1>22 DEF RescheduleIdle, attr, threadVars, pointVars, schedVars,
          ThreadKnown, LocalsKnown
<1>23. ASSUME SwitchLock(BootCore) PROVE SpotsKnown'
  BY <1>a, <1>b, <1>23 DEF SwitchLock, attr, threadVars, pointVars, schedVars,
          ThreadKnown, LocalsKnown
<1>24. ASSUME SwitchSetRun(BootCore) PROVE SpotsKnown'
  BY <1>a, <1>b, <1>24 DEF SwitchSetRun, attr, threadVars, pointVars, schedVars,
          ThreadKnown, LocalsKnown
<1>25. ASSUME SwitchSave(BootCore) PROVE SpotsKnown'
  BY <1>a, <1>b, <1>25 DEF SwitchSave, attr, threadVars, pointVars, schedVars,
          ThreadKnown, LocalsKnown
<1>26. ASSUME SwitchLeave(BootCore) PROVE SpotsKnown'
  BY <1>a, <1>b, <1>26 DEF SwitchLeave, attr, threadVars, pointVars, schedVars,
          ThreadKnown, LocalsKnown
<1>27. ASSUME Select(BootCore) PROVE SpotsKnown'
  <2>1. PICK t \in Threads : TakesThread(t)
    BY <1>27, SelectTakes, Zenon
  <2>2. /\ Place = "select" /\ pc' = [pc EXCEPT ![BootCore] = "selected"]
        /\ UNCHANGED <<label, rendezvous, point, current, after>>
    BY <1>27, Zenon DEF Select, pointVars
  <2> QED
    BY <1>a, <1>b, <2>1, <2>2 DEF TakesThread, ThreadKnown, LocalsKnown
<1>28. ASSUME Selected(BootCore) PROVE SpotsKnown'
  BY <1>a, <1>b, <1>28 DEF Selected, attr, threadVars, pointVars, schedVars,
          ThreadKnown, LocalsKnown
<1>29. ASSUME AlarmExpire(BootCore) PROVE SpotsKnown'
  BY <1>a, <1>b, <1>29 DEF AlarmExpire, attr, threadVars, pointVars, schedVars,
          ThreadKnown, LocalsKnown
<1>30. ASSUME InterruptEnd(BootCore) PROVE SpotsKnown'
  BY <1>a, <1>b, <1>30 DEF InterruptEnd, attr, threadVars, pointVars, schedVars,
          ThreadKnown, LocalsKnown
<1>31. ASSUME Interrupt(BootCore) PROVE SpotsKnown'
  BY <1>a, <1>b, <1>31 DEF Interrupt, attr, threadVars, pointVars, schedVars,
          ThreadKnown, LocalsKnown
<1>32. ASSUME SetCancelState(BootCore) PROVE SpotsKnown'
  BY <1>a, <1>b, <1>32 DEF SetCancelState, attr, threadVars, pointVars, schedVars, coreVars, vars,
          ThreadKnown, LocalsKnown
<1>33. ASSUME SetCancelType(BootCore) PROVE SpotsKnown'
  BY <1>a, <1>b, <1>33 DEF SetCancelType, attr, threadVars, pointVars, schedVars, coreVars, vars,
          ThreadKnown, LocalsKnown
<1>34. ASSUME TestCancel(BootCore) PROVE SpotsKnown'
  BY <1>a, <1>b, <1>34 DEF TestCancel, attr, threadVars, pointVars, schedVars,
          ThreadKnown, LocalsKnown
<1>35. ASSUME NEW u \in Threads, CallStartAgain(BootCore, u) PROVE SpotsKnown'
  BY <1>a, <1>b, <1>35 DEF CallStartAgain, CallOn, attr, threadVars, pointVars, schedVars,
          ThreadKnown, LocalsKnown
<1>36. ASSUME NEW u \in Threads, CallCancel(BootCore, u) PROVE SpotsKnown'
  BY <1>a, <1>b, <1>36 DEF CallCancel, CallOn, attr, threadVars, pointVars, schedVars,
          ThreadKnown, LocalsKnown
<1>37. ASSUME NEW u \in Threads, NEW p \in Prios, CallSetPriority(BootCore, u, p) PROVE SpotsKnown'
  BY <1>a, <1>b, <1>37 DEF CallSetPriority, CallOn, attr, threadVars, pointVars, schedVars,
          ThreadKnown, LocalsKnown
<1>38. ASSUME CancelLock(BootCore) PROVE SpotsKnown'
  BY <1>a, <1>b, <1>38 DEF CancelLock, attr, threadVars, pointVars, schedVars,
          ThreadKnown, LocalsKnown
<1>39. ASSUME CancelDeferred(BootCore) PROVE SpotsKnown'
  BY <1>a, <1>b, <1>39 DEF CancelDeferred, attr, threadVars, pointVars, schedVars,
          ThreadKnown, LocalsKnown
<1>40. ASSUME CancelUnlock(BootCore) PROVE SpotsKnown'
  BY <1>a, <1>b, <1>40 DEF CancelUnlock, attr, threadVars, pointVars, schedVars,
          ThreadKnown, LocalsKnown
<1>41. ASSUME CancelQueued(BootCore) PROVE SpotsKnown'
  BY <1>a, <1>b, <1>41 DEF CancelQueued, Kill, JoinPoint, attr, threadVars, pointVars, schedVars,
          ThreadKnown, LocalsKnown
<1>42. ASSUME CancelRunning(BootCore) PROVE SpotsKnown'
  BY <1>a, <1>b, <1>42 DEF CancelRunning, attr, threadVars, pointVars, schedVars,
          ThreadKnown, LocalsKnown
<1>43. ASSUME CancelKill(BootCore) PROVE SpotsKnown'
  BY <1>a, <1>b, <1>43 DEF CancelKill, Kill, JoinPoint, attr, threadVars, pointVars, schedVars,
          ThreadKnown, LocalsKnown
<1>44. ASSUME CancelNothing(BootCore) PROVE SpotsKnown'
  BY <1>a, <1>b, <1>44 DEF CancelNothing, attr, threadVars, pointVars, schedVars,
          ThreadKnown, LocalsKnown
<1>45. ASSUME KillUnlock(BootCore) PROVE SpotsKnown'
  BY <1>a, <1>b, <1>45 DEF KillUnlock, attr, threadVars, pointVars, schedVars,
          ThreadKnown, LocalsKnown
<1>46. ASSUME UpdatePriority(BootCore) PROVE SpotsKnown'
  BY <1>a, <1>b, <1>46 DEF UpdatePriority, attr, threadVars, pointVars, schedVars,
          ThreadKnown, LocalsKnown
<1>47. ASSUME SetEffectivePriority(BootCore) PROVE SpotsKnown'
  BY <1>a, <1>b, <1>47 DEF SetEffectivePriority, attr, threadVars, pointVars, schedVars,
          ThreadKnown, LocalsKnown
<1>48. ASSUME UpdateUnlock(BootCore) PROVE SpotsKnown'
  BY <1>a, <1>b, <1>48 DEF UpdateUnlock, attr, threadVars, pointVars, schedVars,
          ThreadKnown, LocalsKnown
<1>49. ASSUME Updated(BootCore) PROVE SpotsKnown'
  BY <1>a, <1>b, <1>49 DEF Updated, attr, threadVars, pointVars, schedVars,
          ThreadKnown, LocalsKnown
<1>50. CASE UNCHANGED controlVars
  BY <1>a, <1>b, <1>50 DEF attr, threadVars, pointVars, schedVars, coreVars, vars, controlVars,
          ThreadKnown, LocalsKnown
<1> QED
  BY StepsAre, Zenon, <1>1, <1>2, <1>3, <1>4, <1>5, <1>6, <1>7, <1>8, <1>9,
     <1>10, <1>11, <1>12, <1>13, <1>14, <1>15, <1>16, <1>17, <1>18, <1>19, <1>20,
     <1>21, <1>22, <1>23, <1>24, <1>25, <1>26, <1>27, <1>28, <1>29, <1>30, <1>31,
     <1>32, <1>33, <1>34, <1>35, <1>36, <1>37, <1>38, <1>39, <1>40, <1>41, <1>42,
     <1>43, <1>44, <1>45, <1>46, <1>47, <1>48, <1>49, <1>50 DEF Step, ControlStep

(* No wake-up is lost.                                                         *)
LEMMA WakeUpsKnownStep ==
  ASSUME Cores = {BootCore}, ControlInd, [ControlNext]_controlVars
  PROVE  WakeUpsKnown'
<1> USE BootAssumption, NullAssumption, PointAssumption
    DEF WakeUpsKnown, Condition, Waking, Points, JoinPoint, SleepPoint, Place, Me, Other, Spot, Back, MeExits, MeInterrupted, MeKills, Exiting,
        Handling, OwnCode, WakeCode, CancelCode, PriorityCode, Goto, At, SetLock, SetState,
        SetRun, Free, Running
<1>a. WakeUpsKnown /\ ThreadKnown /\ LocalsKnown /\ SpotsKnown
  BY QueuesAre DEF ControlInd
<1>b. /\ pc \in [Cores -> ControlPlaces]
      /\ state \in [Threads -> {"NEW", "RUNNABLE", "RUNNING", "WAITING", "TERMINATED"}]
      /\ alarm \in [Threads -> {"off", "pending", "due"}]
      /\ point \in [Cores -> Points \cup {NoPoint}]
      /\ current \in [Cores -> Threads \cup {NoThread}]
      /\ self \in [Cores -> Threads \cup {NoThread}]
      /\ after \in [Cores -> {"isr", "exitUnlock", "killUnlock"}]
  BY QueuesAre DEF ControlTypes, ControlTypeOK, FieldsOK
<1>c. QueueGrows
  BY QueuesStep
<1>1. ASSUME CallYield(BootCore) PROVE WakeUpsKnown'
  BY <1>a, <1>b, <1>c, <1>1 DEF CallYield, attr, threadVars, pointVars, schedVars,
          ThreadKnown, LocalsKnown, QueueGrows
<1>2. ASSUME CallSleep(BootCore) PROVE WakeUpsKnown'
  <2>1. /\ Place = "thread" /\ Me \in Threads /\ state[Me] = "RUNNING" /\ current[BootCore] = Me
        /\ pc' = [pc EXCEPT ![BootCore] = "sleep"]
        /\ \A t \in Threads : t # Me => alarm'[t] = alarm[t]
        /\ UNCHANGED <<state, queue, current>>
    BY <1>a, <1>b, <1>2 DEF CallSleep, ThreadKnown, pointVars
  <2>2. queue[SleepPoint(Me)] = <<>>
    <3>1. SleepPoint(Me) \in Points
      BY <2>1
    <3>2. WaitQueueExact /\ queue \in [Points -> Seq(Threads)] /\ FieldsOK
      BY QueuesAre DEF QueuesSound
    <3>3. SUFFICES ASSUME queue[SleepPoint(Me)] # <<>> PROVE FALSE
      OBVIOUS
    <3>4. PICK u \in Threads : state[u] = "WAITING" /\ rendezvous[u] = SleepPoint(Me)
      BY <3>1, <3>2, <3>3, WaitQueueHead
    <3>5. SpotsKnown => OwnSleepPoint(rendezvous[u], u)
      BY <3>4, Zenon DEF SpotsKnown
    <3>6. u = Me
      BY <1>a, <3>1, <3>4, <3>5 DEF OwnSleepPoint
    <3> QED
      BY <2>1, <3>4, <3>6
  <2>3. ASSUME NEW r \in Points, queue[r] # <<>>, Condition(r)'
        PROVE  Condition(r) /\ (alarm'[r[2]] = alarm[r[2]] \/ r[1] = "joinPoint")
    BY <2>1, <2>2, <2>3
  <2> QED
    BY <1>a, <1>b, <2>1, <2>3
<1>3. ASSUME CallExit(BootCore) PROVE WakeUpsKnown'
  BY <1>a, <1>b, <1>c, <1>3 DEF CallExit, attr, threadVars, pointVars, schedVars,
          ThreadKnown, LocalsKnown, QueueGrows
<1>4. ASSUME NEW u \in Threads, CallStart(BootCore, u) PROVE WakeUpsKnown'
  BY <1>a, <1>b, <1>c, <1>4 DEF CallStart, attr, threadVars, pointVars, schedVars,
          ThreadKnown, LocalsKnown, QueueGrows
<1>5. ASSUME NEW u \in Threads, CallJoin(BootCore, u) PROVE WakeUpsKnown'
  BY <1>a, <1>b, <1>c, <1>5 DEF CallJoin, attr, threadVars, pointVars, schedVars,
          ThreadKnown, LocalsKnown, QueueGrows
<1>6. ASSUME Start(BootCore) PROVE WakeUpsKnown'
  BY <1>a, <1>b, <1>c, <1>6 DEF Start, attr, threadVars, pointVars, schedVars,
          ThreadKnown, LocalsKnown, QueueGrows
<1>7. ASSUME StartUnlock(BootCore) PROVE WakeUpsKnown'
  BY <1>a, <1>b, <1>c, <1>7 DEF StartUnlock, attr, threadVars, pointVars, schedVars,
          ThreadKnown, LocalsKnown, QueueGrows
<1>8. ASSUME Exit(BootCore) PROVE WakeUpsKnown'
  BY <1>a, <1>b, <1>c, <1>8 DEF Exit, attr, threadVars, pointVars, schedVars,
          ThreadKnown, LocalsKnown, QueueGrows
<1>9. ASSUME ExitVal(BootCore) PROVE WakeUpsKnown'
  BY <1>a, <1>b, <1>c, <1>9 DEF ExitVal, JoinPoint, attr, threadVars, pointVars, schedVars,
          ThreadKnown, LocalsKnown, QueueGrows
<1>10. ASSUME ExitUnlock(BootCore) PROVE WakeUpsKnown'
  BY <1>a, <1>b, <1>c, <1>10 DEF ExitUnlock, attr, threadVars, pointVars, schedVars,
          ThreadKnown, LocalsKnown, QueueGrows
<1>11. ASSUME SleepReturn(BootCore) PROVE WakeUpsKnown'
  BY <1>a, <1>b, <1>c, <1>11 DEF SleepReturn, attr, threadVars, pointVars, schedVars,
          ThreadKnown, LocalsKnown, QueueGrows
<1>12. ASSUME SleepTest(BootCore) PROVE WakeUpsKnown'
  BY <1>a, <1>b, <1>c, <1>12 DEF SleepTest, attr, threadVars, pointVars, schedVars,
          ThreadKnown, LocalsKnown, QueueGrows
<1>13. ASSUME SleepEnqueue(BootCore) PROVE WakeUpsKnown'
  BY <1>a, <1>b, <1>c, <1>13 DEF SleepEnqueue, attr, threadVars, pointVars, schedVars,
          ThreadKnown, LocalsKnown, QueueGrows
<1>14. ASSUME Wakeup(BootCore) PROVE WakeUpsKnown'
  BY <1>a, <1>b, <1>c, <1>14 DEF Wakeup, attr, threadVars, pointVars, schedVars,
          ThreadKnown, LocalsKnown, QueueGrows
<1>15. ASSUME WakeDone(BootCore) PROVE WakeUpsKnown'
  BY <1>a, <1>b, <1>c, <1>15 DEF WakeDone, attr, threadVars, pointVars, schedVars,
          ThreadKnown, LocalsKnown, QueueGrows
<1>16. ASSUME WakeFirst(BootCore) PROVE WakeUpsKnown'
  <2>1. PICK t \in Threads : WakesUp(t)
    BY <1>16, WakeFirstWakes, Zenon
  <2>2. /\ Place = "wake" /\ pc' = [pc EXCEPT ![BootCore] = "wakeUnlock"]
        /\ UNCHANGED <<alarm, point, current, self, after>>
    BY <1>16, Zenon DEF WakeFirst
  <2> QED
    BY <1>a, <1>b, <1>c, <2>1, <2>2 DEF WakesUp, ThreadKnown, LocalsKnown, QueueGrows
<1>17. ASSUME WakeUnlock(BootCore) PROVE WakeUpsKnown'
  BY <1>a, <1>b, <1>c, <1>17 DEF WakeUnlock, attr, threadVars, pointVars, schedVars,
          ThreadKnown, LocalsKnown, QueueGrows
<1>18. ASSUME WakeBusy(BootCore) PROVE WakeUpsKnown'
  BY <1>18, NeverBusy
<1>19. ASSUME WakeWait(BootCore) PROVE WakeUpsKnown'
  BY <1>a, <1>b, <1>c, <1>19 DEF WakeWait, attr, threadVars, pointVars, schedVars,
          ThreadKnown, LocalsKnown, QueueGrows
<1>20. ASSUME RescheduleStay(BootCore) PROVE WakeUpsKnown'
  BY <1>a, <1>b, <1>c, <1>20 DEF RescheduleStay, attr, threadVars, pointVars, schedVars,
          ThreadKnown, LocalsKnown, QueueGrows
<1>21. ASSUME RescheduleOut(BootCore) PROVE WakeUpsKnown'
  BY <1>a, <1>b, <1>c, <1>21 DEF RescheduleOut, attr, threadVars, pointVars, schedVars,
          ThreadKnown, LocalsKnown, QueueGrows
<1>22. ASSUME RescheduleIdle(BootCore) PROVE WakeUpsKnown'
  BY <1>a, <1>b, <1>c, <1>22 DEF RescheduleIdle, attr, threadVars, pointVars, schedVars,
          ThreadKnown, LocalsKnown, QueueGrows
<1>23. ASSUME SwitchLock(BootCore) PROVE WakeUpsKnown'
  BY <1>a, <1>b, <1>c, <1>23 DEF SwitchLock, attr, threadVars, pointVars, schedVars,
          ThreadKnown, LocalsKnown, QueueGrows
<1>24. ASSUME SwitchSetRun(BootCore) PROVE WakeUpsKnown'
  BY <1>a, <1>b, <1>c, <1>24 DEF SwitchSetRun, attr, threadVars, pointVars, schedVars,
          ThreadKnown, LocalsKnown, QueueGrows
<1>25. ASSUME SwitchSave(BootCore) PROVE WakeUpsKnown'
  BY <1>a, <1>b, <1>c, <1>25 DEF SwitchSave, attr, threadVars, pointVars, schedVars,
          ThreadKnown, LocalsKnown, QueueGrows
<1>26. ASSUME SwitchLeave(BootCore) PROVE WakeUpsKnown'
  BY <1>a, <1>b, <1>c, <1>26 DEF SwitchLeave, attr, threadVars, pointVars, schedVars,
          ThreadKnown, LocalsKnown, QueueGrows
<1>27. ASSUME Select(BootCore) PROVE WakeUpsKnown'
  <2>1. PICK t \in Threads : TakesThread(t)
    BY <1>27, SelectTakes, Zenon
  <2>2. /\ Place = "select" /\ pc' = [pc EXCEPT ![BootCore] = "selected"]
        /\ UNCHANGED <<queue, alarm, point, current, after>>
    BY <1>27, Zenon DEF Select, pointVars
  <2> QED
    BY <1>a, <1>b, <1>c, <2>1, <2>2 DEF TakesThread, ThreadKnown, LocalsKnown
<1>28. ASSUME Selected(BootCore) PROVE WakeUpsKnown'
  BY <1>a, <1>b, <1>c, <1>28 DEF Selected, attr, threadVars, pointVars, schedVars,
          ThreadKnown, LocalsKnown, QueueGrows
<1>29. ASSUME AlarmExpire(BootCore) PROVE WakeUpsKnown'
  BY <1>a, <1>b, <1>c, <1>29 DEF AlarmExpire, attr, threadVars, pointVars, schedVars,
          ThreadKnown, LocalsKnown, QueueGrows
<1>30. ASSUME InterruptEnd(BootCore) PROVE WakeUpsKnown'
  BY <1>a, <1>b, <1>c, <1>30 DEF InterruptEnd, attr, threadVars, pointVars, schedVars,
          ThreadKnown, LocalsKnown, QueueGrows
<1>31. ASSUME Interrupt(BootCore) PROVE WakeUpsKnown'
  BY <1>a, <1>b, <1>c, <1>31 DEF Interrupt, attr, threadVars, pointVars, schedVars,
          ThreadKnown, LocalsKnown, QueueGrows
<1>32. ASSUME SetCancelState(BootCore) PROVE WakeUpsKnown'
  BY <1>a, <1>b, <1>c, <1>32 DEF SetCancelState, attr, threadVars, pointVars, schedVars, coreVars, vars,
          ThreadKnown, LocalsKnown, QueueGrows
<1>33. ASSUME SetCancelType(BootCore) PROVE WakeUpsKnown'
  BY <1>a, <1>b, <1>c, <1>33 DEF SetCancelType, attr, threadVars, pointVars, schedVars, coreVars, vars,
          ThreadKnown, LocalsKnown, QueueGrows
<1>34. ASSUME TestCancel(BootCore) PROVE WakeUpsKnown'
  BY <1>a, <1>b, <1>c, <1>34 DEF TestCancel, attr, threadVars, pointVars, schedVars,
          ThreadKnown, LocalsKnown, QueueGrows
<1>35. ASSUME NEW u \in Threads, CallStartAgain(BootCore, u) PROVE WakeUpsKnown'
  BY <1>a, <1>b, <1>c, <1>35 DEF CallStartAgain, CallOn, attr, threadVars, pointVars, schedVars,
          ThreadKnown, LocalsKnown, QueueGrows
<1>36. ASSUME NEW u \in Threads, CallCancel(BootCore, u) PROVE WakeUpsKnown'
  BY <1>a, <1>b, <1>c, <1>36 DEF CallCancel, CallOn, attr, threadVars, pointVars, schedVars,
          ThreadKnown, LocalsKnown, QueueGrows
<1>37. ASSUME NEW u \in Threads, NEW p \in Prios, CallSetPriority(BootCore, u, p) PROVE WakeUpsKnown'
  BY <1>a, <1>b, <1>c, <1>37 DEF CallSetPriority, CallOn, attr, threadVars, pointVars, schedVars,
          ThreadKnown, LocalsKnown, QueueGrows
<1>38. ASSUME CancelLock(BootCore) PROVE WakeUpsKnown'
  BY <1>a, <1>b, <1>c, <1>38 DEF CancelLock, attr, threadVars, pointVars, schedVars,
          ThreadKnown, LocalsKnown, QueueGrows
<1>39. ASSUME CancelDeferred(BootCore) PROVE WakeUpsKnown'
  BY <1>a, <1>b, <1>c, <1>39 DEF CancelDeferred, attr, threadVars, pointVars, schedVars,
          ThreadKnown, LocalsKnown, QueueGrows
<1>40. ASSUME CancelUnlock(BootCore) PROVE WakeUpsKnown'
  BY <1>a, <1>b, <1>c, <1>40 DEF CancelUnlock, attr, threadVars, pointVars, schedVars,
          ThreadKnown, LocalsKnown, QueueGrows
<1>41. ASSUME CancelQueued(BootCore) PROVE WakeUpsKnown'
  BY <1>a, <1>b, <1>c, <1>41 DEF CancelQueued, Kill, JoinPoint, attr, threadVars, pointVars, schedVars,
          ThreadKnown, LocalsKnown, QueueGrows
<1>42. ASSUME CancelRunning(BootCore) PROVE WakeUpsKnown'
  BY <1>a, <1>b, <1>c, <1>42 DEF CancelRunning, attr, threadVars, pointVars, schedVars,
          ThreadKnown, LocalsKnown, QueueGrows
<1>43. ASSUME CancelKill(BootCore) PROVE WakeUpsKnown'
  BY <1>a, <1>b, <1>c, <1>43 DEF CancelKill, Kill, JoinPoint, attr, threadVars, pointVars, schedVars,
          ThreadKnown, LocalsKnown, QueueGrows
<1>44. ASSUME CancelNothing(BootCore) PROVE WakeUpsKnown'
  BY <1>a, <1>b, <1>c, <1>44 DEF CancelNothing, attr, threadVars, pointVars, schedVars,
          ThreadKnown, LocalsKnown, QueueGrows
<1>45. ASSUME KillUnlock(BootCore) PROVE WakeUpsKnown'
  BY <1>a, <1>b, <1>c, <1>45 DEF KillUnlock, attr, threadVars, pointVars, schedVars,
          ThreadKnown, LocalsKnown, QueueGrows
<1>46. ASSUME UpdatePriority(BootCore) PROVE WakeUpsKnown'
  BY <1>a, <1>b, <1>c, <1>46 DEF UpdatePriority, attr, threadVars, pointVars, schedVars,
          ThreadKnown, LocalsKnown, QueueGrows
<1>47. ASSUME SetEffectivePriority(BootCore) PROVE WakeUpsKnown'
  BY <1>a, <1>b, <1>c, <1>47 DEF SetEffectivePriority, attr, threadVars, pointVars, schedVars,
          ThreadKnown, LocalsKnown, QueueGrows
<1>48. ASSUME UpdateUnlock(BootCore) PROVE WakeUpsKnown'
  BY <1>a, <1>b, <1>c, <1>48 DEF UpdateUnlock, attr, threadVars, pointVars, schedVars,
          ThreadKnown, LocalsKnown, QueueGrows
<1>49. ASSUME Updated(BootCore) PROVE WakeUpsKnown'
  BY <1>a, <1>b, <1>c, <1>49 DEF Updated, attr, threadVars, pointVars, schedVars,
          ThreadKnown, LocalsKnown, QueueGrows
<1>50. CASE UNCHANGED controlVars
  BY <1>a, <1>b, <1>c, <1>50 DEF attr, threadVars, pointVars, schedVars, coreVars, vars, controlVars,
          ThreadKnown, LocalsKnown, QueueGrows
<1> QED
  BY StepsAre, Zenon, <1>1, <1>2, <1>3, <1>4, <1>5, <1>6, <1>7, <1>8, <1>9,
     <1>10, <1>11, <1>12, <1>13, <1>14, <1>15, <1>16, <1>17, <1>18, <1>19, <1>20,
     <1>21, <1>22, <1>23, <1>24, <1>25, <1>26, <1>27, <1>28, <1>29, <1>30, <1>31,
     <1>32, <1>33, <1>34, <1>35, <1>36, <1>37, <1>38, <1>39, <1>40, <1>41, <1>42,
     <1>43, <1>44, <1>45, <1>46, <1>47, <1>48, <1>49, <1>50 DEF Step, ControlStep

(* No thread is runnable while the hint is not set.                          *)
LEMMA NoneRunnable ==
  ASSUME ControlInd, ~runQueueHint
  PROVE  \A t \in Threads : state[t] # "RUNNABLE"
<1>1. FieldsOK /\ QueuesSound
  BY QueuesAre
<1>2. SUFFICES ASSUME NEW t \in Threads, state[t] = "RUNNABLE" PROVE FALSE
  OBVIOUS
<1>3. prio[t] \in Prios /\ runQueue[prio[t]] \in Seq(Threads)
  BY <1>1 DEF FieldsOK
<1>4. Queued(t)
  BY <1>1, <1>2 DEF QueuesSound, RunQueueExact
<1>5. runQueue[prio[t]] # <<>>
  BY <1>3, <1>4, EmptySeq DEF Queued
<1> QED
  BY <1>1, <1>3, <1>5 DEF QueuesSound, RunQueueExact, HintKnown

(* If nobody is cancelled, the thread of the highest priority runs, and a      *)
(* thread that is gone has left its exit value.                               *)
LEMMA NobodyCancelledStep ==
  ASSUME Cores = {BootCore}, ControlInd, "cancel" \notin Calls, [ControlNext]_controlVars
  PROVE  NobodyCancelled'
<1> USE BootAssumption, NullAssumption, PointAssumption
    DEF NobodyCancelled, Place, Me, Other, Spot, Back, MeExits, MeInterrupted, MeKills, Exiting,
        Handling, OwnCode, WakeCode, CancelCode, PriorityCode, Goto, At, SetLock, SetState,
        SetRun, Free, Running
<1>a. NobodyCancelled /\ ThreadKnown /\ LocalsKnown
  BY QueuesAre DEF ControlInd
<1>b. /\ pc \in [Cores -> ControlPlaces]
      /\ state \in [Threads -> {"NEW", "RUNNABLE", "RUNNING", "WAITING", "TERMINATED"}]
      /\ val \in [Threads -> BOOLEAN]
      /\ prio \in [Threads -> Prios]
      /\ current \in [Cores -> Threads \cup {NoThread}]
      /\ self \in [Cores -> Threads \cup {NoThread}]
      /\ after \in [Cores -> {"isr", "exitUnlock", "killUnlock"}]
  BY QueuesAre DEF ControlTypes, ControlTypeOK, FieldsOK
<1>1. ASSUME CallYield(BootCore) PROVE NobodyCancelled'
  BY <1>a, <1>b, <1>1 DEF CallYield, attr, threadVars, pointVars, schedVars,
          ThreadKnown, LocalsKnown
<1>2. ASSUME CallSleep(BootCore) PROVE NobodyCancelled'
  BY <1>a, <1>b, <1>2 DEF CallSleep, attr, threadVars, pointVars, schedVars,
          ThreadKnown, LocalsKnown
<1>3. ASSUME CallExit(BootCore) PROVE NobodyCancelled'
  BY <1>a, <1>b, <1>3 DEF CallExit, attr, threadVars, pointVars, schedVars,
          ThreadKnown, LocalsKnown
<1>4. ASSUME NEW u \in Threads, CallStart(BootCore, u) PROVE NobodyCancelled'
  BY <1>a, <1>b, <1>4 DEF CallStart, attr, threadVars, pointVars, schedVars,
          ThreadKnown, LocalsKnown
<1>5. ASSUME NEW u \in Threads, CallJoin(BootCore, u) PROVE NobodyCancelled'
  BY <1>a, <1>b, <1>5 DEF CallJoin, attr, threadVars, pointVars, schedVars,
          ThreadKnown, LocalsKnown
<1>6. ASSUME Start(BootCore) PROVE NobodyCancelled'
  BY <1>a, <1>b, <1>6 DEF Start, attr, threadVars, pointVars, schedVars,
          ThreadKnown, LocalsKnown
<1>7. ASSUME StartUnlock(BootCore) PROVE NobodyCancelled'
  BY <1>a, <1>b, <1>7 DEF StartUnlock, attr, threadVars, pointVars, schedVars,
          ThreadKnown, LocalsKnown
<1>8. ASSUME Exit(BootCore) PROVE NobodyCancelled'
  BY <1>a, <1>b, <1>8 DEF Exit, attr, threadVars, pointVars, schedVars,
          ThreadKnown, LocalsKnown
<1>9. ASSUME ExitVal(BootCore) PROVE NobodyCancelled'
  BY <1>a, <1>b, <1>9 DEF ExitVal, JoinPoint, attr, threadVars, pointVars, schedVars,
          ThreadKnown, LocalsKnown
<1>10. ASSUME ExitUnlock(BootCore) PROVE NobodyCancelled'
  BY <1>a, <1>b, <1>10 DEF ExitUnlock, attr, threadVars, pointVars, schedVars,
          ThreadKnown, LocalsKnown
<1>11. ASSUME SleepReturn(BootCore) PROVE NobodyCancelled'
  BY <1>a, <1>b, <1>11 DEF SleepReturn, attr, threadVars, pointVars, schedVars,
          ThreadKnown, LocalsKnown
<1>12. ASSUME SleepTest(BootCore) PROVE NobodyCancelled'
  BY <1>a, <1>b, <1>12 DEF SleepTest, attr, threadVars, pointVars, schedVars,
          ThreadKnown, LocalsKnown
<1>13. ASSUME SleepEnqueue(BootCore) PROVE NobodyCancelled'
  BY <1>a, <1>b, <1>13 DEF SleepEnqueue, attr, threadVars, pointVars, schedVars,
          ThreadKnown, LocalsKnown
<1>14. ASSUME Wakeup(BootCore) PROVE NobodyCancelled'
  BY <1>a, <1>b, <1>14 DEF Wakeup, attr, threadVars, pointVars, schedVars,
          ThreadKnown, LocalsKnown
<1>15. ASSUME WakeDone(BootCore) PROVE NobodyCancelled'
  BY <1>a, <1>b, <1>15 DEF WakeDone, attr, threadVars, pointVars, schedVars,
          ThreadKnown, LocalsKnown
<1>16. ASSUME WakeFirst(BootCore) PROVE NobodyCancelled'
  <2>1. PICK t \in Threads : WakesUp(t)
    BY <1>16, WakeFirstWakes, Zenon
  <2>2. /\ Place = "wake" /\ pc' = [pc EXCEPT ![BootCore] = "wakeUnlock"]
        /\ UNCHANGED <<prio, val, point, current, self, after>>
    BY <1>16, Zenon DEF WakeFirst
  <2> QED
    BY <1>a, <1>b, <2>1, <2>2 DEF WakesUp, ThreadKnown, LocalsKnown
<1>17. ASSUME WakeUnlock(BootCore) PROVE NobodyCancelled'
  BY <1>a, <1>b, <1>17 DEF WakeUnlock, attr, threadVars, pointVars, schedVars,
          ThreadKnown, LocalsKnown
<1>18. ASSUME WakeBusy(BootCore) PROVE NobodyCancelled'
  BY <1>18, NeverBusy
<1>19. ASSUME WakeWait(BootCore) PROVE NobodyCancelled'
  BY <1>a, <1>b, <1>19 DEF WakeWait, attr, threadVars, pointVars, schedVars,
          ThreadKnown, LocalsKnown
<1>20. ASSUME RescheduleStay(BootCore) PROVE NobodyCancelled'
  <2>1. \A t \in Threads : state[t] # "RUNNABLE"
    BY <1>20, NoneRunnable DEF RescheduleStay
  <2> QED
    BY <1>a, <1>b, <1>20, <2>1 DEF RescheduleStay, pointVars, schedVars, ThreadKnown, LocalsKnown
<1>21. ASSUME RescheduleOut(BootCore) PROVE NobodyCancelled'
  BY <1>a, <1>b, <1>21 DEF RescheduleOut, attr, threadVars, pointVars, schedVars,
          ThreadKnown, LocalsKnown
<1>22. ASSUME RescheduleIdle(BootCore) PROVE NobodyCancelled'
  BY <1>a, <1>b, <1>22 DEF RescheduleIdle, attr, threadVars, pointVars, schedVars,
          ThreadKnown, LocalsKnown
<1>23. ASSUME SwitchLock(BootCore) PROVE NobodyCancelled'
  BY <1>a, <1>b, <1>23 DEF SwitchLock, attr, threadVars, pointVars, schedVars,
          ThreadKnown, LocalsKnown
<1>24. ASSUME SwitchSetRun(BootCore) PROVE NobodyCancelled'
  BY <1>a, <1>b, <1>24 DEF SwitchSetRun, attr, threadVars, pointVars, schedVars,
          ThreadKnown, LocalsKnown
<1>25. ASSUME SwitchSave(BootCore) PROVE NobodyCancelled'
  BY <1>a, <1>b, <1>25 DEF SwitchSave, attr, threadVars, pointVars, schedVars,
          ThreadKnown, LocalsKnown
<1>26. ASSUME SwitchLeave(BootCore) PROVE NobodyCancelled'
  BY <1>a, <1>b, <1>26 DEF SwitchLeave, attr, threadVars, pointVars, schedVars,
          ThreadKnown, LocalsKnown
<1>27. ASSUME Select(BootCore) PROVE NobodyCancelled'
  <2>1. PICK t \in Threads : TakesThread(t)
    BY <1>27, SelectTakes, Zenon
  <2>2. /\ Place = "select" /\ pc' = [pc EXCEPT ![BootCore] = "selected"]
        /\ UNCHANGED <<prio, val, after>>
    BY <1>27, Zenon DEF Select, pointVars
  <2> QED
    BY <1>a, <1>b, <2>1, <2>2 DEF TakesThread, ThreadKnown, LocalsKnown
<1>28. ASSUME Selected(BootCore) PROVE NobodyCancelled'
  BY <1>a, <1>b, <1>28 DEF Selected, attr, threadVars, pointVars, schedVars,
          ThreadKnown, LocalsKnown
<1>29. ASSUME AlarmExpire(BootCore) PROVE NobodyCancelled'
  BY <1>a, <1>b, <1>29 DEF AlarmExpire, attr, threadVars, pointVars, schedVars,
          ThreadKnown, LocalsKnown
<1>30. ASSUME InterruptEnd(BootCore) PROVE NobodyCancelled'
  BY <1>a, <1>b, <1>30 DEF InterruptEnd, attr, threadVars, pointVars, schedVars,
          ThreadKnown, LocalsKnown
<1>31. ASSUME Interrupt(BootCore) PROVE NobodyCancelled'
  BY <1>a, <1>b, <1>31 DEF Interrupt, attr, threadVars, pointVars, schedVars,
          ThreadKnown, LocalsKnown
<1>32. ASSUME SetCancelState(BootCore) PROVE NobodyCancelled'
  BY <1>a, <1>b, <1>32 DEF SetCancelState, attr, threadVars, pointVars, schedVars, coreVars, vars,
          ThreadKnown, LocalsKnown
<1>33. ASSUME SetCancelType(BootCore) PROVE NobodyCancelled'
  BY <1>a, <1>b, <1>33 DEF SetCancelType, attr, threadVars, pointVars, schedVars, coreVars, vars,
          ThreadKnown, LocalsKnown
<1>34. ASSUME TestCancel(BootCore) PROVE NobodyCancelled'
  BY <1>a, <1>b, <1>34 DEF TestCancel, attr, threadVars, pointVars, schedVars,
          ThreadKnown, LocalsKnown
<1>35. ASSUME NEW u \in Threads, CallStartAgain(BootCore, u) PROVE NobodyCancelled'
  BY <1>a, <1>b, <1>35 DEF CallStartAgain, CallOn, attr, threadVars, pointVars, schedVars,
          ThreadKnown, LocalsKnown
<1>36. ASSUME NEW u \in Threads, CallCancel(BootCore, u) PROVE NobodyCancelled'
  BY <1>a, <1>b, <1>36 DEF CallCancel, CallOn, attr, threadVars, pointVars, schedVars,
          ThreadKnown, LocalsKnown
<1>37. ASSUME NEW u \in Threads, NEW p \in Prios, CallSetPriority(BootCore, u, p) PROVE NobodyCancelled'
  BY <1>a, <1>b, <1>37 DEF CallSetPriority, CallOn, attr, threadVars, pointVars, schedVars,
          ThreadKnown, LocalsKnown
<1>38. ASSUME CancelLock(BootCore) PROVE NobodyCancelled'
  BY <1>a, <1>b, <1>38 DEF CancelLock, attr, threadVars, pointVars, schedVars,
          ThreadKnown, LocalsKnown
<1>39. ASSUME CancelDeferred(BootCore) PROVE NobodyCancelled'
  BY <1>a, <1>b, <1>39 DEF CancelDeferred, attr, threadVars, pointVars, schedVars,
          ThreadKnown, LocalsKnown
<1>40. ASSUME CancelUnlock(BootCore) PROVE NobodyCancelled'
  BY <1>a, <1>b, <1>40 DEF CancelUnlock, attr, threadVars, pointVars, schedVars,
          ThreadKnown, LocalsKnown
<1>41. ASSUME CancelQueued(BootCore) PROVE NobodyCancelled'
  BY <1>a, <1>b, <1>41 DEF CancelQueued, Kill, JoinPoint, attr, threadVars, pointVars, schedVars,
          ThreadKnown, LocalsKnown
<1>42. ASSUME CancelRunning(BootCore) PROVE NobodyCancelled'
  BY <1>a, <1>b, <1>42 DEF CancelRunning, attr, threadVars, pointVars, schedVars,
          ThreadKnown, LocalsKnown
<1>43. ASSUME CancelKill(BootCore) PROVE NobodyCancelled'
  BY <1>a, <1>b, <1>43 DEF CancelKill, Kill, JoinPoint, attr, threadVars, pointVars, schedVars,
          ThreadKnown, LocalsKnown
<1>44. ASSUME CancelNothing(BootCore) PROVE NobodyCancelled'
  BY <1>a, <1>b, <1>44 DEF CancelNothing, attr, threadVars, pointVars, schedVars,
          ThreadKnown, LocalsKnown
<1>45. ASSUME KillUnlock(BootCore) PROVE NobodyCancelled'
  BY <1>a, <1>b, <1>45 DEF KillUnlock, attr, threadVars, pointVars, schedVars,
          ThreadKnown, LocalsKnown
<1>46. ASSUME UpdatePriority(BootCore) PROVE NobodyCancelled'
  BY <1>a, <1>b, <1>46 DEF UpdatePriority, attr, threadVars, pointVars, schedVars,
          ThreadKnown, LocalsKnown
<1>47. ASSUME SetEffectivePriority(BootCore) PROVE NobodyCancelled'
  BY <1>a, <1>b, <1>47 DEF SetEffectivePriority, attr, threadVars, pointVars, schedVars,
          ThreadKnown, LocalsKnown
<1>48. ASSUME UpdateUnlock(BootCore) PROVE NobodyCancelled'
  BY <1>a, <1>b, <1>48 DEF UpdateUnlock, attr, threadVars, pointVars, schedVars,
          ThreadKnown, LocalsKnown
<1>49. ASSUME Updated(BootCore) PROVE NobodyCancelled'
  BY <1>a, <1>b, <1>49 DEF Updated, attr, threadVars, pointVars, schedVars,
          ThreadKnown, LocalsKnown
<1>50. CASE UNCHANGED controlVars
  BY <1>a, <1>b, <1>50 DEF attr, threadVars, pointVars, schedVars, coreVars, vars, controlVars,
          ThreadKnown, LocalsKnown
<1> QED
  BY StepsAre, Zenon, <1>1, <1>2, <1>3, <1>4, <1>5, <1>6, <1>7, <1>8, <1>9,
     <1>10, <1>11, <1>12, <1>13, <1>14, <1>15, <1>16, <1>17, <1>18, <1>19, <1>20,
     <1>21, <1>22, <1>23, <1>24, <1>25, <1>26, <1>27, <1>28, <1>29, <1>30, <1>31,
     <1>32, <1>33, <1>34, <1>35, <1>36, <1>37, <1>38, <1>39, <1>40, <1>41, <1>42,
     <1>43, <1>44, <1>45, <1>46, <1>47, <1>48, <1>49, <1>50 DEF Step, ControlStep

(* In the beginning only Boot runs, and nothing is queued or locked.         *)
LEMMA ControlInitSound ==
  ASSUME Cores = {BootCore}, ControlInit
  PROVE  ControlInd
<1> USE BootAssumption, NullAssumption, PointAssumption
    DEF ControlInit, Init, Place, Me, Other, Spot, Back
<1>1. ControlTypes
  <2>1. FieldsOK
    BY EmptySeq DEF FieldsOK
  <2>2. base \in [Threads -> Prios] /\ attr \in [Threads -> BOOLEAN] \X [Threads -> BOOLEAN]
                                                               \X [Threads -> BOOLEAN]
    BY DEF attr
  <2>3. pc \in [Cores -> ControlPlaces]
    BY DEF ControlPlaces, OwnCode
  <2>4. after \in [Cores -> {"isr", "exitUnlock", "killUnlock"}]
    OBVIOUS
  <2> QED
    BY <2>1, <2>2, <2>3, <2>4 DEF ControlTypes, ControlTypeOK, attr
<1>2. ThreadKnown
  BY DEF ThreadKnown, MeExits, MeInterrupted, MeKills, Exiting, Handling, OwnCode, WakeCode,
         CancelCode, PriorityCode
<1>3. LocalsKnown
  BY DEF LocalsKnown, MeExits, MeKills, Exiting, WakeCode, CancelCode, PriorityCode
<1>4. LocksKnown
  BY DEF LocksKnown, ThreadLocksKnown, PointLocksKnown, LockHeld, HoldsPoint, MeExits, MeKills,
         Exiting, WakeCode
<1>5. HintKnown /\ RunQueueExact
  BY DEF HintKnown, RunQueueExact
<1>6. WaitQueueExact
  BY DEF WaitQueueExact
<1>7. SpotsKnown
  BY DEF SpotsKnown, OwnSleepPoint
<1>8. WakeUpsKnown
  BY DEF WakeUpsKnown
<1>9. NobodyCancelled
  BY DEF NobodyCancelled, CancelCode, MeKills, WakeCode
<1> QED
  BY <1>1, <1>2, <1>3, <1>4, <1>5, <1>6, <1>7, <1>8, <1>9 DEF ControlInd

(* Every step keeps the invariant.                                           *)
LEMMA ControlIndStep ==
  ASSUME Cores = {BootCore}, ControlInd, [ControlNext]_controlVars
  PROVE  ControlInd'
<1>1. HintKnown' /\ RunQueueExact' /\ WaitQueueExact'
  BY QueuesStep, Zenon DEF QueuesSound
<1>2. LocksKnown'
  BY ThreadLocksKnownStep, PointLocksKnownStep, Zenon DEF LocksKnown
<1>3. "cancel" \notin Calls => NobodyCancelled'
  BY NobodyCancelledStep, Zenon
<1> QED
  BY <1>1, <1>2, <1>3, ControlTypesStep, ThreadKnownStep, LocalsKnownStep, SpotsKnownStep,
     WakeUpsKnownStep, Zenon DEF ControlInd

(* The invariant of one core: where the core is tells everything about its   *)
(* locks, its thread and the thread and the point it works on.               *)
THEOREM ControlInductive ==
  ASSUME Cores = {BootCore}
  PROVE  ControlSpec => []ControlInd
<1>1. ControlInit => ControlInd
  BY ControlInitSound, Zenon
<1>2. ControlInd /\ [ControlNext]_controlVars => ControlInd'
  BY ControlIndStep, Zenon
<1> QED
  BY <1>1, <1>2, PTL DEF ControlSpec

(* Every field of the threads, the queues and the core has its type, and the *)
(* core is at a place of the code.                                           *)
THEOREM ThreadControlTypes ==
  ASSUME Cores = {BootCore}
  PROVE  ControlSpec => []ControlTypeOK
<1>1. ControlInd => ControlTypeOK
  BY DEF ControlInd, ControlTypes
<1> QED
  BY <1>1, ControlInductive, PTL

(* A thread that executes sleep() or exit() is RUNNING, whoever cancelled it *)
(* or changed its priority: the assertions at rendezvous.cpp:31 and          *)
(* thread.cpp:238 hold.                                                      *)
THEOREM OneCoreCallerIsRunning ==
  ASSUME Cores = {BootCore}
  PROVE  ControlSpec => []CallerIsRunning
<1>1. ControlInd => CallerIsRunning
  BY DEF ControlInd, ThreadKnown, CallerIsRunning, OwnCode, Place, Me
<1> QED
  BY <1>1, ControlInductive, PTL

(* On a uniprocessor no lock is found taken, whatever is called on whatever  *)
(* thread: the assertion at lock.cpp:73 holds in start(), exit(), sleep(),   *)
(* wakeup(), cancel() and setPriority().                                     *)
THEOREM OneCoreNeverSpins ==
  ASSUME Cores = {BootCore}
  PROVE  ControlSpec => []ControlNeverSpinsAlone
<1> USE DEF Place, Me, Other, Spot, Free
<1>1. ASSUME ControlInd PROVE ControlNeverSpinsAlone
  <2>1. ThreadKnown /\ LocalsKnown /\ ThreadLocksKnown /\ PointLocksKnown /\ WaitQueueExact
        /\ FieldsOK
    BY <1>1, QueuesAre DEF ControlInd, LocksKnown
  <2>2. NeverSpinsAlone
    BY <2>1, BootAssumption
       DEF NeverSpinsAlone, ThreadKnown, LocalsKnown, ThreadLocksKnown, LockHeld,
           PointLocksKnown, HoldsPoint, MeExits, MeKills, Exiting, OwnCode, WakeCode
  <2>3. Place \in {"cancel", "updatePriority"} => Free(tlock[Other])
    BY <2>1 DEF ThreadKnown, LocalsKnown, ThreadLocksKnown, LockHeld, MeExits, MeKills, Exiting,
                WakeCode, CancelCode, PriorityCode
  <2>4. ASSUME Place \in {"cancelDeferred", "cancelAsync", "setEffective"},
               state[Other] = "WAITING"
        PROVE  Free(rlock[rendezvous[Other]])
    <3>1. Other \in Threads
      BY <2>1, <2>4 DEF LocalsKnown, CancelCode, PriorityCode
    <3>2. rendezvous[Other] \in Points
      BY <2>1, <2>4, <3>1 DEF WaitQueueExact
    <3> QED
      BY <2>1, <2>4, <3>2 DEF PointLocksKnown, HoldsPoint, WakeCode
  <2> QED
    BY <2>2, <2>3, <2>4 DEF ControlNeverSpinsAlone
<1> QED
  BY <1>1, ControlInductive, PTL

(* cancel() and setPriority() take a thread off the run queue, or move it    *)
(* there, without ever leaving it on a queue that does not fit its state and *)
(* its priority, or leaving a bit of the map wrong.                          *)
THEOREM OneCoreRunQueueExact ==
  ASSUME Cores = {BootCore}
  PROVE  ControlSpec => []RunQueueExact
<1>1. ControlInd => RunQueueExact
  BY DEF ControlInd
<1> QED
  BY <1>1, ControlInductive, PTL

(* Nor do they leave it on the queue of a rendezvous point when it no longer *)
(* waits, or out of the order of priority there.                             *)
THEOREM OneCoreWaitQueueExact ==
  ASSUME Cores = {BootCore}
  PROVE  ControlSpec => []WaitQueueExact
<1>1. ControlInd => WaitQueueExact
  BY DEF ControlInd
<1> QED
  BY <1>1, ControlInductive, PTL

(* Cancelling threads and changing their priorities loses no wake-up: those  *)
(* that join a cancelled thread are woken like those that join one that      *)
(* exits.                                                                    *)
THEOREM OneCoreNoLostWakeup ==
  ASSUME Cores = {BootCore}
  PROVE  ControlSpec => []NoLostWakeup
<1>1. ASSUME ControlInd PROVE NoLostWakeup
  <2>1. WakeUpsKnown
    BY <1>1 DEF ControlInd
  <2> QED
    BY <2>1, BootAssumption DEF WakeUpsKnown, NoLostWakeup, Awaited, Waking, Condition, At, Place, Spot
<1> QED
  BY <1>1, ControlInductive, PTL

(* As long as nobody is cancelled, the thread that runs is of the highest    *)
(* priority among those that are ready, across start(), setPriority(),       *)
(* wake-ups and the end of an interrupt: whatever makes a thread runnable or *)
(* raises its priority comes to reschedule() before thread code is reached.  *)
(* A deferred cancel() does not, so the hypothesis is needed.                *)
THEOREM OneCoreHighestRuns ==
  ASSUME Cores = {BootCore}, "cancel" \notin Calls
  PROVE  ControlSpec => []HighestRuns
<1>1. ASSUME ControlInd PROVE HighestRuns
  <2>1. NobodyCancelled /\ ThreadKnown
    BY <1>1 DEF ControlInd
  <2> QED
    BY <2>1 DEF NobodyCancelled, ThreadKnown, HighestRuns, Running, At, Place, Me, OwnCode
<1> QED
  BY <1>1, ControlInductive, PTL

(* join() returns when the thread has stored the value it exits with.  A     *)
(* thread that is cancelled stores none.                                     *)
THEOREM OneCoreJoinGetsValue ==
  ASSUME Cores = {BootCore}, "cancel" \notin Calls
  PROVE  ControlSpec => JoinGetsValue
<1>1. ASSUME ControlInd, NEW c \in Cores, NEW u \in Threads, SleepReturn(c),
             point[c] = JoinPoint(u)
      PROVE  val[u]
  <2>1. NobodyCancelled
    BY <1>1 DEF ControlInd
  <2>2. c = BootCore /\ Place = "sleep" /\ state[u] = "TERMINATED"
    BY <1>1 DEF SleepReturn, Condition, JoinPoint, At, Place
  <2> QED
    BY <2>1, <2>2 DEF NobodyCancelled
<1>2. ControlInd => [\A c \in Cores : \A u \in Threads :
         SleepReturn(c) /\ point[c] = JoinPoint(u) => val[u]]_vars
  BY <1>1, Zenon
<1> QED
  BY <1>2, ControlInductive, PTL DEF JoinGetsValue

=============================================================================

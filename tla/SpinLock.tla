------------------------------ MODULE SpinLock ------------------------------
(***************************************************************************)
(* SpinLock of os/kernel/port/spinlock.cpp: the reentrant spin lock of the *)
(* kernel, one memory access at a time.  spin, owner and count are three   *)
(* separate words; only spin is written with an atomic exchange, so the    *)
(* other threads see owner and count lag behind it.                        *)
(*                                                                         *)
(* Threads call lock(), tryLock() and unlock() in any order a caller that  *)
(* pairs them may use: unlock() only by a thread that holds the lock.      *)
(***************************************************************************)
EXTENDS Naturals

CONSTANTS
    Threads,    \* the threads that use the lock, each on a core of its own
    NoThread,   \* the null Thread*
    MaxDepth    \* bound: how deep one thread nests its acquisitions

ASSUME ThreadsAssumption == NoThread \notin Threads
ASSUME DepthAssumption == MaxDepth \in Nat \ {0}

VARIABLES
    spin,       \* SpinLock::spin, the bit the exchange sets
    owner,      \* SpinLock::owner
    count,      \* SpinLock::count
    pc,         \* the next access of each thread
    call,       \* "lock" or "tryLock": the call the thread is in
    depth       \* acquisitions the callers have been told of and not undone

vars == <<spin, owner, count, pc, call, depth>>

Init ==
    /\ spin = 0
    /\ owner = NoThread
    /\ count = 0
    /\ pc = [t \in Threads |-> "idle"]
    /\ call = [t \in Threads |-> "lock"]
    /\ depth = [t \in Threads |-> 0]

Goto(t, p) == pc' = [pc EXCEPT ![t] = p]

-----------------------------------------------------------------------------
(* lock() first waits, tryLock() goes straight to the exchange. *)
Lock(t) ==
    /\ pc[t] = "idle"
    /\ depth[t] < MaxDepth
    /\ call' = [call EXCEPT ![t] = "lock"]
    /\ Goto(t, "spin")
    /\ UNCHANGED <<spin, owner, count, depth>>

TryLock(t) ==
    /\ pc[t] = "idle"
    /\ depth[t] < MaxDepth
    /\ call' = [call EXCEPT ![t] = "tryLock"]
    /\ Goto(t, "exchange")
    /\ UNCHANGED <<spin, owner, count, depth>>

(* wait(): while (spin && owner != current), two reads per iteration. *)
WaitSpin(t) ==
    /\ pc[t] = "spin"
    /\ Goto(t, IF spin = 0 THEN "exchange" ELSE "peek")
    /\ UNCHANGED <<spin, owner, count, call, depth>>

WaitOwner(t) ==
    /\ pc[t] = "peek"
    /\ Goto(t, IF owner = t THEN "exchange" ELSE "spin")
    /\ UNCHANGED <<spin, owner, count, call, depth>>

(* tryLock(): if (!spin.exchange(1)) ... *)
Exchange(t) ==
    /\ pc[t] = "exchange"
    /\ spin' = 1
    /\ Goto(t, IF spin = 0 THEN "setCount" ELSE "compare")
    /\ UNCHANGED <<owner, count, call, depth>>

SetCount(t) ==
    /\ pc[t] = "setCount"
    /\ count' = 1
    /\ Goto(t, "setOwner")
    /\ UNCHANGED <<spin, owner, call, depth>>

(* The caller is told: tryLock() returns true. *)
SetOwner(t) ==
    /\ pc[t] = "setOwner"
    /\ owner' = t
    /\ depth' = [depth EXCEPT ![t] = @ + 1]
    /\ Goto(t, "idle")
    /\ UNCHANGED <<spin, count, call>>

(* Fault: a failed tryLock() is taken for a nested one when nobody owns. *)
CompareNull(t) ==
    /\ pc[t] = "compare"
    /\ \/ /\ owner \in {t, NoThread}
          /\ count' = count + 1
          /\ depth' = [depth EXCEPT ![t] = @ + 1]
          /\ Goto(t, "idle")
       \/ /\ owner \notin {t, NoThread}
          /\ Goto(t, IF call[t] = "lock" THEN "spin" ELSE "idle")
          /\ UNCHANGED <<count, depth>>
    /\ UNCHANGED <<spin, owner, call>>

(* if (owner == current) ++count; otherwise tryLock() returns false, on    *)
(* which lock() waits again.                                               *)
Compare(t) ==
    /\ pc[t] = "compare"
    /\ \/ /\ owner = t
          /\ count' = count + 1
          /\ depth' = [depth EXCEPT ![t] = @ + 1]
          /\ Goto(t, "idle")
       \/ /\ owner # t
          /\ Goto(t, IF call[t] = "lock" THEN "spin" ELSE "idle")
          /\ UNCHANGED <<count, depth>>
    /\ UNCHANGED <<spin, owner, call>>

(* unlock(): --count; on zero owner = 0 and then spin.exchange(0). *)
Unlock(t) ==
    /\ pc[t] = "idle"
    /\ depth[t] > 0
    /\ depth' = [depth EXCEPT ![t] = @ - 1]
    /\ count' = count - 1
    /\ Goto(t, IF count - 1 = 0 THEN "clearOwner" ELSE "idle")
    /\ UNCHANGED <<spin, owner, call>>

(* Fault: the bit is cleared before the owner as well as after it. *)
ClearOwnerTwice(t) ==
    /\ pc[t] = "clearOwner"
    /\ owner' = NoThread
    /\ spin' = 0
    /\ Goto(t, "clearSpin")
    /\ UNCHANGED <<count, call, depth>>

(* Fault: the owner is cleared and the bit is left set. *)
ClearOwnerOnly(t) ==
    /\ pc[t] = "clearOwner"
    /\ owner' = NoThread
    /\ Goto(t, "idle")
    /\ UNCHANGED <<spin, count, call, depth>>

ClearOwner(t) ==
    /\ pc[t] = "clearOwner"
    /\ owner' = NoThread
    /\ Goto(t, "clearSpin")
    /\ UNCHANGED <<spin, count, call, depth>>

ClearSpin(t) ==
    /\ pc[t] = "clearSpin"
    /\ spin' = 0
    /\ Goto(t, "idle")
    /\ UNCHANGED <<owner, count, call, depth>>

Acquiring(t) ==
    \/ WaitSpin(t) \/ WaitOwner(t) \/ Exchange(t)
    \/ SetCount(t) \/ SetOwner(t) \/ Compare(t)

Releasing(t) == Unlock(t) \/ ClearOwner(t) \/ ClearSpin(t)

Next ==
    \E t \in Threads :
        Lock(t) \/ TryLock(t) \/ Acquiring(t) \/ Releasing(t)

Spec == Init /\ [][Next]_vars

(* Once in a call a thread runs on to its end, since the lock is taken with  *)
(* interrupts disabled (Synchronized calls Core::splHi() first); and a       *)
(* critical section ends.  Nothing obliges a thread to call lock().          *)
Fairness == \A t \in Threads : WF_vars(Acquiring(t)) /\ WF_vars(Releasing(t))

FairSpec == Spec /\ Fairness

-----------------------------------------------------------------------------
(* Every word and every thread's place in the code stay within their types. *)
TypeOK ==
    /\ spin \in {0, 1}
    /\ owner \in Threads \cup {NoThread}
    /\ count \in 0 .. MaxDepth
    /\ pc \in [Threads -> {"idle", "spin", "peek", "exchange", "setCount",
                          "setOwner", "compare", "clearOwner", "clearSpin"}]
    /\ call \in [Threads -> {"lock", "tryLock"}]
    /\ depth \in [Threads -> 0 .. MaxDepth]

(* A thread that was told it holds the lock finds its name and its own       *)
(* nesting depth in the two words it did not write atomically, whatever the  *)
(* threads spinning on the lock do meanwhile: what unlock() asserts at       *)
(* spinlock.cpp:105-106, and why the --count at line 107 reaches zero        *)
(* exactly at its last unlock().                                             *)
HolderOwns ==
    \A t \in Threads :
        depth[t] > 0 => spin = 1 /\ owner = t /\ count = depth[t]

(* No thread between winning the exchange and clearing the bit shares that   *)
(* stretch with another: only one ever writes owner and count, and it finds  *)
(* count zero (the assertion at spinlock.cpp:77).                            *)
InSection(t) ==
    depth[t] > 0 \/ pc[t] \in {"setCount", "setOwner", "clearOwner", "clearSpin"}

SectionExclusive ==
    /\ \A t, u \in Threads : InSection(t) /\ InSection(u) => t = u
    /\ \A t \in Threads : pc[t] = "setCount" => count = 0 /\ owner = NoThread

(* A free lock is clean: whoever takes it next inherits nothing.             *)
FreeIsClean == spin = 0 => owner = NoThread /\ count = 0

(* SpinLock implements a reentrant lock that one thread at a time holds.     *)
Abstract == INSTANCE ReentrantLock
ImplementsReentrantLock == Abstract!Spec

(* The lock does not wedge: when every critical section ends, a thread that  *)
(* tries forever without success does so because others keep succeeding      *)
(* (the bounded spin asserted at spinlock.cpp:62 can only fail that way).    *)
TryingForever(t) == <>[](pc[t] \in {"spin", "peek", "exchange", "compare"})

LockNeverWedges ==
    (\A t \in Threads : []<>(depth[t] = 0)) =>
        \A t \in Threads :
            TryingForever(t) => []<>(\E u \in Threads : pc[u] = "setOwner")
=============================================================================
